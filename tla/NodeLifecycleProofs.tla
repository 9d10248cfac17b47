------------------------ MODULE NodeLifecycleProofs ------------------------
(***************************************************************************)
(* Proofs about a bpsd home, for every bound on its blocks, kills and      *)
(* exports.  The inductive invariant says, for every call of app.New, what *)
(* the calls before it have wired; that the state of a serving node and    *)
(* every committed version have the stores the application registers and   *)
(* the module versions of a full version map; and how the params of the    *)
(* block in execution relate to those of the last one.                     *)
(***************************************************************************)
EXTENDS NodeLifecycle, TLAPS

(***************************************************************************)
(* The calls of New that come after a given one, with what follows New.    *)
(***************************************************************************)
AfterLoad          == {"serving", "exporting"}
AfterInitChainer   == {"load"} \cup AfterLoad
AfterModules       == {"initChainer"} \cup AfterInitChainer
AfterRouters       == {"modules"} \cup AfterModules
AfterICAController == {"routers"} \cup AfterRouters
AfterICAHost       == {"icacontroller"} \cup AfterICAController
AfterTransfer      == {"icahost"} \cup AfterICAHost
AfterIBC           == {"transfer"} \cup AfterTransfer
AfterTables        == {"ibc"} \cup AfterIBC
AfterStores        == {"tables"} \cup AfterTables
AfterBuild         == {"stores"} \cup AfterStores
AfterInject        == {"build"} \cup AfterBuild
Running            == {"inject"} \cup AfterInject

OwnStores == {StoreKey(m) : m \in InjectedModules \ Storeless}

(***************************************************************************)
(* The inductive invariant.                                                *)
(***************************************************************************)
Apps ==
    [built : BOOLEAN, stores : SUBSET LegacyStores, tables : SUBSET IBCStores,
     keepers : SUBSET (IBCStores \cup {"bps"}), routes : SUBSET IBCRoutes,
     modules : SUBSET AllModules, initChainer : BOOLEAN]

States ==
    [stores : {LegacyStores}, params : {Absent, ParamsBytes},
     versions : {AllModules, LegacyVersions}]

Commands ==
    [name : {"start"}, height : {-1}]
      \cup [name : {"export"}, height : -1..MaxHeight + 2, zero : BOOLEAN,
            modules : {{}, {"bps"}}]

Results ==
    [result : {"none", "ok", "panic", "error"}, asked : Int, from : Int, height : Nat,
     sections : {{}, {"bps"}, DefaultSections}]

Types ==
    /\ genesis \in [height : Nat \ {0},
                    sections : {DefaultSections, DefaultSections \ {"bps"}, {"bps"}},
                    malformed : SUBSET {"bps"}]
    /\ disk \in Seq(States)
    /\ pc \in Running \cup {"down", "failed"}
    /\ pc \in Running => cmd \in Commands
    /\ pc = "exporting" => cmd.name = "export"
    /\ app \in Apps
    /\ authorized \in BOOLEAN
    /\ exported \in Results
    /\ exported.result = "ok" => exported.sections # {}

\* What each call of New finds wired.
Stages ==
    /\ pc \in AfterInject => "bps" \in app.keepers
    /\ pc \in AfterInject \ AfterStores => app.stores = OwnStores
    /\ pc \in AfterInject \ AfterModules => app.modules = InjectedModules
    /\ pc \in AfterBuild => app.built
    /\ pc \in AfterStores => app.stores = LegacyStores
    /\ pc \in AfterTables => app.tables = IBCStores
    /\ pc \in AfterIBC => "ibc" \in app.keepers
    /\ pc \in AfterTransfer => "transfer" \in app.keepers
    /\ pc \in AfterICAHost => "icahost" \in app.keepers
    /\ pc \in AfterICAController => "icacontroller" \in app.keepers
    /\ pc \in AfterModules => app.modules = AllModules
    /\ pc \in AfterInitChainer => app.initChainer

\* A command starts without a state and serves the last committed one; without
\* one it runs InitChain, which writes the params the genesis has.
Blocks ==
    /\ pc \in Running \ {"serving"} => work = NoState
    /\ pc = "serving" /\ work = NoState => disk = <<>>
    /\ pc = "serving" /\ work # NoState =>
         /\ work \in States
         /\ "bps" \in genesis.sections => work.params = ParamsBytes
         /\ disk # <<>> /\ work.params # Last(disk).params => authorized

IInv ==
    /\ Types
    /\ Stages
    /\ Blocks
    /\ ValidHomeStarts
    /\ SectionSurvives
    /\ ExportsAskedHeight
-----------------------------------------------------------------------------
(* The configuration.                                                       *)

\* The call of New that Wired goes on with.
Follows(call) == Wiring[1 + CHOOSE k \in DOMAIN Wiring : Wiring[k] = call]

LEMMA WiringAt ==
  ASSUME NEW n \in 1..11
  PROVE  Follows(Wiring[n]) = Wiring[n + 1]
<1>1. DOMAIN Wiring = 1..12
  BY DEF Wiring
<1>2. \A k \in 1..12 : Wiring[k] = Wiring[n] => k = n
  BY DEF Wiring
<1>3. (CHOOSE k \in DOMAIN Wiring : Wiring[k] = Wiring[n]) = n
  BY <1>1, <1>2
<1>4. Follows(Wiring[n]) = Wiring[1 + n]
  BY <1>3, Zenon DEF Follows
<1>5. 1 + n = n + 1
  OBVIOUS
<1> QED
  BY <1>4, <1>5, Zenon

LEMMA WiringOrder ==
  /\ Follows("inject") = "build"
  /\ Follows("build") = "stores"
  /\ Follows("stores") = "tables"
  /\ Follows("tables") = "ibc"
  /\ Follows("ibc") = "transfer"
  /\ Follows("transfer") = "icahost"
  /\ Follows("icahost") = "icacontroller"
  /\ Follows("icacontroller") = "routers"
  /\ Follows("routers") = "modules"
  /\ Follows("modules") = "initChainer"
  /\ Follows("initChainer") = "load"
BY WiringAt DEF Wiring

\* The order of InitGenesis has auth and staking before genutil, whose gentxs
\* need them.
LEMMA GenesisOrder ==
  /\ {"auth", "staking"} \subseteq Range(InitGenesis)
  /\ Position("auth") < Position("genutil")
  /\ Position("staking") < Position("genutil")
<1>1. /\ DOMAIN InitGenesis = 1..22
      /\ \A k \in 1..22 : InitGenesis[k] = "genutil" => k = 9
      /\ \A k \in 1..22 : InitGenesis[k] = "staking" => k = 5
      /\ \A k \in 1..22 : InitGenesis[k] = "auth" => k = 2
      /\ InitGenesis[9] = "genutil" /\ InitGenesis[5] = "staking" /\ InitGenesis[2] = "auth"
  BY DEF InitGenesis
<1>2. Position("genutil") = 9 /\ Position("staking") = 5 /\ Position("auth") = 2
  BY <1>1 DEF Position
<1>3. {"auth", "staking"} \subseteq Range(InitGenesis)
  BY <1>1 DEF Range
<1> QED
  BY <1>2, <1>3

\* It names every module with genesis state, those wired by hand included.
LEMMA GenesisComplete == AllModules \ Sectionless \subseteq Range(InitGenesis)
<1>1. DOMAIN InitGenesis = 1..22
  BY DEF InitGenesis
<1>2. SUFFICES ASSUME NEW m \in AllModules \ Sectionless
               PROVE  \E k \in 1..22 : InitGenesis[k] = m
  BY <1>1 DEF Range
<1> QED
  BY DEF AllModules, Sectionless, InjectedModules, IBCModules, InitGenesis

\* The stores of depinject and of ibc.go are those of an earlier binary.
LEMMA StoresComplete ==
  OwnStores \cup IBCStores = LegacyStores
<1> DEFINE own == InjectedModules \ Storeless
<1>1. ASSUME NEW m \in own
      PROVE  StoreKey(m) \in LegacyStores
  BY DEF StoreKey, LegacyStores
<1>2. ASSUME NEW s \in LegacyStores, s \notin IBCStores
      PROVE  \E m \in own : StoreKey(m) = s
  <2>1. "auth" \in own /\ "bps" \in own
    BY DEF InjectedModules, Storeless
  <2>2. StoreKey("auth") = "acc" /\ StoreKey("bps") = "semar"
    BY DEF StoreKey
  <2>3. ASSUME s \in own \ {"auth", "bps"}  PROVE StoreKey(s) = s
    BY <2>3 DEF StoreKey
  <2> HIDE DEF own
  <2> QED BY <1>2, <2>1, <2>2, <2>3 DEF LegacyStores, own
<1>3. IBCStores \subseteq LegacyStores
  BY DEF LegacyStores
<1> HIDE DEF own
<1> QED BY <1>1, <1>2, <1>3 DEF own, OwnStores

LEMMA ConfigFacts ==
  /\ LegacyStores # {} /\ OwnStores \subseteq LegacyStores /\ IBCStores \subseteq LegacyStores
  /\ AllModules \cup InjectedModules = AllModules
  /\ InjectedModules \cup IBCModules = AllModules
  /\ {"auth", "staking"} \subseteq DefaultSections
  /\ DefaultSections # {}
<1>1. "acc" \in LegacyStores /\ IBCStores \subseteq LegacyStores
  BY DEF LegacyStores
<1>2. OwnStores \subseteq LegacyStores
  BY StoresComplete
<1>3. {"auth", "staking"} \subseteq DefaultSections
  BY DEF DefaultSections, InjectedModules, Sectionless
<1>4. AllModules \cup InjectedModules = AllModules
  BY DEF AllModules
<1> QED
  BY <1>1, <1>2, <1>3, <1>4 DEF AllModules

LEMMA StatesAreStates == NoState \notin States /\ LegacyState \in States
BY ConfigFacts DEF NoState, States, LegacyState

-----------------------------------------------------------------------------
(* The initial states.                                                      *)

LEMMA InitIInv == Init => IInv
<1> SUFFICES ASSUME Init
             PROVE  IInv
  OBVIOUS
<1>1. pc = "down" /\ app = NoApp /\ exported = NoExport
  BY DEF Init
<1>2. genesis \in Geneses /\ genesis.height = 1
  BY DEF Init, Geneses, Fresh
<1>3. disk = <<>> \/ disk = <<LegacyState>>
  BY DEF Init
<1>4. disk \in Seq(States) /\ \A i \in DOMAIN disk : disk[i].params = ParamsBytes
  <2>1. LegacyState.params = ParamsBytes
    BY DEF LegacyState
  <2>2. CASE disk = <<>>
    BY <2>2
  <2>3. CASE disk = <<LegacyState>>
    <3>1. LegacyState \in States
      BY StatesAreStates
    <3>2. Len(disk) = 1 /\ disk[1] = LegacyState /\ DOMAIN disk = 1..1
      BY <2>3
    <3>3. disk \in Seq(States)
      BY <2>3, <3>1
    <3> QED
      BY <2>1, <3>2, <3>3
  <2> QED
    BY <1>3, <2>2, <2>3
<1>5. genesis \in [height : Nat \ {0},
                  sections : {DefaultSections, DefaultSections \ {"bps"}, {"bps"}},
                  malformed : SUBSET {"bps"}]
  BY <1>2 DEF Geneses, Fresh
<1>6. NoApp \in Apps
  BY DEF NoApp, Apps
<1>7. /\ NoExport.result = "none"
      /\ NoExport \in Results
  BY DEF NoExport, Results
<1>8. authorized \in BOOLEAN
  BY DEF Init
<1>9. Types
  BY <1>1, <1>4, <1>5, <1>6, <1>7, <1>8 DEF Types, Running, AfterInject, AfterBuild,
     AfterStores, AfterTables, AfterIBC, AfterTransfer, AfterICAHost, AfterICAController,
     AfterRouters, AfterModules, AfterInitChainer, AfterLoad
<1>10. Stages
  BY <1>1 DEF Stages, Running, AfterInject, AfterBuild,
     AfterStores, AfterTables, AfterIBC, AfterTransfer, AfterICAHost, AfterICAController,
     AfterRouters, AfterModules, AfterInitChainer, AfterLoad
<1>11. Blocks
  BY <1>1 DEF Blocks, Running, AfterInject, AfterBuild,
     AfterStores, AfterTables, AfterIBC, AfterTransfer, AfterICAHost, AfterICAController,
     AfterRouters, AfterModules, AfterInitChainer, AfterLoad
<1>12. ValidHomeStarts /\ SectionSurvives /\ ExportsAskedHeight
  BY <1>1, <1>4, <1>7 DEF ValidHomeStarts, SectionSurvives, ExportsAskedHeight
<1> QED
  BY <1>9, <1>10, <1>11, <1>12 DEF IInv
-----------------------------------------------------------------------------
(* The calls of New.                                                        *)

\* What a call of New leaves alone.
Rest == UNCHANGED <<work, authorized, cmd, genesis, disk, exported>>

LEMMA Moves ==
  ASSUME NEW call, NEW a, pc = call, Wired(a)
  PROVE  pc' = Follows(call) /\ app' = a /\ Rest
BY Zenon DEF Wired, Follows, Rest, homeVars

\* From call to next, with what the call wires.
Makes(call, next, a) == pc = call /\ pc' = next /\ app' = a /\ Rest

WithKeeper(k) == [app EXCEPT !.keepers = @ \cup {k}]

\* A keeper is made when its store and its key table are there.
LEMMA KeeperIsMade ==
  ASSUME Stages, NEW k \in IBCStores, k \in AfterTables, NewKeeper(k)
  PROVE  Makes(k, Follows(k), WithKeeper(k))
<1>1. k \in AfterStores
  BY DEF AfterStores
<1>2. pc = k
  BY DEF NewKeeper, At
<1>3. k \in app.stores \cap app.tables
  BY <1>1, <1>2, ConfigFacts DEF Stages
<1>4. Wired(WithKeeper(k))
  BY <1>3 DEF NewKeeper, WithKeeper
<1> QED
  BY <1>2, <1>4, Moves DEF Makes

LEMMA WiringSteps ==
  ASSUME Types, Stages
  PROVE  /\ Inject => Makes("inject", "build",
                            [app EXCEPT !.modules = InjectedModules, !.stores = OwnStores,
                                        !.keepers = {"bps"}])
         /\ Build => Makes("build", "stores", [app EXCEPT !.built = TRUE])
         /\ RegisterStores => Makes("stores", "tables", [app EXCEPT !.stores = LegacyStores])
         /\ RegisterKeyTables => Makes("tables", "ibc", [app EXCEPT !.tables = IBCStores])
         /\ NewIBCKeeper => Makes("ibc", "transfer", WithKeeper("ibc"))
         /\ NewTransferKeeper => Makes("transfer", "icahost", WithKeeper("transfer"))
         /\ NewICAHostKeeper => Makes("icahost", "icacontroller", WithKeeper("icahost"))
         /\ NewICAControllerKeeper =>
              Makes("icacontroller", "routers", WithKeeper("icacontroller"))
         /\ SetRouters => Makes("routers", "modules", [app EXCEPT !.routes = IBCRoutes])
         /\ RegisterModules => Makes("modules", "initChainer", [app EXCEPT !.modules = AllModules])
         /\ SetInitChainer => Makes("initChainer", "load", [app EXCEPT !.initChainer = TRUE])
<1>1. ASSUME Inject
      PROVE  Makes("inject", "build", [app EXCEPT !.modules = InjectedModules,
                                          !.stores = OwnStores, !.keepers = {"bps"}])
  BY <1>1, Moves, WiringOrder DEF Inject, At, Makes, OwnStores
<1>2. ASSUME Build
      PROVE  Makes("build", "stores", [app EXCEPT !.built = TRUE])
  BY <1>2, Moves, WiringOrder DEF Build, At, Makes
<1>3. ASSUME RegisterStores
      PROVE  Makes("stores", "tables", [app EXCEPT !.stores = LegacyStores])
  <2>1. pc = "stores"
    BY <1>3 DEF RegisterStores, At
  <2>2. app.built /\ app.stores = OwnStores
    BY <2>1 DEF Stages, AfterInject, AfterBuild, AfterStores, AfterTables, AfterIBC,
       AfterTransfer, AfterICAHost, AfterICAController, AfterRouters, AfterModules,
       AfterInitChainer, AfterLoad
  <2>3. Wired([app EXCEPT !.stores = LegacyStores])
    BY <1>3, <2>2, StoresComplete DEF RegisterStores
  <2> QED
    BY <2>1, <2>3, Moves, WiringOrder DEF Makes
<1>4. ASSUME RegisterKeyTables
      PROVE  Makes("tables", "ibc", [app EXCEPT !.tables = IBCStores])
  BY <1>4, Moves, WiringOrder DEF RegisterKeyTables, At, Makes
<1>5. \A k \in IBCStores : k \in AfterTables
  BY DEF IBCStores, AfterTables, AfterIBC,
     AfterTransfer, AfterICAHost, AfterICAController
<1>6. ASSUME NewIBCKeeper
      PROVE  Makes("ibc", "transfer", WithKeeper("ibc"))
  BY <1>5, <1>6, KeeperIsMade, WiringOrder DEF NewIBCKeeper, IBCStores
<1>7. ASSUME NEW k \in {"transfer", "icahost", "icacontroller"}, NewWithChannels(k)
      PROVE  Makes(k, Follows(k), WithKeeper(k))
  <2>1. pc = k
    BY <1>7 DEF NewWithChannels, NewKeeper, At
  <2>2. k \in AfterIBC
    BY DEF AfterIBC, AfterTransfer, AfterICAHost
  <2>3. "ibc" \in app.keepers
    BY <2>1, <2>2 DEF Stages
  <2>4. NewKeeper(k)
    BY <1>7, <2>3 DEF NewWithChannels
  <2>5. k \in IBCStores
    BY DEF IBCStores
  <2> QED
    BY <1>5, <2>4, <2>5, KeeperIsMade
<1>8. ASSUME SetRouters
      PROVE  Makes("routers", "modules", [app EXCEPT !.routes = IBCRoutes])
  BY <1>8, Moves, WiringOrder DEF SetRouters, At, Makes
<1>9. ASSUME RegisterModules
      PROVE  Makes("modules", "initChainer", [app EXCEPT !.modules = AllModules])
  <2>1. pc = "modules" /\ Wired([app EXCEPT !.modules = @ \cup IBCModules])
    BY <1>9 DEF RegisterModules, At
  <2>2. app.modules = InjectedModules
    BY <2>1 DEF Stages, AfterInject, AfterBuild, AfterStores, AfterTables, AfterIBC,
       AfterTransfer, AfterICAHost, AfterICAController, AfterRouters, AfterModules,
       AfterInitChainer, AfterLoad
  <2>3. Wired([app EXCEPT !.modules = AllModules])
    BY <2>1, <2>2, ConfigFacts
  <2> QED
    BY <2>1, <2>3, Moves, WiringOrder DEF Makes
<1>10. ASSUME SetInitChainer
       PROVE  Makes("initChainer", "load", [app EXCEPT !.initChainer = TRUE])
  BY <1>10, Moves, WiringOrder DEF SetInitChainer, At, Makes
<1>11. NewTransferKeeper => Makes("transfer", "icahost", WithKeeper("transfer"))
  BY <1>7, WiringOrder DEF NewTransferKeeper
<1>12. NewICAHostKeeper => Makes("icahost", "icacontroller", WithKeeper("icahost"))
  BY <1>7, WiringOrder DEF NewICAHostKeeper
<1>13. NewICAControllerKeeper =>
         Makes("icacontroller", "routers", WithKeeper("icacontroller"))
  BY <1>7, WiringOrder DEF NewICAControllerKeeper
<1> QED
  BY <1>1, <1>2, <1>3, <1>4, <1>6, <1>8, <1>9, <1>10, <1>11, <1>12, <1>13
\* A call keeps what does not depend on what it wires.
LEMMA MakesKeeps ==
  ASSUME IInv, NEW call \in Running \ AfterLoad, NEW next \in AfterInject \ AfterLoad,
         NEW a \in Apps, Makes(call, next, a)
  PROVE  Types' /\ Blocks' /\ ValidHomeStarts' /\ SectionSurvives' /\ ExportsAskedHeight'
<1>1. /\ pc = call /\ pc' = next /\ app' = a
      /\ UNCHANGED <<work, authorized, cmd, genesis, disk, exported>>
  BY DEF Makes, Rest
<1>2. next \in Running /\ next \notin {"serving", "exporting", "failed"} /\ call # "serving"
  BY DEF Running, AfterInject, AfterBuild, AfterStores, AfterTables, AfterIBC, AfterTransfer,
     AfterICAHost, AfterICAController, AfterRouters, AfterModules, AfterInitChainer,
     AfterLoad
<1>3. Types'
  BY <1>1, <1>2 DEF IInv, Types
<1>4. Blocks'
  BY <1>1, <1>2 DEF IInv, Blocks
<1>5. ValidHomeStarts'
  BY <1>1, <1>2 DEF ValidHomeStarts
<1>6. SectionSurvives'
  BY <1>1 DEF IInv, SectionSurvives
<1>7. ExportsAskedHeight'
  BY <1>1 DEF IInv, ExportsAskedHeight, HasVersion, StateAt
<1> QED
  BY <1>3, <1>4, <1>5, <1>6, <1>7

Wires ==
    \/ Inject \/ Build \/ RegisterStores \/ RegisterKeyTables
    \/ NewIBCKeeper \/ NewTransferKeeper \/ NewICAHostKeeper \/ NewICAControllerKeeper
    \/ SetRouters \/ RegisterModules \/ SetInitChainer

LEMMA WiringKeepsIInv ==
  ASSUME IInv, Wires
  PROVE  IInv'
<1>1. Types /\ Stages /\ app \in Apps
  BY DEF IInv, Types
<1>2. CASE Inject
  <2> DEFINE wired == [app EXCEPT !.modules = InjectedModules, !.stores = OwnStores,
                                        !.keepers = {"bps"}]
  <2>1. Makes("inject", "build", wired)
    BY <1>1, <1>2, WiringSteps
  <2>2. wired \in Apps
    BY <1>1, ConfigFacts DEF Apps
  <2>3. Stages'
    BY <1>1, <2>1 DEF Makes, Stages, Apps, AfterInject, AfterBuild, AfterStores, AfterTables, AfterIBC, AfterTransfer,
       AfterICAHost, AfterICAController, AfterRouters, AfterModules, AfterInitChainer,
       AfterLoad
  <2>4. "inject" \in Running \ AfterLoad /\ "build" \in AfterInject \ AfterLoad
    BY DEF Running, AfterInject, AfterBuild, AfterStores, AfterTables, AfterIBC, AfterTransfer,
       AfterICAHost, AfterICAController, AfterRouters, AfterModules, AfterInitChainer,
       AfterLoad
  <2> HIDE DEF wired
  <2> QED
    BY <2>1, <2>2, <2>3, <2>4, MakesKeeps DEF IInv
<1>3. CASE Build
  <2> DEFINE wired == [app EXCEPT !.built = TRUE]
  <2>1. Makes("build", "stores", wired)
    BY <1>1, <1>3, WiringSteps
  <2>2. wired \in Apps
    BY <1>1, ConfigFacts DEF Apps
  <2>3. Stages'
    BY <1>1, <2>1 DEF Makes, Stages, Apps, AfterInject, AfterBuild, AfterStores, AfterTables, AfterIBC, AfterTransfer,
       AfterICAHost, AfterICAController, AfterRouters, AfterModules, AfterInitChainer,
       AfterLoad
  <2>4. "build" \in Running \ AfterLoad /\ "stores" \in AfterInject \ AfterLoad
    BY DEF Running, AfterInject, AfterBuild, AfterStores, AfterTables, AfterIBC, AfterTransfer,
       AfterICAHost, AfterICAController, AfterRouters, AfterModules, AfterInitChainer,
       AfterLoad
  <2> HIDE DEF wired
  <2> QED
    BY <2>1, <2>2, <2>3, <2>4, MakesKeeps DEF IInv
<1>4. CASE RegisterStores
  <2> DEFINE wired == [app EXCEPT !.stores = LegacyStores]
  <2>1. Makes("stores", "tables", wired)
    BY <1>1, <1>4, WiringSteps
  <2>2. wired \in Apps
    BY <1>1, ConfigFacts DEF Apps
  <2>3. Stages'
    BY <1>1, <2>1 DEF Makes, Stages, Apps, AfterInject, AfterBuild, AfterStores, AfterTables, AfterIBC, AfterTransfer,
       AfterICAHost, AfterICAController, AfterRouters, AfterModules, AfterInitChainer,
       AfterLoad
  <2>4. "stores" \in Running \ AfterLoad /\ "tables" \in AfterInject \ AfterLoad
    BY DEF Running, AfterInject, AfterBuild, AfterStores, AfterTables, AfterIBC, AfterTransfer,
       AfterICAHost, AfterICAController, AfterRouters, AfterModules, AfterInitChainer,
       AfterLoad
  <2> HIDE DEF wired
  <2> QED
    BY <2>1, <2>2, <2>3, <2>4, MakesKeeps DEF IInv
<1>5. CASE RegisterKeyTables
  <2> DEFINE wired == [app EXCEPT !.tables = IBCStores]
  <2>1. Makes("tables", "ibc", wired)
    BY <1>1, <1>5, WiringSteps
  <2>2. wired \in Apps
    BY <1>1, ConfigFacts DEF Apps
  <2>3. Stages'
    BY <1>1, <2>1 DEF Makes, Stages, Apps, AfterInject, AfterBuild, AfterStores, AfterTables, AfterIBC, AfterTransfer,
       AfterICAHost, AfterICAController, AfterRouters, AfterModules, AfterInitChainer,
       AfterLoad
  <2>4. "tables" \in Running \ AfterLoad /\ "ibc" \in AfterInject \ AfterLoad
    BY DEF Running, AfterInject, AfterBuild, AfterStores, AfterTables, AfterIBC, AfterTransfer,
       AfterICAHost, AfterICAController, AfterRouters, AfterModules, AfterInitChainer,
       AfterLoad
  <2> HIDE DEF wired
  <2> QED
    BY <2>1, <2>2, <2>3, <2>4, MakesKeeps DEF IInv
<1>6. CASE NewIBCKeeper
  <2> DEFINE wired == WithKeeper("ibc")
  <2>1. Makes("ibc", "transfer", wired)
    BY <1>1, <1>6, WiringSteps
  <2>2. wired \in Apps
    BY <1>1, ConfigFacts DEF Apps, WithKeeper, IBCStores
  <2>3. Stages'
    BY <1>1, <2>1 DEF Makes, Stages, Apps, WithKeeper, AfterInject, AfterBuild, AfterStores, AfterTables, AfterIBC, AfterTransfer,
       AfterICAHost, AfterICAController, AfterRouters, AfterModules, AfterInitChainer,
       AfterLoad
  <2>4. "ibc" \in Running \ AfterLoad /\ "transfer" \in AfterInject \ AfterLoad
    BY DEF Running, AfterInject, AfterBuild, AfterStores, AfterTables, AfterIBC, AfterTransfer,
       AfterICAHost, AfterICAController, AfterRouters, AfterModules, AfterInitChainer,
       AfterLoad
  <2> HIDE DEF wired
  <2> QED
    BY <2>1, <2>2, <2>3, <2>4, MakesKeeps DEF IInv
<1>7. CASE NewTransferKeeper
  <2> DEFINE wired == WithKeeper("transfer")
  <2>1. Makes("transfer", "icahost", wired)
    BY <1>1, <1>7, WiringSteps
  <2>2. wired \in Apps
    BY <1>1, ConfigFacts DEF Apps, WithKeeper, IBCStores
  <2>3. Stages'
    BY <1>1, <2>1 DEF Makes, Stages, Apps, WithKeeper, AfterInject, AfterBuild, AfterStores, AfterTables, AfterIBC, AfterTransfer,
       AfterICAHost, AfterICAController, AfterRouters, AfterModules, AfterInitChainer,
       AfterLoad
  <2>4. "transfer" \in Running \ AfterLoad /\ "icahost" \in AfterInject \ AfterLoad
    BY DEF Running, AfterInject, AfterBuild, AfterStores, AfterTables, AfterIBC, AfterTransfer,
       AfterICAHost, AfterICAController, AfterRouters, AfterModules, AfterInitChainer,
       AfterLoad
  <2> HIDE DEF wired
  <2> QED
    BY <2>1, <2>2, <2>3, <2>4, MakesKeeps DEF IInv
<1>8. CASE NewICAHostKeeper
  <2> DEFINE wired == WithKeeper("icahost")
  <2>1. Makes("icahost", "icacontroller", wired)
    BY <1>1, <1>8, WiringSteps
  <2>2. wired \in Apps
    BY <1>1, ConfigFacts DEF Apps, WithKeeper, IBCStores
  <2>3. Stages'
    BY <1>1, <2>1 DEF Makes, Stages, Apps, WithKeeper, AfterInject, AfterBuild, AfterStores, AfterTables, AfterIBC, AfterTransfer,
       AfterICAHost, AfterICAController, AfterRouters, AfterModules, AfterInitChainer,
       AfterLoad
  <2>4. "icahost" \in Running \ AfterLoad /\ "icacontroller" \in AfterInject \ AfterLoad
    BY DEF Running, AfterInject, AfterBuild, AfterStores, AfterTables, AfterIBC, AfterTransfer,
       AfterICAHost, AfterICAController, AfterRouters, AfterModules, AfterInitChainer,
       AfterLoad
  <2> HIDE DEF wired
  <2> QED
    BY <2>1, <2>2, <2>3, <2>4, MakesKeeps DEF IInv
<1>9. CASE NewICAControllerKeeper
  <2> DEFINE wired == WithKeeper("icacontroller")
  <2>1. Makes("icacontroller", "routers", wired)
    BY <1>1, <1>9, WiringSteps
  <2>2. wired \in Apps
    BY <1>1, ConfigFacts DEF Apps, WithKeeper, IBCStores
  <2>3. Stages'
    BY <1>1, <2>1 DEF Makes, Stages, Apps, WithKeeper, AfterInject, AfterBuild, AfterStores, AfterTables, AfterIBC, AfterTransfer,
       AfterICAHost, AfterICAController, AfterRouters, AfterModules, AfterInitChainer,
       AfterLoad
  <2>4. "icacontroller" \in Running \ AfterLoad /\ "routers" \in AfterInject \ AfterLoad
    BY DEF Running, AfterInject, AfterBuild, AfterStores, AfterTables, AfterIBC, AfterTransfer,
       AfterICAHost, AfterICAController, AfterRouters, AfterModules, AfterInitChainer,
       AfterLoad
  <2> HIDE DEF wired
  <2> QED
    BY <2>1, <2>2, <2>3, <2>4, MakesKeeps DEF IInv
<1>10. CASE SetRouters
  <2> DEFINE wired == [app EXCEPT !.routes = IBCRoutes]
  <2>1. Makes("routers", "modules", wired)
    BY <1>1, <1>10, WiringSteps
  <2>2. wired \in Apps
    BY <1>1, ConfigFacts DEF Apps
  <2>3. Stages'
    BY <1>1, <2>1 DEF Makes, Stages, Apps, AfterInject, AfterBuild, AfterStores, AfterTables, AfterIBC, AfterTransfer,
       AfterICAHost, AfterICAController, AfterRouters, AfterModules, AfterInitChainer,
       AfterLoad
  <2>4. "routers" \in Running \ AfterLoad /\ "modules" \in AfterInject \ AfterLoad
    BY DEF Running, AfterInject, AfterBuild, AfterStores, AfterTables, AfterIBC, AfterTransfer,
       AfterICAHost, AfterICAController, AfterRouters, AfterModules, AfterInitChainer,
       AfterLoad
  <2> HIDE DEF wired
  <2> QED
    BY <2>1, <2>2, <2>3, <2>4, MakesKeeps DEF IInv
<1>11. CASE RegisterModules
  <2> DEFINE wired == [app EXCEPT !.modules = AllModules]
  <2>1. Makes("modules", "initChainer", wired)
    BY <1>1, <1>11, WiringSteps
  <2>2. wired \in Apps
    BY <1>1, ConfigFacts DEF Apps
  <2>3. Stages'
    BY <1>1, <2>1 DEF Makes, Stages, Apps, AfterInject, AfterBuild, AfterStores, AfterTables, AfterIBC, AfterTransfer,
       AfterICAHost, AfterICAController, AfterRouters, AfterModules, AfterInitChainer,
       AfterLoad
  <2>4. "modules" \in Running \ AfterLoad /\ "initChainer" \in AfterInject \ AfterLoad
    BY DEF Running, AfterInject, AfterBuild, AfterStores, AfterTables, AfterIBC, AfterTransfer,
       AfterICAHost, AfterICAController, AfterRouters, AfterModules, AfterInitChainer,
       AfterLoad
  <2> HIDE DEF wired
  <2> QED
    BY <2>1, <2>2, <2>3, <2>4, MakesKeeps DEF IInv
<1>12. CASE SetInitChainer
  <2> DEFINE wired == [app EXCEPT !.initChainer = TRUE]
  <2>1. Makes("initChainer", "load", wired)
    BY <1>1, <1>12, WiringSteps
  <2>2. wired \in Apps
    BY <1>1, ConfigFacts DEF Apps
  <2>3. Stages'
    BY <1>1, <2>1 DEF Makes, Stages, Apps, AfterInject, AfterBuild, AfterStores, AfterTables, AfterIBC, AfterTransfer,
       AfterICAHost, AfterICAController, AfterRouters, AfterModules, AfterInitChainer,
       AfterLoad
  <2>4. "initChainer" \in Running \ AfterLoad /\ "load" \in AfterInject \ AfterLoad
    BY DEF Running, AfterInject, AfterBuild, AfterStores, AfterTables, AfterIBC, AfterTransfer,
       AfterICAHost, AfterICAController, AfterRouters, AfterModules, AfterInitChainer,
       AfterLoad
  <2> HIDE DEF wired
  <2> QED
    BY <2>1, <2>2, <2>3, <2>4, MakesKeeps DEF IInv
<1> QED
  BY <1>2, <1>3, <1>4, <1>5, <1>6, <1>7, <1>8, <1>9, <1>10, <1>11, <1>12 DEF Wires
-----------------------------------------------------------------------------
(* Commands, kills and new homes.                                           *)

\* No call of New is made, and none is next.
LEMMA OutsideNew ==
  /\ Running \cap {"down", "failed"} = {}
  /\ \A p \in {"inject", "down", "failed"} :
       /\ p \notin AfterInject /\ p \notin AfterBuild /\ p \notin AfterStores
       /\ p \notin AfterTables /\ p \notin AfterIBC /\ p \notin AfterTransfer
       /\ p \notin AfterICAHost /\ p \notin AfterICAController /\ p \notin AfterModules
       /\ p \notin AfterInitChainer
BY DEF Running, AfterInject, AfterBuild, AfterStores, AfterTables, AfterIBC, AfterTransfer,
     AfterICAHost, AfterICAController, AfterRouters, AfterModules, AfterInitChainer,
     AfterLoad

LEMMA AfterNew ==
  /\ AfterLoad \subseteq AfterInitChainer /\ AfterInitChainer \subseteq AfterModules
  /\ AfterModules \subseteq AfterICAController /\ AfterICAController \subseteq AfterICAHost
  /\ AfterICAHost \subseteq AfterTransfer /\ AfterTransfer \subseteq AfterIBC
  /\ AfterIBC \subseteq AfterTables /\ AfterTables \subseteq AfterStores
  /\ AfterStores \subseteq AfterBuild /\ AfterBuild \subseteq AfterInject
  /\ AfterInject \subseteq Running /\ "load" \in AfterInitChainer
BY DEF Running, AfterInject, AfterBuild, AfterStores, AfterTables, AfterIBC, AfterTransfer,
     AfterICAHost, AfterICAController, AfterRouters, AfterModules, AfterInitChainer,
     AfterLoad

\* A step that leaves the home alone keeps what is said of the home alone.
LEMMA HomeKeeps ==
  ASSUME IInv, UNCHANGED <<genesis, disk, exported>>
  PROVE  SectionSurvives' /\ ExportsAskedHeight'
BY DEF IInv, SectionSurvives, ExportsAskedHeight, HasVersion, StateAt

LEMMA RunKeepsIInv ==
  ASSUME IInv, NEW command \in Commands, Run(command), UNCHANGED <<genesis, disk, exported>>
  PROVE  IInv'
<1>1. /\ cmd' = command /\ pc' = "inject" /\ app' = NoApp
      /\ work' = NoState /\ authorized' = FALSE
  BY DEF Run
<1>2. NoApp \in Apps /\ "inject" \in Running
  BY DEF NoApp, Apps, Running
<1>3. Types'
  BY <1>1, <1>2 DEF IInv, Types
<1>4. Stages'
  BY <1>1, OutsideNew DEF Stages
<1>5. Blocks'
  BY <1>1 DEF Blocks
<1>6. ValidHomeStarts'
  BY <1>1 DEF ValidHomeStarts
<1> QED
  BY <1>3, <1>4, <1>5, <1>6, HomeKeeps DEF IInv

LEMMA CommandKeepsIInv ==
  ASSUME IInv, Start \/ StartExport
  PROVE  IInv'
<1>1. CASE Start
  <2>1. [name |-> "start", height |-> -1] \in Commands
    BY DEF Commands
  <2> QED
    BY <1>1, <2>1, RunKeepsIInv DEF Start, homeVars
<1>2. CASE StartExport
  <2>1. PICK height \in -1..MaxHeight + 2, zero \in BOOLEAN, modules \in {{}, {"bps"}} :
           /\ Run([name |-> "export", height |-> height, zero |-> zero, modules |-> modules])
           /\ UNCHANGED <<genesis, disk, exported>>
    BY <1>2 DEF StartExport
  <2>2. [name |-> "export", height |-> height, zero |-> zero, modules |-> modules] \in Commands
    BY DEF Commands
  <2> QED
    BY <2>1, <2>2, RunKeepsIInv
<1> QED
  BY <1>1, <1>2

LEMMA KillKeepsIInv ==
  ASSUME IInv, Kill
  PROVE  IInv'
<1>1. pc' = "down" /\ UNCHANGED <<genesis, disk, cmd, app, work, authorized, exported>>
  BY DEF Kill
<1>2. "down" \notin Running /\ "down" # "serving"
  BY OutsideNew
<1>3. Types'
  BY <1>1, <1>2 DEF IInv, Types
<1>4. Stages'
  BY <1>1, OutsideNew DEF Stages
<1>5. Blocks'
  BY <1>1, <1>2 DEF Blocks
<1>6. ValidHomeStarts'
  BY <1>1 DEF ValidHomeStarts
<1> QED
  BY <1>1, <1>3, <1>4, <1>5, <1>6, HomeKeeps DEF IInv

\* A genesis with another section set, or another first height, is only taken
\* with an empty disk.
LEMMA StartOverKeepsIInv ==
  ASSUME IInv, StartOver
  PROVE  IInv'
<1>1. /\ pc = "down" /\ exported.result = "ok" /\ disk' = <<>> /\ exported' = NoExport
      /\ genesis' = Fresh(IF exported.height = 0 THEN 1 ELSE exported.height,
                          exported.sections, {})
      /\ UNCHANGED <<cmd, pc, app, work, authorized>>
  BY DEF StartOver
<1>2. "down" \notin Running /\ "down" # "serving"
  BY OutsideNew
<1>3. exported.height \in Nat /\ exported.sections \in {{"bps"}, DefaultSections}
  BY <1>1 DEF IInv, Types, Results
<1>4. genesis' \in [height : Nat \ {0},
                   sections : {DefaultSections, DefaultSections \ {"bps"}, {"bps"}},
                   malformed : SUBSET {"bps"}]
  BY <1>1, <1>3 DEF Fresh
<1>5. /\ NoExport.result = "none"
      /\ NoExport \in Results
  BY DEF NoExport, Results
<1>6. Types'
  BY <1>1, <1>2, <1>4, <1>5 DEF IInv, Types
<1>7. Stages'
  BY <1>1 DEF IInv, Stages
<1>8. Blocks'
  BY <1>1, <1>2 DEF Blocks
<1>9. ValidHomeStarts'
  BY <1>1 DEF ValidHomeStarts
<1>10. SectionSurvives' /\ ExportsAskedHeight'
  BY <1>1, <1>5 DEF SectionSurvives, ExportsAskedHeight
<1> QED
  BY <1>6, <1>7, <1>8, <1>9, <1>10 DEF IInv

-----------------------------------------------------------------------------
(* Loading and InitChain.                                                   *)

\* New finds every module in the order of InitGenesis and every store in the
\* last version: loading cannot panic.
LEMMA LoadSucceeds ==
  ASSUME IInv, At("load")
  PROVE  OrderComplete /\ (disk # <<>> => LoadsInto(Last(disk)))
<1>1. pc = "load" /\ "load" \in AfterModules /\ "load" \in AfterStores
  BY AfterNew DEF At
<1>2. app.modules = AllModules /\ app.stores = LegacyStores
  BY <1>1 DEF IInv, Stages
<1>3. OrderComplete
  BY <1>2, GenesisComplete DEF OrderComplete
<1>4. ASSUME disk # <<>>
      PROVE  Last(disk).stores = LegacyStores
  <2>1. Last(disk) \in States
    BY <1>4 DEF IInv, Types, Last
  <2> QED
    BY <2>1 DEF States
<1> QED
  BY <1>2, <1>3, <1>4 DEF LoadsInto

LEMMA LoadKeepsIInv ==
  ASSUME IInv, Load
  PROVE  IInv'
<1>1. pc = "load" /\ (Serve \/ ReadOnly)
  BY LoadSucceeds DEF Load, At
<1>2. pc' \in AfterLoad /\ UNCHANGED <<app, authorized, cmd, genesis, disk, exported>>
  BY <1>1 DEF Serve, ReadOnly, AfterLoad, homeVars
<1>3. pc \in Running /\ pc' \in Running /\ pc' # "failed"
  BY <1>1, <1>2, AfterNew, OutsideNew
<1>4. Types'
  <2>1. pc' = "exporting" => cmd.name = "export"
    BY <1>1 DEF Serve, ReadOnly
  <2> QED
    BY <1>2, <1>3, <2>1 DEF IInv, Types
<1>5. Stages'
  <2>1. pc \in AfterInitChainer /\ pc' \in AfterInitChainer
    BY <1>1, <1>2, AfterNew
  <2> QED
    BY <1>2, <2>1, AfterNew DEF IInv, Stages
<1>6. Blocks'
  <2>1. CASE Serve
    <3>1. CASE disk = <<>>
      BY <2>1, <3>1 DEF Serve, Blocks, homeVars
    <3>2. CASE disk # <<>>
      <4>1. work' = Last(disk) /\ pc' = "serving" /\ UNCHANGED <<genesis, disk>>
        BY <2>1, <3>2 DEF Serve, homeVars
      <4>2. Last(disk) \in States /\ Last(disk) # NoState
        BY <3>2, StatesAreStates DEF IInv, Types, Last
      <4>3. "bps" \in genesis.sections => Last(disk).params = ParamsBytes
        BY <3>2 DEF IInv, Types, SectionSurvives, Last
      <4> QED
        BY <4>1, <4>2, <4>3 DEF Blocks
    <3> QED
      BY <3>1, <3>2
  <2>2. CASE ReadOnly
    BY <1>1, <1>3, <2>2 DEF ReadOnly, IInv, Blocks
  <2> QED
    BY <1>1, <2>1, <2>2
<1>7. ValidHomeStarts'
  BY <1>3 DEF ValidHomeStarts
<1> QED
  BY <1>2, <1>4, <1>5, <1>6, <1>7, HomeKeeps DEF IInv

\* With the keepers New makes, only an unusable genesis makes InitGenesis panic.
LEMMA UsableInitialises ==
  ASSUME IInv, pc = "serving", Usable(genesis)
  PROVE  ~InitGenesisPanics
<1>1. "serving" \in AfterICAController /\ "serving" \in AfterInject
      /\ "serving" \in AfterICAHost /\ "serving" \in AfterTransfer /\ "serving" \in AfterIBC
  BY AfterNew DEF AfterLoad
<1>2. {"bps", "ibc", "transfer", "icahost", "icacontroller"} \subseteq app.keepers
  BY <1>1 DEF IInv, Stages
<1>3. {"auth", "staking"} \subseteq genesis.sections /\ genesis.malformed = {}
  BY DEF Usable
<1>4. ASSUME NEW m \in genesis.sections
      PROVE  Needs(m) \subseteq InitializedBefore(m)
  BY <1>3, GenesisOrder DEF Needs, InitializedBefore
<1>5. ASSUME NEW m \in genesis.sections
      PROVE  KeepersOf(m) \subseteq app.keepers
  BY <1>2 DEF KeepersOf
<1> QED
  BY <1>3, <1>4, <1>5 DEF InitGenesisPanics

LEMMA InitChainKeepsIInv ==
  ASSUME IInv, InitChain
  PROVE  IInv'
<1>1. pc = "serving" /\ work = NoState /\ disk = <<>>
  BY DEF InitChain, IInv, Blocks
<1>2. CASE InitGenesisPanics
  <2>1. pc' = "failed" /\ UNCHANGED <<app, work, authorized, cmd, genesis, disk, exported>>
    BY <1>2 DEF InitChain, Stuck, Panic, homeVars
  <2>2. "failed" \notin Running /\ "failed" # "serving"
    BY OutsideNew
  <2>3. Types'
    BY <2>1, <2>2 DEF IInv, Types
  <2>4. Stages'
    BY <2>1, OutsideNew DEF Stages
  <2>5. Blocks'
    BY <2>1, <2>2 DEF Blocks
  <2>6. ValidHomeStarts'
    BY <1>1, <1>2, <2>1, UsableInitialises DEF ValidHomeStarts, Usable
  <2> QED
    BY <2>1, <2>3, <2>4, <2>5, <2>6, HomeKeeps DEF IInv
<1>3. CASE ~InitGenesisPanics
  <2> DEFINE made == [stores   |-> app.stores,
                      params   |-> IF "bps" \in genesis.sections THEN ParamsBytes ELSE Absent,
                      versions |-> VersionMap]
  <2>1. work' = made /\ UNCHANGED <<pc, app, authorized, cmd, genesis, disk, exported>>
    BY <1>3 DEF InitChain, homeVars
  <2>2. "serving" \in AfterInitChainer /\ "serving" \in AfterModules /\ "serving" \in AfterStores
    BY AfterNew DEF AfterLoad
  <2>3. app.initChainer /\ app.modules = AllModules /\ app.stores = LegacyStores
    BY <1>1, <2>2 DEF IInv, Stages
  <2>4. VersionMap = AllModules
    BY <2>3, ConfigFacts DEF VersionMap
  <2>5. made \in States /\ ("bps" \in genesis.sections => made.params = ParamsBytes)
    BY <2>3, <2>4 DEF States
  <2> HIDE DEF made
  <2>6. Types'
    BY <2>1 DEF IInv, Types
  <2>7. Stages'
    BY <2>1 DEF IInv, Stages
  <2>8. Blocks'
    BY <1>1, <2>1, <2>5, StatesAreStates DEF Blocks
  <2>9. ValidHomeStarts'
    BY <1>1, <2>1 DEF ValidHomeStarts
  <2> QED
    BY <2>1, <2>6, <2>7, <2>8, <2>9, HomeKeeps DEF IInv
<1> QED
  BY <1>2, <1>3
-----------------------------------------------------------------------------
(* Blocks and exports.                                                      *)

LEMMA UpdateParamsKeepsIInv ==
  ASSUME IInv, UpdateParams
  PROVE  IInv'
<1>1. PICK request \in Requests :
        /\ work' = IF Authorized(request) THEN [work EXCEPT !.params = ParamsBytes] ELSE work
        /\ authorized' = (authorized \/ request = GovAuthority)
  BY DEF UpdateParams
<1>2. /\ pc = "serving" /\ work # NoState
      /\ UNCHANGED <<pc, app, cmd, genesis, disk, exported>>
  BY DEF UpdateParams, homeVars
<1>3. work \in States
  BY <1>2 DEF IInv, Blocks
<1>4. Types'
  BY <1>1, <1>2 DEF IInv, Types
<1>5. Stages'
  BY <1>2 DEF IInv, Stages
<1>6. ValidHomeStarts'
  BY <1>2 DEF ValidHomeStarts
<1>7. Blocks'
  <2>1. CASE request = GovAuthority
    <3>1. authorized' /\ work' = [work EXCEPT !.params = ParamsBytes]
      BY <1>1, <2>1 DEF Authorized
    <3>2. work' \in States /\ work'.params = ParamsBytes
      BY <1>3, <3>1 DEF States
    <3> QED
      BY <1>2, <3>1, <3>2, StatesAreStates DEF Blocks
  <2>2. CASE request # GovAuthority
    <3>1. work' = work /\ authorized' = authorized
      BY <1>1, <2>2 DEF Authorized, IInv, Types
    <3> QED
      BY <1>2, <3>1 DEF IInv, Blocks
  <2> QED
    BY <2>1, <2>2
<1> QED
  BY <1>2, <1>4, <1>5, <1>6, <1>7, HomeKeeps DEF IInv

\* A version is added behind the others, which stay where they are.
LEMMA CommitAppends ==
  ASSUME IInv, Commit
  PROVE  /\ work \in States
         /\ disk' \in Seq(States) /\ Len(disk') = Len(disk) + 1
         /\ \A i \in 1..Len(disk) : disk'[i] = disk[i]
         /\ disk'[Len(disk) + 1] = work
         /\ disk' # <<>> /\ Last(disk') = work
<1>1. work \in States /\ disk' = Append(disk, work) /\ disk \in Seq(States)
  BY DEF Commit, IInv, Blocks, Types
<1>2. /\ disk' \in Seq(States) /\ Len(disk') = Len(disk) + 1
      /\ \A i \in 1..Len(disk) : disk'[i] = disk[i]
      /\ disk'[Len(disk) + 1] = work
  BY <1>1
<1>3. disk' # <<>> /\ Last(disk') = work
  BY <1>1, <1>2 DEF Last
<1> QED
  BY <1>1, <1>2, <1>3

LEMMA CommitKeepsIInv ==
  ASSUME IInv, Commit
  PROVE  IInv'
<1>1. /\ pc = "serving" /\ work # NoState /\ authorized' = FALSE
      /\ UNCHANGED <<genesis, cmd, pc, app, work, exported>>
  BY DEF Commit
<1>2. Types'
  BY <1>1, CommitAppends DEF IInv, Types
<1>3. Stages'
  BY <1>1 DEF IInv, Stages
<1>4. Blocks'
  BY <1>1, CommitAppends DEF IInv, Blocks
<1>5. ValidHomeStarts'
  BY <1>1 DEF ValidHomeStarts
<1>6. disk \in Seq(States) /\ genesis.height \in Nat /\ exported.from \in Int
  BY DEF IInv, Types, Results
<1>7. SectionSurvives'
  <2> SUFFICES ASSUME "bps" \in genesis.sections, NEW i \in DOMAIN disk'
               PROVE  disk'[i].params = ParamsBytes
    BY <1>1 DEF SectionSurvives
  <2>1. i \in 1..Len(disk) \/ i = Len(disk) + 1
    BY <1>6, CommitAppends
  <2>2. ASSUME i \in 1..Len(disk)
        PROVE  disk[i].params = ParamsBytes
    BY <1>6, <2>2 DEF IInv, SectionSurvives
  <2>3. work.params = ParamsBytes
    BY <1>1 DEF IInv, Blocks
  <2> QED
    BY <2>1, <2>2, <2>3, CommitAppends
<1>8. ExportsAskedHeight'
  <2> SUFFICES ASSUME exported.result \in {"ok", "panic"}, exported.from >= genesis.height
               PROVE  HasVersion(exported.from)' /\ StateAt(exported.from)' = StateAt(exported.from)
    BY <1>1 DEF IInv, ExportsAskedHeight
  <2>1. HasVersion(exported.from)
    BY DEF IInv, ExportsAskedHeight
  <2> DEFINE at == exported.from - genesis.height + 1
  <2>2. at \in 1..Len(disk)
    BY <1>6, <2>1 DEF HasVersion
  <2>3. HasVersion(exported.from)'
    BY <1>1, <1>6, <2>1, CommitAppends DEF HasVersion
  <2>4. disk'[at] = disk[at]
    BY <2>2, CommitAppends
  <2>5. StateAt(exported.from) = disk[at] /\ StateAt(exported.from)' = disk'[at]
    BY <1>1 DEF StateAt
  <2> QED
    BY <2>3, <2>4, <2>5
<1> QED
  BY <1>2, <1>3, <1>4, <1>5, <1>7, <1>8 DEF IInv

\* What ExportAppStateAndValidators gives for a version: an error for one that the
\* home does not have, otherwise a panic exactly when the version has no params.
LEMMA ExportResultIs ==
  ASSUME Types, NEW asked \in Int, NEW version \in Int, version = LoadedVersion(asked),
         cmd \in Commands, cmd.name = "export"
  PROVE  LET r == ExportResult(asked, version)
         IN  /\ r \in Results
             /\ r.result = "ok" => r.sections # {}
             /\ r.asked = asked /\ r.from = version
             /\ r.result \in {"ok", "panic"} /\ version >= genesis.height =>
                  /\ HasVersion(version)
                  /\ r.result = "panic" <=> StateAt(version).params = Absent
                  /\ r.result = "ok" => r.height \in {0, IF asked = 0 THEN 1 ELSE version + 1}
<1> DEFINE sections == IF cmd.modules = {} THEN DefaultSections ELSE cmd.modules
           ended(how) == [NoExport EXCEPT !.result = how, !.asked = asked, !.from = version]
           next == LastBlockHeight(asked, version) + 1
           ok == [result |-> "ok", asked |-> asked, from |-> version, sections |-> sections,
                  height |-> IF cmd.zero THEN 0 ELSE next]
           missing == asked \notin {-1, 0} /\ ~(HasVersion(version) /\ LoadsInto(StateAt(version)))
<1>1. ExportResult(asked, version) = IF missing THEN ended("error")
                                     ELSE IF disk = <<>> THEN ended("panic")
                                     ELSE IF StateAt(version).params = Absent THEN ended("panic")
                                     ELSE ok
  BY DEF ExportResult, StateToExport
<1>2. \A how \in {"error", "panic"} :
        /\ ended(how) \in Results /\ ended(how).result = how
        /\ ended(how).asked = asked /\ ended(how).from = version
  BY DEF NoExport, Results
<1>3. /\ ok.result = "ok" /\ ok.asked = asked /\ ok.from = version /\ ok.sections = sections
      /\ ok.height = IF cmd.zero THEN 0 ELSE next
  OBVIOUS
<1>4. genesis.height \in Nat \ {0} /\ disk \in Seq(States)
  BY DEF Types
<1>5. ASSUME ~missing, disk # <<>>
      PROVE  HasVersion(version)
  <2>1. CASE asked \in {-1, 0}
    BY <1>4, <1>5, <2>1 DEF HasVersion, LastHeight, LoadedVersion
  <2>2. CASE asked \notin {-1, 0}
    BY <1>5, <2>2
  <2> QED
    BY <2>1, <2>2
<1>6. ASSUME ~missing, disk = <<>>
      PROVE  version < genesis.height
  <2>1. CASE asked \in {-1, 0}
    BY <1>4, <1>6, <2>1 DEF LastHeight, LoadedVersion
  <2>2. CASE asked \notin {-1, 0}
    <3>1. HasVersion(version)
      BY <1>6, <2>2
    <3> QED
      BY <1>4, <1>6, <3>1 DEF HasVersion
  <2> QED
    BY <2>1, <2>2
<1>7. next = (IF asked = 0 THEN 1 ELSE version + 1)
  BY DEF LastBlockHeight
<1>8. ASSUME HasVersion(version)
      PROVE  ok \in Results /\ sections # {}
  <2>1. version \in Nat
    BY <1>4, <1>8 DEF HasVersion
  <2>2. next \in Nat
    BY <1>7, <2>1
  <2>3. cmd.modules \in {{}, {"bps"}}
    BY DEF Commands
  <2>4. sections \in {{"bps"}, DefaultSections} /\ sections # {}
    BY <2>3, ConfigFacts
  <2> HIDE DEF sections, next
  <2> QED
    BY <2>2, <2>4 DEF Results
<1> HIDE DEF ok, ended, missing
<1>9. CASE missing
  <2>1. ExportResult(asked, version) = ended("error")
    BY <1>1, <1>9
  <2> QED
    BY <1>2, <2>1
<1>10. CASE ~missing /\ (disk = <<>> \/ StateAt(version).params = Absent)
  <2>1. ExportResult(asked, version) = ended("panic")
    BY <1>1, <1>10
  <2>2. version >= genesis.height => HasVersion(version) /\ StateAt(version).params = Absent
    BY <1>4, <1>5, <1>6, <1>10
  <2> QED
    BY <1>2, <2>1, <2>2
<1>11. CASE ~missing /\ disk # <<>> /\ StateAt(version).params # Absent
  <2>1. ExportResult(asked, version) = ok
    BY <1>1, <1>11
  <2>2. HasVersion(version)
    BY <1>5, <1>11
  <2>3. ok \in Results /\ sections # {}
    BY <1>8, <2>2
  <2>4. ok.height \in {0, IF asked = 0 THEN 1 ELSE version + 1}
    BY <1>3, <1>7
  <2> HIDE DEF sections
  <2> QED
    BY <1>3, <1>11, <2>1, <2>2, <2>3, <2>4
<1> QED
  BY <1>9, <1>10, <1>11

LEMMA ExportKeepsIInv ==
  ASSUME IInv, Export
  PROVE  IInv'
<1> DEFINE asked == cmd.height
           version == LoadedVersion(asked)
<1>1. /\ pc = "exporting" /\ pc' = "down" /\ exported' = ExportResult(asked, version)
      /\ UNCHANGED <<genesis, disk, cmd, app, work, authorized>>
  BY DEF Export
<1>2. "down" \notin Running /\ "down" # "serving" /\ "exporting" \in Running
  BY OutsideNew, AfterNew DEF AfterLoad, Running
<1>3. Types /\ cmd \in Commands /\ cmd.name = "export"
  BY <1>1, <1>2 DEF IInv, Types
<1>4. asked \in Int /\ version \in Int
  <2>1. asked \in Int
    BY <1>3, LifecycleAssumption DEF Commands
  <2>2. LastHeight \in Int
    BY <1>3 DEF LastHeight, Types
  <2> QED
    BY <2>1, <2>2 DEF LoadedVersion
<1>5. /\ exported' \in Results
      /\ exported'.result = "ok" => exported'.sections # {}
      /\ exported'.asked = asked /\ exported'.from = version
      /\ exported'.result \in {"ok", "panic"} /\ version >= genesis.height =>
           /\ HasVersion(version)
           /\ exported'.result = "panic" <=> StateAt(version).params = Absent
           /\ exported'.result = "ok" =>
                exported'.height \in {0, IF asked = 0 THEN 1 ELSE version + 1}
  <2>1. version = LoadedVersion(asked)
    OBVIOUS
  <2> HIDE DEF asked, version
  <2> QED
    BY <1>1, <1>3, <1>4, <2>1, ExportResultIs
<1>6. asked > 0 => version = asked
  BY <1>4 DEF LoadedVersion
<1> HIDE DEF asked, version
<1>7. Types'
  BY <1>1, <1>2, <1>5 DEF IInv, Types
<1>8. Stages'
  BY <1>1, OutsideNew DEF Stages
<1>9. Blocks'
  BY <1>1, <1>2 DEF Blocks
<1>10. ValidHomeStarts'
  BY <1>1 DEF ValidHomeStarts
<1>11. SectionSurvives'
  BY <1>1 DEF IInv, SectionSurvives
<1>12. ExportsAskedHeight'
  <2>1. HasVersion(exported.from)' <=> HasVersion(version)
    BY <1>1, <1>5 DEF HasVersion
  <2>2. StateAt(exported.from)' = StateAt(version)
    BY <1>1, <1>5 DEF StateAt
  <2> QED
    BY <1>1, <1>5, <1>6, <2>1, <2>2 DEF ExportsAskedHeight
<1> QED
  BY <1>7, <1>8, <1>9, <1>10, <1>11, <1>12 DEF IInv

-----------------------------------------------------------------------------
(* The results.                                                             *)

LEMMA NextKeepsIInv == IInv /\ [Next]_vars => IInv'
<1> SUFFICES ASSUME IInv, [Next]_vars
             PROVE  IInv'
  OBVIOUS
<1>1. CASE Wires
  BY <1>1, WiringKeepsIInv
<1>2. CASE Start \/ StartExport
  BY <1>2, CommandKeepsIInv
<1>3. CASE Load
  BY <1>3, LoadKeepsIInv
<1>4. CASE InitChain
  BY <1>4, InitChainKeepsIInv
<1>5. CASE Commit
  BY <1>5, CommitKeepsIInv
<1>6. CASE Export
  BY <1>6, ExportKeepsIInv
<1>7. CASE UpdateParams
  BY <1>7, UpdateParamsKeepsIInv
<1>8. CASE StartOver
  BY <1>8, StartOverKeepsIInv
<1>9. CASE Kill
  BY <1>9, KillKeepsIInv
<1>10. CASE UNCHANGED vars
  <2>1. UNCHANGED <<genesis, disk, cmd, pc, app, work, authorized, exported>>
    BY <1>10 DEF vars
  <2>2. Types' /\ Stages' /\ Blocks' /\ ValidHomeStarts'
    BY <2>1 DEF IInv, Types, Stages, Blocks, ValidHomeStarts
  <2> QED
    BY <2>1, <2>2, HomeKeeps DEF IInv
<1> QED
  BY <1>1, <1>2, <1>3, <1>4, <1>5, <1>6, <1>7, <1>8, <1>9, <1>10 DEF Next, System, Wires

\* The invariant of a home: what each call of New finds wired, what the state of
\* a running node has to do with the last version, and the three properties that
\* rest on them, hold in every state.
THEOREM Invariance == Spec => []IInv
<1>1. Init => IInv
  BY InitIInv
<1>2. IInv /\ [Next]_vars => IInv'
  BY NextKeepsIInv
<1> QED
  BY <1>1, <1>2, PTL DEF Spec

\* No kill, export or new home makes app.New, loading or InitChain panic on a
\* home whose genesis is usable: what each call of New needs is wired before it.
THEOREM HomesStart == Spec => []ValidHomeStarts
<1>1. IInv => ValidHomeStarts
  BY DEF IInv
<1> QED
  BY <1>1, Invariance, PTL

\* A genesis section of x/bps reaches every version that is ever committed.
THEOREM ParamsReachDisk == Spec => []SectionSurvives
<1>1. IInv => SectionSurvives
  BY DEF IInv
<1> QED
  BY <1>1, Invariance, PTL

\* Every version of the disk has the full version map, or the one of the earlier
\* binary.
THEOREM VersionsRecorded == Spec => []VersionsComplete
<1>1. IInv => VersionsComplete
  <2> SUFFICES ASSUME IInv, NEW i \in DOMAIN disk
               PROVE  AllModules \subseteq disk[i].versions \/ disk[i].versions = LegacyVersions
    BY DEF VersionsComplete
  <2>1. disk[i] \in States
    BY DEF IInv, Types
  <2> QED
    BY <2>1 DEF States
<1> QED
  BY <1>1, Invariance, PTL

\* An export is of the height that was asked for, or of a version of the home when
\* that is -1 or 0, however the home has grown since; only the height 0 gives it a
\* label that is not the one after its version.
THEOREM ExportIsOfItsHeight == Spec => []ExportsAskedHeight
<1>1. IInv => ExportsAskedHeight
  BY DEF IInv
<1> QED
  BY <1>1, Invariance, PTL

\* Committed params change only in a block with an executed message of the
\* governance account.
THEOREM OnlyGovernanceChangesParams == Spec => ParamsNeedAuthority
<1> DEFINE Changes == Len(disk') > Len(disk) /\ disk # <<>> /\ Last(disk').params # Last(disk).params
<1>1. IInv /\ IInv' /\ [Next]_vars => [Changes => authorized]_vars
  <2> SUFFICES ASSUME IInv, [Next]_vars, Changes
               PROVE  authorized
    OBVIOUS
  <2>1. disk' # disk
    OBVIOUS
  <2>2. Commit \/ StartOver
    BY <2>1 DEF Next, System, vars, homeVars, Start, StartExport, Inject, Build, RegisterStores,
       RegisterKeyTables, NewIBCKeeper, NewTransferKeeper, NewICAHostKeeper,
       NewICAControllerKeeper, NewWithChannels, NewKeeper, SetRouters, RegisterModules,
       SetInitChainer, Load, Serve, ReadOnly, InitChain, Export, UpdateParams, Kill, Wired,
       Stuck
  <2>3. CASE StartOver
    <3>1. disk' = <<>> /\ disk \in Seq(States)
      BY <2>3 DEF StartOver, IInv, Types
    <3> QED
      BY <3>1
  <2>4. CASE Commit
    <3>1. pc = "serving" /\ work # NoState
      BY <2>4 DEF Commit
    <3>2. Last(disk') = work
      BY <2>4, CommitAppends
    <3> QED
      BY <3>1, <3>2 DEF IInv, Blocks
  <2> QED
    BY <2>2, <2>3, <2>4
<1> QED
  BY <1>1, Invariance, PTL DEF Spec, ParamsNeedAuthority
=============================================================================
