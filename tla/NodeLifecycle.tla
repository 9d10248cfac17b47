--------------------------- MODULE NodeLifecycle ---------------------------
(***************************************************************************)
(* A bpsd home over its life: `bpsd start` wires the application (app.New  *)
(* and registerIBCModules, one step per call), loads the store, runs       *)
(* InitChain on an empty one and executes blocks; it may be killed before  *)
(* any step.  `bpsd export` wires the application again and reads the      *)
(* state of one height, from which a new home can be started.  Of the      *)
(* chain's state the model keeps what x/bps has: its params item, in the   *)
(* store it is kept in, and the map of module versions.                    *)
(***************************************************************************)
EXTENDS Integers, Sequences, FiniteSets, SequencesExt

CONSTANTS
    MaxHeight,   \* bound: blocks of a home
    MaxKills,    \* bound: times the process is killed
    MaxExports   \* bound: `bpsd export` runs

ASSUME LifecycleAssumption ==
    /\ MaxHeight \in Nat \ {0}
    /\ MaxKills \in Nat
    /\ MaxExports \in Nat

(***************************************************************************)
(* The configuration of app_config.go.                                     *)
(***************************************************************************)
\* Mutant: genutil comes before staking.
InitGenesisGentxsFirst ==
    <<"consensus", "auth", "bank", "distribution", "genutil", "staking", "slashing", "gov",
      "mint", "evidence", "authz", "feegrant", "vesting", "nft", "group", "upgrade",
      "circuit", "epochs", "ibc", "transfer", "interchainaccounts", "bps">>

InitGenesis ==
    <<"consensus", "auth", "bank", "distribution", "staking", "slashing", "gov", "mint",
      "genutil", "evidence", "authz", "feegrant", "vesting", "nft", "group", "upgrade",
      "circuit", "epochs", "ibc", "transfer", "interchainaccounts", "bps">>

\* The modules depinject provides.
InjectedModules ==
    {"runtime", "auth", "vesting", "bank", "staking", "slashing", "tx", "genutil", "authz",
     "upgrade", "distribution", "evidence", "mint", "group", "nft", "feegrant", "gov",
     "consensus", "circuit", "params", "epochs", "bps"}

\* Those of them without a store of their own.
Storeless == {"runtime", "vesting", "tx", "genutil"}

\* OverrideStoreKeys: auth and bps keep their state in stores of other names.
StoreKey(module) ==
    CASE module = "auth" -> "acc"
      [] module = "bps"  -> "semar"
      [] OTHER           -> module

\* What is wired by hand: the modules of ibc.go, their stores and keepers.
IBCModules == {"ibc", "transfer", "interchainaccounts", "07-tendermint", "06-solomachine"}
IBCStores  == {"ibc", "transfer", "icahost", "icacontroller"}
IBCRoutes  == {"transfer", "icacontroller", "icahost"}

AllModules == InjectedModules \cup IBCModules

\* The manual modules `bpsd init` knows, so that its genesis has their sections.
RegisterIBC == {"ibc", "transfer", "interchainaccounts", "07-tendermint", "06-solomachine"}

\* Modules that keep no genesis state.
Sectionless == {"runtime", "tx", "params", "07-tendermint", "06-solomachine"}

DefaultSections == (InjectedModules \cup RegisterIBC) \ Sectionless

\* The order notes of app_config.go: gentxs need pools and auth's params.
Needs(module) == IF module = "genutil" THEN {"auth", "staking"} ELSE {}

(***************************************************************************)
(* State.  The params item holds the encoding of Params, which is no byte  *)
(* at all: an item that is empty is not an item that is missing.           *)
(***************************************************************************)
Absent       == "absent"
ParamsBytes  == "empty"
GovAuthority == "gov"
NoState      == [stores |-> {}, params |-> Absent, versions |-> {}]
NoExport     == [result |-> "none", asked |-> 0, from |-> 0, height |-> 0, sections |-> {}]
NoApp        == [built |-> FALSE, stores |-> {}, tables |-> {}, keepers |-> {},
                 routes |-> {}, modules |-> {}, initChainer |-> FALSE]

VARIABLES
    genesis,    \* the genesis file of the home
    disk,       \* the committed states, the oldest first
    cmd,        \* the command the process runs
    pc,         \* the call of New that is next, or what the process does
    app,        \* the application that is wired
    work,       \* the state blocks execute on, or NoState before InitChain
    authorized, \* history: the block has an executed message of the authority
    exported,   \* the result of the last export
    kills, exports  \* counted for their bounds

vars == <<genesis, disk, cmd, pc, app, work, authorized, exported, kills, exports>>
homeVars == <<genesis, disk, exported, kills, exports>>

Wiring ==
    <<"inject", "build", "stores", "tables", "ibc", "transfer", "icahost", "icacontroller",
      "routers", "modules", "initChainer", "load">>

Fresh(height, sections, malformed) ==
    [height |-> height, sections |-> sections, malformed |-> malformed]

\* The default genesis, one with no section and one with a broken one for bps.
Geneses ==
    {Fresh(1, DefaultSections, {}), Fresh(1, DefaultSections \ {"bps"}, {}),
     Fresh(1, DefaultSections, {"bps"})}

\* The home of a chain that an earlier binary has run, in which the module still
\* had the name of its store.
LegacyStores ==
    {"acc", "semar"} \cup ((InjectedModules \ Storeless) \ {"auth", "bps"}) \cup IBCStores

LegacyVersions == (AllModules \ {"bps"}) \cup {"semar"}

LegacyState == [stores |-> LegacyStores, params |-> ParamsBytes, versions |-> LegacyVersions]

Init ==
    /\ genesis \in Geneses
    /\ \/ disk = <<>>
       \/ disk = <<LegacyState>> /\ genesis = Fresh(1, DefaultSections, {})
    /\ cmd = [name |-> "none"]
    /\ pc = "down"
    /\ app = NoApp
    /\ work = NoState
    /\ authorized = FALSE
    /\ exported = NoExport
    /\ kills = 0
    /\ exports = 0

(***************************************************************************)
(* Commands.                                                               *)
(***************************************************************************)
Run(command) ==
    /\ pc = "down"
    /\ cmd' = command
    /\ pc' = "inject"
    /\ app' = NoApp
    /\ work' = NoState
    /\ authorized' = FALSE

\* newApp loads the latest version.
Start ==
    /\ Run([name |-> "start", height |-> -1])
    /\ UNCHANGED homeVars

\* appExport: without a home it returns at once; an explicit height, which is any
\* but -1, is loaded after New, which then must not load the latest one.
StartExport ==
    \E height \in -1..MaxHeight + 2, zero \in BOOLEAN, modules \in {{}, {"bps"}} :
        /\ exports < MaxExports
        /\ Run([name |-> "export", height |-> height, zero |-> zero, modules |-> modules])
        /\ exports' = exports + 1
        /\ UNCHANGED <<genesis, disk, exported, kills>>

Panic == pc' = "failed" /\ UNCHANGED <<app, work>>

Kill ==
    /\ pc \notin {"down", "failed"}
    /\ kills < MaxKills
    /\ kills' = kills + 1
    /\ pc' = "down"
    /\ UNCHANGED <<genesis, disk, cmd, app, work, authorized, exported, exports>>

(***************************************************************************)
(* app.New.                                                                *)
(***************************************************************************)
At(call) == pc = call

Wired(a) ==
    /\ app' = a
    /\ pc' = Wiring[1 + CHOOSE k \in DOMAIN Wiring : Wiring[k] = pc]
    /\ UNCHANGED <<work, authorized, cmd, homeVars>>

Stuck == Panic /\ UNCHANGED <<authorized, cmd, homeVars>>

\* depinject makes the modules and their store keys; ProvideModule makes the
\* keeper of x/bps, with the governance account as its authority.
Inject ==
    /\ At("inject")
    /\ Wired([app EXCEPT !.modules = InjectedModules,
                         !.stores = {StoreKey(m) : m \in InjectedModules \ Storeless},
                         !.keepers = {"bps"}])

Build == At("build") /\ Wired([app EXCEPT !.built = TRUE])

\* Mutant: the store of the interchain account controller is forgotten.
RegisterStoresShort ==
    /\ At("stores")
    /\ Wired([app EXCEPT !.stores = @ \cup (IBCStores \ {"icacontroller"})])

RegisterStores ==
    /\ At("stores")
    /\ IF app.built THEN Wired([app EXCEPT !.stores = @ \cup IBCStores]) ELSE Stuck

RegisterKeyTables == At("tables") /\ Wired([app EXCEPT !.tables = IBCStores])

\* GetKey is nil for a store that is not registered, and GetSubspace has no
\* key table: such a keeper is not usable.
NewKeeper(k) ==
    /\ At(k)
    /\ Wired([app EXCEPT !.keepers =
                  IF k \in app.stores \cap app.tables THEN @ \cup {k} ELSE @])

NewIBCKeeper == NewKeeper("ibc")

\* The others take the channel keeper of the IBC keeper.
NewWithChannels(k) == IF "ibc" \in app.keepers THEN NewKeeper(k) ELSE At(k) /\ Stuck

NewTransferKeeper      == NewWithChannels("transfer")
NewICAHostKeeper       == NewWithChannels("icahost")
NewICAControllerKeeper == NewWithChannels("icacontroller")

SetRouters == At("routers") /\ Wired([app EXCEPT !.routes = IBCRoutes])

RegisterModules ==
    At("modules") /\ Wired([app EXCEPT !.modules = @ \cup IBCModules])

\* Mutant: the InitChainer of the runtime is kept.
SetInitChainerOfRuntime == At("initChainer") /\ Wired(app)

SetInitChainer == At("initChainer") /\ Wired([app EXCEPT !.initChainer = TRUE])

(***************************************************************************)
(* Loading: the stores that are registered must be those the version was   *)
(* written with, and the order of InitGenesis must name every module that  *)
(* has genesis state.                                                      *)
(***************************************************************************)
HasVersion(height) == height \in genesis.height..genesis.height + Len(disk) - 1

StateAt(height) == disk[height - genesis.height + 1]

LoadsInto(state) == state.stores = app.stores

OrderComplete == app.modules \ Sectionless \subseteq Range(InitGenesis)

\* Mutant: a home that has been started once counts as initialised.
ServeInitialized ==
    /\ cmd.name = "start"
    /\ pc' = "serving"
    /\ work' = IF disk # <<>> THEN Last(disk)
               ELSE IF kills > 0 THEN [NoState EXCEPT !.stores = app.stores] ELSE NoState
    /\ UNCHANGED <<app, authorized, cmd, homeVars>>

Serve ==
    /\ cmd.name = "start"
    /\ pc' = "serving"
    /\ work' = IF disk = <<>> THEN NoState ELSE Last(disk)
    /\ UNCHANGED <<app, authorized, cmd, homeVars>>

\* A height of its own is loaded by appExport, behind New.
ReadOnly ==
    /\ cmd.name = "export"
    /\ pc' = "exporting"
    /\ UNCHANGED <<app, work, authorized, cmd, homeVars>>

Load ==
    /\ At("load")
    /\ IF OrderComplete /\ (cmd.height = -1 /\ disk # <<>> => LoadsInto(Last(disk)))
       THEN Serve \/ ReadOnly
       ELSE Stuck

(***************************************************************************)
(* InitChain, on an empty store: SetModuleVersionMap, then InitGenesis of  *)
(* every module with a section, in order.  The upgrade module writes the   *)
(* versions of the injected modules once more.  It commits nothing: a      *)
(* process that is killed before the first Commit runs it again.           *)
(***************************************************************************)
Position(m) == CHOOSE k \in DOMAIN InitGenesis : InitGenesis[k] = m

InitializedBefore(m) ==
    {n \in genesis.sections : n \in Range(InitGenesis) /\ Position(n) < Position(m)}

KeepersOf(m) ==
    CASE m = "interchainaccounts"     -> {"icahost", "icacontroller"}
      [] m \in {"ibc", "transfer", "bps"} -> {m}
      [] OTHER                        -> {}

InitGenesisPanics ==
    \/ "staking" \notin genesis.sections
    \/ \E m \in genesis.sections :
          \/ m \in genesis.malformed
          \/ ~(Needs(m) \subseteq InitializedBefore(m))
          \/ ~(KeepersOf(m) \subseteq app.keepers)

VersionMap ==
    (IF app.initChainer THEN app.modules ELSE {})
      \cup (IF "upgrade" \in genesis.sections THEN InjectedModules ELSE {})

InitChain ==
    /\ pc = "serving" /\ work = NoState
    /\ IF InitGenesisPanics
       THEN Stuck
       ELSE /\ work' = [stores   |-> app.stores,
                        params   |-> IF "bps" \in genesis.sections THEN ParamsBytes ELSE Absent,
                        versions |-> VersionMap]
            /\ UNCHANGED <<pc, app, authorized, cmd, homeVars>>

(***************************************************************************)
(* Blocks.  MsgUpdateParams reaches the keeper through the handler, which  *)
(* decodes it; an authority is an address or no address.                   *)
(***************************************************************************)
Requests == {"undecodable", "noAddress", "user", GovAuthority}

\* Mutant: any address is taken for the authority.
AuthorizedByAnyone(request) == request \in {"user", GovAuthority}

Authorized(request) == request = GovAuthority

UpdateParams ==
    \E request \in Requests :
        /\ pc = "serving" /\ work # NoState
        /\ work' = IF Authorized(request) THEN [work EXCEPT !.params = ParamsBytes] ELSE work
        /\ authorized' = (authorized \/ request = GovAuthority)
        /\ UNCHANGED <<pc, app, cmd, homeVars>>

\* x/bps does nothing at the begin and at the end of a block.
Commit ==
    /\ pc = "serving" /\ work # NoState
    /\ Len(disk) < MaxHeight
    /\ disk' = Append(disk, work)
    /\ authorized' = FALSE
    /\ UNCHANGED <<genesis, cmd, pc, app, work, exported, kills, exports>>

(***************************************************************************)
(* ExportAppStateAndValidators.  ExportGenesis of x/bps fails when there   *)
(* is no params item, and the module makes a panic of it.                  *)
(***************************************************************************)
LastHeight == genesis.height + Len(disk) - 1

\* LoadHeight takes 0 for no version in particular: the stores load their latest
\* one, and the last height of the application is 0.
LoadedVersion(asked) == IF asked \in {-1, 0} THEN LastHeight ELSE asked

LastBlockHeight(asked, version) == IF asked = 0 THEN 0 ELSE version

\* Mutant: the latest version is read whatever height was asked for.
StateToExportLatest(version) == Last(disk)

StateToExport(version) == StateAt(version)

ExportResult(asked, version) ==
    LET sections == IF cmd.modules = {} THEN DefaultSections ELSE cmd.modules
        ended(how) == [NoExport EXCEPT !.result = how, !.asked = asked, !.from = version]
    IN  IF asked \notin {-1, 0} /\ ~(HasVersion(version) /\ LoadsInto(StateAt(version)))
        THEN ended("error")
        ELSE IF disk = <<>> THEN ended("panic")
        ELSE IF StateToExport(version).params = Absent THEN ended("panic")
        ELSE [result |-> "ok", asked |-> asked, from |-> version, sections |-> sections,
              height |-> IF cmd.zero THEN 0 ELSE LastBlockHeight(asked, version) + 1]

Export ==
    /\ pc = "exporting"
    /\ exported' = ExportResult(cmd.height, LoadedVersion(cmd.height))
    /\ pc' = "down"
    /\ UNCHANGED <<genesis, disk, cmd, app, work, authorized, kills, exports>>

\* A new home is made of an exported genesis.
StartOver ==
    /\ pc = "down"
    /\ exported.result = "ok"
    /\ genesis' = Fresh(IF exported.height = 0 THEN 1 ELSE exported.height,
                        exported.sections, {})
    /\ disk' = <<>>
    /\ exported' = NoExport
    /\ UNCHANGED <<cmd, pc, app, work, authorized, kills, exports>>

System ==
    \/ Start
    \/ Inject \/ Build \/ RegisterStores \/ RegisterKeyTables
    \/ NewIBCKeeper \/ NewTransferKeeper \/ NewICAHostKeeper \/ NewICAControllerKeeper
    \/ SetRouters \/ RegisterModules \/ SetInitChainer \/ Load
    \/ InitChain \/ Commit \/ Export

Next == System \/ UpdateParams \/ StartExport \/ StartOver \/ Kill

Spec == Init /\ [][Next]_vars

\* A process that is not killed runs on, and a node that is down is started.
FairSpec == Spec /\ WF_vars(System)

-----------------------------------------------------------------------------
Usable(g) == g.malformed = {} /\ {"auth", "staking"} \subseteq g.sections

\* A home with a usable genesis, a new one, one started from an export or one
\* that an earlier binary has written, never panics: whatever app.New wires in
\* its order is there when loading and InitChain need it.
ValidHomeStarts == pc = "failed" => ~Usable(genesis)

\* When genesis had a section for x/bps, every committed version has its params,
\* also when the process was killed between InitChain and the first block.
SectionSurvives ==
    "bps" \in genesis.sections => \A i \in DOMAIN disk : disk[i].params = ParamsBytes

\* Every version a home commits after InitChain knows the version of every module
\* that runs, those wired by hand included: a module missing there is initialised
\* again, over its state, by the first upgrade.
VersionsComplete ==
    \A i \in DOMAIN disk : \/ AllModules \subseteq disk[i].versions
                           \/ disk[i].versions = LegacyVersions

\* An export is of the height that was asked for, or of a version the home has
\* when none was: it panics exactly when that version has no params, even if a later
\* one has, and goes on one height after it or from zero.  The height 0 is the
\* exception: the export is of a later state and goes on from height 1 even so.
ExportsAskedHeight ==
    exported.result \in {"ok", "panic"} /\ exported.from >= genesis.height =>
        /\ HasVersion(exported.from)
        /\ exported.asked > 0 => exported.from = exported.asked
        /\ exported.result = "panic" <=> StateAt(exported.from).params = Absent
        /\ exported.result = "ok" =>
              exported.height \in {0, IF exported.asked = 0 THEN 1 ELSE exported.from + 1}

\* After InitChain only a block with an executed message of the authority leaves
\* other params than the block before it.
ParamsNeedAuthority ==
    [][Len(disk') > Len(disk) /\ disk # <<>> /\ Last(disk').params # Last(disk).params
         => authorized]_vars

\* However often the process is killed, exported from or moved to a new home, in
\* the end a usable home has all its blocks.
CommitsInTheEnd == <>[](Len(disk) = MaxHeight \/ ~Usable(genesis))
=============================================================================
