------------------------ MODULE DashboardController ------------------------
(***************************************************************************)
(* The refresh loop of the validator terminal                              *)
(* (apps/bps_validator_terminal): DashboardController starts a refresh on  *)
(* every timer tick, whether earlier ones are still waiting or not; each   *)
(* awaits a chain of RPC requests and bpsd queries with time limits, and   *)
(* whatever it ends with is written to the one state the page shows.       *)
(* The node, the bpsd command and the clock are the environment.           *)
(***************************************************************************)
EXTENDS Integers, Sequences, SequencesExt

CONSTANTS
    TryGets,          \* optional RPC requests of a fetch (5 in the code)
    OperatorQueries,  \* queries only a found operator needs (4)
    ChainQueries,     \* queries every fetch ends with (10)
    RpcTimeout,       \* limit of one phase of an RPC request, in ticks (2 s)
    CliTimeout,       \* limit of one bpsd command, in ticks (4 s)
    RefreshInterval,  \* period of the refresh timer, in ticks (5 s)
    MenuIds,          \* the menu entries
    MaxHeight         \* bound: the chain's height

ASSUME FetchAssumption ==
    /\ TryGets \in Nat
    /\ OperatorQueries \in Nat
    /\ ChainQueries \in Nat \ {0}

ASSUME TimeAssumption ==
    /\ RpcTimeout \in Nat \ {0}
    /\ CliTimeout \in Nat \ {0}
    /\ RefreshInterval \in Nat \ {0}

ASSUME EnvironmentAssumption ==
    /\ MaxHeight \in Nat
    /\ "dashboard" \in MenuIds

VARIABLES
    started,      \* _started
    disposed,     \* _disposed
    timer,        \* ticks until _refreshTimer fires, or NoTimer
    refreshes,    \* the refreshes that await an answer, oldest first
    status,       \* _state.status
    data,         \* _state.data
    activeMenuId, \* _activeMenuId
    height,       \* the chain's height
    healthy,      \* node and bpsd answer within their limits
    failures,     \* history: failed refreshes since the last that succeeded, to 2
    quiet         \* history: ticks since the start or the last refresh that ended,
                  \* counted to MaxQuiet + 1

view  == <<status, data>>
env   == <<height, healthy>>
vars  == <<started, disposed, timer, refreshes, status, data, activeMenuId,
           height, healthy, failures, quiet>>

NoTimer == -1

(***************************************************************************)
(* The calls of fetchDashboard, in the order they are awaited.             *)
(***************************************************************************)
Times(n, kind) == [k \in 1..n |-> kind]

RpcCalls == <<"status">> \o Times(TryGets, "tryGet")

CliCalls == <<"validators", "address">> \o Times(OperatorQueries, "operator")
              \o Times(ChainQueries, "query")

\* Mutant: the modules are queried before the node's status is known.
ModulesFirst == CliCalls \o RpcCalls

FetchCalls == RpcCalls \o CliCalls

\* The address is asked for only when /status gave one, the operator's data
\* only when the local node's validator was found.
Following(c) ==
    {n \in c + 1 .. Len(FetchCalls) + 1 :
        \A k \in c + 1 .. n - 1 :
            /\ FetchCalls[k] \in {"address", "operator"} \ {FetchCalls[c]}
            /\ n <= Len(FetchCalls) => FetchCalls[n] # FetchCalls[k]}

IsRpc(c) == FetchCalls[c] \in {"status", "tryGet"}

\* Mutant: no time limit on a bpsd command.
LimitOfRpcOnly(c) == IF IsRpc(c) THEN 3 * RpcTimeout ELSE 1000

\* getJson waits for the connection, the response and the body in turn.
Limit(c) == IF IsRpc(c) THEN 3 * RpcTimeout ELSE CliTimeout

\* The longest a fetch can take.
MaxFetch == Len(RpcCalls) * 3 * RpcTimeout + Len(CliCalls) * CliTimeout

MaxQuiet == RefreshInterval + MaxFetch

Connecting       == [kind |-> "connecting", rpc |-> 0, module |-> 0]
Offline          == [kind |-> "offline", rpc |-> 0, module |-> 0]
FromSnapshot(r)  == [kind |-> "live", rpc |-> r.rpc, module |-> r.module]
NewRefresh       == [call |-> 1, elapsed |-> 0, age |-> 0, rpc |-> 0, module |-> 0]

Init ==
    /\ started = FALSE
    /\ disposed = FALSE
    /\ timer = NoTimer
    /\ refreshes = <<>>
    /\ status = "loading"
    /\ data = Connecting
    /\ activeMenuId = "dashboard"
    /\ height = 0
    /\ healthy \in BOOLEAN
    /\ failures = 0
    /\ quiet = 0

\* Mutant: _setState writes after dispose.
SetStateAlways(s, d) == status' = s /\ data' = d

SetState(s, d) ==
    IF disposed THEN UNCHANGED view ELSE status' = s /\ data' = d

\* refresh() up to its await.
Refresh ==
    IF disposed
    THEN UNCHANGED <<refreshes, view>>
    ELSE /\ refreshes' = Append(refreshes, NewRefresh)
         /\ IF status # "success"
            THEN SetState("loading", data)
            ELSE UNCHANGED view

\* Mutant: start() does not look at _started.
StartAgain ==
    /\ started' = TRUE
    /\ Refresh
    /\ timer' = RefreshInterval
    /\ UNCHANGED <<disposed, activeMenuId, env, failures, quiet>>

Start ==
    /\ ~started
    /\ started' = TRUE
    /\ Refresh
    /\ timer' = RefreshInterval
    /\ UNCHANGED <<disposed, activeMenuId, env, failures, quiet>>

\* Mutant: a timer that fires once.
OneShotTimerFires ==
    /\ timer = 0
    /\ timer' = NoTimer
    /\ Refresh
    /\ UNCHANGED <<started, disposed, activeMenuId, env, failures, quiet>>

\* Timer.periodic: the next tick does not wait for the refresh of this one.
TimerFires ==
    /\ timer = 0
    /\ timer' = RefreshInterval
    /\ Refresh
    /\ UNCHANGED <<started, disposed, activeMenuId, env, failures, quiet>>

(***************************************************************************)
(* How the awaited call of a refresh ends.  An answered call, and an       *)
(* optional one that failed, is followed by the next; the last one ends    *)
(* the refresh with success, any other failure ends it with an error.      *)
(***************************************************************************)
Answerable(r) == ~(disposed /\ IsRpc(r.call))

Failing(r) == ~healthy \/ ~Answerable(r)

\* What the refresh has read when call c of it is answered.
WithAnswer(r, c) ==
    CASE FetchCalls[c] = "status"     -> [r EXCEPT !.rpc = height]
      [] FetchCalls[c] = "validators" -> [r EXCEPT !.module = height]
      [] OTHER                        -> r

Proceed(i, r) ==
    \E n \in Following(r.call) :
        /\ n <= Len(FetchCalls)
        /\ refreshes' = [refreshes EXCEPT ![i] = [r EXCEPT !.call = n, !.elapsed = 0]]
        /\ UNCHANGED <<view, failures, quiet>>

Succeed(i, r) ==
    /\ Len(FetchCalls) + 1 \in Following(r.call)
    /\ refreshes' = RemoveAt(refreshes, i)
    /\ SetState("success", FromSnapshot(r))
    /\ failures' = 0
    /\ quiet' = 0

\* Mutant: the view goes offline on every failure.
AlwaysOffline == Offline

Fallback == IF status = "success" THEN data ELSE Offline

\* Mutant: the catch clause ends the refresh and sets no state.
FailSilently(i) ==
    /\ refreshes' = RemoveAt(refreshes, i)
    /\ failures' = IF failures < 2 THEN failures + 1 ELSE 2
    /\ quiet' = 0
    /\ UNCHANGED view

Fail(i) ==
    /\ refreshes' = RemoveAt(refreshes, i)
    /\ SetState("error", Fallback)
    /\ failures' = IF failures < 2 THEN failures + 1 ELSE 2
    /\ quiet' = 0

CallAnswered ==
    /\ \E i \in DOMAIN refreshes :
        LET r == refreshes[i] IN
        /\ Answerable(r)
        /\ \/ Proceed(i, WithAnswer(r, r.call))
           \/ Succeed(i, WithAnswer(r, r.call))
    /\ UNCHANGED <<started, disposed, timer, activeMenuId, env>>

CallFails ==
    /\ \E i \in DOMAIN refreshes :
        LET r == refreshes[i] IN
        /\ Failing(r)
        /\ IF FetchCalls[r.call] = "tryGet" THEN Proceed(i, r) ELSE Fail(i)
    /\ UNCHANGED <<started, disposed, timer, activeMenuId, env>>

SelectMenu ==
    /\ ~disposed
    /\ activeMenuId' \in MenuIds \ {activeMenuId}
    /\ UNCHANGED <<started, disposed, timer, refreshes, view, env, failures, quiet>>

\* The page disposes the controller once, when it owns it.
Dispose ==
    /\ ~disposed
    /\ disposed' = TRUE
    /\ timer' = NoTimer
    /\ UNCHANGED <<started, refreshes, view, activeMenuId, env, failures, quiet>>

(***************************************************************************)
(* The environment.  Time passes while no timer and no time limit is due:  *)
(* the event loop runs what is due first.                                  *)
(***************************************************************************)
Older(r) == [r EXCEPT !.elapsed = @ + 1, !.age = @ + 1]

Tick ==
    /\ started
    /\ timer # 0
    /\ \A i \in DOMAIN refreshes : refreshes[i].elapsed < Limit(refreshes[i].call)
    /\ timer' = IF timer = NoTimer THEN NoTimer ELSE timer - 1
    /\ refreshes' = [i \in DOMAIN refreshes |-> Older(refreshes[i])]
    /\ quiet' = IF disposed \/ quiet > MaxQuiet THEN quiet ELSE quiet + 1
    /\ UNCHANGED <<started, disposed, view, activeMenuId, env, failures>>

NewBlock ==
    /\ height < MaxHeight
    /\ height' = height + 1
    /\ UNCHANGED <<started, disposed, timer, refreshes, view, activeMenuId,
                   healthy, failures, quiet>>

ChangeHealth ==
    /\ healthy' = ~healthy
    /\ UNCHANGED <<started, disposed, timer, refreshes, view, activeMenuId,
                   height, failures, quiet>>

Next ==
    \/ Start
    \/ TimerFires
    \/ CallAnswered
    \/ CallFails
    \/ SelectMenu
    \/ Dispose
    \/ Tick
    \/ NewBlock
    \/ ChangeHealth

Spec == Init /\ [][Next]_vars

\* Time passes, and the event loop runs timers and callbacks that are due.
Fairness ==
    /\ WF_vars(Tick)
    /\ WF_vars(TimerFires)
    /\ WF_vars(CallAnswered \/ CallFails)

FairSpec == Spec /\ Fairness

-----------------------------------------------------------------------------

Views == [kind : {"connecting", "offline", "live"}, rpc : 0..MaxHeight, module : 0..MaxHeight]


\* Every variable has its type; no awaited call is older than its time limit
\* and no refresh older than the limits of a whole fetch together.
TypeOK ==
    /\ started \in BOOLEAN
    /\ disposed \in BOOLEAN
    /\ timer \in {NoTimer} \cup 0..RefreshInterval
    /\ \A i \in DOMAIN refreshes :
         LET r == refreshes[i] IN
         /\ r.call \in DOMAIN FetchCalls
         /\ r.elapsed \in 0..Limit(r.call)
         /\ r.age \in r.elapsed..MaxFetch
         /\ r.rpc \in 0..MaxHeight
         /\ r.module \in 0..MaxHeight
    /\ status \in {"loading", "success", "error"}
    /\ data \in Views
    /\ activeMenuId \in MenuIds
    /\ height \in 0..MaxHeight
    /\ healthy \in BOOLEAN
    /\ failures \in 0..2
    /\ quiet \in 0..MaxQuiet + 1

\* The timer does not wait for the refreshes it starts, yet the time limits of
\* the calls bound how many of them wait at once.  This is about the refreshes,
\* each at one call of its chain: a bpsd process whose time limit has passed is
\* not killed and may run on, with no refresh waiting for it.
OverlapBounded == Len(refreshes) <= MaxFetch \div RefreshInterval + 1

\* A started terminal learns something at least this often, from a node that
\* answers nothing too: every period a refresh starts and every one of them
\* ends.
NeverSilent ==
    started /\ ~disposed => quiet <= MaxQuiet

\* The page is never left in its loading state with no refresh under way that
\* will end it, whatever order overlapping refreshes end in.
LoadingMeansFetching ==
    started /\ ~disposed /\ status = "loading" => refreshes # <<>>

\* What a view shows of the modules was read from a chain at least as high as
\* the one its status line shows.
ModulesNotBehindStatus == data.module >= data.rpc

\* One failed refresh never takes a live view off the screen: data that was
\* fetched goes offline only after two failures with no success between.
OfflineAfterTwoFailures ==
    [][data.kind = "live" /\ data'.kind = "offline" => failures' = 2]_vars

\* After dispose nothing that was still awaited reaches the state, and no
\* further refresh begins, a start() that comes later included.
NothingAfterDispose ==
    [][disposed => /\ UNCHANGED <<view, activeMenuId>>
                   /\ Len(refreshes') <= Len(refreshes)]_vars

\* Once node and bpsd answer for good, a started terminal that is not closed
\* shows live data in the end and keeps showing it, whatever was in flight.
RecoversFromOutage ==
    (<>started /\ []~disposed /\ <>[]healthy)
        => <>[](status = "success" /\ data.kind = "live")
=============================================================================
