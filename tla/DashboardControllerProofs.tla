----------------------- MODULE DashboardControllerProofs -----------------------
(***************************************************************************)
(* Proofs, for every number of calls, every time limit and every refresh   *)
(* period, of the safety properties of DashboardController.                *)
(***************************************************************************)
EXTENDS DashboardController, SequenceTheorems, TLAPS

-----------------------------------------------------------------------------
(* The calls of a fetch, by their position.                                 *)

Kinds  == {"status", "tryGet", "validators", "address", "operator", "query"}
NRpc   == 1 + TryGets
NCalls == NRpc + 2 + OperatorQueries + ChainQueries

LEMMA TimesProperties ==
    ASSUME NEW n \in Nat, NEW kind \in Kinds
    PROVE  /\ Times(n, kind) \in Seq(Kinds)
           /\ Len(Times(n, kind)) = n
           /\ \A k \in 1..n : Times(n, kind)[k] = kind
BY DEF Times

LEMMA RpcCallsLayout ==
    /\ RpcCalls \in Seq(Kinds)
    /\ Len(RpcCalls) = NRpc
    /\ RpcCalls[1] = "status"
    /\ \A k \in 2..NRpc : RpcCalls[k] = "tryGet"
<1> DEFINE gets == Times(TryGets, "tryGet")
<1>1. /\ gets \in Seq(Kinds) /\ Len(gets) = TryGets
      /\ \A k \in 1..TryGets : gets[k] = "tryGet"
  BY TimesProperties, FetchAssumption DEF Kinds
<1>2. <<"status">> \in Seq(Kinds) /\ Len(<<"status">>) = 1 /\ <<"status">>[1] = "status"
  BY DEF Kinds
<1> HIDE DEF gets
<1>3. /\ <<"status">> \o gets \in Seq(Kinds)
      /\ Len(<<"status">> \o gets) = 1 + TryGets
      /\ \A k \in 1..1 + TryGets :
            (<<"status">> \o gets)[k] = IF k <= 1 THEN <<"status">>[k] ELSE gets[k - 1]
  BY <1>1, <1>2, FetchAssumption
<1> QED
  BY <1>1, <1>2, <1>3, FetchAssumption DEF RpcCalls, gets, NRpc

LEMMA CliCallsLayout ==
    /\ CliCalls \in Seq(Kinds)
    /\ Len(CliCalls) = NCalls - NRpc
    /\ CliCalls[1] = "validators"
    /\ CliCalls[2] = "address"
    /\ \A k \in 3..OperatorQueries + 2 : CliCalls[k] = "operator"
    /\ \A k \in OperatorQueries + 3..NCalls - NRpc : CliCalls[k] = "query"
<1> DEFINE two == <<"validators", "address">>
           ops == Times(OperatorQueries, "operator")
           qs  == Times(ChainQueries, "query")
<1>1. /\ ops \in Seq(Kinds) /\ Len(ops) = OperatorQueries
      /\ \A k \in 1..OperatorQueries : ops[k] = "operator"
  BY TimesProperties, FetchAssumption DEF Kinds
<1>2. /\ qs \in Seq(Kinds) /\ Len(qs) = ChainQueries
      /\ \A k \in 1..ChainQueries : qs[k] = "query"
  BY TimesProperties, FetchAssumption DEF Kinds
<1>3. two \in Seq(Kinds) /\ Len(two) = 2 /\ two[1] = "validators" /\ two[2] = "address"
  BY DEF Kinds
<1>4. OperatorQueries \in Nat /\ ChainQueries \in Nat /\ TryGets \in Nat
  BY FetchAssumption
<1> HIDE DEF two, ops, qs
<1>5. /\ two \o ops \in Seq(Kinds)
      /\ Len(two \o ops) = 2 + OperatorQueries
      /\ \A k \in 1..2 + OperatorQueries :
            (two \o ops)[k] = IF k <= 2 THEN two[k] ELSE ops[k - 2]
  <2>1. two \in Seq(Kinds) /\ ops \in Seq(Kinds)
    BY <1>1, <1>3
  <2>2. /\ two \o ops \in Seq(Kinds)
        /\ Len(two \o ops) = Len(two) + Len(ops)
        /\ \A k \in 1..Len(two) + Len(ops) :
              (two \o ops)[k] = IF k <= Len(two) THEN two[k] ELSE ops[k - Len(two)]
    BY <2>1, ConcatProperties
  <2> QED
    BY <1>1, <1>3, <1>4, <2>2
<1>6. /\ (two \o ops) \o qs \in Seq(Kinds)
      /\ Len((two \o ops) \o qs) = 2 + OperatorQueries + ChainQueries
      /\ \A k \in 1..2 + OperatorQueries + ChainQueries :
            ((two \o ops) \o qs)[k] = IF k <= 2 + OperatorQueries THEN (two \o ops)[k]
                                      ELSE qs[k - (2 + OperatorQueries)]
  <2> DEFINE s == two \o ops
             m == 2 + OperatorQueries
  <2>1. s \in Seq(Kinds) /\ m \in Nat /\ Len(s) = m
    BY <1>4, <1>5
  <2> HIDE DEF s, m
  <2>2. /\ s \o qs \in Seq(Kinds)
        /\ Len(s \o qs) = m + ChainQueries
        /\ \A k \in 1..m + ChainQueries : (s \o qs)[k] = IF k <= m THEN s[k] ELSE qs[k - m]
    BY <1>2, <1>4, <2>1
  <2> QED
    BY <2>2 DEF s, m
<1>7. CliCalls = (two \o ops) \o qs
  BY DEF CliCalls, two, ops, qs
<1>8. NCalls - NRpc = 2 + OperatorQueries + ChainQueries
  BY <1>4 DEF NRpc, NCalls
<1>9. CliCalls \in Seq(Kinds) /\ Len(CliCalls) = NCalls - NRpc
  BY <1>6, <1>7, <1>8
<1>10. \A k \in 1..2 + OperatorQueries : CliCalls[k] = IF k <= 2 THEN two[k] ELSE ops[k - 2]
  BY <1>4, <1>5, <1>6, <1>7
<1>11. CliCalls[1] = "validators" /\ CliCalls[2] = "address"
  BY <1>3, <1>4, <1>10
<1>12. \A k \in 3..OperatorQueries + 2 : CliCalls[k] = "operator"
  BY <1>1, <1>4, <1>10
<1>13. \A k \in OperatorQueries + 3..NCalls - NRpc : CliCalls[k] = "query"
  BY <1>2, <1>4, <1>6, <1>7, <1>8
<1> QED
  BY <1>9, <1>11, <1>12, <1>13

LEMMA FetchLayout ==
    /\ NRpc \in Nat \ {0} /\ NCalls \in Nat /\ NRpc + 2 < NCalls
    /\ FetchCalls \in Seq(Kinds)
    /\ Len(FetchCalls) = NCalls
    /\ DOMAIN FetchCalls = 1..NCalls
    /\ FetchCalls[1] = "status"
    /\ \A k \in 2..NRpc : FetchCalls[k] = "tryGet"
    /\ FetchCalls[NRpc + 1] = "validators"
    /\ \A k \in NRpc + 2..NCalls : FetchCalls[k] \in {"address", "operator", "query"}
    /\ FetchCalls[NCalls] = "query"
<1>1. /\ NRpc \in Nat \ {0} /\ NCalls \in Nat /\ NRpc + 2 < NCalls
      /\ OperatorQueries \in Nat /\ ChainQueries \in Nat \ {0}
      /\ NCalls - NRpc = 2 + OperatorQueries + ChainQueries
  BY FetchAssumption DEF NRpc, NCalls
<1>2. /\ FetchCalls \in Seq(Kinds)
      /\ Len(FetchCalls) = Len(RpcCalls) + Len(CliCalls)
      /\ \A k \in 1..Len(RpcCalls) + Len(CliCalls) :
            FetchCalls[k] = IF k <= Len(RpcCalls) THEN RpcCalls[k] ELSE CliCalls[k - Len(RpcCalls)]
  BY RpcCallsLayout, CliCallsLayout, <1>1 DEF FetchCalls
<1>3. Len(RpcCalls) + Len(CliCalls) = NCalls
  BY <1>1, RpcCallsLayout, CliCallsLayout
<1>4. DOMAIN FetchCalls = 1..NCalls
  BY <1>2, <1>3, LenProperties
<1>5. /\ FetchCalls[1] = "status"
      /\ \A k \in 2..NRpc : FetchCalls[k] = "tryGet"
  BY <1>1, <1>2, <1>3, RpcCallsLayout
<1>6. \A k \in NRpc + 1..NCalls : FetchCalls[k] = CliCalls[k - NRpc]
  BY <1>1, <1>2, <1>3, RpcCallsLayout
<1>7. FetchCalls[NRpc + 1] = "validators" /\ FetchCalls[NCalls] = "query"
  BY <1>1, <1>6, CliCallsLayout
<1>8. ASSUME NEW k \in NRpc + 2..NCalls
      PROVE  FetchCalls[k] \in {"address", "operator", "query"}
  <2>1. FetchCalls[k] = CliCalls[k - NRpc] /\ k - NRpc \in 2..NCalls - NRpc
    BY <1>1, <1>6
  <2>2. \/ k - NRpc = 2 \/ k - NRpc \in 3..OperatorQueries + 2
        \/ k - NRpc \in OperatorQueries + 3..NCalls - NRpc
    BY <2>1, <1>1
  <2> QED
    BY <2>1, <2>2, CliCallsLayout
<1> QED
  BY <1>1, <1>2, <1>3, <1>4, <1>5, <1>7, <1>8

\* What may follow a call: never a call before it, and no mandatory one is left out.
LEMMA FollowingProperties ==
    ASSUME NEW c \in 1..NCalls, NEW n \in Following(c)
    PROVE  /\ n \in 1..NCalls + 1
           /\ c < n
           /\ c <= NRpc => n <= NRpc + 1
           /\ n = NCalls + 1 => c = NCalls
<1>1. /\ n \in c + 1..NCalls + 1
      /\ \A k \in c + 1..n - 1 : FetchCalls[k] \in {"address", "operator"}
  BY FetchLayout DEF Following
<1>2. c < n /\ n \in 1..NCalls + 1
  BY <1>1, FetchLayout
<1>3. c <= NRpc => n <= NRpc + 1
  <2> SUFFICES ASSUME c <= NRpc, NRpc + 1 < n
               PROVE  FALSE
    BY <1>2, FetchLayout
  <2>1. NRpc + 1 \in c + 1..n - 1
    BY <1>2, FetchLayout
  <2> QED
    BY <1>1, <2>1, FetchLayout
<1>4. n = NCalls + 1 => c = NCalls
  <2> SUFFICES ASSUME n = NCalls + 1, c # NCalls
               PROVE  FALSE
    OBVIOUS
  <2>1. NCalls \in c + 1..n - 1
    BY <1>2, FetchLayout
  <2> QED
    BY <1>1, <2>1, FetchLayout
<1> QED
  BY <1>2, <1>3, <1>4

-----------------------------------------------------------------------------
(* Time: Spent(c) is what the calls before c can have taken.                *)

Spent(c) ==
    IF c <= NRpc THEN (c - 1) * (3 * RpcTimeout)
    ELSE NRpc * (3 * RpcTimeout) + (c - 1 - NRpc) * CliTimeout

LEMMA ProductMonotone ==
    ASSUME NEW a \in Int, NEW b \in Int, NEW t \in Nat, a <= b
    PROVE  a * t <= b * t
<1>1. b * t - a * t = (b - a) * t
  OBVIOUS
<1>2. (b - a) * t >= 0
  <2>1. b - a \in Nat
    OBVIOUS
  <2> HIDE DEF TimeAssumption
  <2> QED
    BY <2>1
<1> QED
  BY <1>1, <1>2

LEMMA LimitIsRpcOrCli ==
    ASSUME NEW c \in 1..NCalls
    PROVE  Limit(c) = IF c <= NRpc THEN 3 * RpcTimeout ELSE CliTimeout
<1>1. c <= NRpc => FetchCalls[c] \in {"status", "tryGet"}
  BY FetchLayout
<1>2. c > NRpc => FetchCalls[c] \notin {"status", "tryGet"}
  BY FetchLayout
<1> QED
  BY <1>1, <1>2, FetchLayout DEF Limit, IsRpc

LEMMA SpentProperties ==
    /\ Spent(1) = 0
    /\ \A c \in 1..NCalls + 1 : Spent(c) \in Int
    /\ \A c \in 1..NCalls : Limit(c) \in Nat /\ Spent(c + 1) = Spent(c) + Limit(c)
    /\ \A c, d \in 1..NCalls + 1 : c <= d => Spent(c) <= Spent(d)
    /\ MaxFetch \in Nat
    /\ Spent(NCalls + 1) = MaxFetch
<1> DEFINE R == 3 * RpcTimeout
<1>1. R \in Nat /\ CliTimeout \in Nat
  BY TimeAssumption
<1>2. NRpc \in Nat /\ NCalls \in Nat /\ NRpc < NCalls /\ 1 <= NRpc
  BY FetchLayout
<1> HIDE DEF R
<1>3. \A c : Spent(c) = IF c <= NRpc THEN (c - 1) * R ELSE NRpc * R + (c - 1 - NRpc) * CliTimeout
  BY DEF Spent, R
<1>4. \A c \in 1..NCalls : Limit(c) = IF c <= NRpc THEN R ELSE CliTimeout
  BY LimitIsRpcOrCli DEF R
<1>5. Spent(1) = 0
  BY <1>1, <1>2, <1>3
<1>6. \A c \in 1..NCalls + 1 : Spent(c) \in Int
  BY <1>1, <1>2, <1>3
<1>7. ASSUME NEW c \in 1..NCalls
      PROVE  Limit(c) \in Nat /\ Spent(c + 1) = Spent(c) + Limit(c)
  <2>1. CASE c + 1 <= NRpc
    <3>1. (c + 1 - 1) * R = (c - 1) * R + R
      BY <1>1, <1>2
    <3> QED
      BY <1>1, <1>2, <1>3, <1>4, <2>1, <3>1
  <2>2. CASE c = NRpc
    <3>1. (NRpc - 1) * R + R = NRpc * R /\ (NRpc + 1 - 1 - NRpc) * CliTimeout = 0
      BY <1>1, <1>2
    <3>2. Spent(NRpc + 1) = NRpc * R + (NRpc + 1 - 1 - NRpc) * CliTimeout
      BY <1>2, <1>3
    <3>3. Spent(NRpc) = (NRpc - 1) * R
      BY <1>2, <1>3
    <3>4. NRpc * R \in Int /\ (NRpc - 1) * R \in Int
      BY <1>1, <1>2
    <3>5. Limit(c) = R
      BY <1>2, <1>4, <2>2
    <3> QED
      BY <1>1, <2>2, <3>1, <3>2, <3>3, <3>4, <3>5
  <2>3. CASE c > NRpc
    <3>1. (c + 1 - 1 - NRpc) * CliTimeout = (c - 1 - NRpc) * CliTimeout + CliTimeout
      BY <1>1, <1>2
    <3> QED
      BY <1>1, <1>2, <1>3, <1>4, <2>3, <3>1
  <2> QED
    BY <1>2, <2>1, <2>2, <2>3
<1>8. ASSUME NEW c \in 1..NCalls + 1, NEW d \in 1..NCalls + 1, c <= d
      PROVE  Spent(c) <= Spent(d)
  <2>1. CASE d <= NRpc
    <3>1. (c - 1) * R <= (d - 1) * R
      BY <1>1, <1>8, ProductMonotone
    <3> QED
      BY <1>2, <1>3, <1>8, <2>1, <3>1
  <2>2. CASE c <= NRpc /\ d > NRpc
    <3>1. (c - 1) * R <= NRpc * R
      BY <1>1, <1>2, <2>2, ProductMonotone
    <3>2. (d - 1 - NRpc) * CliTimeout >= 0 /\ (d - 1 - NRpc) * CliTimeout \in Int
      <4>1. d - 1 - NRpc \in Nat
        BY <1>2, <2>2
      <4> QED
        BY <1>1, <4>1
    <3>3. (c - 1) * R \in Int /\ NRpc * R \in Int
      BY <1>1, <1>2
    <3> QED
      BY <1>2, <1>3, <2>2, <3>1, <3>2, <3>3
  <2>3. CASE c > NRpc
    <3>1. (c - 1 - NRpc) * CliTimeout <= (d - 1 - NRpc) * CliTimeout
      BY <1>1, <1>2, <1>8, ProductMonotone
    <3> QED
      BY <1>1, <1>2, <1>3, <1>8, <2>3, <3>1
  <2> QED
    BY <1>2, <2>1, <2>2, <2>3
<1>9. MaxFetch \in Nat /\ Spent(NCalls + 1) = MaxFetch
  <2>1. MaxFetch = NRpc * 3 * RpcTimeout + (NCalls - NRpc) * CliTimeout
    BY RpcCallsLayout, CliCallsLayout DEF MaxFetch
  <2>2. NRpc * 3 * RpcTimeout = NRpc * R
    BY <1>2, TimeAssumption DEF R
  <2>3. NCalls + 1 - 1 - NRpc = NCalls - NRpc
    BY <1>2
  <2>4. Spent(NCalls + 1) = MaxFetch
    BY <1>2, <1>3, <2>1, <2>2, <2>3
  <2>5. NRpc * R \in Nat /\ NCalls - NRpc \in Nat
    BY <1>1, <1>2
  <2>6. (NCalls - NRpc) * CliTimeout \in Nat
    BY <1>1, <2>5
  <2> QED
    BY <2>1, <2>2, <2>4, <2>5, <2>6
<1> QED
  BY <1>5, <1>6, <1>7, <1>8, <1>9

-----------------------------------------------------------------------------
(* Removal from a sequence.                                                 *)

LEMMA RemoveAtProperties ==
    ASSUME NEW S, NEW s \in Seq(S), NEW i \in 1..Len(s)
    PROVE  /\ RemoveAt(s, i) \in Seq(S)
           /\ Len(RemoveAt(s, i)) = Len(s) - 1
           /\ \A k \in 1..Len(s) - 1 : RemoveAt(s, i)[k] = IF k < i THEN s[k] ELSE s[k + 1]
<1> DEFINE left  == SubSeq(s, 1, i - 1)
           right == SubSeq(s, i + 1, Len(s))
<1>1. Len(s) \in Nat /\ \A k \in 1..Len(s) : s[k] \in S
  BY ElementOfSeq, LenProperties
<1>2. /\ left \in Seq(S) /\ Len(left) = i - 1
      /\ \A k \in 1..i - 1 : left[k] = s[k]
  BY <1>1, SubSeqProperties
<1>3. /\ right \in Seq(S) /\ Len(right) = Len(s) - i
      /\ \A k \in 1..Len(s) - i : right[k] = s[k + i]
  BY <1>1, SubSeqProperties
<1> HIDE DEF left, right
<1>4. left \in Seq(S) /\ right \in Seq(S)
  BY <1>2, <1>3
<1>5. /\ left \o right \in Seq(S)
      /\ Len(left \o right) = Len(left) + Len(right)
      /\ \A k \in 1..Len(left) + Len(right) :
            (left \o right)[k] = IF k <= Len(left) THEN left[k] ELSE right[k - Len(left)]
  BY <1>4, ConcatProperties
<1>6. RemoveAt(s, i) = left \o right
  BY DEF RemoveAt, left, right
<1>7. Len(left \o right) = Len(s) - 1
  BY <1>1, <1>2, <1>3, <1>5
<1>8. ASSUME NEW k \in 1..Len(s) - 1
      PROVE  (left \o right)[k] = IF k < i THEN s[k] ELSE s[k + 1]
  <2>1. (left \o right)[k] = IF k <= i - 1 THEN left[k] ELSE right[k - (i - 1)]
    BY <1>1, <1>2, <1>3, <1>5
  <2>2. k \in Nat /\ i \in Nat /\ 1 <= k /\ k <= Len(s) - 1 /\ 1 <= i /\ i <= Len(s)
    BY <1>1
  <2>3. CASE k < i
    <3>1. k <= i - 1 /\ k \in 1..i - 1
      BY <2>2, <2>3
    <3> QED
      BY <1>2, <2>1, <2>3, <3>1
  <2>4. CASE ~(k < i)
    <3>1. ~(k <= i - 1) /\ k - (i - 1) \in 1..Len(s) - i /\ k - (i - 1) + i = k + 1
      BY <1>1, <2>2, <2>4
    <3>2. right[k - (i - 1)] = s[k + 1]
      BY <1>3, <3>1
    <3> QED
      BY <2>1, <2>4, <3>1, <3>2
  <2> QED
    BY <2>3, <2>4
<1> QED
  BY <1>5, <1>6, <1>7, <1>8

-----------------------------------------------------------------------------
(* The inductive invariant.                                                 *)

AwaitedRefresh ==
    [call : 1..NCalls, elapsed : Nat, age : Nat, rpc : 0..MaxHeight, module : 0..MaxHeight]

Types ==
    /\ started \in BOOLEAN
    /\ disposed \in BOOLEAN
    /\ timer \in {NoTimer} \cup 0..RefreshInterval
    /\ refreshes \in Seq(AwaitedRefresh)
    /\ status \in {"loading", "success", "error"}
    /\ data \in Views
    /\ activeMenuId \in MenuIds
    /\ height \in 0..MaxHeight
    /\ healthy \in BOOLEAN
    /\ failures \in 0..2
    /\ quiet \in 0..MaxQuiet + 1

\* A call waits no longer than its limit, and the calls before it did not either.
InTime(r) ==
    /\ r.elapsed <= Limit(r.call)
    /\ r.elapsed <= r.age
    /\ r.age <= Spent(r.call) + r.elapsed

\* The node's status is read before the modules.
ReadInOrder(r, h) ==
    /\ r.rpc <= h
    /\ r.call > NRpc + 1 => r.module >= r.rpc

EachRefresh == \A i \in 1..Len(refreshes) : InTime(refreshes[i]) /\ ReadInOrder(refreshes[i], height)

\* Refreshes begin a whole period apart.
Spaced ==
    \A i, j \in 1..Len(refreshes) :
        i < j => refreshes[i].age - refreshes[j].age >= (j - i) * RefreshInterval

NotStarted == ~started => refreshes = <<>> /\ quiet = 0 /\ timer = NoTimer

\* The timer counts the period since the youngest refresh began.
TimerRuns ==
    /\ started /\ ~disposed => timer \in 0..RefreshInterval
    /\ ~disposed /\ refreshes # <<>> =>
          refreshes[Len(refreshes)].age >= RefreshInterval - timer

\* The quiet time ends with the oldest refresh, or with the one the timer starts.
QuietSince ==
    started /\ ~disposed =>
        quiet <= IF refreshes = <<>> THEN RefreshInterval - timer
                 ELSE refreshes[1].age + RefreshInterval

ViewKept ==
    /\ data.module >= data.rpc
    /\ started /\ ~disposed /\ status = "loading" => refreshes # <<>>
    /\ ~disposed /\ data.kind = "live" /\ status # "success" => failures >= 1

IInv ==
    /\ Types
    /\ EachRefresh
    /\ Spaced
    /\ NotStarted
    /\ TimerRuns
    /\ QuietSince
    /\ ViewKept

-----------------------------------------------------------------------------
(* What the operations make of the refreshes that wait.                     *)

Waiting == refreshes \in Seq(AwaitedRefresh) /\ EachRefresh /\ Spaced

LEMMA FieldTypes ==
    ASSUME NEW r \in AwaitedRefresh
    PROVE  /\ r.call \in 1..NCalls /\ r.elapsed \in Nat /\ r.age \in Nat
           /\ r.rpc \in 0..MaxHeight /\ r.module \in 0..MaxHeight
           /\ Spent(r.call) \in Int /\ Limit(r.call) \in Nat
<1>1. /\ r.call \in 1..NCalls /\ r.elapsed \in Nat /\ r.age \in Nat
      /\ r.rpc \in 0..MaxHeight /\ r.module \in 0..MaxHeight
  BY DEF AwaitedRefresh
<1>2. r.call \in 1..NCalls + 1
  BY <1>1, FetchLayout
<1> QED
  BY <1>1, <1>2, SpentProperties

LEMMA AgeBound ==
    ASSUME NEW r \in AwaitedRefresh, InTime(r)
    PROVE  r.age <= MaxFetch
<1>1. /\ r.call \in 1..NCalls /\ r.call + 1 \in 1..NCalls + 1 /\ NCalls + 1 \in 1..NCalls + 1
      /\ r.call + 1 <= NCalls + 1
  BY FieldTypes, FetchLayout
<1>2. Spent(r.call + 1) = Spent(r.call) + Limit(r.call) /\ Spent(r.call + 1) <= MaxFetch
  BY <1>1, SpentProperties
<1> QED
  BY <1>1, <1>2, FieldTypes, SpentProperties DEF InTime

LEMMA BeginKeeps ==
    ASSUME Waiting, height \in 0..MaxHeight, MaxHeight \in Nat,
           refreshes # <<>> => refreshes[Len(refreshes)].age >= RefreshInterval,
           refreshes' = Append(refreshes, NewRefresh), height' = height
    PROVE  /\ Waiting'
           /\ Len(refreshes') = Len(refreshes) + 1
           /\ refreshes' # <<>>
           /\ refreshes'[Len(refreshes')].age = 0
           /\ refreshes # <<>> => refreshes'[1] = refreshes[1]
<1> DEFINE n == Len(refreshes)
<1>1. n \in Nat /\ \A k \in 1..n : refreshes[k] \in AwaitedRefresh
  BY ElementOfSeq, LenProperties DEF Waiting
<1>2. NewRefresh \in AwaitedRefresh
  BY FetchLayout DEF NewRefresh, AwaitedRefresh
<1>3. /\ refreshes' \in Seq(AwaitedRefresh)
      /\ Len(refreshes') = n + 1
      /\ \A k \in 1..n : refreshes'[k] = refreshes[k]
      /\ refreshes'[n + 1] = NewRefresh
  BY <1>2, AppendProperties DEF Waiting
<1>4. /\ NewRefresh.call = 1 /\ NewRefresh.elapsed = 0 /\ NewRefresh.age = 0
      /\ NewRefresh.rpc = 0 /\ NewRefresh.module = 0
  BY DEF NewRefresh
<1>5. InTime(NewRefresh) /\ ReadInOrder(NewRefresh, height')
  <2>1. Limit(1) \in Nat /\ Spent(1) = 0
    BY FetchLayout, SpentProperties
  <2> QED
    BY <1>4, <2>1, FetchLayout DEF InTime, ReadInOrder
<1>6. EachRefresh'
  <2> SUFFICES ASSUME NEW k \in 1..n + 1
               PROVE  InTime(refreshes'[k]) /\ ReadInOrder(refreshes'[k], height')
    BY <1>3 DEF EachRefresh
  <2> QED
    BY <1>1, <1>3, <1>5 DEF Waiting, EachRefresh
<1>7. Spaced'
  <2> SUFFICES ASSUME NEW i \in 1..n + 1, NEW j \in 1..n + 1, i < j
               PROVE  refreshes'[i].age - refreshes'[j].age >= (j - i) * RefreshInterval
    BY <1>3 DEF Spaced
  <2>1. CASE j <= n
    BY <1>1, <1>3, <2>1 DEF Waiting, Spaced
  <2>2. CASE j = n + 1
    <3>1. /\ i \in 1..n /\ n \in 1..n /\ refreshes # <<>>
          /\ refreshes'[i] = refreshes[i] /\ refreshes'[j].age = 0
      BY <1>1, <1>3, <1>4, <2>2
    <3>2. refreshes[i].age >= (n - i) * RefreshInterval + RefreshInterval
      <4>1. CASE i = n
        BY <1>1, <3>1, <4>1, TimeAssumption
      <4>2. CASE i < n
        <5>1. refreshes[i].age - refreshes[n].age >= (n - i) * RefreshInterval
          BY <3>1, <4>2 DEF Waiting, Spaced
        <5>2. refreshes[i].age \in Nat /\ refreshes[n].age \in Nat
          BY <1>1, <3>1, FieldTypes
        <5>3. refreshes[n].age >= RefreshInterval
          BY <3>1
        <5>4. (n - i) * RefreshInterval \in Int
          BY <1>1, TimeAssumption
        <5> QED
          BY <5>1, <5>2, <5>3, <5>4, TimeAssumption
      <4> QED
        BY <1>1, <3>1, <4>1, <4>2
    <3>3. (n - i) * RefreshInterval + RefreshInterval = (j - i) * RefreshInterval
      BY <1>1, <2>2, TimeAssumption
    <3>4. refreshes[i].age \in Nat
      BY <1>1, <3>1, FieldTypes
    <3> QED
      BY <3>1, <3>2, <3>3, <3>4
  <2> QED
    BY <1>1, <2>1, <2>2
<1>8. refreshes # <<>> => refreshes'[1] = refreshes[1]
  BY <1>1, <1>3, EmptySeq DEF Waiting
<1> QED
  BY <1>1, <1>3, <1>4, <1>6, <1>7, <1>8, EmptySeq DEF Waiting

LEMMA EndKeeps ==
    ASSUME Waiting, NEW k \in 1..Len(refreshes),
           refreshes' = RemoveAt(refreshes, k), height' = height
    PROVE  /\ Waiting'
           /\ Len(refreshes') = Len(refreshes) - 1
           /\ refreshes' # <<>> =>
                refreshes'[Len(refreshes')].age >= refreshes[Len(refreshes)].age
<1> DEFINE n == Len(refreshes)
           old(i) == IF i < k THEN i ELSE i + 1
<1>1. n \in Nat /\ n >= 1 /\ \A i \in 1..n : refreshes[i] \in AwaitedRefresh
  BY ElementOfSeq, LenProperties DEF Waiting
<1>2. /\ refreshes' \in Seq(AwaitedRefresh)
      /\ Len(refreshes') = n - 1
      /\ \A i \in 1..n - 1 : refreshes'[i] = refreshes[old(i)]
  <2>1. refreshes \in Seq(AwaitedRefresh)
    BY DEF Waiting
  <2> QED
    BY <2>1, RemoveAtProperties
<1>3. \A i \in 1..n - 1 : old(i) \in 1..n
  BY <1>1
<1>4. \A i, j \in 1..n - 1 : i < j => old(i) < old(j) /\ j - i <= old(j) - old(i)
  BY <1>1
<1> HIDE DEF n, old
<1>5. EachRefresh'
  <2> SUFFICES ASSUME NEW i \in 1..n - 1
               PROVE  InTime(refreshes'[i]) /\ ReadInOrder(refreshes'[i], height')
    BY <1>2 DEF EachRefresh
  <2> QED
    BY <1>2, <1>3 DEF Waiting, EachRefresh, n
<1>6. ASSUME NEW i \in 1..n, NEW j \in 1..n, i < j
      PROVE  refreshes[i].age - refreshes[j].age >= (j - i) * RefreshInterval
  BY <1>6 DEF Waiting, Spaced, n
<1>7. Spaced'
  <2> SUFFICES ASSUME NEW i \in 1..n - 1, NEW j \in 1..n - 1, i < j
               PROVE  refreshes'[i].age - refreshes'[j].age >= (j - i) * RefreshInterval
    BY <1>2 DEF Spaced
  <2>1. /\ old(i) \in 1..n /\ old(j) \in 1..n /\ old(i) < old(j)
        /\ j - i <= old(j) - old(i)
    BY <1>3, <1>4
  <2>2. /\ refreshes'[i] = refreshes[old(i)] /\ refreshes'[j] = refreshes[old(j)]
        /\ refreshes[old(i)].age \in Nat /\ refreshes[old(j)].age \in Nat
    BY <1>1, <1>2, <2>1, FieldTypes
  <2>3. refreshes[old(i)].age - refreshes[old(j)].age >= (old(j) - old(i)) * RefreshInterval
    BY <1>6, <2>1
  <2>4. /\ j - i \in Int /\ old(j) - old(i) \in Int /\ RefreshInterval \in Nat
        /\ (j - i) * RefreshInterval \in Int /\ (old(j) - old(i)) * RefreshInterval \in Int
    BY <1>1, <2>1, TimeAssumption
  <2>5. (j - i) * RefreshInterval <= (old(j) - old(i)) * RefreshInterval
    BY <2>1, <2>4, ProductMonotone
  <2> DEFINE near == (j - i) * RefreshInterval
             far  == (old(j) - old(i)) * RefreshInterval
  <2>6. near \in Int /\ far \in Int /\ near <= far
    BY <2>4, <2>5
  <2>7. refreshes[old(i)].age - refreshes[old(j)].age >= far
    BY <2>3
  <2> HIDE DEF near, far
  <2>8. refreshes'[i].age - refreshes'[j].age >= near
    BY <2>2, <2>6, <2>7
  <2> QED
    BY <2>8 DEF near
<1>8. refreshes' # <<>> => refreshes'[Len(refreshes')].age >= refreshes[n].age
  <2> SUFFICES ASSUME refreshes' # <<>>
               PROVE  refreshes'[n - 1].age >= refreshes[n].age
    BY <1>2
  <2>1. n - 1 \in 1..n - 1 /\ n \in 1..n
    BY <1>1, <1>2, EmptySeq
  <2>2. refreshes'[n - 1] = refreshes[old(n - 1)] /\ old(n - 1) \in 1..n
    BY <1>2, <1>3, <2>1
  <2>3. refreshes[old(n - 1)].age \in Nat /\ refreshes[n].age \in Nat
    BY <1>1, <2>1, <2>2, FieldTypes
  <2>4. old(n - 1) = n \/ old(n - 1) < n
    BY <1>1, <2>2
  <2>5. CASE old(n - 1) < n
    <3>1. refreshes[old(n - 1)].age - refreshes[n].age >= (n - old(n - 1)) * RefreshInterval
      BY <1>6, <2>1, <2>2, <2>5
    <3>2. n - old(n - 1) \in Nat /\ RefreshInterval \in Nat
      BY <1>1, <2>2, <2>5, TimeAssumption
    <3>3. (n - old(n - 1)) * RefreshInterval \in Nat
      BY <3>2
    <3> QED
      BY <2>2, <2>3, <3>1, <3>3
  <2> QED
    BY <2>2, <2>3, <2>4, <2>5
<1> QED
  BY <1>2, <1>5, <1>7, <1>8 DEF Waiting, n

\* What a refresh knows when its call ended.
LEMMA AnswerKeeps ==
    ASSUME NEW r \in AwaitedRefresh, InTime(r), ReadInOrder(r, height),
           height \in 0..MaxHeight
    PROVE  LET w == WithAnswer(r, r.call) IN
           /\ w \in AwaitedRefresh
           /\ w.call = r.call /\ w.age = r.age /\ w.elapsed = r.elapsed
           /\ InTime(w)
           /\ ReadInOrder(w, height)
           /\ r.call > NRpc => w.module >= w.rpc
           /\ r.call = NCalls => w = r
<1> DEFINE w == WithAnswer(r, r.call)
           c == r.call
<1>1. /\ c \in 1..NCalls /\ r.rpc \in 0..MaxHeight /\ r.module \in 0..MaxHeight
      /\ MaxHeight \in Nat
  BY FieldTypes, EnvironmentAssumption
<1>2. /\ FetchCalls[c] = "status" <=> c = 1
      /\ FetchCalls[c] = "validators" <=> c = NRpc + 1
  BY <1>1, FetchLayout
<1>3. NRpc \in Nat \ {0} /\ NRpc + 2 < NCalls /\ NCalls \in Nat
  BY FetchLayout
<1>4. CASE c = 1
  <2>1. w = [r EXCEPT !.rpc = height]
    BY <1>2, <1>4 DEF WithAnswer
  <2>2. /\ w \in AwaitedRefresh /\ w.call = r.call /\ w.age = r.age /\ w.elapsed = r.elapsed
        /\ w.rpc = height
    BY <2>1, <1>1 DEF AwaitedRefresh
  <2> HIDE DEF w
  <2> QED
    BY <1>1, <1>3, <1>4, <2>2 DEF InTime, ReadInOrder, w
<1>5. CASE c = NRpc + 1
  <2>1. w = [r EXCEPT !.module = height]
    BY <1>2, <1>3, <1>5 DEF WithAnswer
  <2>2. /\ w \in AwaitedRefresh /\ w.call = r.call /\ w.age = r.age /\ w.elapsed = r.elapsed
        /\ w.rpc = r.rpc /\ w.module = height
    BY <2>1, <1>1 DEF AwaitedRefresh
  <2> HIDE DEF w
  <2> QED
    BY <1>1, <1>3, <1>5, <2>2 DEF InTime, ReadInOrder, w
<1>6. CASE c # 1 /\ c # NRpc + 1
  <2>1. w = r
    BY <1>2, <1>6 DEF WithAnswer
  <2> HIDE DEF w
  <2> QED
    BY <1>1, <1>3, <1>6, <2>1 DEF InTime, ReadInOrder, w
<1> QED
  BY <1>4, <1>5, <1>6

LEMMA ProceedKeeps ==
    ASSUME Waiting, NEW k \in 1..Len(refreshes),
           NEW r \in AwaitedRefresh, InTime(r), ReadInOrder(r, height),
           r.age = refreshes[k].age, r.call > NRpc => r.module >= r.rpc,
           NEW next \in Following(r.call), next <= Len(FetchCalls),
           refreshes' = [refreshes EXCEPT ![k] = [r EXCEPT !.call = next, !.elapsed = 0]],
           height' = height, height \in 0..MaxHeight
    PROVE  /\ Waiting'
           /\ Len(refreshes') = Len(refreshes)
           /\ \A i \in 1..Len(refreshes) : refreshes'[i].age = refreshes[i].age
<1> DEFINE n == Len(refreshes)
           w == [r EXCEPT !.call = next, !.elapsed = 0]
<1>1. n \in Nat /\ \A i \in 1..n : refreshes[i] \in AwaitedRefresh
  BY ElementOfSeq, LenProperties DEF Waiting
<1>2. /\ r.call \in 1..NCalls /\ r.age \in Nat /\ r.elapsed \in Nat
      /\ r.rpc \in 0..MaxHeight /\ r.module \in 0..MaxHeight /\ MaxHeight \in Nat
      /\ Spent(r.call) \in Int /\ Limit(r.call) \in Nat
  BY FieldTypes, EnvironmentAssumption
<1>3. next \in 1..NCalls /\ r.call < next /\ (r.call <= NRpc => next <= NRpc + 1)
  BY <1>2, FollowingProperties, FetchLayout, SMTT(30)
<1>4. /\ w \in AwaitedRefresh
      /\ w.call = next /\ w.elapsed = 0 /\ w.age = r.age
      /\ w.rpc = r.rpc /\ w.module = r.module
  BY <1>2, <1>3 DEF AwaitedRefresh
<1> HIDE DEF w
<1>5. InTime(w)
  <2>1. Limit(next) \in Nat /\ Spent(next) \in Int
    BY <1>4, FieldTypes
  <2>2. r.age <= Spent(r.call) + Limit(r.call)
    BY <1>2 DEF InTime
  <2>3. Spent(r.call + 1) = Spent(r.call) + Limit(r.call)
    BY <1>2, SpentProperties
  <2>4. r.call + 1 \in 1..NCalls + 1 /\ next \in 1..NCalls + 1 /\ r.call + 1 <= next
    <3>1. NCalls \in Nat
      BY FetchLayout
    <3>2. r.call \in 1..NCalls /\ next \in 1..NCalls /\ r.call < next
      BY <1>2, <1>3
    <3> QED
      BY <3>1, <3>2
  <2>5. Spent(r.call + 1) <= Spent(next)
    BY <2>4, SpentProperties
  <2>6. r.age \in Nat /\ Spent(r.call) \in Int /\ Limit(r.call) \in Nat
    BY <1>2, Zenon
  <2>7. Spent(r.call + 1) \in Int
    BY <2>3, <2>6
  <2>8. r.age <= Spent(next) + 0 /\ 0 <= r.age /\ 0 <= Limit(next)
    BY <2>1, <2>2, <2>3, <2>5, <2>6, <2>7
  <2> QED
    BY <1>4, <2>8, Zenon DEF InTime
<1>6. ReadInOrder(w, height')
  BY <1>2, <1>3, <1>4, FetchLayout, SMTT(30) DEF ReadInOrder
<1>7. /\ refreshes' \in Seq(AwaitedRefresh)
      /\ Len(refreshes') = n
      /\ \A i \in 1..n : refreshes'[i] = IF i = k THEN w ELSE refreshes[i]
  <2>1. refreshes' = [refreshes EXCEPT ![k] = w] /\ refreshes \in Seq(AwaitedRefresh)
    BY DEF Waiting, w
  <2> QED
    BY <1>4, <2>1, ExceptSeq
<1>8. \A i \in 1..n : refreshes'[i].age = refreshes[i].age
  BY <1>4, <1>7
<1>9. EachRefresh'
  <2> SUFFICES ASSUME NEW i \in 1..n
               PROVE  InTime(refreshes'[i]) /\ ReadInOrder(refreshes'[i], height')
    BY <1>7 DEF EachRefresh
  <2> QED
    BY <1>5, <1>6, <1>7 DEF Waiting, EachRefresh
<1>10. Spaced'
  <2> SUFFICES ASSUME NEW i \in 1..n, NEW j \in 1..n, i < j
               PROVE  refreshes'[i].age - refreshes'[j].age >= (j - i) * RefreshInterval
    BY <1>7 DEF Spaced
  <2>1. refreshes[i].age - refreshes[j].age >= (j - i) * RefreshInterval
    BY DEF Waiting, Spaced
  <2> QED
    BY <1>8, <2>1
<1> QED
  BY <1>7, <1>8, <1>9, <1>10 DEF Waiting

\* Time passes for all of them at once.
LEMMA TickKeeps ==
    ASSUME Waiting,
           \A i \in DOMAIN refreshes : refreshes[i].elapsed < Limit(refreshes[i].call),
           refreshes' = [i \in DOMAIN refreshes |-> Older(refreshes[i])],
           height' = height
    PROVE  /\ Waiting'
           /\ Len(refreshes') = Len(refreshes)
           /\ \A i \in 1..Len(refreshes) : refreshes'[i].age = refreshes[i].age + 1
<1> DEFINE n == Len(refreshes)
<1>1. n \in Nat /\ \A i \in 1..n : refreshes[i] \in AwaitedRefresh
  BY ElementOfSeq, LenProperties DEF Waiting
<1>2. DOMAIN refreshes = 1..n
  BY LenProperties DEF Waiting
<1>3. ASSUME NEW r \in AwaitedRefresh
      PROVE  /\ Older(r) \in AwaitedRefresh
             /\ Older(r).call = r.call /\ Older(r).rpc = r.rpc /\ Older(r).module = r.module
             /\ Older(r).elapsed = r.elapsed + 1 /\ Older(r).age = r.age + 1
  <2>1. /\ r.call \in 1..NCalls /\ r.elapsed \in Nat /\ r.age \in Nat
        /\ r.rpc \in 0..MaxHeight /\ r.module \in 0..MaxHeight
    BY FieldTypes
  <2>2. r.elapsed + 1 \in Nat /\ r.age + 1 \in Nat
    BY <2>1
  <2>3. Older(r) = [r EXCEPT !.elapsed = r.elapsed + 1, !.age = r.age + 1]
    BY DEF Older
  <2>4. Older(r) \in AwaitedRefresh
    BY <2>2, <2>3 DEF AwaitedRefresh
  <2>5. /\ Older(r).call = r.call /\ Older(r).rpc = r.rpc /\ Older(r).module = r.module
        /\ Older(r).elapsed = r.elapsed + 1 /\ Older(r).age = r.age + 1
    BY <2>3 DEF AwaitedRefresh
  <2> QED
    BY <2>4, <2>5
<1>4. /\ refreshes' \in Seq(AwaitedRefresh)
      /\ Len(refreshes') = n
      /\ \A i \in 1..n : refreshes'[i] = Older(refreshes[i])
  <2>1. refreshes' = [i \in 1..n |-> Older(refreshes[i])]
    BY <1>2
  <2>2. \A i \in 1..n : Older(refreshes[i]) \in AwaitedRefresh
    BY <1>1, <1>3
  <2> HIDE DEF n
  <2>3. refreshes' \in [1..n -> AwaitedRefresh]
    BY <2>1, <2>2
  <2>4. n \in Nat
    BY <1>1
  <2>5. refreshes' \in Seq(AwaitedRefresh) /\ Len(refreshes') = n
    BY <2>3, <2>4
  <2> QED
    BY <2>1, <2>5
<1>5. \A i \in 1..n : refreshes'[i].age = refreshes[i].age + 1
  BY <1>1, <1>3, <1>4
<1>6. EachRefresh'
  <2> SUFFICES ASSUME NEW i \in 1..n
               PROVE  InTime(refreshes'[i]) /\ ReadInOrder(refreshes'[i], height')
    BY <1>4 DEF EachRefresh
  <2> DEFINE r == refreshes[i]
             o == refreshes'[i]
  <2>1. /\ o.call = r.call /\ o.rpc = r.rpc /\ o.module = r.module
        /\ o.elapsed = r.elapsed + 1 /\ o.age = r.age + 1
    BY <1>1, <1>3, <1>4
  <2>2. InTime(r) /\ ReadInOrder(r, height) /\ r.elapsed < Limit(r.call)
    BY <1>2 DEF Waiting, EachRefresh
  <2>3. r.elapsed \in Nat /\ r.age \in Nat /\ Limit(r.call) \in Nat /\ Spent(r.call) \in Int
    BY <1>1, FieldTypes
  <2> HIDE DEF r, o
  <2>4. InTime(o) /\ ReadInOrder(o, height')
    BY <2>1, <2>2, <2>3 DEF InTime, ReadInOrder
  <2> QED
    BY <2>4 DEF o
<1>7. Spaced'
  <2> SUFFICES ASSUME NEW i \in 1..n, NEW j \in 1..n, i < j
               PROVE  refreshes'[i].age - refreshes'[j].age >= (j - i) * RefreshInterval
    BY <1>4 DEF Spaced
  <2>1. refreshes[i].age - refreshes[j].age >= (j - i) * RefreshInterval
    BY DEF Waiting, Spaced
  <2>2. refreshes[i].age \in Nat /\ refreshes[j].age \in Nat
    BY <1>1, FieldTypes
  <2>3. refreshes'[i].age - refreshes'[j].age = refreshes[i].age - refreshes[j].age
    <3>1. /\ refreshes'[i].age = refreshes[i].age + 1
          /\ refreshes'[j].age = refreshes[j].age + 1
      BY <1>5
    <3> QED
      BY <2>2, <3>1
  <2> QED
    BY <2>1, <2>3
<1> QED
  BY <1>4, <1>5, <1>6, <1>7 DEF Waiting

-----------------------------------------------------------------------------
(* The invariant is inductive.                                              *)

LEMMA MaxQuietIsNat == MaxQuiet \in Nat /\ RefreshInterval \in Nat /\ RefreshInterval > 0
BY SpentProperties, TimeAssumption DEF MaxQuiet

LEMMA InvImpliesWaiting == IInv => Waiting
BY DEF IInv, Waiting, Types

LEMMA InitInv == Init => IInv
<1> SUFFICES ASSUME Init
             PROVE  IInv
  OBVIOUS
<1>1. refreshes = <<>> /\ refreshes \in Seq(AwaitedRefresh) /\ Len(refreshes) = 0
  BY EmptySeq DEF Init
<1>2. data \in Views
  BY EnvironmentAssumption DEF Init, Views, Connecting
<1>3. Types
  <2>1. /\ started \in BOOLEAN /\ disposed \in BOOLEAN /\ healthy \in BOOLEAN
        /\ status \in {"loading", "success", "error"} /\ activeMenuId \in MenuIds
        /\ timer \in {NoTimer} \cup 0..RefreshInterval
    BY EnvironmentAssumption DEF Init
  <2>2. height \in 0..MaxHeight /\ failures \in 0..2 /\ quiet \in 0..MaxQuiet + 1
    BY EnvironmentAssumption, MaxQuietIsNat DEF Init
  <2> QED
    BY <1>1, <1>2, <2>1, <2>2 DEF Types
<1>4. EachRefresh /\ Spaced
  BY <1>1 DEF EachRefresh, Spaced
<1>5. NotStarted /\ TimerRuns /\ QuietSince
  BY <1>1 DEF Init, NotStarted, TimerRuns, QuietSince
<1>6. ViewKept
  BY DEF Init, ViewKept, Connecting
<1> QED
  BY <1>3, <1>4, <1>5, <1>6 DEF IInv

\* start() and the timer begin a refresh, a period after the last one.
LEMMA RefreshInv ==
    ASSUME IInv, Refresh,
           ~disposed /\ refreshes # <<>> => refreshes[Len(refreshes)].age >= RefreshInterval,
           started' = TRUE, timer' = RefreshInterval,
           ~disposed /\ refreshes = <<>> => quiet <= RefreshInterval,
           UNCHANGED <<disposed, activeMenuId, env, failures, quiet>>
    PROVE  IInv'
<1> USE DEF env
<1>1. Waiting /\ Types /\ ViewKept /\ height \in 0..MaxHeight /\ MaxHeight \in Nat
  BY InvImpliesWaiting, EnvironmentAssumption DEF IInv, Types
<1>2. timer' \in 0..RefreshInterval
  BY MaxQuietIsNat
<1>3. CASE disposed
  <2>1. refreshes' = refreshes /\ status' = status /\ data' = data
    BY <1>3 DEF Refresh, view
  <2>2. Types'
    BY <1>1, <1>2, <2>1 DEF Types
  <2>3. EachRefresh' /\ Spaced'
    BY <2>1 DEF IInv, EachRefresh, Spaced
  <2>4. NotStarted' /\ TimerRuns' /\ QuietSince'
    BY <1>3 DEF NotStarted, TimerRuns, QuietSince
  <2>5. ViewKept'
    BY <1>1, <1>3, <2>1 DEF ViewKept
  <2> QED
    BY <2>2, <2>3, <2>4, <2>5 DEF IInv
<1>4. CASE ~disposed
  <2>1. /\ refreshes' = Append(refreshes, NewRefresh)
        /\ data' = data
        /\ status' = IF status # "success" THEN "loading" ELSE status
    BY <1>4 DEF Refresh, SetState, view
  <2>2. /\ Waiting'
        /\ refreshes' # <<>>
        /\ refreshes'[Len(refreshes')].age = 0
        /\ refreshes # <<>> => refreshes'[1] = refreshes[1]
        /\ Len(refreshes') = Len(refreshes) + 1
    BY <1>1, <1>4, <2>1, BeginKeeps
  <2>3. Types'
    BY <1>1, <1>2, <2>1, <2>2 DEF Types, Waiting
  <2>4. EachRefresh' /\ Spaced'
    BY <2>2 DEF Waiting
  <2>5. NotStarted' /\ TimerRuns'
    BY <1>2, <2>2, MaxQuietIsNat DEF NotStarted, TimerRuns
  <2>6. QuietSince'
    <3>1. CASE refreshes = <<>>
      <4>1. Len(refreshes') = 1
        BY <2>2, <3>1
      <4>2. quiet' <= RefreshInterval
        BY <1>4, <3>1
      <4>3. refreshes'[1].age = 0
        BY <2>2, <4>1
      <4> QED
        BY <2>2, <4>2, <4>3, MaxQuietIsNat DEF QuietSince
    <3>2. CASE refreshes # <<>>
      <4>1. started
        BY <3>2 DEF IInv, NotStarted
      <4>2. quiet <= refreshes[1].age + RefreshInterval
        BY <1>4, <3>2, <4>1 DEF IInv, QuietSince
      <4> QED
        BY <2>2, <3>2, <4>2 DEF QuietSince
    <3> QED
      BY <3>1, <3>2
  <2>7. ViewKept'
    BY <1>1, <1>4, <2>1, <2>2 DEF ViewKept, Types
  <2> QED
    BY <2>3, <2>4, <2>5, <2>6, <2>7 DEF IInv
<1> QED
  BY <1>3, <1>4

\* A refresh goes on to another call.
LEMMA ProceedInv ==
    ASSUME IInv, NEW k \in 1..Len(refreshes),
           NEW r \in AwaitedRefresh, InTime(r), ReadInOrder(r, height),
           r.age = refreshes[k].age, r.call > NRpc => r.module >= r.rpc,
           Proceed(k, r),
           UNCHANGED <<started, disposed, timer, activeMenuId, env>>
    PROVE  IInv'
<1> USE DEF env
<1>1. Waiting /\ Types /\ ViewKept /\ height \in 0..MaxHeight
  BY InvImpliesWaiting DEF IInv, Types
<1>2. PICK next \in Following(r.call) :
        /\ next <= Len(FetchCalls)
        /\ refreshes' = [refreshes EXCEPT ![k] = [r EXCEPT !.call = next, !.elapsed = 0]]
  BY DEF Proceed
<1>3. status' = status /\ data' = data /\ failures' = failures /\ quiet' = quiet
  BY DEF Proceed, view
<1>4. /\ Waiting'
      /\ Len(refreshes') = Len(refreshes)
      /\ \A i \in 1..Len(refreshes) : refreshes'[i].age = refreshes[i].age
  BY <1>1, <1>2, ProceedKeeps
<1>5. Len(refreshes) \in Nat \ {0} /\ refreshes # <<>> /\ refreshes' # <<>>
  BY <1>1, <1>4, EmptySeq, LenProperties DEF Waiting
<1>6. Types'
  BY <1>1, <1>3, <1>4 DEF Types, Waiting
<1>7. EachRefresh' /\ Spaced'
  BY <1>4 DEF Waiting
<1>8. 1 \in 1..Len(refreshes) /\ Len(refreshes) \in 1..Len(refreshes)
  BY <1>5
<1>9. NotStarted' /\ TimerRuns' /\ QuietSince'
  BY <1>3, <1>4, <1>5, <1>8 DEF IInv, NotStarted, TimerRuns, QuietSince
<1>10. ViewKept'
  BY <1>1, <1>3, <1>5 DEF ViewKept
<1> QED
  BY <1>6, <1>7, <1>9, <1>10 DEF IInv

\* A refresh ends, and sets the state of a terminal that is not closed.
LEMMA EndInv ==
    ASSUME IInv, NEW k \in 1..Len(refreshes),
           refreshes' = RemoveAt(refreshes, k), quiet' = 0, failures' \in 0..2,
           data' \in Views, data'.module >= data'.rpc,
           \/ disposed /\ status' = status
           \/ status' = "success"
           \/ status' = "error" /\ failures' >= 1,
           UNCHANGED <<started, disposed, timer, activeMenuId, env>>
    PROVE  IInv'
<1> USE DEF env
<1>1. Waiting /\ Types /\ ViewKept
  BY InvImpliesWaiting DEF IInv
<1>2. /\ Waiting'
      /\ Len(refreshes') = Len(refreshes) - 1
      /\ refreshes' # <<>> =>
           refreshes'[Len(refreshes')].age >= refreshes[Len(refreshes)].age
  BY <1>1, EndKeeps
<1>3. /\ Len(refreshes) \in Nat \ {0} /\ refreshes # <<>>
      /\ refreshes' # <<>> => Len(refreshes') \in Nat \ {0}
  BY <1>1, <1>2, EmptySeq, LenProperties DEF Waiting
<1>4. refreshes[Len(refreshes)].age \in Nat
  BY <1>1, <1>3, ElementOfSeq, FieldTypes DEF Waiting
<1>5. \A i \in 1..Len(refreshes') : refreshes'[i].age \in Nat
  BY <1>2, ElementOfSeq, FieldTypes DEF Waiting
<1>6. Types'
  BY <1>1, <1>2, MaxQuietIsNat DEF Types, Waiting
<1>7. EachRefresh' /\ Spaced'
  BY <1>2 DEF Waiting
<1>8. started
  BY <1>3 DEF IInv, NotStarted
<1>9. NotStarted'
  BY <1>8 DEF NotStarted
<1>10. TimerRuns'
  <2>1. ~disposed => /\ timer \in 0..RefreshInterval
                     /\ refreshes[Len(refreshes)].age >= RefreshInterval - timer
    BY <1>3, <1>8 DEF IInv, TimerRuns
  <2>2. refreshes' # <<>> => refreshes'[Len(refreshes')].age \in Nat
    BY <1>3, <1>5
  <2> QED
    BY <1>2, <1>4, <2>1, <2>2, MaxQuietIsNat DEF TimerRuns
<1>11. QuietSince'
  <2>1. ~disposed => timer \in 0..RefreshInterval
    BY <1>8 DEF IInv, TimerRuns
  <2>2. refreshes' # <<>> => refreshes'[1].age \in Nat
    BY <1>3, <1>5
  <2> QED
    BY <2>1, <2>2, MaxQuietIsNat DEF QuietSince
<1>12. ViewKept'
  BY <1>1 DEF ViewKept
<1> QED
  BY <1>6, <1>7, <1>9, <1>10, <1>11, <1>12 DEF IInv

LEMMA CallAnsweredInv == IInv /\ CallAnswered => IInv'
<1> SUFFICES ASSUME IInv, CallAnswered
             PROVE  IInv'
  OBVIOUS
<1>1. Waiting /\ Types /\ ViewKept /\ height \in 0..MaxHeight
  BY InvImpliesWaiting DEF IInv, Types
<1>2. PICK k \in DOMAIN refreshes :
        \/ Proceed(k, WithAnswer(refreshes[k], refreshes[k].call))
        \/ Succeed(k, WithAnswer(refreshes[k], refreshes[k].call))
  BY DEF CallAnswered
<1>3. UNCHANGED <<started, disposed, timer, activeMenuId, env>>
  BY DEF CallAnswered
<1> DEFINE r == refreshes[k]
           w == WithAnswer(r, r.call)
<1>4. k \in 1..Len(refreshes)
  BY <1>1, LenProperties DEF Waiting
<1>5. r \in AwaitedRefresh /\ InTime(r) /\ ReadInOrder(r, height)
  BY <1>1, <1>4, ElementOfSeq DEF Waiting, EachRefresh
<1> HIDE DEF r
<1>6. /\ w \in AwaitedRefresh
      /\ w.call = r.call /\ w.age = r.age
      /\ InTime(w) /\ ReadInOrder(w, height)
      /\ r.call > NRpc => w.module >= w.rpc
      /\ r.call = NCalls => w = r
  BY <1>1, <1>5, AnswerKeeps
<1>7. CASE Proceed(k, w)
  BY <1>3, <1>4, <1>6, <1>7, ProceedInv DEF r
<1>8. CASE Succeed(k, w)
  <2>1. /\ refreshes' = RemoveAt(refreshes, k)
        /\ failures' = 0 /\ quiet' = 0
        /\ disposed => status' = status /\ data' = data
        /\ ~disposed => status' = "success" /\ data' = FromSnapshot(w)
    BY <1>8 DEF Succeed, SetState, view
  <2>2. w.call = NCalls
    BY <1>5, <1>6, <1>8, FetchLayout, FollowingProperties, FieldTypes DEF Succeed
  <2>3. w.module >= w.rpc /\ w.rpc \in 0..MaxHeight /\ w.module \in 0..MaxHeight
    BY <1>6, <2>2, FetchLayout, FieldTypes
  <2>4. data' \in Views /\ data'.module >= data'.rpc
    BY <1>1, <2>1, <2>3 DEF FromSnapshot, Views, Types, ViewKept
  <2> QED
    BY <1>3, <1>4, <2>1, <2>4, EndInv
<1> QED
  BY <1>2, <1>7, <1>8 DEF r

LEMMA FailureCounts ==
    ASSUME Types, NEW k \in 1..Len(refreshes), Fail(k)
    PROVE  /\ refreshes' = RemoveAt(refreshes, k)
           /\ quiet' = 0
           /\ failures' \in 1..2
           /\ failures >= 1 => failures' = 2
           /\ disposed => status' = status /\ data' = data
           /\ ~disposed => /\ status' = "error"
                           /\ data' = IF status = "success" THEN data ELSE Offline
BY DEF Fail, SetState, Fallback, view, Types

LEMMA CallFailsInv == IInv /\ CallFails => IInv'
<1> SUFFICES ASSUME IInv, CallFails
             PROVE  IInv'
  OBVIOUS
<1>1. Waiting /\ Types /\ ViewKept /\ height \in 0..MaxHeight /\ MaxHeight \in Nat
  BY InvImpliesWaiting, EnvironmentAssumption DEF IInv, Types
<1>2. PICK k \in DOMAIN refreshes :
        IF FetchCalls[refreshes[k].call] = "tryGet" THEN Proceed(k, refreshes[k]) ELSE Fail(k)
  BY DEF CallFails
<1>3. UNCHANGED <<started, disposed, timer, activeMenuId, env>>
  BY DEF CallFails
<1> DEFINE r == refreshes[k]
<1>4. k \in 1..Len(refreshes)
  BY <1>1, LenProperties DEF Waiting
<1>5. r \in AwaitedRefresh /\ InTime(r) /\ ReadInOrder(r, height)
  BY <1>1, <1>4, ElementOfSeq DEF Waiting, EachRefresh
<1>6. CASE FetchCalls[r.call] = "tryGet"
  <2>1. ~(r.call > NRpc)
    BY <1>5, <1>6, FetchLayout, FieldTypes
  <2> QED
    BY <1>2, <1>3, <1>4, <1>5, <1>6, <2>1, ProceedInv
<1>7. CASE FetchCalls[r.call] # "tryGet"
  <2>1. Fail(k)
    BY <1>2, <1>7
  <2>2. /\ refreshes' = RemoveAt(refreshes, k)
        /\ quiet' = 0
        /\ failures' \in 1..2
        /\ disposed => status' = status /\ data' = data
        /\ ~disposed => /\ status' = "error"
                        /\ data' = IF status = "success" THEN data ELSE Offline
    BY <1>1, <1>4, <2>1, FailureCounts
  <2>3. Offline \in Views /\ Offline.module >= Offline.rpc
    BY <1>1 DEF Offline, Views
  <2>4. data' \in Views /\ data'.module >= data'.rpc
    BY <1>1, <2>2, <2>3 DEF Types, ViewKept
  <2> QED
    BY <1>3, <1>4, <2>2, <2>4, EndInv
<1> QED
  BY <1>6, <1>7

LEMMA TickInv == IInv /\ Tick => IInv'
<1> SUFFICES ASSUME IInv, Tick
             PROVE  IInv'
  OBVIOUS
<1> USE DEF env, view
<1>1. Waiting /\ Types /\ ViewKept
  BY InvImpliesWaiting DEF IInv
<1>2. /\ started /\ timer # 0
      /\ timer' = IF timer = NoTimer THEN NoTimer ELSE timer - 1
      /\ quiet' = IF disposed \/ quiet > MaxQuiet THEN quiet ELSE quiet + 1
      /\ UNCHANGED <<started, disposed, status, data, activeMenuId, height, healthy, failures>>
  BY DEF Tick
<1>3. /\ Waiting'
      /\ Len(refreshes') = Len(refreshes)
      /\ \A i \in 1..Len(refreshes) : refreshes'[i].age = refreshes[i].age + 1
  BY <1>1, TickKeeps DEF Tick
<1>4. /\ Len(refreshes) \in Nat
      /\ refreshes = <<>> <=> Len(refreshes) = 0
      /\ refreshes' = <<>> <=> Len(refreshes) = 0
  BY <1>1, <1>3, EmptySeq, LenProperties DEF Waiting
<1>5. \A i \in 1..Len(refreshes) : refreshes[i].age \in Nat
  BY <1>1, ElementOfSeq, FieldTypes DEF Waiting
<1>6. Types'
  <2>1. timer' \in {NoTimer} \cup 0..RefreshInterval
    BY <1>1, <1>2, MaxQuietIsNat DEF Types, NoTimer
  <2>2. quiet' \in 0..MaxQuiet + 1
    BY <1>1, <1>2, MaxQuietIsNat DEF Types
  <2> QED
    BY <1>1, <1>2, <1>3, <2>1, <2>2 DEF Types, Waiting
<1>7. EachRefresh' /\ Spaced'
  BY <1>3 DEF Waiting
<1>8. NotStarted'
  BY <1>2 DEF NotStarted
<1>9. ~disposed => timer \in 1..RefreshInterval /\ timer' = timer - 1
  BY <1>2, MaxQuietIsNat DEF IInv, TimerRuns, NoTimer
<1>10. TimerRuns'
  <2>1. refreshes # <<>> => Len(refreshes) \in 1..Len(refreshes)
    BY <1>4
  <2>2. refreshes # <<>> =>
          refreshes'[Len(refreshes')].age = refreshes[Len(refreshes)].age + 1
    BY <1>3, <2>1
  <2>3. ~disposed /\ refreshes # <<>> =>
          refreshes[Len(refreshes)].age >= RefreshInterval - timer
    BY DEF IInv, TimerRuns
  <2>4. refreshes # <<>> => refreshes[Len(refreshes)].age \in Nat
    BY <1>5, <2>1
  <2> QED
    BY <1>2, <1>4, <1>9, <2>2, <2>3, <2>4, MaxQuietIsNat DEF TimerRuns
<1>11. QuietSince'
  <2> SUFFICES ASSUME ~disposed
               PROVE  quiet' <= IF refreshes' = <<>> THEN RefreshInterval - timer'
                                ELSE refreshes'[1].age + RefreshInterval
    BY <1>2 DEF QuietSince
  <2>1. quiet <= IF refreshes = <<>> THEN RefreshInterval - timer
                 ELSE refreshes[1].age + RefreshInterval
    BY <1>2 DEF IInv, QuietSince
  <2>2. quiet' <= quiet + 1 /\ quiet \in Nat /\ quiet' \in Nat
    BY <1>1, <1>2, MaxQuietIsNat DEF Types
  <2>3. refreshes # <<>> => refreshes'[1].age = refreshes[1].age + 1 /\ refreshes[1].age \in Nat
    BY <1>3, <1>4, <1>5
  <2> QED
    BY <1>4, <1>9, <2>1, <2>2, <2>3, MaxQuietIsNat
<1>12. ViewKept'
  BY <1>1, <1>2, <1>4 DEF ViewKept
<1> QED
  BY <1>6, <1>7, <1>8, <1>10, <1>11, <1>12 DEF IInv

\* What leaves the refreshes and the view alone.
LEMMA OthersInv ==
    ASSUME IInv,
           started' = started, refreshes' = refreshes, status' = status, data' = data,
           failures' = failures, quiet' = quiet,
           timer' = timer \/ (timer' = NoTimer /\ disposed'),
           disposed' = disposed \/ disposed' = TRUE,
           activeMenuId' = activeMenuId \/ activeMenuId' \in MenuIds,
           height' = height \/ (height' = height + 1 /\ height < MaxHeight),
           healthy' = healthy \/ healthy' = ~healthy
    PROVE  IInv'
<1> USE DEF view
<1>1. Waiting /\ Types /\ ViewKept
  BY InvImpliesWaiting DEF IInv
<1>2. Types'
  <2>1. height' \in 0..MaxHeight
    BY <1>1, EnvironmentAssumption DEF Types
  <2> QED
    BY <1>1, <2>1 DEF Types
<1>3. EachRefresh'
  <2> SUFFICES ASSUME NEW i \in 1..Len(refreshes)
               PROVE  InTime(refreshes'[i]) /\ ReadInOrder(refreshes'[i], height')
    BY DEF EachRefresh
  <2>1. refreshes[i] \in AwaitedRefresh /\ InTime(refreshes[i]) /\ ReadInOrder(refreshes[i], height)
    BY <1>1, ElementOfSeq DEF Waiting, EachRefresh
  <2>2. refreshes[i].rpc \in Nat /\ height \in Nat /\ height' \in Nat
    BY <1>1, <2>1, FieldTypes, EnvironmentAssumption DEF Types
  <2> QED
    BY <2>1, <2>2 DEF ReadInOrder
<1>4. Spaced'
  BY <1>1 DEF Waiting, Spaced
<1>5. NotStarted' /\ TimerRuns' /\ QuietSince' /\ ViewKept'
  BY DEF IInv, NotStarted, TimerRuns, QuietSince, ViewKept
<1> QED
  BY <1>2, <1>3, <1>4, <1>5 DEF IInv

LEMMA NextInv == IInv /\ [Next]_vars => IInv'
<1> SUFFICES ASSUME IInv, [Next]_vars
             PROVE  IInv'
  OBVIOUS
<1>1. Types /\ height \in Nat /\ MaxHeight \in Nat
  BY EnvironmentAssumption DEF IInv, Types
<1>2. CASE Start
  <2>1. refreshes = <<>> /\ quiet = 0
    BY <1>2 DEF Start, IInv, NotStarted
  <2>2. /\ Refresh /\ started' = TRUE /\ timer' = RefreshInterval
        /\ UNCHANGED <<disposed, activeMenuId, env, failures, quiet>>
    BY <1>2 DEF Start
  <2>3. quiet <= RefreshInterval
    BY <2>1, MaxQuietIsNat
  <2> QED
    BY <2>1, <2>2, <2>3, RefreshInv
<1>3. CASE TimerFires
  <2>1. started
    BY <1>3 DEF TimerFires, IInv, NotStarted, NoTimer
  <2>2. started' = TRUE
    BY <1>1, <1>3, <2>1 DEF TimerFires, Types
  <2>3. timer = 0 /\ RefreshInterval - timer = RefreshInterval
    BY <1>3, MaxQuietIsNat DEF TimerFires
  <2>4. ~disposed /\ refreshes # <<>> => refreshes[Len(refreshes)].age >= RefreshInterval
    BY <2>3 DEF IInv, TimerRuns
  <2>5. ~disposed /\ refreshes = <<>> => quiet <= RefreshInterval
    BY <2>1, <2>3 DEF IInv, QuietSince
  <2>6. /\ Refresh /\ timer' = RefreshInterval
        /\ UNCHANGED <<disposed, activeMenuId, env, failures, quiet>>
    BY <1>3 DEF TimerFires
  <2> QED
    BY <2>2, <2>4, <2>5, <2>6, RefreshInv
<1>4. CASE CallAnswered
  BY <1>4, CallAnsweredInv
<1>5. CASE CallFails
  BY <1>5, CallFailsInv
<1>6. CASE SelectMenu
  BY <1>6, OthersInv DEF SelectMenu, env, view
<1>7. CASE Dispose
  BY <1>7, OthersInv DEF Dispose, env, view
<1>8. CASE Tick
  BY <1>8, TickInv
<1>9. CASE NewBlock
  BY <1>9, OthersInv DEF NewBlock, view
<1>10. CASE ChangeHealth
  BY <1>10, OthersInv DEF ChangeHealth, view
<1>11. CASE UNCHANGED vars
  BY <1>11, OthersInv DEF vars, view
<1> QED
  BY <1>2, <1>3, <1>4, <1>5, <1>6, <1>7, <1>8, <1>9, <1>10, <1>11 DEF Next

\* In every reachable state the waiting refreshes are within their limits and a
\* period apart, and the timer and the view account for them.
THEOREM Invariance == Spec => []IInv
BY InitInv, NextInv, PTL DEF Spec

-----------------------------------------------------------------------------
(* What follows for the terminal.                                           *)

LEMMA OldestInTime ==
    ASSUME IInv, NEW k \in 1..Len(refreshes)
    PROVE  refreshes[k].age \in Nat /\ refreshes[k].age <= MaxFetch
<1>1. Waiting
  BY InvImpliesWaiting
<1>2. refreshes[k] \in AwaitedRefresh /\ InTime(refreshes[k])
  BY <1>1, ElementOfSeq DEF Waiting, EachRefresh
<1> QED
  BY <1>2, FieldTypes, AgeBound

\* No awaited call outlives its time limit and no refresh outlives the limits
\* of a whole fetch, for any number of calls and any limits.
THEOREM TypeCorrect == Spec => []TypeOK
<1>1. IInv => TypeOK
  <2> SUFFICES ASSUME IInv
               PROVE  TypeOK
    OBVIOUS
  <2>1. Types /\ Waiting
    BY InvImpliesWaiting DEF IInv
  <2>2. DOMAIN refreshes = 1..Len(refreshes)
    BY <2>1, LenProperties DEF Waiting
  <2>3. ASSUME NEW i \in 1..Len(refreshes)
        PROVE  /\ refreshes[i].call \in DOMAIN FetchCalls
               /\ refreshes[i].elapsed \in 0..Limit(refreshes[i].call)
               /\ refreshes[i].age \in refreshes[i].elapsed..MaxFetch
               /\ refreshes[i].rpc \in 0..MaxHeight
               /\ refreshes[i].module \in 0..MaxHeight
    <3>1. refreshes[i] \in AwaitedRefresh /\ InTime(refreshes[i])
      BY <2>1, ElementOfSeq DEF Waiting, EachRefresh
    <3>2. /\ refreshes[i].call \in 1..NCalls /\ refreshes[i].elapsed \in Nat
          /\ refreshes[i].age \in Nat /\ Limit(refreshes[i].call) \in Nat
          /\ refreshes[i].rpc \in 0..MaxHeight /\ refreshes[i].module \in 0..MaxHeight
      BY <3>1, FieldTypes
    <3>3. refreshes[i].age <= MaxFetch /\ MaxFetch \in Nat
      BY <3>1, AgeBound, SpentProperties
    <3>4. DOMAIN FetchCalls = 1..NCalls
      BY FetchLayout
    <3>5. /\ refreshes[i].elapsed <= Limit(refreshes[i].call)
          /\ refreshes[i].elapsed <= refreshes[i].age
      BY <3>1 DEF InTime
    <3> QED
      BY <3>2, <3>3, <3>4, <3>5
  <2> QED
    BY <2>1, <2>2, <2>3 DEF TypeOK, Types
<1> QED
  BY <1>1, Invariance, PTL

\* Refreshes begin a period apart and none outlives a fetch, so only so many
\* wait at once: the timer that never looks at them cannot pile them up.  (The
\* bpsd processes they gave up are another matter, see OverlapBounded.)
THEOREM BoundedOverlap == Spec => []OverlapBounded
<1>1. IInv => OverlapBounded
  <2> SUFFICES ASSUME IInv
               PROVE  Len(refreshes) <= MaxFetch \div RefreshInterval + 1
    BY DEF OverlapBounded
  <2> DEFINE n == Len(refreshes)
             q == MaxFetch \div RefreshInterval
  <2>1. n \in Nat
    BY InvImpliesWaiting, LenProperties DEF Waiting
  <2>2. /\ RefreshInterval \in Nat \ {0} /\ MaxFetch \in Nat
        /\ q \in Nat /\ MaxFetch < (q + 1) * RefreshInterval
    <3>1. RefreshInterval \in Nat \ {0} /\ MaxFetch \in Nat
      BY TimeAssumption, SpentProperties
    <3> QED
      BY <3>1
  <2> HIDE DEF q
  <2> SUFFICES ASSUME n > q + 1
               PROVE  FALSE
    BY <2>1, <2>2 DEF q
  <2>3. 1 \in 1..n /\ n \in 1..n /\ 1 < n
    BY <2>1, <2>2
  <2>4. refreshes[1].age - refreshes[n].age >= (n - 1) * RefreshInterval
    BY <2>3 DEF IInv, Spaced
  <2>5. refreshes[1].age \in Nat /\ refreshes[n].age \in Nat /\ refreshes[1].age <= MaxFetch
    BY <2>3, OldestInTime
  <2> HIDE DEF n
  <2>6. (q + 1) * RefreshInterval <= (n - 1) * RefreshInterval
    <3>1. q + 1 \in Int /\ n - 1 \in Int /\ q + 1 <= n - 1
      BY <2>1, <2>2
    <3> QED
      BY <2>2, <3>1, ProductMonotone
  <2>7. (q + 1) * RefreshInterval \in Int /\ (n - 1) * RefreshInterval \in Int
    BY <2>1, <2>2
  <2> QED
    BY <2>2, <2>4, <2>5, <2>6, <2>7
<1> QED
  BY <1>1, Invariance, PTL

\* A started terminal that is not closed is never quiet for longer than a
\* period and a whole fetch, whatever node and bpsd do.
THEOREM Speaks == Spec => []NeverSilent
<1>1. IInv => NeverSilent
  <2> SUFFICES ASSUME IInv, started, ~disposed
               PROVE  quiet <= MaxQuiet
    BY DEF NeverSilent
  <2>1. /\ quiet \in Nat
        /\ quiet <= IF refreshes = <<>> THEN RefreshInterval - timer
                    ELSE refreshes[1].age + RefreshInterval
    BY MaxQuietIsNat DEF IInv, Types, QuietSince
  <2>2. timer \in 0..RefreshInterval
    BY DEF IInv, TimerRuns
  <2>3. MaxQuiet = RefreshInterval + MaxFetch /\ RefreshInterval \in Nat /\ MaxFetch \in Nat
    BY MaxQuietIsNat, SpentProperties DEF MaxQuiet
  <2>4. CASE refreshes = <<>>
    BY <2>1, <2>2, <2>3, <2>4
  <2>5. CASE refreshes # <<>>
    <3>1. 1 \in 1..Len(refreshes)
      BY <2>5, InvImpliesWaiting, EmptySeq DEF Waiting
    <3>2. refreshes[1].age \in Nat /\ refreshes[1].age <= MaxFetch
      BY <3>1, OldestInTime
    <3> QED
      BY <2>1, <2>3, <2>5, <3>2
  <2> QED
    BY <2>4, <2>5
<1> QED
  BY <1>1, Invariance, PTL

\* The loading state always has a refresh under way that will end it.
THEOREM LoadingEnds == Spec => []LoadingMeansFetching
<1>1. IInv => LoadingMeansFetching
  BY DEF IInv, ViewKept, LoadingMeansFetching
<1> QED
  BY <1>1, Invariance, PTL

\* The modules a view shows are never older than the status line beside them.
THEOREM ModulesUpToDate == Spec => []ModulesNotBehindStatus
<1>1. IInv => ModulesNotBehindStatus
  BY DEF IInv, ViewKept, ModulesNotBehindStatus
<1> QED
  BY <1>1, Invariance, PTL

-----------------------------------------------------------------------------
(* Steps.                                                                   *)

\* What a step does to the view and to the number of refreshes.
LEMMA ViewSteps ==
    ASSUME IInv, [Next]_vars
    PROVE  /\ data'.kind = "offline" => \/ data' = data
                                        \/ ~disposed /\ status # "success"
                                             /\ (failures >= 1 => failures' = 2)
           /\ disposed => /\ UNCHANGED <<view, activeMenuId>>
                          /\ Len(refreshes') <= Len(refreshes)
<1> USE DEF view
<1>1. Waiting /\ Types /\ Len(refreshes) \in Nat
  BY InvImpliesWaiting, LenProperties DEF IInv, Waiting
<1>2. CASE Start \/ TimerFires
  <2>1. Refresh /\ activeMenuId' = activeMenuId
    BY <1>2 DEF Start, TimerFires
  <2>2. data' = data
    BY <2>1 DEF Refresh, SetState
  <2>3. disposed => refreshes' = refreshes /\ status' = status
    BY <2>1 DEF Refresh
  <2> QED
    BY <1>1, <2>1, <2>2, <2>3
<1>3. CASE CallAnswered
  <2>1. PICK k \in DOMAIN refreshes :
          \/ Proceed(k, WithAnswer(refreshes[k], refreshes[k].call))
          \/ Succeed(k, WithAnswer(refreshes[k], refreshes[k].call))
    BY <1>3 DEF CallAnswered
  <2>2. activeMenuId' = activeMenuId
    BY <1>3 DEF CallAnswered
  <2>3. k \in 1..Len(refreshes)
    BY <1>1, LenProperties DEF Waiting
  <2>4. CASE Proceed(k, WithAnswer(refreshes[k], refreshes[k].call))
    <3>1. DOMAIN refreshes' = DOMAIN refreshes /\ UNCHANGED view
      BY <2>4 DEF Proceed
    <3>2. PICK e : refreshes' = [refreshes EXCEPT ![k] = e]
      BY <2>4 DEF Proceed
    <3>3. Len(refreshes') = Len(refreshes)
      BY <3>2, <1>1 DEF Waiting
    <3> QED
      BY <1>1, <2>2, <3>1, <3>3
  <2>5. CASE Succeed(k, WithAnswer(refreshes[k], refreshes[k].call))
    <3>1. Len(refreshes') = Len(refreshes) - 1
      BY <1>1, <2>3, <2>5, RemoveAtProperties DEF Succeed, Waiting
    <3>2. IF disposed THEN UNCHANGED view ELSE data'.kind = "live"
      BY <2>5 DEF Succeed, SetState, FromSnapshot
    <3> QED
      BY <1>1, <2>2, <3>1, <3>2
  <2> QED
    BY <2>1, <2>4, <2>5
<1>4. CASE CallFails
  <2>1. PICK k \in DOMAIN refreshes : Proceed(k, refreshes[k]) \/ Fail(k)
    BY <1>4 DEF CallFails
  <2>2. activeMenuId' = activeMenuId
    BY <1>4 DEF CallFails
  <2>3. k \in 1..Len(refreshes)
    BY <1>1, LenProperties DEF Waiting
  <2>4. CASE Proceed(k, refreshes[k])
    <3>1. UNCHANGED view
      BY <2>4 DEF Proceed
    <3>2. PICK e : refreshes' = [refreshes EXCEPT ![k] = e]
      BY <2>4 DEF Proceed
    <3>3. Len(refreshes') = Len(refreshes)
      BY <3>2, <1>1 DEF Waiting
    <3> QED
      BY <1>1, <2>2, <3>1, <3>3
  <2>5. CASE Fail(k)
    <3>1. Len(refreshes') = Len(refreshes) - 1
      BY <1>1, <2>3, <2>5, RemoveAtProperties DEF Fail, Waiting
    <3>2. /\ failures >= 1 => failures' = 2
          /\ disposed => status' = status /\ data' = data
          /\ ~disposed => data' = IF status = "success" THEN data ELSE Offline
      BY <1>1, <2>3, <2>5, FailureCounts
    <3> QED
      BY <1>1, <2>2, <3>1, <3>2
  <2> QED
    BY <2>1, <2>4, <2>5
<1>5. CASE Tick
  <2>1. UNCHANGED view /\ activeMenuId' = activeMenuId
    BY <1>5 DEF Tick
  <2>2. Len(refreshes') = Len(refreshes)
    BY <1>1, <1>5, TickKeeps DEF Tick, env
  <2> QED
    BY <1>1, <2>1, <2>2
<1>6. CASE SelectMenu \/ Dispose \/ NewBlock \/ ChangeHealth \/ UNCHANGED vars
  <2>1. refreshes' = refreshes /\ UNCHANGED view /\ (disposed => activeMenuId' = activeMenuId)
    BY <1>6 DEF SelectMenu, Dispose, NewBlock, ChangeHealth, vars
  <2> QED
    BY <1>1, <2>1
<1> QED
  BY <1>2, <1>3, <1>4, <1>5, <1>6 DEF Next

\* One failed refresh never takes fetched data off the screen: the first one
\* after a success keeps it, so a view that goes offline has failed twice.
THEOREM OneFailureKeepsView == Spec => OfflineAfterTwoFailures
<1>1. IInv /\ [Next]_vars =>
        [data.kind = "live" /\ data'.kind = "offline" => failures' = 2]_vars
  <2> SUFFICES ASSUME IInv, [Next]_vars, data.kind = "live", data'.kind = "offline"
               PROVE  failures' = 2
    OBVIOUS
  <2>1. /\ ~disposed /\ status # "success"
        /\ failures >= 1 => failures' = 2
    BY ViewSteps
  <2> QED
    BY <2>1 DEF IInv, ViewKept
<1> QED
  BY <1>1, Invariance, PTL DEF Spec, OfflineAfterTwoFailures

\* A closed terminal is never written to, and begins no request.
THEOREM ClosedIsFinal == Spec => NothingAfterDispose
<1>1. IInv /\ [Next]_vars =>
        [disposed => /\ UNCHANGED <<view, activeMenuId>>
                     /\ Len(refreshes') <= Len(refreshes)]_vars
  BY ViewSteps
<1> QED
  BY <1>1, Invariance, PTL DEF Spec, NothingAfterDispose
=============================================================================
