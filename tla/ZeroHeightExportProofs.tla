----------------------- MODULE ZeroHeightExportProofs -----------------------
(***************************************************************************)
(* Proofs about a zero-height export, for every set of validators and of   *)
(* delegations, every committed reward and every allow list.  The first    *)
(* part is about sums over a finite set: the operator the model adds the   *)
(* outstanding rewards with is a recursive function that chooses the next  *)
(* element, so that what it computes is proved here by induction.          *)
(***************************************************************************)
EXTENDS ZeroHeightExport, FiniteSetTheorems, WellFoundedInduction, TLAPS

-----------------------------------------------------------------------------
(* Induction, and recursion over the finite subsets of a set.               *)

Less == {p \in Nat \X Nat : p[1] < p[2]}

\* A set of numbers that has 0 and every successor has all: the least number
\* outside it would be the successor of one inside.
LEMMA NatSetInduction ==
  ASSUME NEW P, 0 \in P, \A n \in Nat : n \in P => n + 1 \in P
  PROVE  Nat \subseteq P
<1> DEFINE T == Nat \ P
<1> SUFFICES ASSUME T # {}
             PROVE  FALSE
  OBVIOUS
<1>1. IsWellFoundedOn(Less, Nat)
  BY NatLessThanWellFounded, Zenon DEF OpToRel, Less
<1>2. PICK x \in T : \A y \in T : ~(<<y, x>> \in Less)
  <2> HIDE DEF T
  <2>1. T \subseteq Nat
    BY DEF T
  <2> QED
    BY <1>1, <2>1, WFMin, Zenon
<1>3. x \in Nat /\ x # 0 /\ x - 1 \in T
  OBVIOUS
<1>4. <<x - 1, x>> \in Less
  BY <1>3 DEF Less
<1> QED
  BY <1>2, <1>3, <1>4

Total(g, S) == MapThenSumSet(LAMBDA v : g[v], S)

OneOf(s) == CHOOSE x \in s : TRUE

SumOf(g, s, f) == IF s = {} THEN 0 ELSE g[OneOf(s)] + f[s \ {OneOf(s)}]

\* f is the sum on every set of B.
IsSum(g, B, f) == f = [s \in B |-> SumOf(g, s, f)]

\* The recursive function that MapThenSumSet chooses.
LEMMA TotalIsChosen ==
  ASSUME NEW g, NEW S
  PROVE  Total(g, S) = (CHOOSE f : IsSum(g, SUBSET S, f))[S]
<1>1. Total(g, S) =
        (CHOOSE f : f = [s \in SUBSET S |->
            IF s = {} THEN 0
            ELSE g[CHOOSE x \in s : TRUE] + f[s \ {CHOOSE x \in s : TRUE}]])[S]
  BY Zenon DEF Total, MapThenSumSet, MapThenFoldSet
<1> QED
  BY <1>1, Zenon DEF SumOf, OneOf, IsSum

Small(S, n) == {s \in SUBSET S : IsFiniteSet(s) /\ Cardinality(s) <= n}

LEMMA OneOfIsIn ==
  ASSUME NEW s, s # {}
  PROVE  OneOf(s) \in s
BY DEF OneOf

LEMMA SmallerBy ==
  ASSUME NEW S, NEW n \in Nat, NEW s \in Small(S, n + 1), NEW x \in s
  PROVE  s \ {x} \in Small(S, n)
<1>1. IsFiniteSet(s) /\ Cardinality(s) <= n + 1 /\ Cardinality(s) \in Nat
  BY FS_CardinalityType DEF Small
<1>2. IsFiniteSet(s \ {x}) /\ Cardinality(s \ {x}) = Cardinality(s) - 1
  BY <1>1, FS_RemoveElement
<1> QED
  BY <1>1, <1>2 DEF Small

LEMMA NextSize ==
  ASSUME NEW S, IsFiniteSet(S), NEW n \in Nat, Cardinality(S) = n + 1
  PROVE  S # {} /\ \A x \in S : Cardinality(S \ {x}) = n
<1>1. S # {}
  BY FS_EmptySet
<1>2. ASSUME NEW x \in S
      PROVE  Cardinality(S \ {x}) = n
  <2>1. Cardinality(S \ {x}) = Cardinality(S) - 1
    BY FS_RemoveElement
  <2> QED
    BY <2>1
<1> QED
  BY <1>1, <1>2

LEMMA SumExists ==
  ASSUME NEW g, NEW S, NEW n \in Nat
  PROVE  \E f : IsSum(g, Small(S, n), f)
<1> DEFINE P == {k \in Nat : \E f : IsSum(g, Small(S, k), f)}
<1>1. 0 \in P
  <2> DEFINE f == [s \in Small(S, 0) |-> 0]
  <2>1. \A s \in Small(S, 0) : s = {}
    BY FS_EmptySet, FS_CardinalityType DEF Small
  <2>2. f = [s \in Small(S, 0) |-> SumOf(g, s, f)]
    BY <2>1 DEF SumOf
  <2> QED
    BY <2>2 DEF IsSum
<1>2. ASSUME NEW k \in Nat, k \in P
      PROVE  k + 1 \in P
  <2>1. PICK f : IsSum(g, Small(S, k), f)
    BY <1>2
  <2> DEFINE h == [s \in Small(S, k + 1) |-> SumOf(g, s, f)]
  <2>2. ASSUME NEW s \in Small(S, k)
        PROVE  s \in Small(S, k + 1) /\ h[s] = f[s]
    <3>1. s \in Small(S, k + 1)
      BY FS_CardinalityType DEF Small
    <3>2. f[s] = SumOf(g, s, f)
      BY <2>1 DEF IsSum
    <3> QED
      BY <3>1, <3>2
  <2>3. ASSUME NEW s \in Small(S, k + 1)
        PROVE  SumOf(g, s, f) = SumOf(g, s, h)
    <3>1. CASE s = {}
      BY <3>1 DEF SumOf
    <3>2. CASE s # {}
      <4>1. s \ {OneOf(s)} \in Small(S, k)
        BY <3>2, OneOfIsIn, SmallerBy
      <4>2. h[s \ {OneOf(s)}] = f[s \ {OneOf(s)}]
        BY <2>2, <4>1
      <4> HIDE DEF h
      <4> QED
        BY <3>2, <4>2 DEF SumOf
    <3> QED
      BY <3>1, <3>2
  <2>4. h = [s \in Small(S, k + 1) |-> SumOf(g, s, h)]
    <3> DEFINE hh == [s \in Small(S, k + 1) |-> SumOf(g, s, h)]
    <3>1. \A s \in Small(S, k + 1) : h[s] = SumOf(g, s, f) /\ hh[s] = SumOf(g, s, h)
      OBVIOUS
    <3>2. \A s \in Small(S, k + 1) : h[s] = hh[s]
      BY <2>3, <3>1
    <3>3. h = [s \in Small(S, k + 1) |-> h[s]]
      OBVIOUS
    <3>4. hh = [s \in Small(S, k + 1) |-> hh[s]]
      OBVIOUS
    <3> HIDE DEF h, hh
    <3>5. h = hh
      BY <3>2, <3>3, <3>4
    <3> QED
      BY <3>5 DEF hh
  <2>5. IsSum(g, Small(S, k + 1), h)
    BY <2>4, Zenon DEF IsSum
  <2> HIDE DEF h
  <2> QED
    BY <2>5
<1> HIDE DEF P
<1>3. Nat \subseteq P
  BY <1>1, <1>2, NatSetInduction
<1> QED
  BY <1>3 DEF P

\* Two sums agree on every finite set they both are defined on.
LEMMA SumUnique ==
  ASSUME NEW g, NEW S, NEW B, NEW C, NEW e, NEW f, IsSum(g, B, e), IsSum(g, C, f),
         SUBSET S \subseteq B, SUBSET S \subseteq C, IsFiniteSet(S)
  PROVE  e[S] = f[S]
<1> DEFINE P == {n \in Nat : \A s \in SUBSET S : Cardinality(s) = n => e[s] = f[s]}
<1>1. ASSUME NEW s \in SUBSET S
      PROVE  /\ IsFiniteSet(s) /\ Cardinality(s) \in Nat
             /\ e[s] = SumOf(g, s, e) /\ f[s] = SumOf(g, s, f)
  BY FS_Subset, FS_CardinalityType DEF IsSum
<1>2. 0 \in P
  <2> SUFFICES ASSUME NEW s \in SUBSET S, Cardinality(s) = 0
               PROVE  e[s] = f[s]
    OBVIOUS
  <2>1. s = {}
    BY <1>1, FS_EmptySet
  <2> QED
    BY <1>1, <2>1 DEF SumOf
<1>3. ASSUME NEW n \in Nat, n \in P
      PROVE  n + 1 \in P
  <2> SUFFICES ASSUME NEW s \in SUBSET S, Cardinality(s) = n + 1
               PROVE  e[s] = f[s]
    OBVIOUS
  <2>1. s # {}
    BY <1>1, NextSize
  <2>2. OneOf(s) \in s
    BY <2>1, OneOfIsIn
  <2>3. Cardinality(s \ {OneOf(s)}) = n
    BY <1>1, <2>2, NextSize
  <2>4. e[s \ {OneOf(s)}] = f[s \ {OneOf(s)}]
    BY <1>3, <2>3
  <2> QED
    BY <1>1, <2>1, <2>4 DEF SumOf
<1> HIDE DEF P
<1>4. Nat \subseteq P
  BY <1>2, <1>3, NatSetInduction
<1>5. Cardinality(S) \in P
  BY <1>1, <1>4
<1> QED
  BY <1>5 DEF P

\* The sum over a finite set is what it is said to be.
LEMMA TotalUnfolds ==
  ASSUME NEW g, NEW S, IsFiniteSet(S)
  PROVE  Total(g, S) = IF S = {} THEN 0 ELSE g[OneOf(S)] + Total(g, S \ {OneOf(S)})
<1>1. ASSUME NEW T, IsFiniteSet(T)
      PROVE  \E f : IsSum(g, SUBSET T, f) /\ Total(g, T) = f[T]
  <2>1. Cardinality(T) \in Nat
    BY <1>1, FS_CardinalityType
  <2>2. SUBSET T = Small(T, Cardinality(T))
    BY <1>1, FS_Subset DEF Small
  <2>3. \E f : IsSum(g, Small(T, Cardinality(T)), f)
    BY <2>1, SumExists
  <2>4. IsSum(g, SUBSET T, CHOOSE f : IsSum(g, SUBSET T, f))
    BY <2>2, <2>3
  <2> QED
    BY <2>4, TotalIsChosen
<1>2. PICK f : IsSum(g, SUBSET S, f) /\ Total(g, S) = f[S]
  BY <1>1
<1>3. f[S] = SumOf(g, S, f)
  BY <1>2 DEF IsSum
<1>4. CASE S = {}
  BY <1>2, <1>3, <1>4 DEF SumOf
<1>5. CASE S # {}
  <2> DEFINE R == S \ {OneOf(S)}
  <2>1. IsFiniteSet(R) /\ SUBSET R \subseteq SUBSET S
    BY FS_Subset
  <2>2. PICK e : IsSum(g, SUBSET R, e) /\ Total(g, R) = e[R]
    BY <1>1, <2>1
  <2> HIDE DEF R
  <2>3. e[R] = f[R]
    BY <1>2, <2>1, <2>2, SumUnique
  <2> QED
    BY <1>2, <1>3, <1>5, <2>2, <2>3 DEF SumOf, R
<1> QED
  BY <1>4, <1>5

-----------------------------------------------------------------------------
(* Sums over a finite set.                                                  *)

LEMMA TotalIsInt ==
  ASSUME NEW S, IsFiniteSet(S), NEW g, \A x \in S : g[x] \in Int
  PROVE  Total(g, S) \in Int
<1> DEFINE P == {n \in Nat : \A s \in SUBSET S : Cardinality(s) = n => Total(g, s) \in Int}
<1>1. ASSUME NEW s \in SUBSET S
      PROVE  IsFiniteSet(s) /\ Cardinality(s) \in Nat
  BY FS_Subset, FS_CardinalityType
<1>2. 0 \in P
  <2> SUFFICES ASSUME NEW s \in SUBSET S, Cardinality(s) = 0
               PROVE  Total(g, s) \in Int
    OBVIOUS
  <2> QED
    BY <1>1, FS_EmptySet, TotalUnfolds, SMTT(30)
<1>3. ASSUME NEW n \in Nat, n \in P
      PROVE  n + 1 \in P
  <2> SUFFICES ASSUME NEW s \in SUBSET S, Cardinality(s) = n + 1
               PROVE  Total(g, s) \in Int
    OBVIOUS
  <2>1. s # {}
    BY <1>1, NextSize
  <2>2. OneOf(s) \in s
    BY <2>1, OneOfIsIn
  <2>3. Cardinality(s \ {OneOf(s)}) = n
    BY <1>1, <2>2, NextSize
  <2>4. Total(g, s \ {OneOf(s)}) \in Int
    BY <1>3, <2>3
  <2> QED
    BY <1>1, <2>1, <2>2, <2>4, TotalUnfolds
<1> HIDE DEF P
<1>4. Nat \subseteq P
  BY <1>2, <1>3, NatSetInduction
<1>5. Cardinality(S) \in P
  BY <1>1, <1>4
<1> QED
  BY <1>5 DEF P

\* Any element can be taken out of a sum first.
LEMMA TotalTakesOut ==
  ASSUME NEW S, IsFiniteSet(S), NEW g \in [S -> Int], NEW v \in S
  PROVE  Total(g, S) = g[v] + Total(g, S \ {v})
<1> DEFINE P == {n \in Nat : \A s \in SUBSET S : \A x \in s :
                    Cardinality(s) = n => Total(g, s) = g[x] + Total(g, s \ {x})}
<1>1. ASSUME NEW s \in SUBSET S
      PROVE  /\ IsFiniteSet(s) /\ Cardinality(s) \in Nat
             /\ Total(g, s) \in Int
  <2>1. IsFiniteSet(s) /\ Cardinality(s) \in Nat
    BY FS_Subset, FS_CardinalityType
  <2>2. Total(g, s) \in Int
    BY <2>1, TotalIsInt
  <2> QED
    BY <2>1, <2>2
<1>2. 0 \in P
  BY <1>1, FS_EmptySet
<1>3. ASSUME NEW n \in Nat, n \in P
      PROVE  n + 1 \in P
  <2> SUFFICES ASSUME NEW s \in SUBSET S, NEW x \in s, Cardinality(s) = n + 1
               PROVE  Total(g, s) = g[x] + Total(g, s \ {x})
    OBVIOUS
  <2> DEFINE y == OneOf(s)
  <2>1. y \in s
    BY OneOfIsIn
  <2>2. Total(g, s) = g[y] + Total(g, s \ {y})
    BY <1>1, TotalUnfolds
  <2> HIDE DEF y
  <2>3. CASE x = y
    BY <2>2, <2>3
  <2>4. CASE x # y
    <3>1. Cardinality(s \ {y}) = n /\ Cardinality(s \ {x}) = n
      BY <1>1, <2>1, NextSize
    <3>2. Total(g, s \ {y}) = g[x] + Total(g, (s \ {y}) \ {x})
      BY <1>3, <2>4, <3>1
    <3>3. Total(g, s \ {x}) = g[y] + Total(g, (s \ {x}) \ {y})
      BY <1>3, <2>1, <2>4, <3>1
    <3>4. (s \ {x}) \ {y} = (s \ {y}) \ {x}
      OBVIOUS
    <3>5. g[x] \in Int /\ g[y] \in Int /\ Total(g, (s \ {y}) \ {x}) \in Int
      BY <1>1, <2>1
    <3> DEFINE rest == Total(g, (s \ {y}) \ {x})
               withX == Total(g, s \ {y})
               withY == Total(g, s \ {x})
    <3>6. rest \in Int /\ withX = g[x] + rest /\ withY = g[y] + rest
      BY <3>2, <3>3, <3>4, <3>5
    <3>7. Total(g, s) = g[y] + withX
      BY <2>2
    <3> HIDE DEF rest, withX, withY
    <3>8. Total(g, s) = g[x] + withY
      BY <3>5, <3>6, <3>7
    <3> QED
      BY <3>8 DEF withY
  <2> QED
    BY <2>3, <2>4
<1> HIDE DEF P
<1>4. Nat \subseteq P
  BY <1>2, <1>3, NatSetInduction
<1>5. Cardinality(S) \in P
  BY <1>1, <1>4
<1> QED
  BY <1>5 DEF P

\* A sum depends on the terms alone.
LEMMA TotalSame ==
  ASSUME NEW S, IsFiniteSet(S), NEW g, NEW h, \A x \in S : g[x] = h[x]
  PROVE  Total(g, S) = Total(h, S)
<1> DEFINE P == {n \in Nat : \A s \in SUBSET S :
                    Cardinality(s) = n => Total(g, s) = Total(h, s)}
<1>1. ASSUME NEW s \in SUBSET S
      PROVE  IsFiniteSet(s) /\ Cardinality(s) \in Nat
  BY FS_Subset, FS_CardinalityType
<1>2. 0 \in P
  <2> SUFFICES ASSUME NEW s \in SUBSET S, Cardinality(s) = 0
               PROVE  Total(g, s) = Total(h, s)
    OBVIOUS
  <2> QED
    BY <1>1, FS_EmptySet, TotalUnfolds
<1>3. ASSUME NEW n \in Nat, n \in P
      PROVE  n + 1 \in P
  <2> SUFFICES ASSUME NEW s \in SUBSET S, Cardinality(s) = n + 1
               PROVE  Total(g, s) = Total(h, s)
    OBVIOUS
  <2>1. s # {}
    BY <1>1, NextSize
  <2>2. OneOf(s) \in s
    BY <2>1, OneOfIsIn
  <2>3. Cardinality(s \ {OneOf(s)}) = n
    BY <1>1, <2>2, NextSize
  <2>4. Total(g, s \ {OneOf(s)}) = Total(h, s \ {OneOf(s)})
    BY <1>3, <2>3
  <2>5. g[OneOf(s)] = h[OneOf(s)]
    BY <2>2
  <2>6. Total(g, s) = g[OneOf(s)] + Total(g, s \ {OneOf(s)})
    BY <1>1, <2>1, TotalUnfolds
  <2>7. Total(h, s) = h[OneOf(s)] + Total(h, s \ {OneOf(s)})
    BY <1>1, <2>1, TotalUnfolds
  <2> QED
    BY <2>4, <2>5, <2>6, <2>7
<1> HIDE DEF P
<1>4. Nat \subseteq P
  BY <1>2, <1>3, NatSetInduction
<1>5. Cardinality(S) \in P
  BY <1>1, <1>4
<1> QED
  BY <1>5 DEF P

\* A sum in which one term is replaced.
LEMMA TotalReplaces ==
  ASSUME NEW S, IsFiniteSet(S), NEW g \in [S -> Int], NEW h \in [S -> Int], NEW v \in S,
         \A x \in S \ {v} : h[x] = g[x]
  PROVE  Total(h, S) = Total(g, S) - g[v] + h[v]
<1>1. IsFiniteSet(S \ {v})
  BY FS_Subset
<1>2. Total(h, S) = h[v] + Total(h, S \ {v})
  BY TotalTakesOut
<1>3. Total(g, S) = g[v] + Total(g, S \ {v})
  BY TotalTakesOut
<1>4. Total(h, S \ {v}) = Total(g, S \ {v})
  BY <1>1, TotalSame
<1>5. Total(g, S \ {v}) \in Int /\ g[v] \in Int /\ h[v] \in Int
  BY <1>1, TotalIsInt
<1> QED
  BY <1>2, <1>3, <1>4, <1>5

-----------------------------------------------------------------------------
(* The inductive invariant.                                                 *)

Loops == {"commission", "rewards", "validators", "delegations", "jail"}
Ends  == {"exported", "exportedUnfinished", "exportedAtHeight", "panic"}
Calls == {"start", "clear", "entries", "close", "apply", "signing"}

Functional(f, S) == f = [x \in S |-> f[x]]

Types ==
    /\ pc \in Loops \cup Ends \cup Calls
    /\ pc \in {"commission", "validators", "jail"} => todo \in Seq(Validators)
    /\ pc \in {"rewards", "delegations"} => todo \in Seq(Delegations)
    /\ allowList \in AllowLists
    /\ pc \notin {"start", "exportedAtHeight", "panic"} => NoAddress \notin allowList
    /\ power \subseteq Validators
    /\ outstanding \in [Validators -> Int]
    /\ commission \in [Validators -> Nat]
    /\ pool \in Int /\ balance \in Int /\ unpaid \in Int
    /\ current \in [Validators -> Int]
    /\ start \in [Delegations -> Int]
    /\ slashes \in [Validators -> SUBSET Int]
    /\ Functional(refs, Validators)
    /\ staleHeight \subseteq Entries \cup SigningInfos \cup Unbondings

\* How often the delegations of D to v that start at s, the slash events that
\* ended e, and the last period l are in period p.
Users(D, s, v, p) == {d \in D : d.val = v /\ s[d] = p}

Uses(D, s, e, l, v, p) ==
    Cardinality(Users(D, s, v, p)) + (IF p \in e THEN 1 ELSE 0) + (IF p = l THEN 1 ELSE 0)

\* The reference counts h are those uses and no others.
Counted(h, D, s, e, l, v) ==
    /\ Functional(h, DOMAIN h)
    /\ DOMAIN h \subseteq Int
    /\ \A p \in Int : /\ p \in DOMAIN h <=> Uses(D, s, e, l, v, p) > 0
                      /\ p \in DOMAIN h => h[p] = Uses(D, s, e, l, v, p)

\* The delegations that have not been set up anew.
Pending == IF pc = "delegations" THEN Range(todo) ELSE {}

SetUp == {"delegations", "entries", "jail", "close", "apply", "signing", "exported",
          "exportedUnfinished"}

OnePeriod == SetRefs(<<>>, 0, 1)

\* History is cleared, each validator gets its first period, and each delegation
\* that is set up one more.
Periods ==
    /\ pc = "delegations" => \A i, j \in DOMAIN todo : todo[i] = todo[j] => i = j
    /\ pc \in {"validators"} \cup SetUp => \A v \in Validators : slashes[v] = {}
    /\ pc = "validators" => \A v \in Validators :
          /\ refs[v] \in {<<>>, OnePeriod}
          /\ v \notin Range(todo) => refs[v] = OnePeriod /\ current[v] = 1
    /\ pc \in SetUp => \A d \in Delegations \ Pending : start[d] < current[d.val]
    /\ pc \in {"start", "exportedAtHeight"} \cup SetUp => \A v \in Validators :
          Counted(refs[v], Delegations \ Pending, start, slashes[v], current[v] - 1, v)

\* What the jailing loop has met is reset, and jailed when the list says so.
Met ==
    /\ pc \in {"jail", "close", "apply", "signing", "exported"} =>
          /\ staleHeight \subseteq SigningInfos \cup Unbondings
          /\ \A v \in Validators : (pc = "jail" => v \notin Range(todo)) =>
                /\ <<"validator", v>> \notin staleHeight
                /\ Jails(v) => v \in jailed
    /\ pc = "exported" => staleHeight = {}
    /\ pc \in {"signing", "exported"} => last \cap jailed = {} /\ last \subseteq Validators

IInv == Types /\ HoldingsMatch /\ Periods /\ Met
-----------------------------------------------------------------------------
(* Loops.                                                                   *)

LEMMA LoopSteps ==
  ASSUME NEW S, NEW s \in Seq(S), s # <<>>
  PROVE  /\ Head(s) \in S /\ Tail(s) \in Seq(S)
         /\ Range(s) = {Head(s)} \cup Range(Tail(s))
<1>1. /\ Head(s) \in S /\ Tail(s) \in Seq(S) /\ Len(s) \in Nat \ {0}
      /\ Len(Tail(s)) = Len(s) - 1 /\ Head(s) = s[1]
      /\ \A i \in 1..Len(s) - 1 : Tail(s)[i] = s[i + 1]
  OBVIOUS
<1> DEFINE t == Tail(s)
<1>2. Range(s) = {s[i] : i \in 1..Len(s)} /\ Range(t) = {t[i] : i \in 1..Len(s) - 1}
  <2>1. DOMAIN s = 1..Len(s) /\ DOMAIN t = 1..Len(s) - 1
    BY <1>1
  <2> HIDE DEF t
  <2> QED
    BY <2>1 DEF Range
<1>3. ASSUME NEW i \in 1..Len(s)
      PROVE  s[i] \in {Head(s)} \cup Range(t)
  <2>1. CASE i = 1
    BY <1>1, <2>1
  <2>2. CASE i # 1
    <3>1. i - 1 \in 1..Len(s) - 1 /\ t[i - 1] = s[i]
      BY <1>1, <2>2
    <3> HIDE DEF t
    <3> QED
      BY <1>2, <3>1
  <2> QED
    BY <2>1, <2>2
<1>4. ASSUME NEW i \in 1..Len(s) - 1
      PROVE  t[i] \in Range(s)
  BY <1>1, <1>2
<1>5. Head(s) \in Range(s)
  BY <1>1, <1>2
<1> HIDE DEF t
<1>6. Range(s) = {Head(s)} \cup Range(t)
  BY <1>2, <1>3, <1>4, <1>5
<1> QED
  BY <1>1, <1>6 DEF t

\* No element comes twice, then neither in the rest, and not the first one.
LEMMA LoopStepsOnce ==
  ASSUME NEW S, NEW s \in Seq(S), s # <<>>, \A i, j \in DOMAIN s : s[i] = s[j] => i = j
  PROVE  /\ \A i, j \in DOMAIN Tail(s) : Tail(s)[i] = Tail(s)[j] => i = j
         /\ Head(s) \notin Range(Tail(s))
<1>1. /\ Tail(s) \in Seq(S) /\ Len(s) \in Nat \ {0}
      /\ Len(Tail(s)) = Len(s) - 1 /\ Head(s) = s[1]
      /\ \A i \in 1..Len(s) - 1 : Tail(s)[i] = s[i + 1]
  OBVIOUS
<1> DEFINE t == Tail(s)
<1>2. DOMAIN t = 1..Len(s) - 1 /\ DOMAIN s = 1..Len(s)
  BY <1>1
<1>3. ASSUME NEW i \in DOMAIN t, NEW j \in DOMAIN t, t[i] = t[j]
      PROVE  i = j
  <2>1. i + 1 \in DOMAIN s /\ j + 1 \in DOMAIN s /\ s[i + 1] = s[j + 1]
    BY <1>1, <1>2, <1>3
  <2>2. i + 1 = j + 1 /\ i \in Int /\ j \in Int
    BY <1>2, <2>1
  <2> QED
    BY <2>2
<1>4. ASSUME NEW i \in DOMAIN t, t[i] = Head(s)
      PROVE  FALSE
  <2>1. i + 1 \in DOMAIN s /\ 1 \in DOMAIN s /\ s[i + 1] = s[1]
    BY <1>1, <1>2, <1>4
  <2>2. i + 1 = 1 /\ i \in 1..Len(s) - 1
    BY <1>2, <2>1
  <2> QED
    BY <2>2
<1> QED
  BY <1>3, <1>4 DEF Range

\* The validators are met in the order of their keys, or in the reverse of it.
LEMMA ByKeyIsAll ==
  /\ ByKey \in Seq(Validators) /\ Range(ByKey) = Validators
  /\ Reverse(ByKey) \in Seq(Validators) /\ Range(Reverse(ByKey)) = Validators
<1>1. NVal \in Nat /\ Validators = 1..NVal
  BY ExportAssumption DEF Validators
<1>2. ByKey \in Seq(Validators) /\ Len(ByKey) = NVal /\ Range(ByKey) = Validators
  BY <1>1 DEF ByKey, Range
<1>3. Reverse(ByKey) = [i \in 1..NVal |-> ByKey[(NVal - i) + 1]]
  BY <1>2 DEF Reverse
<1>4. \A i \in 1..NVal : (NVal - i) + 1 \in 1..NVal
  BY <1>1
<1>5. \A i \in 1..NVal : Reverse(ByKey)[i] = (NVal - i) + 1
  BY <1>3, <1>4 DEF ByKey
<1>6. Reverse(ByKey) \in Seq(Validators) /\ DOMAIN Reverse(ByKey) = 1..NVal
  BY <1>1, <1>3, <1>4, <1>5
<1>7. ASSUME NEW v \in Validators
      PROVE  v \in Range(Reverse(ByKey))
  <2>1. (NVal - v) + 1 \in 1..NVal
    BY <1>1
  <2>2. Reverse(ByKey)[(NVal - v) + 1] = v
    BY <1>1, <1>5, <2>1
  <2> QED
    BY <1>6, <2>1, <2>2 DEF Range
<1>8. Range(Reverse(ByKey)) \subseteq Validators
  BY <1>1, <1>4, <1>5, <1>6 DEF Range
<1> QED
  BY <1>2, <1>6, <1>7, <1>8

\* GetAllDelegations has every delegation once.
LEMMA DelsIsAll ==
  /\ dels \in Seq(Delegations) /\ Range(dels) = Delegations
  /\ \A i, j \in DOMAIN dels : dels[i] = dels[j] => i = j
<1> DEFINE n == Cardinality(Delegations)
<1>1. IsFiniteSet(Delegations)
  BY ExportAssumption
<1>2. n \in Nat /\ ExistsBijection(1..n, Delegations)
  BY <1>1, FS_CardinalityType
<1>3. \E f \in [1..n -> Delegations] : IsInjective(f)
  BY <1>2 DEF ExistsBijection, Bijection, Injection
<1>4. dels \in [1..n -> Delegations] /\ IsInjective(dels)
  BY <1>3, Zenon DEF dels, SetToSeq
<1>5. IsFiniteSet(1..n) /\ Cardinality(1..n) = n
  BY <1>2, FS_Interval
<1>6. dels \in Surjection(1..n, Delegations)
  BY <1>1, <1>4, <1>5, FS_Injection DEF Injection
<1> HIDE DEF n
<1>7. Range(dels) = Delegations
  BY <1>4, <1>6 DEF Surjection, Range
<1>8. dels \in Seq(Delegations)
  BY <1>2, <1>4
<1> QED
  BY <1>4, <1>7, <1>8 DEF IsInjective

-----------------------------------------------------------------------------
(* Reference counts.                                                        *)

LEMMA UsersAreFinite ==
  ASSUME NEW D, D \subseteq Delegations, NEW s, NEW v, NEW p
  PROVE  /\ IsFiniteSet(Users(D, s, v, p)) /\ Cardinality(Users(D, s, v, p)) \in Nat
         /\ Cardinality(Users(D, s, v, p)) > 0 <=> Users(D, s, v, p) # {}
<1>1. IsFiniteSet(Delegations)
  BY ExportAssumption
<1>2. Users(D, s, v, p) \subseteq Delegations
  BY DEF Users
<1>3. IsFiniteSet(Users(D, s, v, p))
  BY <1>1, <1>2, FS_Subset
<1>4. Cardinality(Users(D, s, v, p)) \in Nat
      /\ (Cardinality(Users(D, s, v, p)) = 0 <=> Users(D, s, v, p) = {})
  BY <1>3, FS_CardinalityType, FS_EmptySet
<1> QED
  BY <1>3, <1>4

\* Counts of two states in which the same delegations use the same periods.
LEMMA UsesSame ==
  ASSUME NEW D, NEW E, NEW s, NEW t, NEW e, NEW l, NEW v,
         \A d \in D \cup E : d.val = v => (d \in D <=> d \in E) /\ s[d] = t[d]
  PROVE  \A p : Uses(D, s, e, l, v, p) = Uses(E, t, e, l, v, p)
<1> SUFFICES ASSUME NEW p
             PROVE  Uses(D, s, e, l, v, p) = Uses(E, t, e, l, v, p)
  OBVIOUS
<1>1. Users(D, s, v, p) = Users(E, t, v, p)
  BY DEF Users
<1> QED
  BY <1>1 DEF Uses

LEMMA CountedSame ==
  ASSUME NEW h, NEW D, NEW E, NEW s, NEW t, NEW e, NEW l, NEW v,
         \A d \in D \cup E : d.val = v => (d \in D <=> d \in E) /\ s[d] = t[d],
         Counted(h, D, s, e, l, v)
  PROVE  Counted(h, E, t, e, l, v)
<1>1. \A p : Uses(D, s, e, l, v, p) = Uses(E, t, e, l, v, p)
  BY UsesSame
<1> QED
  BY <1>1 DEF Counted

\* A delegation d that joins after period c has ended: the period before it is
\* the last one no longer, c is, and c has d.
LEMMA JoinIsCounted ==
  ASSUME NEW h, NEW D, NEW d, NEW s, NEW t, NEW v, NEW c \in Int,
         D \subseteq Delegations, d \in Delegations, d \notin D, d.val = v,
         \A x \in D : t[x] = s[x], t[d] = c,
         \A x \in D : x.val = v => s[x] \in Int /\ s[x] < c,
         Counted(h, D, s, {}, c - 1, v)
  PROVE  Counted(JoinPeriod(EndPeriod(h, c), c + 1), D \cup {d}, t, {}, c, v)
<1> DEFINE U(p) == Uses(D, s, {}, c - 1, v, p)
           W(p) == Uses(D \cup {d}, t, {}, c, v, p)
           a == Decrement(h, c - 1)
           b == EndPeriod(h, c)
           g == JoinPeriod(b, c + 1)
<1>1. /\ DOMAIN h \subseteq Int
      /\ \A p \in Int : (p \in DOMAIN h <=> U(p) > 0) /\ (p \in DOMAIN h => h[p] = U(p))
  BY DEF Counted
<1>2. ASSUME NEW p \in Int
      PROVE  /\ U(p) = Cardinality(Users(D, s, v, p)) + (IF p = c - 1 THEN 1 ELSE 0)
             /\ W(p) = Cardinality(Users(D \cup {d}, t, v, p)) + (IF p = c THEN 1 ELSE 0)
             /\ Cardinality(Users(D, s, v, p)) \in Nat
  <2>1. Cardinality(Users(D, s, v, p)) \in Nat
    BY UsersAreFinite
  <2>2. D \cup {d} \subseteq Delegations
    OBVIOUS
  <2>3. Cardinality(Users(D \cup {d}, t, v, p)) \in Nat
    BY <2>2, UsersAreFinite
  <2> QED
    BY <2>1, <2>3 DEF Uses
<1>3. U(c) = 0 /\ W(c) = 2
  <2>1. Users(D, s, v, c) = {}
    BY DEF Users
  <2>2. Users(D \cup {d}, t, v, c) = {d}
    BY DEF Users
  <2>3. Cardinality({d}) = 1 /\ Cardinality({}) = 0
    BY FS_EmptySet, FS_Singleton
  <2>4. Cardinality(Users(D, s, v, c)) = 0 /\ Cardinality(Users(D \cup {d}, t, v, c)) = 1
    BY <2>1, <2>2, <2>3
  <2> HIDE DEF U, W
  <2> QED
    BY <1>2, <2>4
<1>4. ASSUME NEW p \in Int, p # c
      PROVE  W(p) = U(p) - (IF p = c - 1 THEN 1 ELSE 0) /\ U(p) \in Nat
  <2>1. Users(D \cup {d}, t, v, p) = Users(D, s, v, p)
    BY <1>4 DEF Users
  <2> HIDE DEF U, W
  <2> QED
    BY <1>2, <1>4, <2>1
<1>5. U(c - 1) > 0 /\ U(c - 1) \in Nat
  <2>1. c - 1 \in Int
    OBVIOUS
  <2> HIDE DEF U
  <2> QED
    BY <1>2, <2>1
<1> HIDE DEF U, W
<1>6. RefCount(h, c - 1) = U(c - 1)
  BY <1>1, <1>5 DEF RefCount
<1>7. /\ DOMAIN a = IF U(c - 1) = 1 THEN DOMAIN h \ {c - 1} ELSE DOMAIN h \cup {c - 1}
      /\ \A q \in DOMAIN a : a[q] = IF q = c - 1 THEN U(c - 1) - 1 ELSE h[q]
  <2>1. a = SetRefs(h, c - 1, U(c - 1) - 1)
    BY <1>6 DEF Decrement
  <2>2. U(c - 1) - 1 = 0 <=> U(c - 1) = 1
    BY <1>5
  <2> HIDE DEF a
  <2> QED
    BY <2>1, <2>2 DEF SetRefs
<1>8. /\ DOMAIN b = DOMAIN a \cup {c}
      /\ \A q \in DOMAIN b : b[q] = IF q = c THEN 1 ELSE a[q]
  <2>1. b = SetRefs(a, c, 1)
    BY DEF EndPeriod
  <2> HIDE DEF a, b
  <2> QED
    BY <2>1 DEF SetRefs
<1>9. /\ Functional(g, DOMAIN g) /\ DOMAIN g = DOMAIN b \cup {c}
      /\ \A q \in DOMAIN g : g[q] = IF q = c THEN 2 ELSE b[q]
  <2>1. (c + 1) - 1 = c
    OBVIOUS
  <2>2. RefCount(b, c) = 1
    BY <1>8 DEF RefCount
  <2>3. g = SetRefs(b, c, 2)
    <3> HIDE DEF b
    <3> QED
      BY <2>1, <2>2 DEF JoinPeriod, Increment
  <2> HIDE DEF a, b, g
  <2> QED
    BY <2>3 DEF SetRefs, Functional
<1> HIDE DEF a, b, g
<1>10. DOMAIN g \subseteq Int
  BY <1>1, <1>7, <1>8, <1>9
<1>11. ASSUME NEW p \in Int
       PROVE  (p \in DOMAIN g <=> W(p) > 0) /\ (p \in DOMAIN g => g[p] = W(p))
  <2>1. CASE p = c
    BY <1>3, <1>8, <1>9, <2>1
  <2>2. CASE p = c - 1
    <3>1. p # c /\ W(p) = U(c - 1) - 1
      BY <1>4, <2>2
    <3>2. p \in DOMAIN g <=> p \in DOMAIN a
      BY <1>8, <1>9, <3>1
    <3>3. p \in DOMAIN a <=> U(c - 1) # 1
      BY <1>7, <2>2
    <3>4. p \in DOMAIN g => g[p] = U(c - 1) - 1
      BY <1>7, <1>8, <1>9, <2>2, <3>1, <3>2
    <3> QED
      BY <1>5, <3>1, <3>2, <3>3, <3>4
  <2>3. CASE p # c /\ p # c - 1
    <3>1. W(p) = U(p)
      BY <1>4, <2>3
    <3>2. p \in DOMAIN g <=> p \in DOMAIN h
      BY <1>7, <1>8, <1>9, <2>3
    <3>3. p \in DOMAIN g => g[p] = h[p]
      BY <1>7, <1>8, <1>9, <2>3
    <3> QED
      BY <1>1, <3>1, <3>2, <3>3
  <2> QED
    BY <2>1, <2>2, <2>3
<1> QED
  BY <1>9, <1>10, <1>11 DEF Counted, g, b, W
-----------------------------------------------------------------------------
(* Holdings.                                                                *)

\* An account of b coins holds p units of the pool, the units of o and u more.
Match(b, p, o, u) == b * Scale = p + Total(o, Validators) + u

LEMMA HoldingsAre ==
  /\ HoldingsMatch <=> Match(balance, pool, outstanding, unpaid)
  /\ HoldingsMatch' <=> Match(balance', pool', outstanding', unpaid')
<1>1. HoldingsMatch <=> Match(balance, pool, outstanding, unpaid)
  BY Zenon DEF HoldingsMatch, Match, Total
<1>2. HoldingsMatch' <=> Match(balance, pool, outstanding, unpaid)'
  BY <1>1, PTL
<1>3. Match(balance, pool, outstanding, unpaid)' <=> Match(balance', pool', outstanding', unpaid')
  OBVIOUS
<1> QED
  BY <1>1, <1>2, <1>3

LEMMA ValidatorsAreFinite == IsFiniteSet(Validators)
BY ExportAssumption, FS_Interval DEF Validators

LEMMA DivMod ==
  ASSUME NEW d \in Nat \ {0}, NEW w \in Int
  PROVE  w = d * (w \div d) + (w % d) /\ w % d \in Nat /\ w \div d \in Int
OBVIOUS

LEMMA MulDiv ==
  ASSUME NEW d \in Nat \ {0}, NEW q \in Int
  PROVE  (d * q) \div d = q
OBVIOUS

LEMMA WholeCoins ==
  ASSUME NEW d \in Nat \ {0}, NEW w \in Int
  PROVE  ((w - (w % d)) \div d) * d = w - (w % d) /\ (w - (w % d)) \div d \in Int
<1>1. w - (w % d) = d * (w \div d) /\ w \div d \in Int
  BY DivMod
<1> QED
  BY <1>1, MulDiv

LEMMA Distributes ==
  ASSUME NEW b \in Int, NEW q \in Int, NEW d \in Int
  PROVE  (b - q) * d = b * d - q * d
OBVIOUS

\* A payment of whole coins takes from the account what it takes from the units,
\* but for the change and for what is kept because the payment failed.
LEMMA PaysWholeCoins ==
  ASSUME NEW b \in Int, NEW p \in Int, NEW o \in [Validators -> Int], NEW v \in Validators,
         NEW units \in Int, NEW change \in Int, NEW coins \in Int,
         NEW u \in Int, NEW kept \in Int,
         coins * Scale = units - change - kept, Match(b, p, o, u)
  PROVE  Match(b - coins, p + change, [o EXCEPT ![v] = o[v] - units], u + kept)
<1>1. Scale \in Int
  BY ExportAssumption
<1>2. (b - coins) * Scale = b * Scale - coins * Scale
  BY <1>1, Distributes
<1>3. o[v] \in Int /\ o[v] - units \in Int
  OBVIOUS
<1>4. Total(o, Validators) \in Int
  BY ValidatorsAreFinite, TotalIsInt
<1>5. Total([o EXCEPT ![v] = o[v] - units], Validators)
        = Total(o, Validators) - o[v] + (o[v] - units)
  <2> DEFINE n == [o EXCEPT ![v] = o[v] - units]
  <2>1. n \in [Validators -> Int] /\ n[v] = o[v] - units /\ \A x \in Validators \ {v} : n[x] = o[x]
    BY <1>3
  <2> HIDE DEF n
  <2>2. Total(n, Validators) = Total(o, Validators) - o[v] + n[v]
    BY <2>1, ValidatorsAreFinite, TotalReplaces
  <2> QED
    BY <2>1, <2>2 DEF n
<1> DEFINE old == Total(o, Validators)
           new == Total([o EXCEPT ![v] = o[v] - units], Validators)
           held == b * Scale
           paid == coins * Scale
           left == (b - coins) * Scale
<1>6. new = old - units /\ old \in Int
  <2>1. new = old - o[v] + (o[v] - units) /\ old \in Int
    BY <1>4, <1>5
  <2> HIDE DEF old, new
  <2> QED
    BY <1>3, <2>1
<1>7. held = p + old + u /\ paid = units - change - kept /\ left = held - paid
  BY <1>2 DEF Match
<1> HIDE DEF old, new, held, paid, left
<1>8. left = (p + change) + new + (u + kept)
  BY <1>6, <1>7
<1> QED
  BY <1>8 DEF Match, left, new

\* Donated units move from a validator to the pool.
LEMMA DonationMatches ==
  ASSUME NEW b, NEW p \in Int, NEW o \in [Validators -> Int], NEW v \in Validators,
         NEW u \in Int, Match(b, p, o, u)
  PROVE  Match(b, p + o[v], [o EXCEPT ![v] = 0], u)
<1>1. Total(o, Validators) \in Int /\ o[v] \in Int
  BY ValidatorsAreFinite, TotalIsInt
<1>2. Total([o EXCEPT ![v] = 0], Validators) = Total(o, Validators) - o[v] + 0
  <2> DEFINE n == [o EXCEPT ![v] = 0]
  <2>1. n \in [Validators -> Int] /\ n[v] = 0 /\ \A x \in Validators \ {v} : n[x] = o[x]
    OBVIOUS
  <2> HIDE DEF n
  <2>2. Total(n, Validators) = Total(o, Validators) - o[v] + n[v]
    BY <2>1, ValidatorsAreFinite, TotalReplaces
  <2> QED
    BY <2>1, <2>2 DEF n
<1> DEFINE old == Total(o, Validators)
           new == Total([o EXCEPT ![v] = 0], Validators)
<1>3. new = old - o[v] /\ old \in Int
  <2>1. new = old - o[v] + 0 /\ old \in Int
    BY <1>1, <1>2
  <2> HIDE DEF old, new
  <2> QED
    BY <1>1, <2>1
<1>4. b * Scale = p + old + u
  BY DEF Match
<1> HIDE DEF old, new
<1>5. p + old + u = (p + o[v]) + new + u
  BY <1>1, <1>3
<1> QED
  BY <1>4, <1>5 DEF Match, new

-----------------------------------------------------------------------------
(* The initial states.                                                      *)

LEMMA InitCounts ==
  ASSUME NEW v \in Validators, NEW s \in [Delegations -> 0..Period - 1],
         NEW e \in {{}} \cup {{p} : p \in 0..Period - 1}
  PROVE  Counted(InitialRefs(v, s, e), Delegations, s, e, Period - 1, v)
<1> DEFINE U(p) == Uses(Delegations, s, e, Period - 1, v, p)
           h == InitialRefs(v, s, e)
<1>1. Period \in Nat \ {0}
  BY ExportAssumption
<1>2. \A p : Users(Delegations, s, v, p) = {d \in DelegationsTo(v) : s[d] = p}
  BY DEF Users, DelegationsTo
<1>3. h = [p \in {q \in 0..Period - 1 : U(q) > 0} |-> U(p)]
  BY <1>2 DEF InitialRefs, Uses
<1>4. ASSUME NEW p \in Int, U(p) > 0
      PROVE  p \in 0..Period - 1
  <2>1. CASE Users(Delegations, s, v, p) # {}
    BY <2>1 DEF Users
  <2>2. CASE Users(Delegations, s, v, p) = {}
    <3>1. Cardinality(Users(Delegations, s, v, p)) = 0
      BY <2>2, FS_EmptySet
    <3>2. p \in e \/ p = Period - 1
      BY <1>4, <3>1 DEF Uses
    <3> QED
      BY <1>1, <3>2
  <2> QED
    BY <2>1, <2>2
<1> HIDE DEF U, h
<1>5. DOMAIN h = {q \in 0..Period - 1 : U(q) > 0} /\ \A p \in DOMAIN h : h[p] = U(p)
  BY <1>3
<1>6. Functional(h, DOMAIN h) /\ DOMAIN h \subseteq Int
  BY <1>3, <1>5 DEF Functional
<1>7. \A p \in Int : (p \in DOMAIN h <=> U(p) > 0) /\ (p \in DOMAIN h => h[p] = U(p))
  BY <1>4, <1>5
<1> QED
  BY <1>6, <1>7 DEF Counted, U, h

LEMMA InitIInv == Init => IInv
<1> SUFFICES ASSUME Init
             PROVE  IInv
  OBVIOUS
<1>1. pc = "start" /\ Pending = {}
  BY DEF Init, Pending
<1>2. outstanding \in [Validators -> Nat] /\ commission \in [Validators -> Nat]
  BY ExportAssumption DEF Init
<1>3. Period \in Nat \ {0} /\ Scale \in Nat \ {0}
  BY ExportAssumption
<1>4. /\ start \in [Delegations -> 0..Period - 1]
      /\ slashes \in [Validators -> {{}} \cup {{p} : p \in 0..Period - 1}]
      /\ current = [v \in Validators |-> Period]
      /\ refs = [v \in Validators |-> InitialRefs(v, start, slashes[v])]
  BY DEF Init
<1>5. /\ start \in [Delegations -> Int] /\ slashes \in [Validators -> SUBSET Int]
      /\ current \in [Validators -> Int] /\ Functional(refs, Validators)
  <2>1. start \in [Delegations -> Int] /\ current \in [Validators -> Int]
    BY <1>3, <1>4
  <2>2. Functional(refs, Validators)
    BY <1>4 DEF Functional
  <2>3. {{}} \cup {{p} : p \in 0..Period - 1} \subseteq SUBSET Int
    BY <1>3
  <2>4. slashes \in [Validators -> SUBSET Int]
    BY <1>4, <2>3
  <2> QED
    BY <2>1, <2>2, <2>4
<1> DEFINE owed == Total(outstanding, Validators)
<1>6. /\ pool \in 0..Scale - 1 /\ (owed + pool) % Scale = 0
      /\ balance = (owed + pool) \div Scale
  BY Zenon DEF Init, Total
<1>7. owed \in Int
  BY <1>2, ValidatorsAreFinite, TotalIsInt
<1>8. pool \in Int /\ balance \in Int /\ balance * Scale = pool + owed
  <2> DEFINE w == owed + pool
  <2>1. pool \in Int /\ w \in Int /\ w = pool + owed
    BY <1>3, <1>6, <1>7
  <2>2. w % Scale = 0 /\ balance = w \div Scale
    BY <1>6
  <2> HIDE DEF w, owed
  <2>3. w = Scale * (w \div Scale) + (w % Scale) /\ w \div Scale \in Int
    BY <1>3, <2>1, DivMod
  <2>4. balance \in Int /\ w = Scale * balance
    BY <1>3, <2>2, <2>3
  <2>5. Scale * balance = balance * Scale
    BY <1>3, <2>4
  <2> QED
    BY <2>1, <2>4, <2>5
<1>9. HoldingsMatch /\ unpaid \in Int
  <2>1. unpaid = 0
    BY DEF Init
  <2>2. balance * Scale = pool + owed + 0
    <3> HIDE DEF owed
    <3> QED
      BY <1>7, <1>8
  <2> QED
    BY <2>1, <2>2, HoldingsAre DEF Match
<1>10. Types
  <2>1. power \subseteq Validators /\ allowList \in AllowLists
        /\ staleHeight \subseteq Entries \cup SigningInfos \cup Unbondings
    BY DEF Init
  <2> QED
    BY <1>1, <1>2, <1>5, <1>8, <1>9, <2>1 DEF Types, Calls
<1>11. Periods
  <2>1. pc \notin {"delegations", "validators"} \cup SetUp
    BY <1>1 DEF SetUp
  <2>2. ASSUME NEW v \in Validators
        PROVE  Counted(refs[v], Delegations \ Pending, start, slashes[v], current[v] - 1, v)
    <3>1. slashes[v] \in {{}} \cup {{p} : p \in 0..Period - 1}
      BY <1>4
    <3>2. Counted(InitialRefs(v, start, slashes[v]), Delegations, start, slashes[v], Period - 1, v)
      BY <1>4, <3>1, InitCounts
    <3>3. refs[v] = InitialRefs(v, start, slashes[v]) /\ current[v] = Period
          /\ Delegations \ Pending = Delegations
      BY <1>1, <1>4
    <3> QED
      BY <3>2, <3>3
  <2> QED
    BY <2>1, <2>2 DEF Periods
<1>12. Met
  BY <1>1 DEF Met
<1> QED
  BY <1>9, <1>10, <1>11, <1>12 DEF IInv
-----------------------------------------------------------------------------
(* Steps that leave a part of the state alone.                              *)

LEMMA HoldingsStay ==
  ASSUME HoldingsMatch, UNCHANGED rewardVars
  PROVE  HoldingsMatch'
BY HoldingsAre DEF rewardVars

\* The loops and calls in which no reference is claimed to be counted.
LEMMA PeriodsUnclaimed ==
  ASSUME pc' \in {"commission", "rewards", "clear", "panic"}
  PROVE  Periods'
BY DEF Periods, SetUp

LEMMA PeriodsStay ==
  ASSUME Periods, UNCHANGED periodVars, Pending' = Pending,
         \/ pc \in SetUp /\ pc' \in SetUp \ {"delegations"}
         \/ pc = "start" /\ pc' = "exportedAtHeight"
  PROVE  Periods'
<1>1. UNCHANGED <<current, refs, start, slashes>>
  BY DEF periodVars
<1>2. CASE pc \in SetUp /\ pc' \in SetUp \ {"delegations"}
  <2>1. pc' # "delegations" /\ pc' # "validators"
    BY <1>2 DEF SetUp
  <2> QED
    BY <1>1, <1>2, <2>1 DEF Periods
<1>3. CASE pc = "start" /\ pc' = "exportedAtHeight"
  BY <1>1, <1>3 DEF Periods, SetUp
<1> QED
  BY <1>2, <1>3

LEMMA MetUnclaimed ==
  ASSUME pc' \notin {"jail", "close", "apply", "signing", "exported"}
  PROVE  Met'
BY DEF Met

-----------------------------------------------------------------------------
(* The steps.                                                               *)

LEMMA BeginKeepsIInv ==
  ASSUME IInv, ExportAtHeight \/ CheckAllowList
  PROVE  IInv'
<1>1. /\ pc = "start" /\ UNCHANGED <<allowList, staleHeight>>
      /\ UNCHANGED rewardVars /\ UNCHANGED periodVars /\ UNCHANGED setVars
  BY DEF ExportAtHeight, CheckAllowList
<1>2. UNCHANGED <<outstanding, commission, pool, balance, unpaid, current, refs, start, slashes,
                  jailed, power, last>>
  BY <1>1 DEF rewardVars, periodVars, setVars
<1>3. CASE ExportAtHeight
  <2>1. pc' = "exportedAtHeight"
    BY <1>3 DEF ExportAtHeight
  <2>2. Types'
    BY <1>1, <1>2, <2>1 DEF IInv, Types, Ends
  <2>3. Pending' = Pending
    BY <1>1, <2>1 DEF Pending
  <2> QED
    BY <1>1, <2>1, <2>2, <2>3, HoldingsStay, PeriodsStay, MetUnclaimed DEF IInv
<1>4. CASE CheckAllowList
  <2>1. \/ pc' = "commission" /\ todo' = ByKey /\ NoAddress \notin allowList
        \/ pc' = "panic"
    BY <1>4 DEF CheckAllowList
  <2>2. Types'
    BY <1>1, <1>2, <2>1, ByKeyIsAll DEF IInv, Types, Ends, Loops
  <2>3. Periods' /\ Met'
    BY <2>1, PeriodsUnclaimed, MetUnclaimed
  <2> QED
    BY <1>1, <2>2, <2>3, HoldingsStay DEF IInv
<1> QED
  BY <1>3, <1>4

LEMMA LoopEndsKeepsIInv ==
  ASSUME IInv, LoopEnds
  PROVE  IInv'
<1>1. /\ todo = <<>> /\ UNCHANGED <<allowList, staleHeight>>
      /\ UNCHANGED rewardVars /\ UNCHANGED periodVars /\ UNCHANGED setVars
  BY DEF LoopEnds
<1>2. UNCHANGED <<outstanding, commission, pool, balance, unpaid, current, refs, start, slashes,
                  jailed, power, last>>
  BY <1>1 DEF rewardVars, periodVars, setVars
<1>3. Range(todo) = {}
  BY <1>1 DEF Range
<1>4. HoldingsMatch'
  BY <1>1, HoldingsStay DEF IInv
<1>5. \/ pc = "commission" /\ pc' = "rewards" /\ todo' = dels
      \/ pc = "rewards" /\ pc' = "clear"
      \/ pc = "validators" /\ pc' = "delegations" /\ todo' = dels
      \/ pc = "delegations" /\ pc' = "entries"
      \/ pc = "jail" /\ pc' = "close"
  BY DEF LoopEnds
<1>6. Types'
  BY <1>1, <1>2, <1>5, DelsIsAll DEF IInv, Types, Loops, Calls
<1>7. Periods'
  <2>1. CASE pc' \in {"rewards", "clear"}
    BY <2>1, PeriodsUnclaimed
  <2>2. CASE pc = "validators" /\ pc' = "delegations" /\ todo' = dels
    <3>1. \A i, j \in DOMAIN todo' : todo'[i] = todo'[j] => i = j
      BY <2>2, DelsIsAll
    <3>2. Pending' = Delegations
      BY <2>2, DelsIsAll DEF Pending
    <3>3. ASSUME NEW v \in Validators
          PROVE  slashes[v] = {} /\ refs[v] = OnePeriod /\ current[v] = 1
      BY <1>3, <2>2 DEF IInv, Periods
    <3>4. ASSUME NEW v \in Validators
          PROVE  Counted(OnePeriod, {}, start, {}, 0, v)
      <4>1. OnePeriod = [q \in {0} |-> 1]
        BY DEF OnePeriod, SetRefs
      <4>2. \A p : Users({}, start, v, p) = {}
        BY DEF Users
      <4>3. ASSUME NEW p \in Int
            PROVE  Uses({}, start, {}, 0, v, p) = IF p = 0 THEN 1 ELSE 0
        BY <4>2, FS_EmptySet DEF Uses
      <4> QED
        BY <4>1, <4>3 DEF Counted, Functional
    <3>5. Delegations \ Pending' = {} /\ pc' \in SetUp
      BY <2>2, <3>2 DEF SetUp
    <3>6. ASSUME NEW v \in Validators
          PROVE  Counted(refs[v], {}, start, slashes[v], current[v] - 1, v)
      <4>1. current[v] - 1 = 0
        BY <3>3
      <4> QED
        BY <3>3, <3>4, <4>1
    <3> QED
      BY <1>2, <2>2, <3>1, <3>3, <3>5, <3>6 DEF Periods
  <2>3. CASE \/ pc = "delegations" /\ pc' = "entries"
             \/ pc = "jail" /\ pc' = "close"
    <3>1. Pending = {} /\ Pending' = {}
      BY <1>3, <2>3 DEF Pending
    <3>2. pc \in SetUp /\ pc' \in SetUp \ {"delegations"}
      BY <2>3 DEF SetUp
    <3> QED
      BY <1>1, <3>1, <3>2, PeriodsStay DEF IInv
  <2> QED
    BY <1>5, <2>1, <2>2, <2>3
<1>8. Met'
  <2>1. CASE pc = "jail" /\ pc' = "close"
    BY <1>1, <1>2, <1>3, <2>1 DEF IInv, Met, Jails
  <2>2. CASE pc' \notin {"jail", "close", "apply", "signing", "exported"}
    BY <2>2, MetUnclaimed
  <2> QED
    BY <1>5, <2>1, <2>2
<1> QED
  BY <1>4, <1>6, <1>7, <1>8 DEF IInv

LEMMA WithdrawalFailsKeepsIInv ==
  ASSUME IInv, WithdrawalFails
  PROVE  IInv'
<1>1. /\ pc \in {"commission", "rewards"} /\ todo # <<>> /\ todo' = Tail(todo) /\ pc' = pc
      /\ UNCHANGED <<allowList, staleHeight>>
      /\ UNCHANGED rewardVars /\ UNCHANGED periodVars /\ UNCHANGED setVars
  BY DEF WithdrawalFails, Iterate
<1>2. UNCHANGED <<outstanding, commission, pool, balance, unpaid, current, refs, start,
                  slashes, jailed, power, last>>
  BY <1>1 DEF rewardVars, periodVars, setVars
<1>3. /\ pc = "commission" => todo' \in Seq(Validators)
      /\ pc = "rewards" => todo' \in Seq(Delegations)
  BY <1>1, LoopSteps DEF IInv, Types
<1>4. Types'
  BY <1>1, <1>2, <1>3 DEF IInv, Types
<1> QED
  BY <1>1, <1>4, HoldingsStay, PeriodsUnclaimed, MetUnclaimed DEF IInv

LEMMA WholeUnits ==
  ASSUME NEW units \in Int
  PROVE  /\ Whole(units) \in Int /\ Whole(units) \div Scale \in Int
         /\ (Whole(units) \div Scale) * Scale = Whole(units)
         /\ units - Whole(units) = units % Scale /\ units % Scale \in Nat
<1>1. Scale \in Nat \ {0}
  BY ExportAssumption
<1>2. units % Scale \in Nat
  BY <1>1, DivMod
<1>3. (Whole(units) \div Scale) * Scale = Whole(units) /\ Whole(units) \div Scale \in Int
  BY <1>1, WholeCoins DEF Whole
<1>4. Whole(units) \in Int /\ units - Whole(units) = units % Scale
  BY <1>2 DEF Whole
<1> QED
  BY <1>2, <1>3, <1>4

\* A commission is taken off the records, and paid but for what is kept.
LEMMA CommissionTaken ==
  ASSUME IInv, Iterate("commission"), TakeCommission(Head(todo)),
         NEW coins \in Int, NEW kept \in Int,
         coins * Scale = Whole(commission[Head(todo)]) - kept,
         balance' = balance - coins, unpaid' = unpaid + kept
  PROVE  IInv'
<1> DEFINE v == Head(todo)
           c == commission[v]
<1>1. /\ pc = "commission" /\ todo # <<>> /\ todo' = Tail(todo) /\ pc' = pc
      /\ UNCHANGED <<allowList, staleHeight>> /\ UNCHANGED periodVars /\ UNCHANGED setVars
  BY DEF TakeCommission, Iterate
<1>2. UNCHANGED <<current, refs, start, slashes, jailed, power, last>>
  BY <1>1 DEF periodVars, setVars
<1>3. todo \in Seq(Validators) /\ v \in Validators /\ todo' \in Seq(Validators)
  BY <1>1, LoopSteps DEF IInv, Types
<1>4. /\ outstanding \in [Validators -> Int] /\ commission \in [Validators -> Nat]
      /\ pool \in Int /\ balance \in Int /\ unpaid \in Int
  BY DEF IInv, Types
<1> DEFINE units == Whole(c)
           change == 0
<1>5. /\ commission' = [commission EXCEPT ![v] = c - units]
      /\ outstanding' = [outstanding EXCEPT ![v] = outstanding[v] - units]
      /\ pool' = pool + change
  BY <1>4 DEF TakeCommission
<1>6. units \in Int /\ c - units \in Nat
  <2>1. c \in Int
    BY <1>3, <1>4
  <2> HIDE DEF c
  <2> QED
    BY <2>1, WholeUnits
<1>7. coins * Scale = units - change - kept /\ change \in Int
  <2>1. coins * Scale = units - kept
    OBVIOUS
  <2> HIDE DEF units
  <2> QED
    BY <1>6, <2>1
<1> HIDE DEF v, c, units, change
<1>8. HoldingsMatch'
  <2>1. Match(balance, pool, outstanding, unpaid)
    BY HoldingsAre DEF IInv
  <2>2. Match(balance - coins, pool + change,
              [outstanding EXCEPT ![v] = outstanding[v] - units], unpaid + kept)
    BY <1>3, <1>4, <1>6, <1>7, <2>1, PaysWholeCoins
  <2> QED
    BY <1>5, <2>2, HoldingsAre
<1>9. /\ outstanding' \in [Validators -> Int] /\ commission' \in [Validators -> Nat]
      /\ pool' \in Int /\ balance' \in Int /\ unpaid' \in Int
  <2>1. outstanding[v] - units \in Int
    BY <1>3, <1>4, <1>6
  <2>2. outstanding' \in [Validators -> Int] /\ commission' \in [Validators -> Nat]
    BY <1>3, <1>4, <1>5, <1>6, <2>1
  <2> QED
    BY <1>4, <1>5, <1>7, <2>2
<1>10. Types'
  BY <1>1, <1>2, <1>3, <1>9 DEF IInv, Types
<1> QED
  BY <1>1, <1>8, <1>10, PeriodsUnclaimed, MetUnclaimed DEF IInv

LEMMA CommissionKeepsIInv ==
  ASSUME IInv, WithdrawCommission \/ CommissionPaymentFails
  PROVE  IInv'
<1> DEFINE v == Head(todo)
           units == Whole(commission[v])
<1>1. Iterate("commission") /\ TakeCommission(v)
  BY DEF WithdrawCommission, CommissionPaymentFails
<1>2. commission[v] \in Int /\ balance \in Int /\ unpaid \in Int
  <2>1. pc = "commission" /\ todo # <<>>
    BY <1>1 DEF Iterate
  <2>2. v \in Validators
    BY <2>1, LoopSteps DEF IInv, Types
  <2> QED
    BY <2>2 DEF IInv, Types
<1>3. units \in Int /\ units \div Scale \in Int /\ (units \div Scale) * Scale = units
  <2> DEFINE c == commission[v]
  <2>1. c \in Int
    BY <1>2
  <2> HIDE DEF c
  <2>2. Whole(c) \in Int /\ Whole(c) \div Scale \in Int /\ (Whole(c) \div Scale) * Scale = Whole(c)
    BY <2>1, WholeUnits
  <2> QED
    BY <2>2 DEF c
<1>4. CASE WithdrawCommission
  <2>1. balance' = balance - units \div Scale /\ unpaid' = unpaid
    BY <1>4 DEF WithdrawCommission
  <2> DEFINE coins == units \div Scale
             owed == coins * Scale
  <2>2. coins \in Int /\ owed = units
    BY <1>3
  <2> HIDE DEF units, coins, owed
  <2>3. owed = units - 0 /\ unpaid' = unpaid + 0
    BY <1>2, <1>3, <2>1, <2>2
  <2>4. balance' = balance - coins /\ coins * Scale = units - 0
    BY <2>1, <2>3 DEF coins, owed
  <2> QED
    BY <1>1, <2>2, <2>3, <2>4, CommissionTaken DEF units
<1>5. CASE CommissionPaymentFails
  <2>1. balance' = balance /\ unpaid' = unpaid + units
    BY <1>5 DEF CommissionPaymentFails
  <2> HIDE DEF units
  <2>2. Scale \in Int
    BY ExportAssumption
  <2>3. 0 * Scale = units - units /\ balance' = balance - 0
    BY <1>2, <1>3, <2>1, <2>2
  <2> QED
    BY <1>1, <1>3, <2>1, <2>3, CommissionTaken DEF units
<1> QED
  BY <1>4, <1>5

LEMMA WithdrawRewardsKeepsIInv ==
  ASSUME IInv, WithdrawRewards
  PROVE  IInv'
<1> DEFINE d == Head(todo)
           v == d.val
           c == current[v]
<1>1. /\ pc = "rewards" /\ todo # <<>> /\ todo' = Tail(todo) /\ pc' = pc
      /\ UNCHANGED <<allowList, staleHeight>> /\ UNCHANGED setVars
      /\ UNCHANGED <<commission, unpaid, slashes>>
  BY DEF WithdrawRewards, Iterate
<1>2. UNCHANGED <<jailed, power, last>>
  BY <1>1 DEF setVars
<1>3. d \in Delegations /\ todo' \in Seq(Delegations)
  BY <1>1, LoopSteps DEF IInv, Types
<1>4. v \in Validators /\ Scale \in Nat \ {0}
  BY <1>3, ExportAssumption
<1>5. /\ outstanding \in [Validators -> Int] /\ commission \in [Validators -> Nat]
      /\ pool \in Int /\ balance \in Int /\ unpaid \in Int
      /\ current \in [Validators -> Int] /\ start \in [Delegations -> Int]
      /\ Functional(refs, Validators)
  BY DEF IInv, Types
<1>6. PICK units \in 0..outstanding[v] - commission[v] :
         /\ outstanding' = [outstanding EXCEPT ![v] = outstanding[v] - units]
         /\ pool' = pool + (units % Scale)
         /\ balance' = balance - Whole(units) \div Scale
  BY DEF WithdrawRewards
<1>7. /\ current' = [current EXCEPT ![v] = c + 1]
      /\ refs' = [refs EXCEPT ![v] =
                   JoinPeriod(Decrement(EndPeriod(refs[v], c), start[d]), c + 1)]
      /\ start' = [start EXCEPT ![d] = c]
  BY DEF WithdrawRewards
<1> HIDE DEF d, v, c
<1> DEFINE change == units % Scale
           coins == Whole(units) \div Scale
           kept == 0
<1>8. /\ units \in Int /\ change \in Int /\ coins \in Int
      /\ coins * Scale = units - change - kept /\ kept \in Int
  <2>1. outstanding[v] - commission[v] \in Int
    BY <1>4, <1>5
  <2>2. units \in Int
    BY <2>1
  <2>3. /\ Whole(units) \in Int /\ coins \in Int /\ coins * Scale = Whole(units)
        /\ units - Whole(units) = change /\ change \in Nat
    BY <2>2, WholeUnits
  <2>4. Whole(units) = units - change - kept
    <3> HIDE DEF change
    <3> QED
      BY <2>2, <2>3
  <2> QED
    BY <2>2, <2>3, <2>4
<1>9. /\ outstanding' = [outstanding EXCEPT ![v] = outstanding[v] - units]
      /\ pool' = pool + change /\ balance' = balance - coins
  BY <1>6
<1>10. unpaid' = unpaid + kept
  BY <1>1, <1>5
<1> HIDE DEF change, coins, kept
<1>11. Match(balance - coins, pool + change, [outstanding EXCEPT ![v] = outstanding[v] - units],
             unpaid + kept)
  <2>1. Match(balance, pool, outstanding, unpaid)
    BY HoldingsAre DEF IInv
  <2> QED
    BY <1>4, <1>5, <1>8, <2>1, PaysWholeCoins
<1>12. HoldingsMatch'
  BY <1>9, <1>10, <1>11, HoldingsAre
<1>13. outstanding' \in [Validators -> Int] /\ pool' \in Int /\ balance' \in Int
  BY <1>4, <1>5, <1>8, <1>9
<1>14. /\ current' \in [Validators -> Int] /\ start' \in [Delegations -> Int]
       /\ Functional(refs', Validators)
  <2>1. c \in Int
    BY <1>4, <1>5 DEF c
  <2>2. current' \in [Validators -> Int] /\ start' \in [Delegations -> Int]
    BY <1>3, <1>4, <1>5, <1>7, <2>1
  <2>3. Functional(refs', Validators)
    BY <1>5, <1>7 DEF Functional
  <2> QED
    BY <2>2, <2>3
<1>15. Types'
  BY <1>1, <1>2, <1>3, <1>13, <1>14 DEF IInv, Types
<1> QED
  BY <1>1, <1>12, <1>15, PeriodsUnclaimed, MetUnclaimed DEF IInv

LEMMA RewardsPaymentFailsKeepsIInv ==
  ASSUME IInv, RewardsPaymentFails
  PROVE  IInv'
<1> DEFINE v == Head(todo).val
           c == current[v]
<1>1. /\ pc = "rewards" /\ todo # <<>> /\ todo' = Tail(todo) /\ pc' = pc
      /\ UNCHANGED <<allowList, staleHeight>> /\ UNCHANGED setVars
      /\ UNCHANGED rewardVars /\ UNCHANGED <<start, slashes>>
  BY DEF RewardsPaymentFails, Iterate
<1>2. UNCHANGED <<outstanding, commission, pool, balance, unpaid, jailed, power, last>>
  BY <1>1 DEF rewardVars, setVars
<1>3. Head(todo) \in Delegations /\ todo' \in Seq(Delegations)
  BY <1>1, LoopSteps DEF IInv, Types
<1>4. v \in Validators
  BY <1>3, ExportAssumption
<1>5. /\ current' = [current EXCEPT ![v] = c + 1]
      /\ refs' = [refs EXCEPT ![v] = EndPeriod(refs[v], c)]
  BY DEF RewardsPaymentFails
<1>6. current \in [Validators -> Int] /\ Functional(refs, Validators)
  BY DEF IInv, Types
<1>7. current' \in [Validators -> Int]
  BY <1>4, <1>5, <1>6
<1>8. Functional(refs', Validators)
  BY <1>5, <1>6 DEF Functional
<1>9. Types'
  BY <1>1, <1>2, <1>3, <1>7, <1>8 DEF IInv, Types
<1> QED
  BY <1>1, <1>9, HoldingsStay, PeriodsUnclaimed, MetUnclaimed DEF IInv

LEMMA ClearHistoryKeepsIInv ==
  ASSUME IInv, ClearHistory
  PROVE  IInv'
<1>1. /\ pc = "clear" /\ pc' = "validators" /\ todo' = ByKey
      /\ slashes' = [v \in Validators |-> {}] /\ refs' = [v \in Validators |-> <<>>]
      /\ UNCHANGED <<current, start, allowList, staleHeight>>
      /\ UNCHANGED rewardVars /\ UNCHANGED setVars
  BY DEF ClearHistory
<1>2. UNCHANGED <<outstanding, commission, pool, balance, unpaid, jailed, power, last>>
  BY <1>1 DEF rewardVars, setVars
<1>3. Types'
  BY <1>1, <1>2, ByKeyIsAll DEF IInv, Types, Loops, Functional
<1>4. Periods'
  BY <1>1, ByKeyIsAll DEF Periods, SetUp
<1>5. Met'
  BY <1>1, MetUnclaimed
<1> QED
  BY <1>1, <1>3, <1>4, <1>5, HoldingsStay DEF IInv

LEMMA ReinitValidatorKeepsIInv ==
  ASSUME IInv, ReinitValidator
  PROVE  IInv'
<1> DEFINE v == Head(todo)
<1>1. /\ pc = "validators" /\ todo # <<>> /\ todo' = Tail(todo) /\ pc' = pc
      /\ UNCHANGED <<allowList, balance, unpaid, start, slashes, staleHeight>> /\ UNCHANGED setVars
  BY DEF ReinitValidator, Iterate
<1>2. UNCHANGED <<jailed, power, last>>
  BY <1>1 DEF setVars
<1>3. v \in Validators /\ todo' \in Seq(Validators) /\ Range(todo) = {v} \cup Range(todo')
  BY <1>1, LoopSteps DEF IInv, Types
<1>4. /\ outstanding \in [Validators -> Int] /\ commission \in [Validators -> Nat]
      /\ pool \in Int /\ balance \in Int /\ unpaid \in Int
      /\ current \in [Validators -> Int] /\ Functional(refs, Validators)
  BY DEF IInv, Types
<1>5. /\ pool' = pool + outstanding[v]
      /\ outstanding' = [outstanding EXCEPT ![v] = 0]
      /\ commission' = [commission EXCEPT ![v] = 0]
      /\ current' = [current EXCEPT ![v] = 1]
      /\ refs' = [refs EXCEPT ![v] = SetRefs(refs[v], 0, 1)]
  BY DEF ReinitValidator, Donate
<1> HIDE DEF v
<1>6. HoldingsMatch'
  <2>1. Match(balance, pool + outstanding[v], [outstanding EXCEPT ![v] = 0], unpaid)
    BY <1>3, <1>4, HoldingsAre, DonationMatches DEF IInv
  <2> QED
    BY <1>1, <1>5, <2>1, HoldingsAre
<1>7. /\ outstanding' \in [Validators -> Int] /\ commission' \in [Validators -> Nat]
      /\ pool' \in Int /\ current' \in [Validators -> Int] /\ Functional(refs', Validators)
  <2>1. Functional(refs', Validators)
    BY <1>4, <1>5 DEF Functional
  <2>2. outstanding' \in [Validators -> Int] /\ commission' \in [Validators -> Nat]
        /\ current' \in [Validators -> Int]
    BY <1>3, <1>4, <1>5
  <2>3. pool' \in Int
    BY <1>3, <1>4, <1>5
  <2> QED
    BY <2>1, <2>2, <2>3
<1>8. Types'
  BY <1>1, <1>2, <1>3, <1>7 DEF IInv, Types
<1>9. Periods'
  <2>1. refs'[v] = OnePeriod /\ current'[v] = 1
    <3>1. refs[v] \in {<<>>, OnePeriod}
      BY <1>1, <1>3 DEF IInv, Periods
    <3>2. SetRefs(<<>>, 0, 1) = OnePeriod
      BY DEF OnePeriod
    <3>3. SetRefs(OnePeriod, 0, 1) = OnePeriod
      BY DEF OnePeriod, SetRefs
    <3> QED
      BY <1>3, <1>4, <1>5, <3>1, <3>2, <3>3 DEF Functional
  <2>2. ASSUME NEW w \in Validators, w # v
        PROVE  refs'[w] = refs[w] /\ current'[w] = current[w]
    BY <1>4, <1>5, <2>2 DEF Functional
  <2>3. ASSUME NEW w \in Validators
        PROVE  /\ slashes[w] = {} /\ refs'[w] \in {<<>>, OnePeriod}
               /\ w \notin Range(todo') => refs'[w] = OnePeriod /\ current'[w] = 1
    BY <1>1, <1>3, <2>1, <2>2 DEF IInv, Periods
  <2>4. pc' \notin {"start", "exportedAtHeight"} \cup SetUp
    BY <1>1 DEF SetUp
  <2> QED
    BY <1>1, <2>3, <2>4 DEF Periods
<1>10. Met'
  BY <1>1, MetUnclaimed
<1> QED
  BY <1>6, <1>8, <1>9, <1>10 DEF IInv

LEMMA ReinitDelegationKeepsIInv ==
  ASSUME IInv, ReinitDelegation
  PROVE  IInv'
<1> DEFINE d == Head(todo)
           v == d.val
           c == current[v]
           D == Delegations \ Range(todo)
           E == Delegations \ Range(todo')
<1>1. /\ pc = "delegations" /\ todo # <<>> /\ todo' = Tail(todo) /\ pc' = pc
      /\ UNCHANGED <<allowList, slashes, staleHeight>>
      /\ UNCHANGED rewardVars /\ UNCHANGED setVars
  BY DEF ReinitDelegation, Iterate
<1>2. UNCHANGED <<outstanding, commission, pool, balance, unpaid, jailed, power, last>>
  BY <1>1 DEF rewardVars, setVars
<1>3. todo \in Seq(Delegations) /\ \A i, j \in DOMAIN todo : todo[i] = todo[j] => i = j
  BY <1>1 DEF IInv, Types, Periods
<1>4. /\ d \in Delegations /\ todo' \in Seq(Delegations)
      /\ Range(todo) = {d} \cup Range(todo')
  BY <1>1, <1>3, LoopSteps
<1>5. /\ \A i, j \in DOMAIN todo' : todo'[i] = todo'[j] => i = j
      /\ d \notin Range(todo')
  BY <1>1, <1>3, LoopStepsOnce
<1>6. E = D \cup {d} /\ d \notin D /\ D \subseteq Delegations
  BY <1>4, <1>5
<1>7. v \in Validators
  BY <1>4, ExportAssumption
<1>8. /\ current \in [Validators -> Int] /\ start \in [Delegations -> Int]
      /\ Functional(refs, Validators) /\ c \in Int
  BY <1>7 DEF IInv, Types
<1>9. /\ current' = [current EXCEPT ![v] = c + 1]
      /\ refs' = [refs EXCEPT ![v] = JoinPeriod(EndPeriod(refs[v], c), c + 1)]
      /\ start' = [start EXCEPT ![d] = c]
  BY DEF ReinitDelegation
<1>10. Pending = Range(todo) /\ Pending' = Range(todo') /\ pc \in SetUp
  BY <1>1 DEF Pending, SetUp
<1>11. /\ \A w \in Validators : slashes[w] = {}
       /\ \A x \in D : start[x] < current[x.val]
       /\ \A w \in Validators : Counted(refs[w], D, start, slashes[w], current[w] - 1, w)
  BY <1>10 DEF IInv, Periods
<1> HIDE DEF d, v, c, D, E
<1>12. c = current[v] /\ v = d.val
  BY DEF c, v
<1>13. HoldingsMatch'
  BY <1>1, HoldingsStay DEF IInv
<1>14. /\ current' \in [Validators -> Int] /\ start' \in [Delegations -> Int]
       /\ Functional(refs', Validators)
  <2>1. current' \in [Validators -> Int] /\ start' \in [Delegations -> Int]
    BY <1>4, <1>7, <1>8, <1>9
  <2>2. Functional(refs', Validators)
    BY <1>8, <1>9 DEF Functional
  <2> QED
    BY <2>1, <2>2
<1>15. Types'
  BY <1>1, <1>2, <1>4, <1>14 DEF IInv, Types
<1>16. /\ refs'[v] = JoinPeriod(EndPeriod(refs[v], c), c + 1)
       /\ current'[v] = c + 1 /\ start'[d] = c
       /\ \A w \in Validators \ {v} : refs'[w] = refs[w] /\ current'[w] = current[w]
       /\ \A x \in D : start'[x] = start[x]
  <2>1. refs'[v] = JoinPeriod(EndPeriod(refs[v], c), c + 1)
        /\ \A w \in Validators \ {v} : refs'[w] = refs[w]
    BY <1>7, <1>8, <1>9 DEF Functional
  <2>2. current'[v] = c + 1 /\ start'[d] = c
        /\ \A w \in Validators \ {v} : current'[w] = current[w]
    BY <1>4, <1>7, <1>8, <1>9
  <2>3. \A x \in D : start'[x] = start[x]
    BY <1>6, <1>8, <1>9
  <2> QED
    BY <2>1, <2>2, <2>3
<1>17. Counted(refs'[v], E, start', slashes[v], current'[v] - 1, v)
  <2>1. slashes[v] = {} /\ Counted(refs[v], D, start, {}, c - 1, v)
    <3>1. slashes[v] = {} /\ Counted(refs[v], D, start, slashes[v], current[v] - 1, v)
      BY <1>7, <1>11
    <3> QED
      BY <1>12, <3>1
  <2>2. \A x \in D : x.val = v => start[x] \in Int /\ start[x] < c
    BY <1>6, <1>8, <1>11, <1>12
  <2>3. Counted(JoinPeriod(EndPeriod(refs[v], c), c + 1), D \cup {d}, start', {}, c, v)
    BY <1>4, <1>6, <1>8, <1>12, <1>16, <2>1, <2>2, JoinIsCounted
  <2>4. current'[v] - 1 = c
    BY <1>8, <1>16
  <2> QED
    BY <1>6, <1>16, <2>1, <2>3, <2>4
<1>18. ASSUME NEW w \in Validators
       PROVE  Counted(refs'[w], E, start', slashes[w], current'[w] - 1, w)
  <2>1. CASE w = v
    BY <1>17, <2>1
  <2>2. CASE w # v
    <3>1. Counted(refs[w], D, start, slashes[w], current[w] - 1, w)
      BY <1>11
    <3>2. \A x \in D \cup E : x.val = w => (x \in D <=> x \in E) /\ start[x] = start'[x]
      BY <1>6, <1>12, <1>16, <2>2
    <3>3. Counted(refs[w], E, start', slashes[w], current[w] - 1, w)
      BY <3>1, <3>2, CountedSame
    <3> QED
      BY <1>16, <2>2, <3>3
  <2> QED
    BY <2>1, <2>2
<1>19. ASSUME NEW x \in E
       PROVE  start'[x] < current'[x.val]
  <2>1. CASE x = d
    BY <1>8, <1>12, <1>16, <2>1
  <2>2. CASE x # d
    <3>1. x \in D /\ x \in Delegations /\ x.val \in Validators
      BY <1>6, <2>2, ExportAssumption
    <3>2. start'[x] = start[x] /\ start[x] < current[x.val]
      BY <1>11, <1>16, <3>1
    <3>3. start[x] \in Int /\ current[x.val] \in Int
      BY <1>8, <3>1
    <3>4. current'[x.val] = IF x.val = v THEN current[v] + 1 ELSE current[x.val]
      BY <1>12, <1>16, <3>1
    <3> QED
      BY <3>2, <3>3, <3>4
  <2> QED
    BY <2>1, <2>2
<1>20. Periods'
  <2>1. pc' # "validators"
    BY <1>1
  <2>2. Delegations \ Pending' = E
    BY <1>10 DEF E
  <2> QED
    BY <1>1, <1>5, <1>11, <1>18, <1>19, <2>1, <2>2 DEF Periods
<1>21. Met'
  BY <1>1, MetUnclaimed
<1> QED
  BY <1>13, <1>15, <1>20, <1>21 DEF IInv

LEMMA ResetEntriesKeepsIInv ==
  ASSUME IInv, ResetEntries
  PROVE  IInv'
<1>1. /\ pc = "entries" /\ pc' = "jail" /\ todo' = Reverse(ByKey)
      /\ staleHeight' = staleHeight \ Entries
      /\ UNCHANGED allowList
      /\ UNCHANGED rewardVars /\ UNCHANGED periodVars /\ UNCHANGED setVars
  BY DEF ResetEntries
<1>2. UNCHANGED <<outstanding, commission, pool, balance, unpaid, current, refs, start, slashes,
                  jailed, power, last>>
  BY <1>1 DEF rewardVars, periodVars, setVars
<1>3. Types'
  BY <1>1, <1>2, ByKeyIsAll DEF IInv, Types, Loops
<1>4. Pending' = Pending /\ pc \in SetUp /\ pc' \in SetUp \ {"delegations"}
  BY <1>1 DEF Pending, SetUp
<1>5. Periods'
  BY <1>1, <1>4, PeriodsStay DEF IInv
<1>6. Met'
  <2>1. staleHeight' \subseteq SigningInfos \cup Unbondings
    BY <1>1 DEF IInv, Types
  <2>2. \A v \in Validators : v \in Range(todo')
    BY <1>1, ByKeyIsAll
  <2> QED
    BY <1>1, <2>1, <2>2 DEF Met
<1> QED
  BY <1>1, <1>3, <1>5, <1>6, HoldingsStay DEF IInv

LEMMA ResetValidatorKeepsIInv ==
  ASSUME IInv, ResetValidator
  PROVE  IInv'
<1> DEFINE v == Head(todo)
<1>1. /\ pc = "jail" /\ todo # <<>> /\ todo' = Tail(todo) /\ pc' = pc
      /\ staleHeight' = staleHeight \ {<<"validator", v>>}
      /\ jailed' = IF Jails(v) THEN jailed \cup {v} ELSE jailed
      /\ UNCHANGED <<allowList, power, last>>
      /\ UNCHANGED rewardVars /\ UNCHANGED periodVars
  BY DEF ResetValidator, Iterate
<1>2. UNCHANGED <<outstanding, commission, pool, balance, unpaid, current, refs, start, slashes>>
  BY <1>1 DEF rewardVars, periodVars
<1>3. v \in Validators /\ todo' \in Seq(Validators) /\ Range(todo) = {v} \cup Range(todo')
  BY <1>1, LoopSteps DEF IInv, Types
<1> HIDE DEF v
<1>4. Types'
  BY <1>1, <1>2, <1>3 DEF IInv, Types
<1>5. Pending' = Pending /\ pc \in SetUp /\ pc' \in SetUp \ {"delegations"}
  BY <1>1 DEF Pending, SetUp
<1>6. Periods'
  BY <1>1, <1>5, PeriodsStay DEF IInv
<1>7. Met'
  <2>1. /\ staleHeight \subseteq SigningInfos \cup Unbondings
        /\ \A w \in Validators : w \notin Range(todo) =>
              <<"validator", w>> \notin staleHeight /\ (Jails(w) => w \in jailed)
    BY <1>1 DEF IInv, Met
  <2>2. ASSUME NEW w \in Validators, w \notin Range(todo')
        PROVE  <<"validator", w>> \notin staleHeight' /\ (Jails(w) => w \in jailed')
    BY <1>1, <1>3, <2>1, <2>2
  <2>3. \A w : Jails(w)' = Jails(w)
    BY <1>1 DEF Jails
  <2>4. pc' = "jail" /\ staleHeight' \subseteq SigningInfos \cup Unbondings
    BY <1>1, <2>1
  <2> QED
    BY <2>2, <2>3, <2>4 DEF Met
<1> QED
  BY <1>1, <1>4, <1>6, <1>7, HoldingsStay DEF IInv

LEMMA CloseKeepsIInv ==
  ASSUME IInv, CloseIterator \/ CloseIteratorFails
  PROVE  IInv'
<1>1. /\ pc = "close" /\ pc' \in {"apply", "exportedUnfinished"}
      /\ UNCHANGED <<todo, allowList, staleHeight>>
      /\ UNCHANGED rewardVars /\ UNCHANGED periodVars /\ UNCHANGED setVars
  BY DEF CloseIterator, CloseIteratorFails
<1>2. UNCHANGED <<outstanding, commission, pool, balance, unpaid, current, refs, start, slashes,
                  jailed, power, last>>
  BY <1>1 DEF rewardVars, periodVars, setVars
<1>3. Types'
  BY <1>1, <1>2 DEF IInv, Types, Calls, Ends
<1>4. Pending' = Pending /\ pc \in SetUp /\ pc' \in SetUp \ {"delegations"}
  BY <1>1 DEF Pending, SetUp
<1>5. Periods'
  BY <1>1, <1>4, PeriodsStay DEF IInv
<1>6. Met'
  BY <1>1, <1>2 DEF IInv, Met, Jails
<1> QED
  BY <1>1, <1>3, <1>5, <1>6, HoldingsStay DEF IInv

LEMMA ApplyKeepsIInv ==
  ASSUME IInv, ApplyValidatorSetUpdates
  PROVE  IInv'
<1>1. /\ pc = "apply" /\ UNCHANGED <<todo, allowList, jailed, power, staleHeight>>
      /\ UNCHANGED rewardVars /\ UNCHANGED periodVars
  BY DEF ApplyValidatorSetUpdates
<1>2. UNCHANGED <<outstanding, commission, pool, balance, unpaid, current, refs, start, slashes>>
  BY <1>1 DEF rewardVars, periodVars
<1>3. \/ pc' = "panic"
      \/ pc' = "signing" /\ last' = Top(power) /\ Top(power) \cap jailed = {}
  BY DEF ApplyValidatorSetUpdates, Top
<1>4. Types'
  BY <1>1, <1>2, <1>3 DEF IInv, Types, Calls, Ends
<1>5. CASE pc' = "panic"
  BY <1>1, <1>4, <1>5, HoldingsStay, PeriodsUnclaimed, MetUnclaimed DEF IInv
<1>6. CASE pc' = "signing" /\ last' = Top(power) /\ Top(power) \cap jailed = {}
  <2>1. Pending' = Pending /\ pc \in SetUp /\ pc' \in SetUp \ {"delegations"}
    BY <1>1, <1>6 DEF Pending, SetUp
  <2>2. Periods'
    BY <1>1, <2>1, PeriodsStay DEF IInv
  <2>3. last' \cap jailed' = {} /\ last' \subseteq Validators
    BY <1>1, <1>6 DEF Top, Reached, IInv, Types
  <2>4. Met'
    BY <1>1, <1>6, <2>3 DEF IInv, Met, Jails
  <2> QED
    BY <1>1, <1>4, <2>2, <2>4, HoldingsStay DEF IInv
<1> QED
  BY <1>3, <1>5, <1>6

LEMMA ResetSigningInfosKeepsIInv ==
  ASSUME IInv, ResetSigningInfos
  PROVE  IInv'
<1>1. /\ pc = "signing" /\ pc' = "exported" /\ staleHeight' = staleHeight \ SigningInfos
      /\ UNCHANGED <<todo, allowList>>
      /\ UNCHANGED rewardVars /\ UNCHANGED periodVars /\ UNCHANGED setVars
  BY DEF ResetSigningInfos
<1>2. UNCHANGED <<outstanding, commission, pool, balance, unpaid, current, refs, start, slashes,
                  jailed, power, last>>
  BY <1>1 DEF rewardVars, periodVars, setVars
<1>3. Types'
  BY <1>1, <1>2 DEF IInv, Types, Ends
<1>4. Pending' = Pending /\ pc \in SetUp /\ pc' \in SetUp \ {"delegations"}
  BY <1>1 DEF Pending, SetUp
<1>5. Periods'
  BY <1>1, <1>4, PeriodsStay DEF IInv
<1>6. Met'
  <2>1. staleHeight \subseteq SigningInfos \cup Unbondings
        /\ \A v \in Validators : <<"validator", v>> \notin staleHeight
    BY <1>1 DEF IInv, Met
  <2>2. staleHeight' = {}
    BY <1>1, <2>1 DEF Unbondings
  <2>3. \A w : Jails(w)' = Jails(w)
    BY <1>1 DEF Jails
  <2> QED
    BY <1>1, <1>2, <2>1, <2>2, <2>3 DEF IInv, Met
<1> QED
  BY <1>1, <1>3, <1>5, <1>6, HoldingsStay DEF IInv

-----------------------------------------------------------------------------
(* The results.                                                             *)

LEMMA NextKeepsIInv == IInv /\ [Next]_vars => IInv'
<1> SUFFICES ASSUME IInv, [Next]_vars
             PROVE  IInv'
  OBVIOUS
<1>1. CASE ExportAtHeight \/ CheckAllowList
  BY <1>1, BeginKeepsIInv
<1>2. CASE LoopEnds
  BY <1>2, LoopEndsKeepsIInv
<1>3. CASE WithdrawalFails \/ WithdrawCommission \/ CommissionPaymentFails
  BY <1>3, WithdrawalFailsKeepsIInv, CommissionKeepsIInv
<1>4. CASE WithdrawRewards \/ RewardsPaymentFails
  BY <1>4, WithdrawRewardsKeepsIInv, RewardsPaymentFailsKeepsIInv
<1>5. CASE ClearHistory
  BY <1>5, ClearHistoryKeepsIInv
<1>6. CASE ReinitValidator
  BY <1>6, ReinitValidatorKeepsIInv
<1>7. CASE ReinitDelegation
  BY <1>7, ReinitDelegationKeepsIInv
<1>8. CASE ResetEntries
  BY <1>8, ResetEntriesKeepsIInv
<1>9. CASE ResetValidator
  BY <1>9, ResetValidatorKeepsIInv
<1>10. CASE CloseIterator \/ CloseIteratorFails
  BY <1>10, CloseKeepsIInv
<1>11. CASE ApplyValidatorSetUpdates
  BY <1>11, ApplyKeepsIInv
<1>12. CASE ResetSigningInfos
  BY <1>12, ResetSigningInfosKeepsIInv
<1>13. CASE UNCHANGED vars
  <2>1. /\ UNCHANGED <<pc, todo, allowList, staleHeight>>
        /\ UNCHANGED rewardVars /\ UNCHANGED periodVars /\ UNCHANGED setVars
    BY <1>13 DEF vars
  <2>2. UNCHANGED <<outstanding, commission, pool, balance, unpaid, current, refs, start, slashes,
                    jailed, power, last>>
    BY <2>1 DEF rewardVars, periodVars, setVars
  <2>3. Types'
    BY <2>1, <2>2 DEF IInv, Types
  <2>4. Periods'
    <3>1. Pending' = Pending
      BY <2>1 DEF Pending
    <3> QED
      BY <2>1, <2>2, <3>1 DEF IInv, Periods
  <2>5. Met'
    BY <2>1, <2>2 DEF IInv, Met, Jails
  <2> QED
    BY <2>1, <2>3, <2>4, <2>5, HoldingsStay DEF IInv
<1> QED
  BY <1>1, <1>2, <1>3, <1>4, <1>5, <1>6, <1>7, <1>8, <1>9, <1>10, <1>11, <1>12, <1>13 DEF Next

\* The invariant of an export holds in every state: the account matches its
\* records, each reference count is the number of its users, and a loop that has
\* ended has left what it is for.
THEOREM Invariance == Spec => []IInv
<1>1. Init => IInv
  BY InitIInv
<1>2. IInv /\ [Next]_vars => IInv'
  BY NextKeepsIInv
<1> QED
  BY <1>1, <1>2, PTL DEF Spec

\* The distribution account holds what is outstanding and pooled, and the
\* commissions whose payment failed, in every state of the export: withdrawals take
\* whole coins and put their change where the sum keeps it, a failed payment of
\* rewards takes nothing, and one of commission leaves the account what it took off
\* the records.
THEOREM HoldingsAlwaysMatch == Spec => []HoldingsMatch
<1>1. IInv => HoldingsMatch
  BY DEF IInv
<1> QED
  BY <1>1, Invariance, PTL

\* An exported state has each historical period with the references that its
\* delegations, slash events and last periods make, and no other period.
THEOREM NoDanglingPeriods == Spec => []ReferencesExact
<1>1. ASSUME IInv, Exported, NEW v \in Validators
      PROVE  refs[v] = [p \in {start[d] : d \in DelegationsTo(v)} \cup slashes[v]
                                \cup {current[v] - 1} |->
                          Cardinality({d \in DelegationsTo(v) : start[d] = p})
                            + (IF p \in slashes[v] THEN 1 ELSE 0)
                            + (IF p = current[v] - 1 THEN 1 ELSE 0)]
  <2> DEFINE U(p) == Uses(Delegations, start, slashes[v], current[v] - 1, v, p)
             S == {start[d] : d \in DelegationsTo(v)} \cup slashes[v] \cup {current[v] - 1}
  <2>1. /\ start \in [Delegations -> Int] /\ slashes[v] \subseteq Int
        /\ current[v] \in Int
    BY <1>1 DEF IInv, Types
  <2>2. \A p : Users(Delegations, start, v, p) = {d \in DelegationsTo(v) : start[d] = p}
    BY DEF Users, DelegationsTo
  <2>3. Counted(refs[v], Delegations, start, slashes[v], current[v] - 1, v)
    <3>1. pc \in {"start", "exportedAtHeight"} \cup SetUp /\ Delegations \ Pending = Delegations
      BY <1>1 DEF Exported, SetUp, Pending
    <3> QED
      BY <1>1, <3>1 DEF IInv, Periods
  <2>4. /\ refs[v] = [p \in DOMAIN refs[v] |-> refs[v][p]] /\ DOMAIN refs[v] \subseteq Int
        /\ \A p \in Int : (p \in DOMAIN refs[v] <=> U(p) > 0)
                           /\ (p \in DOMAIN refs[v] => refs[v][p] = U(p))
    BY <2>3 DEF Counted, Functional
  <2>5. S \subseteq Int
    BY <2>1 DEF DelegationsTo
  <2>6. ASSUME NEW p \in Int
        PROVE  U(p) > 0 <=> p \in S
    <3>1. /\ Cardinality(Users(Delegations, start, v, p)) \in Nat
          /\ Cardinality(Users(Delegations, start, v, p)) > 0
               <=> Users(Delegations, start, v, p) # {}
      BY UsersAreFinite
    <3>2. Users(Delegations, start, v, p) # {}
            <=> p \in {start[d] : d \in DelegationsTo(v)}
      BY <2>2
    <3>3. U(p) > 0 <=> \/ Cardinality(Users(Delegations, start, v, p)) > 0
                       \/ p \in slashes[v] \/ p = current[v] - 1
      BY <3>1 DEF Uses
    <3> HIDE DEF U
    <3> QED
      BY <3>1, <3>2, <3>3
  <2> HIDE DEF U, S
  <2>7. DOMAIN refs[v] = S
    BY <2>4, <2>5, <2>6
  <2>8. refs[v] = [p \in S |-> U(p)]
    BY <2>4, <2>5, <2>7
  <2>9. \A p \in S : U(p) = Cardinality({d \in DelegationsTo(v) : start[d] = p})
                             + (IF p \in slashes[v] THEN 1 ELSE 0)
                             + (IF p = current[v] - 1 THEN 1 ELSE 0)
    BY <2>2, Zenon DEF U, Uses
  <2>10. refs[v] = [p \in S |-> Cardinality({d \in DelegationsTo(v) : start[d] = p})
                                  + (IF p \in slashes[v] THEN 1 ELSE 0)
                                  + (IF p = current[v] - 1 THEN 1 ELSE 0)]
    BY <2>8, <2>9, Zenon
  <2> QED
    BY <2>10, Zenon DEF S
<1>2. IInv => ReferencesExact
  BY <1>1 DEF ReferencesExact
<1> QED
  BY <1>2, Invariance, PTL

\* A finished zero-height export holds no height of the old chain.
THEOREM HeightsAreReset == Spec => []NoOldHeights
<1>1. IInv => NoOldHeights
  BY DEF IInv, Met, Periods, SetUp, NoOldHeights
<1> QED
  BY <1>1, Invariance, PTL

\* The validator set of a finished export is in the allow list and not jailed.
THEOREM AllowListHolds == Spec => []OnlyAllowedValidate
<1>1. IInv => OnlyAllowedValidate
  BY DEF IInv, Met, Jails, OnlyAllowedValidate
<1> QED
  BY <1>1, Invariance, PTL
-----------------------------------------------------------------------------
(* The validator set: nothing but the jailing loop jails, the power index and *)
(* so what the update looks at stay as they were.                           *)

SameSet ==
    /\ last = Top(power)
    /\ power \subseteq Validators
    /\ \A v \in jailed \cap power : Jails(v)
    /\ pc = "panic" => NoAddress \in allowList \/ Reached(power) \cap jailed # {}

LEMMA SetStays ==
  ASSUME SameSet, UNCHANGED <<setVars, allowList>>, pc' # "panic"
  PROVE  SameSet'
BY DEF SameSet, setVars, Jails, Top, Reached, Stronger

LEMMA NextKeepsSameSet == SameSet /\ [Next]_vars => SameSet'
<1> SUFFICES ASSUME SameSet, [Next]_vars
             PROVE  SameSet'
  OBVIOUS
<1>1. CASE CheckAllowList
  <2>1. UNCHANGED <<setVars, allowList>>
    BY <1>1 DEF CheckAllowList
  <2>2. pc' = "panic" => NoAddress \in allowList
    BY <1>1 DEF CheckAllowList
  <2> QED
    BY <2>1, <2>2 DEF SameSet, setVars, Jails, Top, Reached, Stronger
<1>2. CASE ResetValidator
  <2> DEFINE v == Head(todo)
  <2>1. /\ pc' = "jail" /\ UNCHANGED <<allowList, power, last>>
        /\ jailed' = IF Jails(v) THEN jailed \cup {v} ELSE jailed
    BY <1>2 DEF ResetValidator, Iterate
  <2>2. \A w : Jails(w)' = Jails(w)
    BY <2>1 DEF Jails
  <2> HIDE DEF v
  <2>3. \A w \in jailed' : w \in jailed \/ Jails(w)
    BY <2>1
  <2> QED
    BY <2>1, <2>2, <2>3 DEF SameSet, Top, Reached, Stronger
<1>3. CASE ApplyValidatorSetUpdates
  <2>1. /\ UNCHANGED <<allowList, jailed, power>>
        /\ \/ pc' = "panic" /\ Reached(power) \cap jailed # {} /\ last' = last
           \/ pc' = "signing" /\ last' = Top(power)
    BY <1>3 DEF ApplyValidatorSetUpdates
  <2> QED
    BY <2>1 DEF SameSet, Jails, Top, Reached, Stronger
<1>4. CASE LoopEnds
  <2>1. UNCHANGED <<setVars, allowList>> /\ pc' # "panic"
    BY <1>4 DEF LoopEnds
  <2> QED
    BY <2>1, SetStays
<1>5. CASE \/ WithdrawalFails \/ WithdrawCommission \/ CommissionPaymentFails
           \/ WithdrawRewards \/ RewardsPaymentFails \/ ReinitValidator \/ ReinitDelegation
  <2>1. UNCHANGED <<setVars, allowList>>
        /\ pc' \in {"commission", "rewards", "validators", "delegations"}
    BY <1>5 DEF WithdrawalFails, WithdrawCommission, CommissionPaymentFails, TakeCommission,
                WithdrawRewards, RewardsPaymentFails, ReinitValidator, ReinitDelegation, Iterate
  <2> QED
    BY <2>1, SetStays
<1>6. CASE \/ ExportAtHeight \/ ClearHistory \/ ResetEntries \/ CloseIterator
           \/ CloseIteratorFails \/ ResetSigningInfos
  <2>1. UNCHANGED <<setVars, allowList>> /\ pc' # "panic"
    BY <1>6 DEF ExportAtHeight, ClearHistory, ResetEntries, CloseIterator, CloseIteratorFails,
                ResetSigningInfos
  <2> QED
    BY <2>1, SetStays
<1>7. CASE UNCHANGED vars
  BY <1>7 DEF SameSet, vars, setVars, Jails, Top, Reached, Stronger
<1> QED
  BY <1>1, <1>2, <1>3, <1>4, <1>5, <1>6, <1>7 DEF Next

LEMMA PowersAreNumbers == \A v : VotingPower(v) \in Nat
<1> TAKE v
<1>1. IsFiniteSet(DelegationsTo(v) \ Dust)
  BY ExportAssumption, FS_Subset DEF DelegationsTo
<1> QED
  BY <1>1, FS_CardinalityType DEF VotingPower

LEMMA StrongerIsTransitive ==
  ASSUME NEW u \in Validators, NEW v \in Validators, NEW w \in Validators,
         Stronger(u, v), Stronger(v, w)
  PROVE  Stronger(u, w)
<1> DEFINE p == VotingPower(u)
           q == VotingPower(v)
           r == VotingPower(w)
<1>1. p \in Nat /\ q \in Nat /\ r \in Nat
  BY PowersAreNumbers
<1>2. u \in Int /\ v \in Int /\ w \in Int
  BY ExportAssumption DEF Validators
<1>3. (p > q \/ (p = q /\ u < v)) /\ (q > r \/ (q = r /\ v < w))
  BY DEF Stronger
<1> HIDE DEF p, q, r
<1>4. p > r \/ (p = r /\ u < w)
  BY <1>1, <1>2, <1>3
<1> QED
  BY <1>4 DEF Stronger, p, r

\* What is looked at is bonded, or it is the first that is not, and there are
\* fewer than MaxValidators before it.
LEMMA ReachedIsTopOrNext ==
  ASSUME NEW index, index \subseteq Validators, NEW v \in Reached(index), v \notin Top(index)
  PROVE  /\ Cardinality(Top(index)) < MaxValidators
         /\ \A w \in index \ Top(index) : ~Stronger(w, v)
<1> DEFINE before(x) == {w \in index : Stronger(w, x)}
<1>1. IsFiniteSet(index)
  BY ValidatorsAreFinite, FS_Subset
<1>2. \A x : IsFiniteSet(before(x)) /\ Cardinality(before(x)) \in Nat
  BY <1>1, FS_Subset, FS_CardinalityType
<1>3. MaxValidators \in Nat
  BY ExportAssumption
<1>4. /\ v \in index /\ v \in Validators /\ Cardinality(before(v)) < MaxValidators
      /\ \A w \in before(v) : VotingPower(w) > 0
  BY DEF Reached
<1>5. VotingPower(v) = 0
  <2>1. ~(VotingPower(v) > 0)
    BY DEF Top
  <2> QED
    BY <2>1, PowersAreNumbers
<1>6. Top(index) \subseteq before(v)
  <2> SUFFICES ASSUME NEW w \in Top(index)
               PROVE  w \in index /\ Stronger(w, v)
    OBVIOUS
  <2>1. w \in index /\ VotingPower(w) > 0
    BY DEF Top, Reached
  <2> QED
    BY <1>5, <2>1 DEF Stronger
<1>7. Cardinality(Top(index)) < MaxValidators
  <2> DEFINE n == Cardinality(Top(index))
             m == Cardinality(before(v))
  <2>1. n <= m /\ n \in Nat /\ m \in Nat /\ m < MaxValidators
    <3> HIDE DEF before
    <3> QED
      BY <1>2, <1>4, <1>6, FS_Subset, FS_CardinalityType
  <2> HIDE DEF n, m
  <2>2. n < MaxValidators
    BY <1>3, <2>1
  <2> QED
    BY <2>2 DEF n
<1>8. ASSUME NEW w \in index, Stronger(w, v)
      PROVE  w \in Top(index)
  <2>1. w \in Validators /\ VotingPower(w) > 0
    BY <1>4, <1>8
  <2>2. before(w) \subseteq before(v)
    BY <1>4, <1>8, <2>1, StrongerIsTransitive
  <2>3. Cardinality(before(w)) < MaxValidators
    <3> DEFINE n == Cardinality(before(w))
               m == Cardinality(before(v))
    <3>1. n <= m /\ n \in Nat /\ m \in Nat /\ m < MaxValidators
      <4> HIDE DEF before
      <4> QED
        BY <1>2, <1>4, <2>2, FS_Subset
    <3> HIDE DEF n, m
    <3>2. n < MaxValidators
      BY <1>3, <3>1
    <3> QED
      BY <3>2 DEF n
  <2>4. \A x \in index : Stronger(x, w) => VotingPower(x) > 0
    BY <1>4, <2>2
  <2> QED
    BY <1>8, <2>1, <2>3, <2>4 DEF Top, Reached
<1> QED
  BY <1>7, <1>8

\* An export panics only for an address that does not decode or a list that leaves
\* out a validator that signs or, when there is room in the set, the next in the
\* power index: with no list, or one that has these, it ends.
THEOREM OnlyListsPanic == Spec => []PanicsOnlyIfLeftOut
<1>1. Init => SameSet
  BY DEF Init, SameSet
<1>2. SameSet => PanicsOnlyIfLeftOut
  <2> SUFFICES ASSUME SameSet, pc = "panic", NoAddress \notin allowList
               PROVE  /\ allowList # {}
                      /\ \E v \in power \ allowList :
                            \/ v \in last
                            \/ /\ Cardinality(last) < MaxValidators
                               /\ \A w \in power \ last : ~Stronger(w, v)
    BY Zenon DEF PanicsOnlyIfLeftOut
  <2>1. PICK v \in Reached(power) : v \in jailed
    BY DEF SameSet
  <2>2. v \in power /\ last = Top(power) /\ power \subseteq Validators
    BY <2>1 DEF SameSet, Reached
  <2>3. allowList # {} /\ v \notin allowList
    BY <2>1, <2>2 DEF SameSet, Jails
  <2>4. CASE v \in Top(power)
    BY <2>2, <2>3, <2>4, Zenon
  <2>5. CASE v \notin Top(power)
    <3>1. /\ Cardinality(Top(power)) < MaxValidators
          /\ \A w \in power \ Top(power) : ~Stronger(w, v)
      BY <2>1, <2>2, <2>5, ReachedIsTopOrNext
    <3> QED
      BY <2>2, <2>3, <3>1, Zenon
  <2> QED
    BY <2>4, <2>5
<1> QED
  BY <1>1, <1>2, NextKeepsSameSet, PTL DEF Spec
=============================================================================
