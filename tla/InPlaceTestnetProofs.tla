------------------------- MODULE InPlaceTestnetProofs -------------------------
(***************************************************************************)
(* Proofs, for every mainnet, new operator, funding list and amount, of    *)
(* the safety properties of InPlaceTestnet.                                *)
(***************************************************************************)
EXTENDS InPlaceTestnet, SequenceTheorems, FiniteSetTheorems, TLAPS

-----------------------------------------------------------------------------
(* The list of accounts, counted by position.                               *)

\* The first k entries of the list that are account a.
ListedIn(k, a) == {i \in 1..k : accountsToFund[i] = a}

Times(k, a) == Cardinality(ListedIn(k, a))

LEMMA TimesIsNat ==
    ASSUME NEW k \in Int, NEW a
    PROVE  IsFiniteSet(ListedIn(k, a)) /\ Times(k, a) \in Nat
<1>1. IsFiniteSet(1..k) /\ ListedIn(k, a) \subseteq 1..k
  BY FS_Interval DEF ListedIn
<1>2. IsFiniteSet(ListedIn(k, a))
  BY <1>1, FS_Subset
<1> QED
  BY <1>2, FS_CardinalityType DEF Times

LEMMA TimesOfNone == \A a : Times(0, a) = 0
<1> SUFFICES ASSUME NEW a
             PROVE  Times(0, a) = 0
  OBVIOUS
<1>1. ListedIn(0, a) = {}
  BY DEF ListedIn
<1> QED
  BY <1>1, FS_EmptySet DEF Times

\* One more entry counts for the account it names and for no other.
LEMMA TimesOfNext ==
    ASSUME NEW k \in Nat, NEW a
    PROVE  Times(k + 1, a) = IF accountsToFund[k + 1] = a THEN Times(k, a) + 1 ELSE Times(k, a)
<1>1. IsFiniteSet(ListedIn(k, a)) /\ k + 1 \notin ListedIn(k, a)
  BY TimesIsNat DEF ListedIn
<1>2. CASE accountsToFund[k + 1] = a
  <2>1. ListedIn(k + 1, a) = ListedIn(k, a) \cup {k + 1}
    BY <1>2 DEF ListedIn
  <2> QED
    BY <1>1, <1>2, <2>1, FS_AddElement DEF Times
<1>3. CASE accountsToFund[k + 1] # a
  <2>1. ListedIn(k + 1, a) = ListedIn(k, a)
    BY <1>3 DEF ListedIn
  <2> QED
    BY <1>3, <2>1 DEF Times
<1> QED
  BY <1>2, <1>3

-----------------------------------------------------------------------------
(* The inductive invariant.                                                 *)

\* What a list may hold, the empty text of an empty flag included.
Entries == STRING \cup {""}

Starting  == {"args", "power", "last", "validators", "set", "distribution"}
Replaced  == {"distribution", "fund", "started"}
Steps     == Starting \cup Replaced \cup {"panic", "exit", "badAccount", "running"}

\* Entries of the list whose account has its coins.
Paid == Len(accountsToFund) - Len(toFund)

Types ==
    /\ pc \in Steps
    /\ accountsToFund \in Seq(Entries)
    /\ toFund \in Seq(Entries)
    /\ funded \in [Accounts -> Nat]
    /\ mintAccount \in Nat
    /\ supply \in Nat

\* What is left of the mainnet's validators, step by step, and what replaces them.
Replacing ==
    /\ pc \in {"last", "validators", "set"} => power = {}
    /\ pc \in {"validators", "set"} => lastPower = <<>>
    /\ pc \in Replaced =>
          /\ validators = [v \in {newVal} |-> "bonded"]
          /\ power = {newVal}
          /\ lastPower = [v \in {newVal} |-> 0]
    /\ pc = "running" => /\ updates = [v \in {newVal} |-> valVotingPower]
                         /\ lastPower = updates

\* Before the loop nobody has been funded; in it, the entries up to Paid have.
Funding ==
    /\ pc \in Starting => funded = [a \in Accounts |-> 0] /\ mintAccount = 0
    /\ pc \in {"fund", "started", "running"} =>
          /\ mintAccount = 0
          /\ Len(toFund) <= Len(accountsToFund)
          /\ \A i \in 1..Len(toFund) : toFund[i] = accountsToFund[Paid + i]
          /\ \A a \in Accounts : funded[a] = FundAmount * Times(Paid, a)
    /\ pc \in {"started", "running"} => toFund = <<>>

\* What the loop has minted is all the supply can be above the cap.
Minted ==
    /\ pc \in Starting => supply <= MintHardCapAmount
    /\ pc \in {"fund", "started", "running"} => supply <= MintHardCapAmount + FundAmount * Paid

IInv == Types /\ Replacing /\ Funding /\ Minted

-----------------------------------------------------------------------------
(* The invariant is inductive.                                              *)

LEMMA InitInv == Init => IInv
<1> SUFFICES ASSUME Init
             PROVE  IInv
  OBVIOUS
<1>1. pc = "args"
  BY DEF Init
<1>2. accountsToFund \in Seq(Entries)
  <2>1. PICK flag \in FundFlags : accountsToFund = Split(flag)
    BY DEF Init
  <2>2. flag \in Seq(Entries)
    <3>1. flag \in Seq(STRING)
      BY TestnetAssumption, Zenon
    <3>2. STRING \subseteq Entries
      BY DEF Entries
    <3> QED
      BY <3>1, <3>2, SeqMonotonic
  <2>3. <<"">> \in Seq(Entries)
    BY DEF Entries
  <2> QED
    BY <2>1, <2>2, <2>3 DEF Split
<1>3. toFund \in Seq(Entries)
  BY EmptySeq DEF Init
<1>4. supply \in Nat /\ supply <= MintHardCapAmount /\ mintAccount = 0
  <2>1. supply \in 0..MintHardCapAmount
    BY TestnetAssumption, Zenon DEF Init
  <2>2. MintHardCapAmount \in Nat
    BY TestnetAssumption, Zenon
  <2>3. mintAccount = 0
    BY DEF Init
  <2> QED
    BY <2>1, <2>2, <2>3
<1>5. funded = [a \in Accounts |-> 0]
  BY DEF Init
<1>6. Types
  <2>1. funded \in [Accounts -> Nat]
    BY <1>5
  <2> QED
    BY <1>1, <1>2, <1>3, <1>4, <2>1 DEF Types, Steps, Starting
<1>7. Replacing
  BY <1>1 DEF Replacing, Replaced
<1>8. Funding /\ Minted
  BY <1>1, <1>4, <1>5 DEF Funding, Minted, Starting
<1> QED
  BY <1>6, <1>7, <1>8 DEF IInv

LEMMA FundAccountInv == IInv /\ FundAccount => IInv'
<1> SUFFICES ASSUME IInv, FundAccount
             PROVE  IInv'
  OBVIOUS
<1> DEFINE account == Head(toFund)
           n == Len(accountsToFund)
<1>1. /\ pc = "fund" /\ toFund # <<>> /\ supply' = supply + FundAmount
      /\ newVal' = newVal /\ accountsToFund' = accountsToFund
      /\ UNCHANGED <<validators, power, lastPower, updates>>
  BY DEF FundAccount, args, stakingVars
<1>2. /\ Types /\ mintAccount = 0
      /\ Len(toFund) <= n
      /\ \A i \in 1..Len(toFund) : toFund[i] = accountsToFund[Paid + i]
      /\ \A a \in Accounts : funded[a] = FundAmount * Times(Paid, a)
      /\ supply <= MintHardCapAmount + FundAmount * Paid
  BY <1>1 DEF IInv, Funding, Minted
<1>3. /\ n \in Nat /\ Len(toFund) \in Nat \ {0}
      /\ supply \in Nat /\ MintHardCapAmount \in Nat /\ FundAmount \in Nat
  BY <1>1, <1>2, LenProperties, EmptySeq, TestnetAssumption DEF Types
<1>4. Paid \in Nat /\ supply' \in Nat
  BY <1>1, <1>2, <1>3 DEF Paid
<1>5. CASE account \in Accounts
  <2>1. /\ pc' = pc /\ mintAccount' = mintAccount /\ toFund' = Tail(toFund)
        /\ funded' = [funded EXCEPT ![account] = @ + FundAmount]
    BY <1>5 DEF FundAccount
  <2>2. /\ toFund' \in Seq(Entries) /\ Len(toFund') = Len(toFund) - 1
        /\ \A i \in 1..Len(toFund) - 1 : toFund'[i] = toFund[i + 1]
    BY <1>1, <1>2, <2>1, HeadTailProperties DEF Types
  <2>3. account = accountsToFund[Paid + 1]
    <3>1. 1 \in 1..Len(toFund)
      BY <1>3
    <3>2. account = toFund[1]
      BY <1>1, <1>2 DEF Types
    <3> QED
      BY <1>2, <3>1, <3>2
  <2>4. Paid' = Paid + 1
    BY <1>1, <1>3, <2>2 DEF Paid
  <2>5. /\ Len(toFund') <= Len(accountsToFund')
        /\ \A i \in 1..Len(toFund') : toFund'[i] = accountsToFund'[Paid' + i]
    <3>1. ASSUME NEW i \in 1..Len(toFund) - 1
          PROVE  toFund'[i] = accountsToFund[Paid + 1 + i]
      <4>1. i + 1 \in 1..Len(toFund) /\ Paid + (i + 1) = Paid + 1 + i
        BY <1>3, <1>4
      <4> QED
        BY <1>2, <2>2, <4>1
    <3> QED
      BY <1>1, <1>2, <1>3, <2>2, <2>4, <3>1
  <2>6. ASSUME NEW a \in Accounts
        PROVE  funded'[a] = FundAmount * Times(Paid, a)'
    <3>1. Times(Paid, a) \in Nat
      BY <1>4, TimesIsNat
    <3>2. Times(Paid, a)' = IF account = a THEN Times(Paid, a) + 1 ELSE Times(Paid, a)
      <4>1. Times(Paid, a)' = Times(Paid + 1, a)
        BY <1>1, <2>4 DEF Times, ListedIn
      <4> QED
        BY <1>4, <2>3, <4>1, TimesOfNext
    <3>3. funded'[a] = IF account = a THEN funded[a] + FundAmount ELSE funded[a]
      BY <1>2, <2>1 DEF Types
    <3>4. funded[a] = FundAmount * Times(Paid, a)
      BY <1>2
    <3>5. FundAmount * (Times(Paid, a) + 1) = FundAmount * Times(Paid, a) + FundAmount
      BY <1>3, <3>1
    <3> QED
      BY <3>2, <3>3, <3>4, <3>5
  <2>7. funded' \in [Accounts -> Nat]
    BY <1>2, <1>3, <1>5, <2>1 DEF Types
  <2>8. Types'
    BY <1>1, <1>2, <1>4, <2>1, <2>2, <2>7 DEF Types
  <2>9. Replacing'
    BY <1>1, <2>1 DEF IInv, Replacing, Replaced
  <2>10. Funding'
    BY <1>1, <1>2, <2>1, <2>5, <2>6 DEF Funding, Starting
  <2>11. Minted'
    <3>1. FundAmount * (Paid + 1) = FundAmount * Paid + FundAmount /\ FundAmount * Paid \in Int
      BY <1>3, <1>4
    <3>2. supply' <= MintHardCapAmount + FundAmount * Paid'
      BY <1>1, <1>2, <1>3, <2>4, <3>1
    <3> QED
      BY <1>1, <2>1, <3>2 DEF Minted, Starting
  <2> QED
    BY <2>8, <2>9, <2>10, <2>11 DEF IInv
<1>6. CASE account \notin Accounts
  <2>1. /\ pc' = "badAccount" /\ mintAccount' = mintAccount + FundAmount
        /\ toFund' = toFund /\ funded' = funded
    BY <1>6 DEF FundAccount, bankVars
  <2>2. Types'
    BY <1>1, <1>2, <1>3, <1>4, <2>1 DEF Types, Steps
  <2> QED
    BY <2>1, <2>2 DEF IInv, Replacing, Replaced, Funding, Minted, Starting
<1> QED
  BY <1>5, <1>6

\* The first end blocker finds the new validator in both stores and no other.
LEMMA FirstEndBlockInv == IInv /\ FirstEndBlock => IInv'
<1> SUFFICES ASSUME IInv, FirstEndBlock
             PROVE  IInv'
  OBVIOUS
<1>1. /\ pc = "started"
      /\ UNCHANGED <<newVal, accountsToFund, toFund, supply, mintAccount, funded>>
  BY DEF FirstEndBlock, args, bankVars
<1>2. /\ validators = [v \in {newVal} |-> "bonded"]
      /\ power = {newVal}
      /\ lastPower = [v \in {newVal} |-> 0]
  BY <1>1 DEF IInv, Replacing, Replaced
<1>3. power \cup DOMAIN lastPower \subseteq DOMAIN validators
  BY <1>2
<1>4. /\ pc' = "running"
      /\ updates' =
          [v \in {w \in power : w \notin DOMAIN lastPower \/ lastPower[w] # PowerOf(w)}
                   \cup (DOMAIN lastPower \ power) |->
              IF v \in power THEN PowerOf(v) ELSE 0]
      /\ lastPower' = [v \in power |-> PowerOf(v)]
  BY <1>3 DEF FirstEndBlock
<1>5. PowerOf(newVal) = valVotingPower /\ valVotingPower # 0
  BY DEF PowerOf, valVotingPower
<1>6. {w \in power : w \notin DOMAIN lastPower \/ lastPower[w] # PowerOf(w)}
         \cup (DOMAIN lastPower \ power) = {newVal}
  BY <1>2, <1>5
<1>7. updates' = [v \in {newVal} |-> valVotingPower]
  BY <1>2, <1>4, <1>5, <1>6
<1>8. lastPower' = [v \in {newVal} |-> valVotingPower]
  BY <1>2, <1>4, <1>5
<1>9. Types'
  BY <1>1, <1>4 DEF IInv, Types, Steps
<1>10. Replacing'
  BY <1>1, <1>4, <1>7, <1>8 DEF Replacing, Replaced
<1>11. Funding' /\ Minted'
  BY <1>1, <1>4 DEF IInv, Funding, Minted, Starting, Paid, Times, ListedIn
<1> QED
  BY <1>9, <1>10, <1>11 DEF IInv

\* The steps that fund nobody: a step towards the loop, into it, out of it or out
\* of the command.
LEMMA OtherStepsInv ==
    ASSUME IInv, pc' \in Steps, Replacing',
           accountsToFund' = accountsToFund, supply' = supply,
           mintAccount' = mintAccount, funded' = funded,
           \/ pc' \in {"panic", "exit"} /\ toFund' = toFund
           \/ pc \in Starting /\ pc' \in Starting /\ toFund' \in Seq(Entries)
           \/ pc = "distribution" /\ pc' = "fund" /\ toFund' = accountsToFund
           \/ pc = "fund" /\ toFund = <<>> /\ pc' = "started" /\ toFund' = toFund
    PROVE  IInv'
<1>1. Types /\ Len(accountsToFund) \in Nat
  BY LenProperties DEF IInv, Types
<1>7. FundAmount \in Nat /\ MintHardCapAmount \in Nat /\ FundAmount * 0 = 0
  <2>1. FundAmount \in Nat /\ MintHardCapAmount \in Nat
    BY TestnetAssumption, Zenon
  <2> QED
    BY <2>1
<1>2. Types'
  BY <1>1 DEF Types
<1>3. CASE pc' \in {"panic", "exit"}
  BY <1>2, <1>3 DEF IInv, Funding, Minted, Starting
<1>4. CASE pc \in Starting /\ pc' \in Starting
  BY <1>2, <1>4 DEF IInv, Funding, Minted, Starting
<1>5. CASE pc = "distribution" /\ pc' = "fund" /\ toFund' = accountsToFund
  <2>1. Len(toFund') = Len(accountsToFund') /\ Paid' = 0
    BY <1>1, <1>5 DEF Paid
  <2>2. funded = [a \in Accounts |-> 0] /\ mintAccount = 0 /\ supply <= MintHardCapAmount
    BY <1>5 DEF IInv, Funding, Minted, Starting
  <2>3. \A i \in 1..Len(toFund') : toFund'[i] = accountsToFund'[Paid' + i]
    BY <1>1, <1>5, <2>1
  <2>4. ASSUME NEW a \in Accounts
        PROVE  funded'[a] = FundAmount * Times(Paid, a)'
    <3>1. Times(Paid, a)' = 0
      <4>1. Times(Paid, a)' = Times(0, a)
        BY <2>1 DEF Times, ListedIn
      <4> QED
        BY <4>1, TimesOfNone
    <3> QED
      BY <1>7, <2>2, <3>1
  <2>5. Funding'
    BY <1>1, <1>5, <2>1, <2>2, <2>3, <2>4 DEF Funding, Starting
  <2>6. Minted'
    BY <1>1, <1>5, <1>7, <2>1, <2>2 DEF Minted, Starting, Types
  <2> QED
    BY <1>2, <2>5, <2>6 DEF IInv
<1>6. CASE pc = "fund" /\ toFund = <<>> /\ pc' = "started" /\ toFund' = toFund
  <2>1. Paid' = Paid /\ \A a : Times(Paid, a)' = Times(Paid, a)
    BY <1>6 DEF Paid, Times, ListedIn
  <2> QED
    BY <1>2, <1>6, <2>1 DEF IInv, Funding, Minted, Starting
<1> QED
  BY <1>3, <1>4, <1>5, <1>6

LEMMA NextInv == IInv /\ [Next]_vars => IInv'
<1> SUFFICES ASSUME IInv, [Next]_vars
             PROVE  IInv'
  OBVIOUS
<1> USE DEF args, stakingVars, bankVars
<1>1. Types /\ Replacing
  BY DEF IInv
<1>2. CASE GetCommandArgs
  <2>1. Replacing'
    BY <1>2 DEF GetCommandArgs, Replacing, Replaced
  <2> QED
    BY <1>1, <1>2, <2>1, OtherStepsInv DEF GetCommandArgs, Steps, Starting, Types
<1>3. CASE HandleErr
  <2>1. Replacing'
    BY <1>3 DEF HandleErr, Replacing, Replaced
  <2> QED
    BY <1>3, <2>1, OtherStepsInv DEF HandleErr, Steps
<1>4. CASE ClearPowerStore
  <2>1. Replacing'
    BY <1>4 DEF ClearPowerStore, Replacing, Replaced
  <2> QED
    BY <1>1, <1>4, <2>1, OtherStepsInv DEF ClearPowerStore, Steps, Starting, Types
<1>5. CASE ClearLastValidators
  <2>1. Replacing'
    BY <1>1, <1>5 DEF ClearLastValidators, Replacing, Replaced
  <2> QED
    BY <1>1, <1>5, <2>1, OtherStepsInv DEF ClearLastValidators, Steps, Starting, Types
<1>6. CASE ClearValidators
  <2>1. Replacing'
    BY <1>1, <1>6 DEF ClearValidators, Replacing, Replaced
  <2> QED
    BY <1>1, <1>6, <2>1, OtherStepsInv DEF ClearValidators, Steps, Starting, Types
<1>7. CASE SetValidator
  <2>1. power = {} /\ lastPower = <<>> /\ newVal' = newVal
    BY <1>1, <1>7 DEF SetValidator, Replacing
  <2>2. DOMAIN lastPower = {}
    BY <2>1
  <2>3. /\ pc' = "distribution"
        /\ validators' = [v \in {newVal} |-> "bonded"]
        /\ power' = {newVal}
        /\ lastPower' = [v \in {newVal} |-> 0]
    <3>1. lastPower' = [v \in {newVal} |-> IF v = newVal THEN 0 ELSE lastPower[v]]
      BY <1>7, <2>2 DEF SetValidator
    <3>2. lastPower' = [v \in {newVal} |-> 0]
      BY <3>1
    <3> QED
      BY <1>7, <2>1, <3>2 DEF SetValidator
  <2>4. Replacing'
    BY <2>1, <2>3 DEF Replacing, Replaced
  <2> QED
    BY <1>1, <1>7, <2>4, OtherStepsInv DEF SetValidator, Steps, Starting, Types, Replaced
<1>8. CASE SetDistributionAndSigning
  <2>1. Replacing'
    BY <1>1, <1>8 DEF SetDistributionAndSigning, Replacing, Replaced
  <2> QED
    BY <1>1, <1>8, <2>1, OtherStepsInv DEF SetDistributionAndSigning, Steps, Starting, Types, Replaced
<1>9. CASE FundAccount
  BY <1>9, FundAccountInv
<1>10. CASE StartNode
  <2>1. Replacing'
    BY <1>1, <1>10 DEF StartNode, Replacing, Replaced
  <2> QED
    BY <1>1, <1>10, <2>1, OtherStepsInv DEF StartNode, Steps, Replaced
<1>11. CASE FirstEndBlock
  BY <1>11, FirstEndBlockInv
<1>12. CASE UNCHANGED vars
  BY <1>12 DEF vars, IInv, Types, Replacing, Funding, Minted, Paid, Times, ListedIn
<1> QED
  BY <1>2, <1>3, <1>4, <1>5, <1>6, <1>7, <1>8, <1>9, <1>10, <1>11, <1>12 DEF Next

\* In every reachable state of the command the stores hold what the step
\* reached leaves of them, and the entries the loop has passed are paid.
THEOREM Invariance == Spec => []IInv
BY InitInv, NextInv, PTL DEF Spec

-----------------------------------------------------------------------------
(* What follows for the testnet.                                            *)

\* Whatever validators the mainnet had, the first block never halts and its
\* updates name the new validator alone.
THEOREM TakesOver == Spec => []NewValidatorTakesOver
<1>1. IInv => NewValidatorTakesOver
  BY DEF IInv, Types, Steps, Starting, Replaced, Replacing, NewValidatorTakesOver
<1> QED
  BY <1>1, Invariance, PTL

\* Every listed account has its coins, once for each time it is listed.
THEOREM Funded == Spec => []FundedAsListed
<1>1. IInv => FundedAsListed
  <2> SUFFICES ASSUME IInv, pc \in {"started", "running"}
               PROVE  /\ mintAccount = 0
                      /\ \A a \in Accounts :
                           funded[a] = FundAmount *
                             Cardinality({i \in DOMAIN accountsToFund : accountsToFund[i] = a})
    BY DEF FundedAsListed
  <2>1. /\ mintAccount = 0 /\ toFund = <<>>
        /\ \A a \in Accounts : funded[a] = FundAmount * Times(Paid, a)
    BY DEF IInv, Funding
  <2>2. Len(toFund) = 0 /\ Len(accountsToFund) \in Nat
        /\ DOMAIN accountsToFund = 1..Len(accountsToFund)
    BY <2>1, LenProperties DEF IInv, Types
  <2>3. Paid = Len(accountsToFund)
    BY <2>2 DEF Paid
  <2>4. \A a : Times(Paid, a)
                 = Cardinality({i \in DOMAIN accountsToFund : accountsToFund[i] = a})
    BY <2>2, <2>3 DEF Times, ListedIn
  <2> QED
    BY <2>1, <2>4
<1> QED
  BY <1>1, Invariance, PTL

\* The funding of n entries is all that takes the supply of a testnet above the
\* cap: a list of n accounts exceeds it by n amounts at most.
THEOREM ExcessIsFunding ==
    Spec => [](pc = "running" =>
                 supply <= MintHardCapAmount + FundAmount * Len(accountsToFund))
<1>1. IInv /\ pc = "running" => supply <= MintHardCapAmount + FundAmount * Len(accountsToFund)
  <2> SUFFICES ASSUME IInv, pc = "running"
               PROVE  supply <= MintHardCapAmount + FundAmount * Len(accountsToFund)
    OBVIOUS
  <2>1. supply <= MintHardCapAmount + FundAmount * Paid /\ toFund = <<>>
    BY DEF IInv, Funding, Minted
  <2>2. Len(toFund) = 0 /\ Len(accountsToFund) \in Nat
    BY <2>1, LenProperties DEF IInv, Types
  <2>3. Paid = Len(accountsToFund)
    BY <2>2 DEF Paid
  <2> QED
    BY <2>1, <2>3
<1> QED
  BY <1>1, Invariance, PTL
=============================================================================
