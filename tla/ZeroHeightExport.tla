-------------------------- MODULE ZeroHeightExport --------------------------
(***************************************************************************)
(* ExportAppStateAndValidators and prepForZeroHeightGenesis of             *)
(* app/export.go, from the state of the last committed block to the        *)
(* exported one: every loop iteration and every call between the loops is  *)
(* a step.  The distribution, staking and slashing keepers are external:   *)
(* their calls are modelled by their effect on the records below.  What a  *)
(* reward withdrawal pays is any amount the validator has outstanding, and *)
(* each withdrawal may fail: the export ignores their errors.              *)
(***************************************************************************)
EXTENDS Integers, Sequences, FiniteSets, FiniteSetsExt, SequencesExt

CONSTANTS
    NVal,               \* validators, named 1..NVal in the order of their keys
    Delegations,        \* the delegations, records with fields del and val
    Dust,               \* those too small to count as a unit of voting power
    MaxValidators,      \* staking's MaxValidators
    Scale,              \* decimal units of a coin
    RewardChoices,      \* outstanding rewards a validator may have, in units
    CommissionChoices,  \* accumulated commissions it may have, in units
    Period              \* every validator's current period before the export

Validators == 1..NVal

\* A text that is no address, and an address that no validator is written with.
NoAddress == 0
NoValidator == NVal + 1

ASSUME ExportAssumption ==
    /\ NVal \in Nat
    /\ IsFiniteSet(Delegations)
    /\ \A d \in Delegations : d.val \in Validators
    /\ Dust \subseteq Delegations
    /\ MaxValidators \in Nat \ {0}
    /\ Scale \in Nat \ {0}
    /\ RewardChoices \subseteq Nat
    /\ CommissionChoices \subseteq Nat
    /\ Period \in Nat \ {0}

VARIABLES
    pc,          \* the loop or call that is next, or how the export ended
    todo,        \* what is left of the loop's iteration
    allowList,   \* jailAllowedAddrs: validators, and the two below
    visited,     \* history: validators in the order the jailing loop met them
    jailed,      \* the validators whose Jailed is set
    power,       \* the validators in the power index
    last,        \* the last validator set
    outstanding, \* outstanding rewards of each validator, in units
    commission,  \* the part of them that is accumulated commission
    current,     \* the current period of each validator
    refs,        \* reference count of each historical period of a validator
    start,       \* the period in each delegation's starting info
    slashes,     \* the periods of each validator's slash events
    pool,        \* the community pool, in units
    balance,     \* the distribution module's account, in coins
    unpaid,      \* history: units of commissions whose payment failed
    staleHeight  \* the records that hold a height of the old chain

rewardVars == <<outstanding, commission, pool, balance, unpaid>>
periodVars == <<current, refs, start, slashes>>
setVars    == <<jailed, power, last, visited>>
vars == <<pc, todo, allowList, rewardVars, periodVars, setVars, staleHeight>>

DelegationsTo(v) == {d \in Delegations : d.val = v}

\* PotentialConsensusPower: a delegation is worth one unit, or less.
VotingPower(v) == Cardinality(DelegationsTo(v) \ Dust)

\* IterateValidators goes through the validators by key, GetAllDelegations
\* through the delegations.
ByKey == [i \in 1..NVal |-> i]
dels  == SetToSeq(Delegations)

(***************************************************************************)
(* The records that hold heights: redelegations and unbonding delegations  *)
(* (one of each stands for all), validators, and signing infos.            *)
(***************************************************************************)
Entries      == {<<"redelegation", 0>>, <<"unbonding", 0>>}
SigningInfos == {<<"signingInfo", v>> : v \in Validators}
Unbondings   == {<<"validator", v>> : v \in Validators}

(***************************************************************************)
(* Reference counts of historical rewards: a period no one refers to is    *)
(* deleted.                                                                *)
(***************************************************************************)
RefCount(h, p) == IF p \in DOMAIN h THEN h[p] ELSE 0

SetRefs(h, p, n) ==
    [q \in (IF n = 0 THEN DOMAIN h \ {p} ELSE DOMAIN h \cup {p}) |->
        IF q = p THEN n ELSE h[q]]

Increment(h, p) == SetRefs(h, p, RefCount(h, p) + 1)
Decrement(h, p) == SetRefs(h, p, RefCount(h, p) - 1)

\* IncrementValidatorPeriod: the period that ends gets a record.
EndPeriod(h, c) == SetRefs(Decrement(h, c - 1), c, 1)

\* initializeDelegation, after the period c - 1 has ended.
JoinPeriod(h, c) == Increment(h, c - 1)

InitialRefs(v, s, e) ==
    LET users(p) == {d \in DelegationsTo(v) : s[d] = p}
        count(p) == Cardinality(users(p)) + (IF p \in e THEN 1 ELSE 0)
                      + (IF p = Period - 1 THEN 1 ELSE 0)
    IN  [p \in {q \in 0..Period - 1 : count(q) > 0} |-> count(p)]

\* The order of the power index: equal powers by operator address.
Stronger(v, w) ==
    \/ VotingPower(v) > VotingPower(w)
    \/ VotingPower(v) = VotingPower(w) /\ v < w

\* What the validator-set update looks at: the first MaxValidators of the index,
\* up to and with the first that has no voting power.
Reached(index) ==
    {v \in index : /\ Cardinality({w \in index : Stronger(w, v)}) < MaxValidators
                   /\ \A w \in index : Stronger(w, v) => VotingPower(w) > 0}

\* Those of them that it bonds.
Top(index) == {v \in Reached(index) : VotingPower(v) > 0}

AllowLists == SUBSET (Validators \cup {NoValidator}) \cup {{NoAddress}}

\* A committed state: unjailed validators are in the power index, and the end
\* blocker has bonded the first of them.
Init ==
    /\ pc = "start"
    /\ todo = <<>>
    /\ allowList \in AllowLists
    /\ visited = <<>>
    /\ jailed \in SUBSET Validators
    /\ power = Validators \ jailed
    /\ last = Top(power)
    /\ outstanding \in [Validators -> RewardChoices]
    /\ commission \in [Validators -> CommissionChoices]
    /\ \A v \in Validators : commission[v] <= outstanding[v]
    /\ current = [v \in Validators |-> Period]
    /\ start \in [Delegations -> 0..Period - 1]
    /\ slashes \in [Validators -> {{}} \cup {{p} : p \in 0..Period - 1}]
    /\ refs = [v \in Validators |-> InitialRefs(v, start, slashes[v])]
    /\ LET owed == MapThenSumSet(LAMBDA v : outstanding[v], Validators)
       IN  /\ pool \in 0..Scale - 1
           /\ (owed + pool) % Scale = 0
           /\ balance = (owed + pool) \div Scale
    /\ unpaid = 0
    /\ staleHeight = Entries \cup SigningInfos \cup Unbondings

\* forZeroHeight is false: the state is exported as it is.
ExportAtHeight ==
    /\ pc = "start"
    /\ pc' = "exportedAtHeight"
    /\ UNCHANGED <<todo, allowList, rewardVars, periodVars, setVars, staleHeight>>

\* The allow list's addresses are decoded; one that does not panics.
CheckAllowList ==
    /\ pc = "start"
    /\ IF NoAddress \notin allowList
       THEN pc' = "commission" /\ todo' = ByKey
       ELSE pc' = "panic" /\ todo' = <<>>
    /\ UNCHANGED <<allowList, rewardVars, periodVars, setVars, staleHeight>>

\* One loop ends and the next begins.
LoopEnds ==
    /\ todo = <<>>
    /\ \/ pc = "commission"  /\ pc' = "rewards"     /\ todo' = dels
       \/ pc = "rewards"     /\ pc' = "clear"       /\ todo' = <<>>
       \/ pc = "validators"  /\ pc' = "delegations" /\ todo' = dels
       \/ pc = "delegations" /\ pc' = "entries"     /\ todo' = <<>>
       \/ pc = "jail"        /\ pc' = "close"       /\ todo' = <<>>
    /\ UNCHANGED <<allowList, rewardVars, periodVars, setVars, staleHeight>>

Iterate(loop) ==
    /\ pc = loop
    /\ todo # <<>>
    /\ todo' = Tail(todo)
    /\ UNCHANGED <<pc, allowList>>

\* A withdrawal that finds nothing to withdraw, or no record of the delegation,
\* fails before it changes anything.
WithdrawalFails ==
    /\ \/ Iterate("commission") /\ commission[Head(todo)] = 0
       \/ Iterate("rewards")
    /\ UNCHANGED <<rewardVars, periodVars, setVars, staleHeight>>

\* TruncateDecimal: what an amount has in whole coins, in units.
Whole(units) == units - (units % Scale)

\* WithdrawValidatorCommission takes whole coins off the commission and off what
\* is outstanding, the change stays commission.
TakeCommission(v) ==
    /\ commission' = [commission EXCEPT ![v] = @ - Whole(@)]
    /\ outstanding' = [outstanding EXCEPT ![v] = @ - Whole(commission[v])]
    /\ UNCHANGED <<pool, periodVars, setVars, staleHeight>>

WithdrawCommission ==
    /\ Iterate("commission")
    /\ LET v == Head(todo)
       IN  /\ commission[v] > 0
           /\ TakeCommission(v)
           /\ balance' = balance - Whole(commission[v]) \div Scale
    /\ UNCHANGED unpaid

\* The records are written when SendCoinsFromModuleToAccount fails, and no one
\* takes the writes back.
CommissionPaymentFails ==
    /\ Iterate("commission")
    /\ LET v == Head(todo)
       IN  /\ Whole(commission[v]) > 0
           /\ TakeCommission(v)
           /\ unpaid' = unpaid + Whole(commission[v])
    /\ UNCHANGED balance

\* WithdrawDelegationRewards: the period ends, the rewards are paid in whole
\* coins, the change goes to the community pool, and the delegation starts anew
\* in the next period.
WithdrawRewards ==
    /\ Iterate("rewards")
    /\ LET d == Head(todo)
           v == d.val
           c == current[v]
       IN  /\ \E units \in 0..outstanding[v] - commission[v] :
                 /\ outstanding' = [outstanding EXCEPT ![v] = @ - units]
                 /\ pool' = pool + (units % Scale)
                 /\ balance' = balance - Whole(units) \div Scale
           /\ current' = [current EXCEPT ![v] = c + 1]
           /\ refs' = [refs EXCEPT ![v] =
                        JoinPeriod(Decrement(EndPeriod(refs[v], c), start[d]), c + 1)]
           /\ start' = [start EXCEPT ![d] = c]
    /\ UNCHANGED <<commission, unpaid, slashes, setVars, staleHeight>>

\* Here the payment comes before the records: the period has ended, and that is
\* all, when it fails.
RewardsPaymentFails ==
    /\ Iterate("rewards")
    /\ LET v == Head(todo).val
           c == current[v]
       IN  /\ outstanding[v] - commission[v] >= Scale
           /\ current' = [current EXCEPT ![v] = c + 1]
           /\ refs' = [refs EXCEPT ![v] = EndPeriod(@, c)]
    /\ UNCHANGED <<start, slashes, rewardVars, setVars, staleHeight>>

\* Mutant: the historical rewards are kept.
KeepHistory ==
    /\ pc = "clear"
    /\ pc' = "validators"
    /\ todo' = ByKey
    /\ slashes' = [v \in Validators |-> {}]
    /\ UNCHANGED <<refs, current, start, allowList, rewardVars, setVars, staleHeight>>

\* DeleteAllValidatorSlashEvents and DeleteAllValidatorHistoricalRewards.
ClearHistory ==
    /\ pc = "clear"
    /\ pc' = "validators"
    /\ todo' = ByKey
    /\ slashes' = [v \in Validators |-> {}]
    /\ refs' = [v \in Validators |-> <<>>]
    /\ UNCHANGED <<current, start, allowList, rewardVars, setVars, staleHeight>>

\* Mutant: what is outstanding is not donated.
DonateNothing(v) == UNCHANGED pool

Donate(v) == pool' = pool + outstanding[v]

\* Outstanding rewards go to the community pool, then AfterValidatorCreated
\* sets up the validator's records.
ReinitValidator ==
    /\ Iterate("validators")
    /\ LET v == Head(todo)
       IN  /\ Donate(v)
           /\ outstanding' = [outstanding EXCEPT ![v] = 0]
           /\ commission' = [commission EXCEPT ![v] = 0]
           /\ current' = [current EXCEPT ![v] = 1]
           /\ refs' = [refs EXCEPT ![v] = SetRefs(@, 0, 1)]
    /\ UNCHANGED <<balance, unpaid, start, slashes, setVars, staleHeight>>

\* BeforeDelegationCreated ends a period, AfterDelegationModified starts the
\* delegation in the next.
ReinitDelegation ==
    /\ Iterate("delegations")
    /\ LET d == Head(todo)
           v == d.val
           c == current[v]
       IN  /\ current' = [current EXCEPT ![v] = c + 1]
           /\ refs' = [refs EXCEPT ![v] = JoinPeriod(EndPeriod(refs[v], c), c + 1)]
           /\ start' = [start EXCEPT ![d] = c]
    /\ UNCHANGED <<slashes, rewardVars, setVars, staleHeight>>

\* Redelegations and unbonding delegations get creation height 0; the reverse
\* iteration over ValidatorsKey begins.
ResetEntries ==
    /\ pc = "entries"
    /\ pc' = "jail"
    /\ todo' = Reverse(ByKey)
    /\ staleHeight' = staleHeight \ Entries
    /\ UNCHANGED <<allowList, rewardVars, periodVars, setVars>>

\* Mutant: an allow list jails no one.
JailNone(v) == FALSE

\* Mutant: a list that is not given is taken for an empty one.
JailWithoutList(v) == v \notin allowList

Jails(v) == allowList # {} /\ v \notin allowList

\* Sets Jailed in the validator's record; the power index is not touched.
ResetValidator ==
    /\ Iterate("jail")
    /\ LET v == Head(todo)
       IN  /\ staleHeight' = staleHeight \ {<<"validator", v>>}
           /\ jailed' = IF Jails(v) THEN jailed \cup {v} ELSE jailed
           /\ visited' = Append(visited, v)
    /\ UNCHANGED <<power, last, rewardVars, periodVars>>

CloseIterator ==
    /\ pc = "close"
    /\ pc' = "apply"
    /\ UNCHANGED <<todo, allowList, rewardVars, periodVars, setVars, staleHeight>>

\* The error is logged and the preparation returns; the export goes on.
CloseIteratorFails ==
    /\ pc = "close"
    /\ pc' = "exportedUnfinished"
    /\ UNCHANGED <<todo, allowList, rewardVars, periodVars, setVars, staleHeight>>

\* ApplyAndReturnValidatorSetUpdates goes through the power index and fails at a
\* validator that is jailed, before it asks for its voting power.
ApplyValidatorSetUpdates ==
    /\ pc = "apply"
    /\ IF Reached(power) \cap jailed # {}
       THEN pc' = "panic" /\ UNCHANGED last
       ELSE pc' = "signing" /\ last' = Top(power)
    /\ UNCHANGED <<todo, allowList, jailed, power, visited, rewardVars, periodVars, staleHeight>>

\* Mutant: the signing infos keep their start heights.
KeepSigningInfos ==
    /\ pc = "signing"
    /\ pc' = "exported"
    /\ UNCHANGED <<todo, allowList, rewardVars, periodVars, setVars, staleHeight>>

\* Signing infos get start height 0; ExportGenesis and WriteValidators follow.
ResetSigningInfos ==
    /\ pc = "signing"
    /\ pc' = "exported"
    /\ staleHeight' = staleHeight \ SigningInfos
    /\ UNCHANGED <<todo, allowList, rewardVars, periodVars, setVars>>

Next ==
    \/ ExportAtHeight
    \/ CheckAllowList
    \/ LoopEnds
    \/ WithdrawalFails
    \/ WithdrawCommission
    \/ CommissionPaymentFails
    \/ WithdrawRewards
    \/ RewardsPaymentFails
    \/ ClearHistory
    \/ ReinitValidator
    \/ ReinitDelegation
    \/ ResetEntries
    \/ ResetValidator
    \/ CloseIterator
    \/ CloseIteratorFails
    \/ ApplyValidatorSetUpdates
    \/ ResetSigningInfos

Spec == Init /\ [][Next]_vars

-----------------------------------------------------------------------------

Exported == pc \in {"exported", "exportedUnfinished", "exportedAtHeight"}

\* The distribution account holds what is outstanding and in the community pool,
\* and beyond that exactly the commissions whose payment failed, at every step: no
\* other withdrawal, no error in one, no donation and no reset loses or makes a
\* unit.  Distribution's InitGenesis refuses an account that its records do not add
\* up to: one failed payment, whose error export.go drops, makes an export that no
\* chain starts from, and nothing else unbalances it.
HoldingsMatch ==
    balance * Scale = pool + MapThenSumSet(LAMBDA v : outstanding[v], Validators) + unpaid

\* In an exported state each historical period is kept exactly as often as a
\* delegation starts at it, a slash event ended it, or it is the last one:
\* fewer and a withdrawal on the new chain fails, more and it is never deleted.
ReferencesExact ==
    Exported => \A v \in Validators :
        refs[v] = [p \in {start[d] : d \in DelegationsTo(v)} \cup slashes[v]
                           \cup {current[v] - 1} |->
                     Cardinality({d \in DelegationsTo(v) : start[d] = p})
                       + (IF p \in slashes[v] THEN 1 ELSE 0)
                       + (IF p = current[v] - 1 THEN 1 ELSE 0)]

\* A finished zero-height export has no height of the old chain left in what the
\* preparation resets: no slash event that a delegation started at height 0 would
\* find in its future, and no creation, unbonding or start height.
NoOldHeights ==
    pc = "exported" => staleHeight = {} /\ \A v \in Validators : slashes[v] = {}

\* A finished export with an allow list has no validator outside it in its
\* validator set, and none that is jailed.
OnlyAllowedValidate ==
    pc = "exported" => /\ last \cap jailed = {}
                       /\ allowList # {} => last \subseteq allowList

\* An export panics only for a text that is no address, or for a list that leaves
\* out a validator that signs at present or, when fewer than MaxValidators sign,
\* the first of those in the power index that do not: it has no voting power, and
\* is looked at all the same.  The last is what an operator who lists all who sign
\* would not expect.
PanicsOnlyIfLeftOut ==
    pc = "panic" =>
        \/ NoAddress \in allowList
        \/ /\ allowList # {}
           /\ \E v \in power \ allowList :
                 \/ v \in last
                 \/ /\ Cardinality(last) < MaxValidators
                    /\ \A w \in power \ last : ~Stronger(w, v)

\* prepForZeroHeightGenesis "prepares for fresh start at zero height": an allow
\* list of validators is not a reason to panic.
PreparesFreshStart == allowList \subseteq Validators => pc # "panic"

\* "Iterate through validators by power descending".
ByPowerDescending ==
    \A i, j \in DOMAIN visited : i < j => VotingPower(visited[i]) >= VotingPower(visited[j])
=============================================================================
