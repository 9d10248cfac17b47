--------------------------- MODULE InPlaceTestnet ---------------------------
(***************************************************************************)
(* The in-place-testnet command (cmd/bpsd/cmd/testnet.go): newTestnetApp   *)
(* takes the state of a stopped mainnet node, replaces its validators by   *)
(* one new validator and funds the listed accounts; the node then starts   *)
(* and the staking end blocker of the first block computes the validator   *)
(* set.  An error ends the process before anything is committed.           *)
(***************************************************************************)
EXTENDS Integers, Sequences, FiniteSets

CONSTANTS
    Operators,      \* operator addresses of the mainnet's validators
    NewOperators,   \* operator addresses the command may be given
    FundFlags,      \* values of --accounts-to-fund, sequences of list entries
    Accounts,       \* entries that are addresses of accounts that may receive
    MintHardCapAmount,
    FundAmount,     \* 1_000_000_000 in the code
    Supplies        \* mainnet supplies of the bond denomination

ASSUME TestnetAssumption ==
    /\ MintHardCapAmount \in Nat /\ FundAmount \in Nat \ {0}
    /\ Supplies \subseteq 0..MintHardCapAmount
    /\ "" \notin Accounts
    /\ FundFlags \subseteq Seq(STRING)

VARIABLES
    pc,             \* the next step, or how the command ended
    newVal,         \* args.newOperatorAddress
    accountsToFund, \* args.accountsToFund
    toFund,         \* what is left of the funding loop
    validators,     \* staking's validators by operator, their status the value
    power,          \* operators in the power index
    lastPower,      \* operators in the last validators store, their power the value
    queue,          \* operators in the unbonding validator queue
    byConsAddr,     \* operators the consensus address index leads to
    rewards,        \* operators with distribution records, their period the value
    signing,        \* operators with a signing info
    supply,         \* supply of the bond denomination
    mintAccount,    \* balance of the mint module's account
    funded,         \* what each account received
    updates         \* the updates the first end blocker returned

stakingVars == <<validators, power, lastPower, queue, byConsAddr>>
bankVars    == <<supply, mintAccount, funded>>
args        == <<newVal, accountsToFund>>
vars == <<pc, args, toFund, stakingVars, rewards, signing, bankVars, updates>>

\* The power of the new validator, and of those of the mainnet.
valVotingPower == 9
MainnetPower   == 1

\* strings.Split gives the empty text as the one element of an empty text.
Split(flag) == IF flag = <<>> THEN <<"">> ELSE flag

\* A mainnet state: bonded validators are in the power index and the last
\* validators store, unbonding ones in the queue, jailed ones in neither store.
Init ==
    /\ pc = "args"
    /\ newVal \in NewOperators
    /\ accountsToFund \in {Split(flag) : flag \in FundFlags}
    /\ toFund = <<>>
    /\ validators \in UNION {[vs -> {"bonded", "unbonding", "jailed"}] :
                               vs \in SUBSET Operators}
    /\ \E v \in DOMAIN validators : validators[v] = "bonded"
    /\ power = {v \in DOMAIN validators : validators[v] # "jailed"}
    /\ lastPower = [v \in {w \in DOMAIN validators : validators[w] = "bonded"} |-> MainnetPower]
    /\ queue = {v \in DOMAIN validators : validators[v] # "bonded"}
    /\ byConsAddr = DOMAIN validators
    /\ rewards = [v \in DOMAIN validators |-> 2]
    /\ signing = DOMAIN validators
    /\ supply \in Supplies
    /\ mintAccount = 0
    /\ funded = [a \in Accounts |-> 0]
    /\ updates = <<>>

\* getCommandArgs, whose errors panic.
GetCommandArgs ==
    /\ pc = "args"
    /\ pc' \in {"power", "panic"}
    /\ UNCHANGED <<args, toFund, stakingVars, rewards, signing, bankVars, updates>>

\* A call that returned an error: handleErr exits the process.
HandleErr ==
    /\ pc \in {"power", "last", "set", "distribution", "fund"}
    /\ pc' = "exit"
    /\ UNCHANGED <<args, toFund, stakingVars, rewards, signing, bankVars, updates>>

ClearPowerStore ==
    /\ pc = "power"
    /\ pc' = "last"
    /\ power' = {}
    /\ UNCHANGED <<args, toFund, validators, lastPower, queue, byConsAddr, rewards,
                   signing, bankVars, updates>>

\* Mutant: the last validators store keeps the old validators.
KeepLastValidators ==
    /\ pc = "last"
    /\ pc' = "validators"
    /\ UNCHANGED <<args, toFund, stakingVars, rewards, signing, bankVars, updates>>

ClearLastValidators ==
    /\ pc = "last"
    /\ pc' = "validators"
    /\ lastPower' = <<>>
    /\ UNCHANGED <<args, toFund, validators, power, queue, byConsAddr, rewards,
                   signing, bankVars, updates>>

\* The validators and the queue of unbonding validators; the consensus address
\* index, the distribution records and the signing infos are left.
ClearValidators ==
    /\ pc = "validators"
    /\ pc' = "set"
    /\ validators' = <<>>
    /\ queue' = {}
    /\ UNCHANGED <<args, toFund, power, lastPower, byConsAddr, rewards, signing,
                   bankVars, updates>>

\* The new validator enters the stores, its last power 0.  AfterValidatorCreated
\* writes the distribution records that the next step writes again.
SetValidator ==
    /\ pc = "set"
    /\ pc' = "distribution"
    /\ validators' = [v \in {newVal} |-> "bonded"]
    /\ byConsAddr' = byConsAddr \cup {newVal}
    /\ power' = power \cup {newVal}
    /\ lastPower' = [v \in DOMAIN lastPower \cup {newVal} |->
                        IF v = newVal THEN 0 ELSE lastPower[v]]
    /\ rewards' = [v \in DOMAIN rewards \cup {newVal} |->
                        IF v = newVal THEN 1 ELSE rewards[v]]
    /\ UNCHANGED <<args, toFund, queue, signing, bankVars, updates>>

SetDistributionAndSigning ==
    /\ pc = "distribution"
    /\ pc' = "fund"
    /\ toFund' = accountsToFund
    /\ rewards' = [v \in DOMAIN rewards \cup {newVal} |->
                        IF v = newVal THEN 1 ELSE rewards[v]]
    /\ signing' = signing \cup {newVal}
    /\ UNCHANGED <<args, stakingVars, bankVars, updates>>

\* Mutant: the coins are minted again after they were sent.
FundTwice ==
    /\ pc = "fund"
    /\ toFund # <<>>
    /\ LET account == Head(toFund)
       IN  IF account \in Accounts
           THEN /\ supply' = supply + 2 * FundAmount
                /\ mintAccount' = mintAccount + FundAmount
                /\ funded' = [funded EXCEPT ![account] = @ + FundAmount]
                /\ toFund' = Tail(toFund)
                /\ UNCHANGED pc
           ELSE /\ pc' = "badAccount"
                /\ UNCHANGED <<bankVars, toFund>>
    /\ UNCHANGED <<args, stakingVars, rewards, signing, updates>>

\* One account of the list.  The coins are minted before the entry is decoded
\* and before the send finds that the account may not receive.
FundAccount ==
    /\ pc = "fund"
    /\ toFund # <<>>
    /\ supply' = supply + FundAmount
    /\ LET account == Head(toFund)
       IN  IF account \in Accounts
           THEN /\ funded' = [funded EXCEPT ![account] = @ + FundAmount]
                /\ toFund' = Tail(toFund)
                /\ UNCHANGED <<pc, mintAccount>>
           ELSE /\ pc' = "badAccount"
                /\ mintAccount' = mintAccount + FundAmount
                /\ UNCHANGED <<toFund, funded>>
    /\ UNCHANGED <<args, stakingVars, rewards, signing, updates>>

StartNode ==
    /\ pc = "fund"
    /\ toFund = <<>>
    /\ pc' = "started"
    /\ UNCHANGED <<args, toFund, stakingVars, rewards, signing, bankVars, updates>>

(***************************************************************************)
(* The first block's ApplyAndReturnValidatorSetUpdates (external): the     *)
(* validators of the power index whose power is not the last one, and      *)
(* those of the last store that left it with power 0.  A validator it      *)
(* finds in an index and not among the validators makes it panic.          *)
(***************************************************************************)
PowerOf(v) == IF v = newVal THEN valVotingPower ELSE MainnetPower

FirstEndBlock ==
    /\ pc = "started"
    /\ IF power \cup DOMAIN lastPower \subseteq DOMAIN validators
       THEN /\ pc' = "running"
            /\ updates' =
                [v \in {w \in power : w \notin DOMAIN lastPower \/ lastPower[w] # PowerOf(w)}
                         \cup (DOMAIN lastPower \ power) |->
                    IF v \in power THEN PowerOf(v) ELSE 0]
            /\ lastPower' = [v \in power |-> PowerOf(v)]
       ELSE /\ pc' = "halted"
            /\ UNCHANGED <<updates, lastPower>>
    /\ UNCHANGED <<args, toFund, validators, power, queue, byConsAddr, rewards,
                   signing, bankVars>>

Next ==
    \/ GetCommandArgs
    \/ HandleErr
    \/ ClearPowerStore
    \/ ClearLastValidators
    \/ ClearValidators
    \/ SetValidator
    \/ SetDistributionAndSigning
    \/ FundAccount
    \/ StartNode
    \/ FirstEndBlock

Spec == Init /\ [][Next]_vars

-----------------------------------------------------------------------------

\* Whatever the mainnet's validators were, the new operator among them, jailed
\* or unbonding, the first block of the testnet finds each validator it looks
\* for and hands CometBFT exactly the new validator with its power.
NewValidatorTakesOver ==
    /\ pc # "halted"
    /\ pc = "running" => /\ updates = [v \in {newVal} |-> valVotingPower]
                         /\ lastPower = updates

\* A node that starts has given every listed account its coins as often as it
\* is listed, and its mint account holds none of what it minted for them.
FundedAsListed ==
    pc \in {"started", "running"} =>
        /\ mintAccount = 0
        /\ \A a \in Accounts :
             funded[a] = FundAmount * Cardinality({i \in DOMAIN accountsToFund :
                                                     accountsToFund[i] = a})

\* "Comma-separated list of account addresses that will be funded": the flag is
\* optional, and a list that is left out does not end the command.
StartsWithoutAccounts == accountsToFund = Split(<<>>) => pc # "badAccount"
=============================================================================
