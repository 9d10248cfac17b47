---------------------------- MODULE HardCapMint ----------------------------
(***************************************************************************)
(* Block execution around the hard-capped mint of app/mint_hardcap.go: the *)
(* begin blockers in the order of app/app_config.go, the transactions that *)
(* move, burn or mint coins, the commit, and the discard of an unfinished  *)
(* execution (app/app.go turns optimistic execution on).  The bank, mint,  *)
(* distribution and slashing keepers are external: they are modelled by    *)
(* the effect their calls have on balances and on the supply.              *)
(***************************************************************************)
EXTENDS Integers, Sequences

CONSTANTS
    Denoms,             \* denominations the bank knows
    Vouchers,           \* those minted by IBC transfers (ibc/...)
    MintHardCapDenom,   \* "ubps"
    MintHardCapAmount,  \* 100_000_000_000_000 in the code
    BondDenom,          \* staking's bond denomination
    Scale,              \* one, as a LegacyDec (10^18 in the code)
    MintParamsChoices,  \* the mint params governance may set
    GenesisCapSupplies, \* supplies of MintHardCapDenom a genesis may hold
    MaxTransfer,        \* bound: coins one transaction moves
    MaxTxs,             \* bound: transactions of a block
    MaxUncapped         \* bound: supply of an uncapped denom at a block's start

MintParams == [mintDenom : Denoms, inflationMin : Nat, inflationMax : Nat,
               inflationRateChange : Nat, goalBonded : Nat \ {0},
               blocksPerYear : Nat \ {0}]

ASSUME DenomAssumption ==
    /\ MintHardCapDenom \in Denoms
    /\ BondDenom \in Denoms
    /\ "" \notin Denoms
    /\ Vouchers \subseteq Denoms \ {MintHardCapDenom}

ASSUME AmountAssumption ==
    /\ MintHardCapAmount \in Nat \ {0}
    /\ Scale \in Nat \ {0}
    /\ GenesisCapSupplies \subseteq Nat
    /\ MaxTransfer \in Nat
    /\ MaxTxs \in Nat
    /\ MaxUncapped \in Nat

\* What minttypes.Params.Validate accepts.
ASSUME ParamsAssumption ==
    /\ MintParamsChoices \subseteq MintParams
    /\ \A p \in MintParamsChoices : p.inflationMin <= p.inflationMax

VARIABLES
    supply,     \* the bank's supply of each denom, as the block executing sees it
    bal,        \* balances of each denom by account
    minter,     \* the mint module's Minter item
    mintParams, \* the mint module's Params item
    pc,         \* 0: no block executes; i: begin blocker i is next; then TxPhase
    txs,        \* transactions the executing block has run
    committed   \* the state of the last committed block

work == <<supply, bal, minter, mintParams>>
vars == <<supply, bal, minter, mintParams, pc, txs, committed>>

(***************************************************************************)
(* The module accounts that mint, collect, distribute and burn; "holders"  *)
(* stands for every other account (users, the not-bonded pool, gov         *)
(* deposits, IBC escrows).                                                 *)
(***************************************************************************)
Accounts == {"holders", "mint", "fee_collector", "distribution", "bonded_pool"}

\* Total balance of a denom over the accounts.
Held(b, d) == b[d]["holders"] + b[d]["mint"] + b[d]["fee_collector"]
                + b[d]["distribution"] + b[d]["bonded_pool"]

(***************************************************************************)
(* Decimal arithmetic of LegacyDec and the mint module's formulas.         *)
(***************************************************************************)
QuoTrunc(a, b) == IF a < 0 THEN -((-a) \div b) ELSE a \div b

\* Drops Scale with banker's rounding.
ChopPrecisionAndRound(x) ==
    LET a == IF x < 0 THEN -x ELSE x
        q == a \div Scale
        r == a % Scale
        v == IF 2 * r > Scale \/ (2 * r = Scale /\ q % 2 = 1) THEN q + 1 ELSE q
    IN  IF x < 0 THEN -v ELSE v

DecMul(a, b) == ChopPrecisionAndRound(a * b)
DecQuo(a, b) == ChopPrecisionAndRound(QuoTrunc(a * Scale * Scale, b))

\* The operators below read a state s: a record with the fields of WorkState.
WorkState == [supply |-> supply, bal |-> bal, minter |-> minter, mintParams |-> mintParams]

StakingTokenSupply(s) == s.supply[BondDenom]

BondedRatio(s) ==
    IF StakingTokenSupply(s) > 0
    THEN (s.bal[BondDenom]["bonded_pool"] * Scale) \div StakingTokenSupply(s)
    ELSE 0

Clamp(lo, hi, x) == IF x > hi THEN hi ELSE IF x < lo THEN lo ELSE x

NextInflationRate(inflation, p, ratio) ==
    LET yearly == DecMul(Scale - DecQuo(ratio, p.goalBonded), p.inflationRateChange)
    IN  Clamp(p.inflationMin, p.inflationMax,
              inflation + DecQuo(yearly, p.blocksPerYear * Scale))

NextMinter(s) ==
    LET rate == NextInflationRate(s.minter.inflation, s.mintParams, BondedRatio(s))
    IN  [inflation |-> rate, annualProvisions |-> rate * StakingTokenSupply(s)]

BlockProvision(m, p) ==
    [denom |-> p.mintDenom, amount |-> (m.annualProvisions \div p.blocksPerYear) \div Scale]

(***************************************************************************)
(* clampMintToHardCap.                                                     *)
(***************************************************************************)
Lesser(a, b) == IF a < b THEN a ELSE b

\* Mutant: the cap is compared, but what is left of it does not bound the mint.
ClampOnlyAtCap(currentSupply, minted, capDenom, capAmount) ==
    IF minted.denom = capDenom /\ currentSupply >= capAmount
    THEN [minted EXCEPT !.amount = 0]
    ELSE minted

\* Mutant: no early return at or above the cap.
ClampWithoutFloor(currentSupply, minted, capDenom, capAmount) ==
    IF minted.denom # capDenom
    THEN minted
    ELSE [minted EXCEPT !.amount =
            IF @ > capAmount - currentSupply /\ currentSupply < capAmount
            THEN capAmount - currentSupply ELSE @]

\* Mutant: the last coin below the cap is never minted.
ClampShortOfCap(currentSupply, minted, capDenom, capAmount) ==
    IF minted.denom # capDenom
    THEN minted
    ELSE IF currentSupply >= capAmount - 1
    THEN [minted EXCEPT !.amount = 0]
    ELSE [minted EXCEPT !.amount = Lesser(@, capAmount - 1 - currentSupply)]

ClampMintToHardCap(currentSupply, minted, capDenom, capAmount) ==
    IF \/ minted.amount <= 0
       \/ capDenom = "" \/ capAmount <= 0
       \/ minted.denom # capDenom
    THEN minted
    ELSE IF currentSupply >= capAmount
    THEN [minted EXCEPT !.amount = 0]
    ELSE [minted EXCEPT !.amount = Lesser(@, capAmount - currentSupply)]

(***************************************************************************)
(* NewHardCapMintFn.  MintedCoin is what the function mints from a state;  *)
(* MintCoins and AddCollectedFees are the two bank effects that follow.    *)
(***************************************************************************)
MintedCoin(s) ==
    ClampMintToHardCap(s.supply[MintHardCapDenom],
                       BlockProvision(NextMinter(s), s.mintParams),
                       MintHardCapDenom, MintHardCapAmount)

Credit(b, d, a, n) == [b EXCEPT ![d][a] = @ + n]

Move(b, d, from, to, n) == Credit(Credit(b, d, from, -n), d, to, n)

MintedSupply(coin) == [supply EXCEPT ![coin.denom] = @ + coin.amount]

MintCoins(b, coin) == Credit(b, coin.denom, "mint", coin.amount)

\* Mutant: the fee collector is credited, the mint account is not debited.
AddFeesWithoutDebit(b, coin) == Credit(b, coin.denom, "fee_collector", coin.amount)

AddCollectedFees(b, coin) == Move(b, coin.denom, "mint", "fee_collector", coin.amount)

(***************************************************************************)
(* app_config.go: the begin blockers that touch this state, in their order *)
(* (staking, authz, epochs, ibc and bps follow and leave it alone), the    *)
(* accounts no user can send to, and the module account permissions.       *)
(***************************************************************************)
\* Mutant: distribution runs before mint.
DistributionFirst == <<"distribution", "mint", "slashing", "evidence">>

BeginBlockers == <<"mint", "distribution", "slashing", "evidence">>

\* Mutant: the mint account is left out of the blocked accounts.
BlockedExceptMint == {"fee_collector", "distribution", "bonded_pool"}

BlockedAccounts == {"fee_collector", "distribution", "mint", "bonded_pool"}

\* Accounts with the Burner permission; holders stands for the not-bonded
\* pool, gov and the IBC transfer account.
Burners == {"bonded_pool", "holders"}

TxPhase == Len(BeginBlockers) + 1
Failed  == Len(BeginBlockers) + 2

Turn(module) == pc \in DOMAIN BeginBlockers /\ BeginBlockers[pc] = module

Snapshot(height) == [supply |-> supply, bal |-> bal, minter |-> minter,
                     mintParams |-> mintParams, height |-> height]

Init ==
    \E p \in MintParamsChoices, g \in GenesisCapSupplies :
      \E bonded \in 0..g, rate \in {p.inflationMin, p.inflationMax} :
        /\ mintParams = p
        /\ minter = [inflation |-> rate, annualProvisions |-> 0]
        /\ supply = [d \in Denoms |-> IF d = MintHardCapDenom THEN g ELSE 0]
        /\ bal = [d \in Denoms |-> [a \in Accounts |->
                    IF d # MintHardCapDenom THEN 0
                    ELSE IF a = "holders" THEN g - bonded
                    ELSE IF a = "bonded_pool" THEN bonded
                    ELSE 0]]
        /\ pc = 0
        /\ txs = 0
        /\ committed = Snapshot(0)

\* FinalizeBlock starts executing a block on the committed state.
StartBlock ==
    /\ pc = 0
    /\ \A d \in Denoms \ {MintHardCapDenom} : supply[d] <= MaxUncapped
    /\ pc' = 1
    /\ txs' = 0
    /\ UNCHANGED <<work, committed>>

MintBeginBlock ==
    /\ Turn("mint")
    /\ minter' = NextMinter(WorkState)
    /\ LET coin == MintedCoin(WorkState) IN
        IF coin.amount > 0
        THEN /\ supply' = MintedSupply(coin)
             /\ bal' = AddCollectedFees(MintCoins(bal, coin), coin)
        ELSE UNCHANGED <<supply, bal>>
    /\ pc' = pc + 1
    /\ UNCHANGED <<mintParams, txs, committed>>

(***************************************************************************)
(* Each keeper call of the mint function can return an error: reading the  *)
(* state or Minter.Set (nothing written), MintCoins (the minter written),  *)
(* AddCollectedFees (the coins left in the mint account).                  *)
(***************************************************************************)
MintBeginBlockFails ==
    /\ Turn("mint")
    /\ LET coin == MintedCoin(WorkState) IN
        \/ UNCHANGED <<minter, supply, bal>>
        \/ /\ coin.amount > 0
           /\ minter' = NextMinter(WorkState)
           /\ \/ UNCHANGED <<supply, bal>>
              \/ /\ supply' = MintedSupply(coin)
                 /\ bal' = MintCoins(bal, coin)
    /\ pc' = Failed
    /\ UNCHANGED <<mintParams, txs, committed>>

\* AllocateTokens from height 2 on: all collected fees go to distribution.
DistributionBeginBlock ==
    /\ Turn("distribution")
    /\ bal' = IF committed.height + 1 > 1
              THEN [d \in Denoms |->
                      Move(bal, d, "fee_collector", "distribution",
                           bal[d]["fee_collector"])[d]]
              ELSE bal
    /\ pc' = pc + 1
    /\ UNCHANGED <<supply, minter, mintParams, txs, committed>>

\* Mutant: more can be burnt than the account holds.
BurnUnchecked(d, a, n) ==
    /\ a \in Burners
    /\ bal' = Credit(bal, d, a, -n)
    /\ supply' = [supply EXCEPT ![d] = @ - n]

Burn(d, a, n) ==
    /\ a \in Burners
    /\ n <= bal[d][a]
    /\ bal' = Credit(bal, d, a, -n)
    /\ supply' = [supply EXCEPT ![d] = @ - n]

\* Downtime and double-sign slashes burn bonded and unbonding stake.
SlashBeginBlock ==
    /\ Turn("slashing") \/ Turn("evidence")
    /\ \E a \in Burners, n \in 0..MaxTransfer : Burn(BondDenom, a, n)
    /\ pc' = pc + 1
    /\ UNCHANGED <<minter, mintParams, txs, committed>>

DeliverTx ==
    /\ pc = TxPhase
    /\ txs < MaxTxs
    /\ txs' = txs + 1
    /\ UNCHANGED <<minter, pc, committed>>

Transfer(d, from, to, n) ==
    /\ n <= bal[d][from]
    /\ bal' = Move(bal, d, from, to, n)
    /\ UNCHANGED <<supply, mintParams>>

\* MsgSend reaches every account that is not blocked.
Send ==
    /\ DeliverTx
    /\ \E d \in Denoms, n \in 1..MaxTransfer, to \in Accounts \ BlockedAccounts :
         Transfer(d, "holders", to, n)

PayFees ==
    /\ DeliverTx
    /\ \E d \in Denoms, n \in 1..MaxTransfer : Transfer(d, "holders", "fee_collector", n)

WithdrawRewards ==
    /\ DeliverTx
    /\ \E d \in Denoms, n \in 1..MaxTransfer : Transfer(d, "distribution", "holders", n)

Delegate ==
    /\ DeliverTx
    /\ \E n \in 1..MaxTransfer : Transfer(BondDenom, "holders", "bonded_pool", n)

Undelegate ==
    /\ DeliverTx
    /\ \E n \in 1..MaxTransfer : Transfer(BondDenom, "bonded_pool", "holders", n)

\* Gov burns a deposit.
BurnDeposit ==
    /\ DeliverTx
    /\ \E d \in Denoms, n \in 1..MaxTransfer : Burn(d, "holders", n)
    /\ UNCHANGED mintParams

\* The IBC transfer account mints a voucher for a received token.
MintVoucher ==
    /\ DeliverTx
    /\ \E d \in Vouchers, n \in 1..MaxTransfer :
         /\ bal' = Credit(bal, d, "holders", n)
         /\ supply' = [supply EXCEPT ![d] = @ + n]
    /\ UNCHANGED mintParams

\* A governance proposal executes mint's MsgUpdateParams.
UpdateMintParams ==
    /\ DeliverTx
    /\ mintParams' \in MintParamsChoices
    /\ UNCHANGED <<supply, bal>>

Commit ==
    /\ pc = TxPhase
    /\ committed' = Snapshot(1)
    /\ pc' = 0
    /\ txs' = 0
    /\ UNCHANGED work

\* Mutant: what an abandoned execution wrote stays in the working state.
DiscardNothing ==
    /\ pc # 0
    /\ pc' = 0
    /\ txs' = 0
    /\ UNCHANGED <<work, committed>>

(***************************************************************************)
(* The executing block is abandoned: its begin blocker failed, another     *)
(* proposal was decided than the one executed optimistically, or the node  *)
(* stopped.                                                                *)
(***************************************************************************)
Discard ==
    /\ pc # 0
    /\ supply' = committed.supply
    /\ bal' = committed.bal
    /\ minter' = committed.minter
    /\ mintParams' = committed.mintParams
    /\ pc' = 0
    /\ txs' = 0
    /\ UNCHANGED committed

Next ==
    \/ StartBlock
    \/ MintBeginBlock
    \/ MintBeginBlockFails
    \/ DistributionBeginBlock
    \/ SlashBeginBlock
    \/ Send
    \/ PayFees
    \/ WithdrawRewards
    \/ Delegate
    \/ Undelegate
    \/ BurnDeposit
    \/ MintVoucher
    \/ UpdateMintParams
    \/ Commit
    \/ Discard

Spec == Init /\ [][Next]_vars

(***************************************************************************)
(* CometBFT keeps deciding blocks.  An execution may be abandoned any      *)
(* number of times, but not for ever: blocks keep being committed.         *)
(***************************************************************************)
Fairness == []<><<Commit>>_vars

FairSpec == Spec /\ Fairness

-----------------------------------------------------------------------------

MinterItems == [inflation : Nat, annualProvisions : Nat]
Balances    == [Denoms -> [Accounts -> Nat]]

\* Every variable has its type, the committed block's record included; the
\* balances of the bank are never negative.
TypeOK ==
    /\ supply \in [Denoms -> Nat]
    /\ bal \in Balances
    /\ minter \in MinterItems
    /\ mintParams \in MintParamsChoices
    /\ pc \in 0..Failed
    /\ txs \in 0..MaxTxs
    /\ committed \in [supply : [Denoms -> Nat], bal : Balances, minter : MinterItems,
                      mintParams : MintParamsChoices, height : 0..1]

\* Every coin of the supply is in exactly one account, also halfway through a
\* block and after a begin blocker that failed between MintCoins and
\* AddCollectedFees.
SupplyBacked ==
    \A d \in Denoms : /\ supply[d] = Held(bal, d)
                      /\ committed.supply[d] = Held(committed.bal, d)

\* A supply of the capped denomination that is within the cap, at genesis or
\* after burns, is followed by no block, finished, unfinished or abandoned, whose
\* supply exceeds it: "total supply never exceeds capAmount for capDenom"
\* (mint_hardcap.go).
WithinCap ==
    /\ supply[MintHardCapDenom] <= MintHardCapAmount
    /\ committed.supply[MintHardCapDenom] <= MintHardCapAmount

SupplyCap == [][WithinCap => WithinCap']_vars

\* No committed block leaves coins in the mint module's account, where no
\* message could move them: what MintCoins creates AddCollectedFees hands on,
\* and blockAccAddrs keeps users from sending there.
NoStrandedMint == \A d \in Denoms : committed.bal[d]["mint"] = 0

\* From height 2 on, the transactions of a block start with an empty fee
\* collector: distribution runs after mint, so that a block's provision is
\* allocated in the block that minted it.
ProvisionAllocatedAtOnce ==
    (pc = TxPhase /\ txs = 0 /\ committed.height > 0) =>
        \A d \in Denoms : bal[d]["fee_collector"] = 0

\* Whatever the supply of the capped denomination is, above the cap included,
\* no step of a block raises it to a value above the cap.
GrowthWithinCap ==
    [][pc' # 0 /\ supply'[MintHardCapDenom] > supply[MintHardCapDenom] =>
         supply'[MintHardCapDenom] <= MintHardCapAmount]_vars

CapProvision(s) ==
    IF s.mintParams.mintDenom = MintHardCapDenom
    THEN BlockProvision(NextMinter(s), s.mintParams).amount
    ELSE 0

\* A committed block raises the capped supply by at most the one provision that
\* the previous block's state gives, however often its execution was abandoned
\* and started again before.
OneProvisionPerBlock ==
    [][committed'.supply[MintHardCapDenom] - committed.supply[MintHardCapDenom]
         <= CapProvision(committed)]_vars

\* From some time on nothing of the capped denomination is burnt.
BurnsStop == <>[][pc' # 0 => supply'[MintHardCapDenom] >= supply[MintHardCapDenom]]_vars

\* If burning stops, minting goes on until the cap is met exactly or exceeded
\* since genesis, or until the provision rounds down to nothing: the clamp
\* neither stops short of the cap nor keeps later blocks from filling it.
CapIsReached ==
    BurnsStop => <>[]( \/ committed.supply[MintHardCapDenom] >= MintHardCapAmount
                       \/ CapProvision(committed) = 0 )

\* The supply the committed blocks show, against its abstract promise.
Capped == INSTANCE CappedSupply WITH
            Cap <- MintHardCapAmount,
            GenesisSupplies <- GenesisCapSupplies,
            total <- committed.supply[MintHardCapDenom]

ImplementsCappedSupply == Capped!Spec
=============================================================================
