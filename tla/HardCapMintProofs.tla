------------------------- MODULE HardCapMintProofs -------------------------
(***************************************************************************)
(* Proofs, for every cap, denomination set, precision and choice of mint   *)
(* params, of the safety properties of HardCapMint.                        *)
(***************************************************************************)
EXTENDS HardCapMint, TLAPS

-----------------------------------------------------------------------------
(* The mint module's arithmetic stays within the integers, and the clamp on *)
(* the inflation rate within the params' band.                              *)

\* Truncated division by a positive number gives an integer.
LEMMA QuoTruncType ==
    ASSUME NEW a \in Int, NEW b \in Nat \ {0}
    PROVE  QuoTrunc(a, b) \in Int
BY DEF QuoTrunc

\* Dropping the decimals of a scaled product gives an integer.
LEMMA ChopType ==
    ASSUME NEW x \in Int
    PROVE  ChopPrecisionAndRound(x) \in Int
<1> DEFINE a == IF x < 0 THEN -x ELSE x
           q == a \div Scale
           r == a % Scale
           v == IF 2 * r > Scale \/ (2 * r = Scale /\ q % 2 = 1) THEN q + 1 ELSE q
<1>1. a \in Nat /\ Scale \in Nat \ {0}
  BY AmountAssumption
<1>2. q \in Int
  BY <1>1
<1>3. v \in Int
  BY <1>2
<1> HIDE DEF v
<1>4. (IF x < 0 THEN -v ELSE v) \in Int
  BY <1>3
<1> USE DEF v
<1> QED
  BY <1>4 DEF ChopPrecisionAndRound

\* The product of two decimals is an integer number of units.
LEMMA DecMulType ==
    ASSUME NEW a \in Int, NEW b \in Int
    PROVE  DecMul(a, b) \in Int
BY ChopType, a * b \in Int DEF DecMul

\* So is a quotient with a positive divisor.
LEMMA DecQuoType ==
    ASSUME NEW a \in Int, NEW b \in Nat \ {0}
    PROVE  DecQuo(a, b) \in Int
<1>1. a * Scale * Scale \in Int
  BY AmountAssumption
<1> QED
  BY <1>1, QuoTruncType, ChopType DEF DecQuo

\* The next inflation rate is within the band of the params.
LEMMA InflationInBand ==
    ASSUME NEW p \in MintParamsChoices, NEW inflation \in Nat, NEW ratio \in Int
    PROVE  /\ NextInflationRate(inflation, p, ratio) \in Nat
           /\ NextInflationRate(inflation, p, ratio) \in p.inflationMin..p.inflationMax
<1> DEFINE yearly == DecMul(Scale - DecQuo(ratio, p.goalBonded), p.inflationRateChange)
           x == inflation + DecQuo(yearly, p.blocksPerYear * Scale)
<1>1. /\ p.inflationMin \in Nat /\ p.inflationMax \in Nat
      /\ p.inflationMin <= p.inflationMax
      /\ p.inflationRateChange \in Nat
      /\ p.goalBonded \in Nat \ {0}
      /\ p.blocksPerYear \in Nat \ {0}
      /\ Scale \in Nat \ {0}
  BY ParamsAssumption, AmountAssumption DEF MintParams
<1>2. DecQuo(ratio, p.goalBonded) \in Int
  BY <1>1, DecQuoType
<1>3. yearly \in Int
  <2>1. Scale - DecQuo(ratio, p.goalBonded) \in Int /\ p.inflationRateChange \in Int
    BY <1>1, <1>2
  <2> QED
    BY <2>1, DecMulType
<1>4. p.blocksPerYear * Scale \in Nat \ {0}
  BY <1>1
<1>5. x \in Int
  BY <1>3, <1>4, DecQuoType
<1> HIDE DEF x
<1>6. /\ Clamp(p.inflationMin, p.inflationMax, x) \in Nat
      /\ Clamp(p.inflationMin, p.inflationMax, x) \in p.inflationMin..p.inflationMax
  BY <1>1, <1>5 DEF Clamp
<1> QED
  BY <1>6 DEF NextInflationRate, x

-----------------------------------------------------------------------------
(* A state whose parts have their types.                                    *)

StateOK(s) ==
    /\ s.supply \in [Denoms -> Nat]
    /\ s.bal \in Balances
    /\ s.minter \in MinterItems
    /\ s.mintParams \in MintParamsChoices

\* The bonded ratio of a typed state is a decimal.
LEMMA BondedRatioType ==
    ASSUME NEW s, StateOK(s)
    PROVE  BondedRatio(s) \in Int
<1>1. /\ BondDenom \in Denoms /\ Scale \in Nat \ {0}
      /\ s.bal[BondDenom]["bonded_pool"] \in Nat
      /\ s.supply[BondDenom] \in Nat
  BY DenomAssumption, AmountAssumption DEF StateOK, Balances, Accounts
<1>2. s.bal[BondDenom]["bonded_pool"] * Scale \in Int
  BY <1>1
<1>3. CASE s.supply[BondDenom] > 0
  <2> DEFINE bonded == s.bal[BondDenom]["bonded_pool"] * Scale
             total == s.supply[BondDenom]
  <2>1. BondedRatio(s) = bonded \div total
    BY <1>3 DEF BondedRatio, StakingTokenSupply
  <2> HIDE DEF bonded, total
  <2>2. bonded \in Int /\ total \in Nat /\ total > 0
    BY <1>1, <1>2, <1>3 DEF bonded, total
  <2> QED
    BY <2>1, <2>2
<1>4. CASE ~(s.supply[BondDenom] > 0)
  BY <1>4 DEF BondedRatio, StakingTokenSupply
<1> QED
  BY <1>3, <1>4

\* What NewHardCapMintFn stores in the minter item is a minter item: neither the
\* inflation nor the annual provisions are negative.
LEMMA NextMinterType ==
    ASSUME NEW s, StateOK(s)
    PROVE  NextMinter(s) \in MinterItems
<1> DEFINE rate == NextInflationRate(s.minter.inflation, s.mintParams, BondedRatio(s))
<1>1. rate \in Nat
  BY BondedRatioType, InflationInBand DEF StateOK, MinterItems
<1>2. StakingTokenSupply(s) \in Nat
  BY DenomAssumption DEF StateOK, StakingTokenSupply
<1> HIDE DEF rate
<1>3. rate * StakingTokenSupply(s) \in Nat
  BY <1>1, <1>2
<1>4. [inflation |-> rate, annualProvisions |-> rate * StakingTokenSupply(s)] \in MinterItems
  BY <1>1, <1>3 DEF MinterItems
<1> QED
  BY <1>4 DEF NextMinter, rate

\* The block provision is a coin of the bank's denominations, never negative.
LEMMA ProvisionType ==
    ASSUME NEW s, StateOK(s)
    PROVE  BlockProvision(NextMinter(s), s.mintParams) \in [denom : Denoms, amount : Nat]
<1> DEFINE m == NextMinter(s)
           p == s.mintParams
<1>1. /\ m.annualProvisions \in Nat
      /\ p.blocksPerYear \in Nat \ {0}
      /\ p.mintDenom \in Denoms
      /\ Scale \in Nat \ {0}
  BY NextMinterType, ParamsAssumption, AmountAssumption
  DEF StateOK, MinterItems, MintParams
<1> HIDE DEF m, p
<1>2. m.annualProvisions \div p.blocksPerYear \in Nat
  BY <1>1
<1>3. (m.annualProvisions \div p.blocksPerYear) \div Scale \in Nat
  BY <1>1, <1>2
<1>4. BlockProvision(m, p) \in [denom : Denoms, amount : Nat]
  BY <1>1, <1>3 DEF BlockProvision
<1> QED
  BY <1>4 DEF m, p

(***************************************************************************)
(* What clampMintToHardCap guarantees: a coin of the same denomination, of *)
(* no more than was asked, that does not take the capped supply above the  *)
(* cap.                                                                    *)
(***************************************************************************)
LEMMA ClampBounds ==
    ASSUME NEW current \in Nat, NEW coin \in [denom : Denoms, amount : Nat]
    PROVE  LET c == ClampMintToHardCap(current, coin, MintHardCapDenom, MintHardCapAmount)
           IN  /\ c \in [denom : Denoms, amount : Nat]
               /\ c.denom = coin.denom
               /\ c.amount <= coin.amount
               /\ (c.denom = MintHardCapDenom /\ c.amount > 0)
                    => current + c.amount <= MintHardCapAmount
<1> DEFINE c == ClampMintToHardCap(current, coin, MintHardCapDenom, MintHardCapAmount)
<1>1. MintHardCapDenom # ""
  BY DenomAssumption, Zenon
<1>2. MintHardCapAmount \in Nat /\ MintHardCapAmount > 0
  BY AmountAssumption
<1>3. coin.denom \in Denoms /\ coin.amount \in Nat
  OBVIOUS
<1>4. \A n \in Nat : /\ [coin EXCEPT !.amount = n] \in [denom : Denoms, amount : Nat]
                     /\ [coin EXCEPT !.amount = n].denom = coin.denom
                    /\ [coin EXCEPT !.amount = n].amount = n
  OBVIOUS
<1>4a. ~(MintHardCapAmount <= 0)
  BY <1>2
<1>5. CASE coin.amount <= 0 \/ coin.denom # MintHardCapDenom
  <2>1. c = coin
    BY <1>5 DEF ClampMintToHardCap
  <2> QED
    BY <1>3, <1>5, <2>1
<1>6. CASE /\ ~(coin.amount <= 0 \/ coin.denom # MintHardCapDenom)
           /\ current >= MintHardCapAmount
  <2>1. c = [coin EXCEPT !.amount = 0]
    BY <1>1, <1>6, <1>4a, Zenon DEF ClampMintToHardCap
  <2> QED
    BY <1>3, <1>4, <2>1
<1>7. CASE /\ ~(coin.amount <= 0 \/ coin.denom # MintHardCapDenom)
           /\ ~(current >= MintHardCapAmount)
  <2> DEFINE n == IF coin.amount < MintHardCapAmount - current
                  THEN coin.amount ELSE MintHardCapAmount - current
  <2>1. c = [coin EXCEPT !.amount = n]
    BY <1>1, <1>7, <1>4a, Zenon DEF ClampMintToHardCap, Lesser
  <2>2. n \in Nat /\ n <= coin.amount /\ current + n <= MintHardCapAmount
    BY <1>2, <1>3, <1>7
  <2> HIDE DEF n
  <2>3. c \in [denom : Denoms, amount : Nat] /\ c.denom = coin.denom /\ c.amount = n
    BY <1>4, <2>1, <2>2
  <2> HIDE DEF c
  <2>4. /\ c \in [denom : Denoms, amount : Nat]
        /\ c.denom = coin.denom
        /\ c.amount <= coin.amount
        /\ (c.denom = MintHardCapDenom /\ c.amount > 0)
             => current + c.amount <= MintHardCapAmount
    BY <2>2, <2>3
  <2> QED
    BY <2>4 DEF c
<1> QED
  BY <1>5, <1>6, <1>7

\* The mint function mints the mint params' denomination, no more than the block
\* provision, and of the capped denomination no more than the cap leaves.
LEMMA MintedCoinBounds ==
    ASSUME NEW s, StateOK(s)
    PROVE  /\ MintedCoin(s) \in [denom : Denoms, amount : Nat]
           /\ MintedCoin(s).denom = s.mintParams.mintDenom
           /\ MintedCoin(s).amount <= BlockProvision(NextMinter(s), s.mintParams).amount
           /\ (MintedCoin(s).denom = MintHardCapDenom /\ MintedCoin(s).amount > 0)
                => s.supply[MintHardCapDenom] + MintedCoin(s).amount <= MintHardCapAmount
<1>1. s.supply[MintHardCapDenom] \in Nat
  BY DenomAssumption DEF StateOK
<1>2. BlockProvision(NextMinter(s), s.mintParams).denom = s.mintParams.mintDenom
  BY DEF BlockProvision
<1> QED
  BY <1>1, <1>2, ProvisionType, ClampBounds DEF MintedCoin

-----------------------------------------------------------------------------
(* Crediting and moving coins.                                              *)

IntBalances == [Denoms -> [Accounts -> Int]]

\* Crediting changes one balance of one account and no other.
LEMMA CreditValue ==
    ASSUME NEW b \in IntBalances, NEW d \in Denoms, NEW a \in Accounts, NEW n \in Int
    PROVE  /\ Credit(b, d, a, n) \in IntBalances
           /\ \A e \in Denoms, x \in Accounts :
                Credit(b, d, a, n)[e][x] = IF e = d /\ x = a THEN b[e][x] + n ELSE b[e][x]
<1> DEFINE row == [b[d] EXCEPT ![a] = @ + n]
           c   == [b EXCEPT ![d] = row]
<1>1. /\ b[d] \in [Accounts -> Int]
      /\ \A e \in Denoms, x \in Accounts : b[e][x] \in Int
  BY DEF IntBalances
<1>2. /\ row \in [Accounts -> Int]
      /\ \A x \in Accounts : row[x] = IF x = a THEN b[d][x] + n ELSE b[d][x]
  BY <1>1
<1>3. Credit(b, d, a, n) = c
  BY DEF Credit
<1> HIDE DEF row
<1>4. c \in IntBalances /\ \A e \in Denoms : c[e] = IF e = d THEN row ELSE b[e]
  BY <1>2 DEF IntBalances
<1> HIDE DEF c
<1> QED
  BY <1>2, <1>3, <1>4

\* Crediting n coins of d changes the total held of d by n.
LEMMA CreditHeld ==
    ASSUME NEW b \in IntBalances, NEW d \in Denoms, NEW a \in Accounts, NEW n \in Int
    PROVE  \A e \in Denoms :
             Held(Credit(b, d, a, n), e) = IF e = d THEN Held(b, e) + n ELSE Held(b, e)
<1>1. /\ "holders" \in Accounts /\ "mint" \in Accounts /\ "fee_collector" \in Accounts
      /\ "distribution" \in Accounts /\ "bonded_pool" \in Accounts
  BY DEF Accounts
<1> TAKE e \in Denoms
<1>2. \A x \in Accounts : b[e][x] \in Int
  BY DEF IntBalances
<1>3. CASE e # d
  <2> DEFINE c == Credit(b, d, a, n)
  <2>1. \A x \in Accounts : c[e][x] = b[e][x]
    BY <1>3, CreditValue
  <2> HIDE DEF c
  <2>2. Held(c, e) = Held(b, e)
    BY <1>1, <2>1, Zenon DEF Held
  <2> QED
    BY <1>3, <2>2, Zenon DEF c
<1>4. CASE e = d
  <2> DEFINE c == Credit(b, d, a, n)
  <2>1. \A x \in Accounts : c[e][x] = IF x = a THEN b[e][x] + n ELSE b[e][x]
    BY <1>4, CreditValue
  <2> HIDE DEF c
  <2>2. Held(c, e) = Held(b, e) + n
    BY <1>1, <1>2, <2>1 DEF Held, Accounts
  <2> QED
    BY <1>4, <2>2 DEF c
<1> QED
  BY <1>3, <1>4

\* Both facts for a debit, a credit of a negative amount.
LEMMA DebitValue ==
    ASSUME NEW b \in IntBalances, NEW d \in Denoms, NEW a \in Accounts, NEW n \in Int
    PROVE  /\ Credit(b, d, a, -n) \in IntBalances
           /\ \A e \in Denoms, x \in Accounts :
                Credit(b, d, a, -n)[e][x] =
                  IF e = d /\ x = a THEN b[e][x] + (-n) ELSE b[e][x]
           /\ \A e \in Denoms :
                Held(Credit(b, d, a, -n), e) =
                  IF e = d THEN Held(b, e) + (-n) ELSE Held(b, e)
<1>1. -n \in Int
  OBVIOUS
<1> QED
  BY <1>1, CreditValue, CreditHeld

\* A move changes the two balances by n and no denomination's total.
LEMMA MoveValue ==
    ASSUME NEW b \in IntBalances, NEW d \in Denoms,
           NEW from \in Accounts, NEW to \in Accounts, NEW n \in Int
    PROVE  /\ Move(b, d, from, to, n) \in IntBalances
           /\ \A e \in Denoms, x \in Accounts :
                Move(b, d, from, to, n)[e][x] =
                  b[e][x] + (IF e = d /\ x = to THEN n ELSE 0)
                          - (IF e = d /\ x = from THEN n ELSE 0)
           /\ \A e \in Denoms : Held(Move(b, d, from, to, n), e) = Held(b, e)
<1> DEFINE c == Credit(b, d, from, -n)
<1>2. /\ c \in IntBalances
      /\ \A e \in Denoms, x \in Accounts :
           c[e][x] = IF e = d /\ x = from THEN b[e][x] + (-n) ELSE b[e][x]
  BY DebitValue
<1>3. \A e \in Denoms : Held(c, e) = IF e = d THEN Held(b, e) + (-n) ELSE Held(b, e)
  BY DebitValue
<1>4. \A e \in Denoms : Held(b, e) \in Int
  BY DEF Held, IntBalances, Accounts
<1>5. \A e \in Denoms, x \in Accounts : b[e][x] \in Int
  BY DEF IntBalances
<1>6. Move(b, d, from, to, n) = Credit(c, d, to, n)
  BY DEF Move
<1> HIDE DEF c
<1>7. /\ Credit(c, d, to, n) \in IntBalances
      /\ \A e \in Denoms, x \in Accounts :
           Credit(c, d, to, n)[e][x] = IF e = d /\ x = to THEN c[e][x] + n ELSE c[e][x]
      /\ \A e \in Denoms :
           Held(Credit(c, d, to, n), e) = IF e = d THEN Held(c, e) + n ELSE Held(c, e)
  BY <1>2, CreditValue, CreditHeld
<1> QED
  BY <1>2, <1>3, <1>4, <1>5, <1>6, <1>7

-----------------------------------------------------------------------------
(* The inductive core: types, and a supply that the balances account for.   *)

CoreInv == TypeOK /\ SupplyBacked

\* Balances that are natural numbers stay so when a covered amount is moved.
LEMMA TransferType ==
    ASSUME NEW b \in Balances, NEW d \in Denoms,
           NEW from \in Accounts, NEW to \in Accounts, NEW n \in Nat, n <= b[d][from]
    PROVE  /\ Move(b, d, from, to, n) \in Balances
           /\ \A e \in Denoms : Held(Move(b, d, from, to, n), e) = Held(b, e)
           /\ \A e \in Denoms, x \in Accounts :
                Move(b, d, from, to, n)[e][x] =
                  b[e][x] + (IF e = d /\ x = to THEN n ELSE 0)
                          - (IF e = d /\ x = from THEN n ELSE 0)
<1>1. b \in IntBalances /\ \A e \in Denoms, x \in Accounts : b[e][x] \in Nat
  BY DEF Balances, IntBalances
<1> DEFINE c == Move(b, d, from, to, n)
<1>2. /\ c \in IntBalances
      /\ \A e \in Denoms, x \in Accounts :
           c[e][x] = b[e][x] + (IF e = d /\ x = to THEN n ELSE 0)
                             - (IF e = d /\ x = from THEN n ELSE 0)
      /\ \A e \in Denoms : Held(c, e) = Held(b, e)
  BY <1>1, MoveValue, SMTT(30)
<1> HIDE DEF c
<1>3. \A e \in Denoms, x \in Accounts : c[e][x] \in Nat
  BY <1>1, <1>2
<1>4. c \in Balances
  BY <1>2, <1>3 DEF IntBalances, Balances
<1> QED
  BY <1>2, <1>4 DEF c

\* Destroying covered coins keeps balances and supply natural and in step.
LEMMA BurnCore ==
    ASSUME NEW b \in Balances, NEW s \in [Denoms -> Nat],
           \A e \in Denoms : s[e] = Held(b, e),
           NEW d \in Denoms, NEW a \in Burners, NEW n \in Nat, n <= b[d][a]
    PROVE  /\ [s EXCEPT ![d] = @ - n] \in [Denoms -> Nat]
           /\ Credit(b, d, a, -n) \in Balances
           /\ \A e \in Denoms : [s EXCEPT ![d] = @ - n][e] = Held(Credit(b, d, a, -n), e)
           /\ \A e \in Denoms : [s EXCEPT ![d] = @ - n][e] <= s[e]
           /\ \A e \in Denoms : Credit(b, d, a, -n)[e]["mint"] = b[e]["mint"]
           /\ \A e \in Denoms : Credit(b, d, a, -n)[e]["fee_collector"] = b[e]["fee_collector"]
<1>0. b \in IntBalances
  BY DEF Balances, IntBalances
<1>1. \A e \in Denoms, x \in Accounts : b[e][x] \in Nat
  BY DEF Balances
<1>2. a \in Accounts
  BY DEF Accounts, Burners
<1>2a. /\ "mint" \in Accounts /\ a # "mint"
       /\ "fee_collector" \in Accounts /\ a # "fee_collector"
  BY DEF Accounts, Burners
<1>3. /\ Credit(b, d, a, -n) \in IntBalances
      /\ \A e \in Denoms, x \in Accounts :
           Credit(b, d, a, -n)[e][x] = IF e = d /\ x = a THEN b[e][x] + (-n) ELSE b[e][x]
      /\ \A e \in Denoms :
           Held(Credit(b, d, a, -n), e) = IF e = d THEN Held(b, e) + (-n) ELSE Held(b, e)
  BY <1>0, <1>2, DebitValue
<1> DEFINE c == Credit(b, d, a, -n)
           t == [s EXCEPT ![d] = @ - n]
<1>4. /\ c \in IntBalances
      /\ \A e \in Denoms, x \in Accounts :
           c[e][x] = IF e = d /\ x = a THEN b[e][x] + (-n) ELSE b[e][x]
      /\ \A e \in Denoms : Held(c, e) = IF e = d THEN Held(b, e) + (-n) ELSE Held(b, e)
  BY <1>3
<1> HIDE DEF c
<1>5. \A e \in Denoms, x \in Accounts : c[e][x] \in Nat
  BY <1>1, <1>4
<1>6. c \in Balances
  BY <1>4, <1>5 DEF IntBalances, Balances
<1>7. s[d] >= b[d][a] /\ s[d] \in Nat
  BY <1>1, <1>2 DEF Held, Accounts
<1>8. s[d] - n \in Nat
  BY <1>1, <1>2, <1>7
<1>9. /\ t \in [Denoms -> Nat]
      /\ \A e \in Denoms : t[e] = IF e = d THEN s[e] - n ELSE s[e]
  BY <1>8
<1> HIDE DEF t
<1>10. /\ t \in [Denoms -> Nat]
       /\ c \in Balances
       /\ \A e \in Denoms : t[e] = Held(c, e)
       /\ \A e \in Denoms : t[e] <= s[e]
       /\ \A e \in Denoms : c[e]["mint"] = b[e]["mint"]
       /\ \A e \in Denoms : c[e]["fee_collector"] = b[e]["fee_collector"]
  BY <1>2a, <1>4, <1>6, <1>9
<1> QED
  BY <1>10 DEF c, t

\* Creating coins in one account keeps balances and supply natural and in step.
LEMMA IssueCore ==
    ASSUME NEW b \in Balances, NEW s \in [Denoms -> Nat],
           \A e \in Denoms : s[e] = Held(b, e),
           NEW d \in Denoms, NEW a \in Accounts, NEW n \in Nat
    PROVE  /\ [s EXCEPT ![d] = @ + n] \in [Denoms -> Nat]
           /\ Credit(b, d, a, n) \in Balances
           /\ \A e \in Denoms : [s EXCEPT ![d] = @ + n][e] = Held(Credit(b, d, a, n), e)
           /\ \A e \in Denoms, x \in Accounts :
                Credit(b, d, a, n)[e][x] = IF e = d /\ x = a THEN b[e][x] + n ELSE b[e][x]
<1>0. b \in IntBalances
  BY DEF Balances, IntBalances
<1>1. \A e \in Denoms, x \in Accounts : b[e][x] \in Nat
  BY DEF Balances
<1>2. n \in Int
  OBVIOUS
<1>2a. Credit(b, d, a, n) \in IntBalances
  BY <1>0, <1>2, CreditValue
<1>2b. \A e \in Denoms, x \in Accounts :
         Credit(b, d, a, n)[e][x] = IF e = d /\ x = a THEN b[e][x] + n ELSE b[e][x]
  BY <1>0, <1>2, CreditValue
<1>2c. \A e \in Denoms :
         Held(Credit(b, d, a, n), e) = IF e = d THEN Held(b, e) + n ELSE Held(b, e)
  BY <1>0, <1>2, CreditHeld, ZenonT(30)
<1> DEFINE c == Credit(b, d, a, n)
           t == [s EXCEPT ![d] = @ + n]
<1>3. /\ c \in IntBalances
      /\ \A e \in Denoms, x \in Accounts :
           c[e][x] = IF e = d /\ x = a THEN b[e][x] + n ELSE b[e][x]
  BY <1>2a, <1>2b
<1>4. \A e \in Denoms : Held(c, e) = IF e = d THEN Held(b, e) + n ELSE Held(b, e)
  BY <1>2c
<1> HIDE DEF c
<1>5. \A e \in Denoms, x \in Accounts : c[e][x] \in Nat
  BY <1>1, <1>3
<1>6. c \in Balances
  BY <1>3, <1>5 DEF IntBalances, Balances
<1>7. s[d] + n \in Nat
  OBVIOUS
<1>8. /\ t \in [Denoms -> Nat]
      /\ \A e \in Denoms : t[e] = IF e = d THEN s[e] + n ELSE s[e]
  BY <1>7
<1> HIDE DEF t
<1>9. \A e \in Denoms : t[e] = Held(c, e)
  BY <1>4, <1>8
<1> QED
  BY <1>3, <1>6, <1>8, <1>9 DEF c, t

\* The two bank effects of the mint function together.
LEMMA MintCore ==
    ASSUME NEW b \in Balances, NEW s \in [Denoms -> Nat],
           \A e \in Denoms : s[e] = Held(b, e),
           NEW coin \in [denom : Denoms, amount : Nat]
    PROVE  /\ AddCollectedFees(MintCoins(b, coin), coin) \in Balances
           /\ \A e \in Denoms : [s EXCEPT ![coin.denom] = @ + coin.amount][e]
                = Held(AddCollectedFees(MintCoins(b, coin), coin), e)
           /\ \A e \in Denoms : AddCollectedFees(MintCoins(b, coin), coin)[e]["mint"] = b[e]["mint"]
<1> DEFINE d == coin.denom
           n == coin.amount
           c == Credit(b, d, "mint", n)
           m == Move(c, d, "mint", "fee_collector", n)
           t == [s EXCEPT ![d] = @ + n]
<1>1. /\ d \in Denoms /\ n \in Nat
      /\ "mint" \in Accounts /\ "fee_collector" \in Accounts
  BY DEF Accounts
<1>2. AddCollectedFees(MintCoins(b, coin), coin) = m
  BY DEF AddCollectedFees, MintCoins
<1> HIDE DEF d, n
<1>3. /\ c \in Balances
      /\ \A e \in Denoms : t[e] = Held(c, e)
      /\ \A e \in Denoms, x \in Accounts :
           c[e][x] = IF e = d /\ x = "mint" THEN b[e][x] + n ELSE b[e][x]
  BY <1>1, IssueCore, SMTT(30)
<1>4. b[d]["mint"] \in Nat /\ \A e \in Denoms : b[e]["mint"] \in Nat
  BY <1>1 DEF Balances
<1>5. n <= c[d]["mint"]
  BY <1>1, <1>3, <1>4
<1> HIDE DEF c
<1>6. /\ m \in Balances
      /\ \A e \in Denoms : Held(m, e) = Held(c, e)
      /\ \A e \in Denoms, x \in Accounts :
           m[e][x] = c[e][x] + (IF e = d /\ x = "fee_collector" THEN n ELSE 0)
                             - (IF e = d /\ x = "mint" THEN n ELSE 0)
  BY <1>1, <1>3, <1>5, TransferType
<1> HIDE DEF m, t
<1>7. \A e \in Denoms : m[e]["mint"] = b[e]["mint"]
  <2> TAKE e \in Denoms
  <2>1. m[e]["mint"] = c[e]["mint"] + 0 - (IF e = d THEN n ELSE 0)
    BY <1>1, <1>6
  <2>2. c[e]["mint"] = IF e = d THEN b[e]["mint"] + n ELSE b[e]["mint"]
    BY <1>1, <1>3
  <2> QED
    BY <1>1, <1>4, <2>1, <2>2
<1>8. \A e \in Denoms : t[e] = Held(m, e)
  BY <1>3, <1>6
<1> QED
  BY <1>2, <1>6, <1>7, <1>8 DEF t, d, n

-----------------------------------------------------------------------------
(* Type correctness and the supply's backing.                               *)

\* Every genesis the model starts from is typed and backed.
LEMMA CoreInit == Init => CoreInv
<1> SUFFICES ASSUME Init PROVE CoreInv
  OBVIOUS
<1>1. PICK p \in MintParamsChoices, g \in GenesisCapSupplies :
        \E bonded \in 0..g, rate \in {p.inflationMin, p.inflationMax} :
          /\ mintParams = p
          /\ minter = [inflation |-> rate, annualProvisions |-> 0]
          /\ supply = [d \in Denoms |-> IF d = MintHardCapDenom THEN g ELSE 0]
          /\ bal = [d \in Denoms |-> [a \in Accounts |->
                      IF d # MintHardCapDenom THEN 0
                      ELSE IF a = "holders" THEN g - bonded
                      ELSE IF a = "bonded_pool" THEN bonded
                      ELSE 0]]
          /\ pc = 0
          /\ txs = 0
          /\ committed = Snapshot(0)
  BY DEF Init
<1>2. PICK bonded \in 0..g, rate \in {p.inflationMin, p.inflationMax} :
          /\ mintParams = p
          /\ minter = [inflation |-> rate, annualProvisions |-> 0]
          /\ supply = [d \in Denoms |-> IF d = MintHardCapDenom THEN g ELSE 0]
          /\ bal = [d \in Denoms |-> [a \in Accounts |->
                      IF d # MintHardCapDenom THEN 0
                      ELSE IF a = "holders" THEN g - bonded
                      ELSE IF a = "bonded_pool" THEN bonded
                      ELSE 0]]
          /\ pc = 0
          /\ txs = 0
          /\ committed = Snapshot(0)
  BY <1>1
<1>3. /\ g \in Nat /\ bonded \in Nat /\ g - bonded \in Nat
      /\ p \in MintParams /\ rate \in Nat /\ MaxTxs \in Nat
  BY AmountAssumption, ParamsAssumption DEF MintParams
<1>4. supply \in [Denoms -> Nat]
  BY <1>2, <1>3
<1>5. bal \in Balances
  BY <1>2, <1>3 DEF Balances
<1>6. minter \in MinterItems
  BY <1>2, <1>3 DEF MinterItems
<1>7. Failed \in Nat
  BY DEF Failed, BeginBlockers
<1>8. TypeOK
  BY <1>2, <1>3, <1>4, <1>5, <1>6, <1>7 DEF TypeOK, Snapshot
<1>9. ASSUME NEW d \in Denoms PROVE supply[d] = Held(bal, d)
  <2>1. CASE d # MintHardCapDenom
    <3>1. supply[d] = 0 /\ \A a \in Accounts : bal[d][a] = 0
      BY <1>2, <2>1
    <3> QED
      BY <3>1 DEF Held, Accounts
  <2>2. CASE d = MintHardCapDenom
    <3>1. supply[d] = g
      BY <1>2, <2>2
    <3>2. \A a \in Accounts : bal[d][a] = IF a = "holders" THEN g - bonded
                                       ELSE IF a = "bonded_pool" THEN bonded ELSE 0
      BY <1>2, <2>2
    <3>3. /\ bal[d]["holders"] = g - bonded /\ bal[d]["bonded_pool"] = bonded
          /\ bal[d]["mint"] = 0 /\ bal[d]["fee_collector"] = 0
          /\ bal[d]["distribution"] = 0
      BY <3>2 DEF Accounts
    <3> QED
      BY <1>3, <3>1, <3>3 DEF Held
  <2> QED
    BY <2>1, <2>2
<1>10. committed.supply = supply /\ committed.bal = bal
  BY <1>2 DEF Snapshot
<1>11. SupplyBacked
  BY <1>9, <1>10 DEF SupplyBacked
<1> QED
  BY <1>8, <1>11 DEF CoreInv

\* The coin the mint function creates, and the balances it leaves.
LEMMA MintStep ==
    ASSUME TypeOK, SupplyBacked
    PROVE  /\ StateOK(WorkState)
           /\ NextMinter(WorkState) \in MinterItems
           /\ MintedCoin(WorkState) \in [denom : Denoms, amount : Nat]
           /\ MintedSupply(MintedCoin(WorkState)) \in [Denoms -> Nat]
           /\ LET b == AddCollectedFees(MintCoins(bal, MintedCoin(WorkState)), MintedCoin(WorkState))
              IN  /\ b \in Balances
                  /\ \A e \in Denoms : MintedSupply(MintedCoin(WorkState))[e] = Held(b, e)
                  /\ \A e \in Denoms : b[e]["mint"] = bal[e]["mint"]
           /\ LET b == MintCoins(bal, MintedCoin(WorkState))
              IN  /\ b \in Balances
                  /\ \A e \in Denoms : MintedSupply(MintedCoin(WorkState))[e] = Held(b, e)
<1> DEFINE coin == MintedCoin(WorkState)
<1>1. StateOK(WorkState)
  BY DEF TypeOK, StateOK, WorkState
<1>2. NextMinter(WorkState) \in MinterItems
  BY <1>1, NextMinterType
<1>3. coin \in [denom : Denoms, amount : Nat]
  BY <1>1, MintedCoinBounds
<1>4. /\ bal \in Balances /\ supply \in [Denoms -> Nat]
      /\ \A e \in Denoms : supply[e] = Held(bal, e)
  BY DEF TypeOK, SupplyBacked
<1> HIDE DEF coin
<1>5. /\ AddCollectedFees(MintCoins(bal, coin), coin) \in Balances
      /\ \A e \in Denoms : [supply EXCEPT ![coin.denom] = @ + coin.amount][e]
           = Held(AddCollectedFees(MintCoins(bal, coin), coin), e)
      /\ \A e \in Denoms : AddCollectedFees(MintCoins(bal, coin), coin)[e]["mint"] = bal[e]["mint"]
  BY <1>3, <1>4, MintCore
<1>6. /\ coin.denom \in Denoms /\ coin.amount \in Nat /\ "mint" \in Accounts
  BY <1>3 DEF Accounts
<1>7. /\ [supply EXCEPT ![coin.denom] = @ + coin.amount] \in [Denoms -> Nat]
      /\ Credit(bal, coin.denom, "mint", coin.amount) \in Balances
      /\ \A e \in Denoms : [supply EXCEPT ![coin.denom] = @ + coin.amount][e]
           = Held(Credit(bal, coin.denom, "mint", coin.amount), e)
  BY <1>4, <1>6, IssueCore
<1>8. /\ MintedSupply(coin) = [supply EXCEPT ![coin.denom] = @ + coin.amount]
      /\ MintCoins(bal, coin) = Credit(bal, coin.denom, "mint", coin.amount)
  BY DEF MintedSupply, MintCoins
<1> QED
  BY <1>1, <1>2, <1>3, <1>5, <1>7, <1>8 DEF coin

\* Allocation: the fee collector's row of every denomination is moved.
LEMMA AllocateCore ==
    ASSUME NEW b \in Balances
    PROVE  LET m == [d \in Denoms |->
                      Move(b, d, "fee_collector", "distribution", b[d]["fee_collector"])[d]]
           IN  /\ m \in Balances
               /\ \A e \in Denoms : Held(m, e) = Held(b, e)
               /\ \A e \in Denoms : m[e]["mint"] = b[e]["mint"]
               /\ \A e \in Denoms : m[e]["fee_collector"] = 0
<1> DEFINE row(d) == Move(b, d, "fee_collector", "distribution", b[d]["fee_collector"])
           m == [d \in Denoms |-> row(d)[d]]
<1> HIDE DEF m
<1>1. /\ "fee_collector" \in Accounts /\ "distribution" \in Accounts
      /\ "mint" \in Accounts
  BY DEF Accounts
<1>2. \A d \in Denoms, x \in Accounts : b[d][x] \in Nat
  BY DEF Balances
<1>3. ASSUME NEW e \in Denoms
      PROVE  /\ row(e) \in Balances
             /\ Held(row(e), e) = Held(b, e)
             /\ \A x \in Accounts :
                  row(e)[e][x] = b[e][x] + (IF x = "distribution" THEN b[e]["fee_collector"] ELSE 0)
                                         - (IF x = "fee_collector" THEN b[e]["fee_collector"] ELSE 0)
  <2>1. PICK n \in Nat : n = b[e]["fee_collector"]
    BY <1>1, <1>2
  <2>2. \A from \in Accounts, to \in Accounts :
          n <= b[e][from] =>
            /\ Move(b, e, from, to, n) \in Balances
            /\ Held(Move(b, e, from, to, n), e) = Held(b, e)
            /\ \A x \in Accounts :
                 Move(b, e, from, to, n)[e][x] =
                   b[e][x] + (IF x = to THEN n ELSE 0) - (IF x = from THEN n ELSE 0)
    <3> SUFFICES ASSUME NEW from \in Accounts, NEW to \in Accounts, n <= b[e][from]
                 PROVE  /\ Move(b, e, from, to, n) \in Balances
                        /\ Held(Move(b, e, from, to, n), e) = Held(b, e)
                        /\ \A x \in Accounts :
                             Move(b, e, from, to, n)[e][x] =
                               b[e][x] + (IF x = to THEN n ELSE 0)
                                       - (IF x = from THEN n ELSE 0)
      OBVIOUS
    <3>1. Move(b, e, from, to, n) \in Balances
      BY TransferType
    <3>2. \A f \in Denoms : Held(Move(b, e, from, to, n), f) = Held(b, f)
      BY TransferType
    <3>3. \A f \in Denoms, x \in Accounts :
            Move(b, e, from, to, n)[f][x] =
              b[f][x] + (IF f = e /\ x = to THEN n ELSE 0)
                      - (IF f = e /\ x = from THEN n ELSE 0)
      BY TransferType
    <3> QED
      BY <3>1, <3>2, <3>3
  <2>3. row(e) = Move(b, e, "fee_collector", "distribution", n)
    BY <2>1
  <2>4. n <= b[e]["fee_collector"]
    BY <2>1
  <2> HIDE DEF row
  <2> QED
    BY <1>1, <2>1, <2>2, <2>3, <2>4
<1> HIDE DEF row
<1> USE DEF m
<1>4. \A e \in Denoms : m[e] = row(e)[e]
  OBVIOUS
<1>5. \A e \in Denoms : row(e)[e] \in [Accounts -> Nat]
  BY <1>3 DEF Balances
<1>6. m \in Balances
  BY <1>5 DEF Balances
<1>7. \A e \in Denoms : Held(m, e) = Held(row(e), e)
  BY <1>4 DEF Held
<1>8. \A e \in Denoms : m[e]["mint"] = b[e]["mint"] /\ m[e]["fee_collector"] = 0
  <2> TAKE e \in Denoms
  <2>1. /\ row(e)[e]["mint"] = b[e]["mint"] + 0 - 0
        /\ row(e)[e]["fee_collector"] = b[e]["fee_collector"] + 0 - b[e]["fee_collector"]
    BY <1>1, <1>3
  <2>2. b[e]["mint"] \in Nat /\ b[e]["fee_collector"] \in Nat
    BY <1>1, <1>2
  <2> QED
    BY <1>4, <2>1, <2>2
<1> HIDE DEF m
<1>9. /\ m \in Balances
      /\ \A e \in Denoms : Held(m, e) = Held(b, e)
      /\ \A e \in Denoms : m[e]["mint"] = b[e]["mint"]
      /\ \A e \in Denoms : m[e]["fee_collector"] = 0
  BY <1>3, <1>6, <1>7, <1>8
<1> QED
  BY <1>9 DEF m, row

-----------------------------------------------------------------------------
(* What the transactions of a block and the slashes have in common.         *)

TxAction == \/ Send \/ PayFees \/ WithdrawRewards \/ Delegate \/ Undelegate
            \/ BurnDeposit \/ MintVoucher \/ UpdateMintParams

\* Bank effects of a step that neither mints the capped denomination nor
\* touches the mint account.
BankOK ==
    /\ supply' \in [Denoms -> Nat]
    /\ bal' \in Balances
    /\ \A e \in Denoms : supply'[e] = Held(bal', e)
    /\ supply'[MintHardCapDenom] <= supply[MintHardCapDenom]
    /\ \A e \in Denoms : bal'[e]["mint"] = bal[e]["mint"]

\* A transfer between accounts other than mint's keeps balances typed and backed.
LEMMA TransferOK ==
    ASSUME CoreInv,
           NEW d \in Denoms, NEW from \in Accounts \ {"mint"}, NEW to \in Accounts \ {"mint"},
           NEW n \in Nat, Transfer(d, from, to, n)
    PROVE  BankOK /\ mintParams' \in MintParamsChoices
<1>1. /\ bal \in Balances /\ supply \in [Denoms -> Nat]
      /\ \A e \in Denoms : supply[e] = Held(bal, e)
      /\ mintParams \in MintParamsChoices
  BY DEF CoreInv, TypeOK, SupplyBacked
<1>2. /\ n <= bal[d][from] /\ bal' = Move(bal, d, from, to, n)
      /\ supply' = supply /\ mintParams' = mintParams
  BY DEF Transfer
<1> DEFINE m == Move(bal, d, from, to, n)
<1>3. from \in Accounts /\ to \in Accounts /\ "mint" \in Accounts
  BY DEF Accounts
<1>4. /\ m \in Balances
      /\ \A e \in Denoms : Held(m, e) = Held(bal, e)
      /\ \A e \in Denoms, x \in Accounts :
           m[e][x] = bal[e][x] + (IF e = d /\ x = to THEN n ELSE 0)
                               - (IF e = d /\ x = from THEN n ELSE 0)
  BY <1>1, <1>2, <1>3, TransferType
<1> HIDE DEF m
<1>5. \A e \in Denoms : m[e]["mint"] = bal[e]["mint"]
  <2> TAKE e \in Denoms
  <2>1. from # "mint" /\ to # "mint" /\ bal[e]["mint"] \in Nat
    BY <1>1, <1>3 DEF Balances
  <2>2. m[e]["mint"] = bal[e]["mint"] + 0 - 0
    BY <1>3, <1>4, <2>1
  <2> QED
    BY <2>1, <2>2
<1>6. bal' = m
  BY <1>2 DEF m
<1>7. supply[MintHardCapDenom] \in Nat
  BY <1>1, DenomAssumption
<1>8. supply'[MintHardCapDenom] <= supply[MintHardCapDenom]
  BY <1>2, <1>7
<1>9. \A e \in Denoms : supply'[e] = Held(bal', e)
  BY <1>1, <1>2, <1>4, <1>6
<1> QED
  BY <1>1, <1>2, <1>4, <1>5, <1>6, <1>8, <1>9 DEF BankOK

\* A burn from an account with the burner permission does, and does not add coins.
LEMMA BurnOK ==
    ASSUME CoreInv, NEW d \in Denoms, NEW a \in Burners, NEW n \in Nat, Burn(d, a, n)
    PROVE  BankOK
<1>1. /\ bal \in Balances /\ supply \in [Denoms -> Nat]
      /\ \A e \in Denoms : supply[e] = Held(bal, e)
  BY DEF CoreInv, TypeOK, SupplyBacked
<1>2. /\ n <= bal[d][a] /\ bal' = Credit(bal, d, a, -n)
      /\ supply' = [supply EXCEPT ![d] = @ - n]
  BY DEF Burn
<1>3. /\ [supply EXCEPT ![d] = @ - n] \in [Denoms -> Nat]
      /\ Credit(bal, d, a, -n) \in Balances
      /\ \A e \in Denoms : [supply EXCEPT ![d] = @ - n][e] = Held(Credit(bal, d, a, -n), e)
      /\ \A e \in Denoms : [supply EXCEPT ![d] = @ - n][e] <= supply[e]
      /\ \A e \in Denoms : Credit(bal, d, a, -n)[e]["mint"] = bal[e]["mint"]
  BY <1>1, <1>2, BurnCore
<1>4. supply'[MintHardCapDenom] <= supply[MintHardCapDenom]
  BY <1>2, <1>3, DenomAssumption
<1> QED
  BY <1>2, <1>3, <1>4 DEF BankOK

\* Minting an IBC voucher does, and does not touch the capped denomination.
LEMMA VoucherOK ==
    ASSUME CoreInv, NEW d \in Vouchers, NEW n \in Nat,
           bal' = Credit(bal, d, "holders", n), supply' = [supply EXCEPT ![d] = @ + n]
    PROVE  BankOK
<1>1. /\ bal \in Balances /\ supply \in [Denoms -> Nat]
      /\ \A e \in Denoms : supply[e] = Held(bal, e)
  BY DEF CoreInv, TypeOK, SupplyBacked
<1>2. /\ d \in Denoms /\ d # MintHardCapDenom /\ MintHardCapDenom \in Denoms
      /\ "holders" \in Accounts /\ "mint" \in Accounts
  BY DenomAssumption DEF Accounts
<1>3. /\ [supply EXCEPT ![d] = @ + n] \in [Denoms -> Nat]
      /\ Credit(bal, d, "holders", n) \in Balances
      /\ \A e \in Denoms : [supply EXCEPT ![d] = @ + n][e] = Held(Credit(bal, d, "holders", n), e)
      /\ \A e \in Denoms, x \in Accounts : Credit(bal, d, "holders", n)[e][x] =
           IF e = d /\ x = "holders" THEN bal[e][x] + n ELSE bal[e][x]
  <2>1. d \in Denoms /\ "holders" \in Accounts
    BY <1>2
  <2> QED
    BY <1>1, <2>1, IssueCore, SMTT(30)
<1>4. supply[MintHardCapDenom] \in Nat /\ supply'[MintHardCapDenom] = supply[MintHardCapDenom]
  BY <1>1, <1>2
<1>5. \A e \in Denoms : bal'[e]["mint"] = bal[e]["mint"]
  BY <1>2, <1>3
<1> QED
  BY <1>3, <1>4, <1>5 DEF BankOK

\* Every transaction.
LEMMA TxStep ==
    ASSUME CoreInv, TxAction
    PROVE  /\ BankOK
           /\ mintParams' \in MintParamsChoices
           /\ txs' \in 0..MaxTxs /\ txs' # 0
           /\ pc = TxPhase /\ pc' = pc
           /\ UNCHANGED <<minter, committed>>
<1>1. /\ DeliverTx
      /\ \/ \E d \in Denoms, n \in 1..MaxTransfer, to \in Accounts \ BlockedAccounts :
              Transfer(d, "holders", to, n)
         \/ \E d \in Denoms, n \in 1..MaxTransfer : Transfer(d, "holders", "fee_collector", n)
         \/ \E d \in Denoms, n \in 1..MaxTransfer : Transfer(d, "distribution", "holders", n)
         \/ \E n \in 1..MaxTransfer : Transfer(BondDenom, "holders", "bonded_pool", n)
         \/ \E n \in 1..MaxTransfer : Transfer(BondDenom, "bonded_pool", "holders", n)
         \/ /\ \E d \in Denoms, n \in 1..MaxTransfer : Burn(d, "holders", n)
            /\ UNCHANGED mintParams
         \/ /\ \E d \in Vouchers, n \in 1..MaxTransfer :
                  /\ bal' = Credit(bal, d, "holders", n)
                  /\ supply' = [supply EXCEPT ![d] = @ + n]
            /\ UNCHANGED mintParams
         \/ mintParams' \in MintParamsChoices /\ UNCHANGED <<supply, bal>>
  BY DEF TxAction, Send, PayFees, WithdrawRewards, Delegate, Undelegate, BurnDeposit,
         MintVoucher, UpdateMintParams
<1>2. /\ "holders" \in Accounts \ {"mint"} /\ "fee_collector" \in Accounts \ {"mint"}
      /\ "distribution" \in Accounts \ {"mint"} /\ "bonded_pool" \in Accounts \ {"mint"}
      /\ \A to \in Accounts \ BlockedAccounts : to \in Accounts \ {"mint"}
      /\ "holders" \in Burners
  BY DEF Accounts, BlockedAccounts, Burners
<1>3. BondDenom \in Denoms /\ MaxTxs \in Nat /\ \A n \in 1..MaxTransfer : n \in Nat
  <2>1. BondDenom \in Denoms
    BY DenomAssumption
  <2>2. MaxTxs \in Nat /\ \A n \in 1..MaxTransfer : n \in Nat
    BY AmountAssumption
  <2> QED
    BY <2>1, <2>2
<1>4. mintParams \in MintParamsChoices /\ txs \in 0..MaxTxs
  BY DEF CoreInv, TypeOK
<1>5. /\ pc = TxPhase /\ pc' = pc /\ UNCHANGED <<minter, committed>>
      /\ txs' \in 0..MaxTxs /\ txs' # 0
  BY <1>1, <1>3, <1>4 DEF DeliverTx
<1>6. CASE \E d \in Denoms, n \in 1..MaxTransfer, to \in Accounts \ BlockedAccounts :
              Transfer(d, "holders", to, n)
  BY <1>2, <1>3, <1>5, <1>6, TransferOK
<1>7. CASE \E d \in Denoms, n \in 1..MaxTransfer : Transfer(d, "holders", "fee_collector", n)
  BY <1>2, <1>3, <1>5, <1>7, TransferOK
<1>8. CASE \E d \in Denoms, n \in 1..MaxTransfer : Transfer(d, "distribution", "holders", n)
  BY <1>2, <1>3, <1>5, <1>8, TransferOK
<1>9. CASE \E n \in 1..MaxTransfer : Transfer(BondDenom, "holders", "bonded_pool", n)
  BY <1>2, <1>3, <1>5, <1>9, TransferOK
<1>10. CASE \E n \in 1..MaxTransfer : Transfer(BondDenom, "bonded_pool", "holders", n)
  BY <1>2, <1>3, <1>5, <1>10, TransferOK
<1>11. CASE /\ \E d \in Denoms, n \in 1..MaxTransfer : Burn(d, "holders", n)
            /\ UNCHANGED mintParams
  BY <1>2, <1>3, <1>4, <1>5, <1>11, BurnOK
<1>12. CASE /\ \E d \in Vouchers, n \in 1..MaxTransfer :
                  /\ bal' = Credit(bal, d, "holders", n)
                  /\ supply' = [supply EXCEPT ![d] = @ + n]
            /\ UNCHANGED mintParams
  BY <1>3, <1>4, <1>5, <1>12, VoucherOK
<1>13. CASE mintParams' \in MintParamsChoices /\ UNCHANGED <<supply, bal>>
  <2>1. BankOK
    <3>1. supply[MintHardCapDenom] \in Nat
      BY DenomAssumption DEF CoreInv, TypeOK
    <3> QED
      BY <1>13, <3>1 DEF BankOK, CoreInv, TypeOK, SupplyBacked
  <2> QED
    BY <1>5, <1>13, <2>1
<1> QED
  BY <1>1, <1>6, <1>7, <1>8, <1>9, <1>10, <1>11, <1>12, <1>13

\* Every slash.
LEMMA SlashStep ==
    ASSUME CoreInv, SlashBeginBlock
    PROVE  /\ BankOK
           /\ pc \in 1..4 /\ pc' = pc + 1
           /\ BeginBlockers[pc] \in {"slashing", "evidence"}
           /\ UNCHANGED <<minter, mintParams, txs, committed>>
<1>1. PICK a \in Burners, n \in 0..MaxTransfer : Burn(BondDenom, a, n)
  BY DEF SlashBeginBlock
<1>2. n \in Nat /\ BondDenom \in Denoms
  <2>1. n \in Nat
    BY AmountAssumption
  <2> QED
    BY <2>1, DenomAssumption
<1>3. BankOK
  BY <1>1, <1>2, BurnOK
<1>4. pc \in 1..4 /\ BeginBlockers[pc] \in {"slashing", "evidence"}
  BY DEF SlashBeginBlock, Turn, BeginBlockers
<1> QED
  BY <1>3, <1>4 DEF SlashBeginBlock

-----------------------------------------------------------------------------
(* The core invariant is inductive.                                         *)

\* The disjuncts of Next, the transactions taken together.
LEMMA NextCases ==
    ASSUME [Next]_vars
    PROVE  \/ StartBlock \/ MintBeginBlock \/ MintBeginBlockFails
           \/ DistributionBeginBlock \/ SlashBeginBlock \/ TxAction
           \/ Commit \/ Discard \/ UNCHANGED vars
BY DEF Next, TxAction

CommittedOK == committed \in [supply : [Denoms -> Nat], bal : Balances, minter : MinterItems,
                              mintParams : MintParamsChoices, height : 0..1]

\* The parts of the core invariant, for the steps that cite them.
LEMMA CoreFacts ==
    ASSUME CoreInv
    PROVE  /\ supply \in [Denoms -> Nat] /\ bal \in Balances
           /\ \A e \in Denoms : supply[e] = Held(bal, e)
           /\ minter \in MinterItems /\ mintParams \in MintParamsChoices
           /\ pc \in 0..6 /\ txs \in 0..MaxTxs /\ CommittedOK
           /\ \A e \in Denoms : committed.supply[e] = Held(committed.bal, e)
BY DEF CoreInv, TypeOK, SupplyBacked, CommittedOK, Failed, BeginBlockers

\* A step that keeps committed keeps what CoreInv says of it.
LEMMA CoreKeepsCommitted ==
    ASSUME CoreInv, committed' = committed,
           supply' \in [Denoms -> Nat], bal' \in Balances,
           \A e \in Denoms : supply'[e] = Held(bal', e),
           minter' \in MinterItems, mintParams' \in MintParamsChoices,
           pc' \in 0..6, txs' \in 0..MaxTxs
    PROVE  CoreInv'
BY CoreFacts DEF CoreInv, TypeOK, SupplyBacked, CommittedOK, Failed, BeginBlockers

\* The core invariant is inductive: one case for each action of a block.
LEMMA CoreStep == CoreInv /\ [Next]_vars => CoreInv'
<1> SUFFICES ASSUME CoreInv, [Next]_vars PROVE CoreInv'
  OBVIOUS
<1> USE CoreFacts
<1>0. MaxTxs \in Nat
  BY AmountAssumption
<1>1. CASE StartBlock
  BY <1>0, <1>1, CoreKeepsCommitted DEF StartBlock, work
<1>2. CASE MintBeginBlock
  <2> DEFINE coin == MintedCoin(WorkState)
             b == AddCollectedFees(MintCoins(bal, coin), coin)
  <2>1. /\ NextMinter(WorkState) \in MinterItems
        /\ MintedSupply(coin) \in [Denoms -> Nat]
        /\ b \in Balances
        /\ \A e \in Denoms : MintedSupply(coin)[e] = Held(b, e)
    BY MintStep DEF CoreInv
  <2>2. /\ minter' = NextMinter(WorkState)
        /\ \/ supply' = MintedSupply(coin) /\ bal' = b
           \/ supply' = supply /\ bal' = bal
        /\ pc' = pc + 1 /\ pc \in 1..4
        /\ mintParams' = mintParams /\ txs' = txs /\ committed' = committed
    BY <1>2 DEF MintBeginBlock, Turn, BeginBlockers
  <2> HIDE DEF coin, b
  <2>3. supply' \in [Denoms -> Nat] /\ bal' \in Balances
    BY <2>1, <2>2
  <2>4. \A e \in Denoms : supply'[e] = Held(bal', e)
    BY <2>1, <2>2 DEF Held
  <2> QED
    BY <2>1, <2>2, <2>3, <2>4, CoreKeepsCommitted
<1>3. CASE MintBeginBlockFails
  <2> DEFINE coin == MintedCoin(WorkState)
             b == MintCoins(bal, coin)
  <2>1. /\ NextMinter(WorkState) \in MinterItems
        /\ MintedSupply(coin) \in [Denoms -> Nat]
        /\ b \in Balances
        /\ \A e \in Denoms : MintedSupply(coin)[e] = Held(b, e)
    BY MintStep DEF CoreInv
  <2>2. /\ minter' = NextMinter(WorkState) \/ minter' = minter
        /\ \/ supply' = MintedSupply(coin) /\ bal' = b
           \/ supply' = supply /\ bal' = bal
        /\ pc' = 6
        /\ mintParams' = mintParams /\ txs' = txs /\ committed' = committed
    BY <1>3 DEF MintBeginBlockFails, Failed, BeginBlockers
  <2> HIDE DEF coin, b
  <2>3. supply' \in [Denoms -> Nat] /\ bal' \in Balances /\ minter' \in MinterItems
    BY <2>1, <2>2
  <2>4. \A e \in Denoms : supply'[e] = Held(bal', e)
    BY <2>1, <2>2 DEF Held
  <2> QED
    BY <2>2, <2>3, <2>4, CoreKeepsCommitted
<1>4. CASE DistributionBeginBlock
  <2> DEFINE m == [d \in Denoms |->
                     Move(bal, d, "fee_collector", "distribution", bal[d]["fee_collector"])[d]]
  <2>1. m \in Balances /\ \A e \in Denoms : Held(m, e) = Held(bal, e)
    BY AllocateCore
  <2>2. /\ bal' = m \/ bal' = bal
        /\ pc' = pc + 1 /\ pc \in 1..4
        /\ supply' = supply /\ minter' = minter /\ mintParams' = mintParams
        /\ txs' = txs /\ committed' = committed
    BY <1>4 DEF DistributionBeginBlock, Turn, BeginBlockers
  <2> HIDE DEF m
  <2>3. bal' \in Balances
    BY <2>1, <2>2
  <2>4. \A e \in Denoms : supply'[e] = Held(bal', e)
    BY <2>1, <2>2 DEF Held
  <2> QED
    BY <2>2, <2>3, <2>4, CoreKeepsCommitted
<1>5. CASE SlashBeginBlock
  <2>1. pc' \in 0..6
    BY <1>5, SlashStep
  <2> QED
    BY <1>5, <2>1, SlashStep, CoreKeepsCommitted DEF BankOK
<1>6. CASE TxAction
  BY <1>6, TxStep, CoreKeepsCommitted DEF BankOK
<1>7. CASE Commit
  <2>1. /\ supply' = supply /\ bal' = bal /\ minter' = minter /\ mintParams' = mintParams
        /\ pc' = 0 /\ txs' = 0
        /\ committed' = [supply |-> supply, bal |-> bal, minter |-> minter,
                         mintParams |-> mintParams, height |-> 1]
    BY <1>7 DEF Commit, Snapshot, work
  <2>2. CommittedOK'
    BY <2>1 DEF CommittedOK
  <2>3. TypeOK'
    BY <1>0, <2>1, <2>2 DEF TypeOK, CommittedOK, Failed, BeginBlockers
  <2>4. SupplyBacked'
    BY <2>1 DEF SupplyBacked, Held
  <2> QED
    BY <2>3, <2>4 DEF CoreInv
<1>8. CASE Discard
  <2>1. /\ supply' = committed.supply /\ bal' = committed.bal
        /\ minter' = committed.minter /\ mintParams' = committed.mintParams
        /\ pc' = 0 /\ txs' = 0 /\ committed' = committed
    BY <1>8 DEF Discard
  <2>2. /\ supply' \in [Denoms -> Nat] /\ bal' \in Balances
        /\ minter' \in MinterItems /\ mintParams' \in MintParamsChoices
    BY <2>1 DEF CommittedOK
  <2>3. \A e \in Denoms : supply'[e] = Held(bal', e)
    BY <2>1 DEF Held
  <2> QED
    BY <1>0, <2>1, <2>2, <2>3, CoreKeepsCommitted
<1>9. CASE UNCHANGED vars
  BY <1>9 DEF vars, CoreInv, TypeOK, SupplyBacked, Held
<1> QED
  BY <1>1, <1>2, <1>3, <1>4, <1>5, <1>6, <1>7, <1>8, <1>9, NextCases

\* Types are respected and every coin of the supply is accounted for, in every
\* reachable state.
THEOREM CoreInvariant == Spec => []CoreInv
BY CoreInit, CoreStep, PTL DEF Spec

\* Every variable keeps its type in every state of every block: no balance, no
\* supply and no committed copy of one becomes negative.
THEOREM TypeCorrect == Spec => []TypeOK
<1>1. CoreInv => TypeOK
  BY DEF CoreInv
<1> QED
  BY <1>1, CoreInvariant, PTL

\* The bank's supply is the sum of the balances, in the executing and in the
\* committed state.
THEOREM SupplyIsBacked == Spec => []SupplyBacked
<1>1. CoreInv => SupplyBacked
  BY DEF CoreInv
<1> QED
  BY <1>1, CoreInvariant, PTL

-----------------------------------------------------------------------------
(* The cap.  BlockInv relates the executing state to the committed one: an   *)
(* execution starts from it, and adds to the capped supply one provision at  *)
(* most and nothing above the cap.  That the supply is within the cap is not *)
(* inductive alone: a genesis may be above it, and Commit installs what ran. *)

Ceiling ==
    IF committed.supply[MintHardCapDenom] < MintHardCapAmount
    THEN MintHardCapAmount
    ELSE committed.supply[MintHardCapDenom]

StartsFromCommitted ==
    pc \in {0, 1} => /\ supply = committed.supply /\ bal = committed.bal
                     /\ minter = committed.minter /\ mintParams = committed.mintParams

BelowCeiling == supply[MintHardCapDenom] <= Ceiling

OneProvision ==
    supply[MintHardCapDenom] <= committed.supply[MintHardCapDenom] + CapProvision(committed)

MintAccountEmpty ==
    /\ \A d \in Denoms : committed.bal[d]["mint"] = 0
    /\ pc # Failed => \A d \in Denoms : bal[d]["mint"] = 0

BlockInv == StartsFromCommitted /\ BelowCeiling /\ OneProvision /\ MintAccountEmpty

\* The provision of a typed state is a natural number.
LEMMA CapProvisionType ==
    ASSUME NEW s, StateOK(s)
    PROVE  CapProvision(s) \in Nat
BY ProvisionType DEF CapProvision

\* The mint function reads nothing but the four parts of the state.
LEMMA ProvisionReads ==
    ASSUME NEW s, NEW t, s.supply = t.supply, s.bal = t.bal,
           s.minter = t.minter, s.mintParams = t.mintParams
    PROVE  CapProvision(s) = CapProvision(t)
<1>1. StakingTokenSupply(s) = StakingTokenSupply(t)
  BY DEF StakingTokenSupply
<1>2. BondedRatio(s) = BondedRatio(t)
  BY <1>1 DEF BondedRatio
<1>3. NextMinter(s) = NextMinter(t)
  BY <1>1, <1>2 DEF NextMinter
<1> QED
  BY <1>3 DEF CapProvision

\* The numbers the cap is about are natural numbers.
LEMMA CapFacts ==
    ASSUME CoreInv
    PROVE  /\ supply[MintHardCapDenom] \in Nat
           /\ committed.supply[MintHardCapDenom] \in Nat
           /\ MintHardCapAmount \in Nat
           /\ StateOK(committed) /\ CapProvision(committed) \in Nat
           /\ pc \in 0..6
<1>1. /\ supply[MintHardCapDenom] \in Nat
      /\ committed.supply[MintHardCapDenom] \in Nat
      /\ pc \in 0..6
  BY CoreFacts, DenomAssumption DEF CommittedOK
<1>2. StateOK(committed)
  BY CoreFacts DEF CommittedOK, StateOK
<1>3. MintHardCapAmount \in Nat
  BY AmountAssumption
<1> QED
  BY <1>1, <1>2, <1>3, CapProvisionType

\* The mint function's step, seen from the capped supply.
LEMMA MintGrowth ==
    ASSUME CoreInv, BlockInv, pc = 1, NEW new,
           new = MintedSupply(MintedCoin(WorkState)) \/ new = supply
    PROVE  /\ new[MintHardCapDenom] <= Ceiling
           /\ new[MintHardCapDenom] <=
                committed.supply[MintHardCapDenom] + CapProvision(committed)
           /\ new[MintHardCapDenom] > supply[MintHardCapDenom] =>
                new[MintHardCapDenom] <= MintHardCapAmount
<1> DEFINE coin == MintedCoin(WorkState)
           cap == MintHardCapDenom
<1>1. /\ supply = committed.supply /\ bal = committed.bal
      /\ minter = committed.minter /\ mintParams = committed.mintParams
  BY DEF BlockInv, StartsFromCommitted
<1>2. CapProvision(WorkState) = CapProvision(committed)
  BY <1>1, ProvisionReads DEF WorkState
<1>3. /\ coin \in [denom : Denoms, amount : Nat]
      /\ coin.denom = mintParams.mintDenom
      /\ coin.amount <= BlockProvision(NextMinter(WorkState), mintParams).amount
      /\ (coin.denom = cap /\ coin.amount > 0) => supply[cap] + coin.amount <= MintHardCapAmount
  BY MintStep, MintedCoinBounds DEF CoreInv, WorkState
<1>4. coin.denom = cap => coin.amount <= CapProvision(WorkState)
  BY <1>3 DEF CapProvision, WorkState
<1> HIDE DEF coin
<1>5. /\ supply \in [Denoms -> Nat] /\ cap \in Denoms
  BY CoreFacts, DenomAssumption
<1>6. MintedSupply(coin)[cap] =
        IF coin.denom = cap THEN supply[cap] + coin.amount ELSE supply[cap]
  BY <1>3, <1>5 DEF MintedSupply
<1>7. /\ supply[cap] \in Nat /\ MintHardCapAmount \in Nat
      /\ CapProvision(committed) \in Nat
      /\ supply[cap] <= Ceiling
      /\ committed.supply[cap] = supply[cap]
      /\ coin.amount \in Nat
  BY <1>1, <1>3, CapFacts DEF BlockInv, BelowCeiling
<1>8. /\ MintHardCapAmount <= Ceiling /\ Ceiling \in Nat
  BY CapFacts DEF Ceiling
<1> HIDE DEF cap
<1>9. CASE new = supply
  <2>1. /\ supply[cap] <= Ceiling
        /\ supply[cap] <= committed.supply[cap] + CapProvision(committed)
        /\ ~(supply[cap] > supply[cap])
    BY <1>7
  <2> QED
    BY <1>9, <2>1 DEF cap
<1>10. CASE new = MintedSupply(coin)
  <2>1. CASE coin.denom = cap /\ coin.amount > 0
    <3>1. new[cap] = supply[cap] + coin.amount
      BY <1>6, <1>10, <2>1
    <3>2. /\ new[cap] <= Ceiling
          /\ new[cap] <= committed.supply[cap] + CapProvision(committed)
          /\ new[cap] <= MintHardCapAmount
      BY <1>2, <1>3, <1>4, <1>7, <1>8, <2>1, <3>1 DEF cap
    <3> QED
      BY <3>2 DEF cap
  <2>2. CASE ~(coin.denom = cap /\ coin.amount > 0)
    <3>1. new[cap] = supply[cap]
      BY <1>6, <1>7, <1>10, <2>2
    <3>2. /\ new[cap] <= Ceiling
          /\ new[cap] <= committed.supply[cap] + CapProvision(committed)
          /\ ~(new[cap] > supply[cap])
      BY <1>7, <3>1
    <3> QED
      BY <3>2 DEF cap
  <2> QED
    BY <2>1, <2>2
<1> QED
  BY <1>9, <1>10 DEF coin

\* The block invariant holds at genesis, with nothing executing.
LEMMA BlockInit == Init => BlockInv
<1> SUFFICES ASSUME Init PROVE BlockInv
  OBVIOUS
<1>1. CoreInv
  BY CoreInit
<1>2. /\ supply = committed.supply /\ bal = committed.bal
      /\ minter = committed.minter /\ mintParams = committed.mintParams
      /\ \A d \in Denoms : bal[d]["mint"] = 0
  BY DEF Init, Snapshot, Accounts
<1>3. BelowCeiling /\ OneProvision
  BY <1>1, <1>2, CapFacts DEF BelowCeiling, OneProvision, Ceiling
<1> QED
  BY <1>2, <1>3 DEF BlockInv, StartsFromCommitted, MintAccountEmpty

\* A step of the block that leaves committed and does not raise the supply.
LEMMA BlockKeeps ==
    ASSUME CoreInv, BlockInv, committed' = committed,
           supply'[MintHardCapDenom] \in Nat,
           supply'[MintHardCapDenom] <= supply[MintHardCapDenom],
           pc # 6, pc' \notin {0, 1},
           \A d \in Denoms : bal'[d]["mint"] = bal[d]["mint"]
    PROVE  BlockInv'
<1>1. StartsFromCommitted'
  BY DEF StartsFromCommitted
<1>2. BelowCeiling' /\ OneProvision'
  <2>1. Ceiling \in Nat /\ supply[MintHardCapDenom] <= Ceiling
    BY CapFacts DEF Ceiling, BlockInv, BelowCeiling
  <2>2. Ceiling' = Ceiling /\ CapProvision(committed)' = CapProvision(committed)
    BY DEF Ceiling
  <2>3. supply'[MintHardCapDenom] <= Ceiling
    BY <2>1, CapFacts
  <2>4. supply'[MintHardCapDenom] <=
          committed.supply[MintHardCapDenom] + CapProvision(committed)
    BY CapFacts DEF BlockInv, OneProvision
  <2> QED
    BY <2>2, <2>3, <2>4 DEF BelowCeiling, OneProvision
<1>3. MintAccountEmpty'
  BY DEF BlockInv, MintAccountEmpty, Failed, BeginBlockers
<1> QED
  BY <1>1, <1>2, <1>3 DEF BlockInv

\* The block invariant is inductive relative to the core invariant.
LEMMA BlockStep == CoreInv /\ BlockInv /\ [Next]_vars => BlockInv'
<1> SUFFICES ASSUME CoreInv, BlockInv, [Next]_vars PROVE BlockInv'
  OBVIOUS
<1>0. CoreInv'
  BY CoreStep
<1>0a. supply'[MintHardCapDenom] \in Nat
  BY <1>0, DenomAssumption DEF CoreInv, TypeOK
<1>1. CASE StartBlock
  <2>1. /\ pc = 0 /\ pc' = 1 /\ supply' = supply /\ bal' = bal /\ minter' = minter
        /\ mintParams' = mintParams /\ committed' = committed
    BY <1>1 DEF StartBlock, work
  <2>2. StartsFromCommitted'
    BY <2>1 DEF BlockInv, StartsFromCommitted
  <2>3. BelowCeiling' /\ OneProvision'
    BY <2>1 DEF BlockInv, BelowCeiling, OneProvision, Ceiling
  <2>4. MintAccountEmpty'
    BY <2>1 DEF BlockInv, MintAccountEmpty, Failed, BeginBlockers
  <2> QED
    BY <2>2, <2>3, <2>4 DEF BlockInv
<1>2. CASE MintBeginBlock \/ MintBeginBlockFails
  <2> DEFINE coin == MintedCoin(WorkState)
  <2>1. /\ pc = 1 /\ pc' \in {2, 6} /\ committed' = committed
        /\ supply' = MintedSupply(coin) \/ supply' = supply
    BY <1>2 DEF MintBeginBlock, MintBeginBlockFails, Turn, BeginBlockers, Failed
  <2>2. /\ supply'[MintHardCapDenom] <= Ceiling
        /\ supply'[MintHardCapDenom] <=
             committed.supply[MintHardCapDenom] + CapProvision(committed)
    BY <2>1, MintGrowth
  <2>3. BelowCeiling' /\ OneProvision'
    BY <2>1, <2>2 DEF BelowCeiling, OneProvision, Ceiling
  <2>4. StartsFromCommitted'
    BY <2>1 DEF StartsFromCommitted
  <2>5. MintAccountEmpty'
    <3>1. CASE MintBeginBlock
      <4> DEFINE b == AddCollectedFees(MintCoins(bal, coin), coin)
      <4>1. \A e \in Denoms : b[e]["mint"] = bal[e]["mint"]
        BY MintStep DEF CoreInv
      <4>2. bal' = b \/ bal' = bal
        BY <3>1 DEF MintBeginBlock
      <4> HIDE DEF b
      <4>3. \A e \in Denoms : bal'[e]["mint"] = 0
        BY <2>1, <4>1, <4>2 DEF BlockInv, MintAccountEmpty, Failed, BeginBlockers
      <4> QED
        BY <2>1, <4>3 DEF BlockInv, MintAccountEmpty
    <3>2. CASE MintBeginBlockFails
      BY <2>1, <3>2 DEF MintBeginBlockFails, BlockInv, MintAccountEmpty
    <3> QED
      BY <1>2, <3>1, <3>2
  <2> QED
    BY <2>3, <2>4, <2>5 DEF BlockInv
<1>3. CASE DistributionBeginBlock
  <2> DEFINE m == [d \in Denoms |->
                     Move(bal, d, "fee_collector", "distribution", bal[d]["fee_collector"])[d]]
  <2>1. \A e \in Denoms : m[e]["mint"] = bal[e]["mint"]
    BY CoreFacts, AllocateCore
  <2>2. /\ bal' = m \/ bal' = bal
        /\ pc \in 1..4 /\ pc' = pc + 1
        /\ supply' = supply /\ committed' = committed
    BY <1>3 DEF DistributionBeginBlock, Turn, BeginBlockers
  <2> HIDE DEF m
  <2>3. \A e \in Denoms : bal'[e]["mint"] = bal[e]["mint"]
    BY <2>1, <2>2
  <2>4. pc # 6 /\ pc' \notin {0, 1}
    BY <2>2
  <2>5. supply'[MintHardCapDenom] <= supply[MintHardCapDenom]
    BY <2>2, CapFacts
  <2> QED
    BY <1>0a, <2>2, <2>3, <2>4, <2>5, BlockKeeps
<1>4. CASE SlashBeginBlock
  <2>1. /\ BankOK /\ pc \in 1..4 /\ pc' = pc + 1 /\ committed' = committed
    BY <1>4, SlashStep
  <2>2. pc # 6 /\ pc' \notin {0, 1}
    BY <2>1
  <2> QED
    BY <1>0a, <2>1, <2>2, BlockKeeps DEF BankOK
<1>5. CASE TxAction
  <2>1. /\ BankOK /\ pc = 5 /\ pc' = 5 /\ committed' = committed
    BY <1>5, TxStep DEF TxPhase, BeginBlockers
  <2> QED
    BY <1>0a, <2>1, BlockKeeps DEF BankOK
<1>6. CASE Commit
  <2>1. /\ supply' = supply /\ bal' = bal /\ minter' = minter /\ mintParams' = mintParams
        /\ pc = 5 /\ pc' = 0
        /\ committed'.supply = supply /\ committed'.bal = bal
        /\ committed'.minter = minter /\ committed'.mintParams = mintParams
    BY <1>6 DEF Commit, Snapshot, work, TxPhase, BeginBlockers
  <2>2. StartsFromCommitted'
    BY <2>1 DEF StartsFromCommitted
  <2>3. MintAccountEmpty'
    BY <2>1 DEF BlockInv, MintAccountEmpty, Failed, BeginBlockers
  <2>4. supply[MintHardCapDenom] \in Nat /\ MintHardCapAmount \in Nat
    BY CapFacts
  <2>5. BelowCeiling'
    BY <2>1, <2>4 DEF BelowCeiling, Ceiling
  <2>6. OneProvision'
    <3>1. StateOK(committed')
      BY <2>1, CoreFacts DEF StateOK
    <3>2. CapProvision(committed') \in Nat
      BY <3>1, CapProvisionType
    <3>3. supply'[MintHardCapDenom] <= committed'.supply[MintHardCapDenom] + CapProvision(committed')
      BY <2>1, <2>4, <3>2
    <3> QED
      BY <3>3 DEF OneProvision
  <2> QED
    BY <2>2, <2>3, <2>5, <2>6 DEF BlockInv
<1>7. CASE Discard
  <2>1. /\ supply' = committed.supply /\ bal' = committed.bal
        /\ minter' = committed.minter /\ mintParams' = committed.mintParams
        /\ pc' = 0 /\ committed' = committed
    BY <1>7 DEF Discard
  <2>2. StartsFromCommitted'
    BY <2>1 DEF StartsFromCommitted
  <2>3. MintAccountEmpty'
    BY <2>1 DEF BlockInv, MintAccountEmpty
  <2>4. BelowCeiling' /\ OneProvision'
    BY <2>1, CapFacts DEF BelowCeiling, OneProvision, Ceiling
  <2> QED
    BY <2>2, <2>3, <2>4 DEF BlockInv
<1>8. CASE UNCHANGED vars
  BY <1>8 DEF vars, BlockInv, StartsFromCommitted, BelowCeiling, OneProvision,
              MintAccountEmpty, Ceiling
<1> QED
  BY <1>1, <1>2, <1>3, <1>4, <1>5, <1>6, <1>7, <1>8, NextCases

\* The block invariant holds in every state, between the begin blockers included.
THEOREM BlockInvariant == Spec => [](CoreInv /\ BlockInv)
BY CoreInit, CoreStep, BlockInit, BlockStep, PTL DEF Spec

\* No committed block leaves coins in the mint module's account.
THEOREM NothingStranded == Spec => []NoStrandedMint
<1>1. BlockInv => NoStrandedMint
  BY DEF BlockInv, MintAccountEmpty, NoStrandedMint
<1> QED
  BY <1>1, BlockInvariant, PTL

\* No step of a block raises the capped supply to a value above the cap.
THEOREM GrowthIsCapped == Spec => GrowthWithinCap
<1> DEFINE Growth == pc' # 0 /\ supply'[MintHardCapDenom] > supply[MintHardCapDenom] =>
                       supply'[MintHardCapDenom] <= MintHardCapAmount
<1>1. CoreInv /\ BlockInv /\ [Next]_vars => [Growth]_vars
  <2> SUFFICES ASSUME CoreInv, BlockInv, [Next]_vars,
                      supply'[MintHardCapDenom] > supply[MintHardCapDenom], pc' # 0
               PROVE  supply'[MintHardCapDenom] <= MintHardCapAmount
    OBVIOUS
  <2>0. supply[MintHardCapDenom] \in Nat
    BY CapFacts
  <2>1. CASE StartBlock
    BY <2>0, <2>1 DEF StartBlock, work
  <2>2. CASE MintBeginBlock \/ MintBeginBlockFails
    <3>1. /\ pc = 1
          /\ supply' = MintedSupply(MintedCoin(WorkState)) \/ supply' = supply
      BY <2>2 DEF MintBeginBlock, MintBeginBlockFails, Turn, BeginBlockers
    <3> QED
      BY <3>1, MintGrowth
  <2>3. CASE DistributionBeginBlock
    BY <2>0, <2>3 DEF DistributionBeginBlock
  <2>4. CASE SlashBeginBlock
    <3>1. supply' \in [Denoms -> Nat] /\ supply'[MintHardCapDenom] <= supply[MintHardCapDenom]
      BY <2>4, SlashStep DEF BankOK
    <3>2. supply'[MintHardCapDenom] \in Nat
      BY <3>1, DenomAssumption
    <3> QED
      BY <2>0, <3>1, <3>2
  <2>5. CASE TxAction
    <3>1. supply' \in [Denoms -> Nat] /\ supply'[MintHardCapDenom] <= supply[MintHardCapDenom]
      BY <2>5, TxStep DEF BankOK
    <3>2. supply'[MintHardCapDenom] \in Nat
      BY <3>1, DenomAssumption
    <3> QED
      BY <2>0, <3>1, <3>2
  <2>6. CASE Commit \/ Discard
    BY <2>6 DEF Commit, Discard
  <2>7. CASE UNCHANGED vars
    BY <2>0, <2>7 DEF vars
  <2> QED
    BY <2>1, <2>2, <2>3, <2>4, <2>5, <2>6, <2>7, NextCases
<1> QED
  BY <1>1, BlockInvariant, PTL DEF Spec, GrowthWithinCap

\* What a commit does to the committed supply of the capped denomination.
LEMMA CommitEffect ==
    ASSUME CoreInv, BlockInv, [Next]_vars
    PROVE  \/ committed' = committed
           \/ committed'.supply = supply
<1>1. CASE Commit
  BY <1>1 DEF Commit, Snapshot
<1>2. CASE TxAction
  BY <1>2, TxStep
<1>3. CASE SlashBeginBlock
  BY <1>3, SlashStep
<1>4. CASE ~(Commit \/ TxAction \/ SlashBeginBlock)
  BY <1>4, NextCases DEF StartBlock, MintBeginBlock, MintBeginBlockFails,
     DistributionBeginBlock, Discard, vars
<1> QED
  BY <1>1, <1>2, <1>3, <1>4

\* However often an execution is abandoned and started again, a committed block
\* adds one provision of its predecessor's state at most.
THEOREM MintsOncePerBlock == Spec => OneProvisionPerBlock
<1>1. CoreInv /\ BlockInv /\ [Next]_vars =>
        [committed'.supply[MintHardCapDenom] - committed.supply[MintHardCapDenom]
           <= CapProvision(committed)]_vars
  <2> SUFFICES ASSUME CoreInv, BlockInv, [Next]_vars
               PROVE  committed'.supply[MintHardCapDenom] - committed.supply[MintHardCapDenom]
                        <= CapProvision(committed)
    OBVIOUS
  <2>1. CASE committed' = committed
    BY <2>1, CapFacts
  <2>2. CASE committed'.supply = supply
    BY <2>2, CapFacts DEF BlockInv, OneProvision
  <2> QED
    BY <2>1, <2>2, CommitEffect
<1> QED
  BY <1>1, BlockInvariant, PTL DEF Spec, OneProvisionPerBlock

\* The committed supply at genesis is one of the genesis supplies.
LEMMA GenesisSupply ==
    ASSUME Init
    PROVE  /\ supply[MintHardCapDenom] \in GenesisCapSupplies
           /\ committed.supply[MintHardCapDenom] \in GenesisCapSupplies
<1>1. \E g \in GenesisCapSupplies :
        supply = [d \in Denoms |-> IF d = MintHardCapDenom THEN g ELSE 0]
  BY DEF Init
<1>2. supply[MintHardCapDenom] \in GenesisCapSupplies
  BY <1>1, DenomAssumption
<1>3. committed.supply = supply
  BY DEF Init, Snapshot
<1> QED
  BY <1>2, <1>3

\* The committed supply behaves as CappedSupply allows.
THEOREM RefinesCappedSupply == Spec => ImplementsCappedSupply
<1>1. Init => Capped!Init
  BY GenesisSupply DEF Capped!Init
<1>2. CoreInv /\ BlockInv /\ [Next]_vars =>
        [Capped!Block]_(committed.supply[MintHardCapDenom])
  <2> SUFFICES ASSUME CoreInv, BlockInv, [Next]_vars
               PROVE  \/ committed'.supply[MintHardCapDenom] \in 0..Ceiling
                      \/ committed'.supply[MintHardCapDenom] = committed.supply[MintHardCapDenom]
    BY DEF Capped!Block, Capped!Ceiling, Ceiling
  <2>1. CASE committed' = committed
    BY <2>1
  <2>2. CASE committed'.supply = supply
    <3>1. Ceiling \in Nat
      BY CapFacts DEF Ceiling
    <3> QED
      BY <2>2, <3>1, CapFacts DEF BlockInv, BelowCeiling
  <2> QED
    BY <2>1, <2>2, CommitEffect
<1> QED
  BY <1>1, <1>2, BlockInvariant, PTL DEF Spec, Capped!Spec, ImplementsCappedSupply

-----------------------------------------------------------------------------
(* The cap itself: whatever is within it stays within it.                   *)

\* A supply within the cap is never followed by one that exceeds it.
THEOREM CapHolds == Spec => SupplyCap
<1>1. CoreInv /\ BlockInv /\ [Next]_vars /\ CoreInv' /\ BlockInv' => [WithinCap => WithinCap']_vars
  <2> SUFFICES ASSUME CoreInv, BlockInv, [Next]_vars, CoreInv', BlockInv', WithinCap
               PROVE  WithinCap'
    OBVIOUS
  <2>1. committed'.supply[MintHardCapDenom] <= MintHardCapAmount
    BY CommitEffect DEF WithinCap
  <2>2. supply'[MintHardCapDenom] <= Ceiling'
    BY DEF BlockInv, BelowCeiling
  <2>3. Ceiling' = MintHardCapAmount \/ Ceiling' = committed'.supply[MintHardCapDenom]
    BY DEF Ceiling
  <2>4. /\ supply'[MintHardCapDenom] \in Nat
        /\ committed'.supply[MintHardCapDenom] \in Nat
        /\ MintHardCapAmount \in Nat
    BY AmountAssumption, DenomAssumption DEF CoreInv, TypeOK
  <2> QED
    BY <2>1, <2>2, <2>3, <2>4 DEF WithinCap
<1> QED
  BY <1>1, BlockInvariant, PTL DEF Spec, SupplyCap

-----------------------------------------------------------------------------
(* Allocation: between distribution's begin blocker and the first           *)
(* transaction the fee collector stays empty.                               *)

AllocInv ==
    (pc \in 3..5 /\ txs = 0 /\ committed.height > 0) =>
        \A d \in Denoms : bal[d]["fee_collector"] = 0

\* Slashing burns stake: it cannot touch an empty fee collector.
LEMMA SlashKeepsFees ==
    ASSUME CoreInv, SlashBeginBlock
    PROVE  \A e \in Denoms : bal'[e]["fee_collector"] = bal[e]["fee_collector"]
<1>1. PICK a \in Burners, n \in 0..MaxTransfer : Burn(BondDenom, a, n)
  BY DEF SlashBeginBlock
<1>2. n \in Nat
  BY AmountAssumption
<1>3. /\ bal \in Balances /\ supply \in [Denoms -> Nat]
      /\ \A e \in Denoms : supply[e] = Held(bal, e)
      /\ BondDenom \in Denoms
  BY CoreFacts, DenomAssumption
<1>4. n <= bal[BondDenom][a] /\ bal' = Credit(bal, BondDenom, a, -n)
  BY <1>1 DEF Burn
<1>5. \A e \in Denoms :
        Credit(bal, BondDenom, a, -n)[e]["fee_collector"] = bal[e]["fee_collector"]
  BY <1>2, <1>3, <1>4, BurnCore
<1> QED
  BY <1>4, <1>5

\* The allocation invariant is inductive relative to the core invariant.
LEMMA AllocStep == CoreInv /\ AllocInv /\ [Next]_vars => AllocInv'
<1> SUFFICES ASSUME CoreInv, AllocInv, [Next]_vars PROVE AllocInv'
  OBVIOUS
<1>1. CASE StartBlock \/ MintBeginBlock \/ MintBeginBlockFails \/ Commit \/ Discard
  <2>1. pc' \notin 3..5
    BY <1>1 DEF StartBlock, MintBeginBlock, MintBeginBlockFails, Commit, Discard,
                Turn, BeginBlockers, Failed
  <2> QED
    BY <2>1 DEF AllocInv
<1>2. CASE DistributionBeginBlock
  <2> DEFINE m == [d \in Denoms |->
                     Move(bal, d, "fee_collector", "distribution", bal[d]["fee_collector"])[d]]
  <2>1. \A e \in Denoms : m[e]["fee_collector"] = 0
    BY CoreFacts, AllocateCore
  <2>2. committed.height \in 0..1
    BY CoreFacts DEF CommittedOK
  <2>3. /\ committed' = committed
        /\ committed.height + 1 > 1 => bal' = m
    BY <1>2 DEF DistributionBeginBlock
  <2> HIDE DEF m
  <2> QED
    BY <2>1, <2>2, <2>3 DEF AllocInv
<1>3. CASE SlashBeginBlock
  <2>1. pc \in {3, 4}
    BY <1>3 DEF SlashBeginBlock, Turn, BeginBlockers
  <2>2. committed' = committed /\ txs' = txs
    BY <1>3, SlashStep
  <2> QED
    BY <1>3, <2>1, <2>2, SlashKeepsFees DEF AllocInv
<1>4. CASE TxAction
  BY <1>4, TxStep DEF AllocInv
<1>5. CASE UNCHANGED vars
  BY <1>5 DEF vars, AllocInv
<1> QED
  BY <1>1, <1>2, <1>3, <1>4, <1>5, NextCases

\* From height 2 on a block's provision is allocated before its transactions.
THEOREM AllocatedAtOnce == Spec => []ProvisionAllocatedAtOnce
<1>1. Init => AllocInv
  <2>1. Init => pc = 0
    BY DEF Init
  <2> QED
    BY <2>1 DEF AllocInv
<1>2. AllocInv => ProvisionAllocatedAtOnce
  <2>1. TxPhase = 5 /\ 5 \in 3..5
    BY DEF TxPhase, BeginBlockers
  <2> QED
    BY <2>1 DEF AllocInv, ProvisionAllocatedAtOnce
<1> QED
  BY <1>1, <1>2, AllocStep, CoreInvariant, PTL DEF Spec
=============================================================================
