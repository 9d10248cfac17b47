--------------------------- MODULE MCHardCapMint ---------------------------
(***************************************************************************)
(* Small instances of HardCapMint: one decimal digit of precision, and     *)
(* mint params under which a block's provision is sometimes the whole of   *)
(* what is left below the cap, sometimes more, and sometimes nothing.      *)
(***************************************************************************)
EXTENDS HardCapMint

MCParams(denom, min, max, years) ==
    [mintDenom |-> denom, inflationMin |-> min, inflationMax |-> max,
     inflationRateChange |-> 13, goalBonded |-> 7, blocksPerYear |-> years]

\* Governance can turn the mint to another denomination and back.
TwoDenoms == {MCParams("ubps", 3, 20, 2), MCParams("voucher", 3, 20, 2)}
=============================================================================
