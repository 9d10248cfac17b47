---------------------------- MODULE CappedSupply ----------------------------
(***************************************************************************)
(* What the hard cap promises about a supply seen block by block: a block  *)
(* may take it anywhere up to the cap, and a supply that is above the cap  *)
(* (a genesis can be) only down.                                           *)
(***************************************************************************)
EXTENDS Integers

CONSTANTS Cap, GenesisSupplies

VARIABLE total

Ceiling == IF total < Cap THEN Cap ELSE total

Init == total \in GenesisSupplies

Block == total' \in 0..Ceiling

Spec == Init /\ [][Block]_total
=============================================================================
