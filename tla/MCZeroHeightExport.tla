------------------------- MODULE MCZeroHeightExport -------------------------
(***************************************************************************)
(* Small instances of ZeroHeightExport.                                    *)
(***************************************************************************)
EXTENDS ZeroHeightExport

\* Two delegators share the first validator, one of them has also the second.
ThreeDelegations == {[del |-> "a", val |-> 1], [del |-> "a", val |-> 2],
                     [del |-> "b", val |-> 1]}

\* One of them is too small to give its validator voting power.
FourDelegations == ThreeDelegations \cup {[del |-> "b", val |-> 3]}
SmallDelegation == {[del |-> "b", val |-> 3]}
=============================================================================
