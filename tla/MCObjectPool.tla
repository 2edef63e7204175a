----------------------------- MODULE MCObjectPool ----------------------------
(***************************************************************************)
(* Two blocks, for the constructors and for growth, and one last-resort slot. *)
(***************************************************************************)
EXTENDS ObjectPool, TLC

CONSTANTS n1, n2, n3, n4, n5

MCBlocks == {<<n1, n2>>, <<n3, n4>>, <<n5>>}

\* The instances are interchangeable, and so are the two blocks of the same size.
SameBlocks == [n \in Nodes |-> n]
SwapBlocks == n1 :> n3 @@ n2 :> n4 @@ n3 :> n1 @@ n4 :> n2 @@ n5 :> n5
Symmetry == {p @@ b : p \in Permutations(Pools), b \in {SameBlocks, SwapBlocks}}
=============================================================================
