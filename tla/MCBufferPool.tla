----------------------------- MODULE MCBufferPool ----------------------------
(***************************************************************************)
(* Two size classes, the first with three buffers in its slab and one from   *)
(* the system, so that a cache of two overflows; sizes at the boundaries.    *)
(***************************************************************************)
EXTENDS BufferPool, TLC

CONSTANTS a1, a2, a3, a4, b1, b2

MCClassSizes == <<2, 4>>
MCSizes == {1, 2, 3, 5}
MCSlab == <<<<a1, a2, a3>>, <<b1>>>>
MCSystem == <<{a4}, {b2}>>

ThreadSymmetry == Permutations(Threads)
=============================================================================
