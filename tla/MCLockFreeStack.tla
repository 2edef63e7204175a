--------------------------- MODULE MCLockFreeStack ---------------------------
(***************************************************************************)
(* Two threads that pop and push single nodes and one chain.                *)
(***************************************************************************)
EXTENDS LockFreeStack, TLC

CONSTANTS n1, n2, n3, Junk

MCNodes == {n1, n2, n3}

\* Every Push, and a PushChain of all nodes (GrowPool) and of two (FlushHalf).
MCChains == {<<n1>>, <<n2>>, <<n3>>, <<n1, n2, n3>>, <<n2, n1>>}

\* A held node's first word: any pointer, or data that is none.
MCWords == MCNodes \cup {Null, Junk}

\* Threads are interchangeable: nothing names one.
ThreadSymmetry == Permutations(Threads)
=============================================================================
