----------------------------- MODULE ThreadCache -----------------------------
(***************************************************************************)
(* The per-thread caches of the pools (async_io_pool.hpp): ThreadCache of    *)
(* ObjectPool and ClassCache of BufferPool, an array of node addresses used  *)
(* as a stack.  A cache is the sequence nodes[0] .. nodes[count - 1].        *)
(***************************************************************************)
EXTENDS Naturals, Sequences

CONSTANT CacheSize      \* kObjectPoolTlsCacheSize, kBufferPoolTlsCacheSize

\* With one slot FlushHalf would flush count / 2 = 0 nodes and read past the end.
ASSUME CacheAssumption == CacheSize \in Nat /\ CacheSize >= 2

\* Push returns false.
Full(c) == Len(c) >= CacheSize

\* Pop: what it returns, and what it leaves.
Top(c) == c[Len(c)]
Rest(c) == SubSeq(c, 1, Len(c) - 1)

\* FlushHalf: the nodes it links into a chain, first to last, and the ones it keeps.
FlushCount(c) == IF Len(c) <= CacheSize \div 4 THEN 0 ELSE Len(c) \div 2
Kept(c) == SubSeq(c, 1, Len(c) - FlushCount(c))
Flushed(c) == SubSeq(c, Len(c) - FlushCount(c) + 1, Len(c))

\* The positions of node n in a list or cache.
At(s, n) == {i \in DOMAIN s : s[i] = n}
=============================================================================
