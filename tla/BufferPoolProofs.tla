-------------------------- MODULE BufferPoolProofs ---------------------------
(***************************************************************************)
(* Every buffer of BufferPool is in one place, and has the size it is handed *)
(* out for, for every number of threads, every table of size classes, every  *)
(* slab and every cache size.                                                *)
(*                                                                          *)
(* The argument: a buffer stays with its class (Classed), since Deallocate   *)
(* finds the class from the size Allocate found it from.  Within a class the *)
(* lists and caches share no buffer and repeat none (Apart), because each    *)
(* operation moves buffers between them whole (ThreadCacheProofs), and the   *)
(* slab is carved once, before any buffer of it was handed out (Carving).    *)
(***************************************************************************)
EXTENDS BufferPool, WellFoundedInduction, TLAPS

\* The buffers of a class.
Of(c) == Range(Slab[c]) \cup System[c]

Labels == {"idle", "pop", "ensure", "carve", "repop", "system"}

Typed ==
    /\ list \in [Classes -> Seq(Nodes)]
    /\ cache \in [Threads -> [Classes -> Seq(Nodes)]]
    /\ inited \in [Classes -> BOOLEAN]
    /\ used \in [Nodes -> Sizes \cup {NoSize}]
    /\ lent \in SUBSET Nodes
    /\ thr \in [Threads -> [pc : Labels, bytes : Sizes \cup {NoSize}]]
    /\ \A t \in Threads : thr[t].pc # "idle" => thr[t].bytes \in Sizes /\ Class(t) \in Classes
    /\ \A t \in Threads, c \in Classes : Len(cache[t][c]) <= CacheSize

\* A buffer is in the lists and caches of its class only, and with a caller who asked
\* for a size of that class.
Classed ==
    /\ \A c \in Classes : Range(list[c]) \subseteq Of(c)
    /\ \A t \in Threads, c \in Classes : Range(cache[t][c]) \subseteq Of(c)
    /\ \A n \in Nodes : used[n] # NoSize =>
          ClassForSize(used[n]) \in Classes /\ n \in Of(ClassForSize(used[n]))

\* Lists, caches and callers share no buffer, and a buffer that exists is with one of them.
Apart ==
    /\ \A c \in Classes : IsInjective(list[c])
    /\ \A t \in Threads, c \in Classes : IsInjective(cache[t][c])
    /\ \A t \in Threads, c \in Classes : Range(cache[t][c]) \cap Range(list[c]) = {}
    /\ \A t, u \in Threads, c \in Classes :
          t # u => Range(cache[t][c]) \cap Range(cache[u][c]) = {}
    /\ \A n \in Nodes, c \in Classes : used[n] # NoSize => n \notin Range(list[c])
    /\ \A n \in Nodes, t \in Threads, c \in Classes : used[n] # NoSize => n \notin Range(cache[t][c])
    /\ \A n \in Nodes : n \in lent <=> \/ used[n] # NoSize
                                       \/ \E c \in Classes : n \in Range(list[c])
                                       \/ \E t \in Threads, c \in Classes : n \in Range(cache[t][c])

\* One thread at most is about to carve the slab of a class, and until it does no buffer
\* of the slab exists.
Carving ==
    /\ \A t \in Threads : thr[t].pc = "carve" =>
          inited[Class(t)] /\ Range(Slab[Class(t)]) \cap lent = {}
    /\ \A t, u \in Threads :
          thr[t].pc = "carve" /\ thr[u].pc = "carve" /\ Class(t) = Class(u) => t = u
    /\ \A c \in Classes : ~inited[c] => Range(Slab[c]) \cap lent = {}

IInv == Typed /\ Classed /\ Apart /\ Carving

-----------------------------------------------------------------------------

\* Most steps are first-order; the ones with arithmetic or sequences say SMT.
USE Zenon

\* What the operations on a thread cache and on a free list do to the nodes in them, for
\* every cache size: which nodes are left, and that no node is repeated.

\* Range and IsInjective of a sequence, by positions.
LEMMA SeqFacts ==
    ASSUME NEW S, NEW s \in Seq(S)
    PROVE  /\ Len(s) \in Nat
           /\ DOMAIN s = 1..Len(s)
           /\ s # <<>> => Len(s) >= 1
           /\ s = <<>> => Len(s) = 0
           /\ \A i \in 1..Len(s) : s[i] \in S
           /\ \A x : x \in Range(s) <=> \E i \in 1..Len(s) : s[i] = x
           /\ IsInjective(s) <=> \A i, j \in 1..Len(s) : s[i] = s[j] => i = j
           /\ Range(s) \subseteq S
  <1>1. Len(s) \in Nat /\ DOMAIN s = 1..Len(s) /\ s \in [1..Len(s) -> S]
    BY SMT
  <1>2. s # <<>> => Len(s) \in Nat \ {0}
    BY SMT
  <1>3. Len(<<>>) = 0
    OBVIOUS
  <1>4. \A x : x \in Range(s) <=> \E i \in 1..Len(s) : s[i] = x
    BY <1>1 DEF Range
  <1>5. IsInjective(s) <=> \A i, j \in 1..Len(s) : s[i] = s[j] => i = j
    BY <1>1 DEF IsInjective
  <1> QED
    BY SMT, <1>1, <1>2, <1>3, <1>4, <1>5

\* A new list or cache holds nothing.
LEMMA EmptyFacts ==
    ASSUME NEW S
    PROVE  <<>> \in Seq(S) /\ Len(<<>>) = 0 /\ Range(<<>>) = {} /\ IsInjective(<<>>)
  <1>1. <<>> \in Seq(S) /\ Len(<<>>) = 0
    BY SMT
  <1>2. DOMAIN <<>> = {}
    BY SMT
  <1> QED
    BY <1>1, <1>2 DEF Range, IsInjective

\* A stretch of a sequence without repetitions, and the nodes in it.
LEMMA StretchFacts ==
    ASSUME NEW S, NEW s \in Seq(S), IsInjective(s),
           NEW m \in Nat \ {0}, NEW n \in Nat, m <= n + 1, n <= Len(s)
    PROVE  /\ SubSeq(s, m, n) \in Seq(S)
           /\ Len(SubSeq(s, m, n)) = n - m + 1
           /\ IsInjective(SubSeq(s, m, n))
           /\ \A x : x \in Range(SubSeq(s, m, n)) <=> \E j \in m..n : s[j] = x
  <1> DEFINE u == SubSeq(s, m, n)
  <1>1. /\ Len(s) \in Nat /\ DOMAIN s = 1..Len(s) /\ \A i \in 1..Len(s) : s[i] \in S
        /\ \A i, j \in 1..Len(s) : s[i] = s[j] => i = j
    BY SeqFacts
  <1>2. /\ u \in Seq(S)
        /\ Len(u) = IF m <= n THEN n - m + 1 ELSE 0
        /\ \A i \in 1..(n - m + 1) : u[i] = s[m + i - 1]
    BY SMT
  <1>3. Len(u) = n - m + 1 /\ n - m + 1 \in Nat
    BY SMT, <1>2
  <1>4. DOMAIN u = 1..(n - m + 1)
    BY SMT, <1>2, <1>3
  <1> HIDE DEF u
  <1>5. IsInjective(u)
    <2>1. \A i \in 1..(n - m + 1) : m + i - 1 \in 1..Len(s)
      BY SMT, <1>1
    <2>2. ASSUME NEW i \in 1..(n - m + 1), NEW j \in 1..(n - m + 1), u[i] = u[j] PROVE i = j
      <3>1. m + i - 1 = m + j - 1
        BY <1>1, <1>2, <2>1, <2>2
      <3> QED BY SMT, <3>1
    <2> QED BY <1>4, <2>2 DEF IsInjective
  <1>6. ASSUME NEW x PROVE x \in Range(u) <=> \E j \in m..n : s[j] = x
    <2>1. x \in Range(u) <=> \E i \in 1..(n - m + 1) : u[i] = x
      BY <1>4 DEF Range
    <2>2. ASSUME NEW j \in m..n, s[j] = x PROVE x \in Range(u)
      <3>1. j - m + 1 \in 1..(n - m + 1) /\ m + (j - m + 1) - 1 = j
        BY SMT
      <3>2. u[j - m + 1] = x
        BY <1>2, <2>2, <3>1
      <3> QED BY <2>1, <3>1, <3>2
    <2>3. ASSUME NEW i \in 1..(n - m + 1), u[i] = x PROVE \E j \in m..n : s[j] = x
      <3>1. m + i - 1 \in m..n
        BY SMT
      <3> QED BY <1>2, <2>3, <3>1
    <2> QED BY <2>1, <2>2, <2>3
  <1> QED
    BY <1>2, <1>3, <1>5, <1>6 DEF u

\* LockFreeStack::Pop takes the first node of a list and leaves the others.
LEMMA HeadFacts ==
    ASSUME NEW S, NEW s \in Seq(S), s # <<>>, IsInjective(s)
    PROVE  /\ Head(s) \in Range(s) /\ Head(s) \in S
           /\ Tail(s) \in Seq(S) /\ IsInjective(Tail(s))
           /\ Range(Tail(s)) = Range(s) \ {Head(s)}
  <1>1. /\ Len(s) \in Nat /\ Len(s) >= 1 /\ \A i \in 1..Len(s) : s[i] \in S
        /\ \A x : x \in Range(s) <=> \E i \in 1..Len(s) : s[i] = x
        /\ \A i, j \in 1..Len(s) : s[i] = s[j] => i = j
    BY SeqFacts
  <1>2. Head(s) = s[1] /\ Tail(s) = SubSeq(s, 2, Len(s))
    BY SMT
  <1>3. /\ Tail(s) \in Seq(S) /\ IsInjective(Tail(s))
        /\ \A x : x \in Range(Tail(s)) <=> \E i \in 2..Len(s) : s[i] = x
    <2>1. 2 \in Nat \ {0} /\ 2 <= Len(s) + 1 /\ Len(s) <= Len(s)
      BY SMT, <1>1
    <2>2. /\ SubSeq(s, 2, Len(s)) \in Seq(S) /\ IsInjective(SubSeq(s, 2, Len(s)))
          /\ \A x : x \in Range(SubSeq(s, 2, Len(s))) <=> \E i \in 2..Len(s) : s[i] = x
      BY SMT, <1>1, <2>1, StretchFacts
    <2> QED BY <1>2, <2>2
  <1>4. \A x : x \in Range(Tail(s)) <=> x \in Range(s) /\ x # s[1]
    BY SMT, <1>1, <1>3
  <1>5. Head(s) \in Range(s) /\ Head(s) \in S
    BY SMT, <1>1, <1>2
  <1> QED
    BY <1>2, <1>3, <1>4, <1>5

\* Pop takes the newest node of a cache and leaves the others.
LEMMA TopFacts ==
    ASSUME NEW S, NEW s \in Seq(S), s # <<>>, IsInjective(s)
    PROVE  /\ Top(s) \in Range(s) /\ Top(s) \in S
           /\ Rest(s) \in Seq(S) /\ IsInjective(Rest(s))
           /\ Len(Rest(s)) = Len(s) - 1
           /\ Range(Rest(s)) = Range(s) \ {Top(s)}
  <1>1. /\ Len(s) \in Nat /\ Len(s) >= 1 /\ \A i \in 1..Len(s) : s[i] \in S
        /\ \A x : x \in Range(s) <=> \E i \in 1..Len(s) : s[i] = x
        /\ \A i, j \in 1..Len(s) : s[i] = s[j] => i = j
    BY SeqFacts
  <1>2. /\ Rest(s) \in Seq(S) /\ IsInjective(Rest(s)) /\ Len(Rest(s)) = Len(s) - 1
        /\ \A x : x \in Range(Rest(s)) <=> \E i \in 1..(Len(s) - 1) : s[i] = x
    <2> DEFINE k == Len(s) - 1
    <2>1. k \in Nat /\ k <= Len(s)
      BY SMT, <1>1
    <2>2. Rest(s) = SubSeq(s, 1, k)
      BY DEF Rest
    <2> HIDE DEF k
    <2>3. /\ SubSeq(s, 1, k) \in Seq(S) /\ IsInjective(SubSeq(s, 1, k))
          /\ Len(SubSeq(s, 1, k)) = k - 1 + 1
          /\ \A x : x \in Range(SubSeq(s, 1, k)) <=> \E i \in 1..k : s[i] = x
      BY SMT, <2>1, StretchFacts
    <2> QED BY SMT, <2>1, <2>2, <2>3 DEF k
  <1>3. \A x : x \in Range(Rest(s)) <=> x \in Range(s) /\ x # s[Len(s)]
    BY SMT, <1>1, <1>2
  <1>4. Top(s) \in Range(s) /\ Top(s) \in S
    BY SMT, <1>1 DEF Top
  <1> QED
    BY <1>2, <1>3, <1>4 DEF Top

\* Push puts a node the cache does not hold on top of it.
LEMMA AppendFacts ==
    ASSUME NEW S, NEW s \in Seq(S), IsInjective(s), NEW e \in S, e \notin Range(s)
    PROVE  /\ Append(s, e) \in Seq(S) /\ IsInjective(Append(s, e))
           /\ Len(Append(s, e)) = Len(s) + 1
           /\ Range(Append(s, e)) = Range(s) \cup {e}
  <1>1. /\ Len(s) \in Nat
        /\ \A x : x \in Range(s) <=> \E i \in 1..Len(s) : s[i] = x
        /\ \A i, j \in 1..Len(s) : s[i] = s[j] => i = j
    BY SeqFacts
  <1>2. /\ Append(s, e) \in Seq(S) /\ Len(Append(s, e)) = Len(s) + 1
        /\ \A i \in 1..Len(s) : Append(s, e)[i] = s[i]
        /\ Append(s, e)[Len(s) + 1] = e
    BY SMT
  <1>3. DOMAIN Append(s, e) = 1..(Len(s) + 1)
    BY SMT, <1>2
  <1>4. \A i \in 1..(Len(s) + 1) : i \in 1..Len(s) \/ i = Len(s) + 1
    BY SMT, <1>1
  <1>5. IsInjective(Append(s, e))
    BY SMT, <1>1, <1>2, <1>3, <1>4 DEF IsInjective
  <1>6. ASSUME NEW x PROVE x \in Range(Append(s, e)) <=> x \in Range(s) \/ x = e
    <2>1. x \in Range(Append(s, e)) <=> \E i \in 1..(Len(s) + 1) : Append(s, e)[i] = x
      BY <1>3 DEF Range
    <2>2. Len(s) + 1 \in 1..(Len(s) + 1) /\ \A i \in 1..Len(s) : i \in 1..(Len(s) + 1)
      BY SMT, <1>1
    <2> QED BY SMT, <1>1, <1>2, <1>4, <2>1, <2>2
  <1> QED
    BY <1>2, <1>5, <1>6

\* PushChain puts a chain of nodes that are not in the list in front of it.
LEMMA ConcatFacts ==
    ASSUME NEW S, NEW s \in Seq(S), NEW r \in Seq(S), IsInjective(s), IsInjective(r),
           Range(s) \cap Range(r) = {}
    PROVE  /\ s \o r \in Seq(S) /\ IsInjective(s \o r)
           /\ Range(s \o r) = Range(s) \cup Range(r)
  <1>1. /\ Len(s) \in Nat /\ Len(r) \in Nat
        /\ \A i \in 1..Len(s) : s[i] \in Range(s)
        /\ \A i \in 1..Len(r) : r[i] \in Range(r)
        /\ \A i, j \in 1..Len(s) : s[i] = s[j] => i = j
        /\ \A i, j \in 1..Len(r) : r[i] = r[j] => i = j
    BY SeqFacts
  <1>2. /\ s \o r \in Seq(S) /\ Len(s \o r) = Len(s) + Len(r)
        /\ \A i \in 1..(Len(s) + Len(r)) :
              (s \o r)[i] = IF i <= Len(s) THEN s[i] ELSE r[i - Len(s)]
    BY SMT
  <1>3. DOMAIN (s \o r) = 1..(Len(s) + Len(r))
    BY SMT, <1>2
  <1>4. \A i \in 1..(Len(s) + Len(r)) :
           \/ i \in 1..Len(s) /\ (s \o r)[i] = s[i]
           \/ i - Len(s) \in 1..Len(r) /\ i > Len(s) /\ (s \o r)[i] = r[i - Len(s)]
    BY SMT, <1>1, <1>2
  <1>5. ASSUME NEW i \in 1..(Len(s) + Len(r)), NEW j \in 1..(Len(s) + Len(r)),
               (s \o r)[i] = (s \o r)[j]
        PROVE  i = j
    <2>1. CASE i \in 1..Len(s) /\ (s \o r)[i] = s[i]
      <3>1. j \in 1..Len(s) /\ (s \o r)[j] = s[j]
        BY <1>1, <1>4, <1>5, <2>1
      <3> QED BY <1>1, <1>5, <2>1, <3>1
    <2>2. CASE i - Len(s) \in 1..Len(r) /\ i > Len(s) /\ (s \o r)[i] = r[i - Len(s)]
      <3>1. j - Len(s) \in 1..Len(r) /\ j > Len(s) /\ (s \o r)[j] = r[j - Len(s)]
        BY <1>1, <1>4, <1>5, <2>2
      <3>2. i - Len(s) = j - Len(s)
        BY <1>1, <1>5, <2>2, <3>1
      <3> QED BY SMT, <1>1, <3>2
    <2> QED BY <1>4, <2>1, <2>2
  <1>6. IsInjective(s \o r)
    BY <1>3, <1>5 DEF IsInjective
  <1>7. ASSUME NEW x PROVE x \in Range(s \o r) <=> x \in Range(s) \/ x \in Range(r)
    <2>1. x \in Range(s \o r) <=> \E i \in 1..(Len(s) + Len(r)) : (s \o r)[i] = x
      BY <1>3 DEF Range
    <2>4. /\ x \in Range(s) <=> \E i \in 1..Len(s) : s[i] = x
          /\ x \in Range(r) <=> \E i \in 1..Len(r) : r[i] = x
      BY SeqFacts
    <2>2. ASSUME NEW i \in 1..Len(s) PROVE (s \o r)[i] = s[i] /\ i \in 1..(Len(s) + Len(r))
      BY SMT, <1>1, <1>2
    <2>3. ASSUME NEW i \in 1..Len(r)
          PROVE  (s \o r)[Len(s) + i] = r[i] /\ Len(s) + i \in 1..(Len(s) + Len(r))
      <3>1. Len(s) + i \in 1..(Len(s) + Len(r)) /\ ~(Len(s) + i <= Len(s)) /\ Len(s) + i - Len(s) = i
        BY SMT, <1>1
      <3> QED BY SMT, <1>2, <3>1
    <2> QED BY ZenonT(30), <1>4, <2>1, <2>2, <2>3, <2>4
  <1> QED
    BY <1>2, <1>6, <1>7

\* FlushHalf splits a full cache into the nodes it keeps and the chain it pushes on the
\* free list; there is room for one more node afterwards.
LEMMA FlushFacts ==
    ASSUME NEW S, NEW s \in Seq(S), IsInjective(s), Full(s)
    PROVE  /\ Kept(s) \in Seq(S) /\ IsInjective(Kept(s)) /\ Len(Kept(s)) < Len(s)
           /\ Flushed(s) \in Seq(S) /\ IsInjective(Flushed(s))
           /\ Range(Kept(s)) \cap Range(Flushed(s)) = {}
           /\ Range(Kept(s)) \cup Range(Flushed(s)) = Range(s)
  <1> DEFINE k == Len(s) - FlushCount(s)
  <1>1. /\ Len(s) \in Nat
        /\ \A x : x \in Range(s) <=> \E i \in 1..Len(s) : s[i] = x
        /\ \A i, j \in 1..Len(s) : s[i] = s[j] => i = j
    BY SeqFacts
  <1>2. k \in Nat /\ k < Len(s) /\ k + 1 \in Nat \ {0}
    <2>1. CacheSize \in Nat /\ CacheSize >= 2 /\ Len(s) >= CacheSize
      BY CacheAssumption DEF Full
    <2>2. ~(Len(s) <= CacheSize \div 4)
      BY SMT, <1>1, <2>1
    <2>3. FlushCount(s) = Len(s) \div 2
      BY <2>2 DEF FlushCount
    <2> QED BY SMT, <1>1, <2>1, <2>3
  <1> HIDE DEF k
  <1>3. /\ Kept(s) \in Seq(S) /\ IsInjective(Kept(s)) /\ Len(Kept(s)) = k
        /\ \A x : x \in Range(Kept(s)) <=> \E i \in 1..k : s[i] = x
    <2>1. /\ SubSeq(s, 1, k) \in Seq(S) /\ IsInjective(SubSeq(s, 1, k))
          /\ Len(SubSeq(s, 1, k)) = k - 1 + 1
          /\ \A x : x \in Range(SubSeq(s, 1, k)) <=> \E i \in 1..k : s[i] = x
      BY SMT, <1>1, <1>2, StretchFacts
    <2>2. Kept(s) = SubSeq(s, 1, k)
      BY DEF Kept, k
    <2> QED BY SMT, <1>2, <2>1, <2>2
  <1>4. /\ Flushed(s) \in Seq(S) /\ IsInjective(Flushed(s))
        /\ \A x : x \in Range(Flushed(s)) <=> \E i \in (k + 1)..Len(s) : s[i] = x
    <2>1. /\ SubSeq(s, k + 1, Len(s)) \in Seq(S) /\ IsInjective(SubSeq(s, k + 1, Len(s)))
          /\ \A x : x \in Range(SubSeq(s, k + 1, Len(s))) <=> \E i \in (k + 1)..Len(s) : s[i] = x
      BY SMT, <1>1, <1>2, StretchFacts
    <2>2. Flushed(s) = SubSeq(s, k + 1, Len(s))
      BY DEF Flushed, k
    <2> QED BY <2>1, <2>2
  <1>5. Range(Kept(s)) \cap Range(Flushed(s)) = {}
    BY SMT, <1>1, <1>2, <1>3, <1>4
  <1>6. \A x : x \in Range(Kept(s)) \cup Range(Flushed(s)) <=> x \in Range(s)
    BY SMT, <1>1, <1>2, <1>3, <1>4
  <1> QED
    BY <1>2, <1>3, <1>4, <1>5, <1>6

-----------------------------------------------------------------------------

\* The class a size is served from has buffers at least that large.
LEMMA ClassFits ==
    ASSUME NEW bytes \in Nat, ClassForSize(bytes) \in Classes
    PROVE  bytes <= ClassSizes[ClassForSize(bytes)]
  <1> DEFINE T == {c \in Classes : bytes <= ClassSizes[c]}
  <1>1. Len(ClassSizes) \in Nat /\ Classes = 1..Len(ClassSizes)
    BY BufferAssumption, SMT DEF Classes
  <1>2. T # {}
    <2>1. SUFFICES ASSUME T = {} PROVE FALSE
      OBVIOUS
    <2>2. ClassForSize(bytes) = Len(ClassSizes) + 1
      BY <2>1 DEF ClassForSize
    <2> QED BY SMT, <1>1, <2>2
  <1> DEFINE R == OpToRel(<, Nat)
  <1>3. IsWellFoundedOn(R, Nat) /\ \A c, d \in Nat : d < c => <<d, c>> \in R
    BY NatLessThanWellFounded DEF OpToRel
  <1> HIDE DEF R
  <1>4. \E c \in T : \A d \in T : ~(<<d, c>> \in R)
    <2>1. T \subseteq Nat
      BY SMT, <1>1
    <2> HIDE DEF T
    <2> QED BY <1>2, <1>3, <2>1, WFMin
  <1>5. \E c \in Classes : bytes <= ClassSizes[c] /\ \A d \in Classes : bytes <= ClassSizes[d] => c <= d
    <2>1. PICK c \in T : \A d \in T : ~(<<d, c>> \in R)
      BY <1>4
    <2>2. c \in Nat /\ \A d \in T : d \in Nat /\ ~(d < c)
      <3>1. T \subseteq Nat
        BY SMT, <1>1
      <3> HIDE DEF T
      <3> QED BY <1>3, <2>1, <3>1
    <2> QED BY SMT, <2>1, <2>2
  <1> QED
    BY <1>2, <1>5 DEF ClassForSize

\* A buffer belongs to one class.
LEMMA OneClass ==
    /\ \A c \in Classes : Of(c) \subseteq Nodes /\ Slab[c] \in Seq(Nodes) /\ IsInjective(Slab[c])
    /\ \A c, d \in Classes : \A n : n \in Of(c) /\ n \in Of(d) => c = d
    /\ \A n \in Nodes : \E c \in Classes : n \in Of(c)
  BY BufferAssumption DEF Of, Nodes

\* The pool starts empty.
LEMMA InitIInv == Init => IInv
  <1> SUFFICES ASSUME Init PROVE IInv
    OBVIOUS
  <1>1. <<>> \in Seq(Nodes) /\ Len(<<>>) = 0 /\ Range(<<>>) = {} /\ IsInjective(<<>>)
    BY EmptyFacts
  <1>2. /\ \A c \in Classes : list[c] = <<>>
        /\ \A t \in Threads, c \in Classes : cache[t][c] = <<>>
        /\ \A n \in Nodes : used[n] = NoSize
        /\ \A t \in Threads : thr[t] = Idle
        /\ \A c \in Classes : inited[c] = FALSE
        /\ lent = {}
    BY DEF Init
  <1>3. Typed
    BY SMT, <1>1, <1>2, CacheAssumption DEF Init, Typed, Idle, Labels
  <1>4. Classed
    BY <1>1, <1>2 DEF Classed
  <1>5. Apart
    BY <1>1, <1>2 DEF Apart
  <1>6. Carving
    BY SMT, <1>2 DEF Carving, Idle
  <1> QED BY <1>3, <1>4, <1>5, <1>6 DEF IInv

\* A buffer that leaves cache[t][c] for a caller, the first case of Allocate.
LEMMA AllocateIInv ==
    ASSUME IInv, NEW t \in Threads, NEW bytes \in Sizes, Allocate(t, bytes)
    PROVE  IInv'
  <1> DEFINE c == ClassForSize(bytes)
             q == cache[t][c]
             n == Top(q)
  <1>1. c \in Classes /\ thr[t] = Idle /\ UNCHANGED <<list, inited, lent>>
    BY DEF Allocate
  <1>2. CASE /\ q # <<>> /\ used' = [used EXCEPT ![n] = bytes]
             /\ cache' = [cache EXCEPT ![t][c] = Rest(@)] /\ UNCHANGED thr
    <2> HIDE DEF c
    <2>1. q \in Seq(Nodes) /\ IsInjective(q)
      BY SMT, <1>1 DEF IInv, Typed, Apart
    <2>2. /\ n \in Range(q) /\ n \in Nodes /\ Rest(q) \in Seq(Nodes) /\ IsInjective(Rest(q))
          /\ Len(Rest(q)) = Len(q) - 1 /\ Range(Rest(q)) = Range(q) \ {n}
      BY <1>2, <2>1, TopFacts
    <2>3. \A u \in Threads, d \in Classes :
             cache'[u][d] = IF u = t /\ d = c THEN Rest(q) ELSE cache[u][d]
      BY <1>1, <1>2 DEF IInv, Typed
    <2>4. \A m \in Nodes : used'[m] = IF m = n THEN bytes ELSE used[m]
      BY <1>2, <2>2 DEF IInv, Typed
    <2> HIDE DEF q, n
    <2>5. bytes # NoSize /\ Len(q) \in Nat /\ Len(q) <= CacheSize /\ CacheSize \in Nat
      BY SMT, <1>1, <2>1, SeqFacts, CacheAssumption, BufferAssumption DEF IInv, Typed, q
    <2>6. n \in Of(c) /\ used[n] = NoSize /\ n \in lent
      BY <1>1, <2>2 DEF IInv, Classed, Apart, q
    <2>7. Typed'
      <3>1. cache' \in [Threads -> [Classes -> Seq(Nodes)]]
        BY <1>2, <2>2 DEF IInv, Typed, q
      <3>2. used' \in [Nodes -> Sizes \cup {NoSize}]
        BY <1>2 DEF IInv, Typed
      <3>3. \A u \in Threads, d \in Classes : Len(cache'[u][d]) <= CacheSize
        <4>1. \A u \in Threads, d \in Classes : Len(cache[u][d]) <= CacheSize
          BY DEF IInv, Typed
        <4>2. Len(Rest(q)) <= CacheSize
          BY SMT, <2>2, <2>5
        <4> QED BY <2>3, <4>1, <4>2
      <3> QED BY <1>1, <1>2, <3>1, <3>2, <3>3 DEF IInv, Typed, Class
    <2>8. \A u \in Threads, d \in Classes : Range(cache'[u][d]) = Range(cache[u][d]) \ {n}
      <3>1. ASSUME NEW u \in Threads, NEW d \in Classes, ~(u = t /\ d = c)
            PROVE  n \notin Range(cache[u][d])
        <4>1. CASE d = c
          BY <1>1, <2>2, <3>1, <4>1 DEF IInv, Apart, q
        <4>2. CASE d # c
          BY <1>1, <2>6, <4>2, OneClass DEF IInv, Classed
        <4> QED BY <4>1, <4>2
      <3> QED BY SMT, <2>2, <2>3, <3>1 DEF q
    <2>9. \A d \in Classes : n \notin Range(list[d])
      BY <1>1, <2>2, <2>6, OneClass DEF IInv, Apart, Classed, q
    <2>10. Classed'
      BY SMT, <1>1, <2>4, <2>6, <2>8 DEF IInv, Classed, c
    <2>11. Apart'
      <3>1. \A u \in Threads, d \in Classes : IsInjective(cache'[u][d])
        BY SMT, <2>2, <2>3 DEF IInv, Apart
      <3>2. \A m \in Nodes : m \in lent' <=> \/ used'[m] # NoSize
                                             \/ \E d \in Classes : m \in Range(list'[d])
                                             \/ \E u \in Threads, d \in Classes : m \in Range(cache'[u][d])
        <4>1. \A m \in Nodes : m # n =>
                 (/\ used'[m] = used[m]
                  /\ \A u \in Threads, d \in Classes : m \in Range(cache'[u][d]) <=> m \in Range(cache[u][d]))
          BY SMT, <2>4, <2>8
        <4>2. used'[n] # NoSize /\ n \in lent'
          BY <1>1, <2>2, <2>4, <2>5, <2>6
        <4> QED BY SMT, <1>1, <4>1, <4>2 DEF IInv, Apart
      <3>3. \A u, v \in Threads, d \in Classes :
               u # v => Range(cache'[u][d]) \cap Range(cache'[v][d]) = {}
        BY SMT, <2>8 DEF IInv, Apart
      <3>4. \A u \in Threads, d \in Classes : Range(cache'[u][d]) \cap Range(list'[d]) = {}
        BY SMT, <1>1, <2>8 DEF IInv, Apart
      <3>5. \A m \in Nodes, d \in Classes : used'[m] # NoSize => m \notin Range(list'[d])
        BY SMT, <1>1, <2>4, <2>9 DEF IInv, Apart
      <3>6. \A m \in Nodes, u \in Threads, d \in Classes : used'[m] # NoSize => m \notin Range(cache'[u][d])
        BY SMT, <2>4, <2>8 DEF IInv, Apart
      <3>7. \A d \in Classes : IsInjective(list'[d])
        BY <1>1 DEF IInv, Apart
      <3> QED BY <3>1, <3>2, <3>3, <3>4, <3>5, <3>6, <3>7 DEF Apart
    <2>12. Carving'
      BY <1>1, <1>2 DEF IInv, Carving, Class
    <2> QED BY <2>7, <2>10, <2>11, <2>12 DEF IInv
  <1>3. CASE /\ q = <<>> /\ thr' = [thr EXCEPT ![t] = [pc |-> "pop", bytes |-> bytes]]
             /\ UNCHANGED <<cache, used>>
    <2> HIDE DEF c
    <2>1. \A u \in Threads : thr'[u] = IF u = t THEN [pc |-> "pop", bytes |-> bytes] ELSE thr[u]
      BY <1>3 DEF IInv, Typed
    <2>2. Typed'
      BY <1>1, <1>3, <2>1 DEF IInv, Typed, Labels, Class, c
    <2>3. Classed' /\ Apart'
      BY <1>1, <1>3 DEF IInv, Classed, Apart
    <2>4. Carving'
      BY SMT, <1>1, <1>3, <2>1 DEF IInv, Carving, Class
    <2> QED BY <2>2, <2>3, <2>4 DEF IInv
  <1> QED BY <1>2, <1>3 DEF Allocate
\* A step of a waiting thread to another label that changes no buffer.
LEMMA RelabelIInv ==
    ASSUME IInv, NEW t \in Threads, NEW label \in Labels \ {"idle", "carve"},
           thr[t].pc # "idle", thr' = [thr EXCEPT ![t].pc = label],
           UNCHANGED <<list, cache, inited, used, lent>>
    PROVE  IInv'
  <1>1. \A u \in Threads : /\ thr'[u].bytes = thr[u].bytes
                           /\ thr'[u].pc = IF u = t THEN label ELSE thr[u].pc
    BY SMT DEF IInv, Typed
  <1>2. thr' \in [Threads -> [pc : Labels, bytes : Sizes \cup {NoSize}]]
    BY SMT DEF IInv, Typed
  <1>3. \A u \in Threads : Class(u)' = Class(u)
    BY <1>1 DEF Class
  <1>4. Typed'
    BY SMT, <1>1, <1>2, <1>3 DEF IInv, Typed
  <1>5. Classed' /\ Apart'
    BY DEF IInv, Classed, Apart
  <1>6. Carving'
    BY SMT, <1>1, <1>3 DEF IInv, Carving
  <1> QED BY <1>4, <1>5, <1>6 DEF IInv

\* A buffer that leaves list[c] for a caller, the first case of AllocatePop.
LEMMA AllocatePopIInv ==
    ASSUME IInv, NEW t \in Threads, AllocatePop(t)
    PROVE  IInv'
  <1> DEFINE c == Class(t)
             q == list[c]
             n == Head(q)
             bytes == thr[t].bytes
  <1>1. /\ c \in Classes /\ bytes \in Sizes /\ bytes # NoSize /\ c = ClassForSize(bytes)
        /\ UNCHANGED <<cache, inited, lent>>
    BY BufferAssumption DEF AllocatePop, IInv, Typed, Class
  <1>2. CASE /\ q # <<>> /\ used' = [used EXCEPT ![n] = bytes]
             /\ list' = [list EXCEPT ![c] = Tail(@)] /\ thr' = [thr EXCEPT ![t] = Idle]
    <2> HIDE DEF c, bytes
    <2>1. q \in Seq(Nodes) /\ IsInjective(q)
      BY <1>1 DEF IInv, Typed, Apart
    <2>2. /\ n \in Range(q) /\ n \in Nodes /\ Tail(q) \in Seq(Nodes) /\ IsInjective(Tail(q))
          /\ Range(Tail(q)) = Range(q) \ {n}
      BY <1>2, <2>1, HeadFacts
    <2>3. \A d \in Classes : list'[d] = IF d = c THEN Tail(q) ELSE list[d]
      BY <1>1, <1>2 DEF IInv, Typed
    <2>4. \A m \in Nodes : used'[m] = IF m = n THEN bytes ELSE used[m]
      BY <1>2, <2>2 DEF IInv, Typed
    <2>5. \A u \in Threads : thr'[u] = IF u = t THEN Idle ELSE thr[u]
      BY <1>2 DEF IInv, Typed
    <2>6. Typed'
      <3>1. list' \in [Classes -> Seq(Nodes)]
        BY <1>2, <2>2 DEF IInv, Typed
      <3>2. used' \in [Nodes -> Sizes \cup {NoSize}]
        BY <1>1, <1>2 DEF IInv, Typed
      <3>3. thr' \in [Threads -> [pc : Labels, bytes : Sizes \cup {NoSize}]]
        BY <1>2 DEF IInv, Typed, Idle, Labels
      <3>4. \A u \in Threads : thr'[u].pc # "idle" => thr'[u].bytes \in Sizes /\ Class(u)' \in Classes
        <4>1. \A u \in Threads : u # t => Class(u)' = Class(u)
          BY <2>5 DEF Class
        <4>2. \A u \in Threads : thr[u].pc # "idle" => thr[u].bytes \in Sizes /\ Class(u) \in Classes
          BY DEF IInv, Typed
        <4>3. thr'[t].pc = "idle"
          BY SMT, <2>5 DEF Idle
        <4> QED BY <2>5, <4>1, <4>2, <4>3
      <3> QED BY <1>1, <3>1, <3>2, <3>3, <3>4 DEF IInv, Typed
    <2> HIDE DEF q, n
    <2>7. n \in Of(c) /\ used[n] = NoSize /\ n \in lent
      BY <1>1, <2>2 DEF IInv, Classed, Apart, q
    <2>8. \A d \in Classes : Range(list'[d]) = Range(list[d]) \ {n}
      <3>1. \A d \in Classes : d # c => n \notin Range(list[d])
        BY <1>1, <2>7, OneClass DEF IInv, Classed
      <3> QED BY <2>2, <2>3, <3>1 DEF q
    <2>9. \A u \in Threads, d \in Classes : n \notin Range(cache[u][d])
      <3>1. \A u \in Threads : n \notin Range(cache[u][c])
        BY <1>1, <2>2 DEF IInv, Apart, q
      <3>2. \A u \in Threads, d \in Classes : d # c => n \notin Range(cache[u][d])
        BY <1>1, <2>7, OneClass DEF IInv, Classed
      <3> QED BY <3>1, <3>2
    <2>10. Classed'
      BY <1>1, <2>4, <2>7, <2>8 DEF IInv, Classed
    <2>11. Apart'
      <3>1. \A d \in Classes : IsInjective(list'[d])
        BY <2>2, <2>3 DEF IInv, Apart
      <3>2. \A m \in Nodes : m \in lent' <=> \/ used'[m] # NoSize
                                             \/ \E d \in Classes : m \in Range(list'[d])
                                             \/ \E u \in Threads, d \in Classes : m \in Range(cache'[u][d])
        <4>1. \A m \in Nodes : m # n =>
                 (/\ used'[m] = used[m]
                  /\ \A d \in Classes : m \in Range(list'[d]) <=> m \in Range(list[d]))
          BY <2>4, <2>8
        <4>2. used'[n] # NoSize /\ n \in lent'
          BY <1>1, <2>2, <2>4, <2>7
        <4> QED BY SMT, <1>1, <4>1, <4>2 DEF IInv, Apart
      <3>3. \A u \in Threads, d \in Classes : Range(cache'[u][d]) \cap Range(list'[d]) = {}
        BY <1>1, <2>8 DEF IInv, Apart
      <3>4. \A m \in Nodes, d \in Classes : used'[m] # NoSize => m \notin Range(list'[d])
        BY SMT, <2>4, <2>8 DEF IInv, Apart
      <3>5. \A m \in Nodes, u \in Threads, d \in Classes : used'[m] # NoSize => m \notin Range(cache'[u][d])
        BY SMT, <1>1, <2>4, <2>9 DEF IInv, Apart
      <3> QED BY ZenonT(60), <1>1, <3>1, <3>2, <3>3, <3>4, <3>5 DEF IInv, Apart
    <2>12. Carving'
      BY SMT, <1>1, <2>5 DEF IInv, Carving, Class, Idle
    <2> QED BY <2>6, <2>10, <2>11, <2>12 DEF IInv
  <1>3. CASE /\ q = <<>> /\ Go(t, IF thr[t].pc = "pop" THEN "ensure" ELSE "system")
             /\ UNCHANGED <<list, used>>
    <2> DEFINE label == IF thr[t].pc = "pop" THEN "ensure" ELSE "system"
    <2>1. thr' = [thr EXCEPT ![t].pc = label] /\ label \in Labels /\ label # "carve" /\ label # "idle"
      BY <1>3 DEF Go, Labels
    <2> HIDE DEF label
    <2>2. thr[t].pc # "idle"
      BY DEF AllocatePop
    <2> QED BY <1>1, <1>3, <2>1, <2>2, RelabelIInv
  <1> QED BY <1>2, <1>3 DEF AllocatePop
\* The flag of the class goes from false to true for one thread, which goes on to carve.
LEMMA EnsureClassPopulatedIInv ==
    ASSUME IInv, NEW t \in Threads, EnsureClassPopulated(t)
    PROVE  IInv'
  <1> DEFINE c == Class(t)
  <1>1. /\ c \in Classes /\ thr[t].pc = "ensure" /\ UNCHANGED <<list, cache, used, lent>>
        /\ inited' = [inited EXCEPT ![c] = TRUE]
    BY DEF EnsureClassPopulated, IInv, Typed
  <1>2. CASE inited[c]
    <2>1. inited' = inited
      BY <1>1, <1>2 DEF IInv, Typed
    <2>2. thr' = [thr EXCEPT ![t].pc = "repop"]
      BY <1>2 DEF EnsureClassPopulated, Go
    <2>3. "repop" \in Labels \ {"idle", "carve"} /\ thr[t].pc # "idle"
      BY <1>1 DEF Labels
    <2> QED BY <1>1, <2>1, <2>2, <2>3, RelabelIInv
  <1>3. CASE ~inited[c]
    <2>1. thr' = [thr EXCEPT ![t].pc = "carve"]
      BY <1>3 DEF EnsureClassPopulated, Go
    <2>2. \A u \in Threads : /\ thr'[u].bytes = thr[u].bytes
                             /\ thr'[u].pc = IF u = t THEN "carve" ELSE thr[u].pc
      BY <2>1 DEF IInv, Typed
    <2>3. \A u \in Threads : Class(u)' = Class(u)
      BY <2>2 DEF Class
    <2>4. thr' \in [Threads -> [pc : Labels, bytes : Sizes \cup {NoSize}]]
      <3>1. thr \in [Threads -> [pc : Labels, bytes : Sizes \cup {NoSize}]]
        BY DEF IInv, Typed
      <3>2. thr' = [thr EXCEPT ![t].pc = "carve"] /\ "carve" \in Labels
        BY <2>1 DEF Labels
      <3> HIDE DEF c
      <3> QED BY SMT, <3>1, <3>2
    <2>5. Typed'
      BY <1>1, <2>2, <2>3, <2>4 DEF IInv, Typed
    <2>6. Classed' /\ Apart'
      BY <1>1 DEF IInv, Classed, Apart
    <2>7. \A d \in Classes : inited'[d] = IF d = c THEN TRUE ELSE inited[d]
      BY <1>1 DEF IInv, Typed
    <2> HIDE DEF c
    <2>8. \A u \in Threads : thr[u].pc = "carve" => Class(u) \in Classes /\ Class(u) # c
      BY <1>3 DEF IInv, Carving, Typed
    <2>9. Carving'
      <3>1. \A u \in Threads : thr'[u].pc = "carve" =>
               inited'[Class(u)'] /\ Range(Slab[Class(u)']) \cap lent' = {}
        <4>1. Class(t) = c
          BY DEF c
        <4>2. ASSUME NEW u \in Threads, thr'[u].pc = "carve", u # t
              PROVE  inited'[Class(u)'] /\ Range(Slab[Class(u)']) \cap lent' = {}
          <5>1. thr[u].pc = "carve" /\ Class(u)' = Class(u) /\ Class(u) \in Classes /\ Class(u) # c
            BY <2>2, <2>3, <2>8, <4>2
          <5> QED BY <1>1, <2>7, <5>1 DEF IInv, Carving
        <4>3. inited'[Class(t)'] /\ Range(Slab[Class(t)']) \cap lent' = {}
          BY <1>1, <1>3, <2>3, <2>7, <4>1 DEF IInv, Carving
        <4> QED BY <4>2, <4>3
      <3>2. \A u, v \in Threads :
               thr'[u].pc = "carve" /\ thr'[v].pc = "carve" /\ Class(u)' = Class(v)' => u = v
        <4>1. Class(t) = c
          BY DEF c
        <4> QED BY SMT, <2>2, <2>3, <2>8, <4>1 DEF IInv, Carving
      <3>3. \A d \in Classes : ~inited'[d] => Range(Slab[d]) \cap lent' = {}
        BY <1>1, <2>7 DEF IInv, Carving
      <3> QED BY <3>1, <3>2, <3>3 DEF Carving
    <2> QED BY <2>5, <2>6, <2>9 DEF IInv
  <1> QED BY <1>2, <1>3

\* The buffers of a slab come into the free list when none of them exists yet.
LEMMA CarveSlabIInv ==
    ASSUME IInv, NEW t \in Threads, CarveSlab(t)
    PROVE  IInv'
  <1> DEFINE c == Class(t)
             q == list[c]
             slab == Slab[c]
  <1>1. /\ c \in Classes /\ thr[t].pc = "carve" /\ UNCHANGED <<cache, inited, used>>
        /\ thr' = [thr EXCEPT ![t].pc = "repop"] /\ inited[c] /\ Range(slab) \cap lent = {}
    BY DEF CarveSlab, Go, IInv, Typed, Carving
  <1>2. "repop" \in Labels \ {"idle", "carve"} /\ thr[t].pc # "idle"
    BY <1>1 DEF Labels
  <1>3. CASE UNCHANGED <<list, lent>>
    BY <1>1, <1>2, <1>3, RelabelIInv
  <1>4. CASE list' = [list EXCEPT ![c] = slab \o @] /\ lent' = lent \cup Range(slab)
    <2>1. \A u \in Threads : /\ thr'[u].bytes = thr[u].bytes
                             /\ thr'[u].pc = IF u = t THEN "repop" ELSE thr[u].pc
      BY <1>1 DEF IInv, Typed
    <2>2. \A u \in Threads : Class(u)' = Class(u)
      BY <2>1 DEF Class
    <2>3. thr' \in [Threads -> [pc : Labels, bytes : Sizes \cup {NoSize}]]
      <3>1. thr \in [Threads -> [pc : Labels, bytes : Sizes \cup {NoSize}]]
        BY DEF IInv, Typed
      <3>2. thr' = [thr EXCEPT ![t].pc = "repop"] /\ "repop" \in Labels
        BY <1>1, <1>2
      <3> HIDE DEF c, q, slab
      <3> QED BY SMT, <3>1, <3>2
    <2>4. \A d \in Classes : list'[d] = IF d = c THEN slab \o q ELSE list[d]
      BY <1>1, <1>4 DEF IInv, Typed
    <2>5. Class(t) = c
      OBVIOUS
    <2> HIDE DEF c
    <2>6. slab \in Seq(Nodes) /\ IsInjective(slab) /\ Range(slab) \subseteq Of(c) /\ Of(c) \subseteq Nodes
      BY <1>1, OneClass DEF Of
    <2>7. /\ \A m \in Range(slab) : m \in Nodes /\ used[m] = NoSize
          /\ \A m \in Range(slab), d \in Classes : m \notin Range(list[d])
          /\ \A m \in Range(slab), u \in Threads, d \in Classes : m \notin Range(cache[u][d])
      <3>1. \A m \in Range(slab) : m \in Nodes /\ m \notin lent
        BY <1>1, <2>6
      <3> QED BY <3>1 DEF IInv, Apart
    <2>8. /\ slab \o q \in Seq(Nodes) /\ IsInjective(slab \o q)
          /\ Range(slab \o q) = Range(slab) \cup Range(q)
      <3>1. q \in Seq(Nodes) /\ IsInjective(q) /\ Range(slab) \cap Range(q) = {}
        BY <1>1, <2>7 DEF IInv, Typed, Apart
      <3> HIDE DEF q, slab
      <3> QED BY SMT, <2>6, <3>1, ConcatFacts
    <2>9. list' \in [Classes -> Seq(Nodes)]
      BY <1>4, <2>8 DEF IInv, Typed
    <2>10. \A d \in Classes :
              Range(list'[d]) = IF d = c THEN Range(slab) \cup Range(list[d]) ELSE Range(list[d])
      BY <2>4, <2>8
    <2>11. \A d \in Classes : IsInjective(list'[d])
      BY <2>4, <2>8 DEF IInv, Apart
    <2> HIDE DEF q, slab
    <2>12. Typed'
      <3>1. lent' \in SUBSET Nodes
        BY <1>4, <2>6 DEF IInv, Typed
      <3>2. \A u \in Threads : thr'[u].pc # "idle" => thr'[u].bytes \in Sizes /\ Class(u)' \in Classes
        BY <1>1, <1>2, <2>1, <2>2 DEF IInv, Typed
      <3> QED BY <1>1, <2>3, <2>9, <3>1, <3>2 DEF IInv, Typed
    <2>13. Classed'
      BY <1>1, <2>6, <2>10 DEF IInv, Classed
    <2>14. Apart'
      <3>1. \A u \in Threads, d \in Classes : Range(cache'[u][d]) \cap Range(list'[d]) = {}
        BY <1>1, <2>7, <2>10 DEF IInv, Apart
      <3>2. \A m \in Nodes, d \in Classes : used'[m] # NoSize => m \notin Range(list'[d])
        BY ZenonT(60), <1>1, <2>7, <2>10 DEF IInv, Apart
      <3>3. \A m \in Nodes : m \in lent' <=> \/ used'[m] # NoSize
                                             \/ \E d \in Classes : m \in Range(list'[d])
                                             \/ \E u \in Threads, d \in Classes : m \in Range(cache'[u][d])
        <4>0. lent' = lent \cup Range(slab)
          BY <1>4
        <4>1. \A m \in Range(slab) : m \in lent' /\ m \in Range(list'[c])
          BY <1>1, <2>10, <4>0
        <4>2. \A m \in Nodes : m \notin Range(slab) =>
                 (/\ m \in lent' <=> m \in lent
                  /\ \A d \in Classes : m \in Range(list'[d]) <=> m \in Range(list[d]))
          BY <2>10, <4>0
        <4> QED BY <1>1, <4>1, <4>2 DEF IInv, Apart
      <3> QED BY ZenonT(60), <1>1, <2>11, <3>1, <3>2, <3>3 DEF IInv, Apart
    <2>15. Carving'
      <3>1. \A d \in Classes : d # c => Range(Slab[d]) \cap Range(slab) = {}
        BY <1>1, OneClass DEF Of, slab
      <3>2. \A u \in Threads : thr'[u].pc = "carve" =>
               inited'[Class(u)'] /\ Range(Slab[Class(u)']) \cap lent' = {}
        <4>1. \A u \in Threads : thr'[u].pc = "carve" =>
                 Class(u) \in Classes /\ Class(u) # c /\ inited[Class(u)] /\ Range(Slab[Class(u)]) \cap lent = {}
          BY SMT, <1>1, <2>1, <2>5 DEF IInv, Carving, Typed
        <4> QED BY <1>1, <1>4, <2>2, <3>1, <4>1
      <3>3. \A u, v \in Threads :
               thr'[u].pc = "carve" /\ thr'[v].pc = "carve" /\ Class(u)' = Class(v)' => u = v
        BY SMT, <2>1, <2>2 DEF IInv, Carving
      <3>4. \A d \in Classes : ~inited'[d] => Range(Slab[d]) \cap lent' = {}
        BY <1>1, <1>4, <3>1 DEF IInv, Carving
      <3> QED BY <3>2, <3>3, <3>4 DEF Carving
    <2> QED BY <2>12, <2>13, <2>14, <2>15 DEF IInv
  <1> QED BY <1>3, <1>4 DEF CarveSlab
\* A buffer of its own from the system, which is in no slab.
LEMMA AllocateFromSystemIInv ==
    ASSUME IInv, NEW t \in Threads, AllocateFromSystem(t)
    PROVE  IInv'
  <1> DEFINE c == Class(t)
             bytes == thr[t].bytes
  <1>1. /\ c \in Classes /\ bytes \in Sizes /\ bytes # NoSize /\ c = ClassForSize(bytes)
        /\ thr' = [thr EXCEPT ![t] = Idle] /\ UNCHANGED <<list, cache, inited>>
    BY BufferAssumption DEF AllocateFromSystem, IInv, Typed, Class
  <1>2. \A u \in Threads : thr'[u] = IF u = t THEN Idle ELSE thr[u]
    BY <1>1 DEF IInv, Typed
  <1>3. thr' \in [Threads -> [pc : Labels, bytes : Sizes \cup {NoSize}]]
    BY <1>1 DEF IInv, Typed, Idle, Labels
  <1>4. /\ thr'[t].pc = "idle"
        /\ \A u \in Threads : u # t => thr'[u] = thr[u] /\ Class(u)' = Class(u)
    BY SMT, <1>2 DEF Idle, Class
  <1>5. \A u \in Threads : thr'[u].pc # "idle" => thr'[u].bytes \in Sizes /\ Class(u)' \in Classes
    <2>1. \A u \in Threads : thr[u].pc # "idle" => thr[u].bytes \in Sizes /\ Class(u) \in Classes
      BY DEF IInv, Typed
    <2> QED BY <1>4, <2>1
  <1> HIDE DEF c, bytes
  <1>6. CASE UNCHANGED <<used, lent>>
    <2>1. Typed'
      BY <1>1, <1>3, <1>5, <1>6 DEF IInv, Typed
    <2>2. Classed' /\ Apart'
      BY <1>1, <1>6 DEF IInv, Classed, Apart
    <2>3. Carving'
      BY SMT, <1>1, <1>4, <1>6 DEF IInv, Carving
    <2> QED BY <2>1, <2>2, <2>3 DEF IInv
  <1>7. ASSUME NEW n \in System[c] \ lent,
               used' = [used EXCEPT ![n] = bytes], lent' = lent \cup {n}
        PROVE  IInv'
    <2>1. n \in Of(c) /\ n \in Nodes
      BY <1>1, OneClass DEF Of
    <2>2. \A m \in Nodes : used'[m] = IF m = n THEN bytes ELSE used[m]
      BY <1>7, <2>1 DEF IInv, Typed
    <2>3. /\ \A d \in Classes : n \notin Range(list[d])
          /\ \A u \in Threads, d \in Classes : n \notin Range(cache[u][d])
      BY <1>7, <2>1 DEF IInv, Apart
    <2>4. \A d \in Classes : n \notin Range(Slab[d])
      BY <1>1, <1>7, <2>1, OneClass, BufferAssumption DEF Of
    <2>5. Typed'
      <3>1. used' \in [Nodes -> Sizes \cup {NoSize}] /\ lent' \in SUBSET Nodes
        BY <1>1, <1>7, <2>1 DEF IInv, Typed
      <3> QED BY <1>1, <1>3, <1>5, <3>1 DEF IInv, Typed
    <2>6. Classed'
      BY <1>1, <2>1, <2>2 DEF IInv, Classed
    <2>7. Apart'
      <3>1. \A m \in Nodes : m \in lent' <=> \/ used'[m] # NoSize
                                             \/ \E d \in Classes : m \in Range(list'[d])
                                             \/ \E u \in Threads, d \in Classes : m \in Range(cache'[u][d])
        <4>1. n \in lent' /\ used'[n] # NoSize
          BY <1>1, <1>7, <2>1, <2>2
        <4>2. \A m \in Nodes : m # n => (m \in lent' <=> m \in lent) /\ used'[m] = used[m]
          BY <1>7, <2>2
        <4> QED BY SMT, <1>1, <4>1, <4>2 DEF IInv, Apart
      <3>2. \A m \in Nodes, d \in Classes : used'[m] # NoSize => m \notin Range(list'[d])
        BY SMT, <1>1, <2>2, <2>3 DEF IInv, Apart
      <3>3. \A m \in Nodes, u \in Threads, d \in Classes : used'[m] # NoSize => m \notin Range(cache'[u][d])
        BY SMT, <1>1, <2>2, <2>3 DEF IInv, Apart
      <3> QED BY <1>1, <3>1, <3>2, <3>3 DEF IInv, Apart
    <2>8. Carving'
      <3>1. \A u \in Threads : thr'[u].pc = "carve" =>
               inited'[Class(u)'] /\ Range(Slab[Class(u)']) \cap lent' = {}
        <4>1. \A u \in Threads : thr'[u].pc = "carve" =>
                 /\ Class(u) \in Classes /\ Class(u)' = Class(u) /\ inited[Class(u)]
                 /\ Range(Slab[Class(u)]) \cap lent = {}
          BY <1>4 DEF IInv, Carving, Typed
        <4> QED BY <1>1, <1>7, <2>4, <4>1
      <3>2. \A u, v \in Threads :
               thr'[u].pc = "carve" /\ thr'[v].pc = "carve" /\ Class(u)' = Class(v)' => u = v
        BY SMT, <1>4 DEF IInv, Carving
      <3>3. \A d \in Classes : ~inited'[d] => Range(Slab[d]) \cap lent' = {}
        BY <1>1, <1>7, <2>4 DEF IInv, Carving
      <3> QED BY <3>1, <3>2, <3>3 DEF Carving
    <2> QED BY <2>5, <2>6, <2>7, <2>8 DEF IInv
  <1> QED BY <1>6, <1>7 DEF AllocateFromSystem, c, bytes
\* A buffer comes back to the caller's cache, and a full cache first gives a part M of
\* its buffers to the free list.
LEMMA DeallocateIInv ==
    ASSUME IInv, NEW t \in Threads, NEW n \in Nodes, Deallocate(t, n)
    PROVE  IInv'
  <1> DEFINE c == ClassForSize(used[n])
             q == cache[t][c]
  <1>1. /\ used[n] # NoSize /\ c \in Classes /\ n \in Of(c)
        /\ used' = [used EXCEPT ![n] = NoSize] /\ UNCHANGED <<inited, lent, thr>>
    BY DEF Deallocate, IInv, Classed
  <1>2. \/ /\ ~Full(q) /\ cache' = [cache EXCEPT ![t][c] = Append(@, n)] /\ UNCHANGED list
        \/ /\ Full(q) /\ list' = [list EXCEPT ![c] = Flushed(q) \o @]
           /\ cache' = [cache EXCEPT ![t][c] = Append(Kept(@), n)]
    BY DEF Deallocate
  <1> HIDE DEF c
  <1>3. /\ q \in Seq(Nodes) /\ IsInjective(q) /\ n \notin Range(q)
        /\ Len(q) \in Nat /\ Len(q) <= CacheSize /\ CacheSize \in Nat
    BY SMT, <1>1, SeqFacts, CacheAssumption DEF IInv, Typed, Apart
  <1>4. /\ list[c] \in Seq(Nodes) /\ IsInjective(list[c]) /\ Range(q) \cap Range(list[c]) = {}
        /\ n \notin Range(list[c])
    BY <1>1 DEF IInv, Typed, Apart
  <1>5. \E M \in SUBSET Range(q), r \in Seq(Nodes), l \in Seq(Nodes) :
           /\ list' = [list EXCEPT ![c] = l] /\ cache' = [cache EXCEPT ![t][c] = r]
           /\ IsInjective(r) /\ IsInjective(l) /\ Len(r) <= CacheSize
           /\ Range(l) = Range(list[c]) \cup M
           /\ Range(r) = (Range(q) \ M) \cup {n}
    <2>1. CASE ~Full(q) /\ cache' = [cache EXCEPT ![t][c] = Append(@, n)] /\ UNCHANGED list
      <3>1. /\ Append(q, n) \in Seq(Nodes) /\ IsInjective(Append(q, n))
            /\ Len(Append(q, n)) = Len(q) + 1 /\ Range(Append(q, n)) = Range(q) \cup {n}
        BY SMT, <1>3, AppendFacts
      <3>2. Len(Append(q, n)) <= CacheSize
        BY SMT, <1>3, <2>1, <3>1 DEF Full
      <3>3. cache' = [cache EXCEPT ![t][c] = Append(q, n)] /\ list' = [list EXCEPT ![c] = list[c]]
        BY <1>1, <2>1 DEF IInv, Typed
      <3> HIDE DEF q
      <3> Append(q, n) \in Seq(Nodes) /\ list[c] \in Seq(Nodes)
        BY <1>4, <3>1
      <3> WITNESS {} \in SUBSET Range(q), Append(q, n) \in Seq(Nodes), list[c] \in Seq(Nodes)
      <3> QED BY <1>4, <3>1, <3>2, <3>3
    <2>2. CASE /\ Full(q) /\ list' = [list EXCEPT ![c] = Flushed(q) \o @]
               /\ cache' = [cache EXCEPT ![t][c] = Append(Kept(@), n)]
      <3>1. list' = [list EXCEPT ![c] = Flushed(q) \o list[c]] /\ cache' = [cache EXCEPT ![t][c] = Append(Kept(q), n)]
        BY <2>2 DEF IInv, Typed
      <3> HIDE DEF q
      <3>2. /\ Kept(q) \in Seq(Nodes) /\ IsInjective(Kept(q)) /\ Len(Kept(q)) < Len(q)
            /\ Flushed(q) \in Seq(Nodes) /\ IsInjective(Flushed(q))
            /\ Range(Kept(q)) \cap Range(Flushed(q)) = {}
            /\ Range(Kept(q)) \cup Range(Flushed(q)) = Range(q)
        BY <1>3, <2>2, FlushFacts
      <3>3. /\ Append(Kept(q), n) \in Seq(Nodes) /\ IsInjective(Append(Kept(q), n))
            /\ Len(Append(Kept(q), n)) = Len(Kept(q)) + 1 /\ Range(Append(Kept(q), n)) = Range(Kept(q)) \cup {n}
        BY SMT, <1>3, <3>2, AppendFacts
      <3>4. /\ Flushed(q) \o list[c] \in Seq(Nodes) /\ IsInjective(Flushed(q) \o list[c])
            /\ Range(Flushed(q) \o list[c]) = Range(Flushed(q)) \cup Range(list[c])
        BY SMT, <1>4, <3>2, ConcatFacts
      <3>5. Len(Kept(q)) + 1 <= CacheSize
        BY SMT, <1>3, <3>2, SeqFacts
      <3>6. Range(Flushed(q)) \in SUBSET Range(q) /\ Range(Kept(q)) = Range(q) \ Range(Flushed(q))
        BY <3>2
      <3> /\ Range(Flushed(q)) \in SUBSET Range(q)
          /\ Append(Kept(q), n) \in Seq(Nodes) /\ Flushed(q) \o list[c] \in Seq(Nodes)
        BY <3>3, <3>4, <3>6
      <3> WITNESS Range(Flushed(q)) \in SUBSET Range(q), Append(Kept(q), n) \in Seq(Nodes),
                  Flushed(q) \o list[c] \in Seq(Nodes)
      <3> QED BY <3>1, <3>3, <3>4, <3>5, <3>6
    <2> QED BY <1>2, <2>1, <2>2
  <1>6. PICK M \in SUBSET Range(q), r \in Seq(Nodes), l \in Seq(Nodes) :
           /\ list' = [list EXCEPT ![c] = l] /\ cache' = [cache EXCEPT ![t][c] = r]
           /\ IsInjective(r) /\ IsInjective(l) /\ Len(r) <= CacheSize
           /\ Range(l) = Range(list[c]) \cup M
           /\ Range(r) = (Range(q) \ M) \cup {n}
    BY <1>5
  <1>7. /\ \A d \in Classes : list'[d] = IF d = c THEN l ELSE list[d]
        /\ \A u \in Threads, d \in Classes : cache'[u][d] = IF u = t /\ d = c THEN r ELSE cache[u][d]
        /\ \A m \in Nodes : used'[m] = IF m = n THEN NoSize ELSE used[m]
    BY <1>1, <1>6 DEF IInv, Typed
  <1> HIDE DEF q
  <1>8. M \subseteq Range(q) /\ q = cache[t][c]
    BY DEF q
  <1>9. Typed'
    <2>1. list' \in [Classes -> Seq(Nodes)] /\ cache' \in [Threads -> [Classes -> Seq(Nodes)]]
      BY <1>6 DEF IInv, Typed
    <2>2. used' \in [Nodes -> Sizes \cup {NoSize}]
      BY <1>1 DEF IInv, Typed
    <2>3. \A u \in Threads, d \in Classes : Len(cache'[u][d]) <= CacheSize
      BY SMT, <1>6, <1>7 DEF IInv, Typed
    <2> QED BY <1>1, <2>1, <2>2, <2>3 DEF IInv, Typed, Class
  <1>10. Classed'
    <2>1. Range(l) \subseteq Of(c) /\ Range(r) \subseteq Of(c)
      BY <1>1, <1>6, <1>8 DEF IInv, Classed
    <2>2. /\ \A d \in Classes : Range(list'[d]) \subseteq Of(d)
          /\ \A u \in Threads, d \in Classes : Range(cache'[u][d]) \subseteq Of(d)
      BY SMT, <1>7, <2>1 DEF IInv, Classed
    <2>3. \A m \in Nodes : used'[m] # NoSize => ClassForSize(used'[m]) \in Classes /\ m \in Of(ClassForSize(used'[m]))
      BY <1>7 DEF IInv, Classed
    <2> QED BY <2>2, <2>3 DEF Classed
  <1>11. Apart'
    <2>1. \A d \in Classes : IsInjective(list'[d])
      BY SMT, <1>6, <1>7 DEF IInv, Apart
    <2>2. \A u \in Threads, d \in Classes : IsInjective(cache'[u][d])
      BY SMT, <1>6, <1>7 DEF IInv, Apart
    <2>3. ASSUME NEW u \in Threads, NEW d \in Classes
          PROVE  Range(cache'[u][d]) \cap Range(list'[d]) = {}
      <3>1. CASE d # c
        <4>1. cache'[u][d] = cache[u][d] /\ list'[d] = list[d]
          BY <1>7, <3>1
        <4> QED BY <4>1 DEF IInv, Apart
      <3>2. CASE d = c /\ u = t
        <4>1. cache'[u][d] = r /\ list'[d] = l
          BY <1>7, <3>2
        <4> QED BY <1>3, <1>4, <1>6, <1>8, <4>1
      <3>3. CASE d = c /\ u # t
        <4>1. cache'[u][d] = cache[u][c] /\ list'[d] = l
          BY <1>1, <1>7, <3>3
        <4>2. Range(cache[u][c]) \cap Range(q) = {} /\ Range(cache[u][c]) \cap Range(list[c]) = {}
          BY <1>1, <1>8, <3>3 DEF IInv, Apart
        <4> QED BY <1>6, <1>8, <4>1, <4>2
      <3> QED BY <3>1, <3>2, <3>3
    <2>4. ASSUME NEW u \in Threads, NEW v \in Threads, NEW d \in Classes, u # v
          PROVE  Range(cache'[u][d]) \cap Range(cache'[v][d]) = {}
      <3>1. \A w \in Threads : w # t => Range(r) \cap Range(cache[w][c]) = {}
        <4>1. \A w \in Threads : w # t => n \notin Range(cache[w][c]) /\ Range(q) \cap Range(cache[w][c]) = {}
          BY <1>1, <1>8 DEF IInv, Apart
        <4> QED BY <1>6, <4>1
      <3>2. \A w \in Threads : ~(w = t /\ d = c) => cache'[w][d] = cache[w][d]
        BY <1>7
      <3>3. d = c => cache'[t][d] = r
        BY <1>7
      <3>4. Range(cache[u][d]) \cap Range(cache[v][d]) = {}
        BY <2>4 DEF IInv, Apart
      <3>5. CASE d # c \/ (u # t /\ v # t)
        BY <3>2, <3>4, <3>5
      <3>6. CASE d = c /\ u = t
        BY <2>4, <3>1, <3>2, <3>3, <3>6
      <3>7. CASE d = c /\ v = t
        BY <2>4, <3>1, <3>2, <3>3, <3>7
      <3> QED BY <3>5, <3>6, <3>7
    <2>5. ASSUME NEW m \in Nodes, used'[m] # NoSize
          PROVE  /\ \A d \in Classes : m \notin Range(list'[d])
                 /\ \A u \in Threads, d \in Classes : m \notin Range(cache'[u][d])
      <3>1. m # n /\ used[m] # NoSize
        BY <1>7, <2>5
      <3>2. /\ \A d \in Classes : m \notin Range(list[d])
            /\ \A u \in Threads, d \in Classes : m \notin Range(cache[u][d])
        BY <3>1 DEF IInv, Apart
      <3>3. m \notin Range(l) /\ m \notin Range(r)
        BY <1>1, <1>6, <1>8, <3>1, <3>2
      <3> QED BY SMT, <1>7, <3>2, <3>3
    <2>6. ASSUME NEW m \in Nodes
          PROVE  m \in lent' <=> \/ used'[m] # NoSize
                                 \/ \E d \in Classes : m \in Range(list'[d])
                                 \/ \E u \in Threads, d \in Classes : m \in Range(cache'[u][d])
      <3>1. list'[c] = l /\ cache'[t][c] = r
        BY <1>1, <1>7
      <3>2. CASE m = n
        <4>1. m \in lent
          BY <1>1, <3>2 DEF IInv, Apart
        <4>2. m \in Range(cache'[t][c])
          BY <1>6, <3>1, <3>2
        <4> QED BY <1>1, <4>1, <4>2
      <3>3. CASE m # n /\ m \in Range(q)
        <4>1. m \in lent
          BY <1>1, <1>8, <3>3 DEF IInv, Apart
        <4>2. m \in Range(cache'[t][c]) \/ m \in Range(list'[c])
          BY <1>6, <3>1, <3>3
        <4> QED BY <1>1, <4>1, <4>2
      <3>4. CASE m # n /\ m \notin Range(q)
        <4>1. used'[m] = used[m]
          BY <1>7, <3>4
        <4>2. \A d \in Classes : m \in Range(list'[d]) <=> m \in Range(list[d])
          <5>1. m \in Range(l) <=> m \in Range(list[c])
            BY <1>6, <1>8, <3>4
          <5> QED BY <1>7, <5>1
        <4>3. \A u \in Threads, d \in Classes : m \in Range(cache'[u][d]) <=> m \in Range(cache[u][d])
          <5>1. m \in Range(r) <=> m \in Range(cache[t][c])
            BY <1>6, <1>8, <3>4
          <5> QED BY SMT, <1>7, <5>1
        <4> QED BY SMT, <1>1, <4>1, <4>2, <4>3 DEF IInv, Apart
      <3> QED BY <3>2, <3>3, <3>4
    <2> QED BY <2>1, <2>2, <2>3, <2>4, <2>5, <2>6 DEF Apart
  <1>12. Carving'
    BY <1>1 DEF IInv, Carving, Class
  <1> QED BY <1>9, <1>10, <1>11, <1>12 DEF IInv
-----------------------------------------------------------------------------

\* Every step of every thread keeps the invariant.
LEMMA NextIInv == IInv /\ [Next]_vars => IInv'
  <1> SUFFICES ASSUME IInv, [Next]_vars PROVE IInv'
    OBVIOUS
  <1>1. CASE UNCHANGED vars
    <2>1. Typed' /\ Carving'
      BY <1>1 DEF vars, IInv, Typed, Carving, Class
    <2>2. Classed' /\ Apart'
      BY SMT, <1>1 DEF vars, IInv, Classed, Apart
    <2> QED BY <2>1, <2>2 DEF IInv
  <1>2. ASSUME NEW t \in Threads, NEW bytes \in Sizes, Allocate(t, bytes) PROVE IInv'
    BY <1>2, AllocateIInv
  <1>3. ASSUME NEW t \in Threads, AllocatePop(t) PROVE IInv'
    BY <1>3, AllocatePopIInv
  <1>4. ASSUME NEW t \in Threads, EnsureClassPopulated(t) PROVE IInv'
    BY <1>4, EnsureClassPopulatedIInv
  <1>5. ASSUME NEW t \in Threads, CarveSlab(t) PROVE IInv'
    BY <1>5, CarveSlabIInv
  <1>6. ASSUME NEW t \in Threads, AllocateFromSystem(t) PROVE IInv'
    BY <1>6, AllocateFromSystemIInv
  <1>7. ASSUME NEW t \in Threads, NEW n \in Nodes, Deallocate(t, n) PROVE IInv'
    BY <1>7, DeallocateIInv
  <1> QED BY <1>1, <1>2, <1>3, <1>4, <1>5, <1>6, <1>7 DEF Next

\* The places of a buffer, one kind at a time.
LEMMA PlaceKinds ==
    ASSUME NEW n, NEW x \in Places(n)
    PROVE  \/ \E c \in Classes : \E i \in DOMAIN list[c] : list[c][i] = n /\ x = <<"list", c, i>>
           \/ \E t \in Threads, c \in Classes : \E i \in DOMAIN cache[t][c] :
                 cache[t][c][i] = n /\ x = <<"cache", t, c, i>>
           \/ used[n] # NoSize /\ x = <<"caller", used[n]>>
  <1>1. ASSUME x \in InLists(n)
        PROVE  \E c \in Classes : \E i \in DOMAIN list[c] : list[c][i] = n /\ x = <<"list", c, i>>
    BY <1>1 DEF InLists, At
  <1>2. ASSUME x \in InCaches(n)
        PROVE  \E t \in Threads, c \in Classes : \E i \in DOMAIN cache[t][c] :
                  cache[t][c][i] = n /\ x = <<"cache", t, c, i>>
    BY SMT, <1>2 DEF InCaches, At
  <1>3. ASSUME x \in WithCaller(n) PROVE used[n] # NoSize /\ x = <<"caller", used[n]>>
    BY <1>3 DEF WithCaller
  <1> QED BY <1>1, <1>2, <1>3 DEF Places

\* A position in the array of a cache is a place.
LEMMA CachePlace ==
    ASSUME NEW n, NEW t \in Threads, NEW c \in Classes,
           NEW i \in At(cache[t][c], n), i \in 1..CacheSize
    PROVE  <<"cache", t, c, i>> \in Places(n)
  <1> DEFINE P(u, d) == {<<"cache", u, d, j>> : j \in At(cache[u][d], n) \cap (1..CacheSize)}
  <1>1. <<"cache", t, c, i>> \in P(t, c)
    OBVIOUS
  <1>2. InCaches(n) = UNION {P(u, d) : u \in Threads, d \in Classes}
    BY SMT DEF InCaches
  <1> HIDE DEF P
  <1>3. P(t, c) \in {P(u, d) : u \in Threads, d \in Classes}
    BY SMT
  <1> QED BY SMT, <1>1, <1>2, <1>3 DEF Places

\* The invariant says that a buffer is in one place, and that one that exists is somewhere.
LEMMA OnePlaceHolds == IInv => OnePlace
  <1> SUFFICES ASSUME IInv PROVE OnePlace
    OBVIOUS
  <1>1. /\ \A c \in Classes : list[c] \in Seq(Nodes)
        /\ \A t \in Threads, c \in Classes : cache[t][c] \in Seq(Nodes) /\ Len(cache[t][c]) <= CacheSize
        /\ lent \subseteq Nodes
    BY DEF IInv, Typed
  <1>2. ASSUME NEW n \in Nodes, NEW x \in Places(n), NEW y \in Places(n) PROVE x = y
    <2> DEFINE InList(c) == n \in Range(list[c])
               InCache(t, c) == n \in Range(cache[t][c])
    <2>1. \A c, d \in Classes : InList(c) /\ InList(d) => c = d
      BY OneClass DEF IInv, Classed
    <2>2. \A t \in Threads, c, d \in Classes : ~(InCache(t, c) /\ InList(d))
      <3>1. \A t \in Threads, c, d \in Classes : InCache(t, c) /\ InList(d) => c = d
        BY OneClass DEF IInv, Classed
      <3> QED BY <3>1 DEF IInv, Apart
    <2>3. \A t, u \in Threads, c, d \in Classes : InCache(t, c) /\ InCache(u, d) => t = u /\ c = d
      <3>1. \A t, u \in Threads, c, d \in Classes : InCache(t, c) /\ InCache(u, d) => c = d
        BY OneClass DEF IInv, Classed
      <3> QED BY SMT, <3>1 DEF IInv, Apart
    <2>4. used[n] # NoSize => /\ \A c \in Classes : ~InList(c)
                              /\ \A t \in Threads, c \in Classes : ~InCache(t, c)
      BY DEF IInv, Apart
    <2>5. \A c \in Classes : \A i, j \in DOMAIN list[c] : list[c][i] = n /\ list[c][j] = n => i = j
      BY DEF IInv, Apart, IsInjective
    <2>6. \A t \in Threads, c \in Classes : \A i, j \in DOMAIN cache[t][c] :
             cache[t][c][i] = n /\ cache[t][c][j] = n => i = j
      BY DEF IInv, Apart, IsInjective
    <2>7. /\ \A c \in Classes : \A i \in DOMAIN list[c] : list[c][i] = n => InList(c)
          /\ \A t \in Threads, c \in Classes : \A i \in DOMAIN cache[t][c] : cache[t][c][i] = n => InCache(t, c)
      BY DEF Range
    <2> HIDE DEF InList, InCache
    <2>8. /\ \/ \E c \in Classes : \E i \in DOMAIN list[c] : list[c][i] = n /\ x = <<"list", c, i>>
             \/ \E t \in Threads, c \in Classes : \E i \in DOMAIN cache[t][c] :
                   cache[t][c][i] = n /\ x = <<"cache", t, c, i>>
             \/ used[n] # NoSize /\ x = <<"caller", used[n]>>
          /\ \/ \E c \in Classes : \E i \in DOMAIN list[c] : list[c][i] = n /\ y = <<"list", c, i>>
             \/ \E t \in Threads, c \in Classes : \E i \in DOMAIN cache[t][c] :
                   cache[t][c][i] = n /\ y = <<"cache", t, c, i>>
             \/ used[n] # NoSize /\ y = <<"caller", used[n]>>
      BY PlaceKinds
    <2>9. CASE \E c \in Classes : \E i \in DOMAIN list[c] : list[c][i] = n /\ x = <<"list", c, i>>
      <3>1. PICK c \in Classes : \E i \in DOMAIN list[c] : list[c][i] = n /\ x = <<"list", c, i>>
        BY <2>9
      <3>2. InList(c)
        BY <2>7, <3>1
      <3>3. \E i \in DOMAIN list[c] : list[c][i] = n /\ y = <<"list", c, i>>
        BY <2>1, <2>2, <2>4, <2>7, <2>8, <3>2
      <3> QED BY <2>5, <3>1, <3>3
    <2>10. CASE \E t \in Threads, c \in Classes : \E i \in DOMAIN cache[t][c] :
                   cache[t][c][i] = n /\ x = <<"cache", t, c, i>>
      <3>1. PICK t \in Threads, c \in Classes : \E i \in DOMAIN cache[t][c] :
                   cache[t][c][i] = n /\ x = <<"cache", t, c, i>>
        BY <2>10
      <3>2. InCache(t, c)
        BY <2>7, <3>1
      <3>3. \E i \in DOMAIN cache[t][c] : cache[t][c][i] = n /\ y = <<"cache", t, c, i>>
        BY SMT, <2>2, <2>3, <2>4, <2>7, <2>8, <3>2
      <3> QED BY <2>6, <3>1, <3>3
    <2>11. CASE used[n] # NoSize /\ x = <<"caller", used[n]>>
      BY <2>4, <2>7, <2>8, <2>11
    <2> QED BY <2>8, <2>9, <2>10, <2>11
  <1>3. ASSUME NEW n \in lent PROVE Places(n) # {}
    <2>1. \/ used[n] # NoSize
          \/ \E c \in Classes : n \in Range(list[c])
          \/ \E t \in Threads, c \in Classes : n \in Range(cache[t][c])
      BY <1>1 DEF IInv, Apart
    <2>2. CASE used[n] # NoSize
      <3>1. <<"caller", used[n]>> \in Places(n)
        BY <2>2 DEF Places, WithCaller
      <3> QED BY <3>1
    <2>3. CASE \E c \in Classes : n \in Range(list[c])
      <3>1. PICK c \in Classes : \E i \in DOMAIN list[c] : list[c][i] = n
        BY <2>3 DEF Range
      <3>2. PICK i \in DOMAIN list[c] : list[c][i] = n
        BY <3>1
      <3>3. <<"list", c, i>> \in InLists(n)
        BY SMT, <3>2 DEF InLists, At
      <3> QED BY <3>3 DEF Places
    <2>4. CASE \E t \in Threads, c \in Classes : n \in Range(cache[t][c])
      <3>1. PICK t \in Threads, c \in Classes : \E i \in DOMAIN cache[t][c] : cache[t][c][i] = n
        BY <2>4 DEF Range
      <3>2. PICK i \in DOMAIN cache[t][c] : cache[t][c][i] = n
        BY <3>1
      <3>3. i \in 1..CacheSize
        BY SMT, <1>1, <3>2, SeqFacts, CacheAssumption
      <3>4. <<"cache", t, c, i>> \in Places(n)
        BY <3>2, <3>3, CachePlace DEF At
      <3> QED BY <3>4
    <2> QED BY <2>1, <2>2, <2>3, <2>4
  <1> QED BY <1>2, <1>3 DEF OnePlace

\* The invariant says that a buffer has the size it is handed out for.
LEMMA SizeHonestHolds == IInv => SizeHonest
  <1> SUFFICES ASSUME IInv, NEW c \in Classes, NEW n \in Of(c)
               PROVE  /\ used[n] # NoSize => used[n] <= ClassSizes[c]
                      /\ \A d \in Classes : n \in Range(list[d]) => d = c
                      /\ \A t \in Threads, d \in Classes : n \in Range(cache[t][d]) => d = c
    BY DEF SizeHonest, Of
  <1>1. n \in Nodes /\ \A d \in Classes : n \in Of(d) => d = c
    BY OneClass
  <1>2. ASSUME used[n] # NoSize PROVE used[n] <= ClassSizes[c]
    <2>1. used[n] \in Nat /\ ClassForSize(used[n]) \in Classes /\ n \in Of(ClassForSize(used[n]))
      BY <1>1, <1>2, BufferAssumption DEF IInv, Typed, Classed
    <2>2. used[n] <= ClassSizes[ClassForSize(used[n])]
      BY <2>1, ClassFits
    <2> QED BY <1>1, <2>1, <2>2
  <1>3. /\ \A d \in Classes : n \in Range(list[d]) => d = c
        /\ \A t \in Threads, d \in Classes : n \in Range(cache[t][d]) => d = c
    BY <1>1 DEF IInv, Classed
  <1> QED BY <1>2, <1>3

\* The pool keeps the invariant.
LEMMA SpecIInv == Spec => []IInv
  BY InitIInv, NextIInv, PTL DEF Spec

\* No buffer is handed out twice or lost: not when several threads populate a class at
\* once (EnsureClassPopulated) and not when a full cache is flushed (Deallocate), for
\* every number of threads, classes and buffers and every cache size.
THEOREM BufferOnePlace == Spec => []OnePlace
  BY SpecIInv, OnePlaceHolds, PTL

\* A buffer is at least as large as the size it was handed out for, and comes back to
\* the class it belongs to, whatever the table of class sizes.
THEOREM BufferSizeHonest == Spec => []SizeHonest
  BY SpecIInv, SizeHonestHolds, PTL
=============================================================================
