-------------------------- MODULE ObjectPoolProofs ---------------------------
(***************************************************************************)
(* Every object of ObjectPool is in one place, none is lost while its        *)
(* instance lives, and every object in use lies in memory the pool has not   *)
(* freed, for every number of threads, instances, blocks and cache slots, if *)
(* instances follow one another (OneAtATime).                                *)
(*                                                                          *)
(* The argument: one instance lives at a time, and when none does only the   *)
(* thread that makes them has anything cached, which its next constructor    *)
(* throws away (Lives).  So as long as one lives, every object in a list, in *)
(* a cache or in use is of a block the system has lent (Backed), a block     *)
(* that GrowPool has just obtained has no object anywhere (Fresh), and the   *)
(* operations move objects between the places whole (Apart).                 *)
(***************************************************************************)
EXTENDS ObjectPool, TLAPS

\* How the library uses its pools: GetTaskPool has one instance of ObjectPool<T>, and
\* lines 148-150 provide for one that is "destroyed and recreated".  One thread makes and
\* destroys the instances, the others are workers.
OneAtATime == MaxAlive = 1 /\ \A t, u \in Threads \ Exits : t = u

Labels == {"idle", "alloc", "read", "write", "link", "pop", "repop", "last"}

Records == [pc : Labels, pool : Pools \cup {NoPool},
            block : Blocks \cup {NoBlock}, seen : SUBSET Blocks]

Typed ==
    /\ phase \in [Pools -> {"unborn", "building", "alive", "dead"}]
    /\ list \in [Pools -> Seq(Nodes)]
    /\ storage \in [Pools -> SUBSET Blocks]
    /\ cache \in [Threads -> Seq(Nodes)]
    /\ \A t \in Threads : Len(cache[t]) <= CacheSize
    /\ used \in [Nodes -> Pools \cup {NoPool}]
    /\ lent \in SUBSET Blocks
    /\ thr \in [Threads -> Records]

\* An instance between its constructor and its destructor.
Live(p) == phase[p] \in {"building", "alive"}

\* One instance lives, and threads, objects and blocks are only ever those of it.
Lives ==
    /\ \A p, q \in Pools : Live(p) /\ Live(q) => p = q
    /\ \A t \in Threads : thr[t] = Idle \/ (thr[t].pool \in Pools /\ Live(thr[t].pool))
    /\ \A p \in Pools : ~Live(p) => list[p] = <<>> /\ storage[p] = {}
    /\ \A n \in Nodes : used[n] # NoPool => Live(used[n])
    /\ (\A p \in Pools : ~Live(p)) => \A t \in Exits : cache[t] = <<>>

\* Lists, caches and the application share no object.
Apart ==
    /\ \A p \in Pools : IsInjective(list[p])
    /\ \A t \in Threads : IsInjective(cache[t])
    /\ \A t \in Threads, p \in Pools : Range(cache[t]) \cap Range(list[p]) = {}
    /\ \A t, u \in Threads : t # u => Range(cache[t]) \cap Range(cache[u]) = {}
    /\ \A n \in Nodes, p \in Pools : used[n] # NoPool => n \notin Range(list[p])
    /\ \A n \in Nodes, t \in Threads : used[n] # NoPool => n \notin Range(cache[t])

Placed(n) ==
    \/ used[n] # NoPool
    \/ \E p \in Pools : n \in Range(list[p])
    \/ \E t \in Threads : n \in Range(cache[t])

\* What is listed, cached or used is of a block that is lent.
Lent(n) == \E b \in lent : n \in Range(b)

Backed == (\E p \in Pools : Live(p)) => \A n \in Nodes : Placed(n) => Lent(n)

\* A thread has a block between aligned_alloc and the push of its slots.
Fresh ==
    /\ \A t \in Threads : thr[t].pc \in {"read", "write", "link"} <=> thr[t].block # NoBlock
    /\ \A t \in Threads : thr[t].block # NoBlock => thr[t].block \in lent
    /\ \A t, u \in Threads : thr[t].block = thr[u].block /\ thr[t].block # NoBlock => t = u
    /\ \A t \in Threads : \A n \in Range(thr[t].block) : ~Placed(n)

\* The slots of a block that no thread is about to link are somewhere.
Settled(b) ==
    /\ b \in lent
    /\ (\A t \in Threads : thr[t].block # b) => \A n \in Range(b) : Placed(n) \/ n \in gone

Stored ==
    /\ \A p \in Pools : \A b \in storage[p] : Settled(b)
    /\ \A t \in Threads : \A b \in thr[t].seen : Settled(b)

IInv == Typed /\ Lives /\ Apart /\ Backed /\ Fresh /\ Stored

-----------------------------------------------------------------------------

\* Most steps are first-order; the ones with arithmetic or sequences say SMT.
USE Zenon

\* What the operations on a thread cache and on a free list do to the nodes in them, for
\* every cache size: which nodes are left, and that no node is repeated.

\* Range and IsInjective of a sequence, by positions.
LEMMA SeqFacts ==
    ASSUME NEW S, NEW s \in Seq(S)
    PROVE  /\ Len(s) \in Nat
           /\ DOMAIN s = 1..Len(s)
           /\ s # <<>> => Len(s) >= 1
           /\ s = <<>> => Len(s) = 0
           /\ \A i \in 1..Len(s) : s[i] \in S
           /\ \A x : x \in Range(s) <=> \E i \in 1..Len(s) : s[i] = x
           /\ IsInjective(s) <=> \A i, j \in 1..Len(s) : s[i] = s[j] => i = j
           /\ Range(s) \subseteq S
  <1>1. Len(s) \in Nat /\ DOMAIN s = 1..Len(s) /\ s \in [1..Len(s) -> S]
    BY SMT
  <1>2. s # <<>> => Len(s) \in Nat \ {0}
    BY SMT
  <1>3. Len(<<>>) = 0
    OBVIOUS
  <1>4. \A x : x \in Range(s) <=> \E i \in 1..Len(s) : s[i] = x
    BY <1>1 DEF Range
  <1>5. IsInjective(s) <=> \A i, j \in 1..Len(s) : s[i] = s[j] => i = j
    BY <1>1 DEF IsInjective
  <1> QED
    BY SMT, <1>1, <1>2, <1>3, <1>4, <1>5

\* A new list or cache holds nothing.
LEMMA EmptyFacts ==
    ASSUME NEW S
    PROVE  <<>> \in Seq(S) /\ Len(<<>>) = 0 /\ Range(<<>>) = {} /\ IsInjective(<<>>)
  <1>1. <<>> \in Seq(S) /\ Len(<<>>) = 0
    BY SMT
  <1>2. DOMAIN <<>> = {}
    BY SMT
  <1> QED
    BY <1>1, <1>2 DEF Range, IsInjective

\* A stretch of a sequence without repetitions, and the nodes in it.
LEMMA StretchFacts ==
    ASSUME NEW S, NEW s \in Seq(S), IsInjective(s),
           NEW m \in Nat \ {0}, NEW n \in Nat, m <= n + 1, n <= Len(s)
    PROVE  /\ SubSeq(s, m, n) \in Seq(S)
           /\ Len(SubSeq(s, m, n)) = n - m + 1
           /\ IsInjective(SubSeq(s, m, n))
           /\ \A x : x \in Range(SubSeq(s, m, n)) <=> \E j \in m..n : s[j] = x
  <1> DEFINE u == SubSeq(s, m, n)
  <1>1. /\ Len(s) \in Nat /\ DOMAIN s = 1..Len(s) /\ \A i \in 1..Len(s) : s[i] \in S
        /\ \A i, j \in 1..Len(s) : s[i] = s[j] => i = j
    BY SeqFacts
  <1>2. /\ u \in Seq(S)
        /\ Len(u) = IF m <= n THEN n - m + 1 ELSE 0
        /\ \A i \in 1..(n - m + 1) : u[i] = s[m + i - 1]
    BY SMT
  <1>3. Len(u) = n - m + 1 /\ n - m + 1 \in Nat
    BY SMT, <1>2
  <1>4. DOMAIN u = 1..(n - m + 1)
    BY SMT, <1>2, <1>3
  <1> HIDE DEF u
  <1>5. IsInjective(u)
    <2>1. \A i \in 1..(n - m + 1) : m + i - 1 \in 1..Len(s)
      BY SMT, <1>1
    <2>2. ASSUME NEW i \in 1..(n - m + 1), NEW j \in 1..(n - m + 1), u[i] = u[j] PROVE i = j
      <3>1. m + i - 1 = m + j - 1
        BY <1>1, <1>2, <2>1, <2>2
      <3> QED BY SMT, <3>1
    <2> QED BY <1>4, <2>2 DEF IsInjective
  <1>6. ASSUME NEW x PROVE x \in Range(u) <=> \E j \in m..n : s[j] = x
    <2>1. x \in Range(u) <=> \E i \in 1..(n - m + 1) : u[i] = x
      BY <1>4 DEF Range
    <2>2. ASSUME NEW j \in m..n, s[j] = x PROVE x \in Range(u)
      <3>1. j - m + 1 \in 1..(n - m + 1) /\ m + (j - m + 1) - 1 = j
        BY SMT
      <3>2. u[j - m + 1] = x
        BY <1>2, <2>2, <3>1
      <3> QED BY <2>1, <3>1, <3>2
    <2>3. ASSUME NEW i \in 1..(n - m + 1), u[i] = x PROVE \E j \in m..n : s[j] = x
      <3>1. m + i - 1 \in m..n
        BY SMT
      <3> QED BY <1>2, <2>3, <3>1
    <2> QED BY <2>1, <2>2, <2>3
  <1> QED
    BY <1>2, <1>3, <1>5, <1>6 DEF u

\* LockFreeStack::Pop takes the first node of a list and leaves the others.
LEMMA HeadFacts ==
    ASSUME NEW S, NEW s \in Seq(S), s # <<>>, IsInjective(s)
    PROVE  /\ Head(s) \in Range(s) /\ Head(s) \in S
           /\ Tail(s) \in Seq(S) /\ IsInjective(Tail(s))
           /\ Range(Tail(s)) = Range(s) \ {Head(s)}
  <1>1. /\ Len(s) \in Nat /\ Len(s) >= 1 /\ \A i \in 1..Len(s) : s[i] \in S
        /\ \A x : x \in Range(s) <=> \E i \in 1..Len(s) : s[i] = x
        /\ \A i, j \in 1..Len(s) : s[i] = s[j] => i = j
    BY SeqFacts
  <1>2. Head(s) = s[1] /\ Tail(s) = SubSeq(s, 2, Len(s))
    BY SMT
  <1>3. /\ Tail(s) \in Seq(S) /\ IsInjective(Tail(s))
        /\ \A x : x \in Range(Tail(s)) <=> \E i \in 2..Len(s) : s[i] = x
    <2>1. 2 \in Nat \ {0} /\ 2 <= Len(s) + 1 /\ Len(s) <= Len(s)
      BY SMT, <1>1
    <2>2. /\ SubSeq(s, 2, Len(s)) \in Seq(S) /\ IsInjective(SubSeq(s, 2, Len(s)))
          /\ \A x : x \in Range(SubSeq(s, 2, Len(s))) <=> \E i \in 2..Len(s) : s[i] = x
      BY SMT, <1>1, <2>1, StretchFacts
    <2> QED BY <1>2, <2>2
  <1>4. \A x : x \in Range(Tail(s)) <=> x \in Range(s) /\ x # s[1]
    BY SMT, <1>1, <1>3
  <1>5. Head(s) \in Range(s) /\ Head(s) \in S
    BY SMT, <1>1, <1>2
  <1> QED
    BY <1>2, <1>3, <1>4, <1>5

\* Pop takes the newest node of a cache and leaves the others.
LEMMA TopFacts ==
    ASSUME NEW S, NEW s \in Seq(S), s # <<>>, IsInjective(s)
    PROVE  /\ Top(s) \in Range(s) /\ Top(s) \in S
           /\ Rest(s) \in Seq(S) /\ IsInjective(Rest(s))
           /\ Len(Rest(s)) = Len(s) - 1
           /\ Range(Rest(s)) = Range(s) \ {Top(s)}
  <1>1. /\ Len(s) \in Nat /\ Len(s) >= 1 /\ \A i \in 1..Len(s) : s[i] \in S
        /\ \A x : x \in Range(s) <=> \E i \in 1..Len(s) : s[i] = x
        /\ \A i, j \in 1..Len(s) : s[i] = s[j] => i = j
    BY SeqFacts
  <1>2. /\ Rest(s) \in Seq(S) /\ IsInjective(Rest(s)) /\ Len(Rest(s)) = Len(s) - 1
        /\ \A x : x \in Range(Rest(s)) <=> \E i \in 1..(Len(s) - 1) : s[i] = x
    <2> DEFINE k == Len(s) - 1
    <2>1. k \in Nat /\ k <= Len(s)
      BY SMT, <1>1
    <2>2. Rest(s) = SubSeq(s, 1, k)
      BY DEF Rest
    <2> HIDE DEF k
    <2>3. /\ SubSeq(s, 1, k) \in Seq(S) /\ IsInjective(SubSeq(s, 1, k))
          /\ Len(SubSeq(s, 1, k)) = k - 1 + 1
          /\ \A x : x \in Range(SubSeq(s, 1, k)) <=> \E i \in 1..k : s[i] = x
      BY SMT, <2>1, StretchFacts
    <2> QED BY SMT, <2>1, <2>2, <2>3 DEF k
  <1>3. \A x : x \in Range(Rest(s)) <=> x \in Range(s) /\ x # s[Len(s)]
    BY SMT, <1>1, <1>2
  <1>4. Top(s) \in Range(s) /\ Top(s) \in S
    BY SMT, <1>1 DEF Top
  <1> QED
    BY <1>2, <1>3, <1>4 DEF Top

\* Push puts a node the cache does not hold on top of it.
LEMMA AppendFacts ==
    ASSUME NEW S, NEW s \in Seq(S), IsInjective(s), NEW e \in S, e \notin Range(s)
    PROVE  /\ Append(s, e) \in Seq(S) /\ IsInjective(Append(s, e))
           /\ Len(Append(s, e)) = Len(s) + 1
           /\ Range(Append(s, e)) = Range(s) \cup {e}
  <1>1. /\ Len(s) \in Nat
        /\ \A x : x \in Range(s) <=> \E i \in 1..Len(s) : s[i] = x
        /\ \A i, j \in 1..Len(s) : s[i] = s[j] => i = j
    BY SeqFacts
  <1>2. /\ Append(s, e) \in Seq(S) /\ Len(Append(s, e)) = Len(s) + 1
        /\ \A i \in 1..Len(s) : Append(s, e)[i] = s[i]
        /\ Append(s, e)[Len(s) + 1] = e
    BY SMT
  <1>3. DOMAIN Append(s, e) = 1..(Len(s) + 1)
    BY SMT, <1>2
  <1>4. \A i \in 1..(Len(s) + 1) : i \in 1..Len(s) \/ i = Len(s) + 1
    BY SMT, <1>1
  <1>5. IsInjective(Append(s, e))
    BY SMT, <1>1, <1>2, <1>3, <1>4 DEF IsInjective
  <1>6. ASSUME NEW x PROVE x \in Range(Append(s, e)) <=> x \in Range(s) \/ x = e
    <2>1. x \in Range(Append(s, e)) <=> \E i \in 1..(Len(s) + 1) : Append(s, e)[i] = x
      BY <1>3 DEF Range
    <2>2. Len(s) + 1 \in 1..(Len(s) + 1) /\ \A i \in 1..Len(s) : i \in 1..(Len(s) + 1)
      BY SMT, <1>1
    <2> QED BY SMT, <1>1, <1>2, <1>4, <2>1, <2>2
  <1> QED
    BY <1>2, <1>5, <1>6

\* PushChain puts a chain of nodes that are not in the list in front of it.
LEMMA ConcatFacts ==
    ASSUME NEW S, NEW s \in Seq(S), NEW r \in Seq(S), IsInjective(s), IsInjective(r),
           Range(s) \cap Range(r) = {}
    PROVE  /\ s \o r \in Seq(S) /\ IsInjective(s \o r)
           /\ Range(s \o r) = Range(s) \cup Range(r)
  <1>1. /\ Len(s) \in Nat /\ Len(r) \in Nat
        /\ \A i \in 1..Len(s) : s[i] \in Range(s)
        /\ \A i \in 1..Len(r) : r[i] \in Range(r)
        /\ \A i, j \in 1..Len(s) : s[i] = s[j] => i = j
        /\ \A i, j \in 1..Len(r) : r[i] = r[j] => i = j
    BY SeqFacts
  <1>2. /\ s \o r \in Seq(S) /\ Len(s \o r) = Len(s) + Len(r)
        /\ \A i \in 1..(Len(s) + Len(r)) :
              (s \o r)[i] = IF i <= Len(s) THEN s[i] ELSE r[i - Len(s)]
    BY SMT
  <1>3. DOMAIN (s \o r) = 1..(Len(s) + Len(r))
    BY SMT, <1>2
  <1>4. \A i \in 1..(Len(s) + Len(r)) :
           \/ i \in 1..Len(s) /\ (s \o r)[i] = s[i]
           \/ i - Len(s) \in 1..Len(r) /\ i > Len(s) /\ (s \o r)[i] = r[i - Len(s)]
    BY SMT, <1>1, <1>2
  <1>5. ASSUME NEW i \in 1..(Len(s) + Len(r)), NEW j \in 1..(Len(s) + Len(r)),
               (s \o r)[i] = (s \o r)[j]
        PROVE  i = j
    <2>1. CASE i \in 1..Len(s) /\ (s \o r)[i] = s[i]
      <3>1. j \in 1..Len(s) /\ (s \o r)[j] = s[j]
        BY <1>1, <1>4, <1>5, <2>1
      <3> QED BY <1>1, <1>5, <2>1, <3>1
    <2>2. CASE i - Len(s) \in 1..Len(r) /\ i > Len(s) /\ (s \o r)[i] = r[i - Len(s)]
      <3>1. j - Len(s) \in 1..Len(r) /\ j > Len(s) /\ (s \o r)[j] = r[j - Len(s)]
        BY <1>1, <1>4, <1>5, <2>2
      <3>2. i - Len(s) = j - Len(s)
        BY <1>1, <1>5, <2>2, <3>1
      <3> QED BY SMT, <1>1, <3>2
    <2> QED BY <1>4, <2>1, <2>2
  <1>6. IsInjective(s \o r)
    BY <1>3, <1>5 DEF IsInjective
  <1>7. ASSUME NEW x PROVE x \in Range(s \o r) <=> x \in Range(s) \/ x \in Range(r)
    <2>1. x \in Range(s \o r) <=> \E i \in 1..(Len(s) + Len(r)) : (s \o r)[i] = x
      BY <1>3 DEF Range
    <2>4. /\ x \in Range(s) <=> \E i \in 1..Len(s) : s[i] = x
          /\ x \in Range(r) <=> \E i \in 1..Len(r) : r[i] = x
      BY SeqFacts
    <2>2. ASSUME NEW i \in 1..Len(s) PROVE (s \o r)[i] = s[i] /\ i \in 1..(Len(s) + Len(r))
      BY SMT, <1>1, <1>2
    <2>3. ASSUME NEW i \in 1..Len(r)
          PROVE  (s \o r)[Len(s) + i] = r[i] /\ Len(s) + i \in 1..(Len(s) + Len(r))
      <3>1. Len(s) + i \in 1..(Len(s) + Len(r)) /\ ~(Len(s) + i <= Len(s)) /\ Len(s) + i - Len(s) = i
        BY SMT, <1>1
      <3> QED BY SMT, <1>2, <3>1
    <2> QED BY ZenonT(30), <1>4, <2>1, <2>2, <2>3, <2>4
  <1> QED
    BY <1>2, <1>6, <1>7

\* FlushHalf splits a full cache into the nodes it keeps and the chain it pushes on the
\* free list; there is room for one more node afterwards.
LEMMA FlushFacts ==
    ASSUME NEW S, NEW s \in Seq(S), IsInjective(s), Full(s)
    PROVE  /\ Kept(s) \in Seq(S) /\ IsInjective(Kept(s)) /\ Len(Kept(s)) < Len(s)
           /\ Flushed(s) \in Seq(S) /\ IsInjective(Flushed(s))
           /\ Range(Kept(s)) \cap Range(Flushed(s)) = {}
           /\ Range(Kept(s)) \cup Range(Flushed(s)) = Range(s)
  <1> DEFINE k == Len(s) - FlushCount(s)
  <1>1. /\ Len(s) \in Nat
        /\ \A x : x \in Range(s) <=> \E i \in 1..Len(s) : s[i] = x
        /\ \A i, j \in 1..Len(s) : s[i] = s[j] => i = j
    BY SeqFacts
  <1>2. k \in Nat /\ k < Len(s) /\ k + 1 \in Nat \ {0}
    <2>1. CacheSize \in Nat /\ CacheSize >= 2 /\ Len(s) >= CacheSize
      BY CacheAssumption DEF Full
    <2>2. ~(Len(s) <= CacheSize \div 4)
      BY SMT, <1>1, <2>1
    <2>3. FlushCount(s) = Len(s) \div 2
      BY <2>2 DEF FlushCount
    <2> QED BY SMT, <1>1, <2>1, <2>3
  <1> HIDE DEF k
  <1>3. /\ Kept(s) \in Seq(S) /\ IsInjective(Kept(s)) /\ Len(Kept(s)) = k
        /\ \A x : x \in Range(Kept(s)) <=> \E i \in 1..k : s[i] = x
    <2>1. /\ SubSeq(s, 1, k) \in Seq(S) /\ IsInjective(SubSeq(s, 1, k))
          /\ Len(SubSeq(s, 1, k)) = k - 1 + 1
          /\ \A x : x \in Range(SubSeq(s, 1, k)) <=> \E i \in 1..k : s[i] = x
      BY SMT, <1>1, <1>2, StretchFacts
    <2>2. Kept(s) = SubSeq(s, 1, k)
      BY DEF Kept, k
    <2> QED BY SMT, <1>2, <2>1, <2>2
  <1>4. /\ Flushed(s) \in Seq(S) /\ IsInjective(Flushed(s))
        /\ \A x : x \in Range(Flushed(s)) <=> \E i \in (k + 1)..Len(s) : s[i] = x
    <2>1. /\ SubSeq(s, k + 1, Len(s)) \in Seq(S) /\ IsInjective(SubSeq(s, k + 1, Len(s)))
          /\ \A x : x \in Range(SubSeq(s, k + 1, Len(s))) <=> \E i \in (k + 1)..Len(s) : s[i] = x
      BY SMT, <1>1, <1>2, StretchFacts
    <2>2. Flushed(s) = SubSeq(s, k + 1, Len(s))
      BY DEF Flushed, k
    <2> QED BY <2>1, <2>2
  <1>5. Range(Kept(s)) \cap Range(Flushed(s)) = {}
    BY SMT, <1>1, <1>2, <1>3, <1>4
  <1>6. \A x : x \in Range(Kept(s)) \cup Range(Flushed(s)) <=> x \in Range(s)
    BY SMT, <1>1, <1>2, <1>3, <1>4
  <1> QED
    BY <1>2, <1>3, <1>4, <1>5, <1>6

-----------------------------------------------------------------------------

\* Blocks are sequences of slots and share none.
LEMMA BlockFacts ==
    /\ \A b \in Blocks : b \in Seq(Nodes) /\ b # NoBlock /\ IsInjective(b) /\ Range(b) \subseteq Nodes
    /\ \A b, d \in Blocks : \A n : n \in Range(b) /\ n \in Range(d) => b = d
    /\ Range(NoBlock) = {}
  BY PoolAssumption, EmptyFacts DEF Nodes, NoBlock

\* The number of elements of a set of one, from the definition of Cardinality.
LEMMA OneElement == ASSUME NEW q PROVE Cardinality({q}) = 1
  <1> DEFINE F(f) == [T \in SUBSET {q} |-> IF T = {} THEN 0 ELSE 1 + f[T \ {CHOOSE x : x \in T}]]
             g == [T \in SUBSET {q} |-> IF T = {} THEN 0 ELSE 1]
             CS == CHOOSE f : f = F(f)
  <1>1. Cardinality({q}) = CS[{q}]
    BY DEF Cardinality
  <1>2. g = F(g)
    <2>1. ASSUME NEW T \in SUBSET {q} PROVE g[T] = F(g)[T]
      <3>1. T = {} \/ T = {q}
        OBVIOUS
      <3>2. CASE T = {q}
        <4>1. (CHOOSE x : x \in T) = q
          BY <3>2
        <4>2. T \ {CHOOSE x : x \in T} = {}
          BY <3>2, <4>1
        <4> QED BY SMT, <3>2, <4>2
      <3> QED BY <3>1, <3>2
    <2> QED BY <2>1
  <1>3. CS = F(CS)
    BY <1>2
  <1> HIDE DEF CS
  <1>4. CS[{}] = 0
    BY <1>3
  <1>5. (CHOOSE x : x \in {q}) = q
    OBVIOUS
  <1>6. {q} \ {CHOOSE x : x \in {q}} = {}
    BY <1>5
  <1>7. CS[{q}] = 1 + CS[{}]
    BY <1>3, <1>6
  <1> QED BY SMT, <1>1, <1>4, <1>7

\* A thread between calls.
LEMMA IdleFacts ==
    /\ Idle.pc = "idle" /\ Idle.pool = NoPool /\ Idle.block = NoBlock /\ Idle.seen = {}
    /\ Idle \in Records
  BY DEF Idle, Labels, Records

\* Nothing exists at first.
LEMMA InitIInv == Init => IInv
  <1> SUFFICES ASSUME Init PROVE IInv
    OBVIOUS
  <1>1. <<>> \in Seq(Nodes) /\ Len(<<>>) = 0 /\ Range(<<>>) = {} /\ IsInjective(<<>>)
    BY EmptyFacts
  <1>2. /\ \A p \in Pools : phase[p] = "unborn" /\ list[p] = <<>> /\ storage[p] = {} /\ ~Live(p)
        /\ \A t \in Threads : cache[t] = <<>> /\ thr[t] = Idle
        /\ \A n \in Nodes : used[n] = NoPool
        /\ lent = {} /\ Exits \subseteq Threads
    BY PoolAssumption DEF Init, Live
  <1>3. Typed
    BY SMT, <1>1, <1>2, IdleFacts, CacheAssumption DEF Init, Typed
  <1>4. Lives
    BY <1>2 DEF Lives
  <1>5. Apart
    BY <1>1, <1>2 DEF Apart
  <1>6. Backed /\ Fresh /\ Stored
    BY <1>2, IdleFacts, BlockFacts DEF Backed, Fresh, Stored
  <1> QED BY <1>3, <1>4, <1>5, <1>6 DEF IInv

\* A step in which thread t moves on to r and no object comes into or goes out of a
\* place keeps what the invariant says about blocks.
LEMMA StepIInv ==
    ASSUME IInv, NEW t \in Threads, NEW r, lent' = lent, gone' = gone,
           Typed', Lives', Apart', (\E p \in Pools : Live(p)') => \E p \in Pools : Live(p),
           \A u \in Threads : thr'[u] = IF u = t THEN r ELSE thr[u],
           r.block = thr[t].block, r.pc \in {"read", "write", "link"} <=> r.block # NoBlock,
           \A n \in Nodes : Placed(n)' <=> Placed(n),
           \A p \in Pools : \A b \in storage'[p] : Settled(b),
           \A b \in r.seen : Settled(b)
    PROVE  IInv'
  <1>1. \A u \in Threads : thr'[u].block = thr[u].block /\ thr[u].block \in Blocks \cup {NoBlock}
    BY DEF IInv, Typed, Records
  <1>2. \A u \in Threads : Range(thr[u].block) \subseteq Nodes
    BY <1>1, BlockFacts
  <1>3. Backed'
    BY DEF IInv, Backed, Lent
  <1>4. Fresh'
    <2>1. \A u \in Threads : thr'[u].pc \in {"read", "write", "link"} <=> thr'[u].block # NoBlock
      BY DEF IInv, Fresh
    <2>2. /\ \A u \in Threads : thr'[u].block # NoBlock => thr'[u].block \in lent'
          /\ \A u, v \in Threads : thr'[u].block = thr'[v].block /\ thr'[u].block # NoBlock => u = v
      BY SMT, <1>1 DEF IInv, Fresh
    <2>3. \A u \in Threads : \A n \in Range(thr'[u].block) : ~Placed(n)'
      BY <1>1, <1>2 DEF IInv, Fresh
    <2> QED BY <2>1, <2>2, <2>3 DEF Fresh
  <1>5. ASSUME NEW b, Settled(b) PROVE Settled(b)'
    <2>1. b \in Blocks /\ Range(b) \subseteq Nodes
      BY <1>5, BlockFacts DEF Settled, IInv, Typed
    <2> QED BY <1>1, <1>5, <2>1 DEF Settled
  <1>6. Stored'
    <2>1. \A u \in Threads : \A b \in thr'[u].seen : Settled(b)
      BY DEF IInv, Stored
    <2> QED BY <1>5, <2>1 DEF Stored
  <1> QED BY <1>3, <1>4, <1>6 DEF IInv

\* The thread's record after the step; the instance it names lives.
Proper(r) ==
    /\ r \in Records
    /\ r = Idle \/ (r.pool \in Pools /\ Live(r.pool))
    /\ r.pc \in {"read", "write", "link"} <=> r.block # NoBlock

\* A step in which thread t moves on and the lists, caches and the application keep
\* their objects.
LEMMA RelabelIInv ==
    ASSUME IInv, NEW t \in Threads, NEW r, Proper(r), UNCHANGED <<list, cache, used, lent, gone>>,
           phase' \in [Pools -> {"unborn", "building", "alive", "dead"}],
           \A p \in Pools : Live(p)' <=> Live(p),
           thr' = [thr EXCEPT ![t] = r], r.block = thr[t].block,
           storage' \in [Pools -> SUBSET Blocks],
           \A p \in Pools : ~Live(p) => storage'[p] = {},
           \A p \in Pools : \A b \in storage'[p] : Settled(b),
           \A b \in r.seen : Settled(b)
    PROVE  IInv'
  <1>1. \A u \in Threads : thr'[u] = IF u = t THEN r ELSE thr[u]
    BY DEF IInv, Typed
  <1>2. Typed'
    BY DEF IInv, Typed, Proper
  <1>3. Lives'
    <2>1. \A p \in Pools : phase'[p] \in {"building", "alive"} <=> phase[p] \in {"building", "alive"}
      BY DEF Live
    <2>2. \A u \in Threads : thr'[u] = Idle \/ (thr'[u].pool \in Pools /\ phase'[thr'[u].pool] \in {"building", "alive"})
      BY SMT, <1>1, <2>1 DEF IInv, Lives, Proper, Live
    <2>3. \A n \in Nodes : used'[n] # NoPool => phase'[used'[n]] \in {"building", "alive"}
      BY SMT, <2>1 DEF IInv, Lives, Typed, Live
    <2>4. /\ \A p \in Pools : phase'[p] \notin {"building", "alive"} => list'[p] = <<>> /\ storage'[p] = {}
          /\ (\A p \in Pools : phase'[p] \notin {"building", "alive"}) => \A u \in Exits : cache'[u] = <<>>
      BY <2>1 DEF IInv, Lives, Live
    <2>5. \A p, q \in Pools : phase'[p] \in {"building", "alive"} /\ phase'[q] \in {"building", "alive"} => p = q
      BY <2>1 DEF IInv, Lives, Live
    <2> QED BY <2>2, <2>3, <2>4, <2>5 DEF Lives, Live
  <1>4. Apart'
    BY DEF IInv, Apart
  <1>5. \A n \in Nodes : Placed(n)' <=> Placed(n)
    BY DEF Placed
  <1>6. /\ (\E p \in Pools : Live(p)') => \E p \in Pools : Live(p)
        /\ lent' = lent /\ gone' = gone
        /\ r.pc \in {"read", "write", "link"} <=> r.block # NoBlock
    BY DEF Proper
  <1> QED BY <1>1, <1>2, <1>3, <1>4, <1>5, <1>6, StepIInv

\* GrowPool returns and thread t holds no block.
LEMMA GrownFacts ==
    ASSUME IInv, NEW t \in Threads, thr[t].pc # "idle", Grown(t)
    PROVE  /\ phase' \in [Pools -> {"unborn", "building", "alive", "dead"}]
           /\ \A p \in Pools : Live(p)' <=> Live(p)
           /\ \E r : /\ thr' = [thr EXCEPT ![t] = r] /\ Proper(r) /\ r.block = NoBlock /\ r.seen = {}
  <1> DEFINE p == thr[t].pool
             r == [Idle EXCEPT !.pc = "repop", !.pool = p]
  <1>1. p \in Pools /\ Live(p)
    BY IdleFacts DEF IInv, Lives
  <1>2. CASE phase[p] = "building"
    <2>1. phase' = [phase EXCEPT ![p] = "alive"] /\ thr' = [thr EXCEPT ![t] = Idle]
      BY <1>2 DEF Grown
    <2>2. \A q \in Pools : phase'[q] = IF q = p THEN "alive" ELSE phase[q]
      BY <2>1 DEF IInv, Typed
    <2>3. \A q \in Pools : Live(q)' <=> Live(q)
      BY <1>1, <2>2 DEF Live
    <2>4. phase' \in [Pools -> {"unborn", "building", "alive", "dead"}]
      BY <1>1, <2>1 DEF IInv, Typed
    <2>5. Proper(Idle)
      BY IdleFacts DEF Proper
    <2> QED BY <2>1, <2>3, <2>4, <2>5, IdleFacts
  <1>3. CASE phase[p] # "building"
    <2>1. phase' = phase /\ thr' = [thr EXCEPT ![t] = r]
      BY <1>3 DEF Grown
    <2>2. Proper(r) /\ r.block = NoBlock /\ r.seen = {}
      BY <1>1 DEF Proper, Idle, Labels, Records
    <2>3. \A q \in Pools : Live(q)' <=> Live(q)
      BY <2>1 DEF Live
    <2> HIDE DEF r
    <2> QED BY <2>1, <2>2, <2>3 DEF IInv, Typed
  <1> QED BY <1>2, <1>3

\* storage_blocks_ as it is.
LEMMA StorageFacts ==
    ASSUME IInv
    PROVE  /\ storage \in [Pools -> SUBSET Blocks]
           /\ \A p \in Pools : ~Live(p) => storage[p] = {}
           /\ \A p \in Pools : \A b \in storage[p] : Settled(b)
  BY DEF IInv, Typed, Lives, Stored

\* push_back reads where the vector ends.
LEMMA GrowReadIInv ==
    ASSUME IInv, NEW t \in Threads, GrowRead(t)
    PROVE  IInv'
  <1> DEFINE p == thr[t].pool
             r == [thr[t] EXCEPT !.pc = "write", !.seen = storage[p]]
  <1>1. p \in Pools /\ Live(p)
    BY IdleFacts DEF GrowRead, IInv, Lives
  <1>2. UNCHANGED <<phase, list, storage, cache, used, lent, gone>> /\ thr' = [thr EXCEPT ![t] = r]
    BY DEF GrowRead, IInv, Typed
  <1>3. /\ Proper(r) /\ r.block = thr[t].block /\ r.seen = storage[p]
    <2>1. /\ thr[t] \in Records
          /\ thr[t].block # NoBlock /\ storage[p] \in SUBSET Blocks /\ "write" \in Labels
      BY <1>1, StorageFacts DEF IInv, Typed, Fresh, GrowRead, Labels
    <2> QED BY <1>1, <2>1 DEF Proper, Records
  <1> HIDE DEF r
  <1>4. \A b \in r.seen : Settled(b)
    BY <1>1, <1>3, StorageFacts
  <1>5. /\ phase' \in [Pools -> {"unborn", "building", "alive", "dead"}]
        /\ \A q \in Pools : Live(q)' <=> Live(q)
    BY <1>2 DEF IInv, Typed, Live
  <1> QED BY <1>2, <1>3, <1>4, <1>5, StorageFacts, RelabelIInv

\* push_back writes what it read and the new block; a block that another thread wrote in
\* between is forgotten, not lost to its users.
LEMMA GrowWriteIInv ==
    ASSUME IInv, NEW t \in Threads, GrowWrite(t)
    PROVE  IInv'
  <1> DEFINE p == thr[t].pool
             r == [thr[t] EXCEPT !.pc = "link"]
             new == thr[t].seen \cup {thr[t].block}
  <1>1. p \in Pools /\ Live(p) /\ thr[t].pc = "write"
    BY IdleFacts DEF GrowWrite, IInv, Lives
  <1>2. /\ UNCHANGED <<phase, list, cache, used, lent, gone>> /\ thr' = [thr EXCEPT ![t] = r]
        /\ storage' = [storage EXCEPT ![p] = new]
    BY DEF GrowWrite, Go, IInv, Typed
  <1>3. /\ Proper(r) /\ r.block = thr[t].block /\ r.seen = thr[t].seen
    <2>1. /\ thr[t] \in Records
          /\ thr[t].block # NoBlock /\ "link" \in Labels
      BY <1>1 DEF IInv, Typed, Fresh, Labels
    <2> QED BY <1>1, <2>1 DEF Proper, Records
  <1> HIDE DEF r
  <1>4. \A b \in r.seen : Settled(b)
    BY <1>3 DEF IInv, Stored
  <1>5. /\ phase' \in [Pools -> {"unborn", "building", "alive", "dead"}]
        /\ \A q \in Pools : Live(q)' <=> Live(q)
    BY <1>2 DEF IInv, Typed, Live
  <1>6. thr[t].block \in Blocks /\ Settled(thr[t].block)
    BY <1>1 DEF IInv, Fresh, Typed, Settled
  <1>7. new \subseteq Blocks /\ \A b \in new : Settled(b)
    BY <1>3, <1>4, <1>6 DEF IInv, Typed, Records
  <1> HIDE DEF new
  <1>8. \A q \in Pools : storage'[q] = IF q = p THEN new ELSE storage[q]
    BY <1>2, StorageFacts
  <1>9. /\ storage' \in [Pools -> SUBSET Blocks]
        /\ \A q \in Pools : ~Live(q) => storage'[q] = {}
        /\ \A q \in Pools : \A b \in storage'[q] : Settled(b)
    <2>1. storage' \in [Pools -> SUBSET Blocks]
      BY <1>2, <1>7, StorageFacts
    <2> QED BY <1>1, <1>7, <1>8, <2>1, StorageFacts
  <1> QED BY <1>2, <1>3, <1>4, <1>5, <1>9, RelabelIInv

\* The slots of a block that is not lent are nowhere, while an instance lives.
LEMMA UnlentFacts ==
    ASSUME IInv, NEW p \in Pools, Live(p), NEW b \in Blocks \ lent
    PROVE  \A n \in Range(b) : n \in Nodes /\ ~Placed(n)
  <1> SUFFICES ASSUME NEW n \in Range(b) PROVE n \in Nodes /\ ~Placed(n)
    OBVIOUS
  <1>1. n \in Nodes
    BY BlockFacts
  <1>2. ~Lent(n)
    BY BlockFacts DEF Lent, IInv, Typed
  <1> QED BY <1>1, <1>2 DEF IInv, Backed

\* aligned_alloc gives thread t a block.
LEMMA GrowAllocBlockIInv ==
    ASSUME IInv, NEW t \in Threads, thr[t].pc = "alloc", NEW b \in Blocks \ lent, lent' = lent \cup {b},
           NEW r \in Records, r.pc = "read", r.pool = thr[t].pool, r.block = b, r.seen = thr[t].seen,
           thr' = [thr EXCEPT ![t] = r], UNCHANGED <<phase, list, storage, cache, used, gone>>
    PROVE  IInv'
  <1> DEFINE p == thr[t].pool
  <1>1. p \in Pools /\ Live(p) /\ thr[t].block = NoBlock
    BY IdleFacts DEF IInv, Lives, Fresh
  <1>5. \A u \in Threads : thr'[u] = IF u = t THEN r ELSE thr[u]
    BY DEF IInv, Typed
  <1>6. Typed'
    <2>1. lent' \in SUBSET Blocks
      BY DEF IInv, Typed
    <2> QED BY <2>1 DEF IInv, Typed
  <1>7. Lives'
    <2>1. \A u \in Threads : thr'[u] = Idle \/ (thr'[u].pool \in Pools /\ Live(thr'[u].pool))
      BY SMT, <1>1, <1>5 DEF IInv, Lives
    <2> QED BY <2>1 DEF IInv, Lives, Live
  <1>8. Apart'
    BY DEF IInv, Apart
  <1>9. \A n : Placed(n)' <=> Placed(n)
    BY DEF Placed
  <1>10. Backed'
    BY <1>9 DEF IInv, Backed, Lent, Live
  <1>11. Fresh'
    <2>1. \A u \in Threads : thr'[u].pc \in {"read", "write", "link"} <=> thr'[u].block # NoBlock
      BY SMT, <1>5, BlockFacts DEF IInv, Fresh
    <2>2. \A u \in Threads : thr'[u].block # NoBlock => thr'[u].block \in lent'
      BY SMT, <1>5 DEF IInv, Fresh
    <2>3. \A u \in Threads \ {t} : thr[u].block # b
      BY BlockFacts DEF IInv, Fresh
    <2>4. \A u, v \in Threads : thr'[u].block = thr'[v].block /\ thr'[u].block # NoBlock => u = v
      BY SMT, <1>5, <2>3 DEF IInv, Fresh
    <2>5. \A n \in Range(b) : ~Placed(n)
      BY <1>1, UnlentFacts
    <2>6. \A u \in Threads : \A n \in Range(thr'[u].block) : ~Placed(n)'
      BY SMT, <1>5, <1>9, <2>5 DEF IInv, Fresh
    <2> QED BY <2>1, <2>2, <2>4, <2>6 DEF Fresh
  <1>12. ASSUME NEW d, Settled(d) PROVE Settled(d)'
    <2>1. d \in lent /\ d # NoBlock /\ d # b
      BY <1>12, BlockFacts DEF Settled, IInv, Typed
    <2>2. ASSUME \A u \in Threads : thr'[u].block # d PROVE \A u \in Threads : thr[u].block # d
      BY <1>1, <1>5, <2>1, <2>2
    <2> QED BY <1>9, <1>12, <2>1, <2>2 DEF Settled
  <1>13. Stored'
    <2>1. \A u \in Threads : thr'[u].seen = thr[u].seen
      BY <1>5
    <2> QED BY <1>12, <2>1 DEF IInv, Stored
  <1> QED BY <1>6, <1>7, <1>8, <1>10, <1>11, <1>13 DEF IInv

\* GrowPool up to push_back, or without memory.
LEMMA GrowAllocIInv ==
    ASSUME IInv, NEW t \in Threads, GrowAlloc(t)
    PROVE  IInv'
  <1>1. thr[t].pc = "alloc" /\ UNCHANGED <<list, storage, cache, used, gone>>
    BY DEF GrowAlloc
  <1>2. CASE Grown(t) /\ UNCHANGED lent
    <2>1. /\ phase' \in [Pools -> {"unborn", "building", "alive", "dead"}]
          /\ \A p \in Pools : Live(p)' <=> Live(p)
          /\ \E r : thr' = [thr EXCEPT ![t] = r] /\ Proper(r) /\ r.block = NoBlock /\ r.seen = {}
      BY <1>1, <1>2, GrownFacts
    <2>2. PICK r : thr' = [thr EXCEPT ![t] = r] /\ Proper(r) /\ r.block = NoBlock /\ r.seen = {}
      BY <2>1
    <2>3. thr[t].block = NoBlock
      BY <1>1 DEF IInv, Fresh
    <2>4. UNCHANGED <<list, cache, used, lent, gone>> /\ storage' = storage
      BY <1>1, <1>2
    <2> QED BY <2>1, <2>2, <2>3, <2>4, StorageFacts, RelabelIInv
  <1>3. ASSUME NEW b \in Blocks \ lent, lent' = lent \cup {b}, UNCHANGED phase,
               thr' = [thr EXCEPT ![t].pc = "read", ![t].block = b]
        PROVE  IInv'
    <2> DEFINE r == [thr[t] EXCEPT !.pc = "read", !.block = b]
    <2>1. thr[t] \in Records
      BY DEF IInv, Typed
    <2>2. r \in Records /\ r.pc = "read" /\ r.pool = thr[t].pool /\ r.block = b /\ r.seen = thr[t].seen
      BY <2>1 DEF Records, Labels
    <2>3. thr' = [thr EXCEPT ![t] = r]
      BY <1>3 DEF IInv, Typed
    <2>4. lent' = lent \cup {b} /\ UNCHANGED <<phase, list, storage, cache, used, gone>>
      BY <1>1, <1>3
    <2> HIDE DEF r
    <2> QED BY <1>1, <2>2, <2>3, <2>4, GrowAllocBlockIInv
  <1> QED BY <1>2, <1>3 DEF GrowAlloc

-----------------------------------------------------------------------------
(* Steps that move objects *)

\* Thread t moves objects between the list of p, its cache and the application, and the
\* objects of F, which were nowhere, come in.
Arranged(t, p, r, l, q, F) ==
    /\ Live(p) /\ Proper(r)
    /\ l \in Seq(Nodes) /\ IsInjective(l) /\ q \in Seq(Nodes) /\ IsInjective(q) /\ Len(q) <= CacheSize
    /\ list' = [list EXCEPT ![p] = l] /\ cache' = [cache EXCEPT ![t] = q]
    /\ used' \in [Nodes -> Pools \cup {NoPool}] /\ \A n \in Nodes : used'[n] \in {used[n], p, NoPool}
    /\ thr' = [thr EXCEPT ![t] = r] /\ storage' = storage
    /\ phase' \in [Pools -> {"unborn", "building", "alive", "dead"}]
    /\ \A x \in Pools : Live(x)' <=> Live(x)
    /\ F \subseteq Nodes /\ \A n \in F : ~Placed(n)
    /\ Range(l) \cap Range(q) = {}
    /\ \A n \in Nodes : used'[n] # NoPool => n \notin Range(l) /\ n \notin Range(q)
    /\ \A n \in Nodes :
          (used'[n] # NoPool \/ n \in Range(l) \/ n \in Range(q))
              <=> (used[n] # NoPool \/ n \in Range(list[p]) \/ n \in Range(cache[t]) \/ n \in F)

\* Such a step keeps the objects apart, and only those of F are new.
LEMMA ArrangedFacts ==
    ASSUME IInv, NEW t \in Threads, NEW p \in Pools, NEW r, NEW l, NEW q, NEW F, Arranged(t, p, r, l, q, F),
           lent' \in SUBSET Blocks
    PROVE  /\ Typed' /\ Lives' /\ Apart'
           /\ \A n \in Nodes : Placed(n)' <=> Placed(n) \/ n \in F
           /\ \A u \in Threads : thr'[u] = IF u = t THEN r ELSE thr[u]
  <1>1. /\ \A x \in Pools : list'[x] = IF x = p THEN l ELSE list[x]
        /\ \A u \in Threads : cache'[u] = IF u = t THEN q ELSE cache[u]
    BY DEF IInv, Typed, Arranged
  <1>2. \A u \in Threads : thr'[u] = IF u = t THEN r ELSE thr[u]
    BY DEF IInv, Typed, Arranged
  <1>3. Typed'
    <2>1. list' \in [Pools -> Seq(Nodes)] /\ cache' \in [Threads -> Seq(Nodes)] /\ thr' \in [Threads -> Records]
      BY DEF IInv, Typed, Arranged, Proper
    <2>2. \A u \in Threads : Len(cache'[u]) <= CacheSize
      BY <1>1 DEF IInv, Typed, Arranged
    <2> QED BY <2>1, <2>2 DEF IInv, Typed, Arranged
  <1>4. /\ Range(l) \subseteq Nodes /\ Range(q) \subseteq Nodes
        /\ \A x \in Pools : Range(list[x]) \subseteq Nodes
        /\ \A u \in Threads : Range(cache[u]) \subseteq Nodes
    <2>1. \A z \in Seq(Nodes) : Range(z) \subseteq Nodes
      BY SeqFacts
    <2> QED BY <2>1 DEF IInv, Typed, Arranged
  <1>5. \A n \in Nodes : (used'[n] # NoPool \/ n \in Range(l) \/ n \in Range(q)) =>
               /\ \A x \in Pools \ {p} : n \notin Range(list[x])
               /\ \A u \in Threads \ {t} : n \notin Range(cache[u])
    <2>1. ASSUME NEW n \in Nodes, n \in F
          PROVE  /\ \A x \in Pools \ {p} : n \notin Range(list[x])
                 /\ \A u \in Threads \ {t} : n \notin Range(cache[u])
      BY <2>1 DEF Arranged, Placed
    <2>2. \A x \in Pools \ {p} : list[x] = <<>> /\ Range(<<>>) = {}
      BY EmptyFacts DEF IInv, Lives, Arranged
    <2>3. ASSUME NEW n \in Nodes, used[n] # NoPool \/ n \in Range(list[p]) \/ n \in Range(cache[t])
          PROVE  /\ \A x \in Pools \ {p} : n \notin Range(list[x])
                 /\ \A u \in Threads \ {t} : n \notin Range(cache[u])
      BY <2>2, <2>3 DEF IInv, Apart
    <2> QED BY <2>1, <2>3 DEF Arranged
  <1>6. Apart'
    <2>1. \A x \in Pools : IsInjective(list'[x])
      BY <1>1 DEF IInv, Apart, Arranged
    <2>2. \A u \in Threads : IsInjective(cache'[u])
      BY <1>1 DEF IInv, Apart, Arranged
    <2>3. ASSUME NEW u \in Threads, NEW x \in Pools PROVE Range(cache'[u]) \cap Range(list'[x]) = {}
      <3>1. Range(cache[u]) \cap Range(list[x]) = {} /\ Range(l) \cap Range(q) = {}
        BY DEF IInv, Apart, Arranged
      <3> QED BY <1>1, <1>4, <1>5, <3>1
    <2>4. ASSUME NEW u \in Threads, NEW v \in Threads, u # v PROVE Range(cache'[u]) \cap Range(cache'[v]) = {}
      <3>1. Range(cache[u]) \cap Range(cache[v]) = {}
        BY <2>4 DEF IInv, Apart
      <3> QED BY <1>1, <1>4, <1>5, <2>4, <3>1
    <2>5. ASSUME NEW n \in Nodes, used'[n] # NoPool
          PROVE  /\ \A x \in Pools : n \notin Range(list'[x])
                 /\ \A u \in Threads : n \notin Range(cache'[u])
      <3>1. n \notin Range(l) /\ n \notin Range(q)
        BY <2>5 DEF Arranged
      <3> QED BY <1>1, <1>5, <2>5, <3>1
    <2> QED BY <2>1, <2>2, <2>3, <2>4, <2>5 DEF Apart
  <1>7. ASSUME NEW n \in Nodes PROVE Placed(n)' <=> Placed(n) \/ n \in F
    <2>1. Placed(n)' <=> \/ used'[n] # NoPool \/ n \in Range(l) \/ n \in Range(q)
                         \/ \E x \in Pools \ {p} : n \in Range(list[x])
                         \/ \E u \in Threads \ {t} : n \in Range(cache[u])
      BY <1>1 DEF Placed
    <2>2. Placed(n) <=> \/ used[n] # NoPool \/ n \in Range(list[p]) \/ n \in Range(cache[t])
                        \/ \E x \in Pools \ {p} : n \in Range(list[x])
                        \/ \E u \in Threads \ {t} : n \in Range(cache[u])
      BY DEF Placed
    <2> QED BY <2>1, <2>2 DEF Arranged
  <1>8. Lives'
    <2>1. \A x \in Pools : phase'[x] \in {"building", "alive"} <=> phase[x] \in {"building", "alive"}
      BY DEF Live, Arranged
    <2>2. \A u \in Threads : thr'[u] = Idle \/ (thr'[u].pool \in Pools /\ phase'[thr'[u].pool] \in {"building", "alive"})
      BY SMT, <1>2, <2>1 DEF IInv, Lives, Proper, Live, Arranged
    <2>3. \A n \in Nodes : used'[n] # NoPool => phase'[used'[n]] \in {"building", "alive"}
      <3>1. ASSUME NEW n \in Nodes, used'[n] # NoPool
            PROVE  used'[n] \in Pools /\ phase[used'[n]] \in {"building", "alive"}
        <4>1. used'[n] \in Pools /\ (used'[n] = p \/ (used'[n] = used[n] /\ used[n] # NoPool))
          BY <3>1 DEF Arranged
        <4>2. /\ phase[p] \in {"building", "alive"}
              /\ used[n] # NoPool => phase[used[n]] \in {"building", "alive"}
          BY DEF IInv, Lives, Live, Arranged
        <4> QED BY <4>1, <4>2
      <3> QED BY <2>1, <3>1
    <2>4. \A x \in Pools : phase'[x] \notin {"building", "alive"} => list'[x] = <<>> /\ storage'[x] = {}
      <3>1. phase[p] \in {"building", "alive"} /\ storage' = storage
        BY DEF Arranged, Live
      <3> QED BY SMT, <1>1, <2>1, <3>1 DEF IInv, Lives, Live
    <2>5. \E x \in Pools : phase'[x] \in {"building", "alive"}
      BY <2>1 DEF Arranged, Live
    <2>6. \A x, y \in Pools : phase'[x] \in {"building", "alive"} /\ phase'[y] \in {"building", "alive"} => x = y
      BY <2>1 DEF IInv, Lives, Live
    <2> QED BY <2>2, <2>3, <2>4, <2>5, <2>6 DEF Lives, Live
  <1> QED BY <1>2, <1>3, <1>6, <1>7, <1>8

\* With no new objects, and no change in the blocks, the invariant stays.
LEMMA ArrangedIInv ==
    ASSUME IInv, NEW t \in Threads, NEW p \in Pools, NEW r, NEW l, NEW q, Arranged(t, p, r, l, q, {}),
           lent' = lent, gone' = gone, r.block = thr[t].block, r.seen = {}
    PROVE  IInv'
  <1>1. lent' \in SUBSET Blocks
    BY DEF IInv, Typed
  <1>2. /\ Typed' /\ Lives' /\ Apart'
        /\ \A n \in Nodes : Placed(n)' <=> Placed(n)
        /\ \A u \in Threads : thr'[u] = IF u = t THEN r ELSE thr[u]
    BY SMT, <1>1, ArrangedFacts
  <1>3. /\ \E x \in Pools : Live(x)
        /\ r.pc \in {"read", "write", "link"} <=> r.block # NoBlock
        /\ \A x \in Pools : \A b \in storage'[x] : Settled(b)
    BY DEF Arranged, Proper, IInv, Stored
  <1> QED BY <1>2, <1>3, StepIInv

\* Acquire finds an object in the cache, or goes on to the free list.
LEMMA AcquireIInv ==
    ASSUME IInv, NEW t \in Threads, NEW p \in Pools, Acquire(t, p)
    PROVE  IInv'
  <1>1. thr[t] = Idle /\ Live(p) /\ UNCHANGED <<phase, list, storage, lent, gone>>
    BY DEF Acquire, Live
  <1>2. /\ phase' \in [Pools -> {"unborn", "building", "alive", "dead"}]
        /\ \A x \in Pools : Live(x)' <=> Live(x)
    BY <1>1 DEF IInv, Typed, Live
  <1>3. CASE /\ cache[t] = <<>> /\ UNCHANGED <<cache, used>>
             /\ thr' = [thr EXCEPT ![t] = [Idle EXCEPT !.pc = "pop", !.pool = p]]
    <2> DEFINE r == [Idle EXCEPT !.pc = "pop", !.pool = p]
    <2>1. r.block = NoBlock /\ r.seen = {} /\ Proper(r)
      BY <1>1 DEF Idle, Proper, Labels, Records
    <2>2. thr' = [thr EXCEPT ![t] = r] /\ UNCHANGED <<list, cache, used, lent, gone>> /\ storage' = storage
      BY <1>1, <1>3
    <2>3. r.block = thr[t].block
      BY <1>1, <2>1, IdleFacts
    <2> HIDE DEF r
    <2> QED BY <1>2, <2>1, <2>2, <2>3, StorageFacts, RelabelIInv
  <1>4. CASE /\ cache[t] # <<>> /\ used' = [used EXCEPT ![Top(cache[t])] = p]
             /\ cache' = [cache EXCEPT ![t] = Rest(@)] /\ UNCHANGED thr
    <2> DEFINE c == cache[t]
               n == Top(c)
               q == Rest(c)
    <2>1. c \in Seq(Nodes) /\ IsInjective(c) /\ c # <<>> /\ Len(c) <= CacheSize /\ Len(c) \in Nat
      BY <1>4, SeqFacts DEF IInv, Typed, Apart
    <2>2. /\ n \in Range(c) /\ n \in Nodes /\ q \in Seq(Nodes) /\ IsInjective(q)
          /\ Len(q) = Len(c) - 1 /\ Range(q) = Range(c) \ {n}
      <3> HIDE DEF c
      <3> QED BY <2>1, TopFacts
    <2>3. /\ used' = [used EXCEPT ![n] = p] /\ cache' = [cache EXCEPT ![t] = q]
          /\ list' = [list EXCEPT ![p] = list[p]] /\ thr' = [thr EXCEPT ![t] = Idle]
      BY <1>1, <1>4 DEF IInv, Typed
    <2> HIDE DEF n, q
    <2>4. \A m \in Nodes : used'[m] = IF m = n THEN p ELSE used[m]
      BY <2>2, <2>3 DEF IInv, Typed
    <2>5. Proper(Idle)
      BY IdleFacts DEF Proper
    <2>6. /\ list[p] \in Seq(Nodes) /\ IsInjective(list[p]) /\ Range(c) \cap Range(list[p]) = {}
          /\ \A m \in Nodes : used[m] # NoPool => m \notin Range(list[p]) /\ m \notin Range(c)
      BY DEF IInv, Typed, Apart
    <2>7. Len(q) <= CacheSize /\ p # NoPool
      BY SMT, <2>1, <2>2, CacheAssumption, PoolAssumption
    <2>8. used' \in [Nodes -> Pools \cup {NoPool}]
      BY <2>2, <2>3 DEF IInv, Typed
    <2>9. \A m \in Nodes : used'[m] # NoPool => m \notin Range(list[p]) /\ m \notin Range(q)
      BY <2>2, <2>4, <2>6
    <2>10. \A m \in Nodes :
              (used'[m] # NoPool \/ m \in Range(list[p]) \/ m \in Range(q))
                  <=> (used[m] # NoPool \/ m \in Range(list[p]) \/ m \in Range(c) \/ m \in {})
      BY <2>2, <2>4, <2>7
    <2>11. \A m \in Nodes : used'[m] \in {used[m], p, NoPool}
      BY <2>4
    <2>12. Range(list[p]) \cap Range(q) = {}
      BY <2>2, <2>6
    <2>13. Arranged(t, p, Idle, list[p], q, {})
      BY <1>1, <1>2, <2>2, <2>3, <2>5, <2>6, <2>7, <2>8, <2>9, <2>10, <2>11, <2>12 DEF Arranged
    <2>14. Idle.block = thr[t].block /\ Idle.seen = {} /\ lent' = lent /\ gone' = gone
      BY <1>1, IdleFacts
    <2> QED BY <2>13, <2>14, ArrangedIInv
  <1> QED BY <1>3, <1>4 DEF Acquire

\* Acquire pops the free list, or finds it empty.
LEMMA AcquirePopIInv ==
    ASSUME IInv, NEW t \in Threads, AcquirePop(t)
    PROVE  IInv'
  <1> DEFINE p == thr[t].pool
  <1>1. /\ thr[t].pc \in {"pop", "repop"} /\ UNCHANGED <<phase, storage, cache, lent, gone>>
        /\ p \in Pools /\ Live(p) /\ thr[t].block = NoBlock
    BY IdleFacts DEF AcquirePop, IInv, Lives, Fresh
  <1>2. /\ phase' \in [Pools -> {"unborn", "building", "alive", "dead"}]
        /\ \A x \in Pools : Live(x)' <=> Live(x)
    BY <1>1 DEF IInv, Typed, Live
  <1>3. ASSUME NEW label \in {"alloc", "last"}, list[p] = <<>>, Go(t, label), UNCHANGED <<list, used>>
        PROVE  IInv'
    <2> DEFINE r == [thr[t] EXCEPT !.pc = label]
    <2>0. thr[t] \in Records
      BY DEF IInv, Typed
    <2>1. r.block = thr[t].block /\ r.seen = thr[t].seen /\ r.pool = p /\ r.pc = label /\ r \in Records
      BY <2>0 DEF Labels, Records
    <2>2. Proper(r)
      BY <1>1, <2>1 DEF Proper
    <2>3. thr' = [thr EXCEPT ![t] = r] /\ UNCHANGED <<list, cache, used, lent, gone>> /\ storage' = storage
      BY <1>1, <1>3 DEF Go, IInv, Typed
    <2> HIDE DEF r
    <2>4. \A b \in r.seen : Settled(b)
      BY <2>1 DEF IInv, Stored
    <2>5. r.block = thr[t].block
      BY <2>1
    <2> QED BY <1>2, <2>2, <2>3, <2>4, <2>5, StorageFacts, RelabelIInv
  <1>4. CASE /\ list[p] # <<>> /\ used' = [used EXCEPT ![Head(list[p])] = p]
             /\ list' = [list EXCEPT ![p] = Tail(@)] /\ thr' = [thr EXCEPT ![t] = Idle]
    <2> DEFINE c == list[p]
               n == Head(c)
               l == Tail(c)
    <2>1. c \in Seq(Nodes) /\ IsInjective(c) /\ c # <<>>
      BY <1>1, <1>4 DEF IInv, Typed, Apart
    <2>2. /\ n \in Range(c) /\ n \in Nodes /\ l \in Seq(Nodes) /\ IsInjective(l)
          /\ Range(l) = Range(c) \ {n}
      <3> HIDE DEF c
      <3> QED BY <2>1, HeadFacts
    <2>3. /\ used' = [used EXCEPT ![n] = p] /\ list' = [list EXCEPT ![p] = l]
          /\ cache' = [cache EXCEPT ![t] = cache[t]] /\ thr' = [thr EXCEPT ![t] = Idle]
      BY <1>1, <1>4 DEF IInv, Typed
    <2> HIDE DEF n, l
    <2>4. \A m \in Nodes : used'[m] = IF m = n THEN p ELSE used[m]
      BY <2>2, <2>3 DEF IInv, Typed
    <2>5. Proper(Idle)
      BY IdleFacts DEF Proper
    <2>6. /\ cache[t] \in Seq(Nodes) /\ IsInjective(cache[t]) /\ Range(cache[t]) \cap Range(c) = {}
          /\ \A m \in Nodes : used[m] # NoPool => m \notin Range(cache[t]) /\ m \notin Range(c)
          /\ Len(cache[t]) <= CacheSize
      BY <1>1 DEF IInv, Typed, Apart
    <2>7. p # NoPool
      BY <1>1, PoolAssumption
    <2>8. used' \in [Nodes -> Pools \cup {NoPool}]
      BY <1>1, <2>2, <2>3 DEF IInv, Typed
    <2>9. \A m \in Nodes : used'[m] # NoPool => m \notin Range(l) /\ m \notin Range(cache[t])
      BY <2>2, <2>4, <2>6
    <2>10. \A m \in Nodes :
              (used'[m] # NoPool \/ m \in Range(l) \/ m \in Range(cache[t]))
                  <=> (used[m] # NoPool \/ m \in Range(c) \/ m \in Range(cache[t]) \/ m \in {})
      BY <2>2, <2>4, <2>7
    <2>11. \A m \in Nodes : used'[m] \in {used[m], p, NoPool}
      BY <2>4
    <2>12. Range(l) \cap Range(cache[t]) = {}
      BY <2>2, <2>6
    <2>13. Arranged(t, p, Idle, l, cache[t], {})
      BY <1>1, <1>2, <2>2, <2>3, <2>5, <2>6, <2>8, <2>9, <2>10, <2>11, <2>12 DEF Arranged
    <2>14. Idle.block = thr[t].block /\ Idle.seen = {} /\ lent' = lent /\ gone' = gone
      BY <1>1, IdleFacts
    <2> HIDE DEF p
    <2> QED BY <1>1, <2>13, <2>14, ArrangedIInv
  <1> QED BY <1>3, <1>4 DEF AcquirePop

\* The objects of F come from a block of thread t or of the system, and t has no block
\* after the step.
LEMMA NewIInv ==
    ASSUME IInv, NEW t \in Threads, NEW p \in Pools, NEW r, NEW l, NEW q, NEW F, Arranged(t, p, r, l, q, F),
           lent \subseteq lent', lent' \in SUBSET Blocks, gone' = gone, r.block = NoBlock, r.seen = {},
           \A n \in F : Lent(n)', Range(thr[t].block) \subseteq F,
           \A u \in Threads \ {t} : Range(thr[u].block) \cap F = {}
    PROVE  IInv'
  <1>1. /\ Typed' /\ Lives' /\ Apart'
        /\ \A n \in Nodes : Placed(n)' <=> Placed(n) \/ n \in F
        /\ \A u \in Threads : thr'[u] = IF u = t THEN r ELSE thr[u]
    BY ArrangedFacts
  <1>2. \A u \in Threads : thr'[u].block = IF u = t THEN NoBlock ELSE thr[u].block
    BY <1>1
  <1>3. \A u \in Threads : Range(thr[u].block) \subseteq Nodes
    BY BlockFacts DEF IInv, Typed, Records
  <1>4. Backed'
    <2>1. \A n \in Nodes : Placed(n) => Lent(n)
      BY DEF IInv, Backed, Arranged
    <2>2. \A n \in Nodes : Lent(n) => Lent(n)'
      BY DEF Lent
    <2> QED BY <1>1, <2>1, <2>2 DEF Backed
  <1>5. Fresh'
    <2>1. \A u \in Threads : thr'[u].pc \in {"read", "write", "link"} <=> thr'[u].block # NoBlock
      BY SMT, <1>1 DEF IInv, Fresh, Arranged, Proper
    <2>2. /\ \A u \in Threads : thr'[u].block # NoBlock => thr'[u].block \in lent'
          /\ \A u, v \in Threads : thr'[u].block = thr'[v].block /\ thr'[u].block # NoBlock => u = v
      BY <1>2 DEF IInv, Fresh
    <2>3. \A u \in Threads : \A n \in Range(thr'[u].block) : ~Placed(n)'
      <3>1. \A u \in Threads \ {t} : \A n \in Range(thr[u].block) : n \in Nodes /\ ~Placed(n) /\ n \notin F
        BY <1>3 DEF IInv, Fresh
      <3> QED BY <1>1, <1>2, <3>1, BlockFacts
    <2> QED BY <2>1, <2>2, <2>3 DEF Fresh
  <1>6. ASSUME NEW b, Settled(b) PROVE Settled(b)'
    <2>1. b \in lent /\ b \in lent' /\ b \in Blocks /\ Range(b) \subseteq Nodes
      BY <1>6, BlockFacts DEF Settled, IInv, Typed
    <2>2. ASSUME \A u \in Threads : thr'[u].block # b, NEW n \in Range(b) PROVE Placed(n)' \/ n \in gone'
      <3>1. CASE thr[t].block = b
        BY <1>1, <2>1, <2>2, <3>1
      <3>2. CASE thr[t].block # b
        <4>1. \A u \in Threads : thr[u].block # b
          BY <1>2, <2>2, <3>2
        <4> QED BY <1>1, <1>6, <2>1, <2>2, <4>1 DEF Settled
      <3> QED BY <3>1, <3>2
    <2> QED BY <2>1, <2>2 DEF Settled
  <1>7. Stored'
    <2>1. storage' = storage
      BY DEF Arranged
    <2>2. \A u \in Threads : \A b \in thr'[u].seen : Settled(b)
      BY <1>1 DEF IInv, Stored
    <2> QED BY <1>6, <2>1, <2>2 DEF IInv, Stored
  <1> QED BY <1>1, <1>4, <1>5, <1>7 DEF IInv

\* The slots of the thread's block come into the free list.
LEMMA GrowLinkIInv ==
    ASSUME IInv, NEW t \in Threads, GrowLink(t)
    PROVE  IInv'
  <1> DEFINE p == thr[t].pool
             b == thr[t].block
             l == b \o list[p]
  <1>1. /\ thr[t].pc = "link" /\ UNCHANGED <<storage, cache, used, lent, gone>> /\ Grown(t)
        /\ list' = [list EXCEPT ![p] = l]
    BY DEF GrowLink
  <1>2. p \in Pools /\ Live(p) /\ b # NoBlock /\ b \in lent /\ b \in Blocks
    BY <1>1, IdleFacts DEF IInv, Lives, Fresh, Typed
  <1>3. /\ phase' \in [Pools -> {"unborn", "building", "alive", "dead"}]
        /\ \A x \in Pools : Live(x)' <=> Live(x)
        /\ \E r : thr' = [thr EXCEPT ![t] = r] /\ Proper(r) /\ r.block = NoBlock /\ r.seen = {}
    BY <1>1, GrownFacts
  <1>4. PICK r : thr' = [thr EXCEPT ![t] = r] /\ Proper(r) /\ r.block = NoBlock /\ r.seen = {}
    BY <1>3
  <1>5. /\ b \in Seq(Nodes) /\ IsInjective(b) /\ Range(b) \subseteq Nodes
        /\ \A n \in Range(b) : ~Placed(n)
    BY <1>2, BlockFacts DEF IInv, Fresh
  <1>6. /\ list[p] \in Seq(Nodes) /\ IsInjective(list[p]) /\ Range(cache[t]) \cap Range(list[p]) = {}
        /\ cache[t] \in Seq(Nodes) /\ IsInjective(cache[t]) /\ Len(cache[t]) <= CacheSize
        /\ \A m \in Nodes : used[m] # NoPool => m \notin Range(list[p]) /\ m \notin Range(cache[t])
    BY <1>2 DEF IInv, Typed, Apart
  <1>7. \A n \in Range(b) : used[n] = NoPool /\ n \notin Range(list[p]) /\ n \notin Range(cache[t])
    BY <1>2, <1>5 DEF Placed
  <1>8. l \in Seq(Nodes) /\ IsInjective(l) /\ Range(l) = Range(b) \cup Range(list[p])
    <2>1. Range(b) \cap Range(list[p]) = {}
      BY <1>7
    <2> HIDE DEF b
    <2> QED BY SMT, <1>5, <1>6, <2>1, ConcatFacts
  <1>9. \A u \in Threads \ {t} : Range(thr[u].block) \cap Range(b) = {}
    <2> SUFFICES ASSUME NEW u \in Threads \ {t}, NEW n \in Range(thr[u].block), n \in Range(b) PROVE FALSE
      OBVIOUS
    <2>1. thr[u].block \in Blocks
      BY BlockFacts DEF IInv, Typed, Records
    <2>2. thr[u].block = b
      BY <1>2, <2>1, BlockFacts
    <2> QED BY <1>2, <2>2 DEF IInv, Fresh
  <1>10. cache' = [cache EXCEPT ![t] = cache[t]] /\ used' \in [Nodes -> Pools \cup {NoPool}] /\ used' = used
    BY <1>1 DEF IInv, Typed
  <1>11. \A n \in Range(b) : Lent(n)'
    BY <1>1, <1>2 DEF Lent
  <1>12. lent \subseteq lent' /\ lent' \in SUBSET Blocks /\ gone' = gone /\ storage' = storage
    BY <1>1 DEF IInv, Typed
  <1>13. Arranged(t, p, r, l, cache[t], Range(b))
    <2>1. Range(l) \cap Range(cache[t]) = {}
      BY <1>6, <1>7, <1>8
    <2>2. \A m \in Nodes : used'[m] # NoPool => m \notin Range(l) /\ m \notin Range(cache[t])
      BY <1>6, <1>7, <1>8, <1>10
    <2>3. \A m \in Nodes :
             (used'[m] # NoPool \/ m \in Range(l) \/ m \in Range(cache[t]))
                 <=> (used[m] # NoPool \/ m \in Range(list[p]) \/ m \in Range(cache[t]) \/ m \in Range(b))
      BY <1>8, <1>10
    <2>4. list' = [list EXCEPT ![p] = l] /\ \A m \in Nodes : used'[m] \in {used[m], p, NoPool}
      BY <1>1, <1>10
    <2> HIDE DEF l, b, p
    <2> QED BY <1>2, <1>3, <1>4, <1>5, <1>6, <1>8, <1>10, <1>12, <2>1, <2>2, <2>3, <2>4 DEF Arranged
  <1> HIDE DEF l, p
  <1> QED BY <1>2, <1>4, <1>9, <1>11, <1>12, <1>13, NewIInv

\* One slot of its own.
LEMMA AcquireLastIInv ==
    ASSUME IInv, NEW t \in Threads, AcquireLast(t)
    PROVE  IInv'
  <1> DEFINE p == thr[t].pool
  <1>1. /\ thr[t].pc = "last" /\ UNCHANGED <<phase, list, storage, cache, gone>>
        /\ thr' = [thr EXCEPT ![t] = Idle]
    BY DEF AcquireLast
  <1>2. p \in Pools /\ Live(p) /\ thr[t].block = NoBlock /\ Proper(Idle)
    BY <1>1, IdleFacts DEF IInv, Lives, Fresh, Proper
  <1>3. /\ phase' \in [Pools -> {"unborn", "building", "alive", "dead"}]
        /\ \A x \in Pools : Live(x)' <=> Live(x)
    BY <1>1 DEF IInv, Typed, Live
  <1>4. CASE UNCHANGED <<lent, used>>
    <2>1. UNCHANGED <<list, cache, used, lent, gone>> /\ storage' = storage
      BY <1>1, <1>4
    <2> QED BY <1>1, <1>2, <1>3, <2>1, IdleFacts, StorageFacts, RelabelIInv
  <1>5. ASSUME NEW b \in Blocks \ lent, lent' = lent \cup {b}, used' = [used EXCEPT ![b[1]] = p]
        PROVE  IInv'
    <2> DEFINE n == b[1]
    <2>1. n \in Range(b) /\ n \in Nodes /\ ~Placed(n)
      <3>1. b \in Seq(Nodes) /\ b # <<>>
        BY BlockFacts DEF NoBlock
      <3>2. 1 \in 1..Len(b)
        BY SMT, <3>1, SeqFacts
      <3>3. n \in Range(b)
        BY <3>1, <3>2, SeqFacts
      <3> QED BY <1>2, <3>3, UnlentFacts
    <2>2. used' = [used EXCEPT ![n] = p]
      BY <1>5
    <2> HIDE DEF n
    <2>3. \A m \in Nodes : used'[m] = IF m = n THEN p ELSE used[m]
      BY <2>1, <2>2 DEF IInv, Typed
    <2>4. /\ list[p] \in Seq(Nodes) /\ IsInjective(list[p]) /\ Range(cache[t]) \cap Range(list[p]) = {}
          /\ cache[t] \in Seq(Nodes) /\ IsInjective(cache[t]) /\ Len(cache[t]) <= CacheSize
          /\ \A m \in Nodes : used[m] # NoPool => m \notin Range(list[p]) /\ m \notin Range(cache[t])
      BY <1>2 DEF IInv, Typed, Apart
    <2>5. used[n] = NoPool /\ n \notin Range(list[p]) /\ n \notin Range(cache[t])
      BY <1>2, <2>1 DEF Placed
    <2>6. /\ cache' = [cache EXCEPT ![t] = cache[t]] /\ list' = [list EXCEPT ![p] = list[p]]
          /\ used' \in [Nodes -> Pools \cup {NoPool}] /\ storage' = storage
      BY <1>1, <1>2, <2>1, <2>2 DEF IInv, Typed
    <2>7. p # NoPool
      BY <1>2, PoolAssumption
    <2>8. Arranged(t, p, Idle, list[p], cache[t], {n})
      <3>1. \A m \in Nodes : used'[m] # NoPool => m \notin Range(list[p]) /\ m \notin Range(cache[t])
        BY <2>3, <2>4, <2>5
      <3>2. \A m \in Nodes :
               (used'[m] # NoPool \/ m \in Range(list[p]) \/ m \in Range(cache[t]))
                   <=> (used[m] # NoPool \/ m \in Range(list[p]) \/ m \in Range(cache[t]) \/ m \in {n})
        BY <2>3, <2>7
      <3>3. \A m \in Nodes : used'[m] \in {used[m], p, NoPool}
        BY <2>3
      <3>4. Range(list[p]) \cap Range(cache[t]) = {} /\ {n} \subseteq Nodes /\ \A m \in {n} : ~Placed(m)
        BY <2>1, <2>4
      <3> HIDE DEF p
      <3> QED BY <1>1, <1>2, <1>3, <2>4, <2>6, <3>1, <3>2, <3>3, <3>4 DEF Arranged
    <2>9. \A u \in Threads \ {t} : Range(thr[u].block) \cap {n} = {}
      <3> SUFFICES ASSUME NEW u \in Threads, n \in Range(thr[u].block) PROVE FALSE
        OBVIOUS
      <3>1. thr[u].block \in Blocks /\ thr[u].block \in lent
        BY BlockFacts DEF IInv, Typed, Records, Fresh
      <3>2. thr[u].block = b
        BY <2>1, <3>1, BlockFacts
      <3> QED BY <3>1, <3>2
    <2>10. \A m \in {n} : Lent(m)'
      BY <1>5, <2>1 DEF Lent
    <2>11. lent \subseteq lent' /\ lent' \in SUBSET Blocks /\ gone' = gone
      BY <1>1, <1>5 DEF IInv, Typed
    <2>12. Range(thr[t].block) \subseteq {n} /\ Idle.block = NoBlock /\ Idle.seen = {}
      BY <1>2, BlockFacts, IdleFacts
    <2> HIDE DEF p
    <2> QED BY <1>2, <2>8, <2>9, <2>10, <2>11, <2>12, NewIInv
  <1> QED BY <1>4, <1>5 DEF AcquireLast

\* An object comes back to the caller's cache, and a full cache first gives a part M of
\* its objects to the free list.
LEMMA ReleaseIInv ==
    ASSUME IInv, NEW t \in Threads, NEW n \in Nodes, Release(t, n)
    PROVE  IInv'
  <1> DEFINE p == used[n]
             c == cache[t]
  <1>1. /\ thr[t] = Idle /\ p # NoPool /\ p \in Pools /\ Live(p) /\ UNCHANGED <<phase, storage, lent, thr, gone>>
        /\ used' = [used EXCEPT ![n] = NoPool]
    BY SMT DEF Release, IInv, Typed, Lives
  <1>2. \/ /\ ~Full(c) /\ cache' = [cache EXCEPT ![t] = Append(@, n)] /\ UNCHANGED list
        \/ /\ Full(c) /\ list' = [list EXCEPT ![p] = Flushed(c) \o @]
           /\ cache' = [cache EXCEPT ![t] = Append(Kept(@), n)]
    BY DEF Release
  <1>3. /\ c \in Seq(Nodes) /\ IsInjective(c) /\ n \notin Range(c)
        /\ Len(c) \in Nat /\ Len(c) <= CacheSize /\ CacheSize \in Nat
    BY SMT, <1>1, SeqFacts, CacheAssumption DEF IInv, Typed, Apart
  <1>4. /\ list[p] \in Seq(Nodes) /\ IsInjective(list[p]) /\ Range(c) \cap Range(list[p]) = {}
        /\ n \notin Range(list[p])
        /\ \A m \in Nodes : used[m] # NoPool => m \notin Range(list[p]) /\ m \notin Range(c)
    BY <1>1 DEF IInv, Typed, Apart
  <1> HIDE DEF p
  <1>5. \E M \in SUBSET Range(c), q \in Seq(Nodes), l \in Seq(Nodes) :
           /\ list' = [list EXCEPT ![p] = l] /\ cache' = [cache EXCEPT ![t] = q]
           /\ IsInjective(q) /\ IsInjective(l) /\ Len(q) <= CacheSize
           /\ Range(l) = Range(list[p]) \cup M
           /\ Range(q) = (Range(c) \ M) \cup {n}
    <2>1. CASE ~Full(c) /\ cache' = [cache EXCEPT ![t] = Append(@, n)] /\ UNCHANGED list
      <3>1. /\ Append(c, n) \in Seq(Nodes) /\ IsInjective(Append(c, n))
            /\ Len(Append(c, n)) = Len(c) + 1 /\ Range(Append(c, n)) = Range(c) \cup {n}
        BY SMT, <1>3, AppendFacts
      <3>2. Len(Append(c, n)) <= CacheSize
        BY SMT, <1>3, <2>1, <3>1 DEF Full
      <3>3. cache' = [cache EXCEPT ![t] = Append(c, n)] /\ list' = [list EXCEPT ![p] = list[p]]
        BY <1>1, <2>1 DEF IInv, Typed
      <3> HIDE DEF c
      <3> Append(c, n) \in Seq(Nodes) /\ list[p] \in Seq(Nodes)
        BY <1>4, <3>1
      <3> WITNESS {} \in SUBSET Range(c), Append(c, n) \in Seq(Nodes), list[p] \in Seq(Nodes)
      <3> QED BY <1>4, <3>1, <3>2, <3>3
    <2>2. CASE /\ Full(c) /\ list' = [list EXCEPT ![p] = Flushed(c) \o @]
               /\ cache' = [cache EXCEPT ![t] = Append(Kept(@), n)]
      <3>1. list' = [list EXCEPT ![p] = Flushed(c) \o list[p]] /\ cache' = [cache EXCEPT ![t] = Append(Kept(c), n)]
        BY <2>2 DEF IInv, Typed
      <3> HIDE DEF c
      <3>2. /\ Kept(c) \in Seq(Nodes) /\ IsInjective(Kept(c)) /\ Len(Kept(c)) < Len(c)
            /\ Flushed(c) \in Seq(Nodes) /\ IsInjective(Flushed(c))
            /\ Range(Kept(c)) \cap Range(Flushed(c)) = {}
            /\ Range(Kept(c)) \cup Range(Flushed(c)) = Range(c)
        BY <1>3, <2>2, FlushFacts
      <3>3. /\ Append(Kept(c), n) \in Seq(Nodes) /\ IsInjective(Append(Kept(c), n))
            /\ Len(Append(Kept(c), n)) = Len(Kept(c)) + 1 /\ Range(Append(Kept(c), n)) = Range(Kept(c)) \cup {n}
        BY SMT, <1>3, <3>2, AppendFacts
      <3>4. /\ Flushed(c) \o list[p] \in Seq(Nodes) /\ IsInjective(Flushed(c) \o list[p])
            /\ Range(Flushed(c) \o list[p]) = Range(Flushed(c)) \cup Range(list[p])
        BY SMT, <1>4, <3>2, ConcatFacts
      <3>5. Len(Kept(c)) + 1 <= CacheSize
        BY SMT, <1>3, <3>2, SeqFacts
      <3>6. Range(Flushed(c)) \in SUBSET Range(c) /\ Range(Kept(c)) = Range(c) \ Range(Flushed(c))
        BY <3>2
      <3> /\ Range(Flushed(c)) \in SUBSET Range(c)
          /\ Append(Kept(c), n) \in Seq(Nodes) /\ Flushed(c) \o list[p] \in Seq(Nodes)
        BY <3>3, <3>4, <3>6
      <3> WITNESS Range(Flushed(c)) \in SUBSET Range(c), Append(Kept(c), n) \in Seq(Nodes),
                  Flushed(c) \o list[p] \in Seq(Nodes)
      <3> QED BY <3>1, <3>3, <3>4, <3>5, <3>6
    <2> QED BY <1>2, <2>1, <2>2 DEF p
  <1>6. PICK M \in SUBSET Range(c), q \in Seq(Nodes), l \in Seq(Nodes) :
           /\ list' = [list EXCEPT ![p] = l] /\ cache' = [cache EXCEPT ![t] = q]
           /\ IsInjective(q) /\ IsInjective(l) /\ Len(q) <= CacheSize
           /\ Range(l) = Range(list[p]) \cup M
           /\ Range(q) = (Range(c) \ M) \cup {n}
    BY <1>5
  <1>7. \A m \in Nodes : used'[m] = IF m = n THEN NoPool ELSE used[m]
    BY <1>1 DEF IInv, Typed
  <1>8. Arranged(t, p, Idle, l, q, {})
    <2>1. Range(l) \cap Range(q) = {}
      BY <1>3, <1>4, <1>6
    <2>2. \A m \in Nodes : used'[m] # NoPool => m \notin Range(l) /\ m \notin Range(q)
      BY <1>4, <1>6, <1>7
    <2>3. \A m \in Nodes :
             (used'[m] # NoPool \/ m \in Range(l) \/ m \in Range(q))
                 <=> (used[m] # NoPool \/ m \in Range(list[p]) \/ m \in Range(c) \/ m \in {})
      BY <1>1, <1>6, <1>7 DEF p
    <2>4. \A m \in Nodes : used'[m] \in {used[m], p, NoPool}
      BY <1>7
    <2>5. used' \in [Nodes -> Pools \cup {NoPool}]
      BY <1>1 DEF IInv, Typed
    <2>6. /\ phase' \in [Pools -> {"unborn", "building", "alive", "dead"}]
          /\ \A x \in Pools : Live(x)' <=> Live(x)
      BY <1>1 DEF IInv, Typed, Live
    <2>7. thr' = [thr EXCEPT ![t] = Idle] /\ storage' = storage /\ Proper(Idle)
      BY <1>1, IdleFacts DEF IInv, Typed, Proper
    <2> QED BY <1>1, <1>6, <2>1, <2>2, <2>3, <2>4, <2>5, <2>6, <2>7 DEF Arranged
  <1>9. Idle.block = thr[t].block /\ Idle.seen = {} /\ lent' = lent /\ gone' = gone
    BY <1>1, IdleFacts
  <1> QED BY <1>1, <1>8, <1>9, ArrangedIInv

-----------------------------------------------------------------------------
(* The lives of instances and threads *)

\* A worker ends, and what it had cached is gone.
LEMMA ThreadExitIInv ==
    ASSUME IInv, NEW t \in Threads, ThreadExit(t)
    PROVE  IInv'
  <1>1. /\ UNCHANGED <<phase, list, storage, used, lent, thr>>
        /\ gone' = gone \cup Range(cache[t]) /\ cache' = [cache EXCEPT ![t] = <<>>]
    BY DEF ThreadExit
  <1>2. <<>> \in Seq(Nodes) /\ Len(<<>>) = 0 /\ Range(<<>>) = {} /\ IsInjective(<<>>)
    BY EmptyFacts
  <1>3. \A u \in Threads : cache'[u] = IF u = t THEN <<>> ELSE cache[u]
    BY <1>1 DEF IInv, Typed
  <1>4. Typed'
    <2>1. cache' \in [Threads -> Seq(Nodes)] /\ \A u \in Threads : Len(cache'[u]) <= CacheSize
      BY SMT, <1>1, <1>2, <1>3, CacheAssumption DEF IInv, Typed
    <2> QED BY <1>1, <2>1 DEF IInv, Typed
  <1>5. Lives'
    BY SMT, <1>1, <1>3, PoolAssumption DEF IInv, Lives, Live
  <1>6. Apart'
    BY ZenonT(30), <1>1, <1>2, <1>3 DEF IInv, Apart
  <1>7. \A n : /\ Placed(n)' => Placed(n)
               /\ Placed(n) => Placed(n)' \/ n \in gone'
    BY <1>1, <1>2, <1>3 DEF Placed
  <1>8. Backed'
    BY <1>1, <1>7 DEF IInv, Backed, Lent, Live
  <1>9. Fresh'
    BY <1>1, <1>7 DEF IInv, Fresh
  <1>10. Stored'
    BY <1>1, <1>7 DEF IInv, Stored, Settled
  <1> QED BY <1>4, <1>5, <1>6, <1>8, <1>9, <1>10 DEF IInv

\* The destructor runs when all is back, and frees the blocks of storage_blocks_.
LEMMA DestroyIInv ==
    ASSUME IInv, NEW p \in Pools, Destroy(p)
    PROVE  IInv'
  <1>1. /\ phase[p] = "alive" /\ Live(p) /\ phase' = [phase EXCEPT ![p] = "dead"]
        /\ lent' = lent \ storage[p] /\ storage' = [storage EXCEPT ![p] = {}]
        /\ list' = [list EXCEPT ![p] = <<>>] /\ UNCHANGED <<cache, used, thr, gone>>
    BY DEF Destroy, Live
  <1>2. \A t \in Threads : thr[t] = Idle
    BY <1>1 DEF Destroy, IInv, Lives
  <1>3. \A n \in Nodes : used[n] = NoPool
    BY SMT, <1>1 DEF Destroy, IInv, Lives, Typed
  <1>4. \A q \in Pools : phase'[q] = IF q = p THEN "dead" ELSE phase[q]
    BY <1>1 DEF IInv, Typed
  <1>5. \A q \in Pools : ~(phase'[q] \in {"building", "alive"})
    BY SMT, <1>1, <1>4 DEF IInv, Lives, Live
  <1>6. \A q \in Pools : list'[q] = <<>> /\ storage'[q] = {}
    BY SMT, <1>1 DEF IInv, Lives, Typed
  <1>7. <<>> \in Seq(Nodes) /\ Len(<<>>) = 0 /\ Range(<<>>) = {} /\ IsInjective(<<>>)
    BY EmptyFacts
  <1>8. Typed'
    BY <1>1, <1>7 DEF IInv, Typed
  <1>9. Lives'
    <2>1. \A t \in Exits : cache'[t] = <<>>
      BY <1>1 DEF Destroy
    <2> QED BY <1>1, <1>2, <1>3, <1>5, <1>6, <2>1 DEF Lives, Live
  <1>10. Apart'
    BY <1>1, <1>3, <1>6, <1>7 DEF IInv, Apart
  <1>11. Backed'
    BY <1>5 DEF Backed, Live
  <1>12. Fresh' /\ Stored'
    BY <1>1, <1>2, <1>6, IdleFacts, BlockFacts DEF Fresh, Stored
  <1> QED BY <1>8, <1>9, <1>10, <1>11, <1>12 DEF IInv

\* A constructor runs when no instance lives, and throws away what its thread has cached.
LEMMA ConstructIInv ==
    ASSUME OneAtATime, IInv, NEW t \in Threads, NEW p \in Pools, Construct(t, p)
    PROVE  IInv'
  <1> DEFINE r == [Idle EXCEPT !.pc = "alloc", !.pool = p]
  <1>1. /\ thr[t] = Idle /\ t \notin Exits /\ phase[p] = "unborn"
        /\ phase' = [phase EXCEPT ![p] = "building"] /\ cache' = [cache EXCEPT ![t] = <<>>]
        /\ thr' = [thr EXCEPT ![t] = r] /\ UNCHANGED <<list, storage, used, lent, gone>>
    BY DEF Construct
  <1>2. \A q \in Pools : ~Live(q)
    <2> SUFFICES ASSUME NEW q \in Pools, Live(q) PROVE FALSE
      OBVIOUS
    <2>1. {x \in Pools : phase[x] \in {"building", "alive"}} = {q}
      <3>1. \A x \in Pools : phase[x] \in {"building", "alive"} <=> x = q
        BY DEF IInv, Lives, Live
      <3> QED BY <3>1
    <2>2. Cardinality({q}) = 1 /\ MaxAlive = 1
      BY OneElement DEF OneAtATime
    <2>3. Cardinality({q}) < MaxAlive
      BY <2>1 DEF Construct
    <2> QED BY SMT, <2>2, <2>3
  <1>3. /\ \A u \in Threads : thr[u] = Idle
        /\ \A n \in Nodes : used[n] = NoPool
        /\ \A q \in Pools : list[q] = <<>> /\ storage[q] = {}
        /\ \A u \in Exits : cache[u] = <<>>
    BY <1>2 DEF IInv, Lives, Typed
  <1>4. <<>> \in Seq(Nodes) /\ Len(<<>>) = 0 /\ Range(<<>>) = {} /\ IsInjective(<<>>)
    BY EmptyFacts
  <1>5. \A u \in Threads : cache'[u] = <<>>
    <2>1. \A u \in Threads : u = t \/ u \in Exits
      BY <1>1 DEF OneAtATime
    <2> QED BY <1>1, <1>3, <2>1 DEF IInv, Typed
  <1>6. /\ r \in Records /\ r.pool = p /\ r.block = NoBlock /\ r.seen = {} /\ r.pc = "alloc"
    BY DEF Idle, Records, Labels
  <1> HIDE DEF r
  <1>7. \A u \in Threads : thr'[u] = IF u = t THEN r ELSE Idle
    BY <1>1, <1>3 DEF IInv, Typed
  <1>8. \A q \in Pools : phase'[q] = IF q = p THEN "building" ELSE phase[q]
    BY <1>1 DEF IInv, Typed
  <1>9. Typed'
    <2>1. \A u \in Threads : Len(cache'[u]) <= CacheSize
      BY SMT, <1>4, <1>5, CacheAssumption
    <2>2. cache' \in [Threads -> Seq(Nodes)] /\ thr' \in [Threads -> Records]
      BY <1>1, <1>4, <1>6 DEF IInv, Typed
    <2> QED BY <1>1, <2>1, <2>2 DEF IInv, Typed
  <1>10. \A q \in Pools : phase'[q] \in {"building", "alive"} <=> q = p
    BY <1>2, <1>8 DEF Live
  <1>11. Lives'
    <2>1. \A q \in Pools : Live(q)' <=> q = p
      BY <1>10 DEF Live
    <2>2. \A u \in Threads : thr'[u] = Idle \/ thr'[u].pool = p
      BY <1>6, <1>7
    <2>3. list' = list /\ storage' = storage /\ used' = used
      BY <1>1
    <2> QED BY <1>3, <2>1, <2>2, <2>3 DEF Lives
  <1>12. Apart'
    BY <1>1, <1>3, <1>4, <1>5 DEF Apart
  <1>13. \A n \in Nodes : ~Placed(n)'
    BY <1>1, <1>3, <1>4, <1>5 DEF Placed
  <1>14. Backed'
    BY <1>13 DEF Backed
  <1>15. \A u \in Threads : thr'[u].block = NoBlock /\ thr'[u].seen = {} /\ thr'[u].pc \in {"alloc", "idle"}
    BY <1>6, <1>7, IdleFacts
  <1>16. Fresh' /\ Stored'
    BY <1>1, <1>3, <1>15, BlockFacts DEF Fresh, Stored
  <1> QED BY <1>9, <1>11, <1>12, <1>14, <1>16 DEF IInv

-----------------------------------------------------------------------------
(* Theorems *)

\* Every step keeps the invariant.
LEMMA NextIInv ==
    ASSUME OneAtATime
    PROVE  IInv /\ [Next]_vars => IInv'
  <1> SUFFICES ASSUME IInv, [Next]_vars PROVE IInv'
    OBVIOUS
  <1>1. CASE UNCHANGED vars
    <2>1. Typed' /\ Lives' /\ Apart'
      BY SMT, <1>1 DEF vars, IInv, Typed, Lives, Apart, Live
    <2>2. \A n : Placed(n)' <=> Placed(n)
      BY <1>1 DEF vars, Placed
    <2>3. Backed' /\ Fresh' /\ Stored'
      BY <1>1, <2>2 DEF vars, IInv, Backed, Fresh, Stored, Settled, Lent, Live
    <2> QED BY <2>1, <2>3 DEF IInv
  <1>2. ASSUME NEW t \in Threads, NEW p \in Pools, Construct(t, p) \/ Acquire(t, p) PROVE IInv'
    BY <1>2, ConstructIInv, AcquireIInv
  <1>3. ASSUME NEW t \in Threads, GrowAlloc(t) \/ GrowRead(t) \/ GrowWrite(t) \/ GrowLink(t) PROVE IInv'
    BY <1>3, GrowAllocIInv, GrowReadIInv, GrowWriteIInv, GrowLinkIInv
  <1>4. ASSUME NEW t \in Threads, AcquirePop(t) \/ AcquireLast(t) \/ ThreadExit(t) PROVE IInv'
    BY <1>4, AcquirePopIInv, AcquireLastIInv, ThreadExitIInv
  <1>5. ASSUME NEW t \in Threads, NEW n \in Nodes, Release(t, n) PROVE IInv'
    BY <1>5, ReleaseIInv
  <1>6. ASSUME NEW p \in Pools, Destroy(p) PROVE IInv'
    BY <1>6, DestroyIInv
  <1> QED BY <1>1, <1>2, <1>3, <1>4, <1>5, <1>6 DEF Next

\* The places of an object, one kind at a time.
LEMMA PlaceKinds ==
    ASSUME NEW n, NEW x \in Places(n)
    PROVE  \/ \E p \in Pools : \E i \in DOMAIN list[p] : list[p][i] = n /\ x = <<"list", p, i>>
           \/ \E t \in Threads : \E i \in DOMAIN cache[t] : cache[t][i] = n /\ x = <<"cache", t, i>>
           \/ used[n] # NoPool /\ x = <<"application", used[n]>>
  <1>1. ASSUME x \in InLists(n)
        PROVE  \E p \in Pools : \E i \in DOMAIN list[p] : list[p][i] = n /\ x = <<"list", p, i>>
    BY <1>1 DEF InLists, At
  <1>2. ASSUME x \in InCaches(n)
        PROVE  \E t \in Threads : \E i \in DOMAIN cache[t] : cache[t][i] = n /\ x = <<"cache", t, i>>
    BY <1>2 DEF InCaches, At
  <1>3. ASSUME x \in WithApplication(n) PROVE used[n] # NoPool /\ x = <<"application", used[n]>>
    BY <1>3 DEF WithApplication
  <1> QED BY <1>1, <1>2, <1>3 DEF Places

\* An object that is listed, cached or used has a place.
LEMMA PlacedSomewhere ==
    ASSUME IInv, NEW n \in Nodes, Placed(n)
    PROVE  Places(n) # {}
  <1>1. CASE used[n] # NoPool
    <2>1. <<"application", used[n]>> \in Places(n)
      BY <1>1 DEF Places, WithApplication
    <2> QED BY <2>1
  <1>2. CASE \E p \in Pools : n \in Range(list[p])
    <2>1. PICK p \in Pools : \E i \in DOMAIN list[p] : list[p][i] = n
      BY <1>2 DEF Range
    <2>2. PICK i \in DOMAIN list[p] : list[p][i] = n
      BY <2>1
    <2>3. <<"list", p, i>> \in InLists(n)
      BY SMT, <2>2 DEF InLists, At
    <2> QED BY <2>3 DEF Places
  <1>3. CASE \E t \in Threads : n \in Range(cache[t])
    <2>1. PICK t \in Threads : \E i \in DOMAIN cache[t] : cache[t][i] = n
      BY <1>3 DEF Range
    <2>2. PICK i \in DOMAIN cache[t] : cache[t][i] = n
      BY <2>1
    <2>3. i \in 1..CacheSize
      BY SMT, <2>2, SeqFacts, CacheAssumption DEF IInv, Typed
    <2>4. <<"cache", t, i>> \in InCaches(n)
      BY SMT, <2>2, <2>3 DEF InCaches, At
    <2> QED BY <2>4 DEF Places
  <1> QED BY <1>1, <1>2, <1>3 DEF Placed

\* The invariant says that an object is in one place and, while its instance lives, somewhere.
LEMMA OnePlaceHolds == IInv => OnePlace
  <1> SUFFICES ASSUME IInv PROVE OnePlace
    OBVIOUS
  <1>1. ASSUME NEW n \in Nodes, NEW x \in Places(n), NEW y \in Places(n) PROVE x = y
    <2> DEFINE InList(p) == n \in Range(list[p])
               InCache(t) == n \in Range(cache[t])
    <2>1. \A p, q \in Pools : InList(p) /\ InList(q) => p = q
      <3>1. \A p \in Pools : InList(p) => Live(p)
        BY EmptyFacts DEF IInv, Lives
      <3> QED BY <3>1 DEF IInv, Lives
    <2>2. \A t \in Threads, p \in Pools : ~(InCache(t) /\ InList(p))
      BY DEF IInv, Apart
    <2>3. \A t, u \in Threads : InCache(t) /\ InCache(u) => t = u
      BY DEF IInv, Apart
    <2>4. used[n] # NoPool => (\A p \in Pools : ~InList(p)) /\ (\A t \in Threads : ~InCache(t))
      BY DEF IInv, Apart
    <2>5. \A p \in Pools : \A i, j \in DOMAIN list[p] : list[p][i] = n /\ list[p][j] = n => i = j
      BY DEF IInv, Apart, IsInjective
    <2>6. \A t \in Threads : \A i, j \in DOMAIN cache[t] : cache[t][i] = n /\ cache[t][j] = n => i = j
      BY DEF IInv, Apart, IsInjective
    <2>7. /\ \A p \in Pools : \A i \in DOMAIN list[p] : list[p][i] = n => InList(p)
          /\ \A t \in Threads : \A i \in DOMAIN cache[t] : cache[t][i] = n => InCache(t)
      BY DEF Range
    <2> HIDE DEF InList, InCache
    <2>8. /\ \/ \E p \in Pools : \E i \in DOMAIN list[p] : list[p][i] = n /\ x = <<"list", p, i>>
             \/ \E t \in Threads : \E i \in DOMAIN cache[t] : cache[t][i] = n /\ x = <<"cache", t, i>>
             \/ used[n] # NoPool /\ x = <<"application", used[n]>>
          /\ \/ \E p \in Pools : \E i \in DOMAIN list[p] : list[p][i] = n /\ y = <<"list", p, i>>
             \/ \E t \in Threads : \E i \in DOMAIN cache[t] : cache[t][i] = n /\ y = <<"cache", t, i>>
             \/ used[n] # NoPool /\ y = <<"application", used[n]>>
      BY PlaceKinds
    <2>9. CASE \E p \in Pools : \E i \in DOMAIN list[p] : list[p][i] = n /\ x = <<"list", p, i>>
      <3>1. PICK p \in Pools : \E i \in DOMAIN list[p] : list[p][i] = n /\ x = <<"list", p, i>>
        BY <2>9
      <3>2. InList(p)
        BY <2>7, <3>1
      <3>3. \E i \in DOMAIN list[p] : list[p][i] = n /\ y = <<"list", p, i>>
        BY <2>1, <2>2, <2>4, <2>7, <2>8, <3>2
      <3> QED BY <2>5, <3>1, <3>3
    <2>10. CASE \E t \in Threads : \E i \in DOMAIN cache[t] : cache[t][i] = n /\ x = <<"cache", t, i>>
      <3>1. PICK t \in Threads : \E i \in DOMAIN cache[t] : cache[t][i] = n /\ x = <<"cache", t, i>>
        BY <2>10
      <3>2. InCache(t)
        BY <2>7, <3>1
      <3>3. \E i \in DOMAIN cache[t] : cache[t][i] = n /\ y = <<"cache", t, i>>
        BY <2>2, <2>3, <2>4, <2>7, <2>8, <3>2
      <3> QED BY <2>6, <3>1, <3>3
    <2>11. CASE used[n] # NoPool /\ x = <<"application", used[n]>>
      BY <2>4, <2>7, <2>8, <2>11
    <2> QED BY <2>8, <2>9, <2>10, <2>11
  <1>2. ASSUME NEW p \in Pools, NEW b \in storage[p], \A t \in Threads : thr[t].block # b, NEW n \in Range(b)
        PROVE  Places(n) # {} \/ n \in gone
    <2>1. b \in Blocks /\ n \in Nodes
      BY BlockFacts DEF IInv, Typed
    <2>2. Placed(n) \/ n \in gone
      BY <1>2 DEF IInv, Stored, Settled
    <2> QED BY <2>1, <2>2, PlacedSomewhere
  <1> QED BY <1>1, <1>2 DEF OnePlace

\* The invariant says that an object in use lies in a block that is lent.
LEMMA HeldBackedHolds == IInv => HeldBacked
  <1> SUFFICES ASSUME IInv, NEW n \in Nodes, used[n] # NoPool PROVE Lent(n)
    BY DEF HeldBacked, Lent
  <1>1. used[n] \in Pools /\ Live(used[n])
    BY DEF IInv, Typed, Lives
  <1> QED BY <1>1 DEF IInv, Backed, Placed

\* The instances keep the invariant.
LEMMA SpecIInv ==
    ASSUME OneAtATime
    PROVE  Spec => []IInv
  BY InitIInv, NextIInv, PTL DEF Spec

\* Acquire, Release, the flush of a full cache and GrowPool, in every interleaving (the two
\* halves of push_back included), never hand an object out twice, and lose none whose
\* instance lives, when instances follow one another.
THEOREM PoolOnePlace ==
    ASSUME OneAtATime
    PROVE  Spec => []OnePlace
  BY SpecIInv, OnePlaceHolds, PTL

\* No object that the application holds lies in a block a destructor has freed: the
\* constructor's reset of its thread's cache (lines 148-150) is enough when instances
\* follow one another and workers end before the destructor.
THEOREM PoolHeldBacked ==
    ASSUME OneAtATime
    PROVE  Spec => []HeldBacked
  BY SpecIInv, HeldBackedHolds, PTL
=============================================================================
