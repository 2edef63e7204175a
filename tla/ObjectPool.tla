----------------------------- MODULE ObjectPool ------------------------------
(***************************************************************************)
(* talon::memory::ObjectPool<T> (async_io_pool.hpp) for one T: instances     *)
(* with their free list and storage blocks, and the thread caches, which are *)
(* static members and so shared by every instance.                           *)
(*                                                                          *)
(* free_list_ is the FreeList that LockFreeStack is shown to implement: each *)
(* of its operations is one step.  A thread's accesses to its own cache and  *)
(* to nodes nobody else can reach are part of the step before or after.      *)
(***************************************************************************)
EXTENDS Naturals, Sequences, FiniteSets, Functions, ThreadCache

CONSTANTS
    Threads,
    Pools,       \* the ObjectPool<T> instances
    NoPool,
    Blocks,      \* the memory aligned_alloc hands out, cut into slots
    Capacity,    \* capacity_
    GrowBatch,   \* grow_batch_
    MaxAlive,    \* bound: instances that exist at the same time
    Exits        \* worker threads: they construct no instance, may end, and are joined
                 \* before an instance is destroyed

Nodes == UNION {Range(b) : b \in Blocks}
NoBlock == <<>>

ASSUME PoolAssumption ==
    /\ NoPool \notin Pools
    /\ \A b \in Blocks : b \in Seq(Nodes) /\ b # <<>> /\ IsInjective(b)
    /\ \A b, d \in Blocks : b # d => Range(b) \cap Range(d) = {}
    /\ Capacity \in Nat /\ GrowBatch \in Nat /\ MaxAlive \in Nat
    /\ Exits \subseteq Threads

VARIABLES
    phase,      \* of each instance's life
    list,       \* free_list_ of each instance
    storage,    \* storage_blocks_ of each instance
    cache,      \* tls_cache_ of each thread
    used,       \* the instance each handed-out object was acquired from
    lent,       \* blocks the system has given and not got back
    gone,       \* history: nodes that were cached by a thread that ended
    thr         \* what each thread is doing

vars == <<phase, list, storage, cache, used, lent, gone, thr>>

Idle == [pc |-> "idle", pool |-> NoPool, block |-> NoBlock, seen |-> {}]

Init ==
    /\ phase = [p \in Pools |-> "unborn"]
    /\ list = [p \in Pools |-> <<>>]
    /\ storage = [p \in Pools |-> {}]
    /\ cache = [t \in Threads |-> <<>>]
    /\ used = [n \in Nodes |-> NoPool]
    /\ lent = {}
    /\ gone = {}
    /\ thr = [t \in Threads |-> Idle]

Go(t, label) == thr' = [thr EXCEPT ![t].pc = label]

-----------------------------------------------------------------------------
(* Constructor and GrowPool *)

\* Mutant: the cache is not reset.
ConstructKeepsCache(t, p) ==
    /\ thr[t] = Idle
    /\ t \notin Exits
    /\ phase[p] = "unborn"
    /\ Cardinality({q \in Pools : phase[q] \in {"building", "alive"}}) < MaxAlive
    /\ phase' = [phase EXCEPT ![p] = "building"]
    /\ thr' = [thr EXCEPT ![t] = [Idle EXCEPT !.pc = "alloc", !.pool = p]]
    /\ UNCHANGED <<list, storage, cache, used, lent, gone>>

\* Lines 147-151: the constructor up to its call of GrowPool.
Construct(t, p) ==
    /\ thr[t] = Idle
    /\ t \notin Exits
    /\ phase[p] = "unborn"
    /\ Cardinality({q \in Pools : phase[q] \in {"building", "alive"}}) < MaxAlive
    /\ phase' = [phase EXCEPT ![p] = "building"]
    /\ cache' = [cache EXCEPT ![t] = <<>>]
    /\ thr' = [thr EXCEPT ![t] = [Idle EXCEPT !.pc = "alloc", !.pool = p]]
    /\ UNCHANGED <<list, storage, used, lent, gone>>

\* GrowPool returns, to the constructor or to Acquire.
Grown(t) ==
    IF phase[thr[t].pool] = "building"
    THEN /\ phase' = [phase EXCEPT ![thr[t].pool] = "alive"]
         /\ thr' = [thr EXCEPT ![t] = Idle]
    ELSE /\ thr' = [thr EXCEPT ![t] = [Idle EXCEPT !.pc = "repop", !.pool = thr[t].pool]]
         /\ UNCHANGED phase

\* Lines 240-241.
GrowAlloc(t) ==
    /\ thr[t].pc = "alloc"
    /\ \/ \E b \in Blocks \ lent :
             /\ Len(b) = IF phase[thr[t].pool] = "building" THEN Capacity ELSE GrowBatch
             /\ lent' = lent \cup {b}
             /\ thr' = [thr EXCEPT ![t].pc = "read", ![t].block = b]
             /\ UNCHANGED phase
       \/ Grown(t) /\ UNCHANGED lent
    /\ UNCHANGED <<list, storage, cache, used, gone>>

\* Line 242: push_back reads where the vector ends, and writes; nothing keeps
\* two threads from doing so at once.
GrowRead(t) ==
    /\ thr[t].pc = "read"
    /\ thr' = [thr EXCEPT ![t].pc = "write", ![t].seen = storage[thr[t].pool]]
    /\ UNCHANGED <<phase, list, storage, cache, used, lent, gone>>

GrowWrite(t) ==
    /\ thr[t].pc = "write"
    /\ storage' = [storage EXCEPT ![thr[t].pool] = thr[t].seen \cup {thr[t].block}]
    /\ Go(t, "link")
    /\ UNCHANGED <<phase, list, cache, used, lent, gone>>

\* Lines 244-256: the slots are linked and pushed as one chain.
GrowLink(t) ==
    /\ thr[t].pc = "link"
    /\ list' = [list EXCEPT ![thr[t].pool] = thr[t].block \o @]
    /\ Grown(t)
    /\ UNCHANGED <<storage, cache, used, lent, gone>>

-----------------------------------------------------------------------------
(* Acquire *)

\* Lines 159-160.
Acquire(t, p) ==
    /\ thr[t] = Idle
    /\ phase[p] = "alive"
    /\ \/ /\ cache[t] # <<>>
          /\ used' = [used EXCEPT ![Top(cache[t])] = p]
          /\ cache' = [cache EXCEPT ![t] = Rest(@)]
          /\ UNCHANGED thr
       \/ /\ cache[t] = <<>>
          /\ thr' = [thr EXCEPT ![t] = [Idle EXCEPT !.pc = "pop", !.pool = p]]
          /\ UNCHANGED <<cache, used>>
    /\ UNCHANGED <<phase, list, storage, lent, gone>>

\* Lines 161-162 and 164-165.
AcquirePop(t) ==
    /\ thr[t].pc \in {"pop", "repop"}
    /\ LET p == thr[t].pool IN
       \/ /\ list[p] # <<>>
          /\ used' = [used EXCEPT ![Head(list[p])] = p]
          /\ list' = [list EXCEPT ![p] = Tail(@)]
          /\ thr' = [thr EXCEPT ![t] = Idle]
       \/ /\ list[p] = <<>>
          /\ Go(t, IF thr[t].pc = "pop" THEN "alloc" ELSE "last")
          /\ UNCHANGED <<list, used>>
    /\ UNCHANGED <<phase, storage, cache, lent, gone>>

\* Lines 168-173: one slot of its own, which no destructor frees, or nullptr.
AcquireLast(t) ==
    /\ thr[t].pc = "last"
    /\ \/ \E b \in Blocks \ lent :
             /\ Len(b) = 1
             /\ lent' = lent \cup {b}
             /\ used' = [used EXCEPT ![b[1]] = thr[t].pool]
       \/ UNCHANGED <<lent, used>>
    /\ thr' = [thr EXCEPT ![t] = Idle]
    /\ UNCHANGED <<phase, list, storage, cache, gone>>

-----------------------------------------------------------------------------
(* Release, destructor, thread exit *)

\* Mutant: the node that did not fit is forgotten after the flush.
ReleaseForgets(t, n) ==
    /\ thr[t] = Idle
    /\ used[n] # NoPool
    /\ used' = [used EXCEPT ![n] = NoPool]
    /\ IF ~Full(cache[t])
       THEN cache' = [cache EXCEPT ![t] = Append(@, n)] /\ UNCHANGED list
       ELSE /\ list' = [list EXCEPT ![used[n]] = Flushed(cache[t]) \o @]
            /\ cache' = [cache EXCEPT ![t] = Kept(@)]
    /\ UNCHANGED <<phase, storage, lent, thr, gone>>

\* Release and ReleaseMemory, on any thread; a full cache gives half of its nodes
\* to the free list first.
Release(t, n) ==
    /\ thr[t] = Idle
    /\ used[n] # NoPool
    /\ used' = [used EXCEPT ![n] = NoPool]
    /\ IF ~Full(cache[t])
       THEN cache' = [cache EXCEPT ![t] = Append(@, n)] /\ UNCHANGED list
       ELSE /\ list' = [list EXCEPT ![used[n]] = Flushed(cache[t]) \o @]
            /\ cache' = [cache EXCEPT ![t] = Append(Kept(@), n)]
    /\ UNCHANGED <<phase, storage, lent, thr, gone>>

\* Line 154, once the application has released every object, no thread is in a call,
\* and the threads of Exits have ended.
Destroy(p) ==
    /\ phase[p] = "alive"
    /\ \A t \in Threads : thr[t].pool # p
    /\ \A n \in Nodes : used[n] # p
    /\ \A t \in Exits : cache[t] = <<>>
    /\ phase' = [phase EXCEPT ![p] = "dead"]
    /\ lent' = lent \ storage[p]
    /\ storage' = [storage EXCEPT ![p] = {}]
    /\ list' = [list EXCEPT ![p] = <<>>]
    /\ UNCHANGED <<cache, used, thr, gone>>

\* A thread ends, its tls_cache_ with it; a later thread starts with an empty one.
ThreadExit(t) ==
    /\ t \in Exits
    /\ thr[t] = Idle
    /\ gone' = gone \cup Range(cache[t])
    /\ cache' = [cache EXCEPT ![t] = <<>>]
    /\ UNCHANGED <<phase, list, storage, used, lent, thr>>

Next ==
    \/ \E t \in Threads :
          \/ \E p \in Pools : Construct(t, p) \/ Acquire(t, p)
          \/ GrowAlloc(t) \/ GrowRead(t) \/ GrowWrite(t) \/ GrowLink(t)
          \/ AcquirePop(t) \/ AcquireLast(t)
          \/ \E n \in Nodes : Release(t, n)
          \/ ThreadExit(t)
    \/ \E p \in Pools : Destroy(p)

Spec == Init /\ [][Next]_vars

-----------------------------------------------------------------------------
(* Properties *)

\* Everywhere node n is: positions in free lists and in the caches' arrays, and the
\* application.
InLists(n) == UNION {{<<"list", p, i>> : i \in At(list[p], n)} : p \in Pools}
InCaches(n) == UNION {{<<"cache", t, i>> : i \in At(cache[t], n) \cap (1..CacheSize)} :
                         t \in Threads}
WithApplication(n) == {<<"application", p>> : p \in {used[n]} \ {NoPool}}
Places(n) == InLists(n) \cup InCaches(n) \cup WithApplication(n)

\* No object is handed out twice: a slot is in one free list or one cache, once, or
\* with the application, whichever threads acquired, released and flushed it.  And
\* none is lost while its instance lives: a slot of a block in storage_blocks_ is in
\* one of these places once GrowPool has linked it, except for those cached by a
\* thread that ended (ThreadCache has no destructor).
OnePlace ==
    /\ \A n \in Nodes : \A x, y \in Places(n) : x = y
    /\ \A p \in Pools : phase[p] = "alive" =>
          \A b \in storage[p] : (\A t \in Threads : thr[t].block # b) =>
              \A n \in Range(b) : Places(n) # {} \/ n \in gone

\* Every object the application holds lies in memory the pool has not freed
\* (Acquire against the destructors of earlier instances, lines 148-150 and 154).
HeldBacked ==
    \A n \in Nodes : used[n] # NoPool => \E b \in lent : n \in Range(b)
=============================================================================
