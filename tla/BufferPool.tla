----------------------------- MODULE BufferPool ------------------------------
(***************************************************************************)
(* talon::memory::BufferPool (async_io_pool.hpp): per size class a free list *)
(* (a FreeList, as in ObjectPool), a cache in every thread and one slab that *)
(* the first thread to run out of buffers carves up.  The pool is a process- *)
(* wide singleton and is not destroyed while buffers are in use.             *)
(***************************************************************************)
EXTENDS Naturals, Sequences, Functions, ThreadCache

CONSTANTS
    Threads,
    ClassSizes,   \* kBufferPoolClassSizes
    Sizes,        \* the sizes the callers ask for
    NoSize,
    Slab,         \* the buffers of each class's slab
    System        \* the buffers AllocateFromSystem returns for each class

Classes == DOMAIN ClassSizes
Nodes == UNION {Range(Slab[c]) \cup System[c] : c \in Classes}

ASSUME BufferAssumption ==
    /\ ClassSizes \in Seq(Nat)
    /\ \A c, d \in Classes : c < d => ClassSizes[c] < ClassSizes[d]
    /\ Sizes \subseteq Nat /\ NoSize \notin Sizes
    /\ \A c \in Classes : /\ Slab[c] \in Seq(Nodes) /\ IsInjective(Slab[c])
                          /\ Range(Slab[c]) \cap System[c] = {}
    /\ \A c, d \in Classes : c # d =>
          (Range(Slab[c]) \cup System[c]) \cap (Range(Slab[d]) \cup System[d]) = {}

VARIABLES
    list,      \* free_lists_
    cache,     \* tls_cache_ of each thread, by class
    inited,    \* class_initialized_
    used,      \* the size each handed-out buffer was asked for with
    lent,      \* buffers taken from the system, in a slab or singly
    thr        \* what each thread is doing

vars == <<list, cache, inited, used, lent, thr>>

Idle == [pc |-> "idle", bytes |-> NoSize]

Init ==
    /\ list = [c \in Classes |-> <<>>]
    /\ cache = [t \in Threads |-> [c \in Classes |-> <<>>]]
    /\ inited = [c \in Classes |-> FALSE]
    /\ used = [n \in Nodes |-> NoSize]
    /\ lent = {}
    /\ thr = [t \in Threads |-> Idle]

\* Mutant: the class is found by rounding down.
ClassForSizeDown(bytes) ==
    IF \E c \in Classes : ClassSizes[c] <= bytes
    THEN CHOOSE c \in Classes : /\ ClassSizes[c] <= bytes
                                /\ \A d \in Classes : ClassSizes[d] <= bytes => d <= c
    ELSE 1

\* The smallest class that fits, or kNumClasses.
ClassForSize(bytes) ==
    IF \E c \in Classes : bytes <= ClassSizes[c]
    THEN CHOOSE c \in Classes : /\ bytes <= ClassSizes[c]
                                /\ \A d \in Classes : bytes <= ClassSizes[d] => c <= d
    ELSE Len(ClassSizes) + 1

Class(t) == ClassForSize(thr[t].bytes)
Go(t, label) == thr' = [thr EXCEPT ![t].pc = label]

-----------------------------------------------------------------------------
(* Allocate *)

\* Lines 284-287; a size beyond the largest class returns nullptr at once.
Allocate(t, bytes) ==
    /\ thr[t] = Idle
    /\ LET c == ClassForSize(bytes) IN
       /\ c \in Classes
       /\ \/ /\ cache[t][c] # <<>>
             /\ used' = [used EXCEPT ![Top(cache[t][c])] = bytes]
             /\ cache' = [cache EXCEPT ![t][c] = Rest(@)]
             /\ UNCHANGED thr
          \/ /\ cache[t][c] = <<>>
             /\ thr' = [thr EXCEPT ![t] = [pc |-> "pop", bytes |-> bytes]]
             /\ UNCHANGED <<cache, used>>
    /\ UNCHANGED <<list, inited, lent>>

\* Lines 288-289 and 291-292.
AllocatePop(t) ==
    /\ thr[t].pc \in {"pop", "repop"}
    /\ LET c == Class(t) IN
       \/ /\ list[c] # <<>>
          /\ used' = [used EXCEPT ![Head(list[c])] = thr[t].bytes]
          /\ list' = [list EXCEPT ![c] = Tail(@)]
          /\ thr' = [thr EXCEPT ![t] = Idle]
       \/ /\ list[c] = <<>>
          /\ Go(t, IF thr[t].pc = "pop" THEN "ensure" ELSE "system")
          /\ UNCHANGED <<list, used>>
    /\ UNCHANGED <<cache, inited, lent>>

\* Mutant: the flag is tested and not set.
EnsureClassPopulatedTests(t) ==
    /\ thr[t].pc = "ensure"
    /\ Go(t, IF inited[Class(t)] THEN "repop" ELSE "carve")
    /\ UNCHANGED <<list, cache, inited, used, lent>>

\* Lines 320-322: one thread wins the right to carve the slab.
EnsureClassPopulated(t) ==
    /\ thr[t].pc = "ensure"
    /\ Go(t, IF inited[Class(t)] THEN "repop" ELSE "carve")
    /\ inited' = [inited EXCEPT ![Class(t)] = TRUE]
    /\ UNCHANGED <<list, cache, used, lent>>

\* Lines 323-338: the slab's buffers are pushed as one chain, or there is no slab.
CarveSlab(t) ==
    /\ thr[t].pc = "carve"
    /\ \/ /\ list' = [list EXCEPT ![Class(t)] = Slab[Class(t)] \o @]
          /\ lent' = lent \cup Range(Slab[Class(t)])
       \/ UNCHANGED <<list, lent>>
    /\ Go(t, "repop")
    /\ UNCHANGED <<cache, inited, used>>

\* Lines 292 and 341: a buffer of its own, or nullptr.
AllocateFromSystem(t) ==
    /\ thr[t].pc = "system"
    /\ \/ \E n \in System[Class(t)] \ lent :
             /\ used' = [used EXCEPT ![n] = thr[t].bytes]
             /\ lent' = lent \cup {n}
       \/ UNCHANGED <<used, lent>>
    /\ thr' = [thr EXCEPT ![t] = Idle]
    /\ UNCHANGED <<list, cache, inited>>

-----------------------------------------------------------------------------
(* Deallocate *)

\* Lines 296-308, on any thread, with the size the buffer was asked for with.
Deallocate(t, n) ==
    /\ thr[t] = Idle
    /\ used[n] # NoSize
    /\ used' = [used EXCEPT ![n] = NoSize]
    /\ LET c == ClassForSize(used[n]) IN
       IF ~Full(cache[t][c])
       THEN cache' = [cache EXCEPT ![t][c] = Append(@, n)] /\ UNCHANGED list
       ELSE /\ list' = [list EXCEPT ![c] = Flushed(cache[t][c]) \o @]
            /\ cache' = [cache EXCEPT ![t][c] = Append(Kept(@), n)]
    /\ UNCHANGED <<inited, lent, thr>>

Next ==
    \E t \in Threads :
        \/ \E bytes \in Sizes : Allocate(t, bytes)
        \/ AllocatePop(t) \/ EnsureClassPopulated(t) \/ CarveSlab(t)
        \/ AllocateFromSystem(t)
        \/ \E n \in Nodes : Deallocate(t, n)

Spec == Init /\ [][Next]_vars

-----------------------------------------------------------------------------
(* Properties *)

\* Everywhere buffer n is: positions in free lists and in the caches' arrays, and the
\* caller.
InLists(n) == UNION {{<<"list", c, i>> : i \in At(list[c], n)} : c \in Classes}
InCaches(n) == UNION {{<<"cache", t, c, i>> : i \in At(cache[t][c], n) \cap (1..CacheSize)} :
                         t \in Threads, c \in Classes}
WithCaller(n) == {<<"caller", bytes>> : bytes \in {used[n]} \ {NoSize}}
Places(n) == InLists(n) \cup InCaches(n) \cup WithCaller(n)

\* No buffer is handed out twice, although several threads may find a class empty
\* and populate it at the same time (EnsureClassPopulated), and none is lost: once it
\* exists it is with a caller, in a cache or in a free list, in one place (a full
\* cache's FlushHalf and second Push, lines 300-308).
OnePlace ==
    /\ \A n \in Nodes : \A x, y \in Places(n) : x = y
    /\ \A n \in lent : Places(n) # {}

\* A buffer really has the size it is handed out for, and goes back to the class
\* whose size it has (ClassForSize in Allocate against the one in Deallocate).
SizeHonest ==
    \A c \in Classes : \A n \in Range(Slab[c]) \cup System[c] :
        /\ used[n] # NoSize => used[n] <= ClassSizes[c]
        /\ \A d \in Classes : n \in Range(list[d]) => d = c
        /\ \A t \in Threads, d \in Classes : n \in Range(cache[t][d]) => d = c
=============================================================================
