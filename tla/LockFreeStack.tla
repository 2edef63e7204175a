---------------------------- MODULE LockFreeStack ----------------------------
(***************************************************************************)
(* talon::memory::detail::LockFreeStack (async_io_pool.hpp): a Treiber      *)
(* stack whose head is a (pointer, tag) pair changed by one double-word     *)
(* compare-and-swap.  One step per access to head_ or to a node's next.     *)
(*                                                                          *)
(* A node's memory is shared with the object the pool hands out: while a    *)
(* thread holds a node it may write any word over next, and a Pop that      *)
(* still has the node's address may read that word.                         *)
(***************************************************************************)
EXTENDS Naturals, Sequences, Functions

CONSTANTS
    Nodes,     \* the PoolNodes
    Threads,
    Chains,    \* the linked runs of nodes that are ever pushed
    Null,      \* nullptr
    Words,     \* what the first word of a node's memory can hold
    MaxTag     \* bound: tag values covered, at most 2^64 - 1, so tag + 1 never wraps

ASSUME ChainAssumption ==
    Chains \subseteq {c \in Seq(Nodes) : c # <<>> /\ IsInjective(c)}

ASSUME WordAssumption ==
    /\ Null \notin Nodes
    /\ Nodes \cup {Null} \subseteq Words
    /\ MaxTag \in Nat

VARIABLES
    list,      \* history: the free nodes, top first, as the links spell them out
    held,      \* the nodes each thread was given and has not pushed back
    head,      \* head_, a TaggedPointer
    next,      \* the next word of every node
    pc,        \* next step of each thread
    chain,     \* the nodes each thread is pushing, chain_head to chain_tail
    old,       \* local old_head
    nxt        \* local next of Pop

vars == <<list, held, head, next, pc, chain, old, nxt>>

FL == INSTANCE FreeList WITH Nodes <- Nodes, Threads <- Threads, Chains <- Chains,
                           list <- list, held <- held

TaggedPointer(ptrs) == [ptr : ptrs, tag : Nat]
Pointers == Nodes \cup {Null}

TypeOK ==
    /\ list \in Seq(Nodes)
    /\ held \in [Threads -> SUBSET Nodes]
    /\ head \in TaggedPointer(Pointers)
    /\ next \in [Nodes -> Words]
    /\ pc \in [Threads -> {"idle", "push_link", "push_cas", "pop_next", "pop_cas"}]
    /\ chain \in [Threads -> Chains \cup {<<>>}]
    /\ old \in [Threads -> TaggedPointer(Pointers)]
    /\ nxt \in [Threads -> Words]

Init ==
    /\ FL!Init
    /\ head = [ptr |-> Null, tag |-> 0]
    /\ next = [n \in Nodes |-> Null]
    /\ pc = [t \in Threads |-> "idle"]
    /\ chain = [t \in Threads |-> <<>>]
    /\ old = [t \in Threads |-> [ptr |-> Null, tag |-> 0]]
    /\ nxt = [t \in Threads |-> Null]

Go(t, label) == pc' = [pc EXCEPT ![t] = label]

-----------------------------------------------------------------------------

\* The holder of a node writes over it, as an object of type T.
Scribble(t, n, w) ==
    /\ n \in held[t] \ Range(chain[t])
    /\ next' = [next EXCEPT ![n] = w]
    /\ UNCHANGED <<list, held, head, pc, chain, old, nxt>>

\* The caller has linked the chain (FlushHalf, GrowPool, EnsureClassPopulated;
\* a Push is a chain of one); lines 49 and 72: load head_.
PushBegin(t, c) ==
    /\ pc[t] = "idle"
    /\ Range(c) \subseteq held[t]
    /\ next' = [n \in Nodes |->
                  IF \E i \in 1..Len(c) : c[i] = n
                  THEN LET i == CHOOSE j \in 1..Len(c) : c[j] = n
                       IN  IF i = Len(c) THEN Null ELSE c[i + 1]
                  ELSE next[n]]
    /\ chain' = [chain EXCEPT ![t] = c]
    /\ old' = [old EXCEPT ![t] = head]
    /\ Go(t, "push_link")
    /\ UNCHANGED <<list, held, head, nxt>>

\* Lines 52 and 75: the tail points at the head that was loaded.
PushLink(t) ==
    /\ pc[t] = "push_link"
    /\ next' = [next EXCEPT ![chain[t][Len(chain[t])]] = old[t].ptr]
    /\ Go(t, "push_cas")
    /\ UNCHANGED <<list, held, head, chain, old, nxt>>

\* Lines 54 and 77: the compare-and-swap succeeds.
PushSwap(t) ==
    /\ pc[t] = "push_cas"
    /\ head = old[t]
    /\ head.tag < MaxTag
    /\ head' = [ptr |-> Head(chain[t]), tag |-> old[t].tag + 1]
    /\ list' = chain[t] \o list
    /\ held' = [held EXCEPT ![t] = @ \ Range(chain[t])]
    /\ chain' = [chain EXCEPT ![t] = <<>>]
    /\ Go(t, "idle")
    /\ UNCHANGED <<next, old, nxt>>

\* Lines 54-55 and 77-78: it fails, because head_ changed or spuriously, and
\* old_head is reloaded.
PushRetry(t) ==
    /\ pc[t] = "push_cas"
    /\ old' = [old EXCEPT ![t] = head]
    /\ Go(t, "push_link")
    /\ UNCHANGED <<list, held, head, next, chain, nxt>>

\* Lines 59-61: load head_; an empty stack returns nullptr at once.
PopBegin(t) ==
    /\ pc[t] = "idle"
    /\ old' = [old EXCEPT ![t] = head]
    /\ Go(t, IF head.ptr = Null THEN "idle" ELSE "pop_next")
    /\ UNCHANGED <<list, held, head, next, chain, nxt>>

\* Line 62: read next of a node another thread may have popped meanwhile.
PopNext(t) ==
    /\ pc[t] = "pop_next"
    /\ nxt' = [nxt EXCEPT ![t] = next[old[t].ptr]]
    /\ Go(t, "pop_cas")
    /\ UNCHANGED <<list, held, head, next, chain, old>>

\* Mutants: the swap compares the pointer only; a weak failure is taken for success.
PopSwapPointer(t) ==
    /\ pc[t] = "pop_cas"
    /\ head.ptr = old[t].ptr
    /\ head.tag < MaxTag
    /\ head' = [ptr |-> nxt[t], tag |-> head.tag + 1]
    /\ list' = Tail(list)
    /\ held' = [held EXCEPT ![t] = @ \cup {old[t].ptr}]
    /\ Go(t, "idle")
    /\ UNCHANGED <<next, chain, old, nxt>>

PopSwapAnyway(t) ==
    /\ pc[t] = "pop_cas"
    /\ held' = [held EXCEPT ![t] = @ \cup {old[t].ptr}]
    /\ Go(t, "idle")
    /\ UNCHANGED <<list, head, next, chain, old, nxt>>

\* Lines 63-66: the compare-and-swap succeeds and the node is returned.
PopSwap(t) ==
    /\ pc[t] = "pop_cas"
    /\ head = old[t]
    /\ head.tag < MaxTag
    /\ head' = [ptr |-> nxt[t], tag |-> old[t].tag + 1]
    /\ list' = Tail(list)
    /\ held' = [held EXCEPT ![t] = @ \cup {old[t].ptr}]
    /\ Go(t, "idle")
    /\ UNCHANGED <<next, chain, old, nxt>>

\* Mutant: next is not read again after a failed swap.
PopRetryStale(t) ==
    /\ pc[t] = "pop_cas"
    /\ old' = [old EXCEPT ![t] = head]
    /\ Go(t, IF head.ptr = Null THEN "idle" ELSE "pop_cas")
    /\ UNCHANGED <<list, held, head, next, chain, nxt>>

\* Lines 64-68: it fails and the loop tests the reloaded old_head.
PopRetry(t) ==
    /\ pc[t] = "pop_cas"
    /\ old' = [old EXCEPT ![t] = head]
    /\ Go(t, IF head.ptr = Null THEN "idle" ELSE "pop_next")
    /\ UNCHANGED <<list, held, head, next, chain, nxt>>

Next ==
    \E t \in Threads :
        \/ \E n \in Nodes, w \in Words : Scribble(t, n, w)
        \/ \E c \in Chains : PushBegin(t, c)
        \/ PushLink(t) \/ PushSwap(t) \/ PushRetry(t)
        \/ PopBegin(t) \/ PopNext(t) \/ PopSwap(t) \/ PopRetry(t)

Spec == Init /\ [][Next]_vars

-----------------------------------------------------------------------------
(* Properties *)

\* The links in memory always spell the list out: head_ is its first node and
\* every next is the following node, the last one null.
Linked ==
    /\ head.ptr = IF list = <<>> THEN Null ELSE list[1]
    /\ \A i \in 1..Len(list) :
          next[list[i]] = IF i = Len(list) THEN Null ELSE list[i + 1]

\* "the tag is guaranteed different" (lines 29-30): when the compare-and-swap of
\* a Pop is about to succeed, the next it read, possibly from a node that was
\* popped, overwritten and pushed back meanwhile, is the node's next now.
AbaSafe ==
    \A t \in Threads :
        (pc[t] = "pop_cas" /\ old[t] = head) => nxt[t] = next[head.ptr]

\* No node is lost and none is handed out twice by concurrent Push, PushChain
\* and Pop: every node is on the list once or with one thread.
Conservation == FL!Conservation

\* The lock-free stack implements the indivisible free list.
RefinesFreeList == FL!Spec
=============================================================================
