------------------------------- MODULE FreeList -------------------------------
(***************************************************************************)
(* What the pools rely on in a TreiberStack (async_io_pool.hpp): a list of  *)
(* free nodes from which every thread takes and to which it gives back,     *)
(* each operation one indivisible step.  MutexStack, the TreiberStack of     *)
(* platforms without a double-word compare-and-swap, is this list as it      *)
(* stands: every operation is a critical section of its one mutex.           *)
(***************************************************************************)
EXTENDS Naturals, Sequences, Functions

CONSTANTS
    Nodes,     \* the PoolNodes
    Threads,
    Chains     \* the linked runs of nodes that are ever pushed

VARIABLES
    list,      \* the free nodes, top of the stack first
    held       \* the nodes each thread took and has not given back

vars == <<list, held>>

\* Every node starts with the thread that allocated the block it lies in.
Init ==
    /\ list = <<>>
    /\ held \in [Threads -> SUBSET Nodes]
    /\ UNION {held[t] : t \in Threads} = Nodes
    /\ \A t, u \in Threads : t # u => held[t] \cap held[u] = {}

\* Push(node) and PushChain(chain_head, chain_tail).
PushChain(t, c) ==
    /\ Range(c) \subseteq held[t]
    /\ list' = c \o list
    /\ held' = [held EXCEPT ![t] = @ \ Range(c)]

\* A Pop that returns a node; one that returns nullptr changes nothing.
Pop(t) ==
    /\ list # <<>>
    /\ list' = Tail(list)
    /\ held' = [held EXCEPT ![t] = @ \cup {Head(list)}]

Next == \E t \in Threads : Pop(t) \/ \E c \in Chains : PushChain(t, c)

Spec == Init /\ [][Next]_vars

\* No node is lost and none is handed out twice: every node is on the list, at
\* one position, or with one thread (what Acquire and Release of the pools need).
Conservation ==
    /\ IsInjective(list)
    /\ \A n \in Nodes :
          /\ n \in Range(list) \/ \E t \in Threads : n \in held[t]
          /\ \A t \in Threads : n \in held[t] =>
                /\ n \notin Range(list)
                /\ \A u \in Threads : n \in held[u] => u = t
=============================================================================
