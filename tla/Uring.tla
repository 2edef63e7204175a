-------------------------------- MODULE Uring --------------------------------
(***************************************************************************)
(* The two queues of an io_uring as liburing and the kernel keep them, one  *)
(* operator per access.  liburing locks nothing: io_uring_get_sqe is a read *)
(* and a later store of the tail, an entry is filled in after it is taken,  *)
(* and io_uring_submit publishes every entry taken so far, whoever took it. *)
(* A slot keeps what was last written to it.  Slots of the submission queue *)
(* are counted from the first one the kernel has not consumed and wrap at   *)
(* twice its size, which tells a full queue from an empty one; of the       *)
(* completion queue only the entries not yet seen are kept.                 *)
(***************************************************************************)
EXTENDS Integers, Sequences, FiniteSets

CONSTANTS
    Tasks,      \* the tasks whose addresses are used as user_data
    None,       \* user_data 0
    Entries,    \* max_entries, the size of the submission queue
    CqEntries   \* the completion queue's: io_uring_queue_init makes it twice as
                \* large, less is what tasks that are not modelled leave of it

\* user_data is a task, or a task with kErrorFlag.
Failure(t) == <<t, "kErrorFlag">>

ASSUME UringAssumption ==
    /\ Entries \in Nat \ {0}
    /\ CqEntries \in Nat \ {0}
    /\ IsFiniteSet(Tasks)
    /\ Tasks \cap {None, "nop", "timeout"} = {}
    /\ \A t \in Tasks : Failure(t) \notin Tasks \cup {None}

\* What an entry asks for: nothing, the operation of a task, or a timeout that
\* expires at once.
Ops == {"nop", "timeout"} \cup Tasks
UserData == {None} \cup Tasks \cup {Failure(t) : t \in Tasks}
Requests == [op : Ops, ud : UserData]
Zeroed == [op |-> "nop", ud |-> None]

\* How many of each request the kernel is working on, when it has none.
NoRequests == [q \in Requests |-> 0]

\* A ring before io_uring_queue_init and after io_uring_queue_exit, and the one
\* the former maps.
Unmapped == [open |-> FALSE, sqe |-> [k \in 0..(Entries - 1) |-> Zeroed],
             tail |-> 0, cq |-> <<>>]
QueueInit == [Unmapped EXCEPT !.open = TRUE]

SqIndex(n) == n % (2 * Entries)

\* Entries up to the tail.  A tail that a racing store moved back before the
\* first entry looks like a full queue to the kernel.
Pending(r) == IF r.tail > Entries THEN Entries ELSE r.tail

\* io_uring_get_sqe finds no room / moves the tail past the slot it returns.
SqFull(r) == SqIndex(r.tail + 1) > Entries
TakeEntry(r, slot) == [r EXCEPT !.tail = SqIndex(slot + 1)]

\* io_uring_prep_* and the store of user_data, in the slot a caller holds.
Fill(r, slot, q) == [r EXCEPT !.sqe[slot % Entries] = q]
SetUserData(r, slot, ud) == [r EXCEPT !.sqe[slot % Entries].ud = ud]

\* io_uring_submit: the kernel takes every entry up to the tail.
Consumed(r) == [r EXCEPT !.tail = SqIndex(@ - Pending(r)),
                         !.sqe = [k \in DOMAIN @ |-> @[(k + Pending(r)) % Entries]]]
Given(r) == [q \in Requests |-> Cardinality({k \in 0..(Pending(r) - 1) : r.sqe[k] = q})]

\* The kernel posts a completion, in the slot of the entry seen last when that
\* one is the only slot left; io_uring_cqe_seen frees the oldest one's slot.
CqFull(r) == Len(r.cq) = CqEntries
Post(r, q) == [r EXCEPT !.cq = Append(@, q)]
Overwrites(r) == Len(r.cq) = CqEntries - 1
CqeSeen(r) == [r EXCEPT !.cq = Tail(@)]
==============================================================================
