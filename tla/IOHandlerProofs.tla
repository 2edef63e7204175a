--------------------------- MODULE IOHandlerProofs ---------------------------
(***************************************************************************)
(* The types of IOHandler for every set of tasks and threads, every mix of  *)
(* options and results, and every size of the queues.                       *)
(*                                                                          *)
(* TypeOK is not inductive: a step dereferences the task its thread works   *)
(* on, so the invariant also says that a thread inside AddTask or a handler *)
(* has one (Proper), through every nesting of calls.                        *)
(***************************************************************************)
EXTENDS IOHandler, FiniteSetTheorems, TLAPS

\* Labels at which a thread works on no task.
Passive == {"idle", "s_wake", "test", "wait", "exited", "settle"}

\* A thread p in state r has the task, and the loop the task of its completion,
\* that its label and the labels it will return to dereference.
Proper(p, r) ==
    /\ r \in ThreadRecord
    /\ r.pc \notin Passive => r.t \in Tasks /\ (p = Loop => r.tp \in Tasks)
    /\ \A i \in 1..Len(r.todo) : r.todo[i] \notin {"idle", "s_wake"}
    /\ r.pc \in {"idle", "s_wake"} => r.todo = <<>>

ThreadsProper == \A p \in Procs : Proper(p, thr[p])

IInv == TypeOK /\ ThreadsProper

QueuesOK ==
    /\ sq \in Seq(Entries) /\ Len(sq) <= SqEntries
    /\ ring \in [Tasks -> [Kinds -> Nat]]
    /\ wake \in BOOLEAN

ThreadsOK == thr \in [Procs -> ThreadRecord] /\ ThreadsProper

-----------------------------------------------------------------------------
(* Threads *)

\* A thread that moves to a proper state leaves the others as they are.
LEMMA MoveOK ==
    ASSUME IInv, NEW p \in Procs, NEW r, Proper(p, r), thr' = [thr EXCEPT ![p] = r]
    PROVE  ThreadsOK'
  BY DEF IInv, TypeOK, ThreadsOK, ThreadsProper, Proper

\* A thread at rest is proper.
LEMMA RestProper ==
    ASSUME NEW p \in Procs, NEW label \in Passive
    PROVE  Proper(p, Rest(label))
  <1>1. <<>> \in Seq(Pc) /\ Len(<<>>) = 0
    OBVIOUS
  <1>2. Rest(label) \in ThreadRecord
    BY <1>1 DEF Rest, ThreadRecord, Passive, Pc, Resting, TaskState
  <1> QED BY <1>1, <1>2 DEF Proper, Rest

\* Jumping to a label is proper if the thread has what the label needs.
LEMMA GoOK ==
    ASSUME IInv, NEW p \in Procs, NEW label \in Pc, Go(p, label),
           label \notin Passive => thr[p].pc \notin Passive,
           label \in {"idle", "s_wake"} => thr[p].todo = <<>>
    PROVE  ThreadsOK'
  <1> DEFINE r == [thr[p] EXCEPT !.pc = label]
  <1>1. thr' = [thr EXCEPT ![p] = r]
    BY DEF Go, IInv, TypeOK
  <1>2. Proper(p, thr[p])
    BY DEF IInv, ThreadsProper
  <1>3. r \in ThreadRecord
    BY <1>2 DEF Proper, ThreadRecord
  <1>4. Proper(p, r)
    BY <1>2, <1>3 DEF Proper, ThreadRecord
  <1> QED BY <1>1, <1>4, MoveOK, Zenon

\* A function that was called while its thread worked on a task, or with nothing
\* to return to, returns to a proper state.
LEMMA ReturnOK ==
    ASSUME IInv, NEW p \in Procs, NEW ok \in BOOLEAN, Return(p, ok),
           thr[p].pc \notin Passive \/ thr[p].todo = <<>>
    PROVE  ThreadsOK'
  <1>1. Proper(p, thr[p])
    BY DEF IInv, ThreadsProper
  <1>2. CASE thr[p].todo = <<>>
    <2>1. thr' = [thr EXCEPT ![p] = Rest("idle")]
      BY <1>2 DEF Return, IInv, TypeOK
    <2> QED BY <2>1, RestProper, MoveOK, Zenon DEF Passive
  <1>3. CASE thr[p].todo # <<>>
    <2> DEFINE todo == thr[p].todo
               r == [thr[p] EXCEPT !.pc = Head(todo), !.todo = Tail(todo), !.ok = ok]
    <2>1. thr' = [thr EXCEPT ![p] = r]
      BY <1>3 DEF Return
    <2>2. todo \in Seq(Pc)
      BY <1>1 DEF Proper, ThreadRecord
    <2>3. /\ Head(todo) = todo[1] /\ Head(todo) \in Pc /\ Tail(todo) \in Seq(Pc)
          /\ Len(Tail(todo)) = Len(todo) - 1
          /\ \A i \in 1..Len(Tail(todo)) : Tail(todo)[i] = todo[i + 1]
      BY <1>3, <2>2
    <2>4. Len(todo) \in Nat /\ Len(todo) >= 1
      BY <1>3, <2>2
    <2>5. \A i \in 1..Len(todo) : todo[i] \notin {"idle", "s_wake"}
      BY <1>1 DEF Proper
    <2>6. Head(todo) \notin {"idle", "s_wake"}
      BY <2>3, <2>4, <2>5
    <2>7. \A i \in 1..Len(Tail(todo)) : Tail(todo)[i] \notin {"idle", "s_wake"}
      BY <2>3, <2>4, <2>5
    <2>8. thr[p].t \in Tasks /\ (p = Loop => thr[p].tp \in Tasks)
      BY <1>1, <1>3 DEF Proper
    <2>9. r \in ThreadRecord /\ r.pc = Head(todo) /\ r.todo = Tail(todo)
          /\ r.t = thr[p].t /\ r.tp = thr[p].tp
      BY <1>1, <2>3, Zenon DEF Proper, ThreadRecord
    <2> HIDE DEF r, todo
    <2>10. Proper(p, r)
      BY <2>6, <2>7, <2>8, <2>9 DEF Proper
    <2> QED BY <2>1, <2>10, MoveOK, Zenon
  <1> QED BY <1>2, <1>3

\* Two sequences put together.
LEMMA Joined ==
    ASSUME NEW S, NEW a \in Seq(S), NEW b \in Seq(S)
    PROVE  /\ a \o b \in Seq(S) /\ Len(a \o b) = Len(a) + Len(b)
           /\ \A i \in 1..(Len(a) + Len(b)) :
                 (a \o b)[i] = IF i <= Len(a) THEN a[i] ELSE b[i - Len(a)]
  <1>1. a \o b \in Seq(S)
    OBVIOUS
  <1>2. Len(a \o b) = Len(a) + Len(b)
    OBVIOUS
  <1>3. ASSUME NEW i \in 1..(Len(a) + Len(b))
        PROVE  (a \o b)[i] = IF i <= Len(a) THEN a[i] ELSE b[i - Len(a)]
    OBVIOUS
  <1> QED BY <1>1, <1>2, <1>3

\* A call leaves labels for its return, none of which is that of a resting thread.
LEMMA ConcatTodo ==
    ASSUME NEW a \in Seq(Pc), NEW b \in Seq(Pc),
           \A i \in 1..Len(a) : a[i] \notin {"idle", "s_wake"},
           \A i \in 1..Len(b) : b[i] \notin {"idle", "s_wake"}
    PROVE  /\ a \o b \in Seq(Pc)
           /\ \A i \in 1..Len(a \o b) : (a \o b)[i] \notin {"idle", "s_wake"}
  <1>1. Len(a) \in Nat /\ Len(b) \in Nat
    OBVIOUS
  <1>2. /\ a \o b \in Seq(Pc) /\ Len(a \o b) = Len(a) + Len(b)
        /\ \A i \in 1..(Len(a) + Len(b)) :
              (a \o b)[i] = IF i <= Len(a) THEN a[i] ELSE b[i - Len(a)]
    BY Joined
  <1>3. ASSUME NEW i \in 1..(Len(a) + Len(b)) PROVE (a \o b)[i] \notin {"idle", "s_wake"}
    <2>1. CASE i <= Len(a)
      <3>1. i \in 1..Len(a) /\ (a \o b)[i] = a[i]
        BY <1>1, <1>2, <2>1
      <3> QED BY <3>1
    <2>2. CASE i > Len(a)
      <3>1. i - Len(a) \in 1..Len(b) /\ (a \o b)[i] = b[i - Len(a)]
        BY <1>1, <1>2, <2>2
      <3> QED BY <3>1
    <2> QED BY <1>1, <2>1, <2>2
  <1> QED BY <1>2, <1>3

\* The lists of labels that calls leave.
LEMMA Todos ==
    ASSUME NEW l \in {"flush", "reap", "spin", "next", "finish", "settle"}
    PROVE  /\ <<l>> \in Seq(Pc)
           /\ \A i \in 1..Len(<<l>>) : <<l>>[i] \notin {"idle", "s_wake"}
  <1>1. l \in Pc
    BY DEF Pc, AddPc, Resting
  <1> QED BY <1>1

\* A call on a thread that works on a task leaves it proper.
LEMMA CallOK ==
    ASSUME IInv, NEW p \in Procs, thr[p].pc \notin Passive,
           NEW label \in Pc \ Passive, NEW l \in {"flush", "reap", "spin", "next", "finish", "settle"},
           NEW fin \in TaskState,
           thr' = [thr EXCEPT ![p] = [thr[p] EXCEPT !.pc = label, !.todo = <<l>> \o thr[p].todo,
                                                    !.fin = fin]]
    PROVE  ThreadsOK'
  <1> DEFINE todo == <<l>> \o thr[p].todo
             r == [thr[p] EXCEPT !.pc = label, !.todo = todo, !.fin = fin]
  <1>1. Proper(p, thr[p])
    BY DEF IInv, ThreadsProper
  <1>2. thr[p].todo \in Seq(Pc) /\ \A i \in 1..Len(thr[p].todo) : thr[p].todo[i] \notin {"idle", "s_wake"}
    BY <1>1 DEF Proper, ThreadRecord
  <1>3. todo \in Seq(Pc) /\ \A i \in 1..Len(todo) : todo[i] \notin {"idle", "s_wake"}
    BY <1>2, Todos, ConcatTodo, Zenon
  <1> HIDE DEF todo
  <1>4. /\ r \in ThreadRecord /\ r.pc = label /\ r.todo = todo
        /\ r.t = thr[p].t /\ r.tp = thr[p].tp
    BY <1>1, <1>3, Zenon DEF Proper, ThreadRecord
  <1>5. thr' = [thr EXCEPT ![p] = r]
    BY DEF todo
  <1> HIDE DEF r
  <1>6. Proper(p, r)
    BY <1>1, <1>3, <1>4 DEF Proper, Passive
  <1> QED BY <1>5, <1>6, MoveOK, Zenon

\* The loop that turns to the task of a completion is proper.
LEMMA HandleOK ==
    ASSUME IInv, NEW t \in Tasks, NEW label \in Pc \ Passive, NEW fin \in TaskState,
           NEW first \in {<<>>, <<"reap">>, <<"spin">>, <<"next">>, <<"next", "finish">>},
           Handle(t, label, first, fin)
    PROVE  ThreadsOK'
  <1> DEFINE todo == first \o <<"settle">>
             r == [thr[Loop] EXCEPT !.pc = label, !.t = t, !.tp = t, !.todo = todo, !.fin = fin]
  <1>1. Loop \in Procs /\ Proper(Loop, thr[Loop])
    BY DEF IInv, ThreadsProper, Procs
  <1>2. first \in Seq(Pc) /\ \A i \in 1..Len(first) : first[i] \notin {"idle", "s_wake"}
    <2>1. CASE first = <<>>
      BY <2>1
    <2>2. CASE first \in {<<"reap">>, <<"spin">>, <<"next">>}
      BY <2>2, Todos, Zenon
    <2>3. CASE first = <<"next", "finish">>
      <3>1. "next" \in Pc /\ "finish" \in Pc
        BY DEF Pc
      <3> QED BY <2>3, <3>1
    <2> QED BY <2>1, <2>2, <2>3
  <1>3. todo \in Seq(Pc) /\ \A i \in 1..Len(todo) : todo[i] \notin {"idle", "s_wake"}
    BY <1>2, Todos, ConcatTodo
  <1>4. thr' = [thr EXCEPT ![Loop] = r]
    BY Zenon DEF Handle, IInv, TypeOK
  <1> HIDE DEF todo
  <1>5. r \in ThreadRecord /\ r.pc = label /\ r.todo = todo /\ r.t = t /\ r.tp = t
    BY <1>1, <1>3, Zenon DEF Proper, ThreadRecord
  <1> HIDE DEF r
  <1>6. Proper(Loop, r)
    BY <1>3, <1>5 DEF Proper, Passive
  <1> QED BY <1>1, <1>4, <1>6, MoveOK, Zenon

-----------------------------------------------------------------------------
(* Queues and tasks *)

\* A thread with an active label has a task, with the fields of one.
LEMMA TaskAt ==
    ASSUME IInv, NEW p \in Procs, thr[p].pc \notin Passive
    PROVE  /\ thr[p].t \in Tasks /\ task[thr[p].t] \in TaskRecord
           /\ p = Loop => thr[p].tp \in Tasks /\ task[thr[p].tp] \in TaskRecord
  BY DEF IInv, TypeOK, ThreadsProper, Proper

\* Counting the entries for a task gives a number.
LEMMA CountNat == ASSUME NEW q \in Seq(Entries), NEW t, NEW k PROVE Count(q, t, k) \in Nat
  <1>1. Len(q) \in Nat /\ DOMAIN q = 1..Len(q)
    OBVIOUS
  <1>2. IsFiniteSet(1..Len(q))
    BY <1>1, FS_Interval
  <1>3. IsFiniteSet({i \in DOMAIN q : q[i] = Entry(t, k)})
    BY <1>1, <1>2, FS_Subset
  <1> QED BY <1>3, FS_CardinalityType DEF Count

\* io_uring_submit keeps the queues' types.
LEMMA SubmitOK ==
    ASSUME IInv, NEW q \in Seq(Entries), Len(q) <= SqEntries, Submit(q)
    PROVE  QueuesOK'
  <1>1. CASE UNCHANGED <<ring, wake>> /\ sq' = q
    BY <1>1 DEF IInv, TypeOK, QueuesOK
  <1>2. CASE /\ ring' = [t \in Tasks |-> [k \in Kinds |-> ring[t][k] + Count(q, t, k)]]
             /\ wake' = (wake \/ \E i \in DOMAIN q : q[i] = Nop)
             /\ sq' = <<>>
    <2>1. \A t \in Tasks, k \in Kinds : Count(q, t, k) \in Nat /\ ring[t][k] \in Nat
      BY CountNat DEF IInv, TypeOK
    <2>2. ring' \in [Tasks -> [Kinds -> Nat]]
      BY <1>2, <2>1
    <2>3. wake' \in BOOLEAN
      BY <1>2
    <2>4. sq' \in Seq(Entries) /\ Len(sq') <= SqEntries
      BY <1>2, HandlerAssumption
    <2> QED BY <2>2, <2>3, <2>4 DEF QueuesOK
  <1> QED BY <1>1, <1>2 DEF Submit

\* An entry taken from io_uring_get_sqe fits in the queue.
LEMMA RoomOK ==
    ASSUME IInv, Room(1), NEW e \in Entries
    PROVE  Append(sq, e) \in Seq(Entries) /\ Len(Append(sq, e)) <= SqEntries
  <1>1. sq \in Seq(Entries) /\ Len(sq) \in Nat
    BY DEF IInv, TypeOK
  <1>2. Append(sq, e) \in Seq(Entries) /\ Len(Append(sq, e)) = Len(sq) + 1
    BY <1>1
  <1> QED BY <1>2 DEF Room

\* The entries the handler prepares.
LEMMA EntryOK ==
    /\ \A t \in Tasks, k \in Kinds : Entry(t, k) \in Entries
    /\ Nop \in Entries
  BY DEF Entry, Nop, Entries

\* A step that writes one task's fields keeps the tasks' types.
LEMMA PutOK ==
    ASSUME IInv, NEW t \in Tasks, NEW x \in TaskRecord, task' = [task EXCEPT ![t] = x]
    PROVE  task' \in [Tasks -> TaskRecord]
  BY DEF IInv, TypeOK

\* IInv by parts.
LEMMA IInvParts ==
    ASSUME task' \in [Tasks -> TaskRecord], inflight' \in Int, shutdown' \in BOOLEAN,
           QueuesOK', ThreadsOK'
    PROVE  IInv'
  BY DEF IInv, TypeOK, QueuesOK, ThreadsOK

\* What a step leaves alone keeps its type.
LEMMA Kept ==
    ASSUME IInv
    PROVE  /\ task' = task => task' \in [Tasks -> TaskRecord]
           /\ inflight' = inflight => inflight' \in Int
           /\ shutdown' = shutdown => shutdown' \in BOOLEAN
           /\ UNCHANGED Queues => QueuesOK'
           /\ thr' = thr => ThreadsOK'
  BY DEF IInv, TypeOK, QueuesOK, Queues, ThreadsOK, ThreadsProper

-----------------------------------------------------------------------------
(* One lemma per group of actions *)

\* The steps of AddTask keep the invariant.
LEMMA AddStepIInv ==
    ASSUME IInv, NEW p \in Procs, AddStep(p)
    PROVE  IInv'
  <1> USE Kept
  <1>1. CASE GateLoad(p)
    <2> DEFINE s == task[thr[p].t].state
               r == [thr[p] EXCEPT !.e = s, !.pc = IF s = "kSubmitted" THEN "reject" ELSE "cas"]
    <2>1. thr[p].pc = "load" /\ UNCHANGED <<task, inflight, shutdown, Queues>>
      BY <1>1 DEF GateLoad
    <2>2. thr[p].t \in Tasks /\ s \in TaskState
      BY <2>1, TaskAt DEF Passive, TaskRecord
    <2>3. thr' = [thr EXCEPT ![p] = r]
      BY <1>1, Zenon DEF GateLoad, IInv, TypeOK
    <2>4. Proper(p, thr[p])
      BY DEF IInv, ThreadsProper
    <2> HIDE DEF s
    <2>5. /\ r \in ThreadRecord /\ r.t = thr[p].t /\ r.tp = thr[p].tp /\ r.todo = thr[p].todo
          /\ r.pc \in {"reject", "cas"}
      BY <2>2, <2>4, Zenon DEF Proper, ThreadRecord, Pc, AddPc
    <2> HIDE DEF r
    <2>6. Proper(p, r)
      BY <2>1, <2>4, <2>5 DEF Proper, Passive
    <2>7. ThreadsOK'
      BY <2>3, <2>6, MoveOK, Zenon
    <2> QED BY <2>1, <2>7, IInvParts
  <1>2. CASE GateCas(p)
    <2>1. thr[p].pc = "cas" /\ UNCHANGED <<inflight, shutdown, Queues>>
      BY <1>2 DEF GateCas
    <2>2. ThreadsOK'
      BY <1>2, <2>1, GoOK DEF GateCas, Passive, Pc, AddPc
    <2>3. task' \in [Tasks -> TaskRecord]
      <3> DEFINE t == thr[p].t
                 x == [task[t] EXCEPT !.state = "kSubmitted"]
      <3>1. t \in Tasks /\ x \in TaskRecord
        BY <2>1, TaskAt DEF Passive, TaskRecord, TaskState
      <3>2. task' = [task EXCEPT ![t] = x] \/ task' = task
        BY <1>2 DEF GateCas
      <3> QED BY <3>1, <3>2, PutOK
    <2> QED BY <2>1, <2>2, <2>3, IInvParts
  <1>3. CASE Reject(p)
    <2>1. thr[p].pc = "reject" /\ UNCHANGED <<inflight, shutdown, Queues>>
      BY <1>3 DEF Reject
    <2>2. ThreadsOK'
      BY <1>3, <2>1, ReturnOK, Zenon DEF Reject, Passive
    <2>3. task' \in [Tasks -> TaskRecord]
      <3> DEFINE t == thr[p].t
                 a == task[t].app \/ Outermost(p)
                 x == [task[t] EXCEPT !.detach = FALSE, !.app = a]
      <3>1. t \in Tasks /\ task[t] \in TaskRecord /\ a \in BOOLEAN
        BY <2>1, TaskAt DEF Passive
      <3>2. task' = [task EXCEPT ![t] = x]
        BY <1>3, <3>1, Zenon DEF Reject, IInv, TypeOK
      <3> HIDE DEF a
      <3>3. x \in TaskRecord
        BY <3>1, ZenonT(30) DEF TaskRecord
      <3> QED BY <3>1, <3>2, <3>3, PutOK, Zenon
    <2> QED BY <2>1, <2>2, <2>3, IInvParts
  <1>4. CASE Reserve(p)
    <2>1. thr[p].pc = "reserve" /\ UNCHANGED <<shutdown, Queues>>
      BY <1>4 DEF Reserve
    <2>2. ThreadsOK'
      BY <1>4, <2>1, GoOK, ReturnOK, Zenon DEF Reserve, Passive, Pc, AddPc
    <2>3. task' \in [Tasks -> TaskRecord]
      <3> DEFINE t == thr[p].t
                 a == task[t].app \/ Outermost(p)
                 x == [task[t] EXCEPT !.state = "kReady", !.app = a]
      <3>1. t \in Tasks /\ task[t] \in TaskRecord /\ a \in BOOLEAN
        BY <2>1, TaskAt DEF Passive
      <3>2. task' = [task EXCEPT ![t] = x] \/ task' = task
        BY <1>4, <3>1, Zenon DEF Reserve, IInv, TypeOK
      <3> HIDE DEF a
      <3>3. x \in TaskRecord
        BY <3>1, ZenonT(30) DEF TaskRecord, TaskState
      <3> QED BY <3>1, <3>2, <3>3, PutOK
    <2>4. inflight' \in Int
      <3>1. inflight \in Int
        BY DEF IInv, TypeOK
      <3>2. inflight' = inflight \/ inflight' = inflight + 1
        BY <1>4, Zenon DEF Reserve
      <3> QED BY <3>1, <3>2
    <2> QED BY <2>1, <2>2, <2>3, <2>4, IInvParts
  <1>5. CASE Prepare(p)
    <2>1. thr[p].pc = "prep" /\ UNCHANGED <<inflight, shutdown, Queues>>
      BY <1>5 DEF Prepare
    <2>2. ThreadsOK'
      BY <1>5, <2>1, GoOK DEF Prepare, Passive, Pc, AddPc
    <2>3. task' \in [Tasks -> TaskRecord]
      <3> DEFINE t == thr[p].t
                 n == IF task[t].retry > 0 THEN 0 ELSE task[t].tries
                 y == [task[t] EXCEPT !.detach = FALSE, !.cancel = FALSE, !.tries = n,
                                      !.done = FALSE]
                 x == [y EXCEPT !.ran = 0]
      <3>1. t \in Tasks /\ task[t] \in TaskRecord
        BY <2>1, TaskAt DEF Passive
      <3>2. n \in Nat
        BY <3>1 DEF TaskRecord
      <3>3. task' = [task EXCEPT ![t] = x]
        BY <1>5, <3>1 DEF Prepare, IInv, TypeOK
      <3> HIDE DEF n
      <3>4. y \in TaskRecord
        BY <3>1, <3>2, ZenonT(30) DEF TaskRecord
      <3> HIDE DEF y
      <3>5. x \in TaskRecord
        BY <3>4 DEF TaskRecord
      <3> QED BY <3>1, <3>3, <3>5, PutOK, Zenon
    <2> QED BY <2>1, <2>2, <2>3, IInvParts
  <1>6. CASE SubmitTask(p)
    <2>1. thr[p].pc = "submit" /\ UNCHANGED <<inflight, shutdown, ring, wake>>
      BY <1>6 DEF SubmitTask
    <2>2. thr[p].t \in Tasks
      BY <2>1, TaskAt DEF Passive
    <2>3. ThreadsOK'
      BY <1>6, <2>1, GoOK, Zenon DEF SubmitTask, Passive, Pc, AddPc
    <2>4. task' \in [Tasks -> TaskRecord]
      <3> DEFINE t == thr[p].t
                 x == [task[t] EXCEPT !.ud = TRUE]
      <3>1. t \in Tasks /\ x \in TaskRecord
        <4>1. t \in Tasks /\ task[t] \in TaskRecord
          BY <2>1, TaskAt, Zenon DEF Passive
        <4> HIDE DEF t
        <4> QED BY <4>1, ZenonT(30) DEF TaskRecord
      <3>2. task' = [task EXCEPT ![t] = x] \/ task' = task
        BY <1>6 DEF SubmitTask
      <3> QED BY <3>1, <3>2, PutOK
    <2>5. sq' \in Seq(Entries) /\ Len(sq') <= SqEntries
      <3> DEFINE t == thr[p].t
                 a == <<Entry(t, "op")>>
                 b == <<Entry(t, "timeout")>>
      <3>1. CASE sq' = sq
        BY <3>1 DEF IInv, TypeOK
      <3>2. CASE Room(1) /\ sq' = Append(sq, Nop)
        BY <3>2, RoomOK, EntryOK
      <3>3. CASE Room(1) /\ sq' = sq \o a \o (IF task[t].timeout /\ Room(2) THEN b ELSE <<>>)
        <4>1. Entry(t, "op") \in Entries /\ Entry(t, "timeout") \in Entries
          BY <2>2, EntryOK DEF Kinds
        <4>2. sq \in Seq(Entries) /\ Len(sq) \in Nat /\ Len(sq) + 1 <= SqEntries /\ SqEntries \in Nat
          BY <3>3, HandlerAssumption DEF IInv, TypeOK, Room
        <4>3. a \in Seq(Entries) /\ b \in Seq(Entries) /\ Len(a) = 1 /\ Len(b) = 1
              /\ <<>> \in Seq(Entries) /\ Len(<<>>) = 0
          BY <4>1
        <4> HIDE DEF a, b, t
        <4>4. \A u, v \in Seq(Entries) : u \o v \in Seq(Entries) /\ Len(u \o v) = Len(u) + Len(v)
          BY Joined
        <4>5. sq \o a \in Seq(Entries) /\ Len(sq \o a) = Len(sq) + 1
          BY <4>2, <4>3, <4>4, Zenon
        <4>6. CASE task[t].timeout /\ Room(2)
          <5>1. sq' = (sq \o a) \o b
            BY <3>3, <4>6
          <5>2. sq' \in Seq(Entries) /\ Len(sq') = Len(sq) + 1 + 1
            BY <4>3, <4>4, <4>5, <5>1
          <5> QED BY <4>2, <4>6, <5>2 DEF Room
        <4>7. CASE ~(task[t].timeout /\ Room(2))
          <5>1. sq' = (sq \o a) \o <<>>
            BY <3>3, <4>7, Zenon
          <5>2. sq' \in Seq(Entries) /\ Len(sq') = Len(sq) + 1 + 0
            BY <4>3, <4>4, <4>5, <5>1
          <5> QED BY <4>2, <5>2
        <4> QED BY <4>6, <4>7
      <3> QED BY <1>6, <3>1, <3>2, <3>3, Zenon DEF SubmitTask
    <2>6. QueuesOK'
      BY <2>1, <2>5 DEF QueuesOK, IInv, TypeOK
    <2> QED BY <2>1, <2>3, <2>4, <2>6, IInvParts
  <1>7. CASE QueueFailedTask(p)
    <2>1. thr[p].pc = "qfail" /\ UNCHANGED <<task, inflight, shutdown>>
      BY <1>7 DEF QueueFailedTask
    <2>2. Entry(thr[p].t, "error") \in Entries
      BY <2>1, TaskAt, EntryOK DEF Passive, Kinds
    <2>3. CASE Room(1) /\ Submit(Append(sq, Entry(thr[p].t, "error"))) /\ Go(p, "flush")
      <3>1. QueuesOK'
        BY <2>2, <2>3, RoomOK, SubmitOK, Zenon
      <3>2. ThreadsOK'
        BY <2>1, <2>3, GoOK DEF Passive, Pc, AddPc
      <3> QED BY <2>1, <3>1, <3>2, IInvParts
    <2>4. CASE GoThen(p, "failed", <<"flush">>) /\ UNCHANGED Queues
      <3>1. thr' = [thr EXCEPT ![p] = [thr[p] EXCEPT !.pc = "failed", !.todo = <<"flush">> \o thr[p].todo,
                                                     !.fin = thr[p].fin]]
        BY <2>4 DEF GoThen, IInv, TypeOK, ThreadRecord
      <3>2. thr[p].fin \in TaskState
        BY DEF IInv, TypeOK, ThreadRecord
      <3>3. ThreadsOK'
        BY <2>1, <3>1, <3>2, CallOK, Zenon DEF Passive, Pc
      <3> QED BY <2>1, <2>4, <3>3, IInvParts
    <2> QED BY <1>7, <2>3, <2>4 DEF QueueFailedTask
  <1>8. CASE AutoFlush(p)
    <2>1. thr[p].pc = "flush" /\ UNCHANGED <<task, inflight, shutdown>>
      BY <1>8 DEF AutoFlush
    <2>2. ThreadsOK'
      BY <1>8, <2>1, ReturnOK, Zenon DEF AutoFlush, Passive
    <2>3. QueuesOK'
      BY <1>8, SubmitOK DEF AutoFlush, IInv, TypeOK
    <2> QED BY <2>1, <2>2, <2>3, IInvParts
  <1> QED BY <1>1, <1>2, <1>3, <1>4, <1>5, <1>6, <1>7, <1>8 DEF AddStep

\* The steps of failing, signalling and deleting a task keep the invariant.
LEMMA CompleteStepIInv ==
    ASSUME IInv, NEW p \in Procs, CompleteStep(p)
    PROVE  IInv'
  <1> USE Kept
  <1> DEFINE t == thr[p].t
  <1>1. CASE HandleFailedTask(p)
    <2>1. thr[p].pc = "failed" /\ UNCHANGED <<inflight, shutdown, Queues>>
      BY <1>1 DEF HandleFailedTask
    <2>2. t \in Tasks /\ task[t] \in TaskRecord
      BY <2>1, TaskAt DEF Passive
    <2>3. task[t].tries \in Nat /\ task[t].ran \in 0..2
      BY <2>2 DEF TaskRecord
    <2>4. CASE /\ task' = [task EXCEPT ![t].tries = @ + 1, ![t].state = "kReady"]
               /\ Go(p, "load")
      <3> DEFINE n == task[t].tries + 1
                 x == [task[t] EXCEPT !.tries = n, !.state = "kReady"]
      <3>1. task' = [task EXCEPT ![t] = x]
        BY <2>2, <2>4, Zenon DEF IInv, TypeOK
      <3>2. n \in Nat
        BY <2>3
      <3> HIDE DEF n
      <3>3. x \in TaskRecord
        BY <2>2, <3>2, ZenonT(30) DEF TaskRecord, TaskState
      <3>4. ThreadsOK'
        BY <2>1, <2>4, GoOK DEF Passive, Pc, AddPc
      <3> QED BY <2>1, <2>2, <3>1, <3>3, <3>4, PutOK, IInvParts, Zenon
    <2>5. CASE /\ task' = [task EXCEPT ![t].tries = 0, ![t].ran = Ran(@)]
               /\ thr' = [thr EXCEPT ![p].pc = "signal", ![p].fin = "kFailed",
                                     ![p].todo = <<"reap">> \o @]
      <3> DEFINE n == Ran(task[t].ran)
                 y == [task[t] EXCEPT !.tries = 0]
                 x == [y EXCEPT !.ran = n]
      <3>1. task' = [task EXCEPT ![t] = x]
        BY <2>2, <2>5, ZenonT(30) DEF IInv, TypeOK, TaskRecord
      <3>2. n \in 0..2
        BY <2>3 DEF Ran
      <3> HIDE DEF n
      <3>3. y \in TaskRecord
        BY <2>2 DEF TaskRecord
      <3> HIDE DEF y
      <3>4. x \in TaskRecord
        BY <3>2, <3>3 DEF TaskRecord
      <3>5. thr' = [thr EXCEPT ![p] = [thr[p] EXCEPT !.pc = "signal", !.todo = <<"reap">> \o thr[p].todo,
                                                     !.fin = "kFailed"]]
        BY <2>5 DEF IInv, TypeOK, ThreadRecord
      <3>6. ThreadsOK'
        BY <2>1, <3>5, CallOK, Zenon DEF Passive, Pc, TaskState
      <3> QED BY <2>1, <2>2, <3>1, <3>4, <3>6, PutOK, IInvParts, Zenon
    <2> QED BY <1>1, <2>4, <2>5 DEF HandleFailedTask
  <1>2. CASE SignalDone(p)
    <2> DEFINE x == [task[t] EXCEPT !.done = TRUE]
    <2>1. thr[p].pc = "signal" /\ UNCHANGED <<inflight, shutdown, Queues>>
      BY <1>2 DEF SignalDone
    <2>2. t \in Tasks /\ x \in TaskRecord
      <3>1. t \in Tasks /\ task[t] \in TaskRecord
        BY <2>1, TaskAt DEF Passive
      <3> HIDE DEF t
      <3> QED BY <3>1, ZenonT(30) DEF TaskRecord
    <2>3. task' = [task EXCEPT ![t] = x]
      BY <1>2, <2>2 DEF SignalDone, IInv, TypeOK
    <2>4. ThreadsOK'
      BY <1>2, <2>1, GoOK DEF SignalDone, Passive, Pc
    <2> QED BY <2>1, <2>2, <2>3, <2>4, PutOK, IInvParts, Zenon
  <1>3. CASE MarkDetached(p)
    <2> DEFINE x == [task[t] EXCEPT !.detach = TRUE]
    <2>1. thr[p].pc \in {"mark", "detach"} /\ UNCHANGED <<inflight, shutdown, Queues>>
      BY <1>3 DEF MarkDetached
    <2>2. t \in Tasks /\ x \in TaskRecord
      <3>1. t \in Tasks /\ task[t] \in TaskRecord
        BY <2>1, TaskAt DEF Passive
      <3> HIDE DEF t
      <3> QED BY <3>1, ZenonT(30) DEF TaskRecord
    <2>3. task' = [task EXCEPT ![t] = x]
      BY <1>3, <2>2 DEF MarkDetached, IInv, TypeOK
    <2>4. thr[p].ok \in BOOLEAN
      BY DEF IInv, TypeOK, ThreadRecord
    <2>5. ThreadsOK'
      BY <1>3, <2>1, <2>4, ReturnOK DEF MarkDetached, Passive
    <2> QED BY <2>1, <2>2, <2>3, <2>5, PutOK, IInvParts, Zenon
  <1>4. CASE Reap(p)
    <2>1. thr[p].pc = "reap" /\ UNCHANGED <<inflight, shutdown, Queues>>
      BY <1>4, Zenon DEF Reap
    <2>2. thr[p].ok \in BOOLEAN /\ thr[p].fin \in TaskState
      BY DEF IInv, TypeOK, ThreadRecord
    <2>3. ThreadsOK'
      BY <1>4, <2>1, <2>2, ReturnOK, Zenon DEF Reap, Passive
    <2>4. \A u \in Tasks : task[u] \in TaskRecord
      BY DEF IInv, TypeOK
    <2>5. t \in Tasks
      BY <2>1, TaskAt DEF Passive
    <2> DEFINE f == thr[p].fin
    <2>6. [task[t] EXCEPT !.state = f, !.live = FALSE, !.next = None, !.app = FALSE] \in TaskRecord
      <3>1. task[t] \in TaskRecord /\ f \in TaskState
        BY <2>2, <2>4, <2>5
      <3> HIDE DEF t, f
      <3> QED BY <3>1, ZenonT(30) DEF TaskRecord
    <2>7. \A u \in Tasks : [task[u] EXCEPT !.live = FALSE, !.app = FALSE] \in TaskRecord
      BY <2>4, ZenonT(30) DEF TaskRecord
    <2>8. task' = [u \in Tasks |->
                     IF u = t THEN [task[t] EXCEPT !.state = thr[p].fin, !.live = FALSE,
                                                   !.next = None, !.app = FALSE]
                     ELSE IF u = task[t].next THEN [task[u] EXCEPT !.live = FALSE, !.app = FALSE]
                     ELSE task[u]]
      BY <1>4, Zenon DEF Reap
    <2>9. task' \in [Tasks -> TaskRecord]
      BY <2>4, <2>6, <2>7, <2>8, Zenon
    <2> QED BY <2>1, <2>3, <2>9, IInvParts
  <1> QED BY <1>1, <1>2, <1>3, <1>4 DEF CompleteStep

\* The loop's own steps keep the invariant.
LEMMA LoopStepIInv ==
    ASSUME IInv, LoopStep
    PROVE  IInv'
  <1> USE Kept
  <1> DEFINE tp == thr[Loop].tp
  <1>1. Loop \in Procs /\ Proper(Loop, thr[Loop]) /\ thr[Loop].ok \in BOOLEAN
    BY DEF Procs, IInv, TypeOK, ThreadsProper, ThreadRecord
  <1>2. CASE Settle
    <2>1. thr' = [thr EXCEPT ![Loop] = Rest("test")] /\ UNCHANGED <<task, shutdown, Queues>>
      BY <1>2 DEF Settle
    <2>2. ThreadsOK'
      BY <1>1, <2>1, RestProper, MoveOK, Zenon DEF Passive
    <2>3. inflight' = inflight - 1 /\ inflight \in Int
      BY <1>2 DEF Settle, IInv, TypeOK
    <2> QED BY <2>1, <2>2, <2>3, IInvParts
  <1>3. CASE Spin
    <2>1. thr[Loop].pc = "spin" /\ UNCHANGED <<task, inflight, shutdown, Queues>>
      BY <1>3 DEF Spin
    <2>2. CASE Return(Loop, TRUE)
      <3>1. ThreadsOK'
        BY <1>1, <2>1, <2>2, ReturnOK, Zenon DEF Passive
      <3> QED BY <2>1, <3>1, IInvParts
    <2>3. CASE GoThen(Loop, "load", <<"spin">>)
      <3>1. thr' = [thr EXCEPT ![Loop] = [thr[Loop] EXCEPT !.pc = "load", !.todo = <<"spin">> \o thr[Loop].todo,
                                                           !.fin = thr[Loop].fin]]
        BY <2>3, Zenon DEF GoThen, IInv, TypeOK, ThreadRecord
      <3>2. thr[Loop].fin \in TaskState
        BY <1>1 DEF Proper, ThreadRecord
      <3>3. ThreadsOK'
        BY <1>1, <2>1, <3>1, <3>2, CallOK, Zenon DEF Passive, Pc, AddPc
      <3> QED BY <2>1, <3>3, IInvParts
    <2> QED BY <1>3, <2>2, <2>3, Zenon DEF Spin
  <1>4. CASE Succeed
    <2> DEFINE x == [task[tp] EXCEPT !.state = "kSuccess"]
    <2>1. thr[Loop].pc = "success" /\ UNCHANGED <<inflight, shutdown, Queues>>
      BY <1>4 DEF Succeed
    <2>2. tp \in Tasks /\ x \in TaskRecord
      <3>1. tp \in Tasks /\ task[tp] \in TaskRecord
        BY <1>1, <2>1, TaskAt DEF Passive
      <3> HIDE DEF tp
      <3> QED BY <3>1 DEF TaskRecord, TaskState
    <2>3. task' = [task EXCEPT ![tp] = x]
      BY <1>4, <2>2 DEF Succeed, IInv, TypeOK
    <2>4. ThreadsOK'
      BY <1>1, <1>4, <2>1, GoOK DEF Succeed, Passive, Pc, AddPc
    <2> QED BY <2>1, <2>2, <2>3, <2>4, PutOK, IInvParts, Zenon
  <1>5. CASE StartNextTask
    <2> DEFINE n == task[tp].next
               x == [task[tp] EXCEPT !.next = None]
               r == [thr[Loop] EXCEPT !.pc = "load", !.t = n]
    <2>1. thr[Loop].pc = "next" /\ UNCHANGED <<inflight, shutdown, Queues>>
      BY <1>5 DEF StartNextTask
    <2>2. tp \in Tasks /\ n \in Tasks \cup {None} /\ x \in TaskRecord
      <3>1. tp \in Tasks /\ task[tp] \in TaskRecord
        BY <1>1, <2>1, TaskAt DEF Passive
      <3> HIDE DEF tp
      <3> QED BY <3>1 DEF TaskRecord
    <2>3. CASE Return(Loop, thr[Loop].ok) /\ UNCHANGED task
      <3>1. ThreadsOK'
        BY <1>1, <2>1, <2>3, ReturnOK DEF Passive
      <3> QED BY <2>1, <2>3, <3>1, IInvParts
    <2>4. CASE /\ n # None
               /\ task' = [task EXCEPT ![tp].next = None]
               /\ thr' = [thr EXCEPT ![Loop].pc = "load", ![Loop].t = n]
      <3>1. task' = [task EXCEPT ![tp] = x]
        BY <2>2, <2>4 DEF IInv, TypeOK
      <3>2. thr' = [thr EXCEPT ![Loop] = r]
        BY <1>1, <2>4, Zenon DEF IInv, TypeOK
      <3>3. n \in Tasks
        BY <2>2, <2>4
      <3> HIDE DEF n, tp
      <3>4. /\ r \in ThreadRecord /\ r.pc = "load" /\ r.t = n
            /\ r.tp = thr[Loop].tp /\ r.todo = thr[Loop].todo
        BY <1>1, <3>3, Zenon DEF Proper, ThreadRecord, Pc, AddPc
      <3> HIDE DEF r
      <3>5. Proper(Loop, r)
        BY <1>1, <2>1, <3>3, <3>4 DEF Proper, Passive
      <3>6. ThreadsOK'
        BY <1>1, <3>2, <3>5, MoveOK, Zenon
      <3> QED BY <2>1, <2>2, <3>1, <3>6, PutOK, IInvParts, Zenon
    <2> QED BY <1>5, <2>3, <2>4 DEF StartNextTask
  <1>6. CASE Finish
    <2> DEFINE r == [thr[Loop] EXCEPT !.pc = "signal", !.t = tp]
    <2>1. thr[Loop].pc = "finish" /\ UNCHANGED <<task, inflight, shutdown, Queues>>
      BY <1>6 DEF Finish
    <2>2. CASE Return(Loop, thr[Loop].ok)
      <3>1. ThreadsOK'
        BY <1>1, <2>1, <2>2, ReturnOK DEF Passive
      <3> QED BY <2>1, <3>1, IInvParts
    <2>3. CASE thr' = [thr EXCEPT ![Loop].pc = "signal", ![Loop].t = tp]
      <3>1. thr' = [thr EXCEPT ![Loop] = r]
        BY <1>1, <2>3, Zenon DEF IInv, TypeOK
      <3>2. tp \in Tasks
        BY <1>1, <2>1, TaskAt DEF Passive
      <3>3. /\ r \in ThreadRecord /\ r.pc = "signal" /\ r.t = tp
            /\ r.tp = tp /\ r.todo = thr[Loop].todo
        BY <1>1, <3>2, Zenon DEF Proper, ThreadRecord, Pc
      <3> HIDE DEF r
      <3>4. Proper(Loop, r)
        BY <1>1, <3>2, <3>3 DEF Proper, Passive
      <3>5. ThreadsOK'
        BY <1>1, <3>1, <3>4, MoveOK, Zenon
      <3> QED BY <2>1, <3>5, IInvParts
    <2> QED BY <1>6, <2>2, <2>3 DEF Finish
  <1>7. CASE LoopTest
    <2>1. ThreadsOK'
      BY <1>1, <1>7, GoOK DEF LoopTest, Passive, Pc, Resting
    <2> QED BY <1>7, <2>1, IInvParts DEF LoopTest
  <1>8. CASE LoopWake
    <2>1. ThreadsOK'
      BY <1>1, <1>8, GoOK DEF LoopWake, Passive, Pc, Resting
    <2>2. QueuesOK'
      BY <1>8, Zenon DEF LoopWake, QueuesOK, IInv, TypeOK
    <2> QED BY <1>8, <2>1, <2>2, IInvParts DEF LoopWake
  <1> QED BY <1>2, <1>3, <1>4, <1>5, <1>6, <1>7, <1>8 DEF LoopStep

\* Dispatching a completion keeps the invariant.
LEMMA DispatchIInv ==
    ASSUME IInv, NEW t \in Tasks, NEW k \in Kinds, NEW res, DispatchCqe(t, k, res)
    PROVE  IInv'
  <1> USE Kept
  <1>1. thr[Loop].pc = "wait" /\ UNCHANGED <<inflight, shutdown, sq, wake>> /\ Loop \in Procs
    BY DEF DispatchCqe, Procs
  <1>2. QueuesOK'
    <2>1. ring[t][k] \in Nat /\ ring[t][k] > 0
      BY DEF DispatchCqe, Deliverable, IInv, TypeOK
    <2>2. ring' = [ring EXCEPT ![t][k] = @ - 1]
      BY DEF DispatchCqe
    <2>3. ring' \in [Tasks -> [Kinds -> Nat]]
      BY <2>1, <2>2 DEF IInv, TypeOK
    <2> QED BY <1>1, <2>3 DEF QueuesOK, IInv, TypeOK
  <1>3. task[t] \in TaskRecord
    BY DEF IInv, TypeOK
  <1>4. ASSUME UNCHANGED task, NEW label \in {"test", "settle"}, Go(Loop, label) PROVE IInv'
    <2>1. ThreadsOK'
      BY <1>1, <1>4, GoOK DEF Passive, Pc, Resting
    <2> QED BY <1>1, <1>2, <1>4, <2>1, IInvParts
  <1>5. ASSUME NEW fin \in TaskState, Terminate(t, fin) PROVE IInv'
    <2>1. ThreadsOK' /\ UNCHANGED task
      BY <1>5, HandleOK DEF Terminate, Passive, Pc
    <2> QED BY <1>1, <1>2, <2>1, IInvParts
  <1>6. ASSUME UNCHANGED task, Handle(t, "failed", <<>>, "kNone") PROVE IInv'
    <2>1. ThreadsOK'
      BY <1>6, HandleOK DEF Passive, Pc, TaskState
    <2> QED BY <1>1, <1>2, <1>6, <2>1, IInvParts
  <1>7. ASSUME UNCHANGED task, Handle(t, "load", <<"spin">>, "kNone") PROVE IInv'
    <2>1. ThreadsOK'
      BY <1>7, HandleOK DEF Passive, Pc, AddPc, TaskState
    <2> QED BY <1>1, <1>2, <1>7, <2>1, IInvParts
  <1>8. ASSUME task' = [task EXCEPT ![t].ran = Ran(@)], NEW label \in {"signal", "success"},
               NEW first \in {<<"reap">>, <<"next">>, <<"next", "finish">>}, NEW fin \in {"kSuccess", "kNone"},
               Handle(t, label, first, fin)
        PROVE  IInv'
    <2> DEFINE n == Ran(task[t].ran)
               x == [task[t] EXCEPT !.ran = n]
    <2>1. n \in 0..2
      BY <1>3 DEF Ran, TaskRecord
    <2>2. task' = [task EXCEPT ![t] = x]
      BY <1>8 DEF IInv, TypeOK
    <2> HIDE DEF n
    <2>3. x \in TaskRecord
      BY <1>3, <2>1 DEF TaskRecord
    <2>4. label \in Pc \ Passive /\ fin \in TaskState
      BY DEF Passive, Pc, TaskState
    <2>5. ThreadsOK'
      BY <1>8, <2>4, HandleOK
    <2> QED BY <1>1, <1>2, <2>2, <2>3, <2>5, PutOK, IInvParts, Zenon
  <1>9. ASSUME NEW r, HandleNormalEvent(t, r) PROVE IInv'
    <2>1. CASE r = "again"
      BY <1>7, <1>9, <2>1 DEF HandleNormalEvent
    <2>2. CASE r = "error"
      BY <1>6, <1>9, <2>2 DEF HandleNormalEvent
    <2>3. CASE r = "canceled"
      <3>1. Terminate(t, IF task[t].timeout THEN "kTimeout" ELSE "kCanceled")
        BY <1>9, <2>3 DEF HandleNormalEvent
      <3> QED BY <1>5, <3>1 DEF TaskState
    <2>4. CASE r \in {"eof", "data"}
      BY <1>8, <1>9, <2>4 DEF HandleNormalEvent
    <2> QED BY <1>9, <2>1, <2>2, <2>3, <2>4 DEF HandleNormalEvent
  <1>10. ASSUME task' = [task EXCEPT ![t].cancel = TRUE], Go(Loop, "settle") PROVE IInv'
    <2> DEFINE x == [task[t] EXCEPT !.cancel = TRUE]
    <2>1. task' = [task EXCEPT ![t] = x]
      BY <1>10 DEF IInv, TypeOK
    <2>2. x \in TaskRecord
      BY <1>3, ZenonT(30) DEF TaskRecord
    <2>3. ThreadsOK'
      BY <1>1, <1>10, GoOK DEF Passive, Pc
    <2> QED BY <1>1, <1>2, <2>1, <2>2, <2>3, PutOK, IInvParts, Zenon
  <1>11. CASE task[t].state \notin {"kSubmitted", "kReady"}
    <2>1. Go(Loop, "test") /\ UNCHANGED task
      BY <1>11 DEF DispatchCqe
    <2> QED BY <1>4, <2>1
  <1>12. CASE task[t].state \in {"kSubmitted", "kReady"} /\ task[t].cancel
    <2>1. Terminate(t, "kCanceled")
      BY <1>12 DEF DispatchCqe
    <2> QED BY <1>5, <2>1 DEF TaskState
  <1>13. CASE task[t].state \in {"kSubmitted", "kReady"} /\ ~task[t].cancel
    <2>1. \/ HandleNormalEvent(t, res)
          \/ HandleNormalEvent(t, "canceled")
          \/ Terminate(t, "kTimeout")
          \/ Handle(t, "failed", <<>>, "kNone") /\ UNCHANGED task
          \/ task' = [task EXCEPT ![t].cancel = TRUE] /\ Go(Loop, "settle")
          \/ Go(Loop, "settle") /\ UNCHANGED task
      BY <1>13 DEF DispatchCqe, HandleErrorEvent, HandleCancelEvent
    <2> QED BY <1>4, <1>5, <1>6, <1>9, <1>10, <2>1 DEF TaskState
  <1> QED BY <1>11, <1>12, <1>13

\* The kernel's steps keep the invariant: it moves requests from one kind to another.
LEMMA KernelIInv ==
    ASSUME IInv, Kernel
    PROVE  IInv'
  <1> USE Kept
  <1>1. \A t \in Tasks : ring[t] \in [Kinds -> Nat]
    BY DEF IInv, TypeOK
  <1>2. ASSUME NEW t \in Tasks, NEW f \in [Kinds -> Nat], ring' = [ring EXCEPT ![t] = f],
               UNCHANGED <<task, inflight, shutdown, sq, wake, thr>>
        PROVE  IInv'
    <2>1. QueuesOK'
      BY <1>2 DEF QueuesOK, IInv, TypeOK
    <2> QED BY <1>2, <2>1, IInvParts
  <1>3. ASSUME NEW t \in Tasks, KernelExpire(t) PROVE IInv'
    <2> DEFINE g == ring[t]
               f == [g EXCEPT !["timeout"] = @ - 1, !["expired"] = @ + 1,
                              !["op"] = @ - 1, !["opCanceled"] = @ + 1]
    <2>1. g \in [Kinds -> Nat] /\ g["timeout"] > 0 /\ g["op"] > 0
      BY <1>1, <1>3 DEF KernelExpire
    <2>2. ring' = [ring EXCEPT ![t] = f] /\ UNCHANGED <<task, inflight, shutdown, sq, wake, thr>>
      BY <1>3, Zenon DEF KernelExpire, IInv, TypeOK, Kinds
    <2> HIDE DEF g
    <2>3. f \in [Kinds -> Nat]
      BY <2>1 DEF Kinds
    <2> QED BY <1>2, <2>2, <2>3, Zenon
  <1>4. ASSUME NEW t \in Tasks, NEW found \in BOOLEAN, KernelCancel(t, found) PROVE IInv'
    <2> DEFINE g == ring[t]
    <2>1. g \in [Kinds -> Nat] /\ g["cancel"] > 0 /\ (found => g["op"] > 0)
      BY <1>1, <1>4 DEF KernelCancel
    <2>2. CASE found
      <3> DEFINE f == [g EXCEPT !["cancel"] = @ - 1, !["cancelOk"] = @ + 1,
                                !["op"] = @ - 1, !["opCanceled"] = @ + 1]
      <3>1. ring' = [ring EXCEPT ![t] = f] /\ UNCHANGED <<task, inflight, shutdown, sq, wake, thr>>
        BY <1>4, <2>2, Zenon DEF KernelCancel, IInv, TypeOK, Kinds
      <3> HIDE DEF g
      <3>2. f \in [Kinds -> Nat]
        BY <2>1, <2>2 DEF Kinds
      <3> QED BY <1>2, <3>1, <3>2, Zenon
    <2>3. CASE ~found
      <3> DEFINE f == [g EXCEPT !["cancel"] = @ - 1, !["cancelNo"] = @ + 1,
                                !["op"] = @, !["opCanceled"] = @]
      <3>1. ring' = [ring EXCEPT ![t] = f] /\ UNCHANGED <<task, inflight, shutdown, sq, wake, thr>>
        BY <1>4, <2>3, Zenon DEF KernelCancel, IInv, TypeOK, Kinds
      <3> HIDE DEF g
      <3>2. f \in [Kinds -> Nat]
        BY <2>1 DEF Kinds
      <3> QED BY <1>2, <3>1, <3>2, Zenon
    <2> QED BY <2>2, <2>3
  <1> QED BY <1>3, <1>4 DEF Kernel

\* The later steps of the application's calls keep the invariant.
LEMMA UserStepIInv ==
    ASSUME IInv, NEW u \in Users, UserStep(u)
    PROVE  IInv'
  <1> USE Kept
  <1> DEFINE t == thr[u].t
  <1>1. u \in Procs /\ Proper(u, thr[u])
    BY DEF Procs, IInv, ThreadsProper
  <1>2. CASE WaitDone(u)
    <2>1. ThreadsOK'
      BY <1>1, <1>2, GoOK DEF WaitDone, Passive, Pc
    <2> QED BY <1>2, <2>1, IInvParts DEF WaitDone
  <1>3. CASE WaitRead(u)
    <2> DEFINE x == [task[t] EXCEPT !.app = TRUE]
    <2>1. thr[u].pc = "w_read" /\ UNCHANGED <<inflight, shutdown, Queues>>
      BY <1>3 DEF WaitRead
    <2>2. t \in Tasks /\ x \in TaskRecord
      <3>1. t \in Tasks /\ task[t] \in TaskRecord
        BY <1>1, <2>1, TaskAt DEF Passive
      <3> HIDE DEF t
      <3> QED BY <3>1, ZenonT(30) DEF TaskRecord
    <2>3. task' = [task EXCEPT ![t] = x]
      BY <1>3, <2>2 DEF WaitRead, IInv, TypeOK
    <2>4. ThreadsOK'
      BY <1>1, <1>3, <2>1, ReturnOK, Zenon DEF WaitRead, Passive
    <2> QED BY <2>1, <2>2, <2>3, <2>4, PutOK, IInvParts, Zenon
  <1>4. CASE ShutdownWake(u)
    <2>1. thr[u].pc = "s_wake" /\ UNCHANGED <<task, inflight, shutdown>>
      BY <1>4 DEF ShutdownWake
    <2>2. thr[u].todo = <<>>
      BY <1>1, <2>1 DEF Proper
    <2>3. ThreadsOK'
      BY <1>1, <1>4, <2>2, ReturnOK, Zenon DEF ShutdownWake
    <2>4. QueuesOK'
      BY <1>4, RoomOK, EntryOK, SubmitOK, Zenon DEF ShutdownWake
    <2> QED BY <2>1, <2>3, <2>4, IInvParts
  <1> QED BY <1>2, <1>3, <1>4 DEF UserStep

\* A task just created has the fields of one.
LEMMA FreshOK ==
    ASSUME NEW c \in [type : {"io", "none"}, timeout : BOOLEAN, retry : Int, repeat : BOOLEAN]
    PROVE  Fresh(c) \in TaskRecord
  <1>1. c.type \in {"io", "none"} /\ c.timeout \in BOOLEAN /\ c.retry \in Int /\ c.repeat \in BOOLEAN
    OBVIOUS
  <1>2. 0 \in 0..2 /\ 0 \in 0..MaxCancels /\ 0 \in Nat
    BY HandlerAssumption
  <1>3. "kReady" \in TaskState /\ None \in Tasks \cup {None}
    BY DEF TaskState
  <1> QED BY <1>1, <1>2, <1>3 DEF Fresh, TaskRecord

\* The application's calls keep the invariant.
LEMMA UserCallIInv ==
    ASSUME IInv, NEW u \in Users, UserCall(u)
    PROVE  IInv'
  <1> USE Kept
  <1>1. u \in Procs /\ Proper(u, thr[u]) /\ u # Loop
    BY HandlerAssumption DEF Procs, IInv, ThreadsProper
  <1>2. \A t \in Tasks : task[t] \in TaskRecord
    BY DEF IInv, TypeOK
  <1>3. CASE Flush(u)
    <2>1. QueuesOK'
      BY <1>3, SubmitOK DEF Flush, IInv, TypeOK
    <2> QED BY <1>3, <2>1, IInvParts DEF Flush
  <1>4. CASE RequestShutdown(u)
    <2>1. thr[u].pc = "idle" /\ thr[u].todo = <<>>
      BY <1>1, <1>4 DEF RequestShutdown, Proper
    <2>2. ThreadsOK'
      BY <1>1, <1>4, <2>1, GoOK DEF RequestShutdown, Passive, Pc
    <2> QED BY <1>4, <2>2, IInvParts DEF RequestShutdown
  \* AddTask and WaitForCompletion start to work on a task.
  <1>5. ASSUME NEW t \in Tasks, NEW label \in {"load", "w_done"},
               thr' = [thr EXCEPT ![u].pc = label, ![u].t = t]
        PROVE  ThreadsOK'
    <2> DEFINE r == [thr[u] EXCEPT !.pc = label, !.t = t]
    <2>1. thr' = [thr EXCEPT ![u] = r]
      BY <1>1, <1>5, Zenon DEF IInv, TypeOK
    <2>2. /\ r \in ThreadRecord /\ r.pc = label /\ r.t = t /\ r.todo = thr[u].todo
      BY <1>1, Zenon DEF Proper, ThreadRecord, Pc, AddPc
    <2> HIDE DEF r
    <2>3. Proper(u, r)
      BY <1>1, <2>2 DEF Proper, Passive
    <2> QED BY <1>1, <2>1, <2>3, MoveOK, Zenon
  <1>6. ASSUME NEW t \in Tasks, AddTask(u, t) PROVE IInv'
    <2> DEFINE x == [task[t] EXCEPT !.app = FALSE]
    <2>1. task' = [task EXCEPT ![t] = x]
      BY <1>6 DEF AddTask, IInv, TypeOK
    <2>2. x \in TaskRecord
      BY <1>2, ZenonT(30) DEF TaskRecord
    <2>3. ThreadsOK'
      BY <1>5, <1>6, Zenon DEF AddTask
    <2> QED BY <1>6, <2>1, <2>2, <2>3, PutOK, IInvParts, Zenon DEF AddTask
  <1>7. ASSUME NEW t \in Tasks, Cancel(u, t) PROVE IInv'
    <2> DEFINE n == task[t].asks + 1
               x == [task[t] EXCEPT !.asks = n]
    <2>1. task' = [task EXCEPT ![t] = x]
      BY <1>7 DEF Cancel, IInv, TypeOK
    <2>2. n \in 0..MaxCancels
      <3>1. task[t].asks \in 0..MaxCancels /\ task[t].asks < MaxCancels
        BY <1>2, <1>7 DEF Cancel, TaskRecord
      <3> QED BY <3>1, HandlerAssumption
    <2> HIDE DEF n
    <2>3. x \in TaskRecord
      BY <1>2, <2>2 DEF TaskRecord
    <2>4. Entry(t, "cancel") \in Entries /\ Nop \in Entries
      BY EntryOK DEF Kinds
    <2>5. QueuesOK'
      <3>1. CASE Room(1) /\ Submit(Append(sq, Entry(t, "cancel")))
        BY <2>4, <3>1, RoomOK, SubmitOK, Zenon
      <3>2. CASE Room(1) /\ Submit(Append(sq, Nop))
        BY <2>4, <3>2, RoomOK, SubmitOK, Zenon
      <3> QED BY <1>7, <3>1, <3>2 DEF Cancel
    <2> QED BY <1>7, <2>1, <2>3, <2>5, PutOK, IInvParts, Zenon DEF Cancel
  <1>8. ASSUME NEW t \in Tasks, WaitForCompletion(u, t) PROVE IInv'
    <2>1. ThreadsOK'
      BY <1>5, <1>8 DEF WaitForCompletion
    <2> QED BY <1>8, <2>1, IInvParts DEF WaitForCompletion
  <1>9. ASSUME NEW t \in Tasks, NEW n \in Tasks, SetNextTask(u, t, n) PROVE IInv'
    <2> DEFINE x == [task[t] EXCEPT !.next = n]
               y == [task[n] EXCEPT !.app = FALSE]
    <2>1. task' = [[task EXCEPT ![t] = x] EXCEPT ![n] = y]
      BY <1>9, Zenon DEF SetNextTask, IInv, TypeOK
    <2>2. x \in TaskRecord
      BY <1>2 DEF TaskRecord
    <2>3. y \in TaskRecord
      BY <1>2, ZenonT(30) DEF TaskRecord
    <2> HIDE DEF x, y
    <2>4. task' \in [Tasks -> TaskRecord]
      BY <2>1, <2>2, <2>3, Zenon DEF IInv, TypeOK
    <2> QED BY <1>9, <2>4, IInvParts DEF SetNextTask
  <1>10. ASSUME NEW t \in Tasks, NEW c \in Configs, CreateTask(u, t, c) PROVE IInv'
    <2>1. c \in [type : {"io", "none"}, timeout : BOOLEAN, retry : Int, repeat : BOOLEAN]
      BY HandlerAssumption
    <2>2. Fresh(c) \in TaskRecord
      BY <2>1, FreshOK
    <2> QED BY <1>10, <2>2, PutOK, IInvParts, Zenon DEF CreateTask
  <1> QED BY <1>3, <1>4, <1>6, <1>7, <1>8, <1>9, <1>10 DEF UserCall

\* A fresh handler: no task, empty queues, every thread at rest.
LEMMA InitIInv == Init => IInv
  <1> SUFFICES ASSUME Init PROVE IInv
    OBVIOUS
  <1>1. Unborn \in TaskRecord
    <2> DEFINE x == Fresh(NoConfig)
    <2>1. NoConfig \in [type : {"io", "none"}, timeout : BOOLEAN, retry : Int, repeat : BOOLEAN]
      BY DEF NoConfig
    <2>2. x \in TaskRecord
      BY <2>1, FreshOK
    <2>3. Unborn = [x EXCEPT !.live = FALSE, !.state = "kNone", !.app = FALSE]
      BY DEF Unborn
    <2> HIDE DEF x
    <2> QED BY <2>2, <2>3, ZenonT(30) DEF TaskRecord, TaskState
  <1>2. \A p \in Procs : thr[p] = Rest("test") \/ thr[p] = Rest("idle")
    BY DEF Init
  <1>3. ThreadsProper
    BY <1>2, RestProper DEF ThreadsProper, Passive
  <1>4. \A p \in Procs : thr[p] \in ThreadRecord
    BY <1>3 DEF ThreadsProper, Proper
  <1>5. thr \in [Procs -> ThreadRecord]
    BY <1>4 DEF Init
  <1>6. sq \in Seq(Entries) /\ Len(sq) <= SqEntries
    BY HandlerAssumption DEF Init
  <1>7. task \in [Tasks -> TaskRecord]
    <2>1. task = [t \in Tasks |-> Unborn]
      BY DEF Init
    <2> QED BY <1>1, <2>1
  <1>8. ring \in [Tasks -> [Kinds -> Nat]]
    <2>1. ring = [t \in Tasks |-> [k \in Kinds |-> 0]]
      BY DEF Init
    <2> QED BY <2>1
  <1>9. inflight \in Int /\ shutdown \in BOOLEAN /\ wake \in BOOLEAN
    <2>1. inflight = 0 /\ shutdown = FALSE /\ wake = FALSE
      BY Zenon DEF Init
    <2>2. inflight \in Int
      BY <2>1
    <2>3. shutdown \in BOOLEAN /\ wake \in BOOLEAN
      BY <2>1, Zenon
    <2> QED BY <2>2, <2>3
  <1> QED BY <1>3, <1>5, <1>6, <1>7, <1>8, <1>9 DEF IInv, TypeOK

\* Every task field, counter, queue and thread keeps its type, the submission
\* queue never holds more entries than it has, no completion is taken that is not
\* there, and no thread in the library works without a task: for any application,
\* kernel and configuration.
THEOREM HandlerTypeOK == Spec => []TypeOK
  <1>1. IInv /\ [Next]_vars => IInv'
    <2> SUFFICES ASSUME IInv, [Next]_vars PROVE IInv'
      OBVIOUS
    <2>1. CASE UNCHANGED vars
      BY <2>1, Kept, IInvParts DEF vars, Queues
    <2>2. CASE Dispatch
      BY <2>2, DispatchIInv DEF Dispatch
    <2> QED BY <2>1, <2>2, AddStepIInv, CompleteStepIInv, LoopStepIInv, KernelIInv,
               UserStepIInv, UserCallIInv DEF Next
  <1>2. IInv => TypeOK
    BY DEF IInv
  <1> QED BY <1>1, <1>2, InitIInv, PTL DEF Spec
=============================================================================
