------------------------------ MODULE IOHandler ------------------------------
(***************************************************************************)
(* talon::IOHandler (async_io_handler.hpp) with the AsyncTask fields it      *)
(* works on (async_io_task.hpp): application threads that create, chain,     *)
(* submit, cancel and wait for tasks, the event-loop thread that dispatches  *)
(* completions, and the kernel's side of the io_uring between them.          *)
(*                                                                          *)
(* A thread takes one step per access to state another thread can see: the  *)
(* task's atomics, the inflight counter, the two queues.  A call that        *)
(* returns into the middle of another function leaves the labels still to    *)
(* run in the thread's todo.                                                 *)
(***************************************************************************)
EXTENDS Integers, Sequences, FiniteSets

CONSTANTS
    Tasks,          \* addresses the task pool hands out
    Users,          \* application threads
    Loop,           \* event_thread_
    None,           \* nullptr
    Configs,        \* option settings of the tasks the application creates
    Results,        \* what an operation completes with
    Calls,          \* what the application calls besides AddTask
    MaxInflight,    \* config_.max_inflight_ops
    SqEntries,      \* size of the submission queue
    MaxCancels,     \* bound: Cancel calls on one task
    SubmitFails,    \* whether io_uring_submit may fail and leave the queue as it is
    Recycle         \* whether the pool hands a freed address out again

ASSUME HandlerAssumption ==
    /\ Loop \notin Users
    /\ None \notin Tasks
    /\ Configs \subseteq [type : {"io", "none"}, timeout : BOOLEAN,
                          retry : Int, repeat : BOOLEAN]
    /\ Results \subseteq {"data", "eof", "again", "error", "etime"}
    /\ Calls \subseteq {"SetNextTask", "Cancel", "WaitForCompletion", "Flush",
                        "RequestShutdown", "DoubleSubmit"}
    /\ MaxInflight \in Nat
    /\ SqEntries \in Nat \ {0}
    /\ MaxCancels \in Nat
    /\ SubmitFails \in BOOLEAN
    /\ Recycle \in BOOLEAN

Procs == Users \cup {Loop}

\* task_state_; "kNone" is memory that never held a task.
TaskState == {"kNone", "kReady", "kSubmitted", "kSuccess", "kFailed",
              "kTimeout", "kCanceled"}

\* What is queued for a task: its operation, one the kernel cancelled, its
\* linked timeout, one that fired, the zero timeout of QueueFailedTask, and a
\* cancel request before and after the kernel has looked for its target.
Kinds == {"op", "opCanceled", "timeout", "expired", "error",
          "cancel", "cancelOk", "cancelNo"}

VARIABLES
    task,       \* the memory at each address
    inflight,   \* inflight_count_
    shutdown,   \* shutdown_requested_
    sq,         \* submission queue entries not yet given to the kernel
    ring,       \* how many requests of each kind the kernel has and the loop has not seen
    wake,       \* a completion with no task (user_data 0) is due
    thr         \* what each thread is doing

vars == <<task, inflight, shutdown, sq, ring, wake, thr>>

\* A task's fields, as CreateTaskWithHandler leaves them.  app, ran and asks are
\* history: the application may submit it; calls of the handler since AddTask;
\* calls of Cancel.
Fresh(c) ==
    [live |-> TRUE, type |-> c.type, timeout |-> c.timeout, retry |-> c.retry,
     repeat |-> c.repeat, next |-> None, state |-> "kReady", detach |-> FALSE,
     done |-> FALSE, cancel |-> FALSE, tries |-> 0, ud |-> FALSE,
     app |-> TRUE, ran |-> 0, asks |-> 0]

NoConfig == [type |-> "none", timeout |-> FALSE, retry |-> -1, repeat |-> FALSE]

Unborn == [Fresh(NoConfig) EXCEPT !.live = FALSE, !.state = "kNone", !.app = FALSE]

Resting == {"test", "wait", "exited"}
AddPc == {"load", "cas", "reject", "reserve", "prep", "submit", "qfail", "flush"}
Pc == Resting \cup AddPc \cup
      {"idle", "failed", "signal", "mark", "reap", "settle", "spin", "success",
       "detach", "next", "finish", "w_done", "w_read", "s_wake"}

TaskRecord ==
    [live : BOOLEAN, type : {"io", "none"}, timeout : BOOLEAN, retry : Int,
     repeat : BOOLEAN, next : Tasks \cup {None}, state : TaskState,
     detach : BOOLEAN, done : BOOLEAN, cancel : BOOLEAN, tries : Nat,
     ud : BOOLEAN, app : BOOLEAN, ran : 0..2, asks : 0..MaxCancels]

Entries == [task : Tasks, kind : Kinds] \cup {[task |-> None, kind |-> "nop"]}

ThreadRecord ==
    [pc : Pc, t : Tasks \cup {None}, tp : Tasks \cup {None}, todo : Seq(Pc),
     e : TaskState, fin : TaskState, ok : BOOLEAN]

TypeOK ==
    /\ task \in [Tasks -> TaskRecord]
    /\ inflight \in Int
    /\ shutdown \in BOOLEAN
    /\ sq \in Seq(Entries)
    /\ Len(sq) <= SqEntries
    /\ ring \in [Tasks -> [Kinds -> Nat]]
    /\ wake \in BOOLEAN
    /\ thr \in [Procs -> ThreadRecord]

\* A thread between two calls, or the loop between two completions.
Rest(label) == [pc |-> label, t |-> None, tp |-> None, todo |-> <<>>,
                e |-> "kNone", fin |-> "kNone", ok |-> FALSE]

Init ==
    /\ task = [t \in Tasks |-> Unborn]
    /\ inflight = 0
    /\ shutdown = FALSE
    /\ sq = <<>>
    /\ ring = [t \in Tasks |-> [k \in Kinds |-> 0]]
    /\ wake = FALSE
    /\ thr = [p \in Procs |-> Rest(IF p = Loop THEN "test" ELSE "idle")]

-----------------------------------------------------------------------------
(* Queues (io_uring) and the threads' control flow *)

Entry(t, k) == [task |-> t, kind |-> k]
Nop == [task |-> None, kind |-> "nop"]
Count(q, t, k) == Cardinality({i \in DOMAIN q : q[i] = Entry(t, k)})

\* io_uring_get_sqe returns an entry.
Room(n) == Len(sq) + n <= SqEntries

\* io_uring_submit of the queue q: the kernel takes every entry, or none.
Submit(q) ==
    \/ /\ ring' = [t \in Tasks |-> [k \in Kinds |-> ring[t][k] + Count(q, t, k)]]
       /\ wake' = (wake \/ \E i \in DOMAIN q : q[i] = Nop)
       /\ sq' = <<>>
    \/ /\ SubmitFails
       /\ sq' = q
       /\ UNCHANGED <<ring, wake>>

Queues == <<sq, ring, wake>>

Go(p, label) == thr' = [thr EXCEPT ![p].pc = label]

\* Go to label and run the labels of first before what p has still to do.
GoThen(p, label, first) ==
    thr' = [thr EXCEPT ![p].pc = label, ![p].todo = first \o @]

\* The function p is in returns ok to its caller.
Return(p, ok) ==
    LET todo == thr[p].todo
    IN  thr' = [thr EXCEPT ![p] =
                  IF todo = <<>> THEN Rest("idle")
                  ELSE [thr[p] EXCEPT !.pc = Head(todo), !.todo = Tail(todo), !.ok = ok]]

\* An AddTask the application called, and not the library itself.
Outermost(p) == thr[p].todo = <<>>

-----------------------------------------------------------------------------
(* AddTask *)

\* TryTransitionToSubmitted, line 240.
GateLoad(p) ==
    /\ thr[p].pc = "load"
    /\ LET s == task[thr[p].t].state
       IN  thr' = [thr EXCEPT ![p].e = s,
                              ![p].pc = IF s = "kSubmitted" THEN "reject" ELSE "cas"]
    /\ UNCHANGED <<task, inflight, shutdown, Queues>>

\* Mutant: the transition is a store, not a compare-exchange.
GateCasStores(p) ==
    /\ thr[p].pc = "cas"
    /\ task' = [task EXCEPT ![thr[p].t].state = "kSubmitted"]
    /\ Go(p, "reserve")
    /\ UNCHANGED <<inflight, shutdown, Queues>>

\* TryTransitionToSubmitted, line 242.
GateCas(p) ==
    /\ thr[p].pc = "cas"
    /\ IF task[thr[p].t].state = thr[p].e
       THEN /\ task' = [task EXCEPT ![thr[p].t].state = "kSubmitted"]
            /\ Go(p, "reserve")
       ELSE UNCHANGED task /\ Go(p, "reject")
    /\ UNCHANGED <<inflight, shutdown, Queues>>

\* Lines 124-126: another submission has the task.
Reject(p) ==
    /\ thr[p].pc = "reject"
    /\ task' = [task EXCEPT ![thr[p].t].detach = FALSE,
                            ![thr[p].t].app = @ \/ Outermost(p)]
    /\ Return(p, FALSE)
    /\ UNCHANGED <<inflight, shutdown, Queues>>

\* Mutant: the limit is off by one.
ReserveOneMore(p) ==
    /\ thr[p].pc = "reserve"
    /\ inflight <= MaxInflight
    /\ inflight' = inflight + 1
    /\ Go(p, "prep")
    /\ UNCHANGED <<task, shutdown, Queues>>

\* Lines 134-154: the backpressure gate.
Reserve(p) ==
    /\ thr[p].pc = "reserve"
    /\ IF MaxInflight > 0 /\ inflight >= MaxInflight
       THEN /\ task' = [task EXCEPT ![thr[p].t].state = "kReady",
                                    ![thr[p].t].app = @ \/ Outermost(p)]
            /\ Return(p, FALSE)
            /\ UNCHANGED inflight
       ELSE /\ inflight' = inflight + 1
            /\ Go(p, "prep")
            /\ UNCHANGED task
    /\ UNCHANGED <<shutdown, Queues>>

\* Mutant: done_state_ is not reset.
PrepareKeepsDone(p) ==
    /\ thr[p].pc = "prep"
    /\ task' = [task EXCEPT ![thr[p].t].detach = FALSE, ![thr[p].t].cancel = FALSE,
                            ![thr[p].t].ran = 0]
    /\ Go(p, "submit")
    /\ UNCHANGED <<inflight, shutdown, Queues>>

\* Lines 155-159.
Prepare(p) ==
    /\ thr[p].pc = "prep"
    /\ LET t == thr[p].t
           n == IF task[t].retry > 0 THEN 0 ELSE task[t].tries
       IN  task' = [task EXCEPT ![t] = [@ EXCEPT !.detach = FALSE, !.cancel = FALSE,
                                                 !.tries = n, !.done = FALSE, !.ran = 0]]
    /\ Go(p, "submit")
    /\ UNCHANGED <<inflight, shutdown, Queues>>

\* Mutant: the entry of io_uring_get_sqe is not tested for null.
SubmitTaskUnchecked(p) ==
    /\ thr[p].pc = "submit"
    /\ sq' = Append(sq, Entry(thr[p].t, "op"))
    /\ task' = [task EXCEPT ![thr[p].t].ud = TRUE]
    /\ Go(p, "flush")
    /\ UNCHANGED <<inflight, shutdown, ring, wake>>

\* SubmitTask: the operation and its linked timeout if there is room for it.
\* An unsupported type leaves the entry it took unprepared (a fresh slot is a
\* NOP with user_data 0).
SubmitTask(p) ==
    /\ thr[p].pc = "submit"
    /\ LET t == thr[p].t IN
       \/ ~Room(1) /\ Go(p, "qfail") /\ UNCHANGED <<task, sq>>
       \/ /\ Room(1) /\ task[t].type = "none"
          /\ sq' = Append(sq, Nop)
          /\ Go(p, "qfail")
          /\ UNCHANGED task
       \/ /\ Room(1) /\ task[t].type = "io"
          /\ sq' = sq \o <<Entry(t, "op")>>
                      \o IF task[t].timeout /\ Room(2) THEN <<Entry(t, "timeout")>> ELSE <<>>
          /\ task' = [task EXCEPT ![t].ud = TRUE]
          /\ Go(p, "flush")
    /\ UNCHANGED <<inflight, shutdown, ring, wake>>

\* QueueFailedTask: a zero timeout brings the failure back through the loop;
\* with no entry left the task fails on the submitting thread.
QueueFailedTask(p) ==
    /\ thr[p].pc = "qfail"
    /\ \/ Room(1) /\ Submit(Append(sq, Entry(thr[p].t, "error"))) /\ Go(p, "flush")
       \/ ~Room(1) /\ GoThen(p, "failed", <<"flush">>) /\ UNCHANGED Queues
    /\ UNCHANGED <<task, inflight, shutdown>>

\* Mutant: AddTask leaves the submission to the application.
AutoFlushSkipped(p) ==
    /\ thr[p].pc = "flush"
    /\ Return(p, TRUE)
    /\ UNCHANGED <<task, inflight, shutdown, Queues>>

\* AutoFlush, and AddTask returns true.
AutoFlush(p) ==
    /\ thr[p].pc = "flush"
    /\ Submit(sq)
    /\ Return(p, TRUE)
    /\ UNCHANGED <<task, inflight, shutdown>>

-----------------------------------------------------------------------------
(* Completion: the steps the event handlers are made of *)

\* ExecuteCompletionHandler (a third call is not told from a second).
Ran(n) == IF n < 2 THEN n + 1 ELSE n

\* Mutant: the final failure is not shown to the handler.
HandleFailedTaskSilent(p) ==
    /\ thr[p].pc = "failed"
    /\ task' = [task EXCEPT ![thr[p].t].tries = 0]
    /\ thr' = [thr EXCEPT ![p].pc = "signal", ![p].fin = "kFailed", ![p].todo = <<"reap">> \o @]
    /\ UNCHANGED <<inflight, shutdown, Queues>>

\* HandleFailedTask: retry, or report the failure and delete the task.
HandleFailedTask(p) ==
    /\ thr[p].pc = "failed"
    /\ LET t == thr[p].t IN
       IF task[t].tries + 1 < task[t].retry
       THEN /\ task' = [task EXCEPT ![t].tries = @ + 1, ![t].state = "kReady"]
            /\ Go(p, "load")
       ELSE /\ task' = [task EXCEPT ![t].tries = 0, ![t].ran = Ran(@)]
            /\ thr' = [thr EXCEPT ![p].pc = "signal", ![p].fin = "kFailed",
                                  ![p].todo = <<"reap">> \o @]
    /\ UNCHANGED <<inflight, shutdown, Queues>>

\* MarkDetachedAndComplete(true), line 251: done_state_.Signal().
SignalDone(p) ==
    /\ thr[p].pc = "signal"
    /\ task' = [task EXCEPT ![thr[p].t].done = TRUE]
    /\ Go(p, "mark")
    /\ UNCHANGED <<inflight, shutdown, Queues>>

\* MarkDetachedAndComplete(true), line 252, and the store of lines 342 and 354.
MarkDetached(p) ==
    /\ thr[p].pc \in {"mark", "detach"}
    /\ task' = [task EXCEPT ![thr[p].t].detach = TRUE]
    /\ Return(p, thr[p].ok)
    /\ UNCHANGED <<inflight, shutdown, Queues>>

\* SetTaskState and DeleteTask; next_ is destroyed with its owner.
Reap(p) ==
    /\ thr[p].pc = "reap"
    /\ LET t == thr[p].t IN
       task' = [x \in Tasks |->
                  IF x = t THEN [task[t] EXCEPT !.state = thr[p].fin, !.live = FALSE,
                                                !.next = None, !.app = FALSE]
                  ELSE IF x = task[t].next THEN [task[x] EXCEPT !.live = FALSE, !.app = FALSE]
                  ELSE task[x]]
    /\ Return(p, thr[p].ok)
    /\ UNCHANGED <<inflight, shutdown, Queues>>

\* Mutant: the decrement is forgotten.
SettleUncounted ==
    /\ thr[Loop].pc = "settle"
    /\ thr' = [thr EXCEPT ![Loop] = Rest("test")]
    /\ UNCHANGED <<task, inflight, shutdown, Queues>>

\* DispatchCqe, lines 219 and 232, back to the head of the loop.
Settle ==
    /\ thr[Loop].pc = "settle"
    /\ inflight' = inflight - 1
    /\ thr' = [thr EXCEPT ![Loop] = Rest("test")]
    /\ UNCHANGED <<task, shutdown, Queues>>

\* HandleNormalEvent, line 313: while (!AddTask(tp)) yield.
Spin ==
    /\ thr[Loop].pc = "spin"
    /\ IF thr[Loop].ok THEN Return(Loop, TRUE) ELSE GoThen(Loop, "load", <<"spin">>)
    /\ UNCHANGED <<task, inflight, shutdown, Queues>>

\* Mutant: the state is not stored before the resubmission.
SucceedKeepsState ==
    /\ thr[Loop].pc = "success"
    /\ Go(Loop, IF task[thr[Loop].tp].repeat THEN "load" ELSE "detach")
    /\ UNCHANGED <<task, inflight, shutdown, Queues>>

\* HandleNormalEvent, lines 340-342 and 352-354.
Succeed ==
    /\ thr[Loop].pc = "success"
    /\ LET tp == thr[Loop].tp IN
       /\ task' = [task EXCEPT ![tp].state = "kSuccess"]
       /\ Go(Loop, IF task[tp].repeat THEN "load" ELSE "detach")
    /\ UNCHANGED <<inflight, shutdown, Queues>>

\* Mutant: NextTask() in place of ReleaseNextTask().
StartNextTaskKept ==
    /\ thr[Loop].pc = "next"
    /\ LET tp == thr[Loop].tp IN
       IF task[tp].next = None
       THEN Return(Loop, thr[Loop].ok)
       ELSE thr' = [thr EXCEPT ![Loop].pc = "load", ![Loop].t = task[tp].next]
    /\ UNCHANGED <<task, inflight, shutdown, Queues>>

\* HandleNormalEvent, lines 343-346 and 356.
StartNextTask ==
    /\ thr[Loop].pc = "next"
    /\ LET tp == thr[Loop].tp IN
       IF task[tp].next = None
       THEN Return(Loop, thr[Loop].ok) /\ UNCHANGED task
       ELSE /\ task' = [task EXCEPT ![tp].next = None]
            /\ thr' = [thr EXCEPT ![Loop].pc = "load", ![Loop].t = task[tp].next]
    /\ UNCHANGED <<inflight, shutdown, Queues>>

\* Mutants: the state is stored after the resubmission; completion is not signalled.
FinishStoresState ==
    /\ thr[Loop].pc = "finish"
    /\ task' = [task EXCEPT ![thr[Loop].tp].state = "kSuccess"]
    /\ Return(Loop, thr[Loop].ok)
    /\ UNCHANGED <<inflight, shutdown, Queues>>

FinishSilently ==
    /\ thr[Loop].pc = "finish"
    /\ Return(Loop, thr[Loop].ok)
    /\ UNCHANGED <<task, inflight, shutdown, Queues>>

\* HandleNormalEvent, line 357.
Finish ==
    /\ thr[Loop].pc = "finish"
    /\ IF ~task[thr[Loop].tp].repeat
       THEN thr' = [thr EXCEPT ![Loop].pc = "signal", ![Loop].t = thr[Loop].tp]
       ELSE Return(Loop, thr[Loop].ok)
    /\ UNCHANGED <<task, inflight, shutdown, Queues>>

-----------------------------------------------------------------------------
(* The event loop *)

\* RunEventLoop, line 186.
LoopTest ==
    /\ thr[Loop].pc = "test"
    /\ Go(Loop, IF shutdown THEN "exited" ELSE "wait")
    /\ UNCHANGED <<task, inflight, shutdown, Queues>>

\* RunEventLoop, lines 199-203: a completion that names no task.
LoopWake ==
    /\ thr[Loop].pc = "wait"
    /\ wake
    /\ wake' = FALSE
    /\ Go(Loop, "test")
    /\ UNCHANGED <<task, inflight, shutdown, sq, ring>>

\* An unexpired linked timeout completes once its operation has.
Deliverable(t, k) ==
    /\ ring[t][k] > 0
    /\ k # "cancel"
    /\ k = "timeout" => ring[t][k] > ring[t]["op"] + ring[t]["opCanceled"]

\* The loop goes on with task t at label, then with the labels of first.
Handle(t, label, first, fin) ==
    thr' = [thr EXCEPT ![Loop].pc = label, ![Loop].t = t, ![Loop].tp = t,
                       ![Loop].todo = first \o <<"settle">>, ![Loop].fin = fin]

\* A handler that signals, sets a final state and deletes.
Terminate(t, fin) == Handle(t, "signal", <<"reap">>, fin) /\ UNCHANGED task

\* Mutant: after EOF a task with a successor is deleted before the successor is read.
HandleNormalEventDeletes(t, res) ==
    \/ res # "eof" /\ Handle(t, "failed", <<>>, "kNone") /\ UNCHANGED task
    \/ res = "eof" /\ Handle(t, "signal", <<"reap", "next">>, "kSuccess") /\ UNCHANGED task

\* HandleNormalEvent up to its first store.  Every result but a negative one
\* runs the completion handler.
HandleNormalEvent(t, res) ==
    \/ res = "again" /\ Handle(t, "load", <<"spin">>, "kNone") /\ UNCHANGED task
    \/ res = "error" /\ Handle(t, "failed", <<>>, "kNone") /\ UNCHANGED task
    \/ res = "canceled" /\ Terminate(t, IF task[t].timeout THEN "kTimeout" ELSE "kCanceled")
    \/ /\ res \in {"eof", "data"}
       /\ task' = [task EXCEPT ![t].ran = Ran(@)]
       /\ IF res = "eof" /\ ~task[t].repeat /\ task[t].next = None
          THEN Handle(t, "signal", <<"reap">>, "kSuccess")
          ELSE Handle(t, "success",
                      IF res = "eof" THEN <<"next">> ELSE <<"next", "finish">>, "kNone")

\* The zero timeout of QueueFailedTask has completed.
HandleErrorEvent(t) == Handle(t, "failed", <<>>, "kNone") /\ UNCHANGED task

\* The kernel found the operation to cancel.
HandleCancelEvent(t) == task' = [task EXCEPT ![t].cancel = TRUE] /\ Go(Loop, "settle")

\* Mutants: stale completions are handled; a confirmed cancel is not looked at.
DispatchCqeStale(t, k, res) ==
    /\ thr[Loop].pc = "wait"
    /\ Deliverable(t, k)
    /\ ring' = [ring EXCEPT ![t][k] = @ - 1]
    /\ \/ k = "op" /\ HandleNormalEvent(t, res)
       \/ k # "op" /\ Terminate(t, "kTimeout")
    /\ UNCHANGED <<inflight, shutdown, sq, wake>>

DispatchCqeUncanceled(t, k, res) ==
    /\ thr[Loop].pc = "wait"
    /\ Deliverable(t, k)
    /\ ring' = [ring EXCEPT ![t][k] = @ - 1]
    /\ \/ k = "op" /\ HandleNormalEvent(t, res)
       \/ k = "opCanceled" /\ HandleNormalEvent(t, "error")
       \/ k = "cancelOk" /\ HandleCancelEvent(t)
    /\ UNCHANGED <<inflight, shutdown, sq, wake>>

\* DispatchCqe for a completion of kind k: stale ones are skipped, a task whose
\* cancel was confirmed is dropped, the others go to their handler.
DispatchCqe(t, k, res) ==
    /\ thr[Loop].pc = "wait"
    /\ Deliverable(t, k)
    /\ ring' = [ring EXCEPT ![t][k] = @ - 1]
    /\ CASE task[t].state \notin {"kSubmitted", "kReady"} ->
              Go(Loop, "test") /\ UNCHANGED task
         [] task[t].state \in {"kSubmitted", "kReady"} /\ task[t].cancel ->
              Terminate(t, "kCanceled")
         [] OTHER ->
              \/ k = "op" /\ HandleNormalEvent(t, res)
              \/ k = "opCanceled" /\ HandleNormalEvent(t, "canceled")
              \/ k \in {"timeout", "expired"} /\ Terminate(t, "kTimeout")
              \/ k = "error" /\ HandleErrorEvent(t)
              \/ k = "cancelOk" /\ HandleCancelEvent(t)
              \/ k = "cancelNo" /\ Go(Loop, "settle") /\ UNCHANGED task
    /\ UNCHANGED <<inflight, shutdown, sq, wake>>

-----------------------------------------------------------------------------
(* The kernel *)

\* A linked timeout fires and cancels its operation.
KernelExpire(t) ==
    /\ "etime" \in Results
    /\ ring[t]["timeout"] > 0 /\ ring[t]["op"] > 0
    /\ ring' = [ring EXCEPT ![t]["timeout"] = @ - 1, ![t]["expired"] = @ + 1,
                            ![t]["op"] = @ - 1, ![t]["opCanceled"] = @ + 1]
    /\ UNCHANGED <<task, inflight, shutdown, sq, wake, thr>>

\* A cancel request finds the operation and cancels it, or does not.
KernelCancel(t, found) ==
    /\ ring[t]["cancel"] > 0
    /\ found => ring[t]["op"] > 0
    /\ ring' = [ring EXCEPT ![t]["cancel"] = @ - 1,
                            ![t][IF found THEN "cancelOk" ELSE "cancelNo"] = @ + 1,
                            ![t]["op"] = IF found THEN @ - 1 ELSE @,
                            ![t]["opCanceled"] = IF found THEN @ + 1 ELSE @]
    /\ UNCHANGED <<task, inflight, shutdown, sq, wake, thr>>

-----------------------------------------------------------------------------
(* The application *)

Calling(u, call, t) ==
    /\ thr[u].pc = "idle"
    /\ call \in Calls
    /\ task[t].live

\* CreateTaskWithHandler and the setters.
CreateTask(u, t, c) ==
    /\ thr[u].pc = "idle"
    /\ ~task[t].live
    /\ Recycle \/ task[t].state = "kNone"
    /\ task' = [task EXCEPT ![t] = Fresh(c)]
    /\ UNCHANGED <<inflight, shutdown, Queues, thr>>

\* SetNextTask; chains of two tasks.
SetNextTask(u, t, n) ==
    /\ Calling(u, "SetNextTask", t)
    /\ t # n /\ task[n].live
    /\ task[t].app /\ task[n].app
    /\ task[t].next = None /\ task[n].next = None
    /\ task[n].state = "kReady"
    /\ task' = [task EXCEPT ![t].next = n, ![n].app = FALSE]
    /\ UNCHANGED <<inflight, shutdown, Queues, thr>>

\* AddTask is called with a task the application holds, or, to test the gate,
\* with one it has submitted already.
AddTask(u, t) ==
    /\ thr[u].pc = "idle"
    /\ task[t].live
    /\ \/ task[t].app
       \/ "DoubleSubmit" \in Calls /\ task[t].state # "kReady"
    /\ task' = [task EXCEPT ![t].app = FALSE]
    /\ thr' = [thr EXCEPT ![u].pc = "load", ![u].t = t]
    /\ UNCHANGED <<inflight, shutdown, Queues>>

\* Flush.
Flush(u) ==
    /\ thr[u].pc = "idle"
    /\ "Flush" \in Calls
    /\ sq # <<>>
    /\ Submit(sq)
    /\ UNCHANGED <<task, inflight, shutdown, thr>>

\* Cancel; before the first submission user_data_ is 0 and the answer is skipped.
Cancel(u, t) ==
    /\ Calling(u, "Cancel", t)
    /\ ~task[t].app
    /\ task[t].asks < MaxCancels
    /\ task' = [task EXCEPT ![t].asks = @ + 1]
    /\ IF Room(1)
       THEN Submit(Append(sq, IF task[t].ud THEN Entry(t, "cancel") ELSE Nop))
       ELSE UNCHANGED Queues
    /\ UNCHANGED <<inflight, shutdown, thr>>

\* WaitForCompletion(-1) on a submitted task that no other thread is using,
\* line 213.
WaitForCompletion(u, t) ==
    /\ Calling(u, "WaitForCompletion", t)
    /\ ~task[t].app
    /\ \A v \in Users : thr[v].t # t
    /\ task[t].state # "kReady"
    /\ IF task[t].detach
       THEN thr' = [thr EXCEPT ![u].pc = "w_done", ![u].t = t]
       ELSE UNCHANGED thr
    /\ UNCHANGED <<task, inflight, shutdown, Queues>>

\* Line 216: done_state_.Wait(-1) returns.
WaitDone(u) ==
    /\ thr[u].pc = "w_done"
    /\ task[thr[u].t].done
    /\ Go(u, "w_read")
    /\ UNCHANGED <<task, inflight, shutdown, Queues>>

\* Lines 221-223: the result is read and the task is the application's again.
WaitRead(u) ==
    /\ thr[u].pc = "w_read"
    /\ task' = [task EXCEPT ![thr[u].t].app = TRUE]
    /\ Return(u, TRUE)
    /\ UNCHANGED <<inflight, shutdown, Queues>>

\* RequestShutdown, line 169; it is called once (bound).
RequestShutdown(u) ==
    /\ thr[u].pc = "idle"
    /\ "RequestShutdown" \in Calls /\ ~shutdown
    /\ shutdown' = TRUE
    /\ Go(u, "s_wake")
    /\ UNCHANGED <<task, inflight, Queues>>

\* Mutant: the NOP is prepared and not submitted.
ShutdownWakeUnsent(u) ==
    /\ thr[u].pc = "s_wake"
    /\ sq' = IF Room(1) THEN Append(sq, Nop) ELSE sq
    /\ Return(u, TRUE)
    /\ UNCHANGED <<task, inflight, shutdown, ring, wake>>

\* RequestShutdown, lines 170-171.
ShutdownWake(u) ==
    /\ thr[u].pc = "s_wake"
    /\ IF Room(1) THEN Submit(Append(sq, Nop)) ELSE UNCHANGED Queues
    /\ Return(u, TRUE)
    /\ UNCHANGED <<task, inflight, shutdown>>

-----------------------------------------------------------------------------

\* A step of a function p is in; the first two groups run on any thread.
AddStep(p) ==
    \/ GateLoad(p) \/ GateCas(p) \/ Reject(p) \/ Reserve(p) \/ Prepare(p)
    \/ SubmitTask(p) \/ QueueFailedTask(p) \/ AutoFlush(p)

CompleteStep(p) ==
    HandleFailedTask(p) \/ SignalDone(p) \/ MarkDetached(p) \/ Reap(p)

LoopStep ==
    \/ Settle \/ Spin \/ Succeed \/ StartNextTask \/ Finish
    \/ LoopTest \/ LoopWake

UserStep(u) == WaitDone(u) \/ WaitRead(u) \/ ShutdownWake(u)

Outcomes(k) == IF k = "op" THEN Results \ {"etime"} ELSE {"none"}

Dispatch == \E t \in Tasks, k \in Kinds : \E r \in Outcomes(k) : DispatchCqe(t, k, r)

Kernel == \E t \in Tasks : KernelExpire(t) \/ \E f \in BOOLEAN : KernelCancel(t, f)

UserCall(u) ==
    \/ Flush(u)
    \/ RequestShutdown(u)
    \/ \E t \in Tasks :
          \/ AddTask(u, t)
          \/ Cancel(u, t)
          \/ WaitForCompletion(u, t)
          \/ \E n \in Tasks : SetNextTask(u, t, n)
          \/ \E c \in Configs : CreateTask(u, t, c)

Next ==
    \/ \E p \in Procs : AddStep(p) \/ CompleteStep(p)
    \/ LoopStep \/ Dispatch \/ Kernel
    \/ \E u \in Users : UserStep(u) \/ UserCall(u)

Spec == Init /\ [][Next]_vars

(* Fairness.  Every thread inside a library call, and the loop, is scheduled. *)
(* The kernel answers what needs no peer (timers, cancel requests, NOPs), and *)
(* the completion queue is first in first out, so a completion that is due is *)
(* taken even if others keep arriving (strong fairness).  Operations may stay *)
(* pending for ever (a read of a silent socket) unless OpsComplete is added.  *)
(* Calls are up to the application.                                          *)
Fairness ==
    /\ \A p \in Procs : WF_vars(AddStep(p) \/ CompleteStep(p))
    /\ \A u \in Users : WF_vars(UserStep(u))
    /\ WF_vars(LoopStep) /\ SF_vars(LoopWake)
    /\ \A t \in Tasks : SF_vars(\E k \in Kinds \ {"op"} : DispatchCqe(t, k, "none"))
    /\ WF_vars(Kernel)

OpsComplete ==
    \A t \in Tasks : SF_vars(\E r \in Outcomes("op") : DispatchCqe(t, "op", r))

FairSpec == Spec /\ Fairness

PeerSpec == FairSpec /\ OpsComplete

-----------------------------------------------------------------------------
(* Properties *)

\* Labels at which a thread is about to use its t, or its tp (AutoFlush uses neither).
UsesT == (AddPc \ {"flush"}) \cup {"failed", "signal", "mark", "detach", "reap",
                                   "w_done", "w_read"}
UsesTp == {"success", "next", "finish"}

\* Operations of t, or the error events standing in for them, that are queued and
\* that nobody has cancelled.
Outstanding(t) ==
    ring[t]["op"] + ring[t]["error"] + Count(sq, t, "op") + Count(sq, t, "error")

\* The CAS gate: a task never has two operations in the queues, and has one only
\* while it is alive and kSubmitted (TryTransitionToSubmitted against every
\* place that stores task_state_).
OneOperation ==
    \A t \in Tasks :
        /\ Outstanding(t) <= 1
        /\ Outstanding(t) = 1 => task[t].live /\ task[t].state = "kSubmitted"

\* No thread is about to read or write a task that has been deleted (DeleteTask
\* against every later use of tp or task in the same function, and against calls
\* in progress on other threads).
NoUseAfterFree ==
    \A p \in Procs :
        /\ thr[p].pc \in UsesT => task[thr[p].t].live
        /\ thr[p].pc \in UsesTp => task[thr[p].tp].live

\* inflight_count_ is exact whenever the loop is between completions: it counts
\* the tasks that passed the backpressure gate and are not completed
\* (reservations in AddTask against the decrements of DispatchCqe).
InflightExact ==
    thr[Loop].pc \in Resting =>
        inflight = Cardinality({t \in Tasks : /\ task[t].live
                                             /\ task[t].state = "kSubmitted"
                                             /\ \A p \in Procs :
                                                   ~(thr[p].pc = "reserve" /\ thr[p].t = t)})

\* Backpressure: the kernel never works on more than max_inflight_ops operations,
\* however the reservations of several threads and the loop's decrements, those
\* for stale completions included, interleave.
LimitRespected ==
    MaxInflight > 0 =>
        Cardinality({t \in Tasks : ring[t]["op"] + Count(sq, t, "op") > 0}) <= MaxInflight

\* The handler runs at most once per submission, and a task that ended in kSuccess
\* or kFailed has had it run (HandleNormalEvent, HandleFailedTask).
HandlerOnce ==
    \A t \in Tasks :
        /\ task[t].ran <= 1
        /\ task[t].state \in {"kSuccess", "kFailed"} => task[t].ran = 1

\* A chained task waits for its predecessor: until the predecessor's success
\* releases it, it is alive, kReady and nowhere in the queues (SetNextTask,
\* ReleaseNextTask, ~AsyncTask).
ChainWaits ==
    \A t \in Tasks : task[t].next # None =>
        LET n == task[t].next
        IN  /\ task[n].live /\ task[n].state = "kReady" /\ Outstanding(n) = 0
            /\ \A p \in Procs : thr[p].pc \in UsesT => thr[p].t # n

\* A WaitForCompletion that is about to report a result does so for a completed
\* operation of a task that still exists.
WaitTruthful ==
    \A u \in Users : thr[u].pc = "w_read" =>
        task[thr[u].t].live /\ Outstanding(thr[u].t) = 0

\* Once the loop has dealt with a one-shot task's success, WaitForCompletion sees it:
\* detach_ and done_state_ are both set until the task is submitted again (lines
\* 353-357 against AddTask on other threads).
CompletionVisible ==
    thr[Loop].pc \in Resting =>
        \A t \in Tasks : task[t].live /\ task[t].state = "kSuccess" /\ ~task[t].repeat =>
            task[t].detach /\ task[t].done

\* A submitted operation has its handler run in the end, unless the loop is shut down
\* (the path from AddTask through the queues, DispatchCqe and the retries to
\* ExecuteCompletionHandler).
HandlerRuns ==
    \A t \in Tasks : Outstanding(t) = 1 ~> task[t].ran = 1 \/ shutdown

\* A repeating task that has run is submitted again, or ends, unless the loop is shut
\* down (HandleNormalEvent, lines 341 and 352: the result of AddTask is not looked at).
RepeatContinues ==
    \A t \in Tasks : task[t].repeat /\ task[t].ran = 1 ~> task[t].ran = 0 \/ ~task[t].live \/ shutdown

\* WaitForCompletion(-1), once it blocks, returns, unless the loop is shut down
\* (lines 352-357 of the handler against line 216 of the task).
WaitReturns ==
    \A u \in Users : thr[u].pc = "w_done" ~> thr[u].pc # "w_done" \/ shutdown

\* RequestShutdown ends the event loop, even one with nothing to complete (Join).
ShutdownEnds == shutdown ~> thr[Loop].pc = "exited"

\* A task whose cancel the loop has confirmed does not run its handler any more,
\* whatever its operation completes with (DispatchCqe, lines 215-221).
CanceledStaysSilent ==
    [][\A t \in Tasks : task[t].cancel /\ task'[t].cancel => task'[t].ran = task[t].ran]_vars

\* The loop reports a timeout only for a completion that an expired timer caused.
TimeoutMeansExpired ==
    [][thr[Loop].pc = "wait" /\ thr'[Loop].fin = "kTimeout" =>
          \E k \in {"expired", "opCanceled"} : ring'[thr'[Loop].t][k] < ring[thr'[Loop].t][k]]_vars
=============================================================================
