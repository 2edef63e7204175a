------------------------------ MODULE Lifecycle ------------------------------
(***************************************************************************)
(* The life of IOHandler objects (async_io_handler.hpp): construction, the  *)
(* registration for SIGINT and SIGTERM, shutdown from a thread or from a    *)
(* signal handler, and destruction, together with every access the library  *)
(* makes to the queues of its io_uring.                                     *)
(*                                                                          *)
(* A thread is a stack of frames, the running one first: a call pushes a    *)
(* frame, and so does a signal, between any two steps of the thread it      *)
(* interrupts.  The event thread of an instance has the instance's name.    *)
(* Tasks have no timeout here; module IOHandler has the linked timeouts.    *)
(***************************************************************************)
EXTENDS Uring, Functions

CONSTANTS
    Ios,            \* IOHandler objects
    Main,           \* the thread that constructs and destroys them
    Takers,         \* threads that may be interrupted by a signal
    Kinds,          \* the tasks Main adds: "io", "connect" (one that
                    \* ValidateConnectTask refuses), "unsupported"
    InitFails,      \* whether io_uring_queue_init may fail
    SigactionFails, \* signals for which sigaction may fail
    MaxSignals,     \* bound: signals delivered
    Overlap         \* whether Main adds tasks while others are in progress

ASSUME LifecycleAssumption ==
    /\ Main \notin Ios
    /\ None \notin Ios
    /\ Takers \subseteq Ios \cup {Main}
    /\ Kinds \subseteq {"io", "connect", "unsupported"}
    /\ InitFails \in BOOLEAN
    /\ SigactionFails \subseteq {"SIGINT", "SIGTERM"}
    /\ MaxSignals \in Nat
    /\ Overlap \in BOOLEAN

Threads == Ios \cup {Main}
Signals == {"SIGINT", "SIGTERM"}

VARIABLES
    life,       \* each object: unborn, constructing failed, up, gone
    uring,      \* *uring_ of each object
    kernel,     \* how many of each request the kernel is working on, per ring
    shutdown,   \* shutdown_requested_
    active,     \* active_instance_
    installed,  \* signals_installed_
    saved,      \* saved_sigint_ and saved_sigterm_
    action,     \* the process's action for each signal
    sent,       \* signals delivered; each arrives once
    stack,      \* the frames of each thread
    busy,       \* tasks that are kSubmitted, and on which ring
    left        \* history: rings on which an entry was left unprepared

vars == <<life, uring, kernel, shutdown, active, installed, saved, action, sent,
          stack, busy, left>>
queues == <<uring, kernel>>
registration == <<active, installed, saved, action>>

\* A frame: where it is, on which object, the request it submits and the slot it
\* holds; for the loop what *cqe holds and (history) what it held when the
\* loop took it.
Frame(pc, i, t) == [pc |-> pc, io |-> i, t |-> t, kind |-> "io", slot |-> 0,
                    cqe |-> Zeroed, took |-> Zeroed]

Init ==
    /\ life = [i \in Ios |-> "unborn"]
    /\ uring = [i \in Ios |-> Unmapped]
    /\ kernel = [i \in Ios |-> NoRequests]
    /\ shutdown = [i \in Ios |-> FALSE]
    /\ active = None
    /\ installed = [i \in Ios |-> FALSE]
    /\ saved = [i \in Ios |-> [s \in Signals |-> "own"]]
    /\ action = [s \in Signals |-> "own"]
    /\ sent = {}
    /\ stack = [p \in Threads |-> IF p = Main THEN <<Frame("idle", None, None)>> ELSE <<>>]
    /\ busy = [t \in Tasks |-> None]
    /\ left = {}

-----------------------------------------------------------------------------
(* Frames *)

At(p, pc) == stack[p] # <<>> /\ stack[p][1].pc = pc
Top(p) == stack[p][1]

Go(p, pc) == stack' = [stack EXCEPT ![p][1].pc = pc]
GoWith(p, f) == stack' = [stack EXCEPT ![p] = <<f>> \o Tail(@)]
\* The running frame continues at pc once the frame f has returned.
Call(p, pc, f) == stack' = [stack EXCEPT ![p] = <<f>> \o <<[Head(@) EXCEPT !.pc = pc]>> \o Tail(@)]
Return(p) == stack' = [stack EXCEPT ![p] = Tail(@)]

\* The request a submitting frame makes: the NOP of RequestShutdown, the zero
\* timeout of QueueFailedTask, or the operation of a task.
OpOf(f) == IF f.t = None THEN "nop" ELSE IF f.t \in Tasks THEN f.t ELSE "timeout"

-----------------------------------------------------------------------------
(* The submission queue: SubmitTask, QueueFailedTask and RequestShutdown *)

\* Mutant: the flag is set and no wakeup is sent.
RequestShutdownSilent(p) ==
    /\ At(p, "stop")
    /\ shutdown' = [shutdown EXCEPT ![Top(p).io] = TRUE]
    /\ Return(p)
    /\ UNCHANGED <<life, queues, registration, sent, busy, left>>

\* The store of shutdown_requested_.
RequestShutdown(p) ==
    /\ At(p, "stop")
    /\ shutdown' = [shutdown EXCEPT ![Top(p).io] = TRUE]
    /\ Go(p, "get")
    /\ UNCHANGED <<life, queues, registration, sent, busy, left>>

\* io_uring_get_sqe reads the tail.  With no entry RequestShutdown returns,
\* SubmitTask calls QueueFailedTask, and QueueFailedTask fails the task.
GetSqe(p) ==
    /\ At(p, "get")
    /\ LET f == Top(p)
           r == uring[f.io]
       IN  \/ /\ ~SqFull(r)
              /\ GoWith(p, [f EXCEPT !.pc = "put", !.slot = r.tail])
              /\ UNCHANGED busy
           \/ /\ SqFull(r) /\ f.t \in Tasks
              /\ Call(p, "enter", Frame("get", f.io, Failure(f.t)))
              /\ UNCHANGED busy
           \/ /\ SqFull(r) /\ f.t \notin Tasks
              /\ busy' = [t \in Tasks |-> IF f.t = Failure(t) THEN None ELSE busy[t]]
              /\ Return(p)
    /\ UNCHANGED <<life, queues, shutdown, registration, sent, left>>

\* io_uring_get_sqe stores the tail.
PutTail(p) ==
    /\ At(p, "put")
    /\ uring' = [uring EXCEPT ![Top(p).io] = TakeEntry(@, Top(p).slot)]
    /\ Go(p, "fill")
    /\ UNCHANGED <<life, kernel, shutdown, registration, sent, busy, left>>

\* Mutant: user_data is not set, and the slot keeps that of its last use.
FillEntryUntagged(p) ==
    /\ At(p, "fill")
    /\ LET f == Top(p) IN
       uring' = [uring EXCEPT ![f.io].sqe[f.slot % Entries].op = OpOf(f)]
    /\ Go(p, "enter")
    /\ UNCHANGED <<life, kernel, shutdown, registration, sent, busy, left>>

\* The entry is prepared and tagged; or, for a task it cannot submit, SubmitTask
\* leaves it as it is and queues the failure, and then a refused connect is
\* tagged all the same (lines 265-276) while an unsupported type returns (272).
FillEntry(p) ==
    /\ At(p, "fill")
    /\ LET f == Top(p) IN
       IF f.kind = "io"
       THEN /\ uring' = [uring EXCEPT ![f.io] = Fill(@, f.slot, [op |-> OpOf(f), ud |-> f.t])]
            /\ Go(p, "enter")
            /\ UNCHANGED left
       ELSE /\ Call(p, IF f.kind = "connect" THEN "tag" ELSE "enter",
                    Frame("get", f.io, Failure(f.t)))
            /\ left' = left \cup {f.io}
            /\ UNCHANGED uring
    /\ UNCHANGED <<life, kernel, shutdown, registration, sent, busy>>

\* Line 275 for a refused connect, whose slot the kernel has already consumed.
TagEntry(p) ==
    /\ At(p, "tag")
    /\ uring' = [uring EXCEPT ![Top(p).io] = SetUserData(@, Top(p).slot, Top(p).t)]
    /\ Go(p, "enter")
    /\ UNCHANGED <<life, kernel, shutdown, registration, sent, busy, left>>

\* io_uring_submit (AutoFlush, QueueFailedTask and RequestShutdown end with it).
\* Slots are counted from the first entry the kernel has not consumed.
Enter(p) ==
    /\ At(p, "enter")
    /\ LET i == Top(p).io
           n == Pending(uring[i])
           moved(f) == IF f.io = i /\ f.pc \in {"put", "fill", "tag"}
                       THEN [f EXCEPT !.slot = SqIndex(@ - n)] ELSE f
       IN  /\ uring' = [uring EXCEPT ![i] = Consumed(@)]
           /\ kernel' = [kernel EXCEPT ![i] = [q \in Requests |-> @[q] + Given(uring[i])[q]]]
           /\ stack' = [q \in Threads |->
                          LET fs == IF q = p THEN Tail(stack[q]) ELSE stack[q]
                          IN  [k \in DOMAIN fs |-> moved(fs[k])]]
    /\ UNCHANGED <<life, shutdown, registration, sent, busy, left>>

-----------------------------------------------------------------------------
(* The event thread *)

\* while (!shutdown_requested_)
LoopTest(i) ==
    /\ At(i, "test")
    /\ IF shutdown[i] THEN stack' = [stack EXCEPT ![i] = <<>>] ELSE Go(i, "peek")
    /\ UNCHANGED <<life, queues, shutdown, registration, sent, busy, left>>

\* io_uring_peek_cqe or io_uring_wait_cqe returns the oldest completion, and
\* io_uring_cqe_seen frees its slot before it is read (lines 188-197).
TakeCqe(i) ==
    /\ At(i, "peek")
    /\ uring[i].cq # <<>>
    /\ LET c == Head(uring[i].cq)
       IN  GoWith(i, [Top(i) EXCEPT !.pc = "read", !.cqe = c, !.took = c])
    /\ uring' = [uring EXCEPT ![i] = CqeSeen(@)]
    /\ UNCHANGED <<life, kernel, shutdown, registration, sent, busy, left>>

\* Some tasks of S, one after the other.
Orders(S) == {ts \in UNION {[1..n -> S] : n \in 0..Cardinality(S)} : IsInjective(ts)}

\* Mutant: a task is submitted again without the kSubmitted gate.
DispatchUngated(i) ==
    /\ At(i, "read")
    /\ LET ud == Top(i).cqe.ud IN
       /\ ud # None
       /\ busy' = [t \in Tasks |-> i]
       /\ \E ts \in Orders(Tasks) :
             /\ Range(ts) = Tasks
             /\ stack' = [stack EXCEPT ![i] =
                            [k \in DOMAIN ts |-> Frame("get", i, ts[k])] \o <<Frame("test", i, None)>>]
    /\ UNCHANGED <<life, queues, shutdown, registration, sent, left>>

\* cqe->user_data, cqe->res and DispatchCqe: nothing for user_data 0; otherwise
\* the task is over, and it, its chain or its handler may submit some tasks.
Dispatch(i) ==
    /\ At(i, "read")
    /\ LET ud == Top(i).cqe.ud
           over == [t \in Tasks |-> IF ud \in {t, Failure(t)} THEN None ELSE busy[t]]
           idle == IF ud = None \/ i \in left THEN {} ELSE {t \in Tasks : over[t] = None}
       IN  \E added \in Orders(idle) :
             /\ busy' = [t \in Tasks |-> IF t \in Range(added) THEN i ELSE over[t]]
             /\ stack' = [stack EXCEPT ![i] =
                            [k \in DOMAIN added |-> Frame("get", i, added[k])]
                              \o <<Frame("test", i, None)>>]
    /\ UNCHANGED <<life, queues, shutdown, registration, sent, left>>

\* The kernel finishes the request q and posts its completion, over the entry
\* the loop has seen and not finished reading if there is no other room.
KernelCompletes(i, q) ==
    /\ uring[i].open /\ ~CqFull(uring[i])
    /\ kernel[i][q] > 0
    /\ uring' = [uring EXCEPT ![i] = Post(@, q)]
    /\ kernel' = [kernel EXCEPT ![i][q] = @ - 1]
    /\ stack' = [stack EXCEPT ![i] = [k \in DOMAIN @ |->
                   IF @[k].pc = "read" /\ Overwrites(uring[i])
                   THEN [@[k] EXCEPT !.cqe = q] ELSE @[k]]]
    /\ UNCHANGED <<life, shutdown, registration, sent, busy, left>>

-----------------------------------------------------------------------------
(* Signals *)

\* A signal arrives at a thread; io_uring_wait_cqe is restarted or returns EINTR.
Deliver(p, s) ==
    /\ action[s] = "OnSignal"
    /\ s \notin sent /\ Cardinality(sent) < MaxSignals
    /\ p \in Takers /\ stack[p] # <<>>
    /\ sent' = sent \cup {s}
    /\ \E pc \in {Top(p).pc} \cup (IF At(p, "peek") THEN {"test"} ELSE {}) :
         Call(p, pc, Frame("sig", None, None))
    /\ UNCHANGED <<life, queues, shutdown, registration, busy, left>>

\* OnSignal
OnSignal(p) ==
    /\ At(p, "sig")
    /\ IF active = None THEN Return(p) ELSE GoWith(p, Frame("stop", active, None))
    /\ UNCHANGED <<life, queues, shutdown, registration, sent, busy, left>>

-----------------------------------------------------------------------------
(* What the application does with the objects, on Main *)

\* The constructor.
Construct(i) ==
    /\ At(Main, "idle")
    /\ life[i] = "unborn"
    /\ \/ /\ life' = [life EXCEPT ![i] = "up"]
          /\ uring' = [uring EXCEPT ![i] = QueueInit]
          /\ stack' = [stack EXCEPT ![i] = <<Frame("test", i, None)>>]
       \/ /\ InitFails
          /\ life' = [life EXCEPT ![i] = "failed"]
          /\ UNCHANGED <<uring, stack>>
    /\ UNCHANGED <<kernel, shutdown, registration, sent, busy, left>>

\* AddTask: from another thread than the loop, unless Overlap, only while the
\* ring has nothing to do.  Bound: a ring on which an entry was left unprepared
\* is given no further task.
Quiet(i) == kernel[i] = NoRequests /\ uring[i].cq = <<>> /\ Len(stack[i]) = 1 /\ At(i, "peek")

AddTask(i, t, kind) ==
    /\ At(Main, "idle")
    /\ life[i] = "up" /\ ~shutdown[i] /\ i \notin left
    /\ busy[t] = None
    /\ Overlap \/ Quiet(i)
    /\ busy' = [busy EXCEPT ![t] = i]
    /\ Call(Main, "idle", [Frame("get", i, t) EXCEPT !.kind = kind])
    /\ UNCHANGED <<life, queues, shutdown, registration, sent, left>>

CallRequestShutdown(i) ==
    /\ At(Main, "idle")
    /\ life[i] = "up" /\ ~shutdown[i]
    /\ Call(Main, "idle", Frame("stop", i, None))
    /\ UNCHANGED <<life, queues, shutdown, registration, sent, busy, left>>

\* Mutant: the registration is not tested.
InstallTakesOver(i) ==
    /\ At(Main, "idle")
    /\ life[i] = "up"
    /\ active' = i
    /\ Call(Main, "idle", Frame("int", i, None))
    /\ UNCHANGED <<life, queues, shutdown, installed, saved, action, sent, busy, left>>

\* InstallSignalHandlers, lines 65-68.
InstallSignalHandlers(i) ==
    /\ At(Main, "idle")
    /\ life[i] = "up"
    /\ active = None
    /\ active' = i
    /\ Call(Main, "idle", Frame("int", i, None))
    /\ UNCHANGED <<life, queues, shutdown, installed, saved, action, sent, busy, left>>

\* sigaction(s, &sa, &saved), or its failure: the registration is withdrawn.
Sigaction(pc, s, next) ==
    /\ At(Main, pc)
    /\ LET i == Top(Main).io IN
       \/ /\ saved' = [saved EXCEPT ![i][s] = action[s]]
          /\ action' = [action EXCEPT ![s] = "OnSignal"]
          /\ Go(Main, next)
          /\ UNCHANGED active
       \/ /\ s \in SigactionFails
          /\ active' = None
          /\ Return(Main)
          /\ UNCHANGED <<saved, action>>
    /\ UNCHANGED <<life, queues, shutdown, installed, sent, busy, left>>

\* Line 78, and line 87.
SetInstalled(pc, v) ==
    /\ At(Main, pc)
    /\ installed' = [installed EXCEPT ![Top(Main).io] = v]
    /\ Return(Main)
    /\ UNCHANGED <<life, queues, shutdown, active, saved, action, sent, busy, left>>

\* Lines 84 and 85.
Restore(pc, s, next) ==
    /\ At(Main, pc)
    /\ action' = [action EXCEPT ![s] = saved[Top(Main).io][s]]
    /\ Go(Main, next)
    /\ UNCHANGED <<life, queues, shutdown, active, installed, saved, sent, busy, left>>

\* Line 86.
Unregister ==
    /\ At(Main, "unstore")
    /\ active' = None
    /\ Go(Main, "unflag")
    /\ UNCHANGED <<life, queues, shutdown, installed, saved, action, sent, busy, left>>

\* ~IOHandler: UninstallSignalHandlers, RequestShutdown, and then line 45-46.
Destroy(i) ==
    /\ At(Main, "idle")
    /\ life[i] \in {"up", "failed"}
    /\ LET rest == <<Frame("stop", i, None), Frame("join", i, None)>> \o stack[Main]
       IN  stack' = [stack EXCEPT ![Main] =
                       IF installed[i] THEN <<Frame("unint", i, None)>> \o rest ELSE rest]
    /\ UNCHANGED <<life, queues, shutdown, registration, sent, busy, left>>

\* Mutant: the ring is torn down without waiting for the event thread.
JoinDetaches ==
    /\ At(Main, "join")
    /\ Go(Main, "exit")
    /\ UNCHANGED <<life, queues, shutdown, registration, sent, busy, left>>

Join ==
    /\ At(Main, "join")
    /\ stack[Top(Main).io] = <<>>
    /\ Go(Main, "exit")
    /\ UNCHANGED <<life, queues, shutdown, registration, sent, busy, left>>

\* io_uring_queue_exit: the kernel drops what it still had.
Exit ==
    /\ At(Main, "exit")
    /\ LET i == Top(Main).io IN
       /\ uring' = [uring EXCEPT ![i] = Unmapped]
       /\ kernel' = [kernel EXCEPT ![i] = NoRequests]
       /\ life' = [life EXCEPT ![i] = "gone"]
       /\ busy' = [t \in Tasks |-> IF busy[t] = i THEN None ELSE busy[t]]
    /\ Return(Main)
    /\ UNCHANGED <<shutdown, registration, sent, left>>

-----------------------------------------------------------------------------

Registration ==
    \/ Sigaction("int", "SIGINT", "term") \/ Sigaction("term", "SIGTERM", "flag")
    \/ SetInstalled("flag", TRUE)
    \/ Restore("unint", "SIGINT", "unterm") \/ Restore("unterm", "SIGTERM", "unstore")
    \/ Unregister
    \/ SetInstalled("unflag", FALSE)

\* What a thread does once it is inside a call.
Step(p) ==
    \/ RequestShutdown(p) \/ GetSqe(p) \/ PutTail(p) \/ FillEntry(p) \/ TagEntry(p)
    \/ Enter(p) \/ OnSignal(p)
    \/ p = Main /\ (Registration \/ Join \/ Exit)
    \/ p \in Ios /\ (LoopTest(p) \/ TakeCqe(p) \/ Dispatch(p))

Application ==
    \E i \in Ios :
       \/ Construct(i) \/ InstallSignalHandlers(i) \/ CallRequestShutdown(i) \/ Destroy(i)
       \/ \E t \in Tasks, kind \in Kinds : AddTask(i, t, kind)

Next ==
    \/ \E p \in Threads : Step(p) \/ \E s \in Signals : Deliver(p, s)
    \/ \E i \in Ios : \E q \in Requests : KernelCompletes(i, q)
    \/ Application

Spec == Init /\ [][Next]_vars

-----------------------------------------------------------------------------
(* Properties *)

\* A thread inside an object, by a call or by a signal, finds the object and its
\* ring alive, unless the constructor failed to make one (lines 44-46, 92-95).
InsideLive ==
    \A p \in Threads : \A k \in DOMAIN stack[p] :
       LET i == stack[p][k].io
       IN  i # None => life[i] = "failed" \/ (life[i] = "up" /\ uring[i].open)

\* Before shutdown the kernel and the completion queue hold only entries that
\* were prepared as a whole, operation and user_data together, and every task
\* AddTask accepted is in exactly one place: being submitted, with the kernel,
\* posted, or taken by the loop (lines 250-300).  Rings on which SubmitTask left
\* an entry unprepared are excepted.
Whole(q) == \/ q = Zeroed
            \/ q.op \in Tasks /\ q.ud = q.op
            \/ q.op = "timeout" /\ q.ud \in {Failure(t) : t \in Tasks}
Submitting(i, uds) ==
    UNION {{<<"frame", p, k>> : k \in {k \in DOMAIN stack[p] :
                                         stack[p][k].io = i /\ stack[p][k].t \in uds}} :
           p \in Threads}
InKernel(i, uds) == {<<"kernel", q>> : q \in {q \in Requests : kernel[i][q] > 0 /\ q.ud \in uds}}
Posted(i, uds) ==
    {<<"posted", k>> : k \in {k \in DOMAIN uring[i].cq : uring[i].cq[k].ud \in uds}}
Taken(i, uds) ==
    {<<"taken", k>> : k \in {k \in DOMAIN stack[i] :
                               stack[i][k].pc = "read" /\ stack[i][k].took.ud \in uds}}
Places(i, t) ==
    LET uds == {t, Failure(t)}
    IN  Submitting(i, uds) \cup InKernel(i, uds) \cup Posted(i, uds) \cup Taken(i, uds)

ExactlyOnce ==
    \A i \in Ios : ~shutdown[i] /\ i \notin left =>
       /\ \A q \in Requests : kernel[i][q] > 0 =>
             Whole(q) /\ (q # Zeroed => kernel[i][q] = 1)
       /\ \A t \in Tasks : busy[t] = i => \E x \in Places(i, t) : Places(i, t) = {x}

\* The completion the loop reads after io_uring_cqe_seen is the one it took
\* (lines 188-205), with fewer requests outstanding than the completion queue
\* has entries.
CompletionIntact ==
    \A i \in Ios : ~shutdown[i] => \A k \in DOMAIN stack[i] :
       LET f == stack[i][k] IN
       f.pc = "read" => f.cqe = f.took

\* While no instance is registered, and none is being registered or removed,
\* both signals have the action the program gave them (lines 64-88).
Restored ==
    active = None /\ Len(stack[Main]) = 1 =>
       \A s \in Signals : action[s] = "own"

\* A shutdown wakes the loop, whoever asked for it and whatever the queue was
\* doing: while the loop waits with shutdown_requested_ set, a completion is
\* posted, or the kernel has a request that completes by itself, or a thread is
\* still inside RequestShutdown or a submission (lines 168-172 and 186-189).
WakeOwed ==
    \A i \in Ios : shutdown[i] /\ At(i, "peek") =>
       \/ uring[i].cq # <<>>
       \/ \E q \in Requests : kernel[i][q] > 0 /\ q.op \in {"nop", "timeout"}
       \/ \E p \in Threads : \E k \in DOMAIN stack[p] :
            stack[p][k].io = i /\ stack[p][k].pc \in {"stop", "get", "put", "fill", "enter"}
==============================================================================
