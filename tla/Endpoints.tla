------------------------------ MODULE Endpoints ------------------------------
(***************************************************************************)
(* Descriptors, and the tasks that use them: TcpServer and TcpClient         *)
(* (async_io_tcp_server.hpp, async_io_tcp_client.hpp), the life of an        *)
(* AsyncTask with its callables (async_io_task.hpp), and what the event loop *)
(* does with a task's descriptor (async_io_handler.hpp).  A descriptor is a  *)
(* number bound to an open file; close frees the number, the next file       *)
(* opened takes the lowest free one, and an operation keeps the file it was  *)
(* submitted on.  The rings are module IOHandler's and Lifecycle's: here a   *)
(* submission reaches the kernel and a completion the loop, in order.        *)
(***************************************************************************)
EXTENDS Integers, Sequences, FiniteSets, SequencesExt, InlineFunction

CONSTANTS
    MaxFd,          \* the process's limit on descriptors
    MaxFiles,       \* bound: files opened in a run
    MaxData,        \* bound: reads that return data
    Ports           \* the ports a program is given

Fds == 1 .. MaxFd           \* 0, 1, 2 are taken; the model counts from 1
Slots == 1 .. MaxFiles + MaxData + 2    \* enough tasks for those bounds
Closed == 0                 \* the file of a free descriptor

ASSUME EndpointsAssumption ==
    MaxFd \in Nat \ {0} /\ MaxFiles \in Nat /\ MaxData \in Nat /\ Ports \subseteq Nat

VARIABLES
    fds,        \* the file each descriptor number is bound to
    file,       \* the state of every file opened: "file", "listen", "fresh"
                \* (a socket not connected), "up", "gone" (the peer has left)
    task,       \* the AsyncTask at each address
    objs,       \* the callable objects that exist
    cq,         \* completions the loop has not taken, <<task, res>>
    data,       \* reads that returned data
    listenFd    \* TcpServer::listen_fd_

evars == <<fds, file, task, objs, cq, data, listenFd>>

\* Results: bytes, an accepted descriptor, 0 for end of file or connected.
Failed == -1
Expired == -2       \* -ECANCELED, or -ETIME from the linked timeout

NoTask == [live |-> FALSE, type |-> "none", fd |-> -1, repeat |-> FALSE, timed |-> FALSE,
           max_retry |-> -1, next |-> 0, code |-> "none", valid |-> FALSE, at |-> "none",
           on |-> Closed, handler |-> Empty, check |-> Empty]

EndpointsInit ==
    /\ fds = [n \in Fds |-> Closed]
    /\ file = <<>>
    /\ task = [s \in Slots |-> NoTask]
    /\ objs = {} /\ cq = <<>> /\ data = 0 /\ listenFd = -1

------------------------------------------------------------------------------
(* Descriptors *)

FileAt(n) == IF n \in Fds THEN fds[n] ELSE Closed

\* The number socket, accept or open returns: the lowest free one, or -1.
FreeFd == LET free == {n \in Fds : fds[n] = Closed}
          IN  IF free = {} THEN -1 ELSE Min(free)

CanOpen == Len(file) < MaxFiles         \* a bound
Opened == IF FreeFd = -1 THEN fds ELSE [fds EXCEPT ![FreeFd] = Len(file) + 1]
Close(table, n) == IF n \in Fds THEN [table EXCEPT ![n] = Closed] ELSE table

------------------------------------------------------------------------------
(* AsyncTask *)

FreeSlot(tasks) == Min({s \in Slots : ~tasks[s].live})

\* CreateTaskWithHandler and the AsyncTask constructor: the bound callable goes
\* into a temporary function, which handler_ is move-constructed from;
\* check_buffer_ has its default.  The setters that follow are in the record.
CreateTaskWithHandler(tasks, objects, fd, type, code) ==
    LET s == FreeSlot(tasks)
        m == MoveConstruct(Construct(<<s, "handler">>), objects \cup {<<s, "handler">>})
    IN  [slot |-> s,
         task |-> [tasks EXCEPT ![s] =
                      [NoTask EXCEPT !.live = TRUE, !.type = type, !.fd = fd, !.code = code,
                                     !.valid = TRUE, !.at = "ready", !.handler = m.to,
                                     !.check = Construct(<<s, "check">>)]],
         objs |-> Destroy(m.from, m.objs) \cup {<<s, "check">>}]

\* SetCheckBuffer, by whoever created the task; the parameter dies after the move.
SetCheckBuffer(s) ==
    LET m == MoveAssign(task[s].check, Construct(<<s, "own check">>),
                        objs \cup {<<s, "own check">>})
    IN  /\ task[s].at = "ready" /\ task[s].check.obj = <<s, "check">>
        /\ task' = [task EXCEPT ![s].check = m.to]
        /\ objs' = Destroy(m.from, m.objs)
        /\ UNCHANGED <<fds, file, cq, data, listenFd>>

\* ~AsyncTask destroys both functions, and the successor next_ still owns.
Destroyed(s, objects) == Destroy(task[s].handler, Destroy(task[s].check, objects))

DeleteTask(t) ==
    /\ objs' = IF task[t].next = 0 THEN Destroyed(t, objs)
               ELSE Destroyed(task[t].next, Destroyed(t, objs))
    /\ task' = [s \in Slots |-> IF s \in {t, task[t].next} THEN NoTask ELSE task[s]]

\* AddTask and SubmitTask: the kernel resolves the descriptor when it takes the
\* entry.  A task may be added again after a success (TryTransitionToSubmitted).
AddTask(tasks, t) == [tasks EXCEPT ![t].at = "flight", ![t].on = FileAt(tasks[t].fd)]

------------------------------------------------------------------------------
(* TcpServer *)

\* Mutant: a failed bind or listen leaves the socket open.
ServerInitLeaks(ok) ==
    /\ fds' = Opened
    /\ file' = IF FreeFd = -1 THEN file ELSE Append(file, "listen")
    /\ listenFd' = IF ok THEN FreeFd ELSE -1

\* Init: socket may fail; when bind or listen fails the socket is closed.
ServerInit(ok) ==
    /\ fds' = IF ok THEN Opened ELSE Close(Opened, FreeFd)
    /\ file' = IF FreeFd = -1 THEN file ELSE Append(file, "listen")
    /\ listenFd' = IF ok THEN FreeFd ELSE -1

\* ~TcpServer
ServerDestroyed == Close(fds, listenFd)

CreateAcceptTask(code) ==
    LET c == CreateTaskWithHandler(task, objs, listenFd, "accept", code)
    IN  task' = [c.task EXCEPT ![c.slot].repeat = TRUE] /\ objs' = c.objs

------------------------------------------------------------------------------
(* TcpClient *)

\* PrepareSocket: the socket is closed when inet_pton refuses the address; when
\* socket itself fails nothing was opened.
PrepareSocket(addressOk) ==
    /\ fds' = IF addressOk THEN Opened ELSE Close(Opened, FreeFd)
    /\ file' = IF FreeFd = -1 THEN file ELSE Append(file, "fresh")

\* htons keeps 16 bits; ValidateConnectTask, in SubmitTask, refuses port 0.
Htons(port) == port % 65536
ValidateConnectTask(port) == Htons(port) # 0

\* connect_timeout_ms may be 0, and then the task has no timeout.
FinalizeConnectTask(c, port, timed) ==
    [c EXCEPT !.task[c.slot].timed = timed, !.task[c.slot].valid = ValidateConnectTask(port)]

\* Connect on the socket PrepareSocket opens.
Connect(port, code, timed) ==
    FinalizeConnectTask(CreateTaskWithHandler(task, objs, FreeFd, "connect", code), port, timed)

------------------------------------------------------------------------------
(* The kernel and the peers *)

\* The results an operation may complete with.  -EAGAIN, on which the loop
\* never comes back from line 313 of HandleNormalEvent, is left to IOHandler.
Results(t) ==
    LET k == task[t]
        how == IF k.on = Closed THEN "closed" ELSE file[k.on]
        more == IF data < MaxData THEN {1} ELSE {}
        done == CASE how = "closed" \/ ~k.valid -> {Failed}
                  [] k.type = "connect" -> {0, Failed}
                  [] how = "fresh" -> {Failed}
                  [] k.type = "read" /\ how = "file" -> more \cup {0, Failed}
                  [] k.type = "read" /\ how = "up" -> more
                  [] k.type = "read" /\ how = "gone" -> {0, Failed}
                  [] k.type = "write" /\ how = "up" -> {1}
                  [] k.type = "write" -> {1, Failed}
                  [] OTHER -> {}
    IN  done \cup (IF k.timed THEN {Expired} ELSE {})

Post(t, res) == cq' = Append(cq, <<t, res>>)

KernelCompletes(t) ==
    /\ task[t].at = "flight" /\ task[t].type # "accept"
    /\ \E res \in Results(t) :
          /\ Post(t, res)
          /\ task' = [task EXCEPT ![t].at = "posted"]
          /\ data' = IF task[t].type = "read" /\ res = 1 THEN data + 1 ELSE data
          /\ file' = IF task[t].type = "connect" /\ res = 0
                     THEN [file EXCEPT ![task[t].on] = "up"] ELSE file
    /\ UNCHANGED <<fds, objs, listenFd>>

\* A client connects; with no free descriptor accept fails.
KernelAccepts(t) ==
    /\ task[t].at = "flight" /\ task[t].type = "accept" /\ CanOpen
    /\ Post(t, IF FreeFd = -1 THEN Failed ELSE FreeFd)
    /\ task' = [task EXCEPT ![t].at = "posted"]
    /\ fds' = Opened
    /\ file' = IF FreeFd = -1 THEN file ELSE Append(file, "up")
    /\ UNCHANGED <<objs, data, listenFd>>

PeerCloses(f) ==
    /\ file[f] = "up"
    /\ file' = [file EXCEPT ![f] = "gone"]
    /\ UNCHANGED <<fds, task, objs, cq, data, listenFd>>

------------------------------------------------------------------------------
(* The event loop *)

\* What remains to be done for a completion is a sequence of commands, so that
\* the kernel and the peers can act between them.
Command == [op |-> "none", fd |-> -1, own |-> Closed, t |-> 0, type |-> "none",
            repeat |-> FALSE, code |-> "none"]
CloseFd(fd, own) == <<[Command EXCEPT !.op = "close", !.fd = fd, !.own = own]>>
Spawn(fd, type, repeat, code) ==
    <<[Command EXCEPT !.op = "spawn", !.fd = fd, !.type = type, !.repeat = repeat, !.code = code]>>
On(op, t) == <<[Command EXCEPT !.op = op, !.t = t]>>

\* HandleNormalEvent after the handler, for a result that is not an error.
Continue(t) ==
    LET k == task[t]
    IN  (IF k.repeat THEN On("add", t) ELSE On("settle", t))
        \o (IF k.next # 0 THEN On("next", t) ELSE <<>>)

\* Mutant: every one-shot task that succeeds has its descriptor closed.
CompletedCloses(t, res, handler) ==
    LET k == task[t]
    IN  CASE res = Expired -> On("expire", t)
          [] res < 0 -> handler \o On("delete", t)
          [] res >= 0 /\ ~k.repeat /\ k.next = 0 ->
                 handler \o CloseFd(k.fd, k.on) \o On("delete", t)
          [] OTHER -> handler \o Continue(t)

\* HandleNormalEvent, HandleErrorEvent, HandleTimeoutTask and HandleFailedTask.
\* try_count_ is 0 whenever a task that retries fails: AddTask has reset it.  No
\* example cancels a task, so -ECANCELED comes from a linked timeout.
Completed(t, res, handler) ==
    LET k == task[t]
    IN  CASE res = Expired -> On("expire", t)
          [] res < 0 /\ 1 < k.max_retry -> On("add", t)
          [] res < 0 /\ ~(1 < k.max_retry) -> handler \o On("delete", t)
          [] res = 0 /\ ~k.repeat /\ k.next = 0 ->
                 handler \o CloseFd(k.fd, k.on) \o On("delete", t)
          [] OTHER -> handler \o Continue(t)
=============================================================================
