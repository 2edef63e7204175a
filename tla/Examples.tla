------------------------------ MODULE Examples ------------------------------
(***************************************************************************)
(* The programs under examples/ that run on the event loop, over module      *)
(* Endpoints: each program's main thread, and its handlers, which the loop   *)
(* runs.  What a handler does is a sequence of commands.                     *)
(***************************************************************************)
EXTENDS Endpoints

CONSTANT Programs       \* the examples a behaviour may be a run of

ASSUME ProgramsAssumption ==
    Programs \subseteq {"server", "tcp_wr", "tcp_client", "file_write", "task_chain",
                        "custom_handler", "read_large_file", "signal_shutdown", "timeout_retry"}

VARIABLES
    program,    \* the example
    main,       \* its main thread: start, made (a task to add), join, done, failed
    first,      \* the task main made
    todo,       \* the commands left of the completion the loop is handling
    stop,       \* shutdown_requested_
    seen,       \* g_responses_seen
    dropped     \* history: files whose last task ended with no handler to close
                \* them (an expired task, a failed connect of Connect(ip, port))

xvars == <<program, main, first, todo, stop, seen, dropped>>
vars == <<evars, xvars>>

Init ==
    /\ EndpointsInit
    /\ program \in Programs
    /\ main = "start" /\ first = 0 /\ todo = <<>> /\ stop = FALSE /\ seen = 0 /\ dropped = {}

------------------------------------------------------------------------------
(* Handlers: the descriptor and its file, the result *)

Shutdown == On("shutdown", 0)
CloseAndStop(fd, own) == CloseFd(fd, own) \o Shutdown

EchoHandler(fd, own, res) ==
    IF res <= 0 THEN CloseFd(fd, own) ELSE Spawn(fd, "write", FALSE, "none")

\* Mutant: nobody reads from an accepted connection.
AcceptHandlerIdle(res) == IF res < 0 THEN <<>> ELSE Spawn(res, "write", FALSE, "none")

AcceptHandler(res) == IF res < 0 THEN <<>> ELSE Spawn(res, "read", TRUE, "EchoHandler")

ResponsesNeeded == 3
ClientReadHandler(fd, own, res) ==
    CASE res <= 0 -> CloseFd(fd, own)
      [] res > 0 /\ seen + 1 >= ResponsesNeeded -> On("count", 0) \o CloseAndStop(fd, own)
      [] OTHER -> On("count", 0)

ConnectCompleteHandler(fd, own, res) ==
    IF res < 0 THEN CloseAndStop(fd, own)
    ELSE Spawn(fd, "read", TRUE, "ClientReadHandler")
         \o FlattenSeq([i \in 1 .. 3 |-> Spawn(fd, "write", FALSE, "none")])

\* Connect(ip, port) without a handler: the failure is logged.
DefaultConnect(own, res) ==
    IF res < 0 THEN <<[Command EXCEPT !.op = "drop", !.own = own]>> ELSE <<>>

ResponseHandler(fd, own) == CloseAndStop(fd, own)

WriteDoneHandler(fd, own, res) ==
    IF res < 0 THEN CloseAndStop(fd, own) ELSE Spawn(fd, "read", FALSE, "ResponseHandler")

Reopen(code) == <<[Command EXCEPT !.op = "reopen", !.code = code]>>

VerifyReadHandler(fd, own) == CloseAndStop(fd, own)

WriteCompleteHandler(fd, own, res) ==
    IF res < 0 THEN CloseAndStop(fd, own) ELSE CloseFd(fd, own) \o Reopen("VerifyReadHandler")

ReadBackHandler(fd, own) == CloseAndStop(fd, own)

WriteHandler(fd, own, res) ==
    IF res < 0 THEN CloseAndStop(fd, own) ELSE CloseFd(fd, own) \o Reopen("ReadBackHandler")

AnnotatedReadHandler(fd, own) == CloseAndStop(fd, own)

\* Mutant: the next chunk is not asked for.
ReadChunkHandlerStops(fd, own, res) == IF res <= 0 THEN CloseAndStop(fd, own) ELSE <<>>

ReadChunkHandler(fd, own, res) ==
    IF res <= 0 THEN CloseAndStop(fd, own) ELSE Spawn(fd, "read", FALSE, "ReadChunkHandler")

RepeatReadHandler(fd, own, res) == IF res <= 0 THEN CloseFd(fd, own) ELSE <<>>

TimeoutAwareHandler(fd, own, res) == IF res < 0 THEN <<>> ELSE CloseAndStop(fd, own)

\* ExecuteCompletionHandler: handler_(buffer_), whose active fd is fd_.
ExecuteCompletionHandler(t, res) ==
    LET fd == task[t].fd
        own == task[t].on
        code == task[t].code
    IN  CASE code = "EchoHandler" -> EchoHandler(fd, own, res)
          [] code = "AcceptHandler" -> AcceptHandler(res)
          [] code = "ClientReadHandler" -> ClientReadHandler(fd, own, res)
          [] code = "ConnectCompleteHandler" -> ConnectCompleteHandler(fd, own, res)
          [] code = "DefaultConnect" -> DefaultConnect(own, res)
          [] code = "ResponseHandler" -> ResponseHandler(fd, own)
          [] code = "WriteDoneHandler" -> WriteDoneHandler(fd, own, res)
          [] code = "VerifyReadHandler" -> VerifyReadHandler(fd, own)
          [] code = "WriteCompleteHandler" -> WriteCompleteHandler(fd, own, res)
          [] code = "ReadBackHandler" -> ReadBackHandler(fd, own)
          [] code = "WriteHandler" -> WriteHandler(fd, own, res)
          [] code = "AnnotatedReadHandler" -> AnnotatedReadHandler(fd, own)
          [] code = "ReadChunkHandler" -> ReadChunkHandler(fd, own, res)
          [] code = "RepeatReadHandler" -> RepeatReadHandler(fd, own, res)
          [] code = "TimeoutAwareHandler" -> TimeoutAwareHandler(fd, own, res)
          [] OTHER -> <<>>

------------------------------------------------------------------------------
(* The loop's thread *)

\* RunEventLoop takes the next completion; once a shutdown is requested it ends.
Dispatch ==
    /\ todo = <<>> /\ ~stop /\ cq # <<>>
    /\ LET t == Head(cq)[1]
           res == Head(cq)[2]
       IN  /\ todo' = Completed(t, res, ExecuteCompletionHandler(t, res))
           /\ task' = [task EXCEPT ![t].at = "run"]
    /\ cq' = Tail(cq)
    /\ UNCHANGED <<fds, file, objs, data, listenFd, program, main, first, stop, seen, dropped>>

Doing(op) == todo # <<>> /\ Head(todo).op = op /\ todo' = Tail(todo)
Cmd == Head(todo)

DoClose ==
    /\ Doing("close") /\ fds' = Close(fds, Cmd.fd)
    /\ UNCHANGED <<file, task, objs, cq, data, listenFd, program, main, first, stop, seen, dropped>>

\* CreateTaskWithHandler, the setters and AddTask in a handler.
DoSpawn ==
    /\ Doing("spawn")
    /\ LET c == CreateTaskWithHandler(task, objs, Cmd.fd, Cmd.type, Cmd.code)
       IN  /\ task' = AddTask([c.task EXCEPT ![c.slot].repeat = Cmd.repeat], c.slot)
           /\ objs' = c.objs
    /\ UNCHANGED <<fds, file, cq, data, listenFd, program, main, first, stop, seen, dropped>>

\* open for reading; file_write stops when that fails, task_chain goes on with -1.
DoReopen ==
    /\ Doing("reopen")
    /\ \E ok \in BOOLEAN :
          LET fd == IF ok THEN FreeFd ELSE -1
              c == CreateTaskWithHandler(task, objs, fd, "read", Cmd.code)
              quit == fd = -1 /\ program = "file_write"
          IN  /\ CanOpen
              /\ fds' = IF fd = -1 THEN fds ELSE Opened
              /\ file' = IF fd = -1 THEN file ELSE Append(file, "file")
              /\ stop' = (stop \/ quit)
              /\ objs' = IF quit THEN objs ELSE c.objs
              /\ task' = IF quit THEN task
                         ELSE [c.task EXCEPT ![c.slot].at = "flight",
                                  ![c.slot].on = IF fd = -1 THEN Closed ELSE Len(file) + 1]
    /\ UNCHANGED <<cq, data, listenFd, program, main, first, seen, dropped>>

DoAdd ==
    /\ Doing("add") /\ task' = AddTask(task, Cmd.t)
    /\ UNCHANGED <<fds, file, objs, cq, data, listenFd, program, main, first, stop, seen, dropped>>

\* ReleaseNextTask, then AddTask.
DoNext ==
    /\ Doing("next")
    /\ task' = AddTask([task EXCEPT ![Cmd.t].next = 0], task[Cmd.t].next)
    /\ UNCHANGED <<fds, file, objs, cq, data, listenFd, program, main, first, stop, seen, dropped>>

\* A one-shot task that succeeded stays, for whoever made it to delete.
DoSettle ==
    /\ Doing("settle") /\ task' = [task EXCEPT ![Cmd.t].at = "settled"]
    /\ UNCHANGED <<fds, file, objs, cq, data, listenFd, program, main, first, stop, seen, dropped>>

DoDelete ==
    /\ Doing("delete") /\ DeleteTask(Cmd.t)
    /\ UNCHANGED <<fds, file, cq, data, listenFd, program, main, first, stop, seen, dropped>>

\* HandleTimeoutTask deletes the task; its handler does not run.
DoExpire ==
    /\ Doing("expire") /\ DeleteTask(Cmd.t)
    /\ dropped' = dropped \cup ({task[Cmd.t].on} \ {Closed})
    /\ UNCHANGED <<fds, file, cq, data, listenFd, program, main, first, stop, seen>>

DoDrop ==
    /\ Doing("drop") /\ dropped' = dropped \cup ({Cmd.own} \ {Closed})
    /\ UNCHANGED <<evars, program, main, first, stop, seen>>

DoCount ==
    /\ Doing("count") /\ seen' = seen + 1
    /\ UNCHANGED <<evars, program, main, first, stop, dropped>>

DoShutdown ==
    /\ Doing("shutdown") /\ stop' = TRUE
    /\ UNCHANGED <<evars, program, main, first, seen, dropped>>

Loop ==
    \/ Dispatch \/ DoClose \/ DoSpawn \/ DoReopen \/ DoAdd \/ DoNext \/ DoSettle
    \/ DoDelete \/ DoExpire \/ DoDrop \/ DoCount \/ DoShutdown

------------------------------------------------------------------------------
(* The main threads *)

\* server_tcp_example: Start, then CreateAcceptTask; a failure ends main.
ServerStart ==
    /\ program = "server" /\ main = "start" /\ listenFd = -1 /\ CanOpen
    /\ \E ok \in BOOLEAN : ServerInit(ok) /\ main' = IF ok THEN "start" ELSE "failed"
    /\ UNCHANGED <<task, objs, cq, data, program, first, todo, stop, seen, dropped>>

ServerMain ==
    /\ program = "server" /\ main = "start" /\ listenFd # -1
    /\ CreateAcceptTask("AcceptHandler")
    /\ first' = FreeSlot(task) /\ main' = "made"
    /\ UNCHANGED <<fds, file, cq, data, listenFd, program, todo, stop, seen, dropped>>

\* The connecting examples: Connect returns nullptr when no socket was prepared.
\* A port that is refused is given no timeout: the linked timeout would be a
\* second completion of the same task (see IOHandler).
ClientMain(handler, chained) ==
    /\ main = "start" /\ CanOpen
    /\ \E addressOk, timed \in BOOLEAN, port \in Ports :
          /\ timed => ValidateConnectTask(port)
          /\ PrepareSocket(addressOk)
          /\ LET c == Connect(port, handler, timed)
                 w == CreateTaskWithHandler(c.task, c.objs, FreeFd, "write", "WriteDoneHandler")
                 made == IF chained
                         THEN [w EXCEPT !.task[c.slot].next = w.slot, !.slot = c.slot] ELSE c
             IN  IF addressOk
                 THEN main' = "made" /\ first' = made.slot /\ task' = made.task /\ objs' = made.objs
                 ELSE main' = "failed" /\ UNCHANGED <<first, task, objs>>
    /\ UNCHANGED <<cq, data, listenFd, program, todo, stop, seen, dropped>>

TcpWrMain == program = "tcp_wr" /\ ClientMain("ConnectCompleteHandler", FALSE)
TcpClientMain == program = "tcp_client" /\ ClientMain("DefaultConnect", TRUE)

\* The examples that open a file and make one task for it.
FileMain(type, handler, repeat, timed, retry) ==
    /\ main = "start" /\ CanOpen
    /\ \E ok \in BOOLEAN :
          LET c == CreateTaskWithHandler(task, objs, FreeFd, type, handler)
          IN  IF ok
              THEN /\ fds' = Opened /\ file' = Append(file, "file") /\ objs' = c.objs
                   /\ task' = [c.task EXCEPT ![c.slot].repeat = repeat, ![c.slot].timed = timed,
                                             ![c.slot].max_retry = retry]
                   /\ main' = "made" /\ first' = c.slot
              ELSE main' = "failed" /\ UNCHANGED <<fds, file, objs, task, first>>
    /\ UNCHANGED <<cq, data, listenFd, program, todo, stop, seen, dropped>>

FileWriteMain ==
    program = "file_write" /\ FileMain("write", "WriteCompleteHandler", FALSE, FALSE, -1)
TaskChainMain == program = "task_chain" /\ FileMain("write", "WriteHandler", FALSE, FALSE, -1)
CustomHandlerMain ==
    program = "custom_handler" /\ FileMain("read", "AnnotatedReadHandler", FALSE, FALSE, -1)
ReadLargeFileMain ==
    program = "read_large_file" /\ FileMain("read", "ReadChunkHandler", FALSE, FALSE, -1)
SignalShutdownMain ==
    program = "signal_shutdown" /\ FileMain("read", "RepeatReadHandler", TRUE, FALSE, -1)
TimeoutRetryMain ==
    program = "timeout_retry" /\ FileMain("read", "TimeoutAwareHandler", FALSE, TRUE, 3)

\* io.AddTask, after which main is in io.Join.
MainAdds ==
    /\ main = "made" /\ main' = "join" /\ task' = AddTask(task, first)
    /\ UNCHANGED <<fds, file, objs, cq, data, listenFd, program, first, todo, stop, seen, dropped>>

\* The two examples that call InstallSignalHandlers.
Signal ==
    /\ program \in {"server", "signal_shutdown"} /\ main = "join" /\ ~stop /\ stop' = TRUE
    /\ UNCHANGED <<evars, program, main, first, todo, seen, dropped>>

\* Join returns; ~TcpServer closes listen_fd_, and signal_shutdown the number it
\* opened, which is 1.
MainEnds ==
    /\ main = "join" /\ stop /\ todo = <<>> /\ main' = "done"
    /\ fds' = CASE program = "server" -> ServerDestroyed
                [] program = "signal_shutdown" -> Close(fds, 1)
                [] OTHER -> fds
    /\ UNCHANGED <<file, task, objs, cq, data, listenFd, program, first, todo, stop, seen, dropped>>

Main ==
    \/ ServerStart \/ ServerMain \/ TcpWrMain \/ TcpClientMain
    \/ FileWriteMain \/ TaskChainMain \/ CustomHandlerMain \/ ReadLargeFileMain
    \/ SignalShutdownMain \/ TimeoutRetryMain \/ MainAdds \/ MainEnds

------------------------------------------------------------------------------
\* Until the process ends.
Running == main \notin {"done", "failed"}
Kernel(t) == Running /\ KernelCompletes(t) /\ UNCHANGED xvars
Client(t) == Running /\ KernelAccepts(t) /\ UNCHANGED xvars
Peer(f) == Running /\ PeerCloses(f) /\ UNCHANGED xvars
MainSetsCheck == main = "made" /\ SetCheckBuffer(first) /\ UNCHANGED xvars

Next ==
    \/ Main \/ Loop \/ Signal \/ MainSetsCheck
    \/ \E t \in Slots : Kernel(t) \/ Client(t)
    \/ \E f \in 1 .. Len(file) : Peer(f)

\* The threads are scheduled and the kernel completes what can be completed.
\* Nothing is assumed of peers that connect or leave, or of signals.
Spec == Init /\ [][Next]_vars
        /\ WF_vars(Main) /\ WF_vars(Loop) /\ WF_vars(\E t \in Slots : Kernel(t))

------------------------------------------------------------------------------
(* Properties *)

\* No descriptor is forgotten: while the loop runs, an open one is the server's
\* listening socket, or is used by a task that is still to complete, on the very
\* file it is bound to, or by an accept or a command still to be handled; except
\* for the files whose task was given no handler to close them.  So a failed
\* Start or Connect leaves nothing open (tcp_server.hpp lines 76-84,
\* tcp_client.hpp lines 80-85) and every accepted connection has its task.
Accounted ==
    ~stop => \A n \in Fds :
        \/ fds[n] \in {Closed} \cup dropped
        \/ n = listenFd
        \/ \E s \in Slots : /\ task[s].fd = n
                            /\ task[s].at \in {"ready", "flight", "posted", "run"}
                            /\ task[s].at = "flight" => task[s].on = fds[n]
        \/ \E i \in 1 .. Len(cq) : task[cq[i][1]].type = "accept" /\ cq[i][2] = n
        \/ \E i \in 1 .. Len(todo) : todo[i].op \in {"close", "spawn"} /\ todo[i].fd = n

\* A handler and the library may both close a task's descriptor (handler.hpp line
\* 334 and the handlers' own close), but the second close never hits another file
\* that has taken the number since.  EchoHandler of the server is the exception.
ClosesOwn ==
    program # "server" /\ todo # <<>> /\ Head(todo).op = "close" /\ Head(todo).fd \in Fds
        => fds[Head(todo).fd] \in {Closed, Head(todo).own}

\* Every callable object is held by exactly one function of one live task, and
\* the functions of a live task can be called: InlineFunction's moves (task.hpp
\* lines 41-61) and the deletion of a chain neither lose, share nor outlive one.
CallablesOwned ==
    LET held(s) == {task[s].handler, task[s].check}
        live == {s \in Slots : task[s].live}
    IN  /\ \A s \in live : \A f \in held(s) : Callable(f, objs)
        /\ \A s, r \in live : s # r => held(s) \cap held(r) = {}
        /\ objs = UNION {{f.obj : f \in held(s)} : s \in live}

\* The server lets go of a connection whose peer has left: a repeating read
\* sees the end of file and EchoHandler closes the descriptor (lines 31-39).
GoneReleased ==
    \A f \in 1 .. MaxFiles :
        (program = "server" /\ f <= Len(file) /\ file[f] = "gone")
            ~> (stop \/ \A n \in Fds : fds[n] # f)

\* The file examples come to their end whatever the kernel answers, and so does
\* tcp_client_example once it is connected: each handler goes on with the chain
\* or requests the shutdown that Join waits for.
ProgramEnds ==
    (\/ main = "join" /\ program \in {"file_write", "task_chain", "custom_handler", "read_large_file"}
     \/ program = "tcp_client" /\ file # <<>> /\ file[1] = "up")
        ~> main = "done"
=============================================================================
