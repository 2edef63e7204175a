-------------------------- MODULE LifecycleTheorems --------------------------
(***************************************************************************)
(* What LifecycleProofs leads to: the objects threads are inside are alive, *)
(* and the program has its own signal actions back.                         *)
(***************************************************************************)
EXTENDS LifecycleProofs, FiniteSetTheorems

\* Most steps are first-order; the ones with arithmetic or sequences say SMT.
USE ZenonT(120)

\* The hypothesis of LifecycleProofs, from the theory of finite sets.
LEMMA SlotsCounted == Counting
  <1>1. ASSUME NEW n \in Nat, NEW S \in SUBSET (0..n)
        PROVE  /\ Cardinality(S) \in Nat /\ (Cardinality(S) = 0 <=> S = {})
               /\ \A k \in S : S = {k} => Cardinality(S) = 1
    <2>1. IsFiniteSet(0..n)
      BY SMTT(30), FS_Interval
    <2>2. IsFiniteSet(S)
      BY <2>1, FS_Subset
    <2>3. Cardinality(S) \in Nat /\ (Cardinality(S) = 0 <=> S = {})
      BY <2>2, FS_CardinalityType, FS_EmptySet
    <2>4. \A k : Cardinality({k}) = 1
      BY FS_Singleton
    <2> QED BY <2>3, <2>4
  <1> QED BY <1>1 DEF Counting

-----------------------------------------------------------------------------
(* Nobody is inside an object that is gone *)

\* A thread takes signals for one object only: signals come to the application's
\* thread, or there is one object.
Alone == Takers \subseteq {Main} \/ \A i, j \in Ios : i = j

\* The objects the frames of an event thread may be on: its own, and none for a
\* signal.
Own(q) == IF q \in Takers THEN {q, None} ELSE {q}

Live ==
    /\ \A i \in Ios : life[i] = "up" => uring[i].open
    /\ \A p \in Threads : \A i \in IosOf(stack[p]) : i # None => life[i] \in {"up", "failed"}
    /\ active # None => life[active] = "up"
    /\ \A q \in Ios : IosOf(stack[q]) \subseteq Own(q)
    /\ \A i \in Ios : <<1, "exit", i>> \in Ctl(stack[Main]) => stack[i] = <<>>

\* A step that makes or ends no object, and adds frames on live objects of J.
LEMMA LiveKept ==
    ASSUME Live, NEW J, IosKept(J), life' = life,
           \A j \in J : j # None => life[j] \in {"up", "failed"},
           \A i \in Ios : uring'[i].open = uring[i].open,
           active' # None => life[active'] = "up",
           \A q \in Ios : IosOf(stack'[q]) \subseteq Own(q),
           ExitKept, \A i \in Ios : stack[i] = <<>> => stack'[i] = <<>>
    PROVE  Live'
  <1>1. (\A i \in Ios : life[i] = "up" => uring[i].open)'
    BY DEF Live
  <1>2. (\A p \in Threads : \A i \in IosOf(stack[p]) : i # None => life[i] \in {"up", "failed"})'
    BY DEF Live, IosKept
  <1>3. (\A q \in Ios : IosOf(stack[q]) \subseteq Own(q))'
    BY DEF Own
  <1>4. (\A i \in Ios : <<1, "exit", i>> \in Ctl(stack[Main]) => stack[i] = <<>>)'
    BY DEF Live, ExitKept
  <1> QED BY <1>1, <1>2, <1>3, <1>4 DEF Live

\* A step of a thread inside one of its calls, on the objects it is already in.
LEMMA LiveStep ==
    ASSUME Live, NEW p \in Threads, stack[p] # <<>>, OnlyStackOf(p), IosKept({}), CtlKept,
           life' = life, \A i \in Ios : uring'[i].open = uring[i].open, active' = active
    PROVE  Live'
  <1>1. \A q \in Ios : IosOf(stack'[q]) \subseteq Own(q)
    BY DEF Live, IosKept, Threads
  <1>2. ExitKept
    BY DEF CtlKept, ExitKept
  <1>3. \A i \in Ios : stack[i] = <<>> => stack'[i] = <<>>
    BY DEF OnlyStackOf, Threads
  <1>4. active' # None => life[active'] = "up"
    BY DEF Live
  <1> QED BY <1>1, <1>2, <1>3, <1>4, LiveKept

\* The application calls a member function of a live object i.
LEMMA LiveCall ==
    ASSUME Live, NEW i \in Ios, OnlyStackOf(Main), IosKept({i}), ExitKept,
           life[i] \in {"up", "failed"}, life' = life,
           \A j \in Ios : uring'[j].open = uring[j].open,
           active' # None => life[active'] = "up"
    PROVE  Live'
  <1>1. \A q \in Ios : stack'[q] = stack[q]
    BY LifecycleAssumption DEF OnlyStackOf, Threads
  <1>2. \A q \in Ios : IosOf(stack'[q]) \subseteq Own(q)
    BY <1>1 DEF Live
  <1> QED BY <1>1, <1>2, LiveKept

LEMMA LiveSubmission ==
    ASSUME Typed, Live, NEW p \in Threads,
           RequestShutdown(p) \/ GetSqe(p) \/ PutTail(p) \/ FillEntry(p) \/ TagEntry(p)
    PROVE  Live'
  <1>1. stack[p] # <<>>
    BY DEF RequestShutdown, GetSqe, PutTail, FillEntry, TagEntry, At
  <1>2. life' = life /\ active' = active
    BY DEF RequestShutdown, GetSqe, PutTail, FillEntry, TagEntry, registration
  <1>3. OnlyStackOf(p) /\ IosKept({}) /\ CtlKept
    BY RequestShutdownFacts, GetSqeFacts, PutTailFacts, FillEntryFacts, TagEntryFacts
  <1>4. \A i \in Ios : uring'[i].open = uring[i].open
    <2>1. RequestShutdown(p) \/ GetSqe(p) => uring' = uring
      BY DEF RequestShutdown, GetSqe, queues
    <2> QED BY <2>1, PutTailFacts, FillEntryFacts, TagEntryFacts
  <1> QED BY <1>1, <1>2, <1>3, <1>4, LiveStep

LEMMA LiveEnter ==
    ASSUME Counting, Typed, Live, NEW p \in Threads, Enter(p)
    PROVE  Live'
  <1> DEFINE i == Top(p).io
  <1>1. /\ CtlKept /\ IosKept({}) /\ Entered(p, i, Pending(uring[i]))
        /\ \A j \in Ios : uring'[j].open = uring[j].open
    BY EnterFacts
  <1>2. life' = life /\ active' = active /\ stack[p] # <<>>
    BY DEF Enter, registration, At
  <1>3. \A q \in Ios : IosOf(stack'[q]) \subseteq Own(q)
    BY <1>1 DEF Live, IosKept, Threads
  <1>4. ExitKept
    BY <1>1 DEF CtlKept, ExitKept
  <1>5. ASSUME NEW q \in Ios, stack[q] = <<>> PROVE stack'[q] = <<>>
    <2>1. q \in Threads /\ q # p /\ stack'[q] \in Seq(Frames)
      BY <1>1, <1>2, <1>5 DEF Threads, Entered
    <2>2. Len(stack[q]) = 0
      BY SMTT(30), <1>5
    <2>3. Len(stack'[q]) = 0
      BY <1>1, <2>1, <2>2 DEF Entered
    <2> QED BY SMTT(30), <2>1, <2>3
  <1>6. active' # None => life[active'] = "up"
    BY <1>2 DEF Live
  <1> QED BY <1>1, <1>2, <1>3, <1>4, <1>5, <1>6, LiveKept

LEMMA LiveLoop ==
    ASSUME Typed, Live, NEW i \in Ios, LoopTest(i) \/ TakeCqe(i)
    PROVE  Live'
  <1>1. i \in Threads /\ life' = life /\ active' = active
    BY DEF Threads, LoopTest, TakeCqe, registration
  <1>2. stack[i] # <<>> /\ OnlyStackOf(i) /\ IosKept({}) /\ CtlKept
    BY LoopTestFacts, TakeCqeFacts
  <1>3. \A j \in Ios : uring'[j].open = uring[j].open
    <2>1. LoopTest(i) => uring' = uring
      BY DEF LoopTest, queues
    <2> QED BY <2>1, TakeCqeFacts
  <1> QED BY <1>1, <1>2, <1>3, LiveStep

LEMMA LiveDispatch ==
    ASSUME Typed, Live, NEW i \in Ios, Dispatch(i)
    PROVE  Live'
  <1>1. /\ OnlyStackOf(i) /\ CtlKept /\ IosOf(stack'[i]) = {i} /\ stack[i] # <<>>
        /\ i \in Threads
    BY DispatchFacts DEF Threads
  <1>2. life' = life /\ active' = active /\ uring' = uring
    BY DEF Dispatch, registration, queues
  <1>3. life[i] \in {"up", "failed"}
    <2>1. At(i, "read")
      BY DEF Dispatch
    <2>2. stack[i] \in Seq(Frames) /\ stack[i] # <<>> /\ Top(i) = stack[i][1] /\ Top(i).io \in Ios
      BY SMTT(30), <1>1, <2>1, TopFacts
    <2>3. Top(i).io \in IosOf(stack[i])
      <3>1. 1 \in 1..Len(stack[i])
        BY SMTT(30), <2>2, StackFacts
      <3> QED BY <2>2, <3>1 DEF IosOf
    <2>4. Top(i).io = i
      <3>1. Top(i).io \in Own(i) /\ Top(i).io # None
        BY <2>2, <2>3, LifecycleAssumption DEF Live
      <3> QED BY <3>1 DEF Own
    <2> QED BY <1>1, <2>3, <2>4, LifecycleAssumption DEF Live
  <1>4. IosKept({i})
    BY <1>1 DEF IosKept, OnlyStackOf
  <1>5. \A q \in Ios : IosOf(stack'[q]) \subseteq Own(q)
    <2>1. i \in Own(i)
      BY DEF Own
    <2>2. \A q \in Ios : q # i => stack'[q] = stack[q]
      BY <1>1 DEF OnlyStackOf, Threads
    <2> QED BY <1>1, <2>1, <2>2 DEF Live
  <1>6. ExitKept
    BY <1>1 DEF CtlKept, ExitKept
  <1>7. \A j \in Ios : stack[j] = <<>> => stack'[j] = <<>>
    BY <1>1 DEF OnlyStackOf, Threads
  <1>8. active' # None => life[active'] = "up"
    BY <1>2 DEF Live
  <1> QED BY <1>2, <1>3, <1>4, <1>5, <1>6, <1>7, <1>8, LiveKept

LEMMA LiveKernel ==
    ASSUME Typed, Live, NEW i \in Ios, NEW q \in Requests, KernelCompletes(i, q)
    PROVE  Live'
  <1>1. /\ CtlKept /\ IosKept({}) /\ OnlyStackOf(i) /\ Shifted(stack[i], stack'[i])
        /\ \A j \in Ios : uring'[j].open = uring[j].open
    BY KernelCompletesFacts
  <1>2. life' = life /\ active' = active
    BY DEF KernelCompletes, registration
  <1>3. \A p \in Ios : IosOf(stack'[p]) \subseteq Own(p)
    BY <1>1 DEF Live, IosKept, Threads
  <1>4. ExitKept
    BY <1>1 DEF CtlKept, ExitKept
  <1>5. ASSUME NEW j \in Ios, stack[j] = <<>> PROVE stack'[j] = <<>>
    <2>1. CASE j # i
      BY <1>1, <1>5, <2>1 DEF OnlyStackOf, Threads
    <2>2. CASE j = i
      <3>1. stack'[j] \in Seq(Frames) /\ Len(stack'[j]) = Len(stack[j]) /\ Len(stack[j]) = 0
        BY <1>1, <1>5, <2>2 DEF Shifted
      <3> QED BY SMTT(30), <3>1
    <2> QED BY <2>1, <2>2
  <1>6. active' # None => life[active'] = "up"
    BY <1>2 DEF Live
  <1> QED BY <1>1, <1>2, <1>3, <1>4, <1>5, <1>6, LiveKept

\* A signal finds the registered object alive: it is unregistered before it goes.
LEMMA LiveSignal ==
    ASSUME Typed, Live, Alone, NEW p \in Threads,
           OnSignal(p) \/ \E s \in Signals : Deliver(p, s)
    PROVE  Live'
  <1>1. life' = life /\ active' = active /\ uring' = uring
    BY DEF OnSignal, Deliver, registration, queues
  <1>2. active' # None => life[active'] = "up"
    BY <1>1 DEF Live
  <1>3. CASE OnSignal(p)
    <2>1. /\ CtlKept /\ IosKept({active}) /\ OnlyStackOf(p)
          /\ stack[p] # <<>> /\ Top(p).pc = "sig" /\ Top(p) \in Frames
      BY <1>3, OnSignalFacts
    <2>2. stack[p] \in Seq(Frames) /\ Top(p) = stack[p][1] /\ Top(p).io = None
      BY <2>1, FrameFacts DEF Typed, Top
    <2>3. None \in IosOf(stack[p])
      <3>1. 1 \in 1..Len(stack[p])
        BY SMTT(30), <2>1, <2>2, StackFacts
      <3> QED BY <2>2, <3>1 DEF IosOf
    <2>4. p \in Ios => p \in Takers
      <3>1. p \in Ios => None \in Own(p) /\ p # None
        BY <2>3, LifecycleAssumption DEF Live
      <3> QED BY <3>1 DEF Own
    <2>5. p \in Ios => active \in {p, None}
      <3>1. p \in Ios => p # Main
        BY LifecycleAssumption
      <3> QED BY <2>4, <3>1 DEF Alone, Typed
    <2>6. p \in Ios => {p, None} \subseteq Own(p)
      BY <2>4 DEF Own
    <2>7. \A q \in Ios : IosOf(stack'[q]) \subseteq Own(q)
      <3>1. \A q \in Ios : q # p => stack'[q] = stack[q]
        BY <2>1 DEF OnlyStackOf, Threads
      <3>2. IosOf(stack'[p]) \subseteq IosOf(stack[p]) \cup {active}
        BY <2>1 DEF IosKept
      <3> QED BY SMTT(30), <2>5, <2>6, <3>1, <3>2 DEF Live
    <2>8. ExitKept
      BY <2>1 DEF CtlKept, ExitKept
    <2>9. \A i \in Ios : stack[i] = <<>> => stack'[i] = <<>>
      BY <2>1 DEF OnlyStackOf, Threads
    <2>10. \A j \in {active} : j # None => life[j] \in {"up", "failed"}
      BY DEF Live
    <2> QED BY <1>1, <1>2, <2>1, <2>7, <2>8, <2>9, <2>10, LiveKept
  <1>4. ASSUME NEW s \in Signals, Deliver(p, s) PROVE Live'
    <2>1. CtlKept /\ IosKept({None}) /\ OnlyStackOf(p) /\ p \in Takers /\ stack[p] # <<>>
      BY <1>4, DeliverFacts
    <2>2. \A q \in Ios : IosOf(stack'[q]) \subseteq Own(q)
      <3>1. \A q \in Ios : q # p => stack'[q] = stack[q]
        BY <2>1 DEF OnlyStackOf, Threads
      <3>2. IosOf(stack'[p]) \subseteq IosOf(stack[p]) \cup {None}
        BY <2>1 DEF IosKept
      <3>3. None \in Own(p)
        BY <2>1 DEF Own
      <3> QED BY <3>1, <3>2, <3>3 DEF Live
    <2>3. ExitKept
      BY <2>1 DEF CtlKept, ExitKept
    <2>4. \A i \in Ios : stack[i] = <<>> => stack'[i] = <<>>
      BY <2>1 DEF OnlyStackOf, Threads
    <2> QED BY <1>1, <1>2, <2>1, <2>2, <2>3, <2>4, LiveKept
  <1> QED BY <1>3, <1>4

LEMMA LiveRegistration ==
    ASSUME Typed, Live, Registration
    PROVE  Live'
  <1>1. /\ OnlyStackOf(Main) /\ IosKept({}) /\ ExitKept /\ active' \in {None, active}
        /\ life' = life /\ uring' = uring
    BY RegistrationFacts DEF queues
  <1>2. \A q \in Ios : stack'[q] = stack[q]
    BY <1>1, LifecycleAssumption DEF OnlyStackOf, Threads
  <1>3. \A q \in Ios : IosOf(stack'[q]) \subseteq Own(q)
    BY <1>2 DEF Live
  <1>4. active' # None => life[active'] = "up"
    BY <1>1 DEF Live
  <1> QED BY <1>1, <1>2, <1>3, <1>4, LiveKept

LEMMA LiveApplication ==
    ASSUME Typed, RegInv, Live, NEW i \in Ios,
           \/ InstallSignalHandlers(i) \/ CallRequestShutdown(i) \/ Destroy(i)
           \/ \E t \in Tasks, kind \in Kinds : AddTask(i, t, kind)
    PROVE  Live'
  <1>1. \/ InstallSignalHandlers(i)
        \/ /\ CallRequestShutdown(i) \/ Destroy(i) \/ \E t \in Tasks, kind \in Kinds : AddTask(i, t, kind)
           /\ active' = active
    BY DEF CallRequestShutdown, Destroy, AddTask, registration
  <1>2. life' = life /\ uring' = uring
    BY DEF InstallSignalHandlers, CallRequestShutdown, Destroy, AddTask, queues
  <1>3. OnlyStackOf(Main) /\ IosKept({i}) /\ life[i] \in {"up", "failed"}
    BY InstallFacts, CallRequestShutdownFacts, DestroyFacts, AddTaskFacts
  <1>4. ExitKept
    <2>1. CallRequestShutdown(i) \/ (\E t \in Tasks, kind \in Kinds : AddTask(i, t, kind)) => CtlKept
      BY CallRequestShutdownFacts, AddTaskFacts
    <2>2. InstallSignalHandlers(i) =>
             Ctl(stack'[Main]) = Ctl(stack[Main]) \cup {<<Len(stack[Main]), "int", i>>}
      BY InstallFacts
    <2>3. Destroy(i) =>
             Ctl(stack'[Main]) = Ctl(stack[Main]) \cup {<<Len(stack[Main]), "join", i>>}
               \cup (IF installed[i] THEN {<<Len(stack[Main]) + 2, "unint", i>>} ELSE {})
      BY DestroyFacts
    <2> QED BY SMTT(30), <2>1, <2>2, <2>3 DEF CtlKept, ExitKept
  <1>5. active' # None => life[active'] = "up"
    BY <1>1, InstallFacts DEF Live, InstallSignalHandlers
  <1> QED BY <1>2, <1>3, <1>4, <1>5, LiveCall

LEMMA LiveConstruct ==
    ASSUME Typed, RegInv, Live, NEW i \in Ios, Construct(i)
    PROVE  Live'
  <1>1. OnlyStackOf(i) /\ CtlKept /\ life[i] = "unborn" /\ active' = active
    BY ConstructFacts DEF Construct, registration
  <1>2. \A j \in Ios : <<1, "exit", j>> \notin Ctl(stack[Main])
    <2>1. At(Main, "idle") /\ "idle" \in Control
      BY DEF Construct, Control
    <2>2. <<Len(stack[Main]) - 1, "idle", None>> \in Ctl(stack[Main])
      BY <2>1, MainHere
    <2>3. Ctl(stack[Main]) = {Ground}
      BY <2>2, RegIdle DEF Between
    <2> QED BY <2>3 DEF Ground
  <1>3. life \in [Ios -> {"unborn", "failed", "up", "gone"}] /\ uring \in [Ios -> Rings]
        /\ i # None /\ i \in Threads /\ active \in Ios \cup {None}
    BY LifecycleAssumption DEF Typed, Threads
  <1>4. \A p \in Threads : i \notin IosOf(stack[p])
    BY <1>1, <1>3 DEF Live
  <1>5. active # i
    BY <1>1, <1>3 DEF Live
  <1>6. (\A j \in Ios : <<1, "exit", j>> \in Ctl(stack[Main]) => stack[j] = <<>>)'
    BY <1>1, <1>2 DEF CtlKept
  <1>7. \A p \in Threads : p # i => stack'[p] = stack[p]
    BY <1>1 DEF OnlyStackOf
  <1>8. \A p \in Threads : \A j \in IosOf(stack[p]) : j # None => j \in Ios
    <2>1. ASSUME NEW p \in Threads, NEW k \in 1..Len(stack[p])
          PROVE  stack[p][k].io \in Ios \cup {None}
      <3>1. stack[p] \in Seq(Frames)
        BY DEF Typed
      <3>2. stack[p][k] \in Frames
        BY <3>1, StackFacts
      <3> QED BY <3>2, FrameFacts
    <2> QED BY <2>1 DEF IosOf
  <1>9. CASE /\ life' = [life EXCEPT ![i] = "up"] /\ uring' = [uring EXCEPT ![i] = QueueInit]
             /\ IosOf(stack'[i]) = {i}
    <2>1. (\A j \in Ios : life[j] = "up" => uring[j].open)'
      BY <1>3, <1>9, RingTypes DEF Live
    <2>2. (\A p \in Threads : \A j \in IosOf(stack[p]) : j # None => life[j] \in {"up", "failed"})'
      BY SMTT(30), <1>3, <1>4, <1>7, <1>8, <1>9 DEF Live
    <2>3. (active # None => life[active] = "up")'
      BY <1>1, <1>3, <1>5, <1>9 DEF Live
    <2>4. (\A q \in Ios : IosOf(stack[q]) \subseteq Own(q))'
      <3>1. i \in Own(i)
        BY DEF Own
      <3>2. \A q \in Ios : IosOf(stack'[q]) \subseteq Own(q)
        BY <1>7, <1>9, <3>1 DEF Live, Threads
      <3> QED BY <3>2 DEF Own
    <2> QED BY <1>6, <2>1, <2>2, <2>3, <2>4 DEF Live
  <1>10. CASE life' = [life EXCEPT ![i] = "failed"] /\ uring' = uring /\ stack' = stack
    <2>1. (\A j \in Ios : life[j] = "up" => uring[j].open)'
      BY <1>3, <1>10 DEF Live
    <2>2. (\A p \in Threads : \A j \in IosOf(stack[p]) : j # None => life[j] \in {"up", "failed"})'
      BY <1>3, <1>4, <1>8, <1>10 DEF Live
    <2>3. (active # None => life[active] = "up")'
      BY <1>1, <1>3, <1>5, <1>10 DEF Live
    <2>4. (\A q \in Ios : IosOf(stack[q]) \subseteq Own(q))'
      BY <1>10 DEF Live, Own
    <2> QED BY <1>6, <2>1, <2>2, <2>3, <2>4 DEF Live
  <1> QED BY <1>9, <1>10, ConstructFacts

LEMMA LiveJoin ==
    ASSUME Typed, RegInv, Live, Join
    PROVE  Live'
  <1>1. At(Main, "join") /\ life' = life /\ uring' = uring /\ active' = active
    BY DEF Join, registration, queues
  <1>2. PICK i \in Ios : i = Top(Main).io
    BY JoinFacts
  <1>3. OnlyStackOf(Main) /\ IosKept({}) /\ stack[i] = <<>>
    BY <1>2, JoinFacts DEF Join
  <1>4. Ctl(stack[Main]) = {Ground, <<1, "join", i>>} /\ Len(stack[Main]) - 1 = 1
    BY SMTT(30), <1>1, <1>2, JoinEnding
  <1>5. Ctl(stack'[Main]) = (Ctl(stack[Main]) \ {<<Len(stack[Main]) - 1, "join", i>>})
                               \cup {<<Len(stack[Main]) - 1, "exit", i>>}
    BY <1>2, JoinFacts
  <1>6. \A q \in Ios : stack'[q] = stack[q]
    BY <1>3, LifecycleAssumption DEF OnlyStackOf, Threads
  <1>7. (\A j \in Ios : <<1, "exit", j>> \in Ctl(stack[Main]) => stack[j] = <<>>)'
    <2>1. \A j \in Ios : <<1, "exit", j>> \in Ctl(stack'[Main]) => j = i
      BY <1>4, <1>5 DEF Ground
    <2> QED BY <1>3, <1>6, <2>1
  <1>8. (\A p \in Threads : \A j \in IosOf(stack[p]) : j # None => life[j] \in {"up", "failed"})'
    BY <1>1, <1>3 DEF Live, IosKept
  <1>9. (\A q \in Ios : IosOf(stack[q]) \subseteq Own(q))'
    BY <1>6 DEF Live, Own
  <1> QED BY <1>1, <1>7, <1>8, <1>9 DEF Live

\* io_uring_queue_exit runs when the event thread has ended and the application
\* is in no other call.
LEMMA LiveExit ==
    ASSUME Typed, RegInv, Live, Exit
    PROVE  Live'
  <1>1. PICK i \in Ios : i = Top(Main).io
    BY ExitFacts
  <1>2. /\ OnlyStackOf(Main) /\ Popped(stack[Main], stack'[Main])
        /\ <<Len(stack[Main]) - 1, "exit", i>> \in Ctl(stack[Main])
        /\ Ctl(stack'[Main]) = Ctl(stack[Main]) \ {<<Len(stack[Main]) - 1, "exit", i>>}
        /\ life' = [life EXCEPT ![i] = "gone"] /\ uring' = [uring EXCEPT ![i] = Unmapped]
    BY <1>1, ExitFacts
  <1>3. /\ Len(stack[Main]) - 1 = 1 /\ Ending(i)
        /\ Ctl(stack[Main]) = {Ground, <<1, "exit", i>>}
    BY <1>2, RegCases
  <1>4. active' = active /\ life \in [Ios -> {"unborn", "failed", "up", "gone"}]
        /\ uring \in [Ios -> Rings] /\ active \in Ios \cup {None}
        /\ stack[Main] \in Seq(Frames) /\ i # None
    BY LifecycleAssumption DEF Exit, registration, Typed, Threads
  <1>5. stack[i] = <<>>
    BY <1>3 DEF Live
  <1>6. \A q \in Ios : stack'[q] = stack[q]
    BY <1>2, LifecycleAssumption DEF OnlyStackOf, Threads
  <1>7. IosOf(stack'[Main]) \subseteq {None}
    <2>1. Len(stack[Main]) \in Nat
      BY <1>4, StackFacts
    <2>2. Len(stack[Main]) = 2 /\ Len(stack'[Main]) = 1 /\ stack'[Main][1] = stack[Main][2]
      BY SMTT(30), <1>2, <1>3, <2>1 DEF Popped
    <2>3. Up(stack[Main], 0) = stack[Main][2]
      BY SMTT(30), <2>2 DEF Up
    <2>4. Up(stack[Main], 0).io = None
      <3>1. <<0, "idle", None>> \in Ctl(stack[Main])
        BY <1>3 DEF Ground
      <3> QED BY <1>4, <3>1, CtlFacts
    <2> QED BY SMTT(30), <2>2, <2>3, <2>4 DEF IosOf
  <1>8. \A q \in Ios : i \notin IosOf(stack[q])
    <2>1. IosOf(stack[i]) = {}
      BY SMTT(30), <1>5 DEF IosOf
    <2>2. \A q \in Ios : q # i => i \notin Own(q)
      BY <1>4 DEF Own
    <2> QED BY <2>1, <2>2 DEF Live
  <1>9. active # i
    BY <1>3, <1>4 DEF Ending, Unregistered, Registered
  <1>10. (\A j \in Ios : life[j] = "up" => uring[j].open)'
    BY <1>2, <1>4 DEF Live
  <1>11. (\A p \in Threads : \A j \in IosOf(stack[p]) : j # None => life[j] \in {"up", "failed"})'
    <2>1. ASSUME NEW q \in Ios, NEW j \in IosOf(stack[q]), j # None PROVE life'[j] \in {"up", "failed"}
      <3>1. j = q /\ life[j] \in {"up", "failed"} /\ j # i
        BY SMTT(30), <1>8, <2>1 DEF Live, Own, Threads
      <3> QED BY <1>2, <1>4, <3>1
    <2> QED BY <1>6, <1>7, <2>1 DEF Threads
  <1>12. (active # None => life[active] = "up")'
    BY <1>2, <1>4, <1>9 DEF Live
  <1>13. (\A q \in Ios : IosOf(stack[q]) \subseteq Own(q))'
    BY <1>6 DEF Live, Own
  <1>14. (\A j \in Ios : <<1, "exit", j>> \in Ctl(stack[Main]) => stack[j] = <<>>)'
    BY <1>2, <1>3, <1>5, <1>6 DEF Ground
  <1> QED BY <1>10, <1>11, <1>12, <1>13, <1>14 DEF Live

-----------------------------------------------------------------------------
(* The invariants, and what follows from them *)

LEMMA InitRegLive == Init => RegInv /\ Live
  <1> SUFFICES ASSUME Init PROVE RegInv /\ Live
    OBVIOUS
  <1> DEFINE f == Frame("idle", None, None)
  <1>0. Typed
    BY InitTyped
  <1>1. f.pc = "idle" /\ f.io = None
    BY DEF Frame
  <1>2. stack[Main] = <<f>> /\ \A q \in Ios : stack[q] = <<>>
    BY LifecycleAssumption DEF Init, Threads
  <1> HIDE DEF f
  <1>3. stack[Main] \in Seq(Frames) /\ Len(stack[Main]) = 1 /\ stack[Main][1] = f
    <2>1. stack[Main] \in Seq(Frames)
      BY <1>0 DEF Typed, Threads
    <2> QED BY SMTT(30), <1>2, <2>1
  <1>4. Heights(stack[Main]) = {0} /\ Up(stack[Main], 0) = f
    BY SMTT(30), <1>3 DEF Heights, Up
  <1>5. Ctl(stack[Main]) = {Ground}
    <2>1. \A d, pc, i : <<d, pc, i>> \in Ctl(stack[Main]) <=>
             d = 0 /\ pc \in Control /\ f.pc = pc /\ f.io = i
      <3>1. \A d, pc, i : <<d, pc, i>> \in Ctl(stack[Main]) <=>
               /\ d \in Heights(stack[Main]) /\ pc \in Control
               /\ Up(stack[Main], d).pc = pc /\ Up(stack[Main], d).io = i
        BY <1>3, CtlFacts
      <3>2. \A d : d \in Heights(stack[Main]) <=> d = 0
        BY <1>4
      <3> QED BY <1>4, <3>1, <3>2
    <2>2. \A x \in Ctl(stack[Main]) : x = <<x[1], x[2], x[3]>>
      BY <1>3, CtlFacts
    <2>3. "idle" \in Control
      BY DEF Control
    <2>4. Ground \in Ctl(stack[Main])
      BY <1>1, <2>1, <2>3 DEF Ground
    <2>5. \A x \in Ctl(stack[Main]) : x = Ground
      BY SMTT(30), <1>1, <2>1, <2>2 DEF Ground
    <2> QED BY <2>4, <2>5
  <1>6. Unregistered
    BY DEF Init, Unregistered, NoneInstalled, Kept
  <1>7. RegInv
    BY <1>5, <1>6 DEF RegInv, Between
  <1>8. \A p \in Threads : IosOf(stack[p]) \subseteq {None}
    BY SMTT(30), <1>1, <1>2, <1>3 DEF IosOf, Threads
  <1>9. \A q \in Ios : IosOf(stack[q]) = {}
    BY SMTT(30), <1>2 DEF IosOf
  <1>10. Live
    BY <1>2, <1>8, <1>9 DEF Live, Init
  <1> QED BY <1>7, <1>10

LEMMA NextLive ==
    ASSUME Counting, Alone, Typed, RegInv, Live, [Next]_vars
    PROVE  Live'
  <1>1. ASSUME NEW p \in Threads, Step(p) PROVE Live'
    <2>1. CASE RequestShutdown(p) \/ GetSqe(p) \/ PutTail(p) \/ FillEntry(p) \/ TagEntry(p)
      BY <2>1, LiveSubmission
    <2>2. CASE Enter(p)
      BY <2>2, LiveEnter
    <2>3. CASE OnSignal(p)
      BY <2>3, LiveSignal
    <2>4. CASE Registration \/ Join \/ Exit
      BY <2>4, LiveRegistration, LiveJoin, LiveExit
    <2>5. CASE p \in Ios /\ (LoopTest(p) \/ TakeCqe(p) \/ Dispatch(p))
      BY <2>5, LiveLoop, LiveDispatch
    <2> QED BY <1>1, <2>1, <2>2, <2>3, <2>4, <2>5 DEF Step
  <1>2. ASSUME NEW p \in Threads, NEW s \in Signals, Deliver(p, s) PROVE Live'
    BY <1>2, LiveSignal
  <1>3. ASSUME NEW i \in Ios, NEW q \in Requests, KernelCompletes(i, q) PROVE Live'
    BY <1>3, LiveKernel
  <1>4. CASE Application
    BY <1>4, LiveConstruct, LiveApplication DEF Application
  <1>5. CASE UNCHANGED vars
    <2>1. stack' = stack /\ life' = life /\ uring' = uring /\ active' = active
      BY <1>5 DEF vars
    <2> QED BY <2>1 DEF Live
  <1> QED BY <1>1, <1>2, <1>3, <1>4, <1>5 DEF Next

\* Every variable keeps its type, and where the application is in a registration
\* determines what is registered and which actions are saved.
LEMMA SpecReg == Spec => [](Typed /\ RegInv)
  <1>1. Init => Typed /\ RegInv
    BY InitTyped, InitRegLive
  <1>2. Typed /\ RegInv /\ [Next]_vars => (Typed /\ RegInv)'
    BY SlotsCounted, NextTyped, NextReg
  <1> QED BY <1>1, <1>2, PTL DEF Spec

\* As long as sigaction does not fail for SIGTERM, a program in which no instance
\* is registered, and none is being registered or removed, has its own actions
\* for both signals (lines 64-88), however many objects there are and wherever
\* signals interrupted them.
THEOREM LifecycleRestored ==
    ASSUME "SIGTERM" \notin SigactionFails
    PROVE  Spec => []Restored
  <1>1. ASSUME Typed, RegInv PROVE Restored
    <2> SUFFICES ASSUME active = None, Len(stack[Main]) = 1
                 PROVE  \A s \in Signals : action[s] = "own"
      BY DEF Restored
    <2>1. <<0, "idle", None>> \in Ctl(stack[Main])
      BY <1>1 DEF RegInv, Between, Ending, Installing, Uninstalling, Ground
    <2>2. Len(stack[Main]) - 1 = 0
      BY SMTT(30)
    <2>3. Between
      BY <1>1, <2>1, <2>2, RegIdle
    <2>4. Unregistered
      BY <2>3, LifecycleAssumption DEF Between, Registered
    <2> QED BY <2>4 DEF Unregistered, Kept
  <1> QED BY <1>1, SpecReg, PTL

LEMMA SpecLive ==
    ASSUME Alone
    PROVE  Spec => [](Typed /\ RegInv /\ Live)
  <1>1. Init => Typed /\ RegInv /\ Live
    BY InitTyped, InitRegLive
  <1>2. Typed /\ RegInv /\ Live /\ [Next]_vars => (Typed /\ RegInv /\ Live)'
    BY SlotsCounted, NextTyped, NextReg, NextLive
  <1> QED BY <1>1, <1>2, PTL DEF Spec

\* When only the thread that destroys objects takes signals, or there is one
\* object, every thread inside an object finds it and its ring alive (lines
\* 44-46 and 92-95): the destructor unregisters before it tears down, and joins
\* the event thread first.
THEOREM LifecycleInsideLive ==
    ASSUME Alone
    PROVE  Spec => []InsideLive
  <1>1. ASSUME Typed, Live PROVE InsideLive
    <2> SUFFICES ASSUME NEW p \in Threads, NEW k \in DOMAIN stack[p], stack[p][k].io # None
                 PROVE  LET i == stack[p][k].io
                        IN  life[i] = "failed" \/ (life[i] = "up" /\ uring[i].open)
      BY DEF InsideLive
    <2>1. stack[p][k].io \in IosOf(stack[p])
      BY SMTT(30) DEF IosOf
    <2>2. stack[p][k].io \in Ios
      <3>1. stack[p][k] \in Frames
        BY SMTT(30), <1>1 DEF Typed
      <3> QED BY <3>1, FrameFacts
    <2> QED BY <1>1, <2>1, <2>2 DEF Live
  <1> QED BY <1>1, SpecLive, PTL
=============================================================================
