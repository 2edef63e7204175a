------------------------------ MODULE DoneState ------------------------------
(***************************************************************************)
(* talon::task::DoneState (async_io_result.hpp): the one-shot signal/wait   *)
(* object embedded in every AsyncTask.  One step per access to the shared   *)
(* atomic state_, the mutex mtx_ and the condition variable cv_.            *)
(*                                                                          *)
(* state_ is read and written outside the mutex by Signal and Reset and     *)
(* inside it by Wait.  cv_ is the set of parked threads; a wait releases    *)
(* the mutex and parks in one step, after the predicate has been evaluated  *)
(* in an earlier step (the C++ contract of condition_variable::wait).       *)
(***************************************************************************)
EXTENDS Integers

CONSTANTS
    Waiters,    \* threads that call Wait (through WaitForCompletion)
    Signalers,  \* threads that call Signal (the event loop)
    Resetters,  \* threads that also call Reset (through AddTask)
    Modes,      \* the sign of timeout_ms: "forever" (<0), "poll" (0), "timed" (>0)
    NoThread    \* the mutex is free

\* A thread waits or signals, and the ones that reset are among them.
ASSUME ThreadAssumption ==
    /\ Waiters \cap Signalers = {}
    /\ Resetters \subseteq Waiters \cup Signalers
    /\ NoThread \notin Waiters \cup Signalers
    /\ Modes \subseteq {"forever", "poll", "timed"}

Callers == Waiters \cup Signalers

kIdle == -1
kWaiting == 0
kSignaled == 1

VARIABLES
    state,      \* state_
    mtx,        \* holder of mtx_
    parked,     \* threads blocked in cv_
    at,         \* next step of each thread
    mode,       \* timeout_ms of each waiter's current Wait
    ret,        \* what each waiter's last Wait returned
    since       \* history: a Signal was executed since the last Reset

doneVars == <<state, mtx, parked, at, mode, ret, since>>

\* Program points of Wait that hold mtx_, and the ones that do not.
Locked == {"check", "announce", "pred", "park", "lastpred", "giveup"}
WaitPc == Locked \cup {"idle", "repoll", "lock", "parked", "relock", "expired"}
\* Signal after an exchange that returned kWaiting.
SignalPc == {"idle", "slock", "sunlock", "notify"}

DoneTypes ==
    /\ state \in {kIdle, kWaiting, kSignaled}
    /\ mtx \in Callers \cup {NoThread}
    /\ parked \subseteq Waiters
    /\ at \in [Callers -> WaitPc \cup SignalPc]
    /\ \A w \in Waiters : at[w] \in WaitPc
    /\ \A s \in Signalers : at[s] \in SignalPc
    /\ mode \in [Waiters -> {"forever", "poll", "timed"}]
    /\ ret \in [Waiters -> {"none", "true", "false"}]
    /\ since \in BOOLEAN

DoneInit ==
    /\ state = kIdle
    /\ mtx = NoThread
    /\ parked = {}
    /\ at = [t \in Callers |-> "idle"]
    /\ mode \in [Waiters -> Modes]
    /\ ret = [w \in Waiters |-> "none"]
    /\ since = FALSE

GoTo(t, label) == at' = [at EXCEPT ![t] = label]

\* Wait returns r; the unique_lock lk, if held, is released.
Return(w, r) ==
    /\ GoTo(w, "idle")
    /\ ret' = [ret EXCEPT ![w] = r]
    /\ mtx' = IF mtx = w THEN NoThread ELSE mtx

-----------------------------------------------------------------------------
(* Wait *)

\* Lines 52-53: the fast path, and the poll's way to its second load.
WaitFast(w, m) ==
    /\ at[w] = "idle"
    /\ mode' = [mode EXCEPT ![w] = m]
    /\ \/ state = kSignaled /\ Return(w, "true")
       \/ /\ state # kSignaled
          /\ GoTo(w, IF m = "poll" THEN "repoll" ELSE "lock")
          /\ ret' = [ret EXCEPT ![w] = "none"]
          /\ UNCHANGED mtx
    /\ UNCHANGED <<state, parked, since>>

\* Line 53: with a zero timeout, whatever a second load says.
WaitPoll(w) ==
    /\ at[w] = "repoll"
    /\ Return(w, IF state = kSignaled THEN "true" ELSE "false")
    /\ UNCHANGED <<state, parked, mode, since>>

\* Line 55, and the reacquisition of the mutex inside cv_.wait / cv_.wait_for.
WaitLock(w) ==
    /\ at[w] \in {"lock", "relock", "expired"}
    /\ mtx = NoThread
    /\ mtx' = w
    /\ GoTo(w, CASE at[w] = "lock" -> "check"
               [] at[w] = "relock" -> "pred"
               [] at[w] = "expired" -> "lastpred")
    /\ UNCHANGED <<state, parked, mode, ret, since>>

\* Line 56: the re-check under the mutex.
WaitCheck(w) ==
    /\ at[w] = "check"
    /\ \/ state = kSignaled /\ Return(w, "true")
       \/ state # kSignaled /\ GoTo(w, "announce") /\ UNCHANGED <<mtx, ret>>
    /\ UNCHANGED <<state, parked, mode, since>>

\* Line 57: kWaiting is stored, whatever the value is by now.
WaitAnnounce(w) ==
    /\ at[w] = "announce"
    /\ state' = kWaiting
    /\ GoTo(w, "pred")
    /\ UNCHANGED <<mtx, parked, mode, ret, since>>

\* Lines 60 and 63-64: the predicate of cv_.wait / cv_.wait_for.
WaitPred(w) ==
    /\ at[w] = "pred"
    /\ \/ state = kSignaled /\ Return(w, "true")
       \/ state # kSignaled /\ GoTo(w, "park") /\ UNCHANGED <<mtx, ret>>
    /\ UNCHANGED <<state, parked, mode, since>>

\* Lines 60 and 63: release the mutex and block, atomically.
WaitPark(w) ==
    /\ at[w] = "park"
    /\ mtx' = NoThread
    /\ parked' = parked \cup {w}
    /\ GoTo(w, "parked")
    /\ UNCHANGED <<state, mode, ret, since>>

\* A parked thread may wake without a notify (spurious wakeup).
WaitSpurious(w) ==
    /\ w \in parked
    /\ parked' = parked \ {w}
    /\ GoTo(w, "relock")
    /\ UNCHANGED <<state, mtx, mode, ret, since>>

\* Line 63: the deadline of wait_for passes.
WaitExpire(w) ==
    /\ w \in parked
    /\ mode[w] = "timed"
    /\ parked' = parked \ {w}
    /\ GoTo(w, "expired")
    /\ UNCHANGED <<state, mtx, mode, ret, since>>

\* Mutant: after the deadline the loop over the predicate goes on.
WaitLastPredParks(w) ==
    /\ at[w] = "lastpred"
    /\ \/ state = kSignaled /\ Return(w, "true")
       \/ state # kSignaled /\ GoTo(w, "park") /\ UNCHANGED <<mtx, ret>>
    /\ UNCHANGED <<state, parked, mode, since>>

\* Line 64: the last evaluation of the predicate after the deadline.
WaitLastPred(w) ==
    /\ at[w] = "lastpred"
    /\ \/ state = kSignaled /\ Return(w, "true")
       \/ state # kSignaled /\ GoTo(w, "giveup") /\ UNCHANGED <<mtx, ret>>
    /\ UNCHANGED <<state, parked, mode, since>>

\* Lines 65-66: kIdle is stored, whatever the value is by now.
WaitGiveUp(w) ==
    /\ at[w] = "giveup"
    /\ state' = kIdle
    /\ Return(w, "false")
    /\ UNCHANGED <<parked, mode, since>>

-----------------------------------------------------------------------------
(* Signal and Reset *)

\* Mutant: the notifier does not pass through the mutex.
SignalExchangeUnlocked(s) ==
    /\ at[s] = "idle"
    /\ state' = kSignaled
    /\ since' = TRUE
    /\ GoTo(s, IF state = kWaiting THEN "notify" ELSE "idle")
    /\ UNCHANGED <<mtx, parked, mode, ret>>

\* Lines 42-43: the exchange, and whether somebody announced a wait.
SignalExchange(s) ==
    /\ at[s] = "idle"
    /\ state' = kSignaled
    /\ since' = TRUE
    /\ GoTo(s, IF state = kWaiting THEN "slock" ELSE "idle")
    /\ UNCHANGED <<mtx, parked, mode, ret>>

\* Line 44: the empty critical section.
SignalLock(s) ==
    /\ at[s] = "slock"
    /\ mtx = NoThread
    /\ mtx' = s
    /\ GoTo(s, "sunlock")
    /\ UNCHANGED <<state, parked, mode, ret, since>>

SignalUnlock(s) ==
    /\ at[s] = "sunlock"
    /\ mtx' = NoThread
    /\ GoTo(s, "notify")
    /\ UNCHANGED <<state, parked, mode, ret, since>>

\* Mutant: nobody is notified.
SignalNotifyNobody(s) ==
    /\ at[s] = "notify"
    /\ GoTo(s, "idle")
    /\ UNCHANGED <<state, mtx, parked, mode, ret, since>>

\* Line 45: notify_one wakes one parked thread, if there is one.
SignalNotify(s) ==
    /\ at[s] = "notify"
    /\ \/ /\ parked = {}
          /\ GoTo(s, "idle")
          /\ UNCHANGED parked
       \/ \E w \in parked :
             /\ parked' = parked \ {w}
             /\ at' = [at EXCEPT ![s] = "idle", ![w] = "relock"]
    /\ UNCHANGED <<state, mtx, mode, ret, since>>

\* Line 49, called by AddTask.
Reset(t) ==
    /\ at[t] = "idle"
    /\ state' = kIdle
    /\ since' = FALSE
    /\ UNCHANGED <<mtx, parked, at, mode, ret>>

-----------------------------------------------------------------------------

\* The steps a thread inside Wait or Signal takes without being called anew.
WaitStep(w) ==
    \/ WaitPoll(w) \/ WaitLock(w) \/ WaitCheck(w) \/ WaitAnnounce(w)
    \/ WaitPred(w) \/ WaitPark(w) \/ WaitLastPred(w) \/ WaitGiveUp(w)

SignalStep(s) == SignalLock(s) \/ SignalUnlock(s) \/ SignalNotify(s)

DoneNext ==
    \/ \E w \in Waiters :
          \/ \E m \in Modes : WaitFast(w, m)
          \/ WaitStep(w)
          \/ WaitSpurious(w)
          \/ WaitExpire(w)
    \/ \E s \in Signalers : SignalExchange(s) \/ SignalStep(s)
    \/ \E t \in Resetters : Reset(t)

DoneSpec == DoneInit /\ [][DoneNext]_doneVars

(* Fairness.  The scheduler runs every thread inside Wait or Signal, and the *)
(* mutex starves nobody (strong fairness of the locking steps).  The deadline *)
(* of wait_for is absolute, so a waiter that keeps being woken and parks      *)
(* again still expires (strong fairness of WaitExpire).  Nothing forces a     *)
(* thread to call Wait, Signal or Reset, nor a spurious wakeup.               *)
Fairness ==
    /\ \A w \in Waiters : /\ WF_doneVars(WaitStep(w))
                          /\ SF_doneVars(WaitLock(w))
                          /\ SF_doneVars(WaitExpire(w))
    /\ \A s \in Signalers : WF_doneVars(SignalStep(s)) /\ SF_doneVars(SignalLock(s))

FairSpec == DoneSpec /\ Fairness

-----------------------------------------------------------------------------
(* Properties *)

\* A signaler that saw kWaiting and has not notified yet.
Owes(s) == at[s] \in {"slock", "sunlock", "notify"}

\* Once kSignaled is visible, a waiter blocked in cv_ is never forgotten: some
\* Signal that saw kWaiting has still to call notify_one (Signal lines 42-46
\* against Wait lines 57-64).  This is what the empty critical section buys.
NotifyOwed ==
    (state = kSignaled /\ parked # {}) => \E s \in Signalers : Owes(s)

\* A timed or polling Wait returns, whatever signalers and other waiters do
\* (lines 53 and 63-66): the mutex is never kept and nobody waits for a
\* waiter that waits for it.
TimedWaitReturns ==
    \A w \in Waiters :
        (at[w] # "idle" /\ mode[w] # "forever") ~> (at[w] = "idle")

\* A waiter that is blocked in cv_ when kSignaled is set comes back (line 45 or
\* the deadline).
ParkedWaiterWakes ==
    \A w \in Waiters : (w \in parked /\ state = kSignaled) ~> (w \notin parked)

\* WaitForCompletion "Block until completion" (README): once Signal has been
\* called, and is not undone by Reset, a Wait(-1) in progress returns.
SignaledWaitReturns ==
    \A w \in Waiters :
        (since /\ at[w] # "idle") ~> (at[w] = "idle" \/ ~since)
=============================================================================
