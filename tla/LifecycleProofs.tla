--------------------------- MODULE LifecycleProofs ---------------------------
(***************************************************************************)
(* The safety of Lifecycle for every number of objects, tasks and signals   *)
(* and every size of the queues, each theorem under the condition its       *)
(* statement names.                                                         *)
(*                                                                          *)
(* A frame is found by its height, its distance from the bottom of its      *)
(* thread's stack, which calls and signals above it do not change.          *)
(***************************************************************************)
EXTENDS Lifecycle, TLAPS

Install == {"int", "term", "flag"}
Uninstall == {"unint", "unterm", "unstore", "unflag"}
Control == {"idle", "join", "exit"} \cup Install \cup Uninstall
Submission == {"get", "put", "fill", "tag", "enter"}
Pcs == Control \cup Submission \cup {"sig", "stop", "test", "peek", "read"}

Slots == 0..(2 * Entries - 1)
FrameRecord ==
    [pc : Pcs, io : Ios \cup {None}, t : UserData,
     kind : {"io", "connect", "unsupported"}, slot : Slots,
     cqe : Requests, took : Requests]

\* Only a submitting frame has a task, a frame works on an object unless it is
\* the application's or has just entered OnSignal, and only a task is refused.
Frames ==
    {f \in FrameRecord :
       /\ f.io = None <=> f.pc \in {"idle", "sig"}
       /\ f.pc = "tag" \/ f.kind # "io" => f.t \in Tasks
       /\ f.pc \notin Submission => f.t = None}

Rings == [open : BOOLEAN, sqe : [0..(Entries - 1) -> Requests],
          tail : Slots, cq : Seq(Requests)]
Counts == [Requests -> Nat]

Typed ==
    /\ life \in [Ios -> {"unborn", "failed", "up", "gone"}]
    /\ uring \in [Ios -> Rings]
    /\ kernel \in [Ios -> Counts]
    /\ shutdown \in [Ios -> BOOLEAN]
    /\ active \in Ios \cup {None}
    /\ installed \in [Ios -> BOOLEAN]
    /\ saved \in [Ios -> [Signals -> {"own", "OnSignal"}]]
    /\ action \in [Signals -> {"own", "OnSignal"}]
    /\ sent \subseteq Signals
    /\ stack \in [Threads -> Seq(Frames)]
    /\ busy \in [Tasks -> Ios \cup {None}]
    /\ left \subseteq Ios

\* Sets of slots can be counted. LifecycleTheorems proves it from the theory of
\* finite sets; here it is a hypothesis of what depends on counts.
Counting ==
    \A n \in Nat : \A S \in SUBSET (0..n) :
        /\ Cardinality(S) \in Nat /\ (Cardinality(S) = 0 <=> S = {})
        /\ \A k \in S : S = {k} => Cardinality(S) = 1

-----------------------------------------------------------------------------
(* Requests, rings and bags *)

\* Most steps are first-order; the ones with arithmetic or sequences say SMT.
USE ZenonT(120)

\* What a new frame and a fresh slot hold.
LEMMA BaseTypes ==
    /\ Entries \in Nat /\ Entries >= 1
    /\ 0 \in Slots
    /\ None \in UserData
    /\ Zeroed \in Requests
    /\ \A t \in Tasks : t \in UserData /\ Failure(t) \in UserData
  BY SMTT(30), UringAssumption DEF Slots, UserData, Zeroed, Requests, Ops

\* The slots of the submission queue wrap at twice its size.
LEMMA SqIndexFacts ==
    ASSUME NEW n \in Int
    PROVE  /\ SqIndex(n) \in Slots
           /\ 0 <= n /\ n < 2 * Entries => SqIndex(n) = n
           /\ n % Entries \in 0..(Entries - 1)
           /\ 0 <= n /\ n < Entries => n % Entries = n
  <1>1. Entries \in Nat /\ Entries >= 1 /\ 2 * Entries \in Nat /\ 2 * Entries >= 1
    BY SMTT(30), BaseTypes
  <1>2. \A m \in Nat \ {0} : n % m \in 0..(m - 1) /\ (0 <= n /\ n < m => n % m = n)
    BY SMTT(30)
  <1>3. n % Entries \in 0..(Entries - 1) /\ (0 <= n /\ n < Entries => n % Entries = n)
    BY SMTT(30), <1>1, <1>2
  <1> DEFINE size == 2 * Entries
  <1>4. size \in Nat \ {0}
    BY SMTT(30), <1>1
  <1>5. n % size \in 0..(size - 1) /\ (0 <= n /\ n < size => n % size = n)
    <2> HIDE DEF size
    <2> QED BY <1>2, <1>4
  <1> QED BY <1>3, <1>5 DEF SqIndex, Slots

\* A new ring, and a ring after each access to it.
LEMMA RingTypes ==
    /\ Unmapped \in Rings /\ Unmapped.open = FALSE
    /\ QueueInit \in Rings /\ QueueInit.open = TRUE
    /\ QueueInit.tail = 0 /\ QueueInit.cq = <<>>
  <1>1. <<>> \in Seq(Requests)
    BY SMTT(30)
  <1> QED BY <1>1, BaseTypes DEF Unmapped, QueueInit, Rings

\* Two stacks, or two parts of one, put together.
LEMMA Joined ==
    ASSUME NEW S, NEW a \in Seq(S), NEW b \in Seq(S)
    PROVE  /\ a \o b \in Seq(S) /\ Len(a \o b) = Len(a) + Len(b)
           /\ \A k \in 1..(Len(a) + Len(b)) :
                 (a \o b)[k] = IF k <= Len(a) THEN a[k] ELSE b[k - Len(a)]
  <1>1. a \o b \in Seq(S)
    BY SMTT(30)
  <1>2. Len(a \o b) = Len(a) + Len(b)
    BY SMTT(30)
  <1>3. ASSUME NEW k \in 1..(Len(a) + Len(b))
        PROVE  (a \o b)[k] = IF k <= Len(a) THEN a[k] ELSE b[k - Len(a)]
    BY SMTT(30)
  <1> QED BY <1>1, <1>2, <1>3

LEMMA TakeEntryType ==
    ASSUME NEW r \in Rings, NEW slot \in Slots
    PROVE  /\ TakeEntry(r, slot) \in Rings
           /\ TakeEntry(r, slot).open = r.open
           /\ TakeEntry(r, slot).cq = r.cq
           /\ TakeEntry(r, slot).sqe = r.sqe
           /\ TakeEntry(r, slot).tail = SqIndex(slot + 1)
  <1>1. slot + 1 \in Int
    BY SMTT(30), BaseTypes DEF Slots
  <1>2. SqIndex(slot + 1) \in Slots
    BY <1>1, SqIndexFacts
  <1> QED BY <1>2 DEF TakeEntry, Rings

LEMMA FillType ==
    ASSUME NEW r \in Rings, NEW slot \in Slots, NEW q \in Requests
    PROVE  /\ Fill(r, slot, q) \in Rings
           /\ Fill(r, slot, q).open = r.open
           /\ Fill(r, slot, q).cq = r.cq
           /\ Fill(r, slot, q).tail = r.tail
           /\ Fill(r, slot, q).sqe = [r.sqe EXCEPT ![slot % Entries] = q]
  <1>1. slot \in Int
    BY SMTT(30), BaseTypes DEF Slots
  <1>2. slot % Entries \in 0..(Entries - 1)
    BY <1>1, SqIndexFacts
  <1> QED BY <1>2 DEF Fill, Rings

LEMMA SetUserDataType ==
    ASSUME NEW r \in Rings, NEW slot \in Slots, NEW ud \in UserData
    PROVE  /\ SetUserData(r, slot, ud) \in Rings
           /\ SetUserData(r, slot, ud).open = r.open
           /\ SetUserData(r, slot, ud).cq = r.cq
           /\ SetUserData(r, slot, ud).tail = r.tail
           /\ \A k \in 0..(Entries - 1) : SetUserData(r, slot, ud).sqe[k].op = r.sqe[k].op
  <1> DEFINE e == [r.sqe[slot % Entries] EXCEPT !.ud = ud]
  <1>1. slot \in Int
    BY SMTT(30), BaseTypes DEF Slots
  <1>2. slot % Entries \in 0..(Entries - 1)
    BY <1>1, SqIndexFacts
  <1>3. r.sqe \in [0..(Entries - 1) -> Requests]
    BY DEF Rings
  <1>4. r.sqe[slot % Entries] \in Requests
    BY <1>2, <1>3
  <1>5. e \in Requests /\ e.op = r.sqe[slot % Entries].op
    BY <1>4 DEF Requests
  <1>6. SetUserData(r, slot, ud) = [r EXCEPT !.sqe = [r.sqe EXCEPT ![slot % Entries] = e]]
    BY <1>2, <1>3 DEF SetUserData, Rings
  <1> HIDE DEF e
  <1> QED BY <1>2, <1>3, <1>5, <1>6 DEF Rings

LEMMA PendingType ==
    ASSUME NEW r \in Rings
    PROVE  /\ Pending(r) \in 0..Entries
           /\ r.tail <= Entries => Pending(r) = r.tail
  BY SMTT(30), BaseTypes DEF Pending, Rings, Slots

LEMMA ConsumedType ==
    ASSUME NEW r \in Rings
    PROVE  /\ Consumed(r) \in Rings
           /\ Consumed(r).open = r.open
           /\ Consumed(r).cq = r.cq
           /\ r.tail <= Entries => Consumed(r).tail = 0
  <1>1. Entries \in Nat /\ Pending(r) \in 0..Entries /\ r.tail \in 0..(2 * Entries - 1)
    BY BaseTypes, PendingType DEF Rings, Slots
  <1>2. r.tail - Pending(r) \in Int
    BY SMTT(30), <1>1
  <1>3. SqIndex(r.tail - Pending(r)) \in Slots
    BY <1>2, SqIndexFacts
  <1>4. r.tail <= Entries => SqIndex(r.tail - Pending(r)) = 0
    <2>1. r.tail <= Entries => r.tail - Pending(r) = 0
      BY SMTT(30), <1>1, PendingType
    <2>2. SqIndex(0) = 0
      BY SMTT(30), <1>1, BaseTypes, SqIndexFacts
    <2> QED BY <2>1, <2>2
  <1> DEFINE rolled == [k \in DOMAIN r.sqe |-> r.sqe[(k + Pending(r)) % Entries]]
  <1>5. DOMAIN r.sqe = 0..(Entries - 1) /\ r.sqe \in [0..(Entries - 1) -> Requests]
    BY DEF Rings
  <1>6. ASSUME NEW k \in 0..(Entries - 1) PROVE r.sqe[(k + Pending(r)) % Entries] \in Requests
    <2>1. k + Pending(r) \in Int
      BY SMTT(30), <1>1
    <2>2. (k + Pending(r)) % Entries \in 0..(Entries - 1)
      BY <2>1, SqIndexFacts
    <2> QED BY <2>2, <1>5
  <1>7. rolled \in [0..(Entries - 1) -> Requests]
    BY <1>5, <1>6
  <1>8. Consumed(r) = [r EXCEPT !.tail = SqIndex(r.tail - Pending(r)), !.sqe = rolled]
    BY DEF Consumed, Rings
  <1> HIDE DEF rolled
  <1> QED BY <1>3, <1>4, <1>7, <1>8 DEF Rings

LEMMA PostType ==
    ASSUME NEW r \in Rings, NEW q \in Requests
    PROVE  /\ Post(r, q) \in Rings
           /\ Post(r, q).open = r.open
           /\ Post(r, q).tail = r.tail
           /\ Post(r, q).sqe = r.sqe
           /\ Post(r, q).cq = Append(r.cq, q)
           /\ Append(r.cq, q) \in Seq(Requests) /\ Append(r.cq, q) # <<>>
  <1>1. r.cq \in Seq(Requests)
    BY DEF Rings
  <1>2. Append(r.cq, q) \in Seq(Requests) /\ Append(r.cq, q) # <<>>
    BY SMTT(30), <1>1
  <1> QED BY <1>2 DEF Post, Rings

LEMMA CqeSeenType ==
    ASSUME NEW r \in Rings, r.cq # <<>>
    PROVE  /\ CqeSeen(r) \in Rings
           /\ CqeSeen(r).open = r.open
           /\ CqeSeen(r).tail = r.tail
           /\ CqeSeen(r).sqe = r.sqe
           /\ CqeSeen(r).cq = Tail(r.cq)
           /\ Head(r.cq) \in Requests
  <1>1. r.cq \in Seq(Requests)
    BY DEF Rings
  <1>2. Tail(r.cq) \in Seq(Requests) /\ Head(r.cq) \in Requests
    BY SMTT(30), <1>1
  <1> QED BY <1>2 DEF CqeSeen, Rings

\* The requests io_uring_submit hands over: those up to the tail.
LEMMA GivenFacts ==
    ASSUME Counting, NEW r \in Rings
    PROVE  /\ Given(r) \in Counts
           /\ \A k \in 0..(Pending(r) - 1) : r.sqe[k] \in Requests /\ Given(r)[r.sqe[k]] > 0
           /\ \A q \in Requests : Given(r)[q] > 0 =>
                 \E k \in 0..(Pending(r) - 1) : r.sqe[k] = q
           /\ Pending(r) = 1 => Given(r)[r.sqe[0]] = 1
  <1> DEFINE P == 0..(Pending(r) - 1)
             at(q) == {k \in P : r.sqe[k] = q}
  <1>1. Given(r) = [q \in Requests |-> Cardinality(at(q))]
    BY DEF Given
  <1>2. Entries \in Nat /\ Pending(r) \in 0..Entries /\ r.sqe \in [0..(Entries - 1) -> Requests]
    BY BaseTypes, PendingType DEF Rings
  <1>3. P \subseteq 0..(Entries - 1)
    BY SMTT(30), <1>2
  <1>5. ASSUME NEW q \in Requests
        PROVE  Cardinality(at(q)) \in Nat /\ (Cardinality(at(q)) = 0 <=> at(q) = {})
    <2>1. at(q) \subseteq 0..Entries
      BY SMTT(30), <1>2, <1>3
    <2> HIDE DEF at
    <2> QED BY <1>2, <2>1 DEF Counting
  <1>6. Given(r) \in Counts
    BY SMTT(30), <1>1, <1>5 DEF Counts
  <1>7. ASSUME NEW k \in P PROVE r.sqe[k] \in Requests /\ Given(r)[r.sqe[k]] > 0
    <2>1. r.sqe[k] \in Requests
      BY <1>2, <1>3
    <2>2. k \in at(r.sqe[k])
      OBVIOUS
    <2>3. Cardinality(at(r.sqe[k])) \in Nat /\ Cardinality(at(r.sqe[k])) # 0
      BY <1>5, <2>1, <2>2
    <2> QED BY SMTT(30), <1>1, <2>1, <2>3
  <1>8. ASSUME NEW q \in Requests, Given(r)[q] > 0 PROVE \E k \in P : r.sqe[k] = q
    <2>1. Cardinality(at(q)) # 0
      BY SMTT(30), <1>1, <1>5, <1>8
    <2>2. at(q) # {}
      BY <1>5, <2>1
    <2> QED BY <2>2
  <1>9. ASSUME Pending(r) = 1 PROVE Given(r)[r.sqe[0]] = 1
    <2>1. P = {0}
      BY SMTT(30), <1>9
    <2>2. r.sqe[0] \in Requests
      BY <1>7, <2>1
    <2>3. at(r.sqe[0]) = {0}
      BY <2>1
    <2>4. Cardinality({0}) = 1
      <3>1. 0 \in Nat /\ {0} \in SUBSET (0..0)
        BY SMTT(30)
      <3> QED BY <3>1 DEF Counting
    <2> QED BY <1>1, <2>2, <2>3, <2>4
  <1> QED BY <1>6, <1>7, <1>8, <1>9

\* The kernel's requests after io_uring_submit, and after it finished one.
LEMMA AcceptFacts ==
    ASSUME NEW b \in Counts, NEW c \in Counts
    PROVE  /\ [q \in Requests |-> b[q] + c[q]] \in Counts
           /\ \A q \in Requests : [x \in Requests |-> b[x] + c[x]][q] = b[q] + c[q]
           /\ \A q \in Requests : b[q] \in Nat /\ c[q] \in Nat
  BY SMTT(30) DEF Counts

LEMMA FinishFacts ==
    ASSUME NEW b \in Counts, NEW q \in Requests, b[q] > 0
    PROVE  /\ [b EXCEPT ![q] = @ - 1] \in Counts
           /\ b[q] \in Nat
           /\ \A x \in Requests : [b EXCEPT ![q] = @ - 1][x] = IF x = q THEN b[q] - 1 ELSE b[x]
  BY SMTT(30) DEF Counts

-----------------------------------------------------------------------------
(* Stacks *)

LEMMA FrameType ==
    ASSUME NEW pc \in Pcs, NEW i \in Ios \cup {None}, NEW t \in UserData,
           i = None <=> pc \in {"idle", "sig"}, pc # "tag",
           pc \notin Submission => t = None
    PROVE  /\ Frame(pc, i, t) \in Frames
           /\ Frame(pc, i, t).pc = pc
           /\ Frame(pc, i, t).io = i
           /\ Frame(pc, i, t).t = t
           /\ Frame(pc, i, t).kind = "io"
  <1>1. Frame(pc, i, t) \in FrameRecord
    BY BaseTypes DEF Frame, FrameRecord
  <1> QED BY <1>1 DEF Frame, Frames

LEMMA FrameFacts ==
    ASSUME NEW f \in Frames
    PROVE  /\ f \in FrameRecord
           /\ f.pc \in Pcs /\ f.io \in Ios \cup {None} /\ f.t \in UserData
           /\ f.kind \in {"io", "connect", "unsupported"} /\ f.slot \in Slots
           /\ f.cqe \in Requests /\ f.took \in Requests
           /\ f.io = None <=> f.pc \in {"idle", "sig"}
           /\ f.pc = "tag" \/ f.kind # "io" => f.t \in Tasks
           /\ f.pc \notin Submission => f.t = None
  BY DEF Frames, FrameRecord

\* A frame that only goes on to another label.
LEMMA GoType ==
    ASSUME NEW f \in Frames, NEW pc \in Pcs, f.io = None <=> pc \in {"idle", "sig"},
           pc = "tag" => f.t \in Tasks, pc \notin Submission => f.t = None
    PROVE  /\ [f EXCEPT !.pc = pc] \in Frames
           /\ [f EXCEPT !.pc = pc].pc = pc
           /\ [f EXCEPT !.pc = pc].io = f.io
           /\ [f EXCEPT !.pc = pc].t = f.t
           /\ [f EXCEPT !.pc = pc].kind = f.kind
           /\ [f EXCEPT !.pc = pc].slot = f.slot
           /\ [f EXCEPT !.pc = pc].cqe = f.cqe
           /\ [f EXCEPT !.pc = pc].took = f.took
  <1>1. f \in FrameRecord
    BY FrameFacts
  <1>2. [f EXCEPT !.pc = pc] \in FrameRecord
    BY <1>1 DEF FrameRecord
  <1> QED BY <1>1, <1>2, FrameFacts DEF Frames, FrameRecord

LEMMA StackFacts ==
    ASSUME NEW s \in Seq(Frames)
    PROVE  /\ Len(s) \in Nat /\ DOMAIN s = 1..Len(s)
           /\ s # <<>> <=> Len(s) >= 1
           /\ \A k \in 1..Len(s) : s[k] \in Frames
           /\ s # <<>> => s[1] \in Frames /\ Head(s) = s[1]
  <1>1. Len(s) \in Nat /\ DOMAIN s = 1..Len(s) /\ \A k \in 1..Len(s) : s[k] \in Frames
    BY SMTT(30)
  <1>2. s # <<>> <=> Len(s) >= 1
    BY SMTT(30), <1>1
  <1>3. s # <<>> => Head(s) = s[1]
    BY SMTT(30)
  <1> QED BY SMTT(30), <1>1, <1>2, <1>3

\* What the steps of a thread do to its stack s: they replace the running frame,
\* put a frame on top of it, or take it away.
Replaced(s, s2, f) ==
    /\ s2 \in Seq(Frames) /\ Len(s2) = Len(s) /\ s2[1] = f
    /\ \A k \in 2..Len(s) : s2[k] = s[k]
Pushed(s, s2, f, g) ==
    /\ s2 \in Seq(Frames) /\ Len(s2) = Len(s) + 1 /\ s2[1] = f /\ s2[2] = g
    /\ \A k \in 2..Len(s) : s2[k + 1] = s[k]
Popped(s, s2) ==
    /\ s2 \in Seq(Frames) /\ Len(s2) = Len(s) - 1
    /\ \A k \in 1..Len(s2) : s2[k] = s[k + 1]
\* The frames' slots, or what *cqe holds, change under the frames.
Shifted(s, s2) ==
    /\ s2 \in Seq(Frames) /\ Len(s2) = Len(s)
    /\ \A k \in 1..Len(s) : /\ s2[k].pc = s[k].pc /\ s2[k].io = s[k].io
                            /\ s2[k].t = s[k].t /\ s2[k].kind = s[k].kind
                            /\ s2[k].took = s[k].took

LEMMA TailFacts ==
    ASSUME NEW s \in Seq(Frames), s # <<>>
    PROVE  Popped(s, Tail(s))
  <1>1. /\ Tail(s) \in Seq(Frames) /\ Len(Tail(s)) = Len(s) - 1
        /\ \A k \in 1..Len(Tail(s)) : Tail(s)[k] = s[k + 1]
    BY SMTT(30)
  <1> QED BY <1>1 DEF Popped

LEMMA ConsFacts ==
    ASSUME NEW s \in Seq(Frames), NEW f \in Frames
    PROVE  /\ <<f>> \o s \in Seq(Frames) /\ Len(<<f>> \o s) = Len(s) + 1
           /\ (<<f>> \o s)[1] = f
           /\ \A k \in 1..Len(s) : (<<f>> \o s)[k + 1] = s[k]
  <1>1. <<f>> \in Seq(Frames) /\ Len(<<f>>) = 1 /\ <<f>>[1] = f
    BY SMTT(30)
  <1>2. Len(s) \in Nat
    BY StackFacts
  <1> HIDE DEF Frames
  <1> DEFINE one == <<f>>
  <1> HIDE DEF one
  <1>3. one \in Seq(Frames) /\ Len(one) = 1 /\ one[1] = f
    BY <1>1 DEF one
  <1>4. /\ one \o s \in Seq(Frames) /\ Len(one \o s) = Len(one) + Len(s)
        /\ \A k \in 1..(Len(one) + Len(s)) :
              (one \o s)[k] = IF k <= Len(one) THEN one[k] ELSE s[k - Len(one)]
    BY <1>3, Joined
  <1>5. (one \o s)[1] = f
    BY SMTT(30), <1>2, <1>3, <1>4
  <1>6. ASSUME NEW k \in 1..Len(s) PROVE (one \o s)[k + 1] = s[k]
    <2>1. k + 1 \in 1..(Len(one) + Len(s)) /\ ~(k + 1 <= Len(one)) /\ k + 1 - Len(one) = k
      BY SMTT(30), <1>2, <1>3
    <2> QED BY SMTT(30), <1>4, <2>1
  <1> QED BY SMTT(30), <1>2, <1>3, <1>4, <1>5, <1>6 DEF one

\* A step of thread p leaves the other stacks alone.
OnlyStackOf(p) ==
    /\ stack' \in [Threads -> Seq(Frames)]
    /\ \A q \in Threads \ {p} : stack'[q] = stack[q]

LEMMA GoWithFacts ==
    ASSUME Typed, NEW p \in Threads, stack[p] # <<>>, NEW f \in Frames, GoWith(p, f)
    PROVE  Replaced(stack[p], stack'[p], f) /\ OnlyStackOf(p)
  <1> DEFINE s == stack[p]
             s2 == <<f>> \o Tail(s)
  <1>1. stack \in [Threads -> Seq(Frames)] /\ s \in Seq(Frames)
    BY DEF Typed
  <1>2. stack' = [stack EXCEPT ![p] = s2]
    BY <1>1 DEF GoWith
  <1>3. Len(s) \in Nat /\ Len(s) >= 1
    BY <1>1, StackFacts
  <1>4. /\ Tail(s) \in Seq(Frames) /\ Len(Tail(s)) = Len(s) - 1
        /\ \A k \in 1..Len(Tail(s)) : Tail(s)[k] = s[k + 1]
    BY <1>1, TailFacts DEF Popped
  <1> HIDE DEF s
  <1>5. /\ s2 \in Seq(Frames) /\ Len(s2) = Len(s) /\ s2[1] = f
        /\ \A k \in 1..(Len(s) - 1) : s2[k + 1] = s[k + 1]
    BY SMTT(30), <1>3, <1>4, ConsFacts
  <1> HIDE DEF s2
  <1>6. ASSUME NEW k \in 2..Len(s) PROVE s2[k] = s[k]
    <2>1. k - 1 \in 1..(Len(s) - 1) /\ (k - 1) + 1 = k
      BY SMTT(30), <1>3
    <2> QED BY <1>5, <2>1
  <1>7. Replaced(s, s2, f)
    BY <1>5, <1>6 DEF Replaced
  <1>8. stack'[p] = s2 /\ OnlyStackOf(p)
    BY <1>1, <1>2, <1>5 DEF OnlyStackOf
  <1> QED BY <1>7, <1>8 DEF s

LEMMA GoFacts ==
    ASSUME Typed, NEW p \in Threads, stack[p] # <<>>, NEW pc \in Pcs,
           [stack[p][1] EXCEPT !.pc = pc] \in Frames, Go(p, pc)
    PROVE  Replaced(stack[p], stack'[p], [stack[p][1] EXCEPT !.pc = pc]) /\ OnlyStackOf(p)
  <1> DEFINE s == stack[p]
             f == [s[1] EXCEPT !.pc = pc]
             s2 == [s EXCEPT ![1] = f]
  <1>1. stack \in [Threads -> Seq(Frames)] /\ s \in Seq(Frames)
    BY DEF Typed
  <1>2. stack' = [stack EXCEPT ![p] = s2]
    BY <1>1 DEF Go
  <1>3. Len(s) \in Nat /\ Len(s) >= 1 /\ DOMAIN s = 1..Len(s)
    BY <1>1, StackFacts
  <1>4. f \in Frames
    OBVIOUS
  <1> HIDE DEF s, f
  <1>5. s2 \in Seq(Frames) /\ Len(s2) = Len(s)
    BY SMTT(30), <1>1, <1>3, <1>4
  <1>6. s2[1] = f /\ \A k \in 2..Len(s) : s2[k] = s[k]
    BY SMTT(30), <1>3
  <1> HIDE DEF s2
  <1>7. Replaced(s, s2, f)
    BY <1>5, <1>6 DEF Replaced
  <1>8. stack'[p] = s2 /\ OnlyStackOf(p)
    BY <1>1, <1>2, <1>5 DEF OnlyStackOf
  <1> QED BY <1>7, <1>8 DEF s, f

LEMMA CallFacts ==
    ASSUME Typed, NEW p \in Threads, stack[p] # <<>>, NEW pc \in Pcs, NEW f \in Frames,
           [stack[p][1] EXCEPT !.pc = pc] \in Frames, Call(p, pc, f)
    PROVE  /\ Pushed(stack[p], stack'[p], f, [stack[p][1] EXCEPT !.pc = pc])
           /\ OnlyStackOf(p)
  <1> DEFINE s == stack[p]
             g == [s[1] EXCEPT !.pc = pc]
             s1 == <<g>> \o Tail(s)
             s2 == <<f>> \o s1
  <1>1. stack \in [Threads -> Seq(Frames)] /\ s \in Seq(Frames)
    BY DEF Typed
  <1>2. Len(s) \in Nat /\ Len(s) >= 1 /\ Head(s) = s[1]
    BY <1>1, StackFacts
  <1>3. /\ Tail(s) \in Seq(Frames) /\ Len(Tail(s)) = Len(s) - 1
        /\ \A k \in 1..Len(Tail(s)) : Tail(s)[k] = s[k + 1]
    BY <1>1, TailFacts DEF Popped
  <1>4. g \in Frames
    OBVIOUS
  <1>5. <<f>> \o <<g>> \o Tail(s) = s2
    <2>1. <<f>> \in Seq(Frames) /\ <<g>> \in Seq(Frames)
      BY SMTT(30), <1>4
    <2> HIDE DEF g, s
    <2> QED BY SMTT(30), <1>3, <2>1
  <1>6. stack' = [stack EXCEPT ![p] = s2]
    BY <1>1, <1>2, <1>5 DEF Call
  <1> HIDE DEF s, g
  <1>7. /\ s1 \in Seq(Frames) /\ Len(s1) = Len(s) /\ s1[1] = g
        /\ \A k \in 1..(Len(s) - 1) : s1[k + 1] = s[k + 1]
    BY SMTT(30), <1>2, <1>3, <1>4, ConsFacts
  <1> HIDE DEF s1
  <1>8. /\ s2 \in Seq(Frames) /\ Len(s2) = Len(s) + 1 /\ s2[1] = f
        /\ \A k \in 1..Len(s) : s2[k + 1] = s1[k]
    BY SMTT(30), <1>7, ConsFacts
  <1> HIDE DEF s2
  <1>9. s2[2] = g
    <2>1. 1 \in 1..Len(s) /\ 1 + 1 = 2
      BY SMTT(30), <1>2
    <2> QED BY <1>7, <1>8, <2>1
  <1>10. ASSUME NEW k \in 2..Len(s) PROVE s2[k + 1] = s[k]
    <2>1. k \in 1..Len(s) /\ k - 1 \in 1..(Len(s) - 1) /\ (k - 1) + 1 = k
      BY SMTT(30), <1>2
    <2> QED BY <1>7, <1>8, <2>1
  <1>11. Pushed(s, s2, f, g)
    BY <1>8, <1>9, <1>10 DEF Pushed
  <1>12. stack'[p] = s2 /\ OnlyStackOf(p)
    BY <1>1, <1>6, <1>8 DEF OnlyStackOf
  <1> QED BY <1>11, <1>12 DEF s, g

LEMMA ReturnFacts ==
    ASSUME Typed, NEW p \in Threads, stack[p] # <<>>, Return(p)
    PROVE  Popped(stack[p], stack'[p]) /\ OnlyStackOf(p)
  <1>1. stack \in [Threads -> Seq(Frames)] /\ stack[p] \in Seq(Frames)
    BY DEF Typed
  <1>2. stack' = [stack EXCEPT ![p] = Tail(stack[p])]
    BY <1>1 DEF Return
  <1>3. Popped(stack[p], Tail(stack[p]))
    BY <1>1, TailFacts
  <1> QED BY <1>1, <1>2, <1>3 DEF Popped, OnlyStackOf

\* The frame at height d, counted from the bottom of the stack.
Heights(s) == 0..(Len(s) - 1)
Up(s, d) == s[Len(s) - d]

LEMMA HeightFacts ==
    ASSUME NEW s \in Seq(Frames)
    PROVE  /\ \A d \in Heights(s) : d \in Nat /\ Up(s, d) \in Frames
           /\ \A k \in 1..Len(s) : Len(s) - k \in Heights(s) /\ Up(s, Len(s) - k) = s[k]
           /\ s # <<>> => /\ Len(s) - 1 \in Heights(s) /\ Up(s, Len(s) - 1) = s[1]
                          /\ 0 \in Heights(s)
  <1>1. Len(s) \in Nat /\ (s # <<>> <=> Len(s) >= 1) /\ \A k \in 1..Len(s) : s[k] \in Frames
    BY StackFacts
  <1>2. ASSUME NEW d \in Heights(s) PROVE d \in Nat /\ Up(s, d) \in Frames
    <2>1. Len(s) - d \in 1..Len(s) /\ d \in Nat
      BY SMTT(30), <1>1 DEF Heights
    <2> QED BY <1>1, <2>1 DEF Up
  <1>3. ASSUME NEW k \in 1..Len(s)
        PROVE  Len(s) - k \in Heights(s) /\ Up(s, Len(s) - k) = s[k]
    <2>1. Len(s) - k \in 0..(Len(s) - 1) /\ Len(s) - (Len(s) - k) = k
      BY SMTT(30), <1>1
    <2> QED BY <2>1 DEF Heights, Up
  <1>4. s # <<>> => 1 \in 1..Len(s) /\ 0 \in Heights(s)
    BY SMTT(30), <1>1 DEF Heights
  <1> QED BY <1>2, <1>3, <1>4

LEMMA ReplacedUp ==
    ASSUME NEW s \in Seq(Frames), s # <<>>, NEW s2, NEW f, Replaced(s, s2, f)
    PROVE  /\ Heights(s2) = Heights(s)
           /\ Up(s2, Len(s) - 1) = f
           /\ \A d \in Heights(s) : d # Len(s) - 1 => Up(s2, d) = Up(s, d)
  <1>1. Len(s) \in Nat /\ Len(s) >= 1
    BY StackFacts
  <1>2. Len(s2) = Len(s) /\ s2[1] = f /\ \A k \in 2..Len(s) : s2[k] = s[k]
    BY DEF Replaced
  <1>3. Len(s) - (Len(s) - 1) = 1
    BY SMTT(30), <1>1
  <1>4. ASSUME NEW d \in Heights(s), d # Len(s) - 1 PROVE Up(s2, d) = Up(s, d)
    <2>1. Len(s) - d \in 2..Len(s)
      BY SMTT(30), <1>1, <1>4 DEF Heights
    <2> QED BY <1>2, <2>1 DEF Up
  <1> QED BY <1>2, <1>3, <1>4 DEF Heights, Up

LEMMA PushedUp ==
    ASSUME NEW s \in Seq(Frames), s # <<>>, NEW s2, NEW f, NEW g, Pushed(s, s2, f, g)
    PROVE  /\ Heights(s2) = Heights(s) \cup {Len(s)} /\ Len(s) \notin Heights(s)
           /\ Up(s2, Len(s)) = f
           /\ Up(s2, Len(s) - 1) = g
           /\ \A d \in Heights(s) : d # Len(s) - 1 => Up(s2, d) = Up(s, d)
  <1>1. Len(s) \in Nat /\ Len(s) >= 1
    BY StackFacts
  <1>2. /\ Len(s2) = Len(s) + 1 /\ s2[1] = f /\ s2[2] = g
        /\ \A k \in 2..Len(s) : s2[k + 1] = s[k]
    BY DEF Pushed
  <1>3. (Len(s) + 1) - Len(s) = 1 /\ (Len(s) + 1) - (Len(s) - 1) = 2
    BY SMTT(30), <1>1
  <1>4. ASSUME NEW d \in Heights(s), d # Len(s) - 1 PROVE Up(s2, d) = Up(s, d)
    <2>1. Len(s) - d \in 2..Len(s) /\ (Len(s) + 1) - d = (Len(s) - d) + 1
      BY SMTT(30), <1>1, <1>4 DEF Heights
    <2> QED BY <1>2, <2>1 DEF Up
  <1>5. 0..((Len(s) + 1) - 1) = (0..(Len(s) - 1)) \cup {Len(s)} /\ Len(s) \notin 0..(Len(s) - 1)
    BY SMTT(30), <1>1
  <1> QED BY <1>2, <1>3, <1>4, <1>5 DEF Heights, Up

LEMMA PoppedUp ==
    ASSUME NEW s \in Seq(Frames), s # <<>>, NEW s2, Popped(s, s2)
    PROVE  /\ Heights(s2) = Heights(s) \ {Len(s) - 1}
           /\ \A d \in Heights(s2) : Up(s2, d) = Up(s, d)
  <1>1. Len(s) \in Nat /\ Len(s) >= 1
    BY StackFacts
  <1>2. Len(s2) = Len(s) - 1 /\ \A k \in 1..Len(s2) : s2[k] = s[k + 1]
    BY DEF Popped
  <1>3. 0..((Len(s) - 1) - 1) = (0..(Len(s) - 1)) \ {Len(s) - 1}
    BY SMTT(30), <1>1
  <1>4. ASSUME NEW d \in Heights(s2) PROVE Up(s2, d) = Up(s, d)
    <2>1. Len(s2) - d \in 1..Len(s2) /\ (Len(s2) - d) + 1 = Len(s) - d
      BY SMTT(30), <1>1, <1>2 DEF Heights
    <2> QED BY <1>2, <2>1 DEF Up
  <1> QED BY <1>2, <1>3, <1>4 DEF Heights

LEMMA ShiftedUp ==
    ASSUME NEW s \in Seq(Frames), NEW s2, Shifted(s, s2)
    PROVE  /\ Heights(s2) = Heights(s)
           /\ \A d \in Heights(s) : /\ Up(s2, d).pc = Up(s, d).pc /\ Up(s2, d).io = Up(s, d).io
                                    /\ Up(s2, d).t = Up(s, d).t /\ Up(s2, d).kind = Up(s, d).kind
                                    /\ Up(s2, d).took = Up(s, d).took
  <1>1. Len(s) \in Nat /\ Len(s2) = Len(s)
    BY StackFacts DEF Shifted
  <1>2. \A d \in Heights(s) : Len(s) - d \in 1..Len(s)
    BY SMTT(30), <1>1 DEF Heights
  <1> QED BY <1>1, <1>2 DEF Heights, Up, Shifted

\* The frames of the application's own calls: their heights, labels and objects.
\* A signal, or a submission, leaves them as they are.
Ctl(s) == {x \in Nat \X Control \X (Ios \cup {None}) :
             x[1] \in Heights(s) /\ Up(s, x[1]).pc = x[2] /\ Up(s, x[1]).io = x[3]}
\* What a frame f at height d adds to it.
Note(d, f) == IF f.pc \in Control THEN {<<d, f.pc, f.io>>} ELSE {}

LEMMA CtlFacts ==
    ASSUME NEW s \in Seq(Frames)
    PROVE  /\ \A d, pc, i : <<d, pc, i>> \in Ctl(s) <=>
                 d \in Heights(s) /\ pc \in Control /\ Up(s, d).pc = pc /\ Up(s, d).io = i
           /\ \A x \in Ctl(s) : x = <<x[1], x[2], x[3]>>
  <1>1. \A d \in Heights(s) : d \in Nat /\ Up(s, d).io \in Ios \cup {None}
    BY HeightFacts, FrameFacts
  <1> QED BY SMTT(30), <1>1 DEF Ctl

LEMMA CtlReplaced ==
    ASSUME NEW s \in Seq(Frames), s # <<>>, NEW s2, NEW f \in Frames, Replaced(s, s2, f)
    PROVE  Ctl(s2) = (Ctl(s) \ Note(Len(s) - 1, s[1])) \cup Note(Len(s) - 1, f)
  <1> DEFINE n == Len(s) - 1
  <1>1. s2 \in Seq(Frames)
    BY DEF Replaced
  <1>2. n \in Heights(s) /\ Up(s, n) = s[1]
    BY HeightFacts
  <1>3. Heights(s2) = Heights(s) /\ Up(s2, n) = f /\ \A d \in Heights(s) : d # n => Up(s2, d) = Up(s, d)
    BY SMTT(30), ReplacedUp
  <1>4. /\ \A d, pc, i : <<d, pc, i>> \in Ctl(s2) <=>
                 d \in Heights(s2) /\ pc \in Control /\ Up(s2, d).pc = pc /\ Up(s2, d).io = i
        /\ \A x \in Ctl(s2) : x = <<x[1], x[2], x[3]>>
    BY <1>1, CtlFacts
  <1>5. /\ \A d, pc, i : <<d, pc, i>> \in Ctl(s) <=>
                 d \in Heights(s) /\ pc \in Control /\ Up(s, d).pc = pc /\ Up(s, d).io = i
        /\ \A x \in Ctl(s) : x = <<x[1], x[2], x[3]>>
    BY CtlFacts
  <1> HIDE DEF n
  <1> DEFINE new == (Ctl(s) \ Note(n, s[1])) \cup Note(n, f)
  <1>6. \A x \in new : x = <<x[1], x[2], x[3]>>
    BY SMTT(30), <1>5 DEF Note
  <1>7. ASSUME NEW d, NEW pc, NEW i PROVE <<d, pc, i>> \in Ctl(s2) <=> <<d, pc, i>> \in new
    <2>1. CASE d = n
      BY SMTT(30), <1>2, <1>3, <1>4, <1>5, <2>1 DEF Note
    <2>2. CASE d # n
      <3>1. <<d, pc, i>> \notin Note(n, s[1]) /\ <<d, pc, i>> \notin Note(n, f)
        BY <2>2 DEF Note
      <3> QED BY SMTT(30), <1>3, <1>4, <1>5, <2>2, <3>1
    <2> QED BY <2>1, <2>2
  <1> HIDE DEF new
  <1>8. ASSUME NEW x PROVE x \in Ctl(s2) <=> x \in new
    <2>1. x \in Ctl(s2) \/ x \in new => x = <<x[1], x[2], x[3]>>
      BY <1>4, <1>6
    <2> QED BY <1>7, <2>1
  <1> QED BY <1>8 DEF new, n

LEMMA CtlPushed ==
    ASSUME NEW s \in Seq(Frames), s # <<>>, NEW s2, NEW f \in Frames, NEW g \in Frames,
           Pushed(s, s2, f, g),
           (g.pc \in Control \/ s[1].pc \in Control) => g.pc = s[1].pc /\ g.io = s[1].io
    PROVE  Ctl(s2) = Ctl(s) \cup Note(Len(s), f)
  <1> DEFINE n == Len(s) - 1
             m == Len(s)
  <1>1. s2 \in Seq(Frames)
    BY DEF Pushed
  <1>2. n \in Heights(s) /\ Up(s, n) = s[1]
    BY HeightFacts
  <1>3. /\ Heights(s2) = Heights(s) \cup {m} /\ m \notin Heights(s)
        /\ Up(s2, m) = f /\ Up(s2, n) = g
        /\ \A d \in Heights(s) : d # n => Up(s2, d) = Up(s, d)
    BY SMTT(30), PushedUp
  <1>4. /\ \A d, pc, i : <<d, pc, i>> \in Ctl(s2) <=>
                 d \in Heights(s2) /\ pc \in Control /\ Up(s2, d).pc = pc /\ Up(s2, d).io = i
        /\ \A x \in Ctl(s2) : x = <<x[1], x[2], x[3]>>
    BY <1>1, CtlFacts
  <1>5. /\ \A d, pc, i : <<d, pc, i>> \in Ctl(s) <=>
                 d \in Heights(s) /\ pc \in Control /\ Up(s, d).pc = pc /\ Up(s, d).io = i
        /\ \A x \in Ctl(s) : x = <<x[1], x[2], x[3]>>
    BY CtlFacts
  <1> HIDE DEF n, m
  <1> DEFINE new == Ctl(s) \cup Note(m, f)
  <1>7. \A x \in new : x = <<x[1], x[2], x[3]>>
    BY SMTT(30), <1>5 DEF Note
  <1>8. ASSUME NEW d, NEW pc, NEW i PROVE <<d, pc, i>> \in Ctl(s2) <=> <<d, pc, i>> \in new
    <2>1. CASE d = m
      BY SMTT(30), <1>3, <1>4, <1>5, <2>1 DEF Note
    <2>2. CASE d # m
      <3>1. <<d, pc, i>> \notin Note(m, f)
        BY <2>2 DEF Note
      <3>2. CASE d = n
        BY SMTT(30), <1>2, <1>3, <1>4, <1>5, <2>2, <3>1, <3>2
      <3>3. CASE d # n
        BY SMTT(30), <1>3, <1>4, <1>5, <2>2, <3>1, <3>3
      <3> QED BY <3>2, <3>3
    <2> QED BY <2>1, <2>2
  <1> HIDE DEF new
  <1>9. ASSUME NEW x PROVE x \in Ctl(s2) <=> x \in new
    <2>1. x \in Ctl(s2) \/ x \in new => x = <<x[1], x[2], x[3]>>
      BY <1>4, <1>7
    <2> QED BY <1>8, <2>1
  <1> QED BY <1>9 DEF new, m

LEMMA CtlPopped ==
    ASSUME NEW s \in Seq(Frames), s # <<>>, NEW s2, Popped(s, s2)
    PROVE  Ctl(s2) = Ctl(s) \ Note(Len(s) - 1, s[1])
  <1> DEFINE n == Len(s) - 1
  <1>1. s2 \in Seq(Frames)
    BY DEF Popped
  <1>2. n \in Heights(s) /\ Up(s, n) = s[1]
    BY HeightFacts
  <1>3. Heights(s2) = Heights(s) \ {n} /\ \A d \in Heights(s2) : Up(s2, d) = Up(s, d)
    BY PoppedUp
  <1>4. /\ \A d, pc, i : <<d, pc, i>> \in Ctl(s2) <=>
                 d \in Heights(s2) /\ pc \in Control /\ Up(s2, d).pc = pc /\ Up(s2, d).io = i
        /\ \A x \in Ctl(s2) : x = <<x[1], x[2], x[3]>>
    BY <1>1, CtlFacts
  <1>5. /\ \A d, pc, i : <<d, pc, i>> \in Ctl(s) <=>
                 d \in Heights(s) /\ pc \in Control /\ Up(s, d).pc = pc /\ Up(s, d).io = i
        /\ \A x \in Ctl(s) : x = <<x[1], x[2], x[3]>>
    BY CtlFacts
  <1> HIDE DEF n
  <1>6. ASSUME NEW d, NEW pc, NEW i
        PROVE  <<d, pc, i>> \in Ctl(s2) <=> <<d, pc, i>> \in Ctl(s) \ Note(n, s[1])
    <2>1. CASE d = n
      BY SMTT(30), <1>2, <1>3, <1>4, <1>5, <2>1 DEF Note
    <2>2. CASE d # n
      <3>1. <<d, pc, i>> \notin Note(n, s[1])
        BY <2>2 DEF Note
      <3> QED BY SMTT(30), <1>3, <1>4, <1>5, <2>2, <3>1
    <2> QED BY <2>1, <2>2
  <1>7. Ctl(s2) = Ctl(s) \ Note(n, s[1])
    BY SMTT(30), <1>4, <1>5, <1>6
  <1> QED BY <1>7 DEF n

LEMMA CtlShifted ==
    ASSUME NEW s \in Seq(Frames), NEW s2, Shifted(s, s2)
    PROVE  Ctl(s2) = Ctl(s)
  <1>1. Heights(s2) = Heights(s) /\ \A d \in Heights(s) : Up(s2, d).pc = Up(s, d).pc /\ Up(s2, d).io = Up(s, d).io
    BY ShiftedUp
  <1> QED BY <1>1 DEF Ctl

\* The objects the frames of a stack work on.
IosOf(s) == {s[k].io : k \in 1..Len(s)}

LEMMA IosReplaced ==
    ASSUME NEW s \in Seq(Frames), s # <<>>, NEW s2, NEW f, Replaced(s, s2, f)
    PROVE  IosOf(s2) \subseteq IosOf(s) \cup {f.io} /\ s[1].io \in IosOf(s)
  <1>1. Len(s) \in Nat /\ Len(s) >= 1
    BY StackFacts
  <1>2. Len(s2) = Len(s) /\ \A k \in 1..Len(s) : s2[k].io \in IosOf(s) \cup {f.io}
    <2>1. ASSUME NEW k \in 1..Len(s) PROVE s2[k].io \in IosOf(s) \cup {f.io}
      <3>1. CASE k = 1
        BY <3>1 DEF Replaced
      <3>2. CASE k # 1
        <4>1. k \in 2..Len(s)
          BY SMTT(30), <1>1, <3>2
        <4> QED BY <4>1 DEF Replaced, IosOf
      <3> QED BY <3>1, <3>2
    <2> QED BY <2>1 DEF Replaced
  <1>3. 1 \in 1..Len(s)
    BY SMTT(30), <1>1
  <1> QED BY <1>2, <1>3 DEF IosOf

LEMMA IosPushed ==
    ASSUME NEW s \in Seq(Frames), s # <<>>, NEW s2, NEW f, NEW g, Pushed(s, s2, f, g),
           g.io = s[1].io
    PROVE  IosOf(s2) \subseteq IosOf(s) \cup {f.io} /\ s[1].io \in IosOf(s)
  <1>1. Len(s) \in Nat /\ Len(s) >= 1
    BY StackFacts
  <1>2. 1 \in 1..Len(s)
    BY SMTT(30), <1>1
  <1>3. Len(s2) = Len(s) + 1 /\ \A k \in 1..(Len(s) + 1) : s2[k].io \in IosOf(s) \cup {f.io}
    <2>1. ASSUME NEW k \in 1..(Len(s) + 1) PROVE s2[k].io \in IosOf(s) \cup {f.io}
      <3>1. CASE k = 1
        BY <3>1 DEF Pushed
      <3>2. CASE k = 2
        BY <1>2, <3>2 DEF Pushed, IosOf
      <3>3. CASE k > 2
        <4>1. k - 1 \in 2..Len(s) /\ (k - 1) + 1 = k /\ k - 1 \in 1..Len(s)
          BY SMTT(30), <1>1, <3>3
        <4>2. s2[k] = s[k - 1]
          BY <4>1 DEF Pushed
        <4> QED BY <4>1, <4>2 DEF IosOf
      <3> QED BY SMTT(30), <3>1, <3>2, <3>3
    <2> QED BY <2>1 DEF Pushed
  <1> QED BY <1>2, <1>3 DEF IosOf

LEMMA IosPopped ==
    ASSUME NEW s \in Seq(Frames), s # <<>>, NEW s2, Popped(s, s2)
    PROVE  IosOf(s2) \subseteq IosOf(s)
  <1>1. Len(s) \in Nat /\ Len(s) >= 1 /\ Len(s2) = Len(s) - 1
    BY StackFacts DEF Popped
  <1>2. ASSUME NEW k \in 1..Len(s2) PROVE s2[k].io \in IosOf(s)
    <2>1. k + 1 \in 1..Len(s)
      BY SMTT(30), <1>1
    <2> QED BY <2>1 DEF Popped, IosOf
  <1> QED BY <1>2 DEF IosOf

LEMMA IosShifted ==
    ASSUME NEW s \in Seq(Frames), NEW s2, Shifted(s, s2)
    PROVE  IosOf(s2) = IosOf(s)
  BY SMTT(30) DEF Shifted, IosOf

\* A step that is none of the application's own calls keeps these, and adds at
\* most frames on the objects of J.
CtlKept == Ctl(stack'[Main]) = Ctl(stack[Main])
IosKept(J) == \A q \in Threads : IosOf(stack'[q]) \subseteq IosOf(stack[q]) \cup J

LEMMA GoKept ==
    ASSUME Typed, NEW p \in Threads, stack[p] # <<>>, NEW f \in Frames,
           Replaced(stack[p], stack'[p], f), OnlyStackOf(p),
           stack[p][1].pc \notin Control, f.pc \notin Control
    PROVE  /\ CtlKept /\ IosKept({f.io})
           /\ f.io = stack[p][1].io => IosKept({})
  <1>1. stack[p] \in Seq(Frames)
    BY DEF Typed
  <1>2. Ctl(stack'[p]) = Ctl(stack[p])
    <2>1. Note(Len(stack[p]) - 1, stack[p][1]) = {} /\ Note(Len(stack[p]) - 1, f) = {}
      BY DEF Note
    <2>2. Ctl(stack'[p]) = (Ctl(stack[p]) \ Note(Len(stack[p]) - 1, stack[p][1]))
                              \cup Note(Len(stack[p]) - 1, f)
      BY <1>1, CtlReplaced
    <2> QED BY <2>1, <2>2
  <1>3. IosOf(stack'[p]) \subseteq IosOf(stack[p]) \cup {f.io} /\ stack[p][1].io \in IosOf(stack[p])
    BY <1>1, IosReplaced
  <1>4. Main \in Threads
    BY DEF Threads
  <1> QED BY <1>2, <1>3, <1>4 DEF CtlKept, IosKept, OnlyStackOf

LEMMA CallKept ==
    ASSUME Typed, NEW p \in Threads, stack[p] # <<>>, NEW f \in Frames, NEW g \in Frames,
           Pushed(stack[p], stack'[p], f, g), OnlyStackOf(p),
           (g.pc \in Control \/ stack[p][1].pc \in Control) => g.pc = stack[p][1].pc,
           g.io = stack[p][1].io, f.pc \notin Control
    PROVE  /\ CtlKept /\ IosKept({f.io})
           /\ f.io = stack[p][1].io => IosKept({})
  <1>1. stack[p] \in Seq(Frames)
    BY DEF Typed
  <1>2. Ctl(stack'[p]) = Ctl(stack[p])
    <2>1. Note(Len(stack[p]), f) = {}
      BY DEF Note
    <2>2. Ctl(stack'[p]) = Ctl(stack[p]) \cup Note(Len(stack[p]), f)
      BY <1>1, CtlPushed
    <2> QED BY <2>1, <2>2
  <1>3. IosOf(stack'[p]) \subseteq IosOf(stack[p]) \cup {f.io} /\ stack[p][1].io \in IosOf(stack[p])
    BY <1>1, IosPushed
  <1>4. Main \in Threads
    BY DEF Threads
  <1> QED BY <1>2, <1>3, <1>4 DEF CtlKept, IosKept, OnlyStackOf

LEMMA ReturnKept ==
    ASSUME Typed, NEW p \in Threads, stack[p] # <<>>,
           Popped(stack[p], stack'[p]), OnlyStackOf(p), stack[p][1].pc \notin Control
    PROVE  CtlKept /\ IosKept({})
  <1>1. stack[p] \in Seq(Frames)
    BY DEF Typed
  <1>2. Ctl(stack'[p]) = Ctl(stack[p])
    <2>1. Note(Len(stack[p]) - 1, stack[p][1]) = {}
      BY DEF Note
    <2>2. Ctl(stack'[p]) = Ctl(stack[p]) \ Note(Len(stack[p]) - 1, stack[p][1])
      BY <1>1, CtlPopped
    <2> QED BY <2>1, <2>2
  <1>3. IosOf(stack'[p]) \subseteq IosOf(stack[p])
    BY <1>1, IosPopped
  <1>4. Main \in Threads
    BY DEF Threads
  <1> QED BY SMTT(30), <1>2, <1>3, <1>4 DEF CtlKept, IosKept, OnlyStackOf

LEMMA TopFacts ==
    ASSUME Typed, NEW p \in Threads, NEW pc, At(p, pc)
    PROVE  /\ stack[p] \in Seq(Frames) /\ stack[p] # <<>>
           /\ Top(p) = stack[p][1] /\ Top(p) \in Frames /\ Top(p).pc = pc
           /\ Top(p).io \in Ios \cup {None} /\ Top(p).t \in UserData /\ Top(p).slot \in Slots
           /\ pc \notin {"idle", "sig"} => Top(p).io \in Ios
  <1>1. stack[p] \in Seq(Frames) /\ stack[p] # <<>> /\ stack[p][1].pc = pc
    BY DEF Typed, At
  <1>2. stack[p][1] \in Frames
    BY <1>1, StackFacts
  <1> QED BY <1>1, <1>2, FrameFacts DEF Top

\* A thread goes on to another label of the same call.
LEMMA GoStep ==
    ASSUME Typed, NEW p \in Threads, NEW pc, At(p, pc), pc \notin Control,
           NEW next \in Submission, pc \notin {"idle", "sig"},
           next = "tag" => Top(p).t \in Tasks, Go(p, next)
    PROVE  /\ Replaced(stack[p], stack'[p], [Top(p) EXCEPT !.pc = next])
           /\ OnlyStackOf(p) /\ CtlKept /\ IosKept({})
  <1> DEFINE f == Top(p)
             g == [f EXCEPT !.pc = next]
  <1>1. f \in Frames /\ f.pc = pc /\ stack[p] # <<>> /\ f = stack[p][1] /\ f.io \in Ios
    BY TopFacts
  <1>2. next \in Pcs /\ next \notin {"idle", "sig"} /\ next \notin Control
    BY DEF Pcs, Submission, Control, Install, Uninstall
  <1>3. f.io # None
    BY <1>1, LifecycleAssumption
  <1>4. g \in Frames /\ g.pc = next /\ g.io = f.io
    BY SMTT(30), <1>1, <1>2, <1>3, GoType
  <1>5. Replaced(stack[p], stack'[p], g) /\ OnlyStackOf(p)
    BY <1>1, <1>2, <1>4, GoFacts
  <1> HIDE DEF g
  <1>6. CtlKept /\ IosKept({})
    BY <1>1, <1>2, <1>4, <1>5, GoKept
  <1> QED BY <1>5, <1>6 DEF g

\* What each step of a submission does, and that it keeps the types.
LEMMA RequestShutdownFacts ==
    ASSUME Typed, NEW p \in Threads, RequestShutdown(p)
    PROVE  /\ Typed' /\ CtlKept /\ IosKept({}) /\ OnlyStackOf(p)
           /\ Replaced(stack[p], stack'[p], [Top(p) EXCEPT !.pc = "get"])
  <1>1. At(p, "stop") /\ Go(p, "get")
    BY DEF RequestShutdown
  <1>2. "stop" \notin Control /\ "get" \in Submission
    BY DEF Control, Install, Uninstall, Submission
  <1>3. /\ Replaced(stack[p], stack'[p], [Top(p) EXCEPT !.pc = "get"])
        /\ OnlyStackOf(p) /\ CtlKept /\ IosKept({})
    BY SMTT(30), <1>1, <1>2, GoStep
  <1>4. shutdown' \in [Ios -> BOOLEAN]
    BY DEF RequestShutdown, Typed
  <1> QED BY <1>3, <1>4 DEF RequestShutdown, Typed, OnlyStackOf, queues, registration

LEMMA PutTailFacts ==
    ASSUME Typed, NEW p \in Threads, PutTail(p)
    PROVE  /\ Typed' /\ CtlKept /\ IosKept({}) /\ OnlyStackOf(p)
           /\ Replaced(stack[p], stack'[p], [Top(p) EXCEPT !.pc = "fill"])
           /\ uring' = [uring EXCEPT ![Top(p).io] = TakeEntry(uring[Top(p).io], Top(p).slot)]
           /\ uring[Top(p).io] \in Rings /\ Top(p).io \in Ios
           /\ \A i \in Ios : uring'[i].open = uring[i].open
  <1>1. At(p, "put") /\ Go(p, "fill")
    BY DEF PutTail
  <1>2. "put" \notin Control /\ "fill" \in Submission
    BY DEF Control, Install, Uninstall, Submission
  <1>3. /\ Replaced(stack[p], stack'[p], [Top(p) EXCEPT !.pc = "fill"])
        /\ OnlyStackOf(p) /\ CtlKept /\ IosKept({})
    BY SMTT(30), <1>1, <1>2, GoStep
  <1> DEFINE i == Top(p).io
             r == TakeEntry(uring[i], Top(p).slot)
  <1>4. i \in Ios /\ Top(p).slot \in Slots /\ uring[i] \in Rings /\ uring \in [Ios -> Rings]
    BY SMTT(30), <1>1, TopFacts DEF Typed
  <1>5. r \in Rings /\ r.open = uring[i].open
    BY <1>4, TakeEntryType
  <1>6. uring' = [uring EXCEPT ![i] = r]
    BY <1>4 DEF PutTail
  <1> HIDE DEF r
  <1>7. uring' \in [Ios -> Rings] /\ \A j \in Ios : uring'[j].open = uring[j].open
    BY <1>4, <1>5, <1>6
  <1>8. Typed'
    BY <1>3, <1>7 DEF PutTail, Typed, OnlyStackOf, registration
  <1> QED BY <1>3, <1>4, <1>6, <1>7, <1>8 DEF r

LEMMA TagEntryFacts ==
    ASSUME Typed, NEW p \in Threads, TagEntry(p)
    PROVE  /\ Typed' /\ CtlKept /\ IosKept({}) /\ OnlyStackOf(p)
           /\ Replaced(stack[p], stack'[p], [Top(p) EXCEPT !.pc = "enter"])
           /\ uring' = [uring EXCEPT ![Top(p).io] =
                          SetUserData(uring[Top(p).io], Top(p).slot, Top(p).t)]
           /\ uring[Top(p).io] \in Rings /\ Top(p).io \in Ios
           /\ \A i \in Ios : uring'[i].open = uring[i].open
  <1>1. At(p, "tag") /\ Go(p, "enter")
    BY DEF TagEntry
  <1>2. "tag" \notin Control /\ "enter" \in Submission
    BY DEF Control, Install, Uninstall, Submission
  <1>3. /\ Replaced(stack[p], stack'[p], [Top(p) EXCEPT !.pc = "enter"])
        /\ OnlyStackOf(p) /\ CtlKept /\ IosKept({})
    BY SMTT(30), <1>1, <1>2, GoStep
  <1> DEFINE i == Top(p).io
             r == SetUserData(uring[i], Top(p).slot, Top(p).t)
  <1>4. /\ i \in Ios /\ Top(p).slot \in Slots /\ Top(p).t \in UserData
        /\ uring[i] \in Rings /\ uring \in [Ios -> Rings]
    <2>1. i \in Ios /\ Top(p).slot \in Slots /\ Top(p).t \in UserData
      BY SMTT(30), <1>1, TopFacts
    <2> QED BY <2>1 DEF Typed
  <1>5. r \in Rings /\ r.open = uring[i].open
    BY <1>4, SetUserDataType
  <1>6. uring' = [uring EXCEPT ![i] = r]
    BY <1>4 DEF TagEntry
  <1> HIDE DEF r
  <1>7. uring' \in [Ios -> Rings] /\ \A j \in Ios : uring'[j].open = uring[j].open
    BY <1>4, <1>5, <1>6
  <1>8. Typed'
    BY <1>3, <1>7 DEF TagEntry, Typed, OnlyStackOf, registration
  <1> QED BY <1>3, <1>4, <1>6, <1>7, <1>8 DEF r

\* A submitting frame that has read the tail.
LEMMA HoldType ==
    ASSUME NEW f \in Frames, f.pc = "get", NEW slot \in Slots
    PROVE  LET g == [f EXCEPT !.pc = "put", !.slot = slot]
           IN  /\ g \in Frames /\ g.pc = "put" /\ g.slot = slot
               /\ g.io = f.io /\ g.t = f.t /\ g.kind = f.kind
               /\ g.cqe = f.cqe /\ g.took = f.took
  <1> DEFINE g == [f EXCEPT !.pc = "put", !.slot = slot]
  <1>1. f \in FrameRecord /\ "put" \in Pcs
    BY FrameFacts DEF Pcs, Submission
  <1>2. g \in FrameRecord /\ g.pc = "put" /\ g.slot = slot /\ g.io = f.io /\ g.t = f.t
        /\ g.kind = f.kind /\ g.cqe = f.cqe /\ g.took = f.took
    BY <1>1 DEF FrameRecord
  <1>3. f.io # None /\ (f.kind # "io" => f.t \in Tasks)
    BY FrameFacts
  <1>4. g \in Frames
    BY <1>2, <1>3 DEF Frames, Submission
  <1> QED BY <1>2, <1>4

\* SubmitTask calls QueueFailedTask, and goes on at label pc once that returns.
LEMMA FailStep ==
    ASSUME Typed, NEW p \in Threads, NEW at \in Submission, At(p, at), Top(p).t \in Tasks,
           NEW pc \in {"enter", "tag"}, Call(p, pc, Frame("get", Top(p).io, Failure(Top(p).t)))
    PROVE  /\ Pushed(stack[p], stack'[p], Frame("get", Top(p).io, Failure(Top(p).t)),
                     [Top(p) EXCEPT !.pc = pc])
           /\ OnlyStackOf(p) /\ CtlKept /\ IosKept({})
  <1> DEFINE f == Top(p)
             g == [f EXCEPT !.pc = pc]
             h == Frame("get", f.io, Failure(f.t))
  <1>1. at \notin Control /\ at \notin {"idle", "sig"}
    BY DEF Control, Install, Uninstall, Submission
  <1>2. f \in Frames /\ f.pc = at /\ stack[p] # <<>> /\ f = stack[p][1] /\ f.io \in Ios
    BY <1>1, TopFacts
  <1>3. f.io # None
    BY <1>2, LifecycleAssumption
  <1>4. pc \in Pcs /\ pc \in Submission /\ "get" \in Submission /\ "get" \in Pcs
        /\ pc \notin {"idle", "sig"} /\ pc \notin Control /\ "get" \notin Control
    BY DEF Pcs, Submission, Control, Install, Uninstall
  <1>5. g \in Frames /\ g.pc = pc /\ g.io = f.io
    BY SMTT(30), <1>2, <1>3, <1>4, GoType
  <1>6. Failure(f.t) \in UserData /\ f.io \in Ios \cup {None}
    BY <1>2, BaseTypes
  <1>7. h \in Frames /\ h.pc = "get" /\ h.io = f.io
    BY SMTT(30), <1>3, <1>4, <1>6, FrameType
  <1>8. Pushed(stack[p], stack'[p], h, g) /\ OnlyStackOf(p)
    BY <1>2, <1>4, <1>5, <1>7, CallFacts
  <1> HIDE DEF g, h
  <1>9. CtlKept /\ IosKept({})
    BY <1>1, <1>2, <1>4, <1>5, <1>7, <1>8, CallKept
  <1> QED BY <1>8, <1>9 DEF g, h

LEMMA GetSqeFacts ==
    ASSUME Typed, NEW p \in Threads, GetSqe(p)
    PROVE  /\ Typed' /\ CtlKept /\ IosKept({}) /\ OnlyStackOf(p)
           /\ Top(p) \in Frames /\ Top(p).pc = "get" /\ Top(p).io \in Ios
           /\ uring[Top(p).io] \in Rings
           /\ \/ /\ ~SqFull(uring[Top(p).io])
                 /\ Replaced(stack[p], stack'[p],
                             [Top(p) EXCEPT !.pc = "put", !.slot = uring[Top(p).io].tail])
                 /\ busy' = busy
              \/ /\ SqFull(uring[Top(p).io]) /\ Top(p).t \in Tasks
                 /\ Pushed(stack[p], stack'[p], Frame("get", Top(p).io, Failure(Top(p).t)),
                           [Top(p) EXCEPT !.pc = "enter"])
                 /\ busy' = busy
              \/ /\ SqFull(uring[Top(p).io]) /\ Top(p).t \notin Tasks
                 /\ Popped(stack[p], stack'[p])
  <1> DEFINE f == Top(p)
             r == uring[f.io]
             g == [f EXCEPT !.pc = "put", !.slot = r.tail]
  <1>1. At(p, "get")
    BY DEF GetSqe
  <1>2. f \in Frames /\ f.pc = "get" /\ stack[p] # <<>> /\ f = stack[p][1] /\ f.io \in Ios
    BY SMTT(30), <1>1, TopFacts
  <1>3. r \in Rings /\ r.tail \in Slots
    BY <1>2 DEF Typed, Rings
  <1>4. "get" \notin Control /\ "put" \notin Control /\ "get" \in Submission
    BY DEF Control, Install, Uninstall, Submission
  <1>5. ASSUME OnlyStackOf(p), busy' \in [Tasks -> Ios \cup {None}] PROVE Typed'
    BY <1>5 DEF GetSqe, Typed, OnlyStackOf, queues, registration
  <1>6. CASE ~SqFull(r)
    <2>1. GoWith(p, g) /\ busy' = busy
      BY <1>6 DEF GetSqe
    <2>2. g \in Frames /\ g.pc = "put" /\ g.io = f.io
      BY <1>2, <1>3, HoldType
    <2>3. Replaced(stack[p], stack'[p], g) /\ OnlyStackOf(p)
      BY <1>2, <2>1, <2>2, GoWithFacts
    <2> HIDE DEF g
    <2>4. CtlKept /\ IosKept({})
      BY <1>2, <1>4, <2>2, <2>3, GoKept
    <2>5. Typed'
      BY <1>5, <2>1, <2>3 DEF Typed
    <2> QED BY <1>2, <1>3, <1>6, <2>1, <2>3, <2>4, <2>5 DEF g
  <1>7. CASE SqFull(r) /\ f.t \in Tasks
    <2>1. Call(p, "enter", Frame("get", f.io, Failure(f.t))) /\ busy' = busy
      BY <1>7 DEF GetSqe
    <2>2. /\ Pushed(stack[p], stack'[p], Frame("get", f.io, Failure(f.t)),
                    [f EXCEPT !.pc = "enter"])
          /\ OnlyStackOf(p) /\ CtlKept /\ IosKept({})
      BY <1>1, <1>4, <1>7, <2>1, FailStep
    <2>3. Typed'
      BY <1>5, <2>1, <2>2 DEF Typed
    <2> QED BY <1>2, <1>3, <1>7, <2>1, <2>2, <2>3
  <1>8. CASE SqFull(r) /\ f.t \notin Tasks
    <2>1. Return(p) /\ busy' = [t \in Tasks |-> IF f.t = Failure(t) THEN None ELSE busy[t]]
      BY <1>8 DEF GetSqe
    <2>2. Popped(stack[p], stack'[p]) /\ OnlyStackOf(p)
      BY <1>2, <2>1, ReturnFacts
    <2>3. CtlKept /\ IosKept({})
      BY <1>2, <1>4, <2>2, ReturnKept
    <2>4. busy' \in [Tasks -> Ios \cup {None}]
      BY <2>1 DEF Typed
    <2>5. Typed'
      BY <1>5, <2>2, <2>4
    <2> QED BY <1>2, <1>3, <1>8, <2>2, <2>3, <2>5
  <1> QED BY <1>6, <1>7, <1>8

LEMMA FillEntryFacts ==
    ASSUME Typed, NEW p \in Threads, FillEntry(p)
    PROVE  /\ Typed' /\ CtlKept /\ IosKept({}) /\ OnlyStackOf(p)
           /\ Top(p) \in Frames /\ Top(p).pc = "fill" /\ Top(p).io \in Ios
           /\ uring[Top(p).io] \in Rings
           /\ \A i \in Ios : uring'[i].open = uring[i].open
           /\ \/ /\ Top(p).kind = "io" /\ [op |-> OpOf(Top(p)), ud |-> Top(p).t] \in Requests
                 /\ Replaced(stack[p], stack'[p], [Top(p) EXCEPT !.pc = "enter"])
                 /\ uring' = [uring EXCEPT ![Top(p).io] =
                                Fill(uring[Top(p).io], Top(p).slot,
                                     [op |-> OpOf(Top(p)), ud |-> Top(p).t])]
                 /\ left' = left
              \/ /\ Top(p).kind # "io" /\ Top(p).t \in Tasks
                 /\ \E pc \in {"tag", "enter"} :
                       Pushed(stack[p], stack'[p], Frame("get", Top(p).io, Failure(Top(p).t)),
                              [Top(p) EXCEPT !.pc = pc])
                 /\ uring' = uring /\ left' = left \cup {Top(p).io}
  <1> DEFINE f == Top(p)
             i == f.io
             q == [op |-> OpOf(f), ud |-> f.t]
             r == Fill(uring[i], f.slot, q)
  <1>1. At(p, "fill")
    BY DEF FillEntry
  <1>2. f \in Frames /\ f.pc = "fill" /\ i \in Ios /\ f.slot \in Slots /\ f.t \in UserData
    BY SMTT(30), <1>1, TopFacts
  <1>3. uring \in [Ios -> Rings] /\ uring[i] \in Rings
    BY <1>2 DEF Typed
  <1>4. "fill" \notin Control /\ "fill" \in Submission /\ "enter" \in Submission
    BY DEF Control, Install, Uninstall, Submission
  <1>5. f.kind # "io" => f.t \in Tasks
    BY <1>2, FrameFacts
  <1>6. CASE f.kind = "io"
    <2>1. uring' = [uring EXCEPT ![i] = r] /\ Go(p, "enter") /\ left' = left
      BY <1>3, <1>6 DEF FillEntry
    <2>2. /\ Replaced(stack[p], stack'[p], [f EXCEPT !.pc = "enter"])
          /\ OnlyStackOf(p) /\ CtlKept /\ IosKept({})
      BY SMTT(30), <1>1, <1>4, <2>1, GoStep
    <2>3. q \in Requests
      BY <1>2 DEF Requests, OpOf, Ops
    <2> HIDE DEF q
    <2>4. r \in Rings /\ r.open = uring[i].open
      BY <1>2, <1>3, <2>3, FillType
    <2> HIDE DEF r
    <2>5. uring' \in [Ios -> Rings] /\ \A j \in Ios : uring'[j].open = uring[j].open
      BY <1>2, <1>3, <2>1, <2>4
    <2>6. Typed'
      BY <2>1, <2>2, <2>5 DEF FillEntry, Typed, OnlyStackOf, registration
    <2> QED BY <1>2, <1>3, <1>6, <2>1, <2>2, <2>3, <2>5, <2>6 DEF q, r
  <1>7. CASE f.kind # "io"
    <2> DEFINE pc == IF f.kind = "connect" THEN "tag" ELSE "enter"
    <2>1. /\ Call(p, pc, Frame("get", i, Failure(f.t)))
          /\ left' = left \cup {i} /\ uring' = uring
      BY <1>7 DEF FillEntry
    <2>2. pc \in {"tag", "enter"} /\ f.t \in Tasks
      BY <1>5, <1>7
    <2> HIDE DEF pc
    <2>3. /\ Pushed(stack[p], stack'[p], Frame("get", i, Failure(f.t)), [f EXCEPT !.pc = pc])
          /\ OnlyStackOf(p) /\ CtlKept /\ IosKept({})
      BY <1>1, <1>4, <2>1, <2>2, FailStep
    <2>4. Typed'
      BY <1>2, <2>1, <2>3 DEF FillEntry, Typed, OnlyStackOf, registration
    <2> QED BY <1>2, <1>3, <1>7, <2>1, <2>2, <2>3, <2>4
  <1> QED BY <1>6, <1>7

\* What io_uring_submit, on the ring of i with n entries up to the tail, does to
\* a frame: its slot is counted from the new first entry.
Moved(i, n, f) ==
    IF f.io = i /\ f.pc \in {"put", "fill", "tag"}
    THEN [f EXCEPT !.slot = SqIndex(f.slot - n)] ELSE f

LEMMA MovedType ==
    ASSUME NEW i \in Ios, NEW n \in 0..Entries, NEW f \in Frames
    PROVE  /\ Moved(i, n, f) \in Frames
           /\ Moved(i, n, f).pc = f.pc /\ Moved(i, n, f).io = f.io
           /\ Moved(i, n, f).t = f.t /\ Moved(i, n, f).kind = f.kind
           /\ Moved(i, n, f).cqe = f.cqe /\ Moved(i, n, f).took = f.took
           /\ ~(f.io = i /\ f.pc \in {"put", "fill", "tag"}) => Moved(i, n, f) = f
           /\ f.io = i /\ f.pc \in {"put", "fill", "tag"} =>
                 Moved(i, n, f).slot = SqIndex(f.slot - n)
  <1>1. f \in FrameRecord /\ f.slot \in Slots
    BY FrameFacts
  <1>2. f.slot - n \in Int
    BY SMTT(30), <1>1, BaseTypes DEF Slots
  <1>3. SqIndex(f.slot - n) \in Slots
    BY <1>2, SqIndexFacts
  <1> DEFINE g == [f EXCEPT !.slot = SqIndex(f.slot - n)]
  <1>4. /\ g \in FrameRecord /\ g.pc = f.pc /\ g.io = f.io /\ g.t = f.t /\ g.kind = f.kind
        /\ g.cqe = f.cqe /\ g.took = f.took /\ g.slot = SqIndex(f.slot - n)
    BY <1>1, <1>3 DEF FrameRecord
  <1>5. g \in Frames
    BY <1>4, FrameFacts DEF Frames
  <1> HIDE DEF g
  <1>6. Moved(i, n, f) = IF f.io = i /\ f.pc \in {"put", "fill", "tag"} THEN g ELSE f
    BY DEF Moved, g
  <1> QED BY <1>4, <1>5, <1>6

\* What it does to the frames of a thread.
LEMMA MovedSeq ==
    ASSUME NEW i \in Ios, NEW n \in 0..Entries, NEW s \in Seq(Frames)
    PROVE  LET s2 == [k \in DOMAIN s |-> Moved(i, n, s[k])]
           IN  /\ Shifted(s, s2)
               /\ \A k \in 1..Len(s) : s2[k] = Moved(i, n, s[k])
  <1> DEFINE s2 == [k \in DOMAIN s |-> Moved(i, n, s[k])]
  <1>1. Len(s) \in Nat /\ DOMAIN s = 1..Len(s) /\ \A k \in 1..Len(s) : s[k] \in Frames
    BY StackFacts
  <1>2. \A k \in 1..Len(s) : s2[k] = Moved(i, n, s[k])
    BY <1>1
  <1>3. \A k \in 1..Len(s) : s2[k] \in Frames
    BY <1>1, <1>2, MovedType
  <1>4. s2 = [k \in 1..Len(s) |-> s2[k]]
    BY <1>1
  <1> HIDE DEF s2
  <1>5. s2 \in Seq(Frames) /\ Len(s2) = Len(s)
    BY SMTT(30), <1>1, <1>3, <1>4
  <1>6. \A k \in 1..Len(s) : /\ s2[k].pc = s[k].pc /\ s2[k].io = s[k].io
                             /\ s2[k].t = s[k].t /\ s2[k].kind = s[k].kind
                             /\ s2[k].took = s[k].took
    BY SMTT(30), <1>1, <1>2, MovedType
  <1>7. Shifted(s, s2)
    BY <1>5, <1>6 DEF Shifted
  <1> QED BY <1>2, <1>7 DEF s2

\* The frames after thread p has submitted the n entries up to i's tail.
Entered(p, i, n) ==
    /\ stack' \in [Threads -> Seq(Frames)]
    /\ \A q \in Threads :
          /\ Len(stack'[q]) = IF q = p THEN Len(stack[q]) - 1 ELSE Len(stack[q])
          /\ \A d \in Heights(stack'[q]) : Up(stack'[q], d) = Moved(i, n, Up(stack[q], d))

LEMMA EnteredFacts ==
    ASSUME Typed, NEW p \in Threads, At(p, "enter"), NEW i \in Ios, NEW n \in 0..Entries,
           stack' = [q \in Threads |-> LET fs == IF q = p THEN Tail(stack[q]) ELSE stack[q]
                                       IN  [k \in DOMAIN fs |-> Moved(i, n, fs[k])]]
    PROVE  Entered(p, i, n) /\ CtlKept /\ IosKept({})
  <1> DEFINE fs(q) == IF q = p THEN Tail(stack[q]) ELSE stack[q]
             s2(q) == [k \in DOMAIN fs(q) |-> Moved(i, n, fs(q)[k])]
  <1>1. stack \in [Threads -> Seq(Frames)] /\ stack[p] # <<>> /\ stack[p][1].pc = "enter"
    BY SMTT(30), TopFacts DEF Typed
  <1>2. Popped(stack[p], Tail(stack[p]))
    BY <1>1, TailFacts
  <1>3. ASSUME NEW q \in Threads
        PROVE  /\ stack'[q] \in Seq(Frames)
               /\ Ctl(stack'[q]) = Ctl(stack[q])
               /\ IosOf(stack'[q]) \subseteq IosOf(stack[q])
               /\ Len(stack'[q]) = IF q = p THEN Len(stack[q]) - 1 ELSE Len(stack[q])
               /\ \A d \in Heights(stack'[q]) : Up(stack'[q], d) = Moved(i, n, Up(stack[q], d))
    <2>0. stack'[q] = s2(q)
      OBVIOUS
    <2>1. fs(q) \in Seq(Frames) /\ (q = p => Popped(stack[q], fs(q))) /\ (q # p => fs(q) = stack[q])
      BY <1>1, <1>2 DEF Popped
    <2>2. /\ Shifted(fs(q), s2(q))
          /\ \A k \in 1..Len(fs(q)) : s2(q)[k] = Moved(i, n, fs(q)[k])
      <3> HIDE DEF fs
      <3> QED BY <2>1, MovedSeq
    <2> HIDE DEF s2
    <2>3. /\ s2(q) \in Seq(Frames) /\ Len(s2(q)) = Len(fs(q))
          /\ Heights(s2(q)) = Heights(fs(q))
          /\ Ctl(s2(q)) = Ctl(fs(q)) /\ IosOf(s2(q)) = IosOf(fs(q))
      <3> HIDE DEF fs
      <3> QED BY <2>1, <2>2, ShiftedUp, CtlShifted, IosShifted DEF Shifted
    <2>4. /\ Ctl(fs(q)) = Ctl(stack[q]) /\ IosOf(fs(q)) \subseteq IosOf(stack[q])
          /\ Len(fs(q)) = IF q = p THEN Len(stack[q]) - 1 ELSE Len(stack[q])
          /\ \A d \in Heights(fs(q)) : Up(fs(q), d) = Up(stack[q], d)
      <3>1. CASE q # p
        BY <2>1, <3>1
      <3>2. CASE q = p
        <4> HIDE DEF fs
        <4>1. stack[q] \in Seq(Frames) /\ Popped(stack[q], fs(q))
          BY <1>1, <2>1, <3>2
        <4>2. Note(Len(stack[q]) - 1, stack[q][1]) = {}
          BY <1>1, <3>2 DEF Note, Control, Install, Uninstall
        <4>3. Ctl(fs(q)) = Ctl(stack[q]) \ Note(Len(stack[q]) - 1, stack[q][1])
          BY <1>1, <3>2, <4>1, CtlPopped
        <4>4. IosOf(fs(q)) \subseteq IosOf(stack[q])
          BY <1>1, <3>2, <4>1, IosPopped
        <4>5. \A d \in Heights(fs(q)) : Up(fs(q), d) = Up(stack[q], d)
          BY <1>1, <3>2, <4>1, PoppedUp
        <4> QED BY <3>2, <4>1, <4>2, <4>3, <4>4, <4>5 DEF Popped
      <3> QED BY <3>1, <3>2
    <2>5. ASSUME NEW d \in Heights(fs(q)) PROVE Up(s2(q), d) = Moved(i, n, Up(stack[q], d))
      <3> HIDE DEF fs
      <3>1. Len(fs(q)) \in Nat
        BY <2>1, StackFacts
      <3>2. Len(fs(q)) - d \in 1..Len(fs(q))
        BY SMTT(30), <3>1 DEF Heights
      <3>3. Up(s2(q), d) = Moved(i, n, Up(fs(q), d))
        BY <2>2, <2>3, <3>2 DEF Up
      <3> QED BY <2>4, <3>3
    <2> HIDE DEF fs
    <2> QED BY <2>0, <2>3, <2>4, <2>5
  <1>4. stack' \in [Threads -> Seq(Frames)]
    <2>1. stack' = [q \in Threads |-> stack'[q]]
      OBVIOUS
    <2> QED BY <1>3, <2>1
  <1>5. Main \in Threads
    BY DEF Threads
  <1> QED BY <1>3, <1>4, <1>5 DEF Entered, CtlKept, IosKept

LEMMA EnterFacts ==
    ASSUME Counting, Typed, NEW p \in Threads, Enter(p)
    PROVE  /\ Typed' /\ CtlKept /\ IosKept({})
           /\ Top(p) \in Frames /\ Top(p).pc = "enter" /\ Top(p).io \in Ios
           /\ uring[Top(p).io] \in Rings
           /\ Entered(p, Top(p).io, Pending(uring[Top(p).io]))
           /\ uring' = [uring EXCEPT ![Top(p).io] = Consumed(uring[Top(p).io])]
           /\ \A i \in Ios : uring'[i].open = uring[i].open
           /\ \A q \in Requests : kernel'[Top(p).io][q]
                                    = kernel[Top(p).io][q] + Given(uring[Top(p).io])[q]
           /\ \A i \in Ios : i # Top(p).io => kernel'[i] = kernel[i]
  <1> DEFINE f == Top(p)
             i == f.io
             n == Pending(uring[i])
             r == Consumed(uring[i])
             c == [q \in Requests |-> kernel[i][q] + Given(uring[i])[q]]
  <1>1. At(p, "enter")
    BY DEF Enter
  <1>2. f \in Frames /\ f.pc = "enter" /\ i \in Ios
    BY SMTT(30), <1>1, TopFacts
  <1>3. uring \in [Ios -> Rings] /\ uring[i] \in Rings /\ kernel \in [Ios -> Counts]
    BY <1>2 DEF Typed
  <1>4. n \in 0..Entries /\ r \in Rings /\ r.open = uring[i].open
    BY <1>3, PendingType, ConsumedType
  <1>5. c \in Counts /\ \A q \in Requests : c[q] = kernel[i][q] + Given(uring[i])[q]
    <2>1. kernel[i] \in Counts /\ Given(uring[i]) \in Counts
      BY <1>2, <1>3, GivenFacts
    <2> QED BY <2>1, AcceptFacts
  <1>6. /\ uring' = [uring EXCEPT ![i] = r] /\ kernel' = [kernel EXCEPT ![i] = c]
        /\ stack' = [q \in Threads |-> LET fs == IF q = p THEN Tail(stack[q]) ELSE stack[q]
                                       IN  [k \in DOMAIN fs |-> Moved(i, n, fs[k])]]
    BY <1>2, <1>3 DEF Enter, Moved
  <1> HIDE DEF r, c
  <1>7. uring' \in [Ios -> Rings] /\ \A j \in Ios : uring'[j].open = uring[j].open
    BY <1>2, <1>3, <1>4, <1>6
  <1>8. /\ kernel' \in [Ios -> Counts] /\ kernel'[i] = c
        /\ \A j \in Ios : j # i => kernel'[j] = kernel[j]
    BY <1>2, <1>3, <1>5, <1>6
  <1> HIDE DEF n
  <1>9. Entered(p, i, n) /\ CtlKept /\ IosKept({})
    BY <1>1, <1>2, <1>4, <1>6, EnteredFacts
  <1>10. Typed'
    BY <1>7, <1>8, <1>9 DEF Enter, Typed, Entered, registration
  <1> QED BY <1>2, <1>3, <1>5, <1>6, <1>7, <1>8, <1>9, <1>10 DEF n, r

-----------------------------------------------------------------------------
(* The steps of the event thread, the kernel and the signals *)

\* An event thread does not touch the stack of the application.
LEMMA EventKept ==
    ASSUME NEW i \in Ios, OnlyStackOf(i)
    PROVE  CtlKept /\ i \in Threads /\ Main \in Threads /\ i # Main
  BY LifecycleAssumption DEF OnlyStackOf, CtlKept, Threads

LEMMA LoopTestFacts ==
    ASSUME Typed, NEW i \in Ios, LoopTest(i)
    PROVE  /\ Typed' /\ CtlKept /\ IosKept({}) /\ OnlyStackOf(i)
           /\ Top(i) \in Frames /\ Top(i).pc = "test" /\ stack[i] # <<>>
           /\ IF shutdown[i] THEN stack'[i] = <<>>
              ELSE Replaced(stack[i], stack'[i], [Top(i) EXCEPT !.pc = "peek"])
  <1> DEFINE f == Top(i)
             g == [f EXCEPT !.pc = "peek"]
  <1>0. i \in Threads
    BY DEF Threads
  <1>1. At(i, "test")
    BY DEF LoopTest
  <1>2. f \in Frames /\ f.pc = "test" /\ f = stack[i][1] /\ stack[i] # <<>> /\ f.io \in Ios
    BY SMTT(30), <1>0, <1>1, TopFacts
  <1>3. ASSUME OnlyStackOf(i) PROVE Typed'
    BY <1>3 DEF LoopTest, Typed, OnlyStackOf, queues, registration
  <1>4. CASE shutdown[i]
    <2>1. stack' = [stack EXCEPT ![i] = <<>>]
      BY <1>4 DEF LoopTest
    <2>2. <<>> \in Seq(Frames) /\ IosOf(<<>>) = {}
      BY SMTT(30) DEF IosOf
    <2>3. OnlyStackOf(i) /\ stack'[i] = <<>>
      BY <1>0, <2>1, <2>2 DEF Typed, OnlyStackOf
    <2>4. IosKept({})
      BY <2>2, <2>3 DEF OnlyStackOf, IosKept
    <2> QED BY <1>2, <1>3, <1>4, <2>3, <2>4, EventKept
  <1>5. CASE ~shutdown[i]
    <2>1. Go(i, "peek")
      BY <1>5 DEF LoopTest
    <2>2. "peek" \in Pcs /\ f.io # None /\ f.t = None
      <3>1. f.pc \notin Submission => f.t = None
        BY <1>2, FrameFacts
      <3> QED BY <1>2, <3>1, LifecycleAssumption DEF Pcs, Submission
    <2>3. g \in Frames /\ g.io = f.io /\ g.pc = "peek"
      BY <1>2, <2>2, GoType
    <2>4. Replaced(stack[i], stack'[i], g) /\ OnlyStackOf(i)
      BY <1>0, <1>2, <2>1, <2>2, <2>3, GoFacts
    <2> HIDE DEF g
    <2>5. "test" \notin Control /\ "peek" \notin Control
      BY DEF Control, Install, Uninstall
    <2>6. IosKept({})
      BY <1>0, <1>2, <2>3, <2>4, <2>5, GoKept
    <2> QED BY <1>2, <1>3, <1>5, <2>4, <2>6, EventKept DEF g
  <1> QED BY <1>4, <1>5

\* The frame of the loop that holds the completion c.
LEMMA TakeType ==
    ASSUME NEW f \in Frames, f.pc = "peek", NEW c \in Requests
    PROVE  LET g == [f EXCEPT !.pc = "read", !.cqe = c, !.took = c]
           IN  /\ g \in Frames /\ g.pc = "read" /\ g.cqe = c /\ g.took = c
               /\ g.io = f.io /\ g.t = f.t
  <1> DEFINE g == [f EXCEPT !.pc = "read", !.cqe = c, !.took = c]
  <1>1. f \in FrameRecord /\ "read" \in Pcs /\ f.io # None /\ f.t = None
        /\ (f.kind # "io" => f.t \in Tasks)
    <2>1. f.pc \notin Submission /\ f.pc \notin {"idle", "sig"} /\ "read" \in Pcs
      BY DEF Submission, Pcs
    <2> QED BY <2>1, FrameFacts
  <1>2. g \in FrameRecord /\ g.pc = "read" /\ g.cqe = c /\ g.took = c
        /\ g.io = f.io /\ g.t = f.t /\ g.kind = f.kind
    BY <1>1 DEF FrameRecord
  <1>3. g \in Frames
    BY <1>1, <1>2 DEF Frames
  <1> QED BY <1>2, <1>3

LEMMA TakeCqeFacts ==
    ASSUME Typed, NEW i \in Ios, TakeCqe(i)
    PROVE  /\ Typed' /\ CtlKept /\ IosKept({}) /\ OnlyStackOf(i)
           /\ Top(i) \in Frames /\ Top(i).pc = "peek" /\ stack[i] # <<>>
           /\ uring[i] \in Rings /\ uring[i].cq # <<>> /\ Head(uring[i].cq) \in Requests
           /\ Replaced(stack[i], stack'[i], [Top(i) EXCEPT !.pc = "read",
                                                           !.cqe = Head(uring[i].cq),
                                                           !.took = Head(uring[i].cq)])
           /\ uring' = [uring EXCEPT ![i] = CqeSeen(uring[i])]
           /\ \A j \in Ios : uring'[j].open = uring[j].open
  <1> DEFINE f == Top(i)
             c == Head(uring[i].cq)
             g == [f EXCEPT !.pc = "read", !.cqe = c, !.took = c]
             r == CqeSeen(uring[i])
  <1>0. i \in Threads
    BY DEF Threads
  <1>1. At(i, "peek") /\ uring[i].cq # <<>> /\ GoWith(i, g)
    BY DEF TakeCqe
  <1>2. f \in Frames /\ f.pc = "peek" /\ f = stack[i][1] /\ stack[i] # <<>> /\ f.io \in Ios
    BY SMTT(30), <1>0, <1>1, TopFacts
  <1>3. uring \in [Ios -> Rings] /\ uring[i] \in Rings
    BY DEF Typed
  <1>4. r \in Rings /\ r.open = uring[i].open /\ c \in Requests
    BY <1>1, <1>3, CqeSeenType
  <1>5. uring' = [uring EXCEPT ![i] = r]
    BY <1>3 DEF TakeCqe
  <1> HIDE DEF c, r
  <1>6. g \in Frames /\ g.io = f.io /\ g.pc = "read"
    BY <1>2, <1>4, TakeType
  <1>7. Replaced(stack[i], stack'[i], g) /\ OnlyStackOf(i)
    BY <1>0, <1>1, <1>2, <1>6, GoWithFacts
  <1> HIDE DEF g
  <1>8. uring' \in [Ios -> Rings] /\ \A j \in Ios : uring'[j].open = uring[j].open
    BY <1>3, <1>4, <1>5
  <1>9. "peek" \notin Control /\ "read" \notin Control
    BY DEF Control, Install, Uninstall
  <1>10. CtlKept /\ IosKept({})
    BY <1>0, <1>2, <1>6, <1>7, <1>9, GoKept
  <1>11. Typed'
    BY <1>7, <1>8 DEF TakeCqe, Typed, OnlyStackOf, registration
  <1> QED BY <1>1, <1>2, <1>3, <1>4, <1>5, <1>7, <1>8, <1>10, <1>11 DEF c, g, r

\* The frames of the loop once it has dispatched a completion and some handlers
\* added tasks.
LEMMA OrderFacts ==
    ASSUME NEW i \in Ios, NEW S \in SUBSET Tasks, NEW ts \in Orders(S)
    PROVE  LET s2 == [k \in DOMAIN ts |-> Frame("get", i, ts[k])] \o <<Frame("test", i, None)>>
           IN  /\ Len(ts) \in Nat /\ DOMAIN ts = 1..Len(ts)
               /\ \A k \in 1..Len(ts) : ts[k] \in S
               /\ \A k, l \in 1..Len(ts) : ts[k] = ts[l] => k = l
               /\ Range(ts) = {ts[k] : k \in 1..Len(ts)}
               /\ s2 \in Seq(Frames) /\ Len(s2) = Len(ts) + 1
               /\ \A k \in 1..Len(ts) : s2[k] = Frame("get", i, ts[k])
               /\ s2[Len(ts) + 1] = Frame("test", i, None)
  <1> DEFINE a == [k \in DOMAIN ts |-> Frame("get", i, ts[k])]
             b == <<Frame("test", i, None)>>
  <1>1. PICK n \in 0..Cardinality(S) : ts \in [1..n -> S]
    BY DEF Orders
  <1>2. IsInjective(ts) /\ n \in Nat
    BY SMTT(30), <1>1 DEF Orders
  <1>3. ts \in Seq(S) /\ Len(ts) = n /\ DOMAIN ts = 1..n
    BY SMTT(30), <1>1, <1>2
  <1>4. \A k \in 1..n : ts[k] \in S /\ ts[k] \in Tasks
    BY <1>1
  <1>5. \A k, l \in 1..n : ts[k] = ts[l] => k = l
    BY <1>2, <1>3 DEF IsInjective
  <1>6. Range(ts) = {ts[k] : k \in 1..n}
    BY <1>3 DEF Range
  <1>7. i # None /\ {"get", "test"} \subseteq Pcs /\ "get" \in Submission
    BY LifecycleAssumption DEF Pcs, Submission
  <1>8. \A k \in 1..n : Frame("get", i, ts[k]) \in Frames
    <2>1. \A k \in 1..n : ts[k] \in UserData
      BY <1>4, BaseTypes
    <2> QED BY <1>7, <2>1, FrameType
  <1>9. Frame("test", i, None) \in Frames
    BY <1>7, BaseTypes, FrameType
  <1>10. a \in Seq(Frames) /\ Len(a) = n /\ \A k \in 1..n : a[k] = Frame("get", i, ts[k])
    <2>1. a = [k \in 1..n |-> Frame("get", i, ts[k])]
      BY <1>3
    <2>2. a \in [1..n -> Frames]
      BY <1>8, <2>1
    <2> HIDE DEF a
    <2> QED BY SMTT(30), <1>2, <2>1, <2>2
  <1>11. b \in Seq(Frames) /\ Len(b) = 1 /\ b[1] = Frame("test", i, None)
    BY SMTT(30), <1>9
  <1> HIDE DEF a, b
  <1>12. /\ a \o b \in Seq(Frames) /\ Len(a \o b) = n + 1
         /\ \A k \in 1..(n + 1) : (a \o b)[k] = IF k <= n THEN a[k] ELSE b[k - n]
    <2>1. /\ a \o b \in Seq(Frames) /\ Len(a \o b) = Len(a) + Len(b)
          /\ \A k \in 1..(Len(a) + Len(b)) :
                (a \o b)[k] = IF k <= Len(a) THEN a[k] ELSE b[k - Len(a)]
      BY <1>10, <1>11, Joined
    <2> QED BY <1>10, <1>11, <2>1
  <1>13. (\A k \in 1..n : (a \o b)[k] = a[k]) /\ (a \o b)[n + 1] = b[1]
    <2> DEFINE c == a \o b
    <2>1. \A k \in 1..(n + 1) : c[k] = IF k <= n THEN a[k] ELSE b[k - n]
      BY <1>12
    <2> HIDE DEF c
    <2>2. n + 1 \in 1..(n + 1) /\ (n + 1) - n = 1 /\ ~(n + 1 <= n)
      BY SMTT(30), <1>2
    <2>3. c[n + 1] = b[1]
      BY <2>1, <2>2
    <2>4. \A k \in 1..n : c[k] = a[k]
      BY SMTT(30), <1>2, <2>1
    <2> QED BY <2>3, <2>4 DEF c
  <1> QED BY <1>2, <1>3, <1>4, <1>5, <1>6, <1>10, <1>11, <1>12, <1>13 DEF a, b

\* What Dispatch leaves: the task of the completion is over, and the tasks in ts
\* are about to be submitted, the first one first.
Dispatched(i, ts) ==
    LET ud == Top(i).cqe.ud
        over(t) == IF ud \in {t, Failure(t)} THEN None ELSE busy[t]
    IN  /\ ud = None \/ i \in left => Len(ts) = 0
        /\ Len(ts) \in Nat
        /\ \A k \in 1..Len(ts) : ts[k] \in Tasks /\ over(ts[k]) = None
        /\ \A k, l \in 1..Len(ts) : ts[k] = ts[l] => k = l
        /\ \A t \in Tasks : busy'[t] = IF \E k \in 1..Len(ts) : ts[k] = t THEN i ELSE over(t)
        /\ Len(stack'[i]) = Len(ts) + 1
        /\ \A k \in 1..Len(ts) : stack'[i][k] = Frame("get", i, ts[k])
        /\ stack'[i][Len(ts) + 1] = Frame("test", i, None)

LEMMA DispatchFacts ==
    ASSUME Typed, NEW i \in Ios, Dispatch(i)
    PROVE  /\ Typed' /\ CtlKept /\ OnlyStackOf(i)
           /\ Top(i) \in Frames /\ Top(i).pc = "read" /\ stack[i] # <<>>
           /\ IosOf(stack'[i]) = {i}
           /\ \E ts : Dispatched(i, ts)
  <1> DEFINE ud == Top(i).cqe.ud
             over == [t \in Tasks |-> IF ud \in {t, Failure(t)} THEN None ELSE busy[t]]
             idle == IF ud = None \/ i \in left THEN {} ELSE {t \in Tasks : over[t] = None}
             st(ts) == [k \in DOMAIN ts |-> Frame("get", i, ts[k])] \o <<Frame("test", i, None)>>
  <1>0. i \in Threads
    BY DEF Threads
  <1>1. At(i, "read")
    BY DEF Dispatch
  <1>2. Top(i) \in Frames /\ Top(i).pc = "read" /\ stack[i] # <<>>
    BY SMTT(30), <1>0, <1>1, TopFacts
  <1>3. PICK ts \in Orders(idle) :
           /\ busy' = [t \in Tasks |-> IF t \in Range(ts) THEN i ELSE over[t]]
           /\ stack' = [stack EXCEPT ![i] = st(ts)]
    BY DEF Dispatch
  <1>4. idle \in SUBSET Tasks
    OBVIOUS
  <1>5. /\ Len(ts) \in Nat /\ DOMAIN ts = 1..Len(ts)
        /\ \A k \in 1..Len(ts) : ts[k] \in idle
        /\ \A k, l \in 1..Len(ts) : ts[k] = ts[l] => k = l
        /\ Range(ts) = {ts[k] : k \in 1..Len(ts)}
        /\ st(ts) \in Seq(Frames) /\ Len(st(ts)) = Len(ts) + 1
        /\ \A k \in 1..Len(ts) : st(ts)[k] = Frame("get", i, ts[k])
        /\ st(ts)[Len(ts) + 1] = Frame("test", i, None)
    <2> HIDE DEF idle
    <2> QED BY <1>4, OrderFacts
  <1> HIDE DEF st
  <1>6. OnlyStackOf(i) /\ stack'[i] = st(ts)
    BY <1>0, <1>3, <1>5 DEF Typed, OnlyStackOf
  <1>7. busy' \in [Tasks -> Ios \cup {None}]
    BY <1>3 DEF Typed
  <1>8. Typed'
    BY <1>6, <1>7 DEF Dispatch, Typed, OnlyStackOf, queues, registration
  <1>9. IosOf(stack'[i]) = {i}
    <2>0. \A pc, t : Frame(pc, i, t).io = i
      BY DEF Frame
    <2>1. ASSUME NEW k \in 1..Len(ts) PROVE st(ts)[k].io = i
      <3>1. st(ts)[k] = Frame("get", i, ts[k])
        BY <1>5
      <3> QED BY <2>0, <3>1
    <2>2. st(ts)[Len(ts) + 1].io = i
      <3>1. st(ts)[Len(ts) + 1] = Frame("test", i, None)
        BY <1>5
      <3> QED BY <2>0, <3>1
    <2>3. Len(ts) + 1 \in 1..(Len(ts) + 1)
          /\ \A k \in 1..(Len(ts) + 1) : k \in 1..Len(ts) \/ k = Len(ts) + 1
      BY SMTT(30), <1>5
    <2>4. \A k \in 1..(Len(ts) + 1) : st(ts)[k].io = i
      BY <2>1, <2>2, <2>3
    <2> QED BY SMTT(30), <1>5, <1>6, <2>3, <2>4 DEF IosOf
  <1>10. Dispatched(i, ts)
    <2>1. ud = None \/ i \in left => Len(ts) = 0
      <3>1. ud = None \/ i \in left => \A k \in 1..Len(ts) : FALSE
        BY <1>5
      <3> QED BY SMTT(30), <1>5, <3>1
    <2>2. \A k \in 1..Len(ts) : ts[k] \in Tasks /\ over[ts[k]] = None
      BY <1>5
    <2>3. \A t \in Tasks : busy'[t] = IF \E k \in 1..Len(ts) : ts[k] = t THEN i ELSE over[t]
      BY SMTT(30), <1>3, <1>5
    <2> QED BY <1>5, <1>6, <2>1, <2>2, <2>3 DEF Dispatched
  <1> QED BY <1>2, <1>6, <1>8, <1>9, <1>10, EventKept

LEMMA KernelCompletesFacts ==
    ASSUME Typed, NEW i \in Ios, NEW q \in Requests, KernelCompletes(i, q)
    PROVE  /\ Typed' /\ CtlKept /\ IosKept({}) /\ OnlyStackOf(i)
           /\ uring[i] \in Rings /\ kernel[i] \in Counts /\ kernel[i][q] > 0
           /\ Shifted(stack[i], stack'[i])
           /\ \A k \in 1..Len(stack[i]) :
                 stack'[i][k] = IF stack[i][k].pc = "read" /\ Overwrites(uring[i])
                                THEN [stack[i][k] EXCEPT !.cqe = q] ELSE stack[i][k]
           /\ uring' = [uring EXCEPT ![i] = Post(uring[i], q)]
           /\ \A j \in Ios : uring'[j].open = uring[j].open
           /\ kernel' = [kernel EXCEPT ![i] = [kernel[i] EXCEPT ![q] = @ - 1]]
  <1> DEFINE s == stack[i]
             new(k) == IF s[k].pc = "read" /\ Overwrites(uring[i])
                       THEN [s[k] EXCEPT !.cqe = q] ELSE s[k]
             s2 == [k \in DOMAIN s |-> new(k)]
             r == Post(uring[i], q)
             c == [kernel[i] EXCEPT ![q] = @ - 1]
  <1>0. i \in Threads
    BY DEF Threads
  <1>1. /\ uring \in [Ios -> Rings] /\ uring[i] \in Rings /\ kernel \in [Ios -> Counts]
        /\ kernel[i] \in Counts /\ stack \in [Threads -> Seq(Frames)] /\ s \in Seq(Frames)
    BY <1>0 DEF Typed
  <1>2. /\ uring' = [uring EXCEPT ![i] = r] /\ kernel' = [kernel EXCEPT ![i] = c]
        /\ stack' = [stack EXCEPT ![i] = s2] /\ kernel[i][q] > 0
    BY <1>0, <1>1 DEF KernelCompletes
  <1>3. r \in Rings /\ r.open = uring[i].open /\ c \in Counts
    BY <1>1, <1>2, PostType, FinishFacts
  <1>4. Len(s) \in Nat /\ DOMAIN s = 1..Len(s) /\ \A k \in 1..Len(s) : s[k] \in Frames
    BY <1>1, StackFacts
  <1>5. ASSUME NEW k \in 1..Len(s)
        PROVE  /\ new(k) \in Frames /\ new(k).pc = s[k].pc /\ new(k).io = s[k].io
               /\ new(k).t = s[k].t /\ new(k).kind = s[k].kind /\ new(k).took = s[k].took
    <2> DEFINE f == s[k]
               g == [f EXCEPT !.cqe = q]
    <2>1. f \in Frames /\ f \in FrameRecord
      BY <1>4, FrameFacts
    <2> HIDE DEF s, f
    <2>2. /\ g \in FrameRecord /\ g.pc = f.pc /\ g.io = f.io /\ g.t = f.t
          /\ g.kind = f.kind /\ g.took = f.took
      BY <2>1 DEF FrameRecord
    <2>3. g \in Frames
      BY <2>1, <2>2, FrameFacts DEF Frames
    <2>4. new(k) = f \/ new(k) = g
      BY DEF f
    <2> HIDE DEF g, new
    <2> QED BY <2>1, <2>2, <2>3, <2>4 DEF f
  <1>6. s2 = [k \in 1..Len(s) |-> new(k)] /\ s2 \in [1..Len(s) -> Frames]
    BY <1>4, <1>5
  <1>7. s2 \in Seq(Frames) /\ Len(s2) = Len(s) /\ \A k \in 1..Len(s) : s2[k] = new(k)
    <2>1. \A k \in 1..Len(s) : s2[k] = new(k)
      BY <1>4
    <2> HIDE DEF s2, s, new
    <2> QED BY SMTT(30), <1>4, <1>6, <2>1
  <1> HIDE DEF s2, r, c
  <1>8. OnlyStackOf(i) /\ stack'[i] = s2
    BY <1>0, <1>1, <1>2, <1>7 DEF OnlyStackOf
  <1> HIDE DEF new
  <1>9. Shifted(s, s2)
    BY SMTT(30), <1>5, <1>7 DEF Shifted
  <1>10. IosKept({})
    <2>1. IosOf(s2) = IosOf(s)
      BY <1>1, <1>9, IosShifted
    <2> QED BY <1>8, <2>1 DEF IosKept, OnlyStackOf
  <1>11. /\ uring' \in [Ios -> Rings] /\ kernel' \in [Ios -> Counts]
         /\ \A j \in Ios : uring'[j].open = uring[j].open
    BY <1>1, <1>2, <1>3
  <1>12. Typed'
    BY <1>8, <1>11 DEF KernelCompletes, Typed, OnlyStackOf, registration
  <1>13. \A k \in 1..Len(s) : stack'[i][k] = IF s[k].pc = "read" /\ Overwrites(uring[i])
                                              THEN [s[k] EXCEPT !.cqe = q] ELSE s[k]
    BY <1>7, <1>8 DEF new
  <1> HIDE DEF s
  <1> QED BY <1>1, <1>2, <1>8, <1>9, <1>10, <1>11, <1>12, <1>13, EventKept DEF s, r, c

LEMMA DeliverFacts ==
    ASSUME Typed, NEW p \in Threads, NEW s \in Signals, Deliver(p, s)
    PROVE  /\ Typed' /\ CtlKept /\ IosKept({None}) /\ OnlyStackOf(p)
           /\ p \in Takers /\ stack[p] # <<>>
           /\ \E pc \in {Top(p).pc, "test"} :
                 /\ pc = Top(p).pc \/ Top(p).pc = "peek"
                 /\ Pushed(stack[p], stack'[p], Frame("sig", None, None),
                           [Top(p) EXCEPT !.pc = pc])
  <1> DEFINE f == Top(p)
             h == Frame("sig", None, None)
  <1>1. p \in Takers /\ stack[p] # <<>> /\ At(p, f.pc)
    BY DEF Deliver, At, Top
  <1>2. f \in Frames /\ f = stack[p][1]
    BY <1>1, TopFacts
  <1>3. PICK pc \in {f.pc, "test"} : (pc = f.pc \/ f.pc = "peek") /\ Call(p, pc, h)
    BY DEF Deliver, At, Top
  <1>4. pc \in Pcs /\ [f EXCEPT !.pc = pc] \in Frames /\ [f EXCEPT !.pc = pc].pc = pc
        /\ [f EXCEPT !.pc = pc].io = f.io
    <2>1. f.pc \in Pcs /\ "test" \in Pcs
      BY <1>2, FrameFacts DEF Pcs
    <2>2. /\ f.io = None <=> pc \in {"idle", "sig"}
          /\ pc = "tag" => f.t \in Tasks
          /\ pc \notin Submission => f.t = None
      <3>1. /\ f.io = None <=> f.pc \in {"idle", "sig"}
            /\ f.pc = "tag" => f.t \in Tasks
            /\ f.pc \notin Submission => f.t = None
        BY <1>2, FrameFacts
      <3>2. "peek" \notin Submission /\ "peek" \notin {"idle", "sig"} /\ "test" \notin {"idle", "sig"}
        BY DEF Submission
      <3> QED BY <1>3, <3>1, <3>2
    <2> QED BY <1>2, <1>3, <2>1, <2>2, GoType
  <1>5. h \in Frames /\ h.io = None /\ h.pc = "sig"
    <2>1. "sig" \in Pcs /\ None \in UserData
      BY BaseTypes DEF Pcs
    <2> QED BY SMTT(30), <2>1, FrameType
  <1> DEFINE g == [f EXCEPT !.pc = pc]
  <1>6. Pushed(stack[p], stack'[p], h, g) /\ OnlyStackOf(p)
    BY <1>1, <1>2, <1>3, <1>4, <1>5, CallFacts
  <1>7. {"test", "peek", "sig"} \cap Control = {}
    BY DEF Control, Install, Uninstall
  <1>8. g \in Frames /\ g.pc = pc /\ g.io = f.io
    BY <1>4
  <1> HIDE DEF g, h
  <1>9. (g.pc \in Control \/ f.pc \in Control) => g.pc = f.pc
    BY <1>3, <1>7, <1>8
  <1>10. CtlKept /\ IosKept({None})
    BY <1>1, <1>2, <1>5, <1>6, <1>7, <1>8, <1>9, CallKept
  <1>11. Typed'
    BY <1>6 DEF Deliver, Typed, OnlyStackOf, queues, registration
  <1> QED BY <1>1, <1>3, <1>6, <1>10, <1>11 DEF g, h

LEMMA OnSignalFacts ==
    ASSUME Typed, NEW p \in Threads, OnSignal(p)
    PROVE  /\ Typed' /\ CtlKept /\ IosKept({active}) /\ OnlyStackOf(p)
           /\ Top(p) \in Frames /\ Top(p).pc = "sig" /\ stack[p] # <<>>
           /\ active = None => Popped(stack[p], stack'[p])
           /\ active # None => /\ active \in Ios
                               /\ Replaced(stack[p], stack'[p], Frame("stop", active, None))
  <1> DEFINE h == Frame("stop", active, None)
  <1>1. At(p, "sig")
    BY DEF OnSignal
  <1>2. Top(p) \in Frames /\ Top(p).pc = "sig" /\ stack[p] # <<>> /\ Top(p) = stack[p][1]
    BY <1>1, TopFacts
  <1>3. "sig" \notin Control /\ "stop" \notin Control /\ "stop" \in Pcs
    BY DEF Control, Install, Uninstall, Pcs
  <1>4. ASSUME OnlyStackOf(p) PROVE Typed'
    BY <1>4 DEF OnSignal, Typed, OnlyStackOf, queues, registration
  <1>5. CASE active = None
    <2>1. Return(p)
      BY <1>5 DEF OnSignal
    <2>2. Popped(stack[p], stack'[p]) /\ OnlyStackOf(p)
      BY <1>2, <2>1, ReturnFacts
    <2>3. CtlKept /\ IosKept({})
      BY <1>2, <1>3, <2>2, ReturnKept
    <2>4. IosKept({active})
      BY <2>3 DEF IosKept
    <2> QED BY <1>2, <1>4, <1>5, <2>2, <2>3, <2>4
  <1>6. CASE active # None
    <2>1. GoWith(p, h) /\ active \in Ios
      BY <1>6 DEF OnSignal, Typed
    <2>2. h \in Frames /\ h.io = active /\ h.pc = "stop"
      BY SMTT(30), <1>3, <1>6, <2>1, BaseTypes, FrameType
    <2> HIDE DEF h
    <2>3. Replaced(stack[p], stack'[p], h) /\ OnlyStackOf(p)
      BY <1>2, <2>1, <2>2, GoWithFacts
    <2>4. CtlKept /\ IosKept({active})
      BY <1>2, <1>3, <2>2, <2>3, GoKept
    <2> QED BY <1>2, <1>4, <1>6, <2>1, <2>3, <2>4 DEF h
  <1> QED BY <1>5, <1>6

-----------------------------------------------------------------------------
(* What the application does *)

LEMMA ConstructFacts ==
    ASSUME Typed, NEW i \in Ios, Construct(i)
    PROVE  /\ Typed' /\ CtlKept /\ IosKept({i}) /\ OnlyStackOf(i) /\ life[i] = "unborn"
           /\ \/ /\ life' = [life EXCEPT ![i] = "up"]
                 /\ uring' = [uring EXCEPT ![i] = QueueInit]
                 /\ stack'[i] = <<Frame("test", i, None)>> /\ IosOf(stack'[i]) = {i}
              \/ /\ life' = [life EXCEPT ![i] = "failed"]
                 /\ uring' = uring /\ stack' = stack
  <1> DEFINE h == Frame("test", i, None)
             s2 == <<h>>
  <1>0. i \in Threads
    BY DEF Threads
  <1>1. h \in Frames /\ h.io = i
    <2>1. "test" \in Pcs /\ i # None
      BY LifecycleAssumption DEF Pcs
    <2> QED BY SMTT(30), <2>1, BaseTypes, FrameType
  <1>2. stack \in [Threads -> Seq(Frames)] /\ uring \in [Ios -> Rings]
    BY DEF Typed
  <1>3. life' \in [Ios -> {"unborn", "failed", "up", "gone"}] /\ life[i] = "unborn"
    BY DEF Typed, Construct
  <1>4. CASE stack' = [stack EXCEPT ![i] = s2] /\ uring' = [uring EXCEPT ![i] = QueueInit]
             /\ life' = [life EXCEPT ![i] = "up"]
    <2> HIDE DEF h
    <2>1. s2 \in Seq(Frames) /\ Len(s2) = 1 /\ s2[1] = h
      BY SMTT(30), <1>1
    <2> HIDE DEF s2
    <2>2. IosOf(s2) = {i}
      BY SMTT(30), <1>1, <2>1 DEF IosOf
    <2>3. OnlyStackOf(i) /\ stack'[i] = s2
      BY <1>0, <1>2, <1>4, <2>1 DEF OnlyStackOf
    <2>4. IosKept({i})
      BY <2>2, <2>3 DEF IosKept, OnlyStackOf
    <2>5. uring' \in [Ios -> Rings]
      BY <1>2, <1>4, RingTypes
    <2>6. Typed'
      BY <1>3, <2>3, <2>5 DEF Construct, Typed, OnlyStackOf, registration
    <2> QED BY <1>3, <1>4, <2>2, <2>3, <2>4, <2>6, EventKept DEF s2, h
  <1>5. CASE stack' = stack /\ uring' = uring /\ life' = [life EXCEPT ![i] = "failed"]
    <2>1. OnlyStackOf(i) /\ IosKept({i})
      BY <1>2, <1>5 DEF OnlyStackOf, IosKept
    <2>2. Typed'
      BY <1>2, <1>3, <1>5 DEF Construct, Typed, registration
    <2> QED BY <1>3, <1>5, <2>1, <2>2, EventKept
  <1> QED BY <1>4, <1>5 DEF Construct

\* The application calls a member function of i, whose frame is f.
LEMMA MainCall ==
    ASSUME Typed, At(Main, "idle"), NEW f \in Frames, Call(Main, "idle", f)
    PROVE  /\ OnlyStackOf(Main) /\ IosKept({f.io})
           /\ Pushed(stack[Main], stack'[Main], f, [Top(Main) EXCEPT !.pc = "idle"])
           /\ [Top(Main) EXCEPT !.pc = "idle"] = Top(Main)
           /\ Ctl(stack'[Main]) = Ctl(stack[Main]) \cup Note(Len(stack[Main]), f)
           /\ <<Len(stack[Main]) - 1, "idle", None>> \in Ctl(stack[Main])
  <1> DEFINE s == stack[Main]
             g == [Top(Main) EXCEPT !.pc = "idle"]
  <1>0. Main \in Threads
    BY DEF Threads
  <1>1. s \in Seq(Frames) /\ s # <<>> /\ Top(Main) = s[1] /\ Top(Main) \in Frames
        /\ Top(Main).pc = "idle"
    BY <1>0, TopFacts
  <1>2. Top(Main).io = None /\ Top(Main).t = None /\ "idle" \in Pcs /\ Top(Main) \in FrameRecord
    <2>1. "idle" \notin Submission /\ "idle" \in Pcs
      BY DEF Submission, Pcs, Control
    <2> QED BY <1>1, <2>1, FrameFacts
  <1>3. g = Top(Main)
    BY <1>1, <1>2 DEF FrameRecord
  <1>4. Pushed(s, stack'[Main], f, g) /\ OnlyStackOf(Main)
    <2>1. [stack[Main][1] EXCEPT !.pc = "idle"] = g /\ g \in Frames
      BY <1>1, <1>3
    <2>2. /\ Pushed(stack[Main], stack'[Main], f, [stack[Main][1] EXCEPT !.pc = "idle"])
          /\ OnlyStackOf(Main)
      BY <1>0, <1>1, <1>2, <2>1, CallFacts
    <2> QED BY <2>1, <2>2
  <1>5. g \in Frames /\ g.pc = s[1].pc /\ g.io = s[1].io
    BY <1>1, <1>3
  <1>6. IosOf(stack'[Main]) \subseteq IosOf(s) \cup {f.io}
    <2> HIDE DEF g, s
    <2> QED BY <1>1, <1>4, <1>5, IosPushed
  <1>7. Ctl(stack'[Main]) = Ctl(s) \cup Note(Len(s), f)
    <2> HIDE DEF g, s
    <2> QED BY <1>1, <1>4, <1>5, CtlPushed
  <1>8. <<Len(s) - 1, "idle", None>> \in Ctl(s)
    <2>1. Len(s) - 1 \in Heights(s) /\ Up(s, Len(s) - 1) = s[1]
      BY <1>1, HeightFacts
    <2>2. "idle" \in Control
      BY DEF Control
    <2> QED BY SMTT(30), <1>1, <1>2, <2>1, <2>2, CtlFacts
  <1>9. IosKept({f.io})
    BY <1>4, <1>6 DEF IosKept, OnlyStackOf
  <1> QED BY <1>3, <1>4, <1>7, <1>8, <1>9

\* The frame AddTask pushes.
TaskCall(i, t, kind) == [Frame("get", i, t) EXCEPT !.kind = kind]

LEMMA TaskFrame ==
    ASSUME NEW i \in Ios, NEW t \in Tasks, NEW kind \in {"io", "connect", "unsupported"}
    PROVE  /\ TaskCall(i, t, kind) \in Frames
           /\ TaskCall(i, t, kind).pc = "get"
           /\ TaskCall(i, t, kind).io = i
           /\ TaskCall(i, t, kind).t = t
           /\ TaskCall(i, t, kind).kind = kind
           /\ TaskCall(i, t, kind).slot = 0
  <1> DEFINE h == Frame("get", i, t)
             f == [h EXCEPT !.kind = kind]
  <1>1. "get" \in Pcs /\ "get" \in Submission /\ i # None /\ t \in UserData
    BY LifecycleAssumption, BaseTypes DEF Pcs, Submission
  <1>2. h \in Frames /\ h.pc = "get" /\ h.io = i /\ h.t = t /\ h.slot = 0
    <2>1. h \in Frames /\ h.pc = "get" /\ h.io = i /\ h.t = t
      BY SMTT(30), <1>1, FrameType
    <2> QED BY <2>1 DEF Frame
  <1> HIDE DEF h
  <1>3. h \in FrameRecord
    BY <1>2, FrameFacts
  <1>4. f \in FrameRecord /\ f.pc = "get" /\ f.io = i /\ f.t = t /\ f.kind = kind /\ f.slot = 0
    BY <1>2, <1>3 DEF FrameRecord
  <1>5. f \in Frames
    BY <1>1, <1>4 DEF Frames
  <1> QED BY <1>4, <1>5 DEF h, TaskCall

LEMMA AddTaskFacts ==
    ASSUME Typed, NEW i \in Ios, NEW t \in Tasks, NEW kind \in Kinds, AddTask(i, t, kind)
    PROVE  /\ Typed' /\ CtlKept /\ IosKept({i}) /\ OnlyStackOf(Main) /\ life[i] = "up"
           /\ Pushed(stack[Main], stack'[Main], TaskCall(i, t, kind), Top(Main))
           /\ <<Len(stack[Main]) - 1, "idle", None>> \in Ctl(stack[Main])
  <1> DEFINE f == TaskCall(i, t, kind)
  <1>1. At(Main, "idle") /\ Call(Main, "idle", f) /\ life[i] = "up"
    BY DEF AddTask, TaskCall
  <1>2. f \in Frames /\ f.pc = "get" /\ f.io = i
    <2>1. kind \in {"io", "connect", "unsupported"}
      BY LifecycleAssumption
    <2> QED BY SMTT(30), <2>1, TaskFrame
  <1> HIDE DEF f
  <1>3. /\ OnlyStackOf(Main) /\ IosKept({f.io})
        /\ Pushed(stack[Main], stack'[Main], f, [Top(Main) EXCEPT !.pc = "idle"])
        /\ [Top(Main) EXCEPT !.pc = "idle"] = Top(Main)
        /\ Ctl(stack'[Main]) = Ctl(stack[Main]) \cup Note(Len(stack[Main]), f)
        /\ <<Len(stack[Main]) - 1, "idle", None>> \in Ctl(stack[Main])
    BY <1>1, <1>2, MainCall
  <1>4. Note(Len(stack[Main]), f) = {}
    BY <1>2 DEF Note, Control, Install, Uninstall
  <1>5. busy' \in [Tasks -> Ios \cup {None}]
    BY DEF AddTask, Typed
  <1>6. Typed'
    BY <1>3, <1>5 DEF AddTask, Typed, OnlyStackOf, queues, registration
  <1>7. CtlKept
    BY <1>3, <1>4 DEF CtlKept
  <1> QED BY <1>1, <1>2, <1>3, <1>6, <1>7 DEF f

LEMMA CallRequestShutdownFacts ==
    ASSUME Typed, NEW i \in Ios, CallRequestShutdown(i)
    PROVE  /\ Typed' /\ CtlKept /\ IosKept({i}) /\ OnlyStackOf(Main) /\ life[i] = "up"
           /\ Pushed(stack[Main], stack'[Main], Frame("stop", i, None), Top(Main))
           /\ <<Len(stack[Main]) - 1, "idle", None>> \in Ctl(stack[Main])
  <1> DEFINE f == Frame("stop", i, None)
  <1>1. At(Main, "idle") /\ Call(Main, "idle", f) /\ life[i] = "up"
    BY DEF CallRequestShutdown
  <1>2. f \in Frames /\ f.pc = "stop" /\ f.io = i
    <2>1. "stop" \in Pcs /\ i # None
      BY LifecycleAssumption DEF Pcs
    <2> QED BY SMTT(30), <2>1, BaseTypes, FrameType
  <1> HIDE DEF f
  <1>3. /\ OnlyStackOf(Main) /\ IosKept({f.io})
        /\ Pushed(stack[Main], stack'[Main], f, [Top(Main) EXCEPT !.pc = "idle"])
        /\ [Top(Main) EXCEPT !.pc = "idle"] = Top(Main)
        /\ Ctl(stack'[Main]) = Ctl(stack[Main]) \cup Note(Len(stack[Main]), f)
        /\ <<Len(stack[Main]) - 1, "idle", None>> \in Ctl(stack[Main])
    BY <1>1, <1>2, MainCall
  <1>4. Note(Len(stack[Main]), f) = {}
    BY <1>2 DEF Note, Control, Install, Uninstall
  <1>5. Typed'
    BY <1>3 DEF CallRequestShutdown, Typed, OnlyStackOf, queues, registration
  <1>6. CtlKept
    BY <1>3, <1>4 DEF CtlKept
  <1> QED BY <1>1, <1>2, <1>3, <1>5, <1>6 DEF f

LEMMA InstallFacts ==
    ASSUME Typed, NEW i \in Ios, InstallSignalHandlers(i)
    PROVE  /\ Typed' /\ IosKept({i}) /\ OnlyStackOf(Main) /\ life[i] = "up"
           /\ Pushed(stack[Main], stack'[Main], Frame("int", i, None), Top(Main))
           /\ <<Len(stack[Main]) - 1, "idle", None>> \in Ctl(stack[Main])
           /\ Ctl(stack'[Main]) = Ctl(stack[Main]) \cup {<<Len(stack[Main]), "int", i>>}
  <1> DEFINE f == Frame("int", i, None)
  <1>1. At(Main, "idle") /\ Call(Main, "idle", f) /\ life[i] = "up"
    BY DEF InstallSignalHandlers
  <1>2. f \in Frames /\ f.pc = "int" /\ f.io = i
    <2>1. "int" \in Pcs /\ i # None
      BY LifecycleAssumption DEF Pcs, Control, Install
    <2> QED BY SMTT(30), <2>1, BaseTypes, FrameType
  <1> HIDE DEF f
  <1>3. /\ OnlyStackOf(Main) /\ IosKept({f.io})
        /\ Pushed(stack[Main], stack'[Main], f, [Top(Main) EXCEPT !.pc = "idle"])
        /\ [Top(Main) EXCEPT !.pc = "idle"] = Top(Main)
        /\ Ctl(stack'[Main]) = Ctl(stack[Main]) \cup Note(Len(stack[Main]), f)
        /\ <<Len(stack[Main]) - 1, "idle", None>> \in Ctl(stack[Main])
    BY <1>1, <1>2, MainCall
  <1>4. Note(Len(stack[Main]), f) = {<<Len(stack[Main]), "int", i>>}
    BY <1>2 DEF Note, Control, Install
  <1>5. Typed'
    BY <1>3 DEF InstallSignalHandlers, Typed, OnlyStackOf, queues
  <1> QED BY <1>1, <1>2, <1>3, <1>4, <1>5 DEF f

\* The application's own calls go on to another label, or return.
LEMMA MainGo ==
    ASSUME Typed, NEW pc \in Control \ {"idle"}, NEW next \in Control \ {"idle"},
           At(Main, pc), Go(Main, next)
    PROVE  /\ OnlyStackOf(Main) /\ IosKept({}) /\ Top(Main).io \in Ios
           /\ Replaced(stack[Main], stack'[Main], [Top(Main) EXCEPT !.pc = next])
           /\ <<Len(stack[Main]) - 1, pc, Top(Main).io>> \in Ctl(stack[Main])
           /\ Ctl(stack'[Main]) = (Ctl(stack[Main]) \ {<<Len(stack[Main]) - 1, pc, Top(Main).io>>})
                                    \cup {<<Len(stack[Main]) - 1, next, Top(Main).io>>}
  <1> DEFINE s == stack[Main]
             f == Top(Main)
             g == [f EXCEPT !.pc = next]
  <1>0. Main \in Threads
    BY DEF Threads
  <1>1. pc \notin {"idle", "sig"} /\ next \notin {"idle", "sig"} /\ next \in Pcs /\ next # "tag"
        /\ pc \notin Submission /\ next \notin Submission
    BY DEF Control, Install, Uninstall, Pcs, Submission
  <1>2. s \in Seq(Frames) /\ s # <<>> /\ f = s[1] /\ f \in Frames /\ f.pc = pc /\ f.io \in Ios
    BY <1>0, <1>1, TopFacts
  <1>3. f.io # None /\ f.t = None
    BY <1>1, <1>2, FrameFacts, LifecycleAssumption
  <1>4. g \in Frames /\ g.pc = next /\ g.io = f.io
    BY <1>1, <1>2, <1>3, GoType
  <1>5. Replaced(s, stack'[Main], g) /\ OnlyStackOf(Main)
    BY <1>0, <1>1, <1>2, <1>4, GoFacts
  <1> HIDE DEF g, s, f
  <1>6. Ctl(stack'[Main]) = (Ctl(s) \ Note(Len(s) - 1, s[1])) \cup Note(Len(s) - 1, g)
    BY <1>2, <1>4, <1>5, CtlReplaced
  <1>7. Note(Len(s) - 1, s[1]) = {<<Len(s) - 1, pc, f.io>>}
        /\ Note(Len(s) - 1, g) = {<<Len(s) - 1, next, f.io>>}
    BY <1>2, <1>4 DEF Note
  <1>8. IosOf(stack'[Main]) \subseteq IosOf(s)
    <2>1. IosOf(stack'[Main]) \subseteq IosOf(s) \cup {g.io} /\ s[1].io \in IosOf(s)
      BY <1>2, <1>5, IosReplaced
    <2> QED BY <1>2, <1>4, <2>1
  <1>9. IosKept({})
    BY SMTT(30), <1>5, <1>8 DEF IosKept, OnlyStackOf, s
  <1>10. <<Len(s) - 1, pc, f.io>> \in Ctl(s)
    <2>1. Len(s) - 1 \in Heights(s) /\ Up(s, Len(s) - 1) = s[1]
      BY <1>2, HeightFacts
    <2> QED BY SMTT(30), <1>2, <2>1, CtlFacts
  <1> QED BY <1>2, <1>5, <1>6, <1>7, <1>9, <1>10 DEF s, f, g

LEMMA MainReturn ==
    ASSUME Typed, NEW pc \in Control \ {"idle"}, At(Main, pc), Return(Main)
    PROVE  /\ OnlyStackOf(Main) /\ IosKept({}) /\ Top(Main).io \in Ios
           /\ Popped(stack[Main], stack'[Main])
           /\ <<Len(stack[Main]) - 1, pc, Top(Main).io>> \in Ctl(stack[Main])
           /\ Ctl(stack'[Main]) = Ctl(stack[Main]) \ {<<Len(stack[Main]) - 1, pc, Top(Main).io>>}
  <1> DEFINE s == stack[Main]
             f == Top(Main)
  <1>0. Main \in Threads
    BY DEF Threads
  <1>1. pc \notin {"idle", "sig"}
    BY DEF Control, Install, Uninstall
  <1>2. s \in Seq(Frames) /\ s # <<>> /\ f = s[1] /\ f \in Frames /\ f.pc = pc /\ f.io \in Ios
    BY <1>0, <1>1, TopFacts
  <1>3. Popped(s, stack'[Main]) /\ OnlyStackOf(Main)
    BY <1>0, <1>2, ReturnFacts
  <1> HIDE DEF s, f
  <1>4. Ctl(stack'[Main]) = Ctl(s) \ Note(Len(s) - 1, s[1])
    BY <1>2, <1>3, CtlPopped
  <1>5. Note(Len(s) - 1, s[1]) = {<<Len(s) - 1, pc, f.io>>}
    BY <1>2 DEF Note
  <1>6. IosOf(stack'[Main]) \subseteq IosOf(s)
    BY <1>2, <1>3, IosPopped
  <1>7. IosKept({})
    BY SMTT(30), <1>3, <1>6 DEF IosKept, OnlyStackOf, s
  <1>8. <<Len(s) - 1, pc, f.io>> \in Ctl(s)
    <2>1. Len(s) - 1 \in Heights(s) /\ Up(s, Len(s) - 1) = s[1]
      BY <1>2, HeightFacts
    <2> QED BY SMTT(30), <1>2, <2>1, CtlFacts
  <1> QED BY <1>2, <1>3, <1>4, <1>5, <1>7, <1>8 DEF s, f

\* The application's thread does not come to line 46, where the ring is torn down.
ExitKept == \A i \in Ios : <<1, "exit", i>> \in Ctl(stack'[Main]) =>
                             <<1, "exit", i>> \in Ctl(stack[Main])

\* What is common to the steps of InstallSignalHandlers and
\* UninstallSignalHandlers.
LEMMA RegistrationFacts ==
    ASSUME Typed, Registration
    PROVE  /\ Typed' /\ OnlyStackOf(Main) /\ IosKept({})
           /\ UNCHANGED <<life, queues, shutdown, sent, busy, left>>
           /\ Top(Main) \in Frames /\ Top(Main).pc \in Install \cup Uninstall
           /\ \/ Popped(stack[Main], stack'[Main])
              \/ \E next \in Install \cup Uninstall :
                    Replaced(stack[Main], stack'[Main], [Top(Main) EXCEPT !.pc = next])
           /\ active' \in {None, active}
           /\ ExitKept
  <1> DEFINE L == Install \cup Uninstall
  <1>0. Main \in Threads
    BY DEF Threads
  <1>1. /\ {"int", "term", "flag", "unint", "unterm", "unstore", "unflag"} = L
        /\ L \subseteq Control \ {"idle"} /\ {"SIGINT", "SIGTERM"} = Signals
    BY DEF Install, Uninstall, Control, Signals
  <1> HIDE DEF L
  <1>2. /\ UNCHANGED <<life, queues, shutdown, sent, busy, left>>
        /\ \E pc \in L : At(Main, pc) /\ (Return(Main) \/ \E next \in L : Go(Main, next))
        /\ active' \in {None, active}
    BY <1>1 DEF Registration, Sigaction, SetInstalled, Restore, Unregister
  <1>3. PICK pc \in L : At(Main, pc) /\ (Return(Main) \/ \E next \in L : Go(Main, next))
    BY <1>2
  <1>4. Top(Main) \in Frames /\ Top(Main).pc = pc /\ Top(Main).io \in Ios
    <2>1. pc \notin {"idle", "sig"}
      BY <1>1
    <2> QED BY <1>0, <1>3, <2>1, TopFacts
  <1>5. /\ OnlyStackOf(Main) /\ IosKept({}) /\ ExitKept
        /\ \/ Popped(stack[Main], stack'[Main])
           \/ \E next \in L : Replaced(stack[Main], stack'[Main], [Top(Main) EXCEPT !.pc = next])
    <2>1. CASE Return(Main)
      <3>1. /\ OnlyStackOf(Main) /\ IosKept({}) /\ Popped(stack[Main], stack'[Main])
            /\ Ctl(stack'[Main]) = Ctl(stack[Main])
                                      \ {<<Len(stack[Main]) - 1, pc, Top(Main).io>>}
        BY <1>1, <1>3, <2>1, MainReturn
      <3> QED BY <3>1 DEF ExitKept
    <2>2. ASSUME NEW next \in L, Go(Main, next)
          PROVE  /\ OnlyStackOf(Main) /\ IosKept({}) /\ ExitKept
                 /\ Replaced(stack[Main], stack'[Main], [Top(Main) EXCEPT !.pc = next])
      <3>1. /\ OnlyStackOf(Main) /\ IosKept({})
            /\ Replaced(stack[Main], stack'[Main], [Top(Main) EXCEPT !.pc = next])
            /\ Ctl(stack'[Main]) = (Ctl(stack[Main])
                                      \ {<<Len(stack[Main]) - 1, pc, Top(Main).io>>})
                                      \cup {<<Len(stack[Main]) - 1, next, Top(Main).io>>}
        BY <1>1, <1>3, <2>2, MainGo
      <3>2. next # "exit"
        BY <1>1
      <3>3. ExitKept
        BY <3>1, <3>2 DEF ExitKept
      <3> QED BY <3>1, <3>3
    <2> QED BY <1>3, <2>1, <2>2
  <1>6. /\ saved' \in [Ios -> [Signals -> {"own", "OnSignal"}]]
        /\ action' \in [Signals -> {"own", "OnSignal"}]
        /\ installed' \in [Ios -> BOOLEAN]
    <2>1. /\ saved \in [Ios -> [Signals -> {"own", "OnSignal"}]]
          /\ action \in [Signals -> {"own", "OnSignal"}]
          /\ installed \in [Ios -> BOOLEAN]
      BY DEF Typed
    <2>2. ASSUME NEW at, NEW s \in Signals, NEW next, Sigaction(at, s, next)
          PROVE  /\ saved' \in [Ios -> [Signals -> {"own", "OnSignal"}]]
                 /\ action' \in [Signals -> {"own", "OnSignal"}]
                 /\ installed' = installed
      BY SMTT(30), <2>1, <2>2, <1>4 DEF Sigaction
    <2>3. ASSUME NEW at, NEW v \in BOOLEAN, SetInstalled(at, v)
          PROVE  installed' \in [Ios -> BOOLEAN] /\ saved' = saved /\ action' = action
      BY <2>1, <2>3, <1>4 DEF SetInstalled
    <2>4. ASSUME NEW at, NEW s \in Signals, NEW next, Restore(at, s, next)
          PROVE  /\ action' \in [Signals -> {"own", "OnSignal"}]
                 /\ installed' = installed /\ saved' = saved
      BY <2>1, <2>4, <1>4 DEF Restore
    <2>5. Unregister => saved' = saved /\ action' = action /\ installed' = installed
      BY DEF Unregister
    <2> QED BY <1>1, <2>1, <2>2, <2>3, <2>4, <2>5 DEF Registration
  <1>7. Typed'
    BY <1>2, <1>5, <1>6 DEF Typed, OnlyStackOf, queues
  <1> QED BY <1>2, <1>4, <1>5, <1>7 DEF L

\* What ~IOHandler pushes: the join, the RequestShutdown and, with the handlers
\* installed, the UninstallSignalHandlers that run before it.
LEMMA ConsPushed ==
    ASSUME NEW s \in Seq(Frames), s # <<>>, NEW f \in Frames
    PROVE  /\ Pushed(s, <<f>> \o s, f, s[1]) /\ <<f>> \o s # <<>>
           /\ Ctl(<<f>> \o s) = Ctl(s) \cup Note(Len(s), f)
           /\ IosOf(<<f>> \o s) \subseteq IosOf(s) \cup {f.io}
           /\ Up(<<f>> \o s, Len(s)) = f
           /\ \A d \in Heights(s) : Up(<<f>> \o s, d) = Up(s, d)
  <1> DEFINE s2 == <<f>> \o s
             g == s[1]
  <1>1. Len(s) \in Nat /\ Len(s) >= 1 /\ g \in Frames
    BY StackFacts
  <1>2. s2 \in Seq(Frames) /\ Len(s2) = Len(s) + 1 /\ s2[1] = f
        /\ \A k \in 1..Len(s) : s2[k + 1] = s[k]
    BY SMTT(30), ConsFacts
  <1> HIDE DEF s2
  <1>3. s2[2] = g /\ \A k \in 2..Len(s) : s2[k + 1] = s[k]
    <2>1. 1 \in 1..Len(s) /\ 1 + 1 = 2 /\ 2..Len(s) \subseteq 1..Len(s)
      BY SMTT(30), <1>1
    <2> QED BY <1>2, <2>1
  <1>4. Pushed(s, s2, f, g)
    BY <1>2, <1>3 DEF Pushed
  <1>5. s2 # <<>>
    BY SMTT(30), <1>1, <1>2, StackFacts
  <1>6. Ctl(s2) = Ctl(s) \cup Note(Len(s), f)
    BY <1>1, <1>4, CtlPushed
  <1>7. IosOf(s2) \subseteq IosOf(s) \cup {f.io}
    BY <1>1, <1>4, IosPushed
  <1>8. Up(s2, Len(s)) = f /\ \A d \in Heights(s) : Up(s2, d) = Up(s, d)
    <2>1. /\ Up(s2, Len(s)) = f /\ Up(s2, Len(s) - 1) = g
          /\ \A d \in Heights(s) : d # Len(s) - 1 => Up(s2, d) = Up(s, d)
      BY SMTT(30), <1>4, PushedUp
    <2>2. Up(s, Len(s) - 1) = g
      BY HeightFacts
    <2> QED BY <2>1, <2>2
  <1> QED BY <1>4, <1>5, <1>6, <1>7, <1>8 DEF s2

LEMMA DestroyFacts ==
    ASSUME Typed, NEW i \in Ios, Destroy(i)
    PROVE  /\ Typed' /\ OnlyStackOf(Main) /\ IosKept({i}) /\ life[i] \in {"up", "failed"}
           /\ <<Len(stack[Main]) - 1, "idle", None>> \in Ctl(stack[Main])
           /\ Ctl(stack'[Main]) = Ctl(stack[Main]) \cup {<<Len(stack[Main]), "join", i>>}
                 \cup (IF installed[i] THEN {<<Len(stack[Main]) + 2, "unint", i>>} ELSE {})
           /\ Len(stack'[Main]) = IF installed[i] THEN Len(stack[Main]) + 3 ELSE Len(stack[Main]) + 2
           /\ \A d \in Heights(stack[Main]) : Up(stack'[Main], d) = Up(stack[Main], d)
           /\ Up(stack'[Main], Len(stack[Main])) = Frame("join", i, None)
           /\ Up(stack'[Main], Len(stack[Main]) + 1) = Frame("stop", i, None)
           /\ installed[i] => Up(stack'[Main], Len(stack[Main]) + 2) = Frame("unint", i, None)
  <1> DEFINE s == stack[Main]
             a == Frame("join", i, None)
             b == Frame("stop", i, None)
             c == Frame("unint", i, None)
             s1 == <<a>> \o s
             s2 == <<b>> \o s1
             s3 == <<c>> \o s2
  <1>0. Main \in Threads
    BY DEF Threads
  <1>1. At(Main, "idle") /\ life[i] \in {"up", "failed"}
    BY DEF Destroy
  <1>2. s \in Seq(Frames) /\ s # <<>> /\ s[1] \in Frames /\ s[1].pc = "idle" /\ s[1].io = None
    <2>1. s \in Seq(Frames) /\ s # <<>> /\ s[1] \in Frames /\ s[1].pc = "idle"
      BY SMTT(30), <1>0, <1>1, TopFacts
    <2> QED BY <2>1, FrameFacts
  <1>3. /\ a \in Frames /\ a.pc = "join" /\ a.io = i
        /\ b \in Frames /\ b.pc = "stop" /\ b.io = i
        /\ c \in Frames /\ c.pc = "unint" /\ c.io = i
    <2>1. {"join", "stop", "unint"} \subseteq Pcs /\ i # None
      BY LifecycleAssumption DEF Pcs, Control, Uninstall
    <2> QED BY SMTT(30), <2>1, BaseTypes, FrameType
  <1>4. stack' = [stack EXCEPT ![Main] = IF installed[i] THEN s3 ELSE s2]
    <2> DEFINE rest == <<b, a>> \o s
    <2>1. stack' = [stack EXCEPT ![Main] = IF installed[i] THEN <<c>> \o rest ELSE rest]
      BY DEF Destroy
    <2>2. rest = s2
      <3> HIDE DEF a, b, s
      <3>1. <<a>> \in Seq(Frames) /\ <<b>> \in Seq(Frames) /\ <<b, a>> = <<b>> \o <<a>>
        BY SMTT(30), <1>3
      <3>2. (<<b>> \o <<a>>) \o s = <<b>> \o (<<a>> \o s)
        BY SMTT(30), <1>2, <3>1
      <3> QED BY <3>1, <3>2
    <2> HIDE DEF rest, s2
    <2> QED BY <2>1, <2>2
  <1>5. <<Len(s) - 1, "idle", None>> \in Ctl(s)
    <2>1. Len(s) - 1 \in Heights(s) /\ Up(s, Len(s) - 1) = s[1] /\ "idle" \in Control
      BY <1>2, HeightFacts DEF Control
    <2> QED BY SMTT(30), <1>2, <2>1, CtlFacts
  <1> HIDE DEF s, a, b, c
  <1>6. /\ s1 \in Seq(Frames) /\ Len(s1) = Len(s) + 1 /\ s1 # <<>>
        /\ Ctl(s1) = Ctl(s) \cup Note(Len(s), a) /\ IosOf(s1) \subseteq IosOf(s) \cup {a.io}
        /\ Up(s1, Len(s)) = a /\ \A d \in Heights(s) : Up(s1, d) = Up(s, d)
    BY <1>2, <1>3, ConsPushed DEF Pushed
  <1> HIDE DEF s1
  <1>7. /\ s2 \in Seq(Frames) /\ Len(s2) = Len(s1) + 1 /\ s2 # <<>>
        /\ Ctl(s2) = Ctl(s1) \cup Note(Len(s1), b) /\ IosOf(s2) \subseteq IosOf(s1) \cup {b.io}
        /\ Up(s2, Len(s1)) = b /\ \A d \in Heights(s1) : Up(s2, d) = Up(s1, d)
    BY <1>3, <1>6, ConsPushed DEF Pushed
  <1> HIDE DEF s2
  <1>8. /\ s3 \in Seq(Frames) /\ Len(s3) = Len(s2) + 1
        /\ Ctl(s3) = Ctl(s2) \cup Note(Len(s2), c) /\ IosOf(s3) \subseteq IosOf(s2) \cup {c.io}
        /\ Up(s3, Len(s2)) = c /\ \A d \in Heights(s2) : Up(s3, d) = Up(s2, d)
    BY <1>3, <1>7, ConsPushed DEF Pushed
  <1> HIDE DEF s3
  <1>9. Len(s) \in Nat /\ Len(s1) = Len(s) + 1 /\ Len(s2) = Len(s) + 2 /\ Len(s3) = Len(s) + 3
    BY SMTT(30), <1>2, <1>6, <1>7, <1>8, StackFacts
  <1>10. /\ Note(Len(s), a) = {<<Len(s), "join", i>>} /\ Note(Len(s1), b) = {}
         /\ Note(Len(s2), c) = {<<Len(s2), "unint", i>>}
    BY <1>3 DEF Note, Control, Install, Uninstall
  <1>11. /\ Heights(s) \subseteq Heights(s1) /\ Heights(s1) \subseteq Heights(s2)
         /\ Len(s) \in Heights(s1) /\ Len(s) + 1 \in Heights(s2)
    BY SMTT(30), <1>9 DEF Heights
  <1>12. /\ Up(s2, Len(s)) = a /\ Up(s2, Len(s) + 1) = b
         /\ \A d \in Heights(s) : Up(s2, d) = Up(s, d)
         /\ Up(s3, Len(s)) = a /\ Up(s3, Len(s) + 1) = b /\ Up(s3, Len(s) + 2) = c
         /\ \A d \in Heights(s) : Up(s3, d) = Up(s, d)
    <2>1. /\ Up(s2, Len(s)) = a /\ Up(s2, Len(s) + 1) = b
          /\ \A d \in Heights(s) : Up(s2, d) = Up(s, d)
      BY <1>6, <1>7, <1>9, <1>11
    <2> QED BY <1>7, <1>8, <1>9, <1>11, <2>1
  <1> DEFINE z == IF installed[i] THEN s3 ELSE s2
  <1>13. /\ z \in Seq(Frames) /\ IosOf(z) \subseteq IosOf(s) \cup {i}
         /\ Len(z) = IF installed[i] THEN Len(s) + 3 ELSE Len(s) + 2
         /\ Ctl(z) = Ctl(s) \cup {<<Len(s), "join", i>>}
                       \cup (IF installed[i] THEN {<<Len(s) + 2, "unint", i>>} ELSE {})
    <2>1. /\ IosOf(s2) \subseteq IosOf(s) \cup {i} /\ IosOf(s3) \subseteq IosOf(s) \cup {i}
      BY <1>3, <1>6, <1>7, <1>8
    <2>2. /\ Ctl(s2) = Ctl(s) \cup {<<Len(s), "join", i>>}
          /\ Ctl(s3) = Ctl(s) \cup {<<Len(s), "join", i>>} \cup {<<Len(s) + 2, "unint", i>>}
      BY <1>6, <1>7, <1>8, <1>9, <1>10
    <2> QED BY <1>7, <1>8, <1>9, <2>1, <2>2
  <1>14. OnlyStackOf(Main) /\ stack'[Main] = z
    <2> HIDE DEF z
    <2>1. stack' = [stack EXCEPT ![Main] = z]
      BY <1>4 DEF z
    <2> QED BY <1>0, <1>13, <2>1 DEF Typed, OnlyStackOf
  <1>15. /\ Up(z, Len(s)) = a /\ Up(z, Len(s) + 1) = b
         /\ installed[i] => Up(z, Len(s) + 2) = c
         /\ \A d \in Heights(s) : Up(z, d) = Up(s, d)
    BY <1>12
  <1> HIDE DEF z
  <1>16. IosKept({i})
    BY <1>13, <1>14 DEF IosKept, OnlyStackOf, s
  <1>17. Typed'
    BY <1>14 DEF Destroy, Typed, OnlyStackOf, queues, registration
  <1> QED BY <1>1, <1>5, <1>13, <1>14, <1>15, <1>16, <1>17 DEF s, a, b, c

LEMMA JoinFacts ==
    ASSUME Typed, Join
    PROVE  /\ Typed' /\ OnlyStackOf(Main) /\ IosKept({})
           /\ Top(Main) \in Frames /\ Top(Main).pc = "join" /\ Top(Main).io \in Ios
           /\ Replaced(stack[Main], stack'[Main], [Top(Main) EXCEPT !.pc = "exit"])
           /\ <<Len(stack[Main]) - 1, "join", Top(Main).io>> \in Ctl(stack[Main])
           /\ Ctl(stack'[Main])
                 = (Ctl(stack[Main]) \ {<<Len(stack[Main]) - 1, "join", Top(Main).io>>})
                     \cup {<<Len(stack[Main]) - 1, "exit", Top(Main).io>>}
  <1>1. At(Main, "join") /\ Go(Main, "exit")
    BY DEF Join
  <1>2. "join" \in Control \ {"idle"} /\ "exit" \in Control \ {"idle"} /\ Main \in Threads
    BY DEF Control, Threads
  <1>3. /\ OnlyStackOf(Main) /\ IosKept({}) /\ Top(Main).io \in Ios
        /\ Replaced(stack[Main], stack'[Main], [Top(Main) EXCEPT !.pc = "exit"])
        /\ <<Len(stack[Main]) - 1, "join", Top(Main).io>> \in Ctl(stack[Main])
        /\ Ctl(stack'[Main])
              = (Ctl(stack[Main]) \ {<<Len(stack[Main]) - 1, "join", Top(Main).io>>})
                  \cup {<<Len(stack[Main]) - 1, "exit", Top(Main).io>>}
    BY <1>1, <1>2, MainGo
  <1>4. Top(Main) \in Frames /\ Top(Main).pc = "join"
    BY <1>1, <1>2, TopFacts
  <1>5. Typed'
    BY <1>3 DEF Join, Typed, OnlyStackOf, queues, registration
  <1> QED BY <1>3, <1>4, <1>5

LEMMA ExitFacts ==
    ASSUME Typed, Exit
    PROVE  /\ Typed' /\ OnlyStackOf(Main) /\ IosKept({})
           /\ Top(Main) \in Frames /\ Top(Main).pc = "exit" /\ Top(Main).io \in Ios
           /\ Popped(stack[Main], stack'[Main])
           /\ <<Len(stack[Main]) - 1, "exit", Top(Main).io>> \in Ctl(stack[Main])
           /\ Ctl(stack'[Main])
                 = Ctl(stack[Main]) \ {<<Len(stack[Main]) - 1, "exit", Top(Main).io>>}
           /\ life' = [life EXCEPT ![Top(Main).io] = "gone"]
           /\ uring' = [uring EXCEPT ![Top(Main).io] = Unmapped]
  <1>1. At(Main, "exit") /\ Return(Main)
    BY DEF Exit
  <1>2. "exit" \in Control \ {"idle"} /\ Main \in Threads
    BY DEF Control, Threads
  <1>3. /\ OnlyStackOf(Main) /\ IosKept({}) /\ Top(Main).io \in Ios
        /\ Popped(stack[Main], stack'[Main])
        /\ <<Len(stack[Main]) - 1, "exit", Top(Main).io>> \in Ctl(stack[Main])
        /\ Ctl(stack'[Main])
              = Ctl(stack[Main]) \ {<<Len(stack[Main]) - 1, "exit", Top(Main).io>>}
    BY <1>1, <1>2, MainReturn
  <1>4. Top(Main) \in Frames /\ Top(Main).pc = "exit"
    BY <1>1, <1>2, TopFacts
  <1>5. /\ uring' = [uring EXCEPT ![Top(Main).io] = Unmapped]
        /\ kernel' = [kernel EXCEPT ![Top(Main).io] = NoRequests]
        /\ life' = [life EXCEPT ![Top(Main).io] = "gone"]
        /\ busy' = [t \in Tasks |-> IF busy[t] = Top(Main).io THEN None ELSE busy[t]]
    BY DEF Exit
  <1>6. NoRequests \in Counts /\ Unmapped \in Rings
    BY RingTypes DEF NoRequests, Counts
  <1>7. /\ uring' \in [Ios -> Rings] /\ kernel' \in [Ios -> Counts]
        /\ life' \in [Ios -> {"unborn", "failed", "up", "gone"}]
        /\ busy' \in [Tasks -> Ios \cup {None}]
    BY <1>5, <1>6 DEF Typed
  <1>8. Typed'
    BY <1>3, <1>7 DEF Exit, Typed, OnlyStackOf, registration
  <1> QED BY <1>3, <1>4, <1>5, <1>8

-----------------------------------------------------------------------------
(* The registration for signals *)

\* Where the application's thread stands between and inside the calls that
\* register an instance, and what holds of the registration there.  An action
\* that sigaction replaced is the program's own, unless SIGTERM's sigaction may
\* fail (line 74 withdraws the registration and leaves SIGINT's action).
Ground == <<0, "idle", None>>
Kept(x) == "SIGTERM" \notin SigactionFails => x = "own"
NoneInstalled == \A j \in Ios : ~installed[j]
Only(i) == \A j \in Ios : installed[j] <=> j = i
Unregistered == active = None /\ NoneInstalled /\ \A s \in Signals : Kept(action[s])
Registered(i) == active = i /\ Only(i) /\ \A s \in Signals : Kept(saved[i][s])

Between == Ctl(stack[Main]) = {Ground} /\ (Unregistered \/ \E i \in Ios : Registered(i))
Ending(i) ==
    /\ \E pc \in {"join", "exit"} : Ctl(stack[Main]) = {Ground, <<1, pc, i>>}
    /\ Unregistered \/ \E j \in Ios \ {i} : Registered(j)
Installing(i) ==
    /\ active = i /\ NoneInstalled
    /\ \/ /\ Ctl(stack[Main]) = {Ground, <<1, "int", i>>}
          /\ \A s \in Signals : Kept(action[s])
       \/ /\ Ctl(stack[Main]) = {Ground, <<1, "term", i>>}
          /\ Kept(saved[i]["SIGINT"]) /\ Kept(action["SIGTERM"])
       \/ /\ Ctl(stack[Main]) = {Ground, <<1, "flag", i>>}
          /\ \A s \in Signals : Kept(saved[i][s])
Uninstalling(i) ==
    \/ /\ Registered(i)
       /\ \/ Ctl(stack[Main]) = {Ground, <<1, "join", i>>, <<3, "unint", i>>}
          \/ /\ Ctl(stack[Main]) = {Ground, <<1, "join", i>>, <<3, "unterm", i>>}
             /\ Kept(action["SIGINT"])
          \/ /\ Ctl(stack[Main]) = {Ground, <<1, "join", i>>, <<3, "unstore", i>>}
             /\ \A s \in Signals : Kept(action[s])
    \/ /\ active = None /\ Only(i) /\ \A s \in Signals : Kept(action[s])
       /\ Ctl(stack[Main]) = {Ground, <<1, "join", i>>, <<3, "unflag", i>>}

RegInv == Between \/ \E i \in Ios : Ending(i) \/ Installing(i) \/ Uninstalling(i)

\* A step that is not one of the application's registering calls.
LEMMA RegKept ==
    ASSUME RegInv, CtlKept, UNCHANGED registration
    PROVE  RegInv'
  BY DEF RegInv, CtlKept, registration, Between, Ending, Installing, Uninstalling,
         Unregistered, Registered, NoneInstalled, Only

\* The label of a frame of the application tells the rest.
LEMMA RegCases ==
    ASSUME RegInv, NEW n, NEW pc, NEW i, <<n, pc, i>> \in Ctl(stack[Main])
    PROVE  /\ pc = "idle" => n = 0
           /\ pc \in Install => i \in Ios /\ n = 1 /\ Installing(i)
                                /\ Ctl(stack[Main]) = {Ground, <<1, pc, i>>}
           /\ pc \in Uninstall => i \in Ios /\ n = 3 /\ Uninstalling(i)
                                  /\ Ctl(stack[Main]) = {Ground, <<1, "join", i>>, <<3, pc, i>>}
           /\ pc \in {"join", "exit"} => i \in Ios /\ n = 1
           /\ pc = "exit" => Ending(i) /\ Ctl(stack[Main]) = {Ground, <<1, "exit", i>>}
  <1> USE DEF Ground, Install, Uninstall
  <1>1. CASE Between
    BY <1>1 DEF Between
  <1>2. ASSUME NEW j \in Ios, Ending(j)
        PROVE  /\ pc \in {"idle", "join", "exit"} /\ (pc = "idle" => n = 0)
               /\ pc # "idle" => n = 1 /\ i = j /\ Ctl(stack[Main]) = {Ground, <<1, pc, i>>}
    BY SMTT(30), <1>2 DEF Ending
  <1>3. ASSUME NEW j \in Ios, Installing(j)
        PROVE  /\ pc \in {"idle"} \cup Install /\ (pc = "idle" => n = 0)
               /\ pc # "idle" => n = 1 /\ i = j /\ Ctl(stack[Main]) = {Ground, <<1, pc, i>>}
    BY SMTT(30), <1>3 DEF Installing
  <1>4. ASSUME NEW j \in Ios, Uninstalling(j)
        PROVE  /\ pc \in {"idle", "join"} \cup Uninstall /\ (pc = "idle" => n = 0)
               /\ pc # "idle" => i = j
               /\ pc = "join" => n = 1
               /\ pc \in Uninstall => n = 3 /\ Ctl(stack[Main]) = {Ground, <<1, "join", i>>, <<3, pc, i>>}
    BY SMTT(30), <1>4 DEF Uninstalling
  <1> QED BY <1>1, <1>2, <1>3, <1>4 DEF RegInv

\* Between two calls the application's stack is its own frame alone.
LEMMA RegIdle ==
    ASSUME Typed, RegInv, <<Len(stack[Main]) - 1, "idle", None>> \in Ctl(stack[Main])
    PROVE  Between /\ Len(stack[Main]) = 1
  <1> DEFINE s == stack[Main]
  <1>1. s \in Seq(Frames) /\ Len(s) \in Nat
    BY StackFacts DEF Typed, Threads
  <1>2. Len(s) - 1 = 0
    BY RegCases
  <1>3. Len(s) = 1 /\ 1 \notin Heights(s)
    <2> HIDE DEF s
    <2>1. Len(s) = 1
      BY SMTT(30), <1>1, <1>2
    <2>2. 1 \notin 0..(1 - 1)
      BY SMTT(30)
    <2> QED BY <2>1, <2>2 DEF Heights
  <1>4. \A pc, i : <<1, pc, i>> \notin Ctl(s)
    BY <1>1, <1>3, CtlFacts
  <1> HIDE DEF s
  <1>5. \A i \in Ios : ~Ending(i) /\ ~Installing(i) /\ ~Uninstalling(i)
    BY <1>4 DEF Ending, Installing, Uninstalling, s
  <1> QED BY <1>3, <1>5 DEF RegInv, s

LEMMA RegInstall ==
    ASSUME Typed, RegInv, NEW i \in Ios, InstallSignalHandlers(i)
    PROVE  RegInv'
  <1>1. /\ <<Len(stack[Main]) - 1, "idle", None>> \in Ctl(stack[Main])
        /\ Ctl(stack'[Main]) = Ctl(stack[Main]) \cup {<<Len(stack[Main]), "int", i>>}
    BY InstallFacts
  <1>2. Between /\ Len(stack[Main]) = 1
    BY <1>1, RegIdle
  <1>3. active = None /\ active' = i /\ UNCHANGED <<installed, saved, action>>
    BY DEF InstallSignalHandlers
  <1>4. Unregistered
    BY <1>2, <1>3, LifecycleAssumption DEF Between, Registered
  <1>5. Ctl(stack'[Main]) = {Ground, <<1, "int", i>>}
    BY <1>1, <1>2 DEF Between
  <1>6. Installing(i)'
    BY <1>3, <1>4, <1>5 DEF Installing, Unregistered, NoneInstalled
  <1> QED BY <1>6 DEF RegInv

\* A step of InstallSignalHandlers on i at label pc: the frames of the application.
LEMMA RegStep ==
    ASSUME Typed, RegInv, NEW pc \in Install \cup Uninstall, At(Main, pc)
    PROVE  /\ Top(Main).io \in Ios
           /\ pc \in Install => Installing(Top(Main).io)
                                /\ Ctl(stack[Main]) = {Ground, <<1, pc, Top(Main).io>>}
           /\ pc \in Uninstall => Uninstalling(Top(Main).io)
                 /\ Ctl(stack[Main]) = {Ground, <<1, "join", Top(Main).io>>, <<3, pc, Top(Main).io>>}
           /\ \A next \in Install \cup Uninstall : Go(Main, next) =>
                 IF pc \in Install
                 THEN Ctl(stack'[Main]) = {Ground, <<1, next, Top(Main).io>>}
                 ELSE Ctl(stack'[Main]) = {Ground, <<1, "join", Top(Main).io>>,
                                           <<3, next, Top(Main).io>>}
           /\ Return(Main) =>
                 IF pc \in Install
                 THEN Ctl(stack'[Main]) = {Ground}
                 ELSE Ctl(stack'[Main]) = {Ground, <<1, "join", Top(Main).io>>}
  <1> DEFINE s == stack[Main]
             i == Top(Main).io
             n == Len(s) - 1
  <1>1. pc \in Control \ {"idle"} /\ Install \cup Uninstall \subseteq Control \ {"idle"}
        /\ pc \notin {"idle", "sig"} /\ Main \in Threads
    BY DEF Control, Install, Uninstall, Threads
  <1>2. s \in Seq(Frames) /\ s # <<>> /\ Top(Main) = s[1] /\ s[1].pc = pc /\ i \in Ios
    BY <1>1, TopFacts
  <1>3. <<n, pc, i>> \in Ctl(s)
    <2>1. n \in Heights(s) /\ Up(s, n) = s[1]
      BY <1>2, HeightFacts
    <2> QED BY SMTT(30), <1>1, <1>2, <2>1, CtlFacts
  <1>4. \A next \in Install \cup Uninstall : Go(Main, next) =>
           Ctl(stack'[Main]) = (Ctl(s) \ {<<n, pc, i>>}) \cup {<<n, next, i>>}
    BY <1>1, MainGo
  <1>5. Return(Main) => Ctl(stack'[Main]) = Ctl(s) \ {<<n, pc, i>>}
    BY <1>1, MainReturn
  <1> HIDE DEF n, i, s
  <1>6. /\ pc \in Install => n = 1 /\ Installing(i) /\ Ctl(s) = {Ground, <<1, pc, i>>}
        /\ pc \in Uninstall => n = 3 /\ Uninstalling(i)
                               /\ Ctl(s) = {Ground, <<1, "join", i>>, <<3, pc, i>>}
    BY <1>3, RegCases DEF s
  <1>7. Ground # <<1, pc, i>> /\ Ground # <<3, pc, i>> /\ <<1, "join", i>> # <<3, pc, i>>
    BY SMTT(30) DEF Ground
  <1>8. Install \cap Uninstall = {}
    BY DEF Install, Uninstall
  <1>9. CASE pc \in Install
    BY <1>2, <1>4, <1>5, <1>6, <1>7, <1>8, <1>9 DEF s, i
  <1>10. CASE pc \in Uninstall
    BY <1>2, <1>4, <1>5, <1>6, <1>7, <1>8, <1>10 DEF s, i
  <1> QED BY <1>9, <1>10

\* What holds at each label.
LEMMA InstallingAt ==
    ASSUME NEW i \in Ios, NEW pc, Installing(i), <<1, pc, i>> \in Ctl(stack[Main])
    PROVE  /\ active = i /\ NoneInstalled
           /\ pc = "int" => \A s \in Signals : Kept(action[s])
           /\ pc = "term" => Kept(saved[i]["SIGINT"]) /\ Kept(action["SIGTERM"])
           /\ pc = "flag" => \A s \in Signals : Kept(saved[i][s])
  BY SMTT(30) DEF Installing, Ground

LEMMA UninstallingAt ==
    ASSUME NEW i \in Ios, NEW pc, Uninstalling(i), <<3, pc, i>> \in Ctl(stack[Main])
    PROVE  /\ Only(i)
           /\ pc # "unflag" => Registered(i)
           /\ pc = "unterm" => Kept(action["SIGINT"])
           /\ pc \in {"unstore", "unflag"} => \A s \in Signals : Kept(action[s])
           /\ pc = "unflag" => active = None
  BY SMTT(30) DEF Uninstalling, Registered, Ground

\* sigaction saves the program's action, and a failure leaves it as it was.
LEMMA RegSigint ==
    ASSUME Typed, RegInv, Sigaction("int", "SIGINT", "term")
    PROVE  RegInv'
  <1>1. At(Main, "int") /\ "int" \in Install /\ "term" \in Install
        /\ Signals = {"SIGINT", "SIGTERM"}
    BY DEF Sigaction, Install, Signals
  <1>0. PICK i \in Ios : i = Top(Main).io
    BY <1>1, RegStep
  <1>2. /\ i \in Ios /\ Installing(i) /\ Ctl(stack[Main]) = {Ground, <<1, "int", i>>}
        /\ Go(Main, "term") => Ctl(stack'[Main]) = {Ground, <<1, "term", i>>}
        /\ Return(Main) => Ctl(stack'[Main]) = {Ground}
    BY <1>0, <1>1, RegStep
  <1>3. NoneInstalled /\ active = i /\ \A s \in Signals : Kept(action[s])
    BY <1>2, InstallingAt
  <1>4. CASE /\ saved' = [saved EXCEPT ![i]["SIGINT"] = action["SIGINT"]]
             /\ action' = [action EXCEPT !["SIGINT"] = "OnSignal"]
             /\ Go(Main, "term") /\ active' = active /\ installed' = installed
    <2>1. saved'[i]["SIGINT"] = action["SIGINT"] /\ action'["SIGTERM"] = action["SIGTERM"]
      BY <1>1, <1>2, <1>4 DEF Typed
    <2>2. Installing(i)'
      BY <1>1, <1>2, <1>3, <1>4, <2>1 DEF Installing, NoneInstalled
    <2> QED BY <1>2, <2>2 DEF RegInv
  <1>5. CASE active' = None /\ Return(Main) /\ UNCHANGED <<saved, action, installed>>
    BY <1>2, <1>3, <1>5 DEF RegInv, Between, Unregistered, NoneInstalled
  <1> QED BY <1>0, <1>4, <1>5 DEF Sigaction

LEMMA RegSigterm ==
    ASSUME Typed, RegInv, Sigaction("term", "SIGTERM", "flag")
    PROVE  RegInv'
  <1>1. At(Main, "term") /\ "term" \in Install /\ "flag" \in Install
        /\ Signals = {"SIGINT", "SIGTERM"}
    BY DEF Sigaction, Install, Signals
  <1>0. PICK i \in Ios : i = Top(Main).io
    BY <1>1, RegStep
  <1>2. /\ i \in Ios /\ Installing(i) /\ Ctl(stack[Main]) = {Ground, <<1, "term", i>>}
        /\ Go(Main, "flag") => Ctl(stack'[Main]) = {Ground, <<1, "flag", i>>}
        /\ Return(Main) => Ctl(stack'[Main]) = {Ground}
    BY <1>0, <1>1, RegStep
  <1>3. NoneInstalled /\ active = i /\ Kept(saved[i]["SIGINT"]) /\ Kept(action["SIGTERM"])
    BY <1>2, InstallingAt
  <1>4. CASE /\ saved' = [saved EXCEPT ![i]["SIGTERM"] = action["SIGTERM"]]
             /\ Go(Main, "flag") /\ active' = active /\ installed' = installed
    <2>1. saved'[i]["SIGTERM"] = action["SIGTERM"] /\ saved'[i]["SIGINT"] = saved[i]["SIGINT"]
      BY <1>1, <1>2, <1>4 DEF Typed
    <2>2. Installing(i)'
      BY <1>1, <1>2, <1>3, <1>4, <2>1 DEF Installing, NoneInstalled
    <2> QED BY <1>2, <2>2 DEF RegInv
  <1>5. CASE /\ "SIGTERM" \in SigactionFails
             /\ active' = None /\ Return(Main) /\ UNCHANGED <<saved, action, installed>>
    BY <1>2, <1>3, <1>5 DEF RegInv, Between, Unregistered, NoneInstalled, Kept
  <1> QED BY <1>0, <1>4, <1>5 DEF Sigaction

LEMMA RegFlag ==
    ASSUME Typed, RegInv, SetInstalled("flag", TRUE)
    PROVE  RegInv'
  <1>1. At(Main, "flag") /\ "flag" \in Install
    BY DEF SetInstalled, Install
  <1>0. PICK i \in Ios : i = Top(Main).io
    BY <1>1, RegStep
  <1>2. /\ i \in Ios /\ Installing(i) /\ Ctl(stack[Main]) = {Ground, <<1, "flag", i>>}
        /\ Return(Main) => Ctl(stack'[Main]) = {Ground}
    BY <1>0, <1>1, RegStep
  <1>3. NoneInstalled /\ active = i /\ \A s \in Signals : Kept(saved[i][s])
    BY <1>2, InstallingAt
  <1>4. /\ installed' = [installed EXCEPT ![i] = TRUE] /\ Return(Main)
        /\ UNCHANGED <<active, saved, action>>
    BY <1>0 DEF SetInstalled
  <1>5. Only(i)'
    BY <1>2, <1>3, <1>4 DEF Only, NoneInstalled, Typed
  <1>6. Registered(i)'
    BY <1>3, <1>4, <1>5 DEF Registered
  <1> QED BY <1>2, <1>4, <1>6 DEF RegInv, Between

\* UninstallSignalHandlers gives back the actions it saved, one after the other.
LEMMA RegUnint ==
    ASSUME Typed, RegInv, Restore("unint", "SIGINT", "unterm")
    PROVE  RegInv'
  <1>1. At(Main, "unint") /\ "unint" \in Uninstall /\ "unterm" \in Uninstall
        /\ "unint" \notin Install /\ "SIGINT" \in Signals
    BY DEF Restore, Uninstall, Install, Signals
  <1>0. PICK i \in Ios : i = Top(Main).io
    BY <1>1, RegStep
  <1>2. /\ Uninstalling(i) /\ <<3, "unint", i>> \in Ctl(stack[Main])
        /\ Go(Main, "unterm") => Ctl(stack'[Main]) = {Ground, <<1, "join", i>>, <<3, "unterm", i>>}
    BY <1>0, <1>1, RegStep
  <1>3. Registered(i)
    BY SMTT(30), <1>2, UninstallingAt
  <1>4. /\ action' = [action EXCEPT !["SIGINT"] = saved[i]["SIGINT"]] /\ Go(Main, "unterm")
        /\ UNCHANGED <<active, installed, saved>>
    BY <1>0 DEF Restore
  <1>5. Kept(action'["SIGINT"])
    BY <1>1, <1>3, <1>4 DEF Registered, Typed
  <1>6. Registered(i)'
    BY <1>3, <1>4 DEF Registered, Only
  <1>7. Uninstalling(i)'
    BY <1>2, <1>4, <1>5, <1>6 DEF Uninstalling
  <1> QED BY <1>7 DEF RegInv

LEMMA RegUnterm ==
    ASSUME Typed, RegInv, Restore("unterm", "SIGTERM", "unstore")
    PROVE  RegInv'
  <1>1. At(Main, "unterm") /\ "unterm" \in Uninstall /\ "unstore" \in Uninstall
        /\ "unterm" \notin Install /\ Signals = {"SIGINT", "SIGTERM"}
    BY DEF Restore, Uninstall, Install, Signals
  <1>0. PICK i \in Ios : i = Top(Main).io
    BY <1>1, RegStep
  <1>2. /\ Uninstalling(i) /\ <<3, "unterm", i>> \in Ctl(stack[Main])
        /\ Go(Main, "unstore") => Ctl(stack'[Main]) = {Ground, <<1, "join", i>>, <<3, "unstore", i>>}
    BY <1>0, <1>1, RegStep
  <1>3. Registered(i) /\ Kept(action["SIGINT"])
    BY SMTT(30), <1>2, UninstallingAt
  <1>4. /\ action' = [action EXCEPT !["SIGTERM"] = saved[i]["SIGTERM"]] /\ Go(Main, "unstore")
        /\ UNCHANGED <<active, installed, saved>>
    BY <1>0 DEF Restore
  <1>5. action'["SIGTERM"] = saved[i]["SIGTERM"] /\ action'["SIGINT"] = action["SIGINT"]
    BY <1>1, <1>4 DEF Typed
  <1>6. \A s \in Signals : Kept(action'[s])
    BY <1>1, <1>3, <1>5 DEF Registered
  <1>7. Registered(i)'
    BY <1>3, <1>4 DEF Registered, Only
  <1>8. Uninstalling(i)'
    BY <1>2, <1>4, <1>6, <1>7 DEF Uninstalling
  <1> QED BY <1>8 DEF RegInv

LEMMA RegUnregister ==
    ASSUME Typed, RegInv, Unregister
    PROVE  RegInv'
  <1>1. At(Main, "unstore") /\ "unstore" \in Uninstall /\ "unflag" \in Uninstall
        /\ "unstore" \notin Install
    BY DEF Unregister, Uninstall, Install
  <1>0. PICK i \in Ios : i = Top(Main).io
    BY <1>1, RegStep
  <1>2. /\ Uninstalling(i) /\ <<3, "unstore", i>> \in Ctl(stack[Main])
        /\ Go(Main, "unflag") => Ctl(stack'[Main]) = {Ground, <<1, "join", i>>, <<3, "unflag", i>>}
    BY <1>0, <1>1, RegStep
  <1>3. Only(i) /\ \A s \in Signals : Kept(action[s])
    BY <1>2, UninstallingAt
  <1>4. active' = None /\ Go(Main, "unflag") /\ UNCHANGED <<installed, saved, action>>
    BY DEF Unregister
  <1>5. Uninstalling(i)'
    BY <1>2, <1>3, <1>4 DEF Uninstalling, Only
  <1> QED BY <1>5 DEF RegInv

LEMMA RegUnflag ==
    ASSUME Typed, RegInv, SetInstalled("unflag", FALSE)
    PROVE  RegInv'
  <1>1. At(Main, "unflag") /\ "unflag" \in Uninstall /\ "unflag" \notin Install
    BY DEF SetInstalled, Uninstall, Install
  <1>0. PICK i \in Ios : i = Top(Main).io
    BY <1>1, RegStep
  <1>2. /\ Uninstalling(i) /\ <<3, "unflag", i>> \in Ctl(stack[Main])
        /\ Return(Main) => Ctl(stack'[Main]) = {Ground, <<1, "join", i>>}
    BY <1>0, <1>1, RegStep
  <1>3. Only(i) /\ active = None /\ \A s \in Signals : Kept(action[s])
    BY <1>2, UninstallingAt
  <1>4. /\ installed' = [installed EXCEPT ![i] = FALSE] /\ Return(Main)
        /\ UNCHANGED <<active, saved, action>>
    BY <1>0 DEF SetInstalled
  <1>5. NoneInstalled'
    BY <1>3, <1>4 DEF NoneInstalled, Only, Typed
  <1>6. Unregistered'
    BY <1>3, <1>4, <1>5 DEF Unregistered
  <1>7. Ending(i)'
    BY <1>2, <1>4, <1>6 DEF Ending
  <1> QED BY <1>7 DEF RegInv

LEMMA RegDestroy ==
    ASSUME Typed, RegInv, NEW i \in Ios, Destroy(i)
    PROVE  RegInv'
  <1>1. /\ <<Len(stack[Main]) - 1, "idle", None>> \in Ctl(stack[Main])
        /\ Ctl(stack'[Main]) = Ctl(stack[Main]) \cup {<<Len(stack[Main]), "join", i>>}
              \cup (IF installed[i] THEN {<<Len(stack[Main]) + 2, "unint", i>>} ELSE {})
    BY DestroyFacts
  <1>2. Between /\ Len(stack[Main]) = 1
    BY <1>1, RegIdle
  <1>3. UNCHANGED <<active, installed, saved, action>>
    BY DEF Destroy, registration
  <1>4. CASE installed[i]
    <2>1. Registered(i)
      BY <1>2, <1>4 DEF Between, Unregistered, NoneInstalled, Registered, Only
    <2>2. Ctl(stack'[Main]) = {Ground, <<1, "join", i>>, <<3, "unint", i>>}
      BY SMTT(30), <1>1, <1>2, <1>4 DEF Between
    <2>3. Registered(i)'
      BY <1>3, <2>1 DEF Registered, Only
    <2>4. Uninstalling(i)'
      BY <2>2, <2>3 DEF Uninstalling
    <2> QED BY <2>4 DEF RegInv
  <1>5. CASE ~installed[i]
    <2>1. Unregistered \/ \E j \in Ios \ {i} : Registered(j)
      BY <1>2, <1>5 DEF Between, Registered, Only
    <2>2. Ctl(stack'[Main]) = {Ground, <<1, "join", i>>}
      BY <1>1, <1>2, <1>5 DEF Between
    <2>3. (Unregistered \/ \E j \in Ios \ {i} : Registered(j))'
      BY <1>3, <2>1 DEF Unregistered, NoneInstalled, Registered, Only
    <2>4. Ending(i)'
      BY <2>2, <2>3 DEF Ending
    <2> QED BY <2>4 DEF RegInv
  <1> QED BY <1>4, <1>5

LEMMA MainHere ==
    ASSUME Typed, NEW pc \in Control, At(Main, pc)
    PROVE  /\ <<Len(stack[Main]) - 1, pc, Top(Main).io>> \in Ctl(stack[Main])
           /\ pc = "idle" => Top(Main).io = None
           /\ stack[Main] \in Seq(Frames) /\ Len(stack[Main]) \in Nat
  <1> DEFINE s == stack[Main]
  <1>1. s \in Seq(Frames) /\ s # <<>> /\ Top(Main) = s[1] /\ s[1] \in Frames /\ s[1].pc = pc
    BY SMTT(30), TopFacts DEF Threads
  <1>2. Len(s) - 1 \in Heights(s) /\ Up(s, Len(s) - 1) = s[1] /\ Len(s) \in Nat
    BY <1>1, HeightFacts, StackFacts
  <1>3. <<Len(s) - 1, pc, Top(Main).io>> \in Ctl(s)
    BY SMTT(30), <1>1, <1>2, CtlFacts
  <1>4. pc = "idle" => s[1].io = None
    BY <1>1, FrameFacts
  <1> QED BY <1>1, <1>2, <1>3, <1>4

\* The destructor comes to the join, and then to io_uring_queue_exit, with the
\* handlers removed.
LEMMA JoinEnding ==
    ASSUME Typed, RegInv, At(Main, "join")
    PROVE  /\ Top(Main).io \in Ios /\ Ending(Top(Main).io) /\ Len(stack[Main]) = 2
           /\ Ctl(stack[Main]) = {Ground, <<1, "join", Top(Main).io>>}
  <1> DEFINE s == stack[Main]
             i == Top(Main).io
  <1>1. "join" \in Control
    BY DEF Control
  <1>2. <<Len(s) - 1, "join", i>> \in Ctl(s) /\ s \in Seq(Frames) /\ Len(s) \in Nat
    BY <1>1, MainHere
  <1> HIDE DEF s, i
  <1>3. Len(s) - 1 = 1 /\ i \in Ios
    BY <1>2, RegCases DEF s
  <1>4. Len(s) = 2
    BY SMTT(30), <1>2, <1>3
  <1>5. 3 \notin Heights(s)
    BY SMTT(30), <1>4 DEF Heights
  <1>6. \A pc, j : <<3, pc, j>> \notin Ctl(s)
    BY <1>2, <1>5, CtlFacts
  <1>7. \A j \in Ios : ~Uninstalling(j)
    BY <1>6 DEF Uninstalling, s
  <1>8. <<1, "join", i>> \in Ctl(s)
    BY <1>2, <1>3
  <1>9. ~Between /\ \A j \in Ios : ~Installing(j)
    BY SMTT(30), <1>8 DEF Between, Installing, Ground, s
  <1>10. PICK j \in Ios : Ending(j)
    BY <1>7, <1>9 DEF RegInv
  <1>11. j = i /\ Ctl(s) = {Ground, <<1, "join", i>>}
    BY SMTT(30), <1>8, <1>10 DEF Ending, Ground, s
  <1> QED BY <1>3, <1>4, <1>10, <1>11 DEF s, i

LEMMA RegJoin ==
    ASSUME Typed, RegInv, Join
    PROVE  RegInv'
  <1>1. At(Main, "join") /\ UNCHANGED <<active, installed, saved, action>>
    BY DEF Join, registration
  <1>2. PICK i \in Ios : i = Top(Main).io
    BY <1>1, JoinEnding
  <1>3. Ending(i) /\ Len(stack[Main]) = 2 /\ Ctl(stack[Main]) = {Ground, <<1, "join", i>>}
    BY <1>1, <1>2, JoinEnding
  <1>4. Ctl(stack'[Main]) = (Ctl(stack[Main]) \ {<<Len(stack[Main]) - 1, "join", i>>})
                               \cup {<<Len(stack[Main]) - 1, "exit", i>>}
    BY <1>2, JoinFacts
  <1>5. Ctl(stack'[Main]) = {Ground, <<1, "exit", i>>}
    BY SMTT(30), <1>3, <1>4 DEF Ground
  <1>6. Unregistered \/ \E j \in Ios \ {i} : Registered(j)
    BY <1>3 DEF Ending
  <1>7. (Unregistered \/ \E j \in Ios \ {i} : Registered(j))'
    BY <1>1, <1>6 DEF Unregistered, NoneInstalled, Registered, Only
  <1>8. Ending(i)'
    BY <1>5, <1>7 DEF Ending
  <1> QED BY <1>8 DEF RegInv

LEMMA RegExit ==
    ASSUME Typed, RegInv, Exit
    PROVE  RegInv'
  <1> DEFINE i == Top(Main).io
  <1>1. /\ <<Len(stack[Main]) - 1, "exit", i>> \in Ctl(stack[Main])
        /\ Ctl(stack'[Main]) = Ctl(stack[Main]) \ {<<Len(stack[Main]) - 1, "exit", i>>}
    BY ExitFacts
  <1>2. /\ Len(stack[Main]) - 1 = 1 /\ Ending(i)
        /\ Ctl(stack[Main]) = {Ground, <<1, "exit", i>>}
    BY <1>1, RegCases
  <1>3. UNCHANGED <<active, installed, saved, action>>
    BY DEF Exit, registration
  <1>4. Ctl(stack'[Main]) = {Ground}
    <2>1. Ground # <<1, "exit", i>>
      BY DEF Ground
    <2>2. Ctl(stack'[Main]) = {Ground, <<1, "exit", i>>} \ {<<1, "exit", i>>}
      BY <1>1, <1>2
    <2> QED BY <2>1, <2>2
  <1>5. Unregistered \/ \E j \in Ios : Registered(j)
    BY <1>2 DEF Ending
  <1>6. (Unregistered \/ \E j \in Ios : Registered(j))'
    BY <1>3, <1>5 DEF Unregistered, NoneInstalled, Registered, Only
  <1> QED BY <1>4, <1>6 DEF RegInv, Between

-----------------------------------------------------------------------------
(* Every step *)

LEMMA InitTyped == Init => Typed
  <1> SUFFICES ASSUME Init PROVE Typed
    OBVIOUS
  <1> DEFINE f == Frame("idle", None, None)
  <1>1. f \in Frames
    <2>1. "idle" \in Pcs /\ None \in UserData
      BY BaseTypes DEF Pcs, Control
    <2> QED BY <2>1, FrameType
  <1> HIDE DEF f
  <1>2. <<f>> \in Seq(Frames) /\ <<>> \in Seq(Frames)
    BY SMTT(30), <1>1
  <1>3. stack \in [Threads -> Seq(Frames)]
    <2>1. stack = [p \in Threads |-> IF p = Main THEN <<f>> ELSE <<>>]
      BY DEF Init, f
    <2> QED BY <1>2, <2>1
  <1>4. NoRequests \in Counts /\ Unmapped \in Rings
    BY RingTypes DEF NoRequests, Counts
  <1> QED BY <1>3, <1>4 DEF Init, Typed

LEMMA NextTyped ==
    ASSUME Counting, Typed, [Next]_vars
    PROVE  Typed'
  <1>1. ASSUME NEW p \in Threads, Step(p) PROVE Typed'
    <2>1. CASE RequestShutdown(p) \/ GetSqe(p) \/ PutTail(p) \/ FillEntry(p) \/ TagEntry(p)
               \/ Enter(p) \/ OnSignal(p)
      BY <2>1, RequestShutdownFacts, GetSqeFacts, PutTailFacts, FillEntryFacts, TagEntryFacts,
         EnterFacts, OnSignalFacts
    <2>2. CASE Registration \/ Join \/ Exit
      BY <2>2, RegistrationFacts, JoinFacts, ExitFacts
    <2>3. CASE p \in Ios /\ (LoopTest(p) \/ TakeCqe(p) \/ Dispatch(p))
      BY <2>3, LoopTestFacts, TakeCqeFacts, DispatchFacts
    <2> QED BY <1>1, <2>1, <2>2, <2>3 DEF Step
  <1>2. ASSUME NEW p \in Threads, NEW s \in Signals, Deliver(p, s) PROVE Typed'
    BY <1>2, DeliverFacts
  <1>3. ASSUME NEW i \in Ios, NEW q \in Requests, KernelCompletes(i, q) PROVE Typed'
    BY <1>3, KernelCompletesFacts
  <1>4. CASE Application
    BY <1>4, ConstructFacts, InstallFacts, CallRequestShutdownFacts, DestroyFacts, AddTaskFacts
       DEF Application
  <1>5. CASE UNCHANGED vars
    BY <1>5 DEF vars, Typed
  <1> QED BY <1>1, <1>2, <1>3, <1>4, <1>5 DEF Next

LEMMA NextReg ==
    ASSUME Counting, Typed, RegInv, [Next]_vars
    PROVE  RegInv'
  <1>1. ASSUME NEW p \in Threads, Step(p) PROVE RegInv'
    <2>1. CASE RequestShutdown(p) \/ GetSqe(p) \/ PutTail(p) \/ FillEntry(p) \/ TagEntry(p)
               \/ Enter(p) \/ OnSignal(p)
      <3>1. UNCHANGED registration
        BY <2>1 DEF RequestShutdown, GetSqe, PutTail, FillEntry, TagEntry, Enter, OnSignal
      <3>2. CtlKept
        BY <2>1, RequestShutdownFacts, GetSqeFacts, PutTailFacts, FillEntryFacts, TagEntryFacts,
           EnterFacts, OnSignalFacts
      <3> QED BY <3>1, <3>2, RegKept
    <2>2. CASE Registration
      BY <2>2, RegSigint, RegSigterm, RegFlag, RegUnint, RegUnterm, RegUnregister, RegUnflag
         DEF Registration
    <2>3. CASE Join \/ Exit
      BY <2>3, RegJoin, RegExit
    <2>4. CASE p \in Ios /\ (LoopTest(p) \/ TakeCqe(p) \/ Dispatch(p))
      <3>1. UNCHANGED registration
        BY <2>4 DEF LoopTest, TakeCqe, Dispatch
      <3>2. CtlKept
        BY <2>4, LoopTestFacts, TakeCqeFacts, DispatchFacts
      <3> QED BY <3>1, <3>2, RegKept
    <2> QED BY <1>1, <2>1, <2>2, <2>3, <2>4 DEF Step
  <1>2. ASSUME NEW p \in Threads, NEW s \in Signals, Deliver(p, s) PROVE RegInv'
    <2>1. UNCHANGED registration /\ CtlKept
      BY <1>2, DeliverFacts DEF Deliver
    <2> QED BY <2>1, RegKept
  <1>3. ASSUME NEW i \in Ios, NEW q \in Requests, KernelCompletes(i, q) PROVE RegInv'
    <2>1. UNCHANGED registration /\ CtlKept
      BY <1>3, KernelCompletesFacts DEF KernelCompletes
    <2> QED BY <2>1, RegKept
  <1>4. ASSUME NEW i \in Ios, InstallSignalHandlers(i) \/ Destroy(i) PROVE RegInv'
    BY <1>4, RegInstall, RegDestroy
  <1>5. ASSUME NEW i \in Ios,
               \/ Construct(i) \/ CallRequestShutdown(i)
               \/ \E t \in Tasks, kind \in Kinds : AddTask(i, t, kind)
        PROVE  RegInv'
    <2>1. UNCHANGED registration
      BY <1>5 DEF Construct, CallRequestShutdown, AddTask
    <2>2. CtlKept
      BY <1>5, ConstructFacts, CallRequestShutdownFacts, AddTaskFacts
    <2> QED BY <2>1, <2>2, RegKept
  <1>6. CASE UNCHANGED vars
    <2>1. UNCHANGED registration /\ CtlKept
      BY <1>6 DEF vars, registration, CtlKept
    <2> QED BY <2>1, RegKept
  <1> QED BY <1>1, <1>2, <1>3, <1>4, <1>5, <1>6 DEF Next, Application

=============================================================================
