---------------------------- MODULE SyncProofs -----------------------------
(***************************************************************************)
(* The two synchronisation primitives, LockFreeStack and DoneState.          *)
(*                                                                          *)
(* The tagged compare-and-swap of LockFreeStack is safe from the ABA problem *)
(* and the stack implements FreeList, for every set of nodes and threads,    *)
(* every set of chains and every range of tags.                              *)
(*                                                                          *)
(* The argument: a tag never comes back, so an old_head whose tag is still   *)
(* the current one is the current head (TagInv).  The head's node is on the  *)
(* list, and only nodes held by a thread are written (Conservation,          *)
(* ChainInv), so the next that Pop read from it is still there (PopInv).     *)
(*                                                                          *)
(* DoneState with one waiting thread, the one that also calls Reset, loses   *)
(* no wakeup, for every set of signalers.  The argument: from its store of   *)
(* kWaiting to its return the only waiter leaves nobody else to store kIdle  *)
(* (Announced).  A Signal that comes between the waiter's predicate and its  *)
(* parking therefore saw kWaiting, and cannot pass the mutex before the      *)
(* waiter is parked (Pending).                                               *)
(***************************************************************************)
EXTENDS LockFreeStack, DoneState, TLAPS

Pushing(t) == pc[t] \in {"push_link", "push_cas"}

\* A chain being pushed is linked and belongs to the thread that pushes it.
ChainOf(t) ==
    /\ Pushing(t) =>
          /\ chain[t] \in Chains
          /\ \A i \in 1..Len(chain[t]) : chain[t][i] \in held[t]
          /\ \A i \in 1..(Len(chain[t]) - 1) : next[chain[t][i]] = chain[t][i + 1]
    /\ ~Pushing(t) => chain[t] = <<>>
    /\ pc[t] = "push_cas" => next[chain[t][Len(chain[t])]] = old[t].ptr

ChainInv == \A t \in Threads : ChainOf(t)

\* A local old_head is not newer than head_, and is head_ if it is as new.
TagInv ==
    \A t \in Threads : pc[t] # "idle" =>
        /\ old[t].tag <= head.tag
        /\ old[t].tag = head.tag => old[t] = head

\* What a Pop in progress knows.
PopInv ==
    \A t \in Threads :
        /\ pc[t] \in {"pop_next", "pop_cas"} => old[t].ptr \in Nodes
        /\ pc[t] = "pop_cas" /\ old[t] = head => nxt[t] = next[old[t].ptr]

\* Conservation, by positions.
Owned ==
    /\ \A i, j \in 1..Len(list) : list[i] = list[j] => i = j
    /\ \A t \in Threads : \A i \in 1..Len(list) : list[i] \notin held[t]
    /\ \A t, u \in Threads : \A n \in Nodes : n \in held[t] /\ n \in held[u] => t = u
    /\ \A n \in Nodes : (\E i \in 1..Len(list) : list[i] = n) \/ (\E t \in Threads : n \in held[t])

IInv == TypeOK /\ Linked /\ Owned /\ ChainInv /\ TagInv /\ PopInv

-----------------------------------------------------------------------------

\* Most steps are first-order; the ones with arithmetic or sequences say SMT.
USE Zenon

\* A chain is a non-empty sequence of distinct nodes.
LEMMA ChainFacts ==
    ASSUME NEW c \in Chains
    PROVE  /\ c \in Seq(Nodes)
           /\ Len(c) \in Nat \ {0}
           /\ Len(c) \in 1..Len(c)
           /\ \A i \in 1..Len(c) : c[i] \in Nodes
           /\ \A i, j \in 1..Len(c) : c[i] = c[j] => i = j
           /\ Range(c) = {c[i] : i \in 1..Len(c)}
  <1>1. c \in Seq(Nodes) /\ c # <<>> /\ IsInjective(c)
    BY ChainAssumption
  <1>2. Len(c) \in Nat \ {0} /\ DOMAIN c = 1..Len(c) /\ c \in [1..Len(c) -> Nodes]
    BY SMT, <1>1
  <1> QED
    BY SMT, <1>1, <1>2 DEF IsInjective, Range

\* The free list's elements, by position.
LEMMA ListFacts ==
    ASSUME NEW l \in Seq(Nodes)
    PROVE  /\ Len(l) \in Nat
           /\ l # <<>> => Len(l) >= 1
           /\ l = <<>> <=> Len(l) = 0
           /\ \A i \in 1..Len(l) : l[i] \in Nodes
           /\ Range(l) = {l[i] : i \in 1..Len(l)}
           /\ DOMAIN l = 1..Len(l)
  <1>1. Len(l) \in Nat /\ DOMAIN l = 1..Len(l) /\ l \in [1..Len(l) -> Nodes]
    BY SMT
  <1>2. l # <<>> => Len(l) \in Nat \ {0}
    BY SMT
  <1>3. Len(<<>>) = 0
    OBVIOUS
  <1> QED
    BY SMT, <1>1, <1>2, <1>3 DEF Range

\* Conservation says what Owned says.
LEMMA OwnedConserves == ASSUME TypeOK PROVE Owned <=> Conservation
  <1>1. DOMAIN list = 1..Len(list) /\ \A i \in 1..Len(list) : list[i] \in Nodes
    BY ListFacts DEF TypeOK
  <1>2. \A n : n \in FL!Range(list) <=> \E i \in 1..Len(list) : list[i] = n
    BY <1>1 DEF FL!Range
  <1>3. FL!IsInjective(list) <=> \A i, j \in 1..Len(list) : list[i] = list[j] => i = j
    BY <1>1 DEF FL!IsInjective
  <1>4. ASSUME Owned PROVE Conservation
    <2>1. FL!IsInjective(list)
      BY <1>3, <1>4 DEF Owned
    <2>2. ASSUME NEW n \in Nodes
          PROVE  n \in FL!Range(list) \/ \E t \in Threads : n \in held[t]
      BY <1>2, <1>4 DEF Owned
    <2>3. ASSUME NEW n \in Nodes, NEW t \in Threads, n \in held[t]
          PROVE  n \notin FL!Range(list) /\ \A u \in Threads : n \in held[u] => u = t
      BY SMT, <1>2, <1>4, <2>3 DEF Owned
    <2> QED BY <2>1, <2>2, <2>3 DEF Conservation, FL!Conservation
  <1>5. ASSUME Conservation PROVE Owned
    <2>1. \A i, j \in 1..Len(list) : list[i] = list[j] => i = j
      BY <1>3, <1>5 DEF Conservation, FL!Conservation
    <2>2. ASSUME NEW n \in Nodes
          PROVE  (\E i \in 1..Len(list) : list[i] = n) \/ \E t \in Threads : n \in held[t]
      BY <1>2, <1>5 DEF Conservation, FL!Conservation
    <2>3. ASSUME NEW t \in Threads, NEW i \in 1..Len(list) PROVE list[i] \notin held[t]
      BY <1>1, <1>2, <1>5 DEF Conservation, FL!Conservation
    <2>4. ASSUME NEW t \in Threads, NEW u \in Threads, NEW n \in Nodes,
                 n \in held[t], n \in held[u]
          PROVE  t = u
      BY <1>5, <2>4 DEF Conservation, FL!Conservation
    <2> QED BY <2>1, <2>2, <2>3, <2>4 DEF Owned
  <1> QED BY <1>4, <1>5

\* The pools start with no free node and every thread idle.
LEMMA InitIInv == Init => IInv
  <1> SUFFICES ASSUME Init PROVE IInv
    OBVIOUS
  <1>1. Len(list) = 0 /\ list \in Seq(Nodes) /\ list = <<>>
    BY SMT DEF Init, FL!Init
  <1>2. TypeOK
    BY <1>1, WordAssumption DEF Init, FL!Init, TypeOK, TaggedPointer, Pointers
  <1>3. Linked /\ ChainInv /\ TagInv /\ PopInv
    BY SMT, <1>1 DEF Init, Linked, ChainInv, ChainOf, TagInv, PopInv, Pushing
  <1>4. Owned
    BY SMT, <1>1 DEF Init, FL!Init, Owned
  <1> QED BY <1>2, <1>3, <1>4 DEF IInv

\* Facts of a state that satisfies IInv, used for every action.
LEMMA StateFacts ==
    ASSUME IInv
    PROVE  /\ \A t \in Threads : old[t].ptr \in Pointers /\ old[t].tag \in Nat
           /\ head.ptr \in Pointers /\ head.tag \in Nat
           /\ \A t \in Threads : old[t] = [ptr |-> old[t].ptr, tag |-> old[t].tag]
           /\ head = [ptr |-> head.ptr, tag |-> head.tag]
           /\ \A t \in Threads : \A n \in held[t] : n \in Nodes
           /\ head.ptr \in Nodes => list # <<>> /\ head.ptr = list[1] /\ 1 \in 1..Len(list)
           /\ \A t \in Threads : head.ptr \in Nodes => head.ptr \notin held[t]
  <1>1. /\ \A t \in Threads : old[t].ptr \in Pointers /\ old[t].tag \in Nat
        /\ head.ptr \in Pointers /\ head.tag \in Nat
        /\ \A t \in Threads : old[t] = [ptr |-> old[t].ptr, tag |-> old[t].tag]
        /\ head = [ptr |-> head.ptr, tag |-> head.tag]
    BY DEF IInv, TypeOK, TaggedPointer
  <1>2. \A t \in Threads : \A n \in held[t] : n \in Nodes
    BY DEF IInv, TypeOK
  <1>3. head.ptr \in Nodes => list # <<>> /\ head.ptr = list[1] /\ 1 \in 1..Len(list)
    BY SMT, WordAssumption, ListFacts DEF IInv, TypeOK, Linked
  <1>4. \A t \in Threads : head.ptr \in Nodes => head.ptr \notin held[t]
    BY <1>3 DEF IInv, Owned
  <1> QED BY <1>1, <1>2, <1>3, <1>4

\* A step that writes next only in nodes some thread holds, and that leaves the
\* list, the head and who holds what, keeps the list linked.
LEMMA LinkedKept ==
    ASSUME IInv, UNCHANGED <<list, held, head>>,
           NEW t \in Threads,
           \A n \in Nodes : n \notin held[t] => next'[n] = next[n]
    PROVE  Linked' /\ Owned'
  <1>1. \A i \in 1..Len(list) : list[i] \in Nodes /\ list[i] \notin held[t]
    BY ListFacts DEF IInv, TypeOK, Owned
  <1>2. \A i \in 1..Len(list) : next'[list[i]] = next[list[i]]
    BY <1>1
  <1>3. Linked'
    BY <1>2 DEF IInv, Linked
  <1>4. Owned'
    BY DEF IInv, Owned
  <1> QED BY <1>3, <1>4

\* The chain a thread pushes: its nodes are its own, no other thread holds them.
LEMMA ChainApart ==
    ASSUME IInv, NEW u \in Threads, Pushing(u)
    PROVE  /\ chain[u] \in Chains
           /\ Len(chain[u]) \in Nat \ {0}
           /\ Len(chain[u]) \in 1..Len(chain[u])
           /\ \A i \in 1..(Len(chain[u]) - 1) : i \in 1..Len(chain[u]) /\ i # Len(chain[u])
           /\ \A i \in 1..Len(chain[u]) : chain[u][i] \in Nodes /\ chain[u][i] \in held[u]
           /\ \A t \in Threads : t # u =>
                 \A i \in 1..Len(chain[u]) : chain[u][i] \notin held[t]
           /\ \A i, j \in 1..Len(chain[u]) : chain[u][i] = chain[u][j] => i = j
           /\ Range(chain[u]) = {chain[u][i] : i \in 1..Len(chain[u])}
  <1>1. chain[u] \in Chains /\ \A i \in 1..Len(chain[u]) : chain[u][i] \in held[u]
    BY DEF IInv, ChainInv, ChainOf
  <1>2. /\ Len(chain[u]) \in Nat \ {0}
        /\ Len(chain[u]) \in 1..Len(chain[u])
        /\ \A i \in 1..Len(chain[u]) : chain[u][i] \in Nodes
        /\ \A i, j \in 1..Len(chain[u]) : chain[u][i] = chain[u][j] => i = j
        /\ Range(chain[u]) = {chain[u][i] : i \in 1..Len(chain[u])}
    BY <1>1, ChainFacts
  <1>3. \A t \in Threads : t # u => \A i \in 1..Len(chain[u]) : chain[u][i] \notin held[t]
    BY <1>1, <1>2 DEF IInv, Owned
  <1>4. \A i \in 1..(Len(chain[u]) - 1) : i \in 1..Len(chain[u]) /\ i # Len(chain[u])
    BY SMT, <1>2
  <1> QED BY <1>1, <1>2, <1>3, <1>4

\* A thread's chain stays as it is while nobody writes to its nodes.
LEMMA ChainKept ==
    ASSUME IInv, NEW u \in Threads,
           chain'[u] = chain[u], pc'[u] = pc[u], old'[u] = old[u], held'[u] = held[u],
           Pushing(u) => \A i \in 1..Len(chain[u]) : next'[chain[u][i]] = next[chain[u][i]]
    PROVE  ChainOf(u)'
  <1>1. Pushing(u)' <=> Pushing(u)
    BY DEF Pushing
  <1>2. CASE ~Pushing(u)
    BY <1>1, <1>2 DEF IInv, ChainInv, ChainOf, Pushing
  <1>3. CASE Pushing(u)
    <2>1. chain'[u] \in Chains /\ \A i \in 1..Len(chain'[u]) : chain'[u][i] \in held'[u]
      BY <1>3, ChainApart
    <2>2. \A i \in 1..(Len(chain'[u]) - 1) : next'[chain'[u][i]] = chain'[u][i + 1]
      <3>1. \A i \in 1..(Len(chain[u]) - 1) : next[chain[u][i]] = chain[u][i + 1]
        BY <1>3 DEF IInv, ChainInv, ChainOf
      <3>2. \A i \in 1..(Len(chain[u]) - 1) : i \in 1..Len(chain[u])
        BY <1>3, ChainApart
      <3> QED BY <1>3, <3>1, <3>2
    <2>3. pc'[u] = "push_cas" => next'[chain'[u][Len(chain'[u])]] = old'[u].ptr
      <3>1. pc[u] = "push_cas" => next[chain[u][Len(chain[u])]] = old[u].ptr
        BY DEF IInv, ChainInv, ChainOf
      <3>2. Len(chain[u]) \in 1..Len(chain[u])
        BY <1>3, ChainApart
      <3> QED BY <1>3, <3>1, <3>2
    <2> QED BY <1>1, <1>3, <2>1, <2>2, <2>3 DEF ChainOf
  <1> QED BY <1>2, <1>3

\* The same for the other threads when t writes only to nodes it holds.
LEMMA OthersKept ==
    ASSUME IInv, NEW t \in Threads, NEW u \in Threads, u # t,
           chain'[u] = chain[u], pc'[u] = pc[u], old'[u] = old[u], held'[u] = held[u],
           \A n \in Nodes : n \notin held[t] => next'[n] = next[n]
    PROVE  ChainOf(u)'
  <1>1. Pushing(u) => \A i \in 1..Len(chain[u]) : next'[chain[u][i]] = next[chain[u][i]]
    BY ChainApart
  <1> QED BY <1>1, ChainKept

\* Writing over a held node changes no link of the list and of no chain.
LEMMA ScribbleIInv ==
    ASSUME IInv, NEW t \in Threads, NEW n \in Nodes, NEW w \in Words, Scribble(t, n, w)
    PROVE  IInv'
  <1>1. /\ n \in held[t] /\ n \notin Range(chain[t]) /\ next' = [next EXCEPT ![n] = w]
        /\ UNCHANGED <<list, held, head, pc, chain, old, nxt>>
    BY DEF Scribble
  <1>2. TypeOK'
    BY <1>1 DEF IInv, TypeOK
  <1>3. \A m \in Nodes : m # n => next'[m] = next[m]
    BY <1>1 DEF IInv, TypeOK
  <1>4. Linked' /\ Owned'
    BY <1>1, <1>3, LinkedKept
  <1>5. TagInv'
    BY <1>1 DEF IInv, TagInv
  <1>6. ASSUME NEW u \in Threads PROVE ChainOf(u)'
    <2>1. ASSUME Pushing(t), NEW i \in 1..Len(chain[t])
          PROVE  next'[chain[t][i]] = next[chain[t][i]]
      <3>1. chain[t][i] \in Nodes /\ Range(chain[t]) = {chain[t][j] : j \in 1..Len(chain[t])}
        BY <2>1, ChainApart, Zenon
      <3>2. chain[t][i] \in Range(chain[t])
        BY <3>1
      <3> QED BY <1>1, <1>3, <3>1, <3>2
    <2>2. CASE u = t
      BY <1>1, <2>1, <2>2, ChainKept
    <2>3. CASE u # t
      BY <1>1, <1>3, <2>3, OthersKept
    <2> QED BY <2>2, <2>3
  <1>7. PopInv'
    BY SMT, <1>1, <1>3, StateFacts DEF IInv, PopInv
  <1> QED BY <1>2, <1>4, <1>5, <1>6, <1>7 DEF IInv, ChainInv

\* PushBegin links the chain, whose nodes no other thread uses.
LEMMA PushBeginIInv ==
    ASSUME IInv, NEW t \in Threads, NEW c \in Chains, PushBegin(t, c)
    PROVE  IInv'
  <1> DEFINE Link(n) == LET i == CHOOSE j \in 1..Len(c) : c[j] = n
                        IN  IF i = Len(c) THEN Null ELSE c[i + 1]
  <1>1. /\ pc[t] = "idle" /\ pc' = [pc EXCEPT ![t] = "push_link"]
        /\ chain' = [chain EXCEPT ![t] = c] /\ old' = [old EXCEPT ![t] = head]
        /\ UNCHANGED <<list, held, head, nxt>>
        /\ Range(c) \subseteq held[t]
    BY DEF PushBegin, Go
  <1>2. /\ c \in Seq(Nodes) /\ Len(c) \in Nat \ {0}
        /\ \A i \in 1..Len(c) : c[i] \in Nodes
        /\ \A i, j \in 1..Len(c) : c[i] = c[j] => i = j
        /\ Range(c) = {c[i] : i \in 1..Len(c)}
    BY ChainFacts
  <1>3. next' = [n \in Nodes |-> IF \E i \in 1..Len(c) : c[i] = n THEN Link(n) ELSE next[n]]
    BY DEF PushBegin
  <1>4. ASSUME NEW i \in 1..Len(c) PROVE Link(c[i]) = IF i = Len(c) THEN Null ELSE c[i + 1]
    <2>1. (CHOOSE j \in 1..Len(c) : c[j] = c[i]) = i
      BY <1>2
    <2> QED BY <2>1, Zenon
  <1> HIDE DEF Link
  <1>5. \A i \in 1..Len(c) : next'[c[i]] = IF i = Len(c) THEN Null ELSE c[i + 1]
    BY <1>2, <1>3, <1>4
  <1>6. \A n \in Nodes : n \notin held[t] => next'[n] = next[n]
    BY SMT, <1>1, <1>2, <1>3
  <1>7. next' \in [Nodes -> Words]
    <2>1. ASSUME NEW n \in Nodes
          PROVE  (IF \E i \in 1..Len(c) : c[i] = n THEN Link(n) ELSE next[n]) \in Words
      <3>1. CASE \E i \in 1..Len(c) : c[i] = n
        <4>1. PICK i \in 1..Len(c) : c[i] = n
          BY <3>1
        <4>2. Link(n) = IF i = Len(c) THEN Null ELSE c[i + 1]
          BY <1>4, <4>1
        <4>3. i # Len(c) => i + 1 \in 1..Len(c)
          BY SMT, <1>2
        <4> QED BY <1>2, <3>1, <4>2, <4>3, WordAssumption
      <3>2. CASE ~ \E i \in 1..Len(c) : c[i] = n
        BY <3>2 DEF IInv, TypeOK
      <3> QED BY <3>1, <3>2
    <2> QED BY <1>3, <2>1
  <1>8. TypeOK'
    BY <1>1, <1>7 DEF IInv, TypeOK
  <1>9. Linked' /\ Owned'
    BY <1>1, <1>6, LinkedKept
  <1>10. ChainInv'
    <2>1. ASSUME NEW u \in Threads, u # t PROVE ChainOf(u)'
      <3>1. chain'[u] = chain[u] /\ pc'[u] = pc[u] /\ old'[u] = old[u] /\ held'[u] = held[u]
        BY <1>1, <2>1 DEF IInv, TypeOK
      <3> QED BY <1>6, <2>1, <3>1, OthersKept
    <2>2. chain'[t] = c /\ pc'[t] = "push_link"
      BY <1>1 DEF IInv, TypeOK
    <2>6. Pushing(t)' /\ pc'[t] # "push_cas" /\ chain'[t] \in Chains
      BY <2>2 DEF Pushing
    <2>7. \A i \in 1..Len(chain'[t]) : chain'[t][i] \in held'[t]
      BY <1>1, <1>2, <2>2
    <2>8. \A i \in 1..(Len(c) - 1) : i \in 1..Len(c) /\ i # Len(c)
      BY SMT, <1>2
    <2>9. \A i \in 1..(Len(chain'[t]) - 1) : next'[chain'[t][i]] = chain'[t][i + 1]
      BY <1>5, <2>2, <2>8
    <2>10. ChainOf(t)'
      BY <2>6, <2>7, <2>9 DEF ChainOf
    <2> QED BY <2>1, <2>10 DEF ChainInv
  <1>11. TagInv'
    BY SMT, <1>1, StateFacts DEF IInv, TypeOK, TagInv
  <1>12. PopInv'
    BY SMT, <1>1, <1>6, StateFacts DEF IInv, TypeOK, PopInv
  <1> QED BY <1>8, <1>9, <1>10, <1>11, <1>12 DEF IInv

\* The tail PushLink writes is not on the list yet.
LEMMA PushLinkIInv ==
    ASSUME IInv, NEW t \in Threads, PushLink(t)
    PROVE  IInv'
  <1> DEFINE tail == chain[t][Len(chain[t])]
  <1>1. /\ pc[t] = "push_link" /\ pc' = [pc EXCEPT ![t] = "push_cas"]
        /\ next' = [next EXCEPT ![tail] = old[t].ptr]
        /\ UNCHANGED <<list, held, head, chain, old, nxt>>
    BY DEF PushLink, Go
  <1>2. Pushing(t)
    BY <1>1 DEF Pushing
  <1>3. Len(chain[t]) \in 1..Len(chain[t]) /\ tail \in Nodes /\ tail \in held[t]
    BY <1>2, ChainApart
  <1>4. old[t].ptr \in Words
    BY StateFacts, WordAssumption DEF Pointers
  <1>5. \A n \in Nodes : n # tail => next'[n] = next[n]
    BY <1>1 DEF IInv, TypeOK
  <1>6. next'[tail] = old[t].ptr
    BY <1>1, <1>3 DEF IInv, TypeOK
  <1>7. pc'[t] = "push_cas" /\ \A u \in Threads : u # t => pc'[u] = pc[u]
    BY <1>1 DEF IInv, TypeOK
  <1>8. TypeOK'
    BY <1>1, <1>3, <1>4 DEF IInv, TypeOK
  <1> HIDE DEF tail
  <1>9. Linked' /\ Owned'
    BY <1>1, <1>3, <1>5, LinkedKept
  <1>10. ASSUME NEW u \in Threads PROVE ChainOf(u)'
    <2>1. CASE u # t
      BY <1>1, <1>3, <1>5, <1>7, <2>1, OthersKept
    <2>2. ChainOf(t)'
      <3>1. /\ chain[t] \in Chains
            /\ \A i \in 1..Len(chain[t]) : chain[t][i] \in Nodes /\ chain[t][i] \in held[t]
            /\ \A i, j \in 1..Len(chain[t]) : chain[t][i] = chain[t][j] => i = j
            /\ \A i \in 1..(Len(chain[t]) - 1) : i \in 1..Len(chain[t]) /\ i # Len(chain[t])
        BY <1>2, ChainApart
      <3>2. \A i \in 1..(Len(chain[t]) - 1) : next[chain[t][i]] = chain[t][i + 1]
        BY <1>2 DEF IInv, ChainInv, ChainOf
      <3>3. \A i \in 1..(Len(chain[t]) - 1) : chain[t][i] # tail /\ chain[t][i] \in Nodes
        BY <1>3, <3>1 DEF tail
      <3>4. \A i \in 1..(Len(chain[t]) - 1) : next'[chain[t][i]] = chain[t][i + 1]
        BY <1>5, <3>2, <3>3
      <3>5. next'[chain[t][Len(chain[t])]] = old[t].ptr
        BY <1>6 DEF tail
      <3> QED BY <1>1, <1>7, <3>1, <3>4, <3>5 DEF ChainOf, Pushing
    <2> QED BY <2>1, <2>2
  <1>11. TagInv'
    BY <1>1, <1>7 DEF IInv, TagInv
  <1>12. PopInv'
    BY SMT, <1>1, <1>3, <1>5, <1>7, StateFacts DEF IInv, PopInv
  <1> QED BY <1>8, <1>9, <1>10, <1>11, <1>12 DEF IInv, ChainInv

\* PushRetry, PopBegin and PopRetry: old_head is loaded anew.
LEMMA ReloadIInv ==
    ASSUME IInv, NEW t \in Threads, PushRetry(t) \/ PopBegin(t) \/ PopRetry(t)
    PROVE  IInv'
  <1>1. /\ old' = [old EXCEPT ![t] = head]
        /\ UNCHANGED <<list, held, head, next, chain, nxt>>
    BY DEF PushRetry, PopBegin, PopRetry
  <1>2. PICK l \in {"idle", "push_link", "pop_next"} :
           /\ pc' = [pc EXCEPT ![t] = l]
           /\ l = "push_link" <=> Pushing(t)
           /\ l = "pop_next" => head.ptr # Null
    BY DEF PushRetry, PopBegin, PopRetry, Go, Pushing
  <1>3. /\ pc'[t] = l /\ old'[t] = head
        /\ \A u \in Threads : u # t => pc'[u] = pc[u] /\ old'[u] = old[u]
    BY <1>1, <1>2 DEF IInv, TypeOK
  <1>4. TypeOK'
    BY <1>1, <1>2 DEF IInv, TypeOK
  <1>5. Linked' /\ Owned'
    BY <1>1, LinkedKept
  <1>6. ASSUME NEW u \in Threads PROVE ChainOf(u)'
    <2>1. CASE u # t
      BY <1>1, <1>3, <2>1, OthersKept
    <2>2. ChainOf(t)'
      BY <1>1, <1>2, <1>3 DEF IInv, ChainInv, ChainOf, Pushing
    <2> QED BY <2>1, <2>2
  <1>7. TagInv'
    BY SMT, <1>1, <1>3, StateFacts DEF IInv, TagInv
  <1>8. PopInv'
    BY SMT, <1>1, <1>2, <1>3, StateFacts DEF IInv, PopInv, Pointers
  <1> QED BY <1>4, <1>5, <1>6, <1>7, <1>8 DEF IInv, ChainInv

\* Pop reads the next of a node that is on the list if old_head is current.
LEMMA PopNextIInv ==
    ASSUME IInv, NEW t \in Threads, PopNext(t)
    PROVE  IInv'
  <1>1. /\ pc[t] = "pop_next" /\ pc' = [pc EXCEPT ![t] = "pop_cas"]
        /\ nxt' = [nxt EXCEPT ![t] = next[old[t].ptr]]
        /\ UNCHANGED <<list, held, head, next, chain, old>>
    BY DEF PopNext, Go
  <1>2. old[t].ptr \in Nodes
    BY <1>1 DEF IInv, PopInv
  <1>3. /\ pc'[t] = "pop_cas" /\ nxt'[t] = next[old[t].ptr]
        /\ \A u \in Threads : u # t => pc'[u] = pc[u] /\ nxt'[u] = nxt[u]
    BY <1>1 DEF IInv, TypeOK
  <1>4. TypeOK'
    BY <1>1, <1>2 DEF IInv, TypeOK
  <1>5. Linked' /\ Owned'
    BY <1>1, LinkedKept
  <1>6. ASSUME NEW u \in Threads PROVE ChainOf(u)'
    <2>1. CASE u # t
      BY <1>1, <1>3, <2>1, OthersKept
    <2>2. ChainOf(t)'
      BY <1>1, <1>3 DEF IInv, ChainInv, ChainOf, Pushing
    <2> QED BY <2>1, <2>2
  <1>7. TagInv'
    BY <1>1, <1>3 DEF IInv, TagInv
  <1>8. PopInv'
    BY SMT, <1>1, <1>2, <1>3 DEF IInv, PopInv
  <1> QED BY <1>4, <1>5, <1>6, <1>7, <1>8 DEF IInv, ChainInv

\* A successful swap takes the tag past every old_head a thread still has.
LEMMA SwapTags ==
    ASSUME IInv, NEW t \in Threads, NEW p,
           head = old[t], head' = [ptr |-> p, tag |-> old[t].tag + 1],
           pc' = [pc EXCEPT ![t] = "idle"], UNCHANGED <<old, nxt, next>>
    PROVE  TagInv' /\ PopInv'
  <1>1. head'.tag = head.tag + 1
    OBVIOUS
  <1>2. pc'[t] = "idle" /\ \A u \in Threads : u # t => pc'[u] = pc[u]
    BY DEF IInv, TypeOK
  <1>3. \A u \in Threads : pc'[u] # "idle" => old[u].tag < head'.tag
    BY SMT, <1>1, <1>2, StateFacts DEF IInv, TagInv
  <1>4. TagInv'
    BY SMT, <1>1, <1>3, StateFacts DEF TagInv
  <1>5. \A u \in Threads : pc'[u] # "idle" => old[u] # head'
    BY SMT, <1>3, StateFacts
  <1>6. PopInv'
    BY <1>2, <1>5 DEF IInv, PopInv
  <1> QED BY <1>4, <1>6

\* A successful push prepends its chain to the list.
LEMMA PushSwapIInv ==
    ASSUME IInv, NEW t \in Threads, PushSwap(t)
    PROVE  IInv'
  <1> DEFINE c == chain[t]
  <1>1. /\ pc[t] = "push_cas" /\ pc' = [pc EXCEPT ![t] = "idle"]
        /\ head = old[t] /\ head' = [ptr |-> Head(c), tag |-> old[t].tag + 1]
        /\ list' = c \o list
        /\ held' = [held EXCEPT ![t] = @ \ Range(c)]
        /\ chain' = [chain EXCEPT ![t] = <<>>]
        /\ UNCHANGED <<next, old, nxt>>
    BY DEF PushSwap, Go
  <1>2. Pushing(t)
    BY <1>1 DEF Pushing
  <1>3. /\ c \in Chains /\ Len(c) \in Nat \ {0}
        /\ \A i \in 1..Len(c) : c[i] \in Nodes /\ c[i] \in held[t]
        /\ \A u \in Threads : u # t => \A i \in 1..Len(c) : c[i] \notin held[u]
        /\ \A i, j \in 1..Len(c) : c[i] = c[j] => i = j
        /\ Range(c) = {c[i] : i \in 1..Len(c)}
    BY <1>2, ChainApart, Zenon
  <1>4. /\ \A i \in 1..(Len(c) - 1) : next[c[i]] = c[i + 1]
        /\ next[c[Len(c)]] = head.ptr
    BY <1>1, <1>2 DEF IInv, ChainInv, ChainOf
  <1>5. c \in Seq(Nodes) /\ list \in Seq(Nodes) /\ c # <<>>
    BY <1>3, ChainAssumption DEF IInv, TypeOK
  <1>6. Len(list) \in Nat /\ \A i \in 1..Len(list) : list[i] \in Nodes
    BY <1>5, ListFacts
  <1>7. list = <<>> <=> Len(list) = 0
    BY <1>5, ListFacts
  <1>8. Head(c) = c[1]
    BY SMT, <1>5
  <1> HIDE DEF c
  <1>9. /\ list' \in Seq(Nodes)
        /\ Len(list') = Len(c) + Len(list)
        /\ \A i \in 1..(Len(c) + Len(list)) :
              list'[i] = IF i <= Len(c) THEN c[i] ELSE list[i - Len(c)]
    BY SMT, <1>1, <1>5
  <1>10. /\ held'[t] = held[t] \ Range(c)
         /\ chain'[t] = <<>> /\ pc'[t] = "idle"
         /\ \A u \in Threads : u # t =>
               held'[u] = held[u] /\ chain'[u] = chain[u] /\ pc'[u] = pc[u]
    BY <1>1 DEF IInv, TypeOK
  <1>11. TypeOK'
    <2>1. head' \in TaggedPointer(Pointers)
      BY SMT, <1>1, <1>3, <1>8, StateFacts DEF TaggedPointer, Pointers
    <2>2. held' \in [Threads -> SUBSET Nodes]
      BY <1>1 DEF IInv, TypeOK
    <2> QED BY <1>1, <1>9, <2>1, <2>2 DEF IInv, TypeOK
  <1>12. Linked'
    <2>1. Len(list') > 0 /\ list' # <<>> /\ head'.ptr = list'[1]
      BY SMT, <1>1, <1>3, <1>6, <1>8, <1>9
    <2>2. ASSUME NEW i \in 1..Len(list')
          PROVE  next'[list'[i]] = IF i = Len(list') THEN Null ELSE list'[i + 1]
      <3>1. CASE i < Len(c)
        <4>1. i \in 1..(Len(c) - 1) /\ list'[i] = c[i] /\ list'[i + 1] = c[i + 1]
          BY SMT, <1>3, <1>6, <1>9, <3>1
        <4> QED BY SMT, <1>1, <1>3, <1>4, <1>6, <1>9, <3>1, <4>1
      <3>2. CASE i = Len(c)
        <4>1. list'[i] = c[Len(c)] /\ (Len(list) > 0 => list'[i + 1] = list[1])
          BY SMT, <1>3, <1>6, <1>9, <3>2
        <4>2. head.ptr = IF list = <<>> THEN Null ELSE list[1]
          BY DEF IInv, Linked
        <4> QED BY SMT, <1>1, <1>3, <1>4, <1>6, <1>7, <1>9, <3>2, <4>1, <4>2
      <3>3. CASE i > Len(c)
        <4> DEFINE k == i - Len(c)
        <4>1. k \in 1..Len(list) /\ list'[i] = list[k]
          BY SMT, <1>3, <1>6, <1>9, <3>3
        <4>2. ASSUME i # Len(list') PROVE list'[i + 1] = list[k + 1]
          <5>1. i + 1 \in 1..(Len(c) + Len(list)) /\ ~(i + 1 <= Len(c))
            BY SMT, <1>3, <1>6, <1>9, <3>3, <4>2
          <5>2. i \in Nat /\ Len(c) \in Nat
            BY SMT, <1>3, <1>6, <1>9
          <5>3. (i + 1) - Len(c) = k + 1
            BY SMT, <5>2
          <5>4. list'[i + 1] = list[(i + 1) - Len(c)]
            BY <1>9, <5>1
          <5> QED BY <5>3, <5>4
        <4>3. i = Len(list') <=> k = Len(list)
          BY SMT, <1>3, <1>6, <1>9
        <4>4. next[list[k]] = IF k = Len(list) THEN Null ELSE list[k + 1]
          BY <4>1, Zenon DEF IInv, Linked
        <4> QED BY <1>1, <4>1, <4>2, <4>3, <4>4
      <3> QED BY SMT, <1>3, <1>6, <1>9, <3>1, <3>2, <3>3
    <2> QED BY <2>1, <2>2 DEF Linked
  <1>13. Owned'
    <2>1. \A i \in 1..Len(list') :
             \/ i \in 1..Len(c) /\ list'[i] = c[i]
             \/ i - Len(c) \in 1..Len(list) /\ list'[i] = list[i - Len(c)]
      BY SMT, <1>3, <1>6, <1>9
    <2>2. \A i \in 1..Len(list), j \in 1..Len(c) : list[i] # c[j]
      BY <1>3 DEF IInv, Owned
    <2>3. \A i, j \in 1..Len(list) : list[i] = list[j] => i = j
      BY DEF IInv, Owned
    <2>4. ASSUME NEW i \in 1..Len(list'), NEW j \in 1..Len(list'), list'[i] = list'[j]
          PROVE  i = j
      <3>1. CASE i <= Len(c) /\ j <= Len(c)
        <4>1. list'[i] = c[i] /\ list'[j] = c[j] /\ i \in 1..Len(c) /\ j \in 1..Len(c)
          BY SMT, <1>3, <1>6, <1>9, <3>1
        <4> QED BY <1>3, <2>4, <4>1, Zenon
      <3>2. CASE i > Len(c) /\ j > Len(c)
        <4>1. /\ list'[i] = list[i - Len(c)] /\ list'[j] = list[j - Len(c)]
              /\ i - Len(c) \in 1..Len(list) /\ j - Len(c) \in 1..Len(list)
          BY SMT, <1>3, <1>6, <1>9, <3>2
        <4>2. i - Len(c) = j - Len(c)
          BY <2>3, <2>4, <4>1, Zenon
        <4> QED BY SMT, <1>3, <1>6, <1>9, <4>2
      <3>3. ~(i <= Len(c) /\ j > Len(c)) /\ ~(j <= Len(c) /\ i > Len(c))
        <4>1. \A k \in 1..Len(list') :
                 /\ k <= Len(c) => k \in 1..Len(c) /\ list'[k] = c[k]
                 /\ k > Len(c) => k - Len(c) \in 1..Len(list) /\ list'[k] = list[k - Len(c)]
          BY SMT, <1>3, <1>6, <1>9
        <4> QED BY <2>2, <2>4, <4>1, Zenon
      <3> QED BY SMT, <1>3, <1>6, <1>9, <3>1, <3>2, <3>3
    <2>5. ASSUME NEW u \in Threads, NEW i \in 1..Len(list') PROVE list'[i] \notin held'[u]
      <3>1. \A j \in 1..Len(c) : c[j] \in Range(c)
        BY <1>3
      <3>2. \A j \in 1..Len(c) : c[j] \notin held'[u]
        BY <1>3, <1>10, <3>1
      <3>3. held'[u] \subseteq held[u]
        BY <1>10
      <3>4. \A j \in 1..Len(list) : list[j] \notin held'[u]
        BY <3>3 DEF IInv, Owned
      <3> QED BY <2>1, <3>2, <3>4
    <2>6. \A u, v \in Threads : \A n \in Nodes : n \in held'[u] /\ n \in held'[v] => u = v
      <3>1. \A u \in Threads : held'[u] \subseteq held[u]
        BY <1>10
      <3> QED BY <3>1 DEF IInv, Owned
    <2>7. ASSUME NEW n \in Nodes
          PROVE  (\E i \in 1..Len(list') : list'[i] = n) \/ (\E u \in Threads : n \in held'[u])
      <3>1. CASE \E i \in 1..Len(list) : list[i] = n
        <4>1. PICK i \in 1..Len(list) : list[i] = n
          BY <3>1
        <4>2. Len(c) + i \in 1..Len(list') /\ list'[Len(c) + i] = list[i]
          BY SMT, <1>3, <1>6, <1>9
        <4> QED BY <4>1, <4>2
      <3>2. CASE n \in Range(c)
        <4>1. PICK i \in 1..Len(c) : c[i] = n
          BY <1>3, <3>2
        <4>2. i \in 1..Len(list') /\ list'[i] = c[i]
          BY SMT, <1>3, <1>6, <1>9
        <4> QED BY <4>1, <4>2
      <3>3. CASE n \notin Range(c) /\ \E u \in Threads : n \in held[u]
        BY <1>10, <3>3
      <3> QED BY <3>1, <3>2, <3>3 DEF IInv, Owned
    <2> QED BY <2>4, <2>5, <2>6, <2>7 DEF Owned
  <1>14. ASSUME NEW u \in Threads PROVE ChainOf(u)'
    <2>1. CASE u # t
      BY <1>1, <1>10, <2>1, OthersKept
    <2>2. ChainOf(t)'
      BY <1>10 DEF ChainOf, Pushing
    <2> QED BY <2>1, <2>2
  <1>15. TagInv' /\ PopInv'
    BY <1>1, SwapTags, Zenon
  <1> QED BY <1>11, <1>12, <1>13, <1>14, <1>15 DEF IInv, ChainInv

\* A successful pop takes the first node of the list and of nothing else.
LEMMA PopSwapIInv ==
    ASSUME IInv, NEW t \in Threads, PopSwap(t)
    PROVE  IInv' /\ FL!Pop(t)
  <1>1. /\ pc[t] = "pop_cas" /\ pc' = [pc EXCEPT ![t] = "idle"]
        /\ head = old[t] /\ head' = [ptr |-> nxt[t], tag |-> old[t].tag + 1]
        /\ list' = Tail(list)
        /\ held' = [held EXCEPT ![t] = @ \cup {old[t].ptr}]
        /\ UNCHANGED <<next, chain, old, nxt>>
    BY DEF PopSwap, Go
  <1>2. old[t].ptr \in Nodes /\ nxt[t] = next[old[t].ptr]
    BY <1>1 DEF IInv, PopInv
  <1>3. list \in Seq(Nodes) /\ list # <<>> /\ old[t].ptr = list[1]
    BY <1>1, <1>2, WordAssumption DEF IInv, TypeOK, Linked
  <1>4. Len(list) \in Nat /\ Len(list) >= 1 /\ \A i \in 1..Len(list) : list[i] \in Nodes
    BY <1>3, ListFacts
  <1>5. /\ list' \in Seq(Nodes) /\ Len(list') = Len(list) - 1
        /\ \A i \in 1..Len(list') : list'[i] = list[i + 1]
        /\ Head(list) = list[1]
    BY SMT, <1>1, <1>3
  <1>6. list' = <<>> <=> Len(list') = 0
    BY <1>5, ListFacts
  <1>7. /\ held'[t] = held[t] \cup {list[1]} /\ pc'[t] = "idle"
        /\ \A u \in Threads : u # t => held'[u] = held[u] /\ pc'[u] = pc[u]
    BY <1>1, <1>3 DEF IInv, TypeOK
  <1>8. nxt[t] = IF 1 = Len(list) THEN Null ELSE list[1 + 1]
    <2>1. 1 \in 1..Len(list)
      BY SMT, <1>4
    <2> QED BY <1>2, <1>3, <2>1, Zenon DEF IInv, Linked
  <1>9. TypeOK'
    <2>1. 1 # Len(list) => list[1 + 1] \in Nodes
      BY SMT, <1>4
    <2>2. nxt[t] \in Pointers
      BY <1>8, <2>1 DEF Pointers
    <2>3. head' \in TaggedPointer(Pointers)
      BY SMT, <1>1, <2>2, StateFacts DEF TaggedPointer
    <2>4. held' \in [Threads -> SUBSET Nodes]
      BY <1>1, <1>2 DEF IInv, TypeOK
    <2> QED BY <1>1, <1>5, <2>3, <2>4 DEF IInv, TypeOK
  <1>10. Linked'
    <2>1. head'.ptr = IF list' = <<>> THEN Null ELSE list'[1]
      <3>1. list' # <<>> => list'[1] = list[1 + 1]
        BY SMT, <1>4, <1>5, <1>6
      <3> QED BY SMT, <1>1, <1>4, <1>5, <1>6, <1>8, <3>1
    <2>2. ASSUME NEW i \in 1..Len(list')
          PROVE  next'[list'[i]] = IF i = Len(list') THEN Null ELSE list'[i + 1]
      <3>1. i + 1 \in 1..Len(list) /\ (i = Len(list') <=> i + 1 = Len(list))
        BY SMT, <1>4, <1>5
      <3>2. next[list[i + 1]] = IF i + 1 = Len(list) THEN Null ELSE list[i + 1 + 1]
        BY <3>1 DEF IInv, Linked
      <3>3. i # Len(list') => list'[i + 1] = list[i + 1 + 1]
        <4>1. i # Len(list') => i + 1 \in 1..Len(list')
          BY SMT, <1>4, <1>5
        <4> QED BY <1>5, <4>1
      <3> QED BY <1>1, <1>5, <3>1, <3>2, <3>3, Zenon
    <2> QED BY <2>1, <2>2 DEF Linked
  <1>11. Owned'
    <2>1. \A i \in 1..Len(list') : i + 1 \in 1..Len(list) /\ list'[i] = list[i + 1] /\ i + 1 # 1
      BY SMT, <1>4, <1>5
    <2>2. 1 \in 1..Len(list)
      BY SMT, <1>4
    <2>3. ASSUME NEW i \in 1..Len(list'), NEW j \in 1..Len(list'), list'[i] = list'[j]
          PROVE  i = j
      <3>1. i + 1 = j + 1
        BY SMT, <2>1, <2>3 DEF IInv, Owned
      <3> QED BY SMT, <1>4, <1>5, <3>1
    <2>4. ASSUME NEW u \in Threads, NEW i \in 1..Len(list') PROVE list'[i] \notin held'[u]
      <3>1. list'[i] \notin held[u] /\ list'[i] # list[1]
        BY <2>1, <2>2 DEF IInv, Owned
      <3> QED BY <1>7, <3>1
    <2>5. ASSUME NEW u \in Threads, NEW v \in Threads, NEW n \in Nodes,
                 n \in held'[u], n \in held'[v]
          PROVE  u = v
      <3>1. CASE n = list[1]
        <4>1. \A x \in Threads : n \notin held[x]
          BY <2>2, <3>1 DEF IInv, Owned
        <4> QED BY <1>7, <2>5, <4>1
      <3>2. CASE n # list[1]
        <4>1. n \in held[u] /\ n \in held[v]
          BY <1>7, <2>5, <3>2
        <4> QED BY <4>1 DEF IInv, Owned
      <3> QED BY <3>1, <3>2
    <2>6. ASSUME NEW n \in Nodes
          PROVE  (\E i \in 1..Len(list') : list'[i] = n) \/ (\E u \in Threads : n \in held'[u])
      <3>1. CASE \E u \in Threads : n \in held[u]
        BY <1>7, <3>1
      <3>2. CASE n = list[1]
        BY <1>7, <3>2
      <3>3. CASE \E i \in 1..Len(list) : list[i] = n /\ i # 1
        <4>1. PICK i \in 1..Len(list) : list[i] = n /\ i # 1
          BY <3>3
        <4>2. i - 1 \in 1..Len(list') /\ list'[i - 1] = list[i]
          <5>1. i - 1 \in 1..Len(list') /\ (i - 1) + 1 = i
            BY SMT, <1>4, <1>5, <4>1
          <5> QED BY <1>5, <5>1
        <4> QED BY <4>1, <4>2
      <3> QED BY <3>1, <3>2, <3>3 DEF IInv, Owned
    <2> QED BY <2>3, <2>4, <2>5, <2>6 DEF Owned
  <1>12. ASSUME NEW u \in Threads PROVE ChainOf(u)'
    <2>1. CASE u # t
      BY <1>1, <1>7, <2>1, OthersKept
    <2>2. ~Pushing(t) /\ ~Pushing(t)' /\ pc'[t] # "push_cas"
      BY <1>1, <1>7 DEF Pushing
    <2>3. ChainOf(t)'
      BY <1>1, <2>2 DEF IInv, ChainInv, ChainOf
    <2> QED BY <2>1, <2>3
  <1>13. TagInv' /\ PopInv'
    BY <1>1, SwapTags, Zenon
  <1>14. FL!Pop(t)
    BY <1>1, <1>3, <1>5 DEF FL!Pop
  <1> QED BY <1>9, <1>10, <1>11, <1>12, <1>13, <1>14 DEF IInv, ChainInv

\* Every step keeps the invariant, and is a step of FreeList or changes none of
\* its variables.
LEMMA StepIInv ==
    ASSUME IInv, [Next]_vars
    PROVE  IInv' /\ [FL!Next]_(FL!vars)
  <1>1. CASE UNCHANGED vars
    <2>1. IInv'
      <3>1. TypeOK' /\ Linked'
        BY <1>1 DEF IInv, TypeOK, Linked, vars
      <3>2. Owned'
        BY <1>1 DEF IInv, Owned, vars
      <3>3. ChainInv'
        BY <1>1 DEF IInv, ChainInv, ChainOf, Pushing, vars
      <3>4. TagInv' /\ PopInv'
        BY <1>1 DEF IInv, TagInv, PopInv, vars
      <3> QED BY <3>1, <3>2, <3>3, <3>4 DEF IInv
    <2> QED BY <1>1, <2>1 DEF vars, FL!vars
  <1>2. CASE Next
    <2>1. PICK t \in Threads :
             \/ \E n \in Nodes, w \in Words : Scribble(t, n, w)
             \/ \E c \in Chains : PushBegin(t, c)
             \/ PushLink(t) \/ PushSwap(t) \/ PushRetry(t)
             \/ PopBegin(t) \/ PopNext(t) \/ PopSwap(t) \/ PopRetry(t)
      BY <1>2 DEF Next
    <2>2. CASE \E n \in Nodes, w \in Words : Scribble(t, n, w)
      BY <2>2, ScribbleIInv, Zenon DEF Scribble, FL!vars
    <2>3. CASE \E c \in Chains : PushBegin(t, c)
      BY <2>3, PushBeginIInv, Zenon DEF PushBegin, FL!vars
    <2>4. CASE PushLink(t)
      BY <2>4, PushLinkIInv, Zenon DEF PushLink, FL!vars
    <2>5. CASE PushRetry(t) \/ PopBegin(t) \/ PopRetry(t)
      BY <2>5, ReloadIInv DEF PushRetry, PopBegin, PopRetry, FL!vars
    <2>6. CASE PopNext(t)
      BY <2>6, PopNextIInv, Zenon DEF PopNext, FL!vars
    <2>7. CASE PushSwap(t)
      <3>1. IInv'
        BY <2>7, PushSwapIInv
      <3>2. Pushing(t)
        BY <2>7 DEF PushSwap, Pushing
      <3>3. /\ chain[t] \in Chains
            /\ Range(chain[t]) = {chain[t][i] : i \in 1..Len(chain[t])}
            /\ \A i \in 1..Len(chain[t]) : chain[t][i] \in held[t]
        BY <3>2, ChainApart, Zenon
      <3>4. chain[t] \in Chains /\ Range(chain[t]) \subseteq held[t]
        BY <3>3
      <3>5. FL!PushChain(t, chain[t])
        BY <2>7, <3>4 DEF PushSwap, FL!PushChain, FL!Range, Range
      <3> QED BY <3>1, <3>4, <3>5 DEF FL!Next
    <2>8. CASE PopSwap(t)
      BY <2>8, PopSwapIInv DEF FL!Next
    <2> QED BY <2>1, <2>2, <2>3, <2>4, <2>5, <2>6, <2>7, <2>8
  <1> QED BY <1>1, <1>2

\* The invariant holds in every reachable state of the stack.
THEOREM StackInv == Spec => []IInv
  BY InitIInv, StepIInv, PTL DEF Spec

\* The words of head_, of the nodes and of the threads keep their types: head_
\* never holds a word an object wrote over a node's next.
THEOREM StackTypeOK == Spec => []TypeOK
  <1>1. IInv => TypeOK
    BY DEF IInv
  <1> QED BY <1>1, StackInv, PTL

\* head_ and the next words always spell the free list out.
THEOREM StackLinked == Spec => []Linked
  <1>1. IInv => Linked
    BY DEF IInv
  <1> QED BY <1>1, StackInv, PTL

\* A compare-and-swap of Pop that succeeds installs the node's current next,
\* whatever happened to the node since Pop read it: the tags defeat ABA.
THEOREM StackAbaSafe == Spec => []AbaSafe
  <1>1. IInv => AbaSafe
    BY DEF IInv, PopInv, AbaSafe
  <1> QED BY <1>1, StackInv, PTL

\* Every node is on the free list once or with one thread: Pop never hands a
\* node to two threads and no interleaving loses one.
THEOREM StackConservation == Spec => []Conservation
  <1>1. IInv => Conservation
    BY OwnedConserves DEF IInv
  <1> QED BY <1>1, StackInv, PTL

\* Push, PushChain and Pop, interleaved access by access, implement the
\* indivisible operations of FreeList.
THEOREM StackRefinesFreeList == Spec => RefinesFreeList
  <1>1. Init => FL!Init
    BY DEF Init
  <1>2. IInv /\ [Next]_vars => [FL!Next]_(FL!vars)
    BY StepIInv
  <1> QED BY <1>1, <1>2, StackInv, PTL DEF Spec, FL!Spec, RefinesFreeList

-----------------------------------------------------------------------------

\* The regime of the theorem: one thread waits for a task and resubmits it.
OneWaiter == \E w : Waiters = {w} /\ Resetters \subseteq {w}

\* mtx_ is held exactly by the thread whose program point says so.
MutexInv ==
    \A t \in Callers : mtx = t <=> at[t] \in Locked \cup {"sunlock"}

\* The condition variable's queue is the set of threads at the blocking point.
ParkedInv == parked = {w \in Waiters : at[w] = "parked"}

\* Wait after its store of kWaiting.
Announced ==
    \A w \in Waiters :
        at[w] \in {"pred", "park", "parked", "relock", "expired", "lastpred", "giveup"}
            => state # kIdle

\* A signal in the window between the predicate and the wakeup is followed up.
Pending ==
    \A w \in Waiters : state = kSignaled =>
        /\ at[w] = "park" => \E s \in Signalers : at[s] = "slock"
        /\ at[w] = "parked" => \E s \in Signalers : Owes(s)

DoneIInv == DoneTypes /\ MutexInv /\ ParkedInv

WakeInv == DoneIInv /\ Announced /\ Pending

\* Nobody holds mtx_ and nobody waits at first.
LEMMA DoneInitIInv == ASSUME DoneInit PROVE DoneIInv
  BY ZenonT(30), ThreadAssumption
  DEF DoneInit, DoneIInv, DoneTypes, MutexInv, ParkedInv, Callers, Locked, WaitPc, SignalPc,
      kIdle, kWaiting, kSignaled

\* The program point a step gives to its thread is the only one it changes.
LEMMA DoneGoFacts ==
    ASSUME DoneIInv, NEW t \in Callers, NEW label, GoTo(t, label)
    PROVE  at'[t] = label /\ \A u \in Callers : u # t => at'[u] = at[u]
  BY DEF DoneIInv, DoneTypes, GoTo

\* Every step of Wait keeps the invariant.
LEMMA WaitIInv ==
    ASSUME DoneIInv, NEW w \in Waiters,
           \/ \E m \in Modes : WaitFast(w, m)
           \/ WaitStep(w) \/ WaitSpurious(w) \/ WaitExpire(w)
    PROVE  DoneIInv'
  <1> USE ThreadAssumption
  <1>w. w \in Callers
    BY DEF Callers
  <1>1. CASE \E m \in Modes : WaitFast(w, m)
    BY SMT, <1>1, <1>w DEF WaitFast, Return, GoTo, DoneIInv, DoneTypes, MutexInv, ParkedInv, Callers, Locked, WaitPc
  <1>2. CASE WaitPoll(w)
    BY <1>2, <1>w DEF WaitPoll, Return, GoTo, DoneIInv, DoneTypes, MutexInv, ParkedInv, Callers, Locked, WaitPc
  <1>3. CASE WaitLock(w)
    BY SMT, <1>3, <1>w DEF WaitLock, GoTo, DoneIInv, DoneTypes, MutexInv, ParkedInv, Callers, Locked, WaitPc, SignalPc
  <1>4. CASE WaitCheck(w) \/ WaitPred(w) \/ WaitLastPred(w)
    BY SMT, <1>4, <1>w DEF WaitCheck, WaitPred, WaitLastPred, Return, GoTo, DoneIInv, DoneTypes, MutexInv,
                      ParkedInv, Callers, Locked, WaitPc
  <1>5. CASE WaitAnnounce(w) \/ WaitGiveUp(w)
    BY SMT, <1>5, <1>w DEF WaitAnnounce, WaitGiveUp, Return, GoTo, DoneIInv, DoneTypes, MutexInv,
                      ParkedInv, Callers, Locked, WaitPc, kIdle, kWaiting
  <1>6. CASE WaitPark(w)
    BY SMT, <1>6, <1>w DEF WaitPark, GoTo, DoneIInv, DoneTypes, MutexInv, ParkedInv, Callers, Locked, WaitPc
  <1>7. CASE WaitSpurious(w) \/ WaitExpire(w)
    BY SMT, <1>7, <1>w DEF WaitSpurious, WaitExpire, GoTo, DoneIInv, DoneTypes, MutexInv, ParkedInv, Callers,
                      Locked, WaitPc
  <1> QED BY <1>1, <1>2, <1>3, <1>4, <1>5, <1>6, <1>7 DEF WaitStep

\* Every step of Signal keeps the invariant.
LEMMA SignalIInv ==
    ASSUME DoneIInv, NEW s \in Signalers, SignalExchange(s) \/ SignalStep(s)
    PROVE  DoneIInv'
  <1> USE ThreadAssumption
  <1>s. s \in Callers
    BY DEF Callers
  <1>1. CASE SignalExchange(s)
    BY SMT, <1>1, <1>s DEF SignalExchange, GoTo, DoneIInv, DoneTypes, MutexInv, ParkedInv, Callers, Locked,
                      SignalPc, kSignaled
  <1>2. CASE SignalLock(s) \/ SignalUnlock(s)
    BY SMT, <1>2, <1>s DEF SignalLock, SignalUnlock, GoTo, DoneIInv, DoneTypes, MutexInv, ParkedInv, Callers,
                      Locked, SignalPc
  <1>3. CASE SignalNotify(s)
    BY SMT, <1>3, <1>s DEF SignalNotify, GoTo, DoneIInv, DoneTypes, MutexInv, ParkedInv, Callers, Locked,
                      WaitPc, SignalPc
  <1> QED BY <1>1, <1>2, <1>3 DEF SignalStep

\* Every step keeps the invariant.
LEMMA DoneStepIInv == ASSUME DoneIInv, [DoneNext]_doneVars PROVE DoneIInv'
  <1>1. CASE UNCHANGED doneVars
    BY <1>1 DEF DoneIInv, DoneTypes, MutexInv, ParkedInv, doneVars
  <1>2. ASSUME NEW t \in Resetters, Reset(t) PROVE DoneIInv'
    BY <1>2, Zenon DEF Reset, DoneIInv, DoneTypes, MutexInv, ParkedInv, kIdle
  <1> QED BY <1>1, <1>2, WaitIInv, SignalIInv DEF DoneNext

\* The states, program points and results of Wait, Signal and Reset keep their
\* types, for any number of waiters and signalers.
THEOREM DoneTypeOK == DoneSpec => []DoneTypes
  <1>1. DoneIInv => DoneTypes
    BY DEF DoneIInv
  <1>2. DoneInit => DoneIInv
    BY DoneInitIInv
  <1>3. DoneIInv /\ [DoneNext]_doneVars => DoneIInv'
    BY DoneStepIInv
  <1> QED BY <1>1, <1>2, <1>3, PTL DEF DoneSpec

\* Every step of the only waiter keeps the wakeup invariant.
LEMMA WaitWakeInv ==
    ASSUME WakeInv, NEW w, Waiters = {w},
           \/ \E m \in Modes : WaitFast(w, m)
           \/ WaitStep(w) \/ WaitSpurious(w) \/ WaitExpire(w)
    PROVE  Announced' /\ Pending'
  <1> USE ThreadAssumption DEF kIdle, kWaiting, kSignaled
  <1>1. w \in Waiters /\ w \in Callers /\ \A s \in Signalers : s \in Callers /\ s # w
    BY DEF Callers
  <1>2. ASSUME NEW label, GoTo(w, label)
        PROVE  /\ at'[w] = label
               /\ \A s \in Signalers : at'[s] = at[s]
    BY <1>1, <1>2, DoneGoFacts DEF WakeInv
  <1>3. CASE \E m \in Modes : WaitFast(w, m)
    BY SMT, <1>2, <1>3 DEF WaitFast, Return, Announced, Pending
  <1>4. CASE WaitPoll(w)
    BY SMT, <1>2, <1>4 DEF WaitPoll, Return, Announced, Pending
  <1>5. CASE WaitLock(w)
    <2>1. at[w] = "lock" \/ at[w] = "relock" \/ at[w] = "expired"
      BY <1>5 DEF WaitLock
    <2>2. at'[w] = IF at[w] = "lock" THEN "check" ELSE IF at[w] = "relock" THEN "pred" ELSE "lastpred"
      BY <1>2, <1>5, <2>1 DEF WaitLock
    <2>3. state' = state
      BY <1>5 DEF WaitLock
    <2> QED BY <2>1, <2>2, <2>3, <1>1 DEF WakeInv, Announced, Pending
  <1>6. CASE WaitCheck(w)
    BY SMT, <1>2, <1>6 DEF WaitCheck, Return, Announced, Pending
  <1>7. CASE WaitAnnounce(w)
    BY SMT, <1>2, <1>7 DEF WaitAnnounce, Announced, Pending
  <1>8. CASE WaitPred(w)
    BY SMT, <1>1, <1>2, <1>8 DEF WaitPred, Return, WakeInv, Announced, Pending
  <1>9. CASE WaitPark(w)
    BY SMT, <1>1, <1>2, <1>9 DEF WaitPark, WakeInv, Announced, Pending, Owes
  <1>10. CASE WaitSpurious(w) \/ WaitExpire(w)
    BY SMT, <1>1, <1>2, <1>10 DEF WaitSpurious, WaitExpire, WakeInv, DoneIInv, ParkedInv, Announced, Pending
  <1>11. CASE WaitLastPred(w)
    BY SMT, <1>1, <1>2, <1>11 DEF WaitLastPred, Return, WakeInv, Announced, Pending
  <1>12. CASE WaitGiveUp(w)
    BY SMT, <1>2, <1>12 DEF WaitGiveUp, Return, Announced, Pending
  <1> QED BY <1>3, <1>4, <1>5, <1>6, <1>7, <1>8, <1>9, <1>10, <1>11, <1>12 DEF WaitStep

\* Every step of a signaler keeps the wakeup invariant.
LEMMA SignalWakeInv ==
    ASSUME WakeInv, NEW w, Waiters = {w}, NEW s \in Signalers,
           SignalExchange(s) \/ SignalStep(s)
    PROVE  Announced' /\ Pending'
  <1> USE ThreadAssumption DEF kIdle, kWaiting, kSignaled
  <1>1. w \in Waiters /\ w \in Callers /\ s \in Callers /\ s # w
        /\ \A u \in Signalers : u \in Callers /\ u # w
    BY DEF Callers
  <1>2. ASSUME NEW label, GoTo(s, label)
        PROVE  /\ at'[s] = label /\ at'[w] = at[w]
               /\ \A u \in Signalers : u # s => at'[u] = at[u]
    BY <1>1, <1>2, DoneGoFacts DEF WakeInv
  <1>3. CASE SignalExchange(s)
    <2>1. state' = kSignaled /\ at[s] = "idle"
      BY <1>3 DEF SignalExchange
    <2>2. state = kWaiting => at'[s] = "slock"
      BY <1>2, <1>3 DEF SignalExchange
    <2>3. at'[w] = at[w] /\ \A u \in Signalers : u # s => at'[u] = at[u]
      BY <1>2, <1>3 DEF SignalExchange
    <2>4. at[w] \in {"park", "parked"} => state = kWaiting \/ state = kSignaled
      BY <1>1 DEF WakeInv, DoneIInv, DoneTypes, Announced
    <2>5. Announced'
      BY SMT, <2>1 DEF Announced
    <2>6. Pending'
      BY <1>1, <2>1, <2>2, <2>3, <2>4 DEF WakeInv, Pending, Owes
    <2> QED BY <2>5, <2>6
  <1>4. CASE SignalLock(s)
    <2>1. mtx = NoThread /\ state' = state
      BY <1>4 DEF SignalLock
    <2>2. at[w] # "park"
      BY <1>1, <2>1 DEF WakeInv, DoneIInv, MutexInv, Locked, Callers
    <2>3. \A u \in Signalers : Owes(u) => Owes(u)'
      BY <1>2, <1>4 DEF SignalLock, Owes
    <2>4. at'[w] = at[w]
      BY <1>2, <1>4 DEF SignalLock
    <2> QED BY <1>1, <2>1, <2>2, <2>3, <2>4 DEF WakeInv, Announced, Pending
  <1>5. CASE SignalUnlock(s)
    <2>1. state' = state /\ at[s] = "sunlock"
      BY <1>5 DEF SignalUnlock
    <2>2. \A u \in Signalers : Owes(u) => Owes(u)'
      BY <1>2, <1>5 DEF SignalUnlock, Owes
    <2>3. \A u \in Signalers : at[u] = "slock" => at'[u] = "slock"
      BY <1>2, <1>5, <2>1 DEF SignalUnlock
    <2>4. at'[w] = at[w]
      BY <1>2, <1>5 DEF SignalUnlock
    <2> QED BY <1>1, <2>1, <2>2, <2>3, <2>4 DEF WakeInv, Announced, Pending
  <1>6. CASE SignalNotify(s)
    <2>1. state' = state /\ at[s] = "notify"
      BY <1>6 DEF SignalNotify
    <2>2. CASE parked = {}
      <3>1. at[w] # "parked"
        BY <1>1, <2>2 DEF WakeInv, DoneIInv, ParkedInv
      <3>2. at'[w] = at[w] /\ \A u \in Signalers : at[u] = "slock" => at'[u] = "slock"
        BY <1>2, <1>6, <2>1, <2>2 DEF SignalNotify
      <3> QED BY <1>1, <2>1, <3>1, <3>2 DEF WakeInv, Announced, Pending
    <2>3. CASE parked # {}
      <3>1. parked = {w} /\ at[w] = "parked"
        BY <1>1, <2>3 DEF WakeInv, DoneIInv, ParkedInv
      <3>2. at'[w] = "relock"
        BY SMT, <1>1, <1>6, <3>1 DEF SignalNotify, WakeInv, DoneIInv, DoneTypes
      <3> QED BY <1>1, <2>1, <3>1, <3>2 DEF WakeInv, Announced, Pending
    <2> QED BY <2>2, <2>3
  <1> QED BY <1>3, <1>4, <1>5, <1>6 DEF SignalStep

\* With one waiter, which alone resets, Signal loses no wakeup: while kSignaled
\* is visible and the waiter is parked some Signal has still to notify.
THEOREM OneWaiterNotified == ASSUME OneWaiter PROVE DoneSpec => []NotifyOwed
  <1>1. DoneInit => WakeInv
    BY DoneInitIInv DEF OneWaiter, DoneInit, WakeInv, Announced, Pending, Callers
  <1>2. WakeInv /\ [DoneNext]_doneVars => WakeInv'
    <2> SUFFICES ASSUME WakeInv, [DoneNext]_doneVars PROVE WakeInv'
      OBVIOUS
    <2>1. PICK w : Waiters = {w} /\ Resetters \subseteq {w}
      BY DEF OneWaiter
    <2>2. DoneIInv'
      BY DoneStepIInv DEF WakeInv
    <2>3. CASE UNCHANGED doneVars
      BY <2>2, <2>3 DEF WakeInv, Announced, Pending, Owes, doneVars
    <2>4. ASSUME NEW t \in Resetters, Reset(t) PROVE Announced' /\ Pending'
      BY <2>1, <2>4 DEF Reset, Announced, Pending, kIdle, kSignaled
    <2> QED BY <2>1, <2>2, <2>3, <2>4, WaitWakeInv, SignalWakeInv DEF DoneNext, WakeInv
  <1>3. WakeInv => NotifyOwed
    BY DEF WakeInv, DoneIInv, ParkedInv, Pending, NotifyOwed
  <1> QED BY <1>1, <1>2, <1>3, PTL DEF DoneSpec
=============================================================================
