--------------------------- MODULE KernelBufProofs ---------------------------
(***************************************************************************)
(* The storage of KernelBuf objects is sound for every number of objects and *)
(* blocks, every table of block sizes and every content: a block has one     *)
(* owner, the storage holds size bytes, and the bytes an owner relies on     *)
(* stay.                                                                    *)
(*                                                                          *)
(* The argument: tag, data and alloc agree with each other (Sound), a block  *)
(* is out exactly when one object points to it (Owned), and so a block that  *)
(* is taken or written is not one that another object reads (Holds).         *)
(***************************************************************************)
EXTENDS KernelBuf, WellFoundedInduction, TLAPS

Tags == {"kNone", "kSbo", "kPool", "kHeap"}

Objects == [live : BOOLEAN, size : Nat, tag : Tags, sbo : Seq(Bytes),
            data : PoolBlocks \cup {None}, alloc : Nat, heap : Seq(Bytes)]

Typed ==
    /\ buf \in [Bufs -> Objects]
    /\ mem \in [PoolBlocks -> Seq(Bytes)]
    /\ \A b \in PoolBlocks : Len(mem[b]) = BlockSize[b]
    /\ shelf \in [PoolBlocks -> Nat]
    /\ want \in [Bufs -> Seq(Bytes)]

\* The fields of one object agree.
Sound(r) ==
    /\ Len(r.sbo) = SboSize
    /\ r.tag = "kPool" => /\ r.data \in PoolBlocks /\ r.alloc # 0
                          /\ Class(r.alloc) = BlockSize[r.data] /\ r.size <= BlockSize[r.data]
    /\ r.tag # "kPool" => r.data = None
    /\ r.tag = "kSbo" => r.size <= SboSize
    /\ r.tag = "kHeap" => Len(r.heap) = r.size
    /\ r.tag = "kNone" => r.size = 0
    /\ ~r.live => r.tag = "kNone"

\* A block is out exactly when one object has it, and a free one is filed under its class.
Owned ==
    /\ \A k, j \in Bufs : buf[k].data = buf[j].data /\ buf[k].data # None => k = j
    /\ \A b \in PoolBlocks : shelf[b] = 0 <=> \E k \in Bufs : buf[k].data = b
    /\ \A b \in PoolBlocks : shelf[b] # 0 => Class(shelf[b]) = BlockSize[b]

\* The bytes the owner of k relies on are the first ones of its storage.
Holds ==
    \A k \in Bufs :
        /\ Len(want[k]) <= buf[k].size
        /\ \A i \in 1..Len(want[k]) : Data(buf[k], mem)[i] = want[k][i]

IInv == Typed /\ (\A k \in Bufs : Sound(buf[k])) /\ Owned /\ Holds

-----------------------------------------------------------------------------
(* Bytes *)

\* Most steps are first-order; the ones with arithmetic or sequences say SMT.
USE Zenon

\* A function on 1..n is a sequence of length n.
LEMMA TableIsSeq ==
    ASSUME NEW S, NEW n \in Nat, NEW f \in [1..n -> S]
    PROVE  f \in Seq(S) /\ Len(f) = n
  <1>1. f \in Seq(S)
    BY SMT
  <1>2. Len(f) \in Nat /\ DOMAIN f = 1..Len(f)
    BY SMT, <1>1
  <1>3. 1..Len(f) = 1..n
    BY <1>2
  <1> QED BY SMT, <1>1, <1>2, <1>3

\* A zero-filled array.
LEMMA ZerosFacts ==
    ASSUME NEW n \in Nat
    PROVE  Zeros(n) \in Seq(Bytes) /\ Len(Zeros(n)) = n
  <1>1. Zeros(n) \in [1..n -> Bytes]
    BY BufAssumption DEF Zeros
  <1> QED BY <1>1, TableIsSeq

\* memcpy changes the bytes it copies and not the length.
LEMMA CopiedFacts ==
    ASSUME NEW bytes \in Seq(Bytes), NEW to \in Seq(Bytes)
    PROVE  /\ Copied(bytes, to) \in Seq(Bytes)
           /\ Len(Copied(bytes, to)) = Len(to)
           /\ \A i \in 1..Len(bytes) : i <= Len(to) => Copied(bytes, to)[i] = bytes[i]
  <1>1. /\ Len(to) \in Nat /\ DOMAIN to = 1..Len(to) /\ to \in [1..Len(to) -> Bytes]
        /\ Len(bytes) \in Nat /\ DOMAIN bytes = 1..Len(bytes) /\ bytes \in [1..Len(bytes) -> Bytes]
    BY SMT
  <1>2. Copied(bytes, to) \in [1..Len(to) -> Bytes]
    BY <1>1 DEF Copied
  <1>3. \A i \in 1..Len(bytes) : i <= Len(to) => Copied(bytes, to)[i] = bytes[i]
    BY SMT, <1>1 DEF Copied
  <1> QED BY <1>1, <1>2, <1>3, TableIsSeq

\* The first n bytes of a sequence that has them.
LEMMA FrontFacts ==
    ASSUME NEW s \in Seq(Bytes), NEW n \in Nat, n <= Len(s)
    PROVE  /\ SubSeq(s, 1, n) \in Seq(Bytes) /\ Len(SubSeq(s, 1, n)) = n
           /\ \A i \in 1..n : SubSeq(s, 1, n)[i] = s[i]
  <1>1. Len(s) \in Nat /\ \A i \in 1..Len(s) : s[i] \in Bytes
    BY SMT
  <1>2. \A i \in 1..n : s[i] \in Bytes
    BY SMT, <1>1
  <1>3. /\ SubSeq(s, 1, n) \in Seq(Bytes)
        /\ Len(SubSeq(s, 1, n)) = IF 1 <= n THEN n - 1 + 1 ELSE 0
        /\ \A i \in 1..(n - 1 + 1) : SubSeq(s, 1, n)[i] = s[1 + i - 1]
    BY SMT, <1>2
  <1> QED BY SMT, <1>3

\* The class of a size that some block can hold is the size of such a block.
LEMMA ClassFits ==
    ASSUME NEW n \in Nat, NEW a \in PoolBlocks, n <= BlockSize[a]
    PROVE  n <= Class(n) /\ Class(n) <= BlockSize[a] /\ Class(n) \in Nat
  <1> DEFINE T == {s \in {BlockSize[b] : b \in PoolBlocks} : n <= s}
             R == OpToRel(<, Nat)
  <1>1. IsWellFoundedOn(R, Nat) /\ \A c, d \in Nat : d < c => <<d, c>> \in R
    BY NatLessThanWellFounded DEF OpToRel
  <1>2. T \subseteq Nat /\ T # {}
    BY BufAssumption
  <1> HIDE DEF R
  <1>3. \E s \in T : \A d \in T : ~(<<d, s>> \in R)
    <2> HIDE DEF T
    <2> QED BY <1>1, <1>2, WFMin
  <1>4. PICK s \in T : \A d \in T : ~(<<d, s>> \in R)
    BY <1>3
  <1>5. s \in Nat /\ \A d \in T : s <= d
    <2> HIDE DEF T
    <2>1. s \in Nat /\ \A d \in T : d \in Nat
      BY <1>2
    <2>2. \A d \in T : ~(d < s)
      BY <1>1, <1>4, <2>1
    <2> QED BY SMT, <2>1, <2>2
  <1>6. s \in {BlockSize[b] : b \in PoolBlocks} /\ n <= s
        /\ \A b \in PoolBlocks : n <= BlockSize[b] => s <= BlockSize[b]
    BY <1>4, <1>5
  <1>7. /\ Class(n) \in {BlockSize[b] : b \in PoolBlocks} /\ n <= Class(n)
        /\ \A b \in PoolBlocks : n <= BlockSize[b] => Class(n) <= BlockSize[b]
    BY <1>6 DEF Class
  <1>8. Class(n) \in Nat
    BY <1>7, BufAssumption
  <1> QED BY <1>7, <1>8

\* A block is in the class of its own size.
LEMMA ClassOfBlock == \A b \in PoolBlocks : BlockSize[b] \in Nat \ {0} /\ Class(BlockSize[b]) = BlockSize[b]
  <1> SUFFICES ASSUME NEW b \in PoolBlocks
               PROVE  BlockSize[b] \in Nat \ {0} /\ Class(BlockSize[b]) = BlockSize[b]
    OBVIOUS
  <1>1. BlockSize[b] \in Nat \ {0}
    BY BufAssumption
  <1>2. BlockSize[b] <= BlockSize[b]
    BY SMT, <1>1
  <1>3. /\ BlockSize[b] <= Class(BlockSize[b]) /\ Class(BlockSize[b]) <= BlockSize[b]
        /\ Class(BlockSize[b]) \in Nat
    BY <1>1, <1>2, ClassFits
  <1> QED BY SMT, <1>1, <1>3

\* A pooled size is at most the size of every block in its class.
LEMMA PooledFits ==
    ASSUME NEW n \in Nat, n <= MaxPooled
    PROVE  n <= Class(n) /\ Class(n) \in Nat
  <1>1. PICK a \in PoolBlocks : MaxPooled <= BlockSize[a]
    BY BufAssumption
  <1>2. n <= BlockSize[a]
    BY SMT, <1>1, BufAssumption
  <1> QED BY <1>2, ClassFits

-----------------------------------------------------------------------------
(* Storage *)

\* What Data() is for each tag, and that it can hold size bytes.
LEMMA DataFacts ==
    ASSUME NEW r \in Objects, NEW m \in [PoolBlocks -> Seq(Bytes)], Sound(r),
           \A b \in PoolBlocks : Len(m[b]) = BlockSize[b]
    PROVE  /\ r.tag = "kSbo" => Data(r, m) = r.sbo
           /\ r.tag = "kPool" => Data(r, m) = m[r.data]
           /\ r.tag = "kHeap" => Data(r, m) = r.heap
           /\ r.tag = "kNone" => Data(r, m) = <<>>
           /\ Data(r, m) \in Seq(Bytes)
           /\ r.size <= Len(Data(r, m))
  <1>1. /\ r.tag = "kSbo" => Data(r, m) = r.sbo
        /\ r.tag = "kPool" => Data(r, m) = m[r.data]
        /\ r.tag = "kHeap" => Data(r, m) = r.heap
        /\ r.tag = "kNone" => Data(r, m) = <<>>
    BY DEF Data
  <1>2. r.tag \in Tags /\ r.sbo \in Seq(Bytes) /\ r.heap \in Seq(Bytes) /\ r.size \in Nat
    BY DEF Objects
  <1>3. <<>> \in Seq(Bytes) /\ Len(<<>>) = 0
    BY SMT
  <1>4. Data(r, m) \in Seq(Bytes)
    BY <1>1, <1>2, <1>3 DEF Sound, Tags
  <1>5. r.size <= Len(Data(r, m))
    BY SMT, <1>1, <1>2, <1>3 DEF Sound, Tags
  <1> QED BY <1>1, <1>4, <1>5

\* An object without storage: before its constructor runs, or after DestroyStorage.
Bare(r) == r \in Objects /\ r.tag = "kNone" /\ r.data = None /\ Len(r.sbo) = SboSize

\* AllocateStorage(n) gives the object storage for n bytes; a block it takes is free and
\* in the class of n.
LEMMA AllocateFacts ==
    ASSUME NEW r0, Bare(r0), NEW n \in Nat, NEW free \in [PoolBlocks -> Nat],
           \A b \in PoolBlocks : free[b] # 0 => Class(free[b]) = BlockSize[b],
           r0.live, NEW r \in AllocateStorage(r0, n, free)
    PROVE  /\ r \in Objects /\ Sound(r) /\ r.live /\ r.size = n /\ r.tag # "kNone"
           /\ r.tag = "kPool" => /\ free[r.data] # 0 /\ Taken(r, free) = [free EXCEPT ![r.data] = 0]
                                 /\ n <= BlockSize[r.data]
           /\ r.tag # "kPool" => Taken(r, free) = free
           /\ r.tag # "kSbo" => r.sbo = r0.sbo
  <1> USE DEF Bare
  <1>1. SboSize \in Nat /\ MaxPooled \in Nat /\ None \notin PoolBlocks
    BY BufAssumption
  <1>2. CASE n <= SboSize
    <2>1. r = [r0 EXCEPT !.tag = "kSbo", !.sbo = Zeros(SboSize), !.size = n]
      BY <1>2 DEF AllocateStorage
    <2>2. Zeros(SboSize) \in Seq(Bytes) /\ Len(Zeros(SboSize)) = SboSize
      BY <1>1, ZerosFacts
    <2>3. r \in Objects /\ r.tag = "kSbo" /\ r.sbo = Zeros(SboSize) /\ r.size = n /\ r.data = None /\ r.live
      BY <2>1, <2>2 DEF Objects, Tags
    <2> QED BY <1>2, <2>2, <2>3 DEF Sound, Taken
  <1>3. CASE r = OnHeap(r0, n)
    <2>1. Zeros(n) \in Seq(Bytes) /\ Len(Zeros(n)) = n
      BY ZerosFacts
    <2>2. /\ r \in Objects /\ r.tag = "kHeap" /\ r.heap = Zeros(n) /\ r.size = n /\ r.data = None /\ r.live
          /\ r.sbo = r0.sbo
      BY <1>3, <2>1 DEF Objects, Tags, OnHeap
    <2> QED BY <2>1, <2>2 DEF Sound, Taken
  <1>4. ASSUME ~(n <= SboSize), n <= MaxPooled, NEW b \in FreeBlocks(n, free),
               r = [r0 EXCEPT !.tag = "kPool", !.data = b, !.alloc = n, !.size = n]
        PROVE  /\ r \in Objects /\ Sound(r) /\ r.live /\ r.size = n /\ r.tag # "kNone"
               /\ r.tag = "kPool" => /\ free[r.data] # 0 /\ Taken(r, free) = [free EXCEPT ![r.data] = 0]
                                     /\ n <= BlockSize[r.data]
               /\ r.tag # "kPool" => Taken(r, free) = free
               /\ r.tag # "kSbo" => r.sbo = r0.sbo
    <2>1. b \in PoolBlocks /\ free[b] # 0 /\ Class(n) = BlockSize[b]
      BY DEF FreeBlocks
    <2>2. n <= BlockSize[b]
      BY <1>4, <2>1, PooledFits
    <2>3. /\ r \in Objects /\ r.tag = "kPool" /\ r.data = b /\ r.alloc = n /\ r.size = n /\ r.live
          /\ r.sbo = r0.sbo
      BY <1>4, <2>1 DEF Objects, Tags
    <2>4. n # 0
      BY SMT, <1>1, <1>4
    <2> QED BY <2>1, <2>2, <2>3, <2>4 DEF Sound, Taken
  <1> QED BY <1>2, <1>3, <1>4 DEF AllocateStorage

\* DestroyStorage and Deallocate: the object is bare, and its block is free and filed under
\* its class.
LEMMA DestroyFacts ==
    ASSUME NEW r \in Objects, Sound(r)
    PROVE  Bare(DestroyStorage(r)) /\ DestroyStorage(r).live = r.live /\ DestroyStorage(r).sbo = r.sbo
  <1>1. r.tag \in Tags /\ r.heap \in Seq(Bytes) /\ <<>> \in Seq(Bytes)
    BY SMT DEF Objects
  <1>2. /\ DestroyStorage(r) \in Objects /\ DestroyStorage(r).tag = "kNone"
        /\ DestroyStorage(r).live = r.live /\ DestroyStorage(r).sbo = r.sbo
        /\ DestroyStorage(r).data = IF r.tag = "kPool" THEN None ELSE r.data
    BY <1>1 DEF DestroyStorage, Objects, Tags
  <1> QED BY <1>2 DEF Bare, Sound

\* A moved-from object has no storage, and the object that takes it has all of it.
LEMMA MoveFacts ==
    ASSUME NEW r0, Bare(r0), r0.live, NEW other \in Objects, Sound(other), other.live
    PROVE  LET r == MoveStorageFrom(r0, other)
               o == Moved(other)
           IN  /\ r \in Objects /\ Sound(r) /\ r.live /\ r.size = other.size /\ r.tag = other.tag
               /\ r.data = other.data
               /\ r.tag = "kSbo" => r.sbo = other.sbo
               /\ r.tag = "kHeap" => r.heap = other.heap
               /\ o \in Objects /\ Sound(o) /\ o.live /\ o.size = 0 /\ o.tag = "kNone" /\ o.data = None
  <1>1. /\ other.tag \in Tags /\ other.heap \in Seq(Bytes) /\ <<>> \in Seq(Bytes)
        /\ other.sbo \in Seq(Bytes) /\ other.size \in Nat /\ other.alloc \in Nat
    BY SMT DEF Objects
  <1>2. LET r == MoveStorageFrom(r0, other)
        IN  /\ r \in Objects /\ r.live = r0.live /\ r.size = other.size /\ r.tag = other.tag
            /\ r.sbo = IF other.tag = "kSbo" THEN other.sbo ELSE r0.sbo
            /\ r.data = IF other.tag = "kPool" THEN other.data ELSE r0.data
            /\ r.alloc = IF other.tag = "kPool" THEN other.alloc ELSE r0.alloc
            /\ r.heap = IF other.tag = "kHeap" THEN other.heap ELSE r0.heap
    BY <1>1 DEF Bare, Objects, MoveStorageFrom
  <1>3. LET o == Moved(other)
        IN  /\ o \in Objects /\ o.live = other.live /\ o.size = 0 /\ o.tag = "kNone" /\ o.sbo = other.sbo
            /\ o.data = IF other.tag = "kPool" THEN None ELSE other.data
    BY <1>1 DEF Objects, Moved, Tags
  <1> QED BY SMT, <1>2, <1>3 DEF Bare, Sound

\* Once an object has given its storage back, the blocks that are out are those of the
\* other objects.
LEMMA GivenBackFacts ==
    ASSUME IInv, NEW k \in Bufs
    PROVE  LET free == GivenBack(buf[k], shelf)
           IN  /\ free \in [PoolBlocks -> Nat]
               /\ \A b \in PoolBlocks : free[b] # 0 => Class(free[b]) = BlockSize[b]
               /\ \A b \in PoolBlocks : free[b] = 0 <=> \E j \in Bufs : j # k /\ buf[j].data = b
               /\ buf[k].tag # "kPool" => free = shelf
  <1> DEFINE r == buf[k]
             free == GivenBack(r, shelf)
  <1>1. r \in Objects /\ Sound(r) /\ shelf \in [PoolBlocks -> Nat] /\ None \notin PoolBlocks
    BY BufAssumption DEF IInv, Typed
  <1>2. CASE r.tag # "kPool"
    <2>1. free = shelf /\ r.data = None
      BY <1>1, <1>2 DEF GivenBack, Sound
    <2> QED BY <1>1, <2>1 DEF IInv, Owned
  <1>3. CASE r.tag = "kPool"
    <2>1. /\ r.data \in PoolBlocks /\ r.alloc \in Nat /\ r.alloc # 0 /\ Class(r.alloc) = BlockSize[r.data]
          /\ free = [shelf EXCEPT ![r.data] = r.alloc]
      BY <1>1, <1>3 DEF GivenBack, Sound, Objects
    <2>2. free \in [PoolBlocks -> Nat] /\ \A b \in PoolBlocks : free[b] = IF b = r.data THEN r.alloc ELSE shelf[b]
      BY <1>1, <2>1
    <2>3. \A j \in Bufs : j # k => buf[j].data # r.data
      BY <1>1, <2>1 DEF IInv, Owned
    <2>4. \A b \in PoolBlocks : free[b] # 0 => Class(free[b]) = BlockSize[b]
      BY <2>1, <2>2 DEF IInv, Owned
    <2>5. \A b \in PoolBlocks : free[b] = 0 <=> \E j \in Bufs : j # k /\ buf[j].data = b
      BY <2>1, <2>2, <2>3 DEF IInv, Owned
    <2> QED BY <1>3, <2>2, <2>4, <2>5
  <1> QED BY <1>2, <1>3

\* Giving an object new storage, from what is left when its old storage is given back,
\* keeps one owner per block.
LEMMA ReplacedOwned ==
    ASSUME IInv, NEW k \in Bufs, NEW r \in Objects, Sound(r),
           NEW free, free = GivenBack(buf[k], shelf),
           r.tag = "kPool" => free[r.data] # 0 /\ shelf' = [free EXCEPT ![r.data] = 0],
           r.tag # "kPool" => shelf' = free,
           \A j \in Bufs : buf'[j].data = IF j = k THEN r.data ELSE buf[j].data
    PROVE  Owned' /\ shelf' \in [PoolBlocks -> Nat]
  <1>1. /\ free \in [PoolBlocks -> Nat]
        /\ \A b \in PoolBlocks : free[b] # 0 => Class(free[b]) = BlockSize[b]
        /\ \A b \in PoolBlocks : free[b] = 0 <=> \E j \in Bufs : j # k /\ buf[j].data = b
    BY SMT, GivenBackFacts
  <1>2. None \notin PoolBlocks /\ \A j \in Bufs : buf[j].data \in PoolBlocks \cup {None}
    BY BufAssumption DEF IInv, Typed, Objects
  <1>3. CASE r.tag = "kPool"
    <2>1. r.data \in PoolBlocks
      BY <1>3 DEF Sound
    <2>2. /\ shelf' \in [PoolBlocks -> Nat]
          /\ \A b \in PoolBlocks : shelf'[b] = IF b = r.data THEN 0 ELSE free[b]
      BY SMT, <1>1, <1>3, <2>1
    <2>3. \A j \in Bufs : j # k => buf[j].data # r.data
      BY <1>1, <1>3, <2>1
    <2>4. \A i, j \in Bufs : buf'[i].data = buf'[j].data /\ buf'[i].data # None => i = j
      BY SMT, <2>3 DEF IInv, Owned
    <2>5. \A b \in PoolBlocks : shelf'[b] = 0 <=> \E j \in Bufs : buf'[j].data = b
      BY SMT, <1>1, <2>2, <2>3
    <2>6. \A b \in PoolBlocks : shelf'[b] # 0 => Class(shelf'[b]) = BlockSize[b]
      BY <1>1, <2>2
    <2> QED BY <2>2, <2>4, <2>5, <2>6 DEF Owned
  <1>4. CASE r.tag # "kPool"
    <2>1. r.data = None /\ shelf' = free
      BY <1>4 DEF Sound
    <2>2. \A i, j \in Bufs : buf'[i].data = buf'[j].data /\ buf'[i].data # None => i = j
      BY SMT, <2>1 DEF IInv, Owned
    <2>3. \A b \in PoolBlocks : shelf'[b] = 0 <=> \E j \in Bufs : buf'[j].data = b
      BY SMT, <1>1, <1>2, <2>1
    <2> QED BY <1>1, <2>1, <2>2, <2>3 DEF Owned
  <1> QED BY <1>3, <1>4

\* An object with no storage has an owner who relies on nothing.
LEMMA NoneWanted ==
    ASSUME IInv, NEW k \in Bufs, buf[k].size = 0
    PROVE  want[k] = <<>>
  <1>1. want[k] \in Seq(Bytes) /\ Len(want[k]) <= 0
    BY DEF IInv, Typed, Holds
  <1> QED BY SMT, <1>1

\* The objects a step leaves alone still hold what their owners rely on, if their blocks
\* keep their bytes.
LEMMA OthersHold ==
    ASSUME IInv, NEW j \in Bufs, buf'[j] = buf[j], want'[j] = want[j],
           buf[j].tag = "kPool" => mem'[buf[j].data] = mem[buf[j].data]
    PROVE  /\ Len(want'[j]) <= buf'[j].size
           /\ \A i \in 1..Len(want'[j]) : Data(buf'[j], mem')[i] = want'[j][i]
  <1>1. buf[j].tag \in Tags
    BY DEF IInv, Typed, Objects
  <1>2. Data(buf[j], mem') = Data(buf[j], mem)
    BY <1>1 DEF Data, Tags
  <1> QED BY SMT, <1>2 DEF IInv, Holds

\* No object exists at first and every block is free.
LEMMA InitIInv == Init => IInv
  <1> SUFFICES ASSUME Init PROVE IInv
    OBVIOUS
  <1>1. /\ SboSize \in Nat /\ Zeros(SboSize) \in Seq(Bytes) /\ Len(Zeros(SboSize)) = SboSize
        /\ <<>> \in Seq(Bytes) /\ Len(<<>>) = 0
    BY SMTT(20), BufAssumption, ZerosFacts
  <1>2. Unborn \in Objects /\ Sound(Unborn) /\ Unborn.data = None /\ Unborn.size = 0
    BY <1>1 DEF Unborn, Objects, Sound, Tags
  <1>3. \A b \in PoolBlocks : BlockSize[b] \in Nat \ {0} /\ Class(BlockSize[b]) = BlockSize[b]
    BY ClassOfBlock
  <1>4. \A b \in PoolBlocks : Zeros(BlockSize[b]) \in Seq(Bytes) /\ Len(Zeros(BlockSize[b])) = BlockSize[b]
    BY <1>3, ZerosFacts
  <1>5. Typed
    BY <1>1, <1>2, <1>4, BufAssumption DEF Init, Typed
  <1>6. \A k \in Bufs : Sound(buf[k]) /\ buf[k].data = None /\ buf[k].size = 0 /\ want[k] = <<>>
    BY <1>2 DEF Init
  <1>7. Owned
    BY <1>3, <1>6, BufAssumption DEF Init, Owned
  <1>8. Holds
    BY SMT, <1>1, <1>6 DEF Holds
  <1> QED BY <1>5, <1>6, <1>7, <1>8 DEF IInv

\* A fresh object is bare and alive.
LEMMA FreshFacts == LET r == [Unborn EXCEPT !.live = TRUE] IN Bare(r) /\ r.live
  <1>1. SboSize \in Nat /\ Zeros(SboSize) \in Seq(Bytes) /\ Len(Zeros(SboSize)) = SboSize /\ <<>> \in Seq(Bytes)
    BY SMTT(20), BufAssumption, ZerosFacts
  <1> QED BY <1>1 DEF Unborn, Bare, Objects, Tags

\* KernelBuf(sz).
LEMMA ConstructIInv ==
    ASSUME IInv, NEW k \in Bufs, NEW n \in Sizes, Construct(k, n)
    PROVE  IInv'
  <1> DEFINE fresh == [Unborn EXCEPT !.live = TRUE]
  <1>1. n \in Nat /\ Bare(fresh) /\ fresh.live
    BY FreshFacts, BufAssumption
  <1>2. /\ shelf = GivenBack(buf[k], shelf) /\ shelf \in [PoolBlocks -> Nat]
        /\ \A b \in PoolBlocks : shelf[b] # 0 => Class(shelf[b]) = BlockSize[b]
    BY GivenBackFacts DEF Construct, IInv, Typed, Owned, Sound, GivenBack
  <1> HIDE DEF fresh
  <1>3. PICK r \in AllocateStorage(fresh, n, shelf) : buf' = [buf EXCEPT ![k] = r] /\ shelf' = Taken(r, shelf)
    BY DEF Construct, fresh
  <1>4. /\ r \in Objects /\ Sound(r) /\ r.size = n
        /\ r.tag = "kPool" => shelf[r.data] # 0 /\ shelf' = [shelf EXCEPT ![r.data] = 0]
        /\ r.tag # "kPool" => shelf' = shelf
    BY SMT, <1>1, <1>2, <1>3, AllocateFacts
  <1>5. \A j \in Bufs : buf'[j] = IF j = k THEN r ELSE buf[j]
    BY <1>3 DEF IInv, Typed
  <1>6. mem' = mem /\ want' = [want EXCEPT ![k] = <<>>]
    BY DEF Construct
  <1>7. \A j \in Bufs : want'[j] = IF j = k THEN <<>> ELSE want[j]
    BY <1>6 DEF IInv, Typed
  <1>8. Owned' /\ shelf' \in [PoolBlocks -> Nat]
    BY SMT, <1>2, <1>4, <1>5, ReplacedOwned
  <1>9. <<>> \in Seq(Bytes) /\ Len(<<>>) = 0
    BY SMT
  <1>10. Typed'
    BY <1>3, <1>4, <1>6, <1>8, <1>9 DEF IInv, Typed
  <1>11. \A j \in Bufs : Sound(buf[j])'
    BY <1>4, <1>5 DEF IInv
  <1>12. Holds'
    <2>1. \A j \in Bufs \ {k} : /\ Len(want'[j]) <= buf'[j].size
                                /\ \A i \in 1..Len(want'[j]) : Data(buf'[j], mem')[i] = want'[j][i]
      BY SMT, <1>5, <1>6, <1>7, OthersHold
    <2>2. want'[k] = <<>> /\ buf'[k].size = n
      BY <1>4, <1>5, <1>7
    <2> QED BY SMT, <1>1, <1>9, <2>1, <2>2 DEF Holds
  <1> QED BY <1>8, <1>10, <1>11, <1>12 DEF IInv

\* Both moves: k gives its storage back and takes the storage of o.
LEMMA MoveIInv ==
    ASSUME IInv, NEW k \in Bufs, NEW o \in Bufs, k # o, buf[o].live, NEW r0, Bare(r0), r0.live,
           buf' = [buf EXCEPT ![k] = MoveStorageFrom(r0, buf[o]), ![o] = Moved(buf[o])],
           shelf' = GivenBack(buf[k], shelf), mem' = mem,
           want' = [want EXCEPT ![k] = want[o], ![o] = <<>>]
    PROVE  IInv'
  <1> DEFINE old == buf[o]
             r == MoveStorageFrom(r0, old)
             left == Moved(old)
  <1>1. old \in Objects /\ Sound(old)
    BY DEF IInv, Typed
  <1>2. /\ r \in Objects /\ Sound(r) /\ r.size = old.size /\ r.tag = old.tag /\ r.data = old.data
        /\ r.tag = "kSbo" => r.sbo = old.sbo
        /\ r.tag = "kHeap" => r.heap = old.heap
        /\ left \in Objects /\ Sound(left) /\ left.size = 0 /\ left.data = None
    BY SMT, <1>1, MoveFacts
  <1>3. /\ \A j \in Bufs : buf'[j] = IF j = o THEN left ELSE IF j = k THEN r ELSE buf[j]
        /\ buf' \in [Bufs -> Objects]
    BY <1>2 DEF IInv, Typed
  <1>4. /\ \A j \in Bufs : want'[j] = IF j = o THEN <<>> ELSE IF j = k THEN want[o] ELSE want[j]
        /\ want' \in [Bufs -> Seq(Bytes)] /\ Len(<<>>) = 0
    <2>1. <<>> \in Seq(Bytes) /\ Len(<<>>) = 0
      BY SMT
    <2> QED BY <2>1 DEF IInv, Typed
  <1> HIDE DEF r, left
  <1>5. /\ shelf' \in [PoolBlocks -> Nat]
        /\ \A b \in PoolBlocks : shelf'[b] # 0 => Class(shelf'[b]) = BlockSize[b]
        /\ \A b \in PoolBlocks : shelf'[b] = 0 <=> \E j \in Bufs : j # k /\ buf[j].data = b
    BY SMT, GivenBackFacts
  <1>6. Typed'
    BY <1>3, <1>4, <1>5 DEF IInv, Typed
  <1>7. \A j \in Bufs : Sound(buf[j])'
    BY <1>2, <1>3 DEF IInv
  <1>8. Owned'
    <2>1. \A j \in Bufs : buf'[j].data = IF j = o THEN None ELSE IF j = k THEN old.data ELSE buf[j].data
      BY <1>2, <1>3
    <2>2. \A i, j \in Bufs : buf'[i].data = buf'[j].data /\ buf'[i].data # None => i = j
      BY SMT, <2>1 DEF IInv, Owned
    <2>3. \A b \in PoolBlocks : (\E j \in Bufs : buf'[j].data = b) <=> \E j \in Bufs : j # k /\ buf[j].data = b
      <3>1. None \notin PoolBlocks
        BY BufAssumption
      <3> QED BY ZenonT(30), <2>1, <3>1
    <2> QED BY <1>5, <2>2, <2>3 DEF Owned
  <1>9. Holds'
    <2>1. \A j \in Bufs \ {k, o} : /\ Len(want'[j]) <= buf'[j].size
                                   /\ \A i \in 1..Len(want'[j]) : Data(buf'[j], mem')[i] = want'[j][i]
      BY SMT, <1>3, <1>4, OthersHold
    <2>2. want'[o] = <<>> /\ buf'[o].size = 0
      BY <1>2, <1>3, <1>4
    <2>3. Data(buf'[k], mem') = Data(old, mem) /\ want'[k] = want[o] /\ buf'[k].size = old.size
      <3>1. buf'[k] = r /\ old.tag \in Tags
        BY <1>1, <1>3 DEF Objects
      <3>2. Data(r, mem) = Data(old, mem)
        BY SMT, <1>2, <3>1 DEF Data, Tags
      <3> QED BY <1>2, <1>4, <3>1, <3>2
    <2>4. Len(want[o]) <= old.size /\ \A i \in 1..Len(want[o]) : Data(old, mem)[i] = want[o][i]
      BY DEF IInv, Holds
    <2>5. /\ Len(want'[k]) <= buf'[k].size
          /\ \A i \in 1..Len(want'[k]) : Data(buf'[k], mem')[i] = want'[k][i]
      BY <2>3, <2>4
    <2>6. /\ Len(want'[o]) <= buf'[o].size
          /\ \A i \in 1..Len(want'[o]) : Data(buf'[o], mem')[i] = want'[o][i]
      BY SMT, <1>4, <2>2
    <2>7. ASSUME NEW j \in Bufs
          PROVE  /\ Len(want'[j]) <= buf'[j].size
                 /\ \A i \in 1..Len(want'[j]) : Data(buf'[j], mem')[i] = want'[j][i]
      <3>1. CASE j \in Bufs \ {k, o}
        BY <2>1, <3>1
      <3>2. CASE j = k
        BY <2>5, <3>2
      <3>3. CASE j = o
        BY <2>6, <3>3
      <3> QED BY <3>1, <3>2, <3>3
    <2> QED BY <2>7 DEF Holds
  <1> QED BY <1>6, <1>7, <1>8, <1>9 DEF IInv

\* KernelBuf(KernelBuf&&).
LEMMA MoveConstructIInv ==
    ASSUME IInv, NEW k \in Bufs, NEW o \in Bufs, MoveConstruct(k, o)
    PROVE  IInv'
  <1> DEFINE fresh == [Unborn EXCEPT !.live = TRUE]
  <1>1. Bare(fresh) /\ fresh.live
    BY FreshFacts
  <1>2. ~buf[k].live /\ buf[o].live /\ k # o
    BY DEF MoveConstruct
  <1>3. shelf = GivenBack(buf[k], shelf)
    BY <1>2 DEF IInv, Sound, GivenBack
  <1>4. /\ buf' = [buf EXCEPT ![k] = MoveStorageFrom(fresh, buf[o]), ![o] = Moved(buf[o])]
        /\ want' = [want EXCEPT ![k] = want[o], ![o] = <<>>] /\ mem' = mem /\ shelf' = shelf
    BY DEF MoveConstruct
  <1> HIDE DEF fresh
  <1> QED BY <1>1, <1>2, <1>3, <1>4, MoveIInv

\* operator=(KernelBuf&&).
LEMMA MoveAssignIInv ==
    ASSUME IInv, NEW k \in Bufs, NEW o \in Bufs, MoveAssign(k, o)
    PROVE  IInv'
  <1> DEFINE bare == DestroyStorage(buf[k])
  <1>1. k # o /\ buf[k].live /\ buf[o].live
    BY DEF MoveAssign
  <1>2. Bare(bare) /\ bare.live
    BY <1>1, DestroyFacts DEF IInv, Typed
  <1>3. /\ buf' = [buf EXCEPT ![k] = MoveStorageFrom(bare, buf[o]), ![o] = Moved(buf[o])]
        /\ want' = [want EXCEPT ![k] = want[o], ![o] = <<>>] /\ mem' = mem
        /\ shelf' = GivenBack(buf[k], shelf)
    BY DEF MoveAssign
  <1> HIDE DEF bare
  <1> QED BY <1>1, <1>2, <1>3, MoveIInv

\* ~KernelBuf.
LEMMA DestructIInv ==
    ASSUME IInv, NEW k \in Bufs, Destruct(k)
    PROVE  IInv'
  <1>1. /\ SboSize \in Nat /\ Zeros(SboSize) \in Seq(Bytes) /\ Len(Zeros(SboSize)) = SboSize
        /\ <<>> \in Seq(Bytes) /\ Len(<<>>) = 0
    BY SMTT(20), BufAssumption, ZerosFacts
  <1>2. Unborn \in Objects /\ Sound(Unborn) /\ Unborn.tag = "kNone" /\ Unborn.size = 0
    BY <1>1 DEF Unborn, Objects, Sound, Tags
  <1>3. /\ buf' = [buf EXCEPT ![k] = Unborn] /\ want' = [want EXCEPT ![k] = <<>>] /\ mem' = mem
        /\ shelf' = GivenBack(buf[k], shelf)
    BY DEF Destruct
  <1>4. /\ \A j \in Bufs : buf'[j] = IF j = k THEN Unborn ELSE buf[j]
        /\ \A j \in Bufs : want'[j] = IF j = k THEN <<>> ELSE want[j]
    BY <1>3 DEF IInv, Typed
  <1>5. Owned' /\ shelf' \in [PoolBlocks -> Nat]
    <2>1. \A j \in Bufs : buf'[j].data = IF j = k THEN Unborn.data ELSE buf[j].data
      BY <1>4
    <2>2. /\ Unborn.tag = "kPool" => shelf'[Unborn.data] # 0 /\ shelf' = [shelf' EXCEPT ![Unborn.data] = 0]
          /\ Unborn.tag # "kPool" => shelf' = GivenBack(buf[k], shelf)
      BY <1>2, <1>3
    <2> QED BY <1>2, <1>3, <2>1, <2>2, ReplacedOwned
  <1>6. Typed'
    BY <1>1, <1>2, <1>3, <1>5 DEF IInv, Typed
  <1>7. \A j \in Bufs : Sound(buf[j])'
    BY <1>2, <1>4 DEF IInv
  <1>8. Holds'
    <2>1. \A j \in Bufs \ {k} : /\ Len(want'[j]) <= buf'[j].size
                                /\ \A i \in 1..Len(want'[j]) : Data(buf'[j], mem')[i] = want'[j][i]
      BY SMT, <1>3, <1>4, OthersHold
    <2>2. want'[k] = <<>> /\ buf'[k].size = 0
      BY <1>2, <1>4
    <2> QED BY SMT, <1>1, <2>1, <2>2 DEF Holds
  <1> QED BY <1>5, <1>6, <1>7, <1>8 DEF IInv

\* Bytes written through Data(): the object, whose vector has become heap, and the blocks.
Stored(r, bytes, heap) ==
    [r EXCEPT !.sbo = IF r.tag = "kSbo" THEN Copied(bytes, @) ELSE @, !.heap = heap]
StoredIn(r, bytes, m) ==
    IF r.tag = "kPool" THEN [m EXCEPT ![r.data] = Copied(bytes, @)] ELSE m

\* What the vector has become: it begins with the bytes when r is on the heap.
InHeap(r, bytes, heap) ==
    /\ heap \in Seq(Bytes)
    /\ r.tag # "kHeap" => heap = r.heap
    /\ r.tag = "kHeap" => /\ Len(heap) = Len(r.heap)
                          /\ \A i \in 1..Len(bytes) : i <= Len(heap) => heap[i] = bytes[i]

\* Every block has its size.
FullBlocks(m) == m \in [PoolBlocks -> Seq(Bytes)] /\ \A b \in PoolBlocks : Len(m[b]) = BlockSize[b]

\* The object r and the blocks m became r2 and m2 when bytes were written to r.
Written(r, bytes, r2, m, m2) ==
    /\ r2 \in Objects /\ Sound(r2) /\ r2.size = r.size /\ r2.data = r.data /\ FullBlocks(m2)
    /\ \A b \in PoolBlocks : ~(r.tag = "kPool" /\ b = r.data) => m2[b] = m[b]
    /\ \A i \in 1..Len(bytes) : i <= r.size => Data(r2, m2)[i] = bytes[i]

\* Writing changes the inline bytes, the vector or the block of r, and no other block.
LEMMA StoredFacts ==
    ASSUME NEW r \in Objects, Sound(r), r.tag # "kNone", NEW bytes \in Seq(Bytes),
           NEW m, FullBlocks(m), NEW heap, InHeap(r, bytes, heap)
    PROVE  Written(r, bytes, Stored(r, bytes, heap), m, StoredIn(r, bytes, m))
  <1> DEFINE sbo == IF r.tag = "kSbo" THEN Copied(bytes, r.sbo) ELSE r.sbo
             r2 == Stored(r, bytes, heap)
             m2 == StoredIn(r, bytes, m)
  <1>1. r.sbo \in Seq(Bytes) /\ r.heap \in Seq(Bytes) /\ r.tag \in Tags /\ r.size \in Nat
    BY DEF Objects
  <1> USE DEF InHeap, FullBlocks
  <1>2. /\ Copied(bytes, r.sbo) \in Seq(Bytes) /\ Len(Copied(bytes, r.sbo)) = Len(r.sbo)
        /\ \A i \in 1..Len(bytes) : i <= Len(r.sbo) => Copied(bytes, r.sbo)[i] = bytes[i]
    BY <1>1, CopiedFacts
  <1>3. sbo \in Seq(Bytes) /\ Len(sbo) = SboSize
    BY <1>1, <1>2 DEF Sound
  <1>4. /\ r2 \in Objects /\ r2.live = r.live /\ r2.size = r.size /\ r2.tag = r.tag /\ r2.data = r.data
        /\ r2.alloc = r.alloc /\ r2.sbo = sbo /\ r2.heap = heap
    BY <1>3 DEF Objects, Stored
  <1>. HIDE DEF r2, sbo
  <1>5. Sound(r2)
    BY <1>3, <1>4 DEF Sound
  <1>6. /\ m2 \in [PoolBlocks -> Seq(Bytes)] /\ \A b \in PoolBlocks : Len(m2[b]) = BlockSize[b]
        /\ \A b \in PoolBlocks : ~(r.tag = "kPool" /\ b = r.data) => m2[b] = m[b]
        /\ r.tag = "kPool" => \A i \in 1..Len(bytes) : i <= BlockSize[r.data] => m2[r.data][i] = bytes[i]
    <2>1. CASE r.tag # "kPool"
      BY <2>1 DEF StoredIn
    <2>2. CASE r.tag = "kPool"
      <3>1. r.data \in PoolBlocks
        BY <2>2 DEF Sound
      <3>2. /\ Copied(bytes, m[r.data]) \in Seq(Bytes) /\ Len(Copied(bytes, m[r.data])) = Len(m[r.data])
            /\ \A i \in 1..Len(bytes) : i <= Len(m[r.data]) => Copied(bytes, m[r.data])[i] = bytes[i]
        BY SMT, <3>1, CopiedFacts
      <3>3. m2 = [m EXCEPT ![r.data] = Copied(bytes, m[r.data])]
        BY <2>2 DEF StoredIn
      <3> HIDE DEF m2
      <3> QED BY <2>2, <3>1, <3>2, <3>3
    <2> QED BY <2>1, <2>2
  <1> HIDE DEF m2
  <1>7a. r.size \in Nat
    BY <1>1
  <1>7. \A i \in 1..Len(bytes) : i <= r.size => Data(r2, m2)[i] = bytes[i]
    <2>1. Len(bytes) \in Nat /\ SboSize \in Nat /\ \A b \in PoolBlocks : BlockSize[b] \in Nat
      BY SMT, BufAssumption
    <2>2. CASE r.tag = "kSbo"
      <3>1. Data(r2, m2) = Copied(bytes, r.sbo) /\ r.size <= Len(r.sbo) /\ Len(r.sbo) \in Nat
        BY <1>1, <1>4, <2>1, <2>2 DEF Data, Sound, sbo
      <3>2. ASSUME NEW i \in 1..Len(bytes), i <= r.size PROVE Data(r2, m2)[i] = bytes[i]
        <4>1. i <= Len(r.sbo)
          BY SMTT(20), <1>7a, <2>1, <3>1, <3>2
        <4> QED BY <1>1, <1>2, <2>1, <3>1, <4>1
      <3> QED BY <3>2
    <2>3. CASE r.tag = "kHeap"
      <3>1. Data(r2, m2) = heap /\ r.size <= Len(heap) /\ Len(heap) \in Nat
        BY SMT, <1>1, <1>4, <2>1, <2>3 DEF Data, Sound
      <3>2. ASSUME NEW i \in 1..Len(bytes), i <= r.size PROVE Data(r2, m2)[i] = bytes[i]
        <4>1. i <= Len(heap)
          BY SMTT(20), <1>7a, <2>1, <3>1, <3>2
        <4> QED BY <1>1, <2>1, <2>3, <3>1, <4>1
      <3> QED BY <3>2
    <2>4. CASE r.tag = "kPool"
      <3>1. Data(r2, m2) = m2[r.data] /\ r.size <= BlockSize[r.data] /\ r.data \in PoolBlocks
        BY <1>4, <2>4 DEF Data, Sound
      <3> QED BY SMT, <1>1, <1>6, <2>1, <2>4, <3>1
    <2>5. r.tag = "kSbo" \/ r.tag = "kHeap" \/ r.tag = "kPool"
      BY <1>1 DEF Tags
    <2> QED BY <2>2, <2>3, <2>4, <2>5
  <1>8. Written(r, bytes, r2, m, m2)
    BY <1>4, <1>5, <1>6, <1>7 DEF Written
  <1> QED BY <1>8 DEF r2, m2

\* The owner or the kernel fills the buffer.
LEMMA FillIInv ==
    ASSUME IInv, NEW k \in Bufs, NEW v \in Bytes, Fill(k, v)
    PROVE  IInv'
  <1> DEFINE r == buf[k]
             bytes == [i \in 1..r.size |-> v]
             heap == IF r.tag = "kHeap" THEN bytes ELSE r.heap
             r2 == Stored(r, bytes, heap)
  <1>1. r \in Objects /\ Sound(r) /\ r.tag # "kNone" /\ r.live /\ r.size \in Nat
    BY DEF Fill, IInv, Typed, Objects
  <1>2. bytes \in [1..r.size -> Bytes]
    OBVIOUS
  <1>3. bytes \in Seq(Bytes) /\ Len(bytes) = r.size
    BY SMT, <1>1, <1>2, TableIsSeq
  <1>4. /\ want' = [want EXCEPT ![k] = bytes] /\ shelf' = shelf
        /\ mem' = StoredIn(r, bytes, mem)
        /\ buf' = [buf EXCEPT ![k] = r2]
    BY DEF Fill, IInv, Typed, Objects, Stored, StoredIn
  <1>5. FullBlocks(mem)
    BY DEF IInv, Typed, FullBlocks
  <1> HIDE DEF bytes
  <1>6. InHeap(r, bytes, heap)
    BY <1>1, <1>3 DEF Sound, Objects, InHeap
  <1> HIDE DEF r, heap
  <1>7. /\ r2 \in Objects /\ Sound(r2) /\ r2.size = r.size /\ r2.data = r.data /\ FullBlocks(mem')
        /\ \A b \in PoolBlocks : ~(r.tag = "kPool" /\ b = r.data) => mem'[b] = mem[b]
        /\ \A i \in 1..Len(bytes) : i <= r.size => Data(r2, mem')[i] = bytes[i]
    <2>1. mem' = StoredIn(r, bytes, mem)
      BY <1>4
    <2>2. Written(r, bytes, r2, mem, StoredIn(r, bytes, mem))
      BY <1>1, <1>3, <1>5, <1>6, StoredFacts
    <2> HIDE DEF r2
    <2>3. Written(r, bytes, r2, mem, mem')
      BY <2>1, <2>2
    <2> QED BY <2>3 DEF Written
  <1> HIDE DEF r2
  <1>8. /\ \A j \in Bufs : buf'[j] = IF j = k THEN r2 ELSE buf[j]
        /\ \A j \in Bufs : want'[j] = IF j = k THEN bytes ELSE want[j]
    BY <1>4 DEF IInv, Typed
  <1>9. Typed'
    BY <1>3, <1>4, <1>7 DEF IInv, Typed, FullBlocks
  <1>10. \A j \in Bufs : Sound(buf[j])'
    BY <1>7, <1>8 DEF IInv
  <1>11. Owned'
    <2>1. \A j \in Bufs : buf'[j].data = buf[j].data
      BY <1>7, <1>8 DEF r
    <2> QED BY SMT, <1>4, <2>1 DEF IInv, Owned
  <1>12. Holds'
    <2>1. ASSUME NEW j \in Bufs, j # k
          PROVE  /\ Len(want'[j]) <= buf'[j].size
                 /\ \A i \in 1..Len(want'[j]) : Data(buf'[j], mem')[i] = want'[j][i]
      <3>1. buf[j].tag = "kPool" => buf[j].data \in PoolBlocks /\ buf[j].data # r.data
        BY SMT, <1>1, <2>1, BufAssumption DEF IInv, Sound, Owned, r
      <3>2. buf[j].tag = "kPool" => mem'[buf[j].data] = mem[buf[j].data]
        BY <1>7, <3>1
      <3> QED BY <1>8, <2>1, <3>2, OthersHold
    <2>2. /\ Len(want'[k]) <= buf'[k].size
          /\ \A i \in 1..Len(want'[k]) : Data(buf'[k], mem')[i] = want'[k][i]
      <3>1. want'[k] = bytes /\ buf'[k] = r2
        BY <1>8
      <3> QED BY SMT, <1>1, <1>3, <1>7, <3>1
    <2> QED BY <2>1, <2>2 DEF Holds
  <1> QED BY <1>9, <1>10, <1>11, <1>12 DEF IInv

\* Whether Resize reads the old bytes where they were.
Readable(old, r) == ~(old.tag = "kHeap" \/ (old.tag = "kSbo" /\ r.tag = "kSbo"))

\* The bytes Resize copies, once the object has become r.
LEMMA OldBytesFacts ==
    ASSUME IInv, NEW k \in Bufs, NEW r \in Objects, Sound(r), r.tag # "kSbo" => r.sbo = buf[k].sbo,
           NEW n \in Nat, n <= buf[k].size, NEW bytes \in OldBytes(buf[k], r, n)
    PROVE  /\ bytes \in Seq(Bytes) /\ Len(bytes) = n
           /\ Readable(buf[k], r) => \A i \in 1..n : bytes[i] = Data(buf[k], mem)[i]
  <1> DEFINE old == buf[k]
  <1>1. /\ old \in Objects /\ Sound(old) /\ old.tag \in Tags /\ old.size \in Nat
        /\ mem \in [PoolBlocks -> Seq(Bytes)] /\ \A b \in PoolBlocks : Len(mem[b]) = BlockSize[b]
    BY DEF IInv, Typed, Objects
  <1>2. /\ old.tag = "kSbo" => Data(old, mem) = old.sbo
        /\ old.tag = "kPool" => Data(old, mem) = mem[old.data]
    BY <1>1, DataFacts
  <1>3. r.sbo \in Seq(Bytes) /\ Len(r.sbo) = SboSize /\ SboSize \in Nat
    BY BufAssumption DEF Objects, Sound
  <1>4. CASE old.tag = "kSbo"
    <2>1. n <= Len(r.sbo) /\ bytes = SubSeq(r.sbo, 1, n)
      BY SMT, <1>1, <1>3, <1>4 DEF Sound, OldBytes
    <2>2. /\ bytes \in Seq(Bytes) /\ Len(bytes) = n /\ \A i \in 1..n : bytes[i] = r.sbo[i]
      BY <1>3, <2>1, FrontFacts
    <2> QED BY <1>2, <1>4, <2>2 DEF Readable
  <1>5. CASE old.tag = "kPool"
    <2>1. old.data \in PoolBlocks /\ old.size <= BlockSize[old.data]
      BY <1>1, <1>5 DEF Sound
    <2>2. mem[old.data] \in Seq(Bytes) /\ n <= Len(mem[old.data]) /\ bytes = SubSeq(mem[old.data], 1, n)
      BY SMT, <1>1, <1>5, <2>1, BufAssumption DEF OldBytes
    <2>3. bytes \in Seq(Bytes) /\ Len(bytes) = n /\ \A i \in 1..n : bytes[i] = mem[old.data][i]
      BY <2>2, FrontFacts
    <2> QED BY <1>2, <1>5, <2>3
  <1>6. CASE old.tag = "kHeap"
    <2>1. bytes \in [1..n -> Bytes]
      BY <1>6 DEF OldBytes
    <2> QED BY <1>6, <2>1, TableIsSeq DEF Readable
  <1>7. CASE old.tag = "kNone"
    <2>1. n = 0 /\ bytes = <<>>
      BY SMT, <1>1, <1>7 DEF Sound, OldBytes
    <2> QED BY SMT, <2>1
  <1> QED BY <1>1, <1>4, <1>5, <1>6, <1>7 DEF Tags

\* The owner goes on relying on a prefix of the bytes, and only on bytes that Resize reads.
LEMMA ReliedFacts ==
    ASSUME NEW w \in Seq(Bytes), NEW old, NEW r, NEW n \in Nat
    PROVE  LET v == Relied(w, old, r, n)
           IN  /\ v \in Seq(Bytes) /\ Len(v) <= n /\ Len(v) <= Len(w)
               /\ Len(v) # 0 => Readable(old, r)
               /\ \A i \in 1..Len(v) : v[i] = w[i]
  <1> DEFINE m == IF n < Len(w) THEN n ELSE Len(w)
  <1>1. Len(w) \in Nat /\ m \in Nat /\ m <= n /\ m <= Len(w)
    BY SMT
  <1> HIDE DEF m
  <1>2. /\ SubSeq(w, 1, m) \in Seq(Bytes) /\ Len(SubSeq(w, 1, m)) = m
        /\ \A i \in 1..m : SubSeq(w, 1, m)[i] = w[i]
    BY <1>1, FrontFacts
  <1>3. CASE Readable(old, r)
    <2>1. Relied(w, old, r, n) = SubSeq(w, 1, m)
      BY <1>3 DEF Relied, Readable, m
    <2> QED BY <1>1, <1>2, <1>3, <2>1
  <1>4. CASE ~Readable(old, r)
    <2>1. Relied(w, old, r, n) = <<>>
      BY <1>4 DEF Relied, Readable
    <2> QED BY SMT, <1>1, <2>1
  <1> QED BY <1>3, <1>4

\* Resize.
LEMMA ResizeIInv ==
    ASSUME IInv, NEW k \in Bufs, NEW n \in Sizes, Resize(k, n)
    PROVE  IInv'
  <1> DEFINE old == buf[k]
             copy == IF n < old.size THEN n ELSE old.size
             free == GivenBack(old, shelf)
  <1>1. old \in Objects /\ Sound(old) /\ old.size \in Nat /\ n \in Nat /\ old.live
    BY BufAssumption DEF IInv, Typed, Objects, Resize
  <1>2. copy \in Nat /\ copy <= n /\ copy <= old.size
    BY SMT, <1>1
  <1>3. /\ free \in [PoolBlocks -> Nat]
        /\ \A b \in PoolBlocks : free[b] # 0 => Class(free[b]) = BlockSize[b]
        /\ \A b \in PoolBlocks : free[b] = 0 <=> \E j \in Bufs : j # k /\ buf[j].data = b
    BY GivenBackFacts
  <1>4. Bare(DestroyStorage(old)) /\ DestroyStorage(old).live /\ DestroyStorage(old).sbo = old.sbo
    BY <1>1, DestroyFacts
  <1> DEFINE Resized(r, bytes) ==
              /\ shelf' = Taken(r, free)
              /\ buf' = [buf EXCEPT ![k] =
                           [r EXCEPT !.sbo = IF r.tag = "kSbo" THEN Copied(bytes, @) ELSE @,
                                     !.heap = IF r.tag = "kHeap" THEN Copied(bytes, @) ELSE @]]
              /\ mem' = IF r.tag = "kPool" THEN [mem EXCEPT ![r.data] = Copied(bytes, @)] ELSE mem
              /\ want' = [want EXCEPT ![k] = Relied(@, old, r, n)]
  <1>4a. PICK r \in AllocateStorage(DestroyStorage(old), n, free) :
            \E bytes \in OldBytes(old, r, copy) : Resized(r, bytes)
    BY DEF Resize
  <1>5. PICK bytes \in OldBytes(old, r, copy) : Resized(r, bytes)
    BY <1>4a
  <1>6. /\ r \in Objects /\ Sound(r) /\ r.live /\ r.size = n /\ r.tag # "kNone"
        /\ r.tag = "kPool" => free[r.data] # 0 /\ shelf' = [free EXCEPT ![r.data] = 0]
        /\ r.tag # "kPool" => shelf' = free
        /\ r.tag # "kSbo" => r.sbo = old.sbo
    <2>1. shelf' = Taken(r, free)
      BY <1>5
    <2> HIDE DEF free, old
    <2> QED BY SMT, <1>1, <1>3, <1>4, <2>1, AllocateFacts
  <1>7. /\ bytes \in Seq(Bytes) /\ Len(bytes) = copy
        /\ Readable(old, r) => \A i \in 1..copy : bytes[i] = Data(old, mem)[i]
    <2> HIDE DEF copy
    <2> QED BY SMT, <1>2, <1>6, OldBytesFacts
  <1> DEFINE heap == IF r.tag = "kHeap" THEN Copied(bytes, r.heap) ELSE r.heap
             r2 == Stored(r, bytes, heap)
             w == Relied(want[k], old, r, n)
  <1>8. InHeap(r, bytes, heap) /\ FullBlocks(mem)
    <2>1. r.heap \in Seq(Bytes)
      BY <1>6 DEF Objects
    <2>2. /\ Copied(bytes, r.heap) \in Seq(Bytes) /\ Len(Copied(bytes, r.heap)) = Len(r.heap)
          /\ \A i \in 1..Len(bytes) : i <= Len(r.heap) => Copied(bytes, r.heap)[i] = bytes[i]
      BY <1>7, <2>1, CopiedFacts
    <2> QED BY <2>1, <2>2 DEF InHeap, FullBlocks, IInv, Typed
  <1>9. /\ buf' = [buf EXCEPT ![k] = r2] /\ mem' = StoredIn(r, bytes, mem)
        /\ want' = [want EXCEPT ![k] = w]
    BY <1>5, <1>6 DEF IInv, Typed, Objects, Stored, StoredIn
  <1> HIDE DEF old, copy, free, heap
  <1>10. /\ r2 \in Objects /\ Sound(r2) /\ r2.size = r.size /\ r2.data = r.data /\ FullBlocks(mem')
         /\ \A b \in PoolBlocks : ~(r.tag = "kPool" /\ b = r.data) => mem'[b] = mem[b]
         /\ \A i \in 1..Len(bytes) : i <= r.size => Data(r2, mem')[i] = bytes[i]
    <2>1. mem' = StoredIn(r, bytes, mem)
      BY <1>9
    <2>2. r \in Objects /\ Sound(r) /\ r.tag # "kNone" /\ bytes \in Seq(Bytes)
      BY <1>6, <1>7
    <2>3. Written(r, bytes, r2, mem, StoredIn(r, bytes, mem))
      BY <1>8, <2>2, StoredFacts
    <2> HIDE DEF r2
    <2>4. Written(r, bytes, r2, mem, mem')
      BY <2>1, <2>3
    <2> QED BY <2>4 DEF Written
  <1>11. /\ want[k] \in Seq(Bytes) /\ Len(want[k]) <= old.size
         /\ \A i \in 1..Len(want[k]) : Data(old, mem)[i] = want[k][i]
    BY DEF IInv, Typed, Holds, old
  <1>12. /\ w \in Seq(Bytes) /\ Len(w) <= n /\ Len(w) <= Len(want[k])
         /\ Len(w) # 0 => Readable(old, r)
         /\ \A i \in 1..Len(w) : w[i] = want[k][i]
    <2>1. want[k] \in Seq(Bytes) /\ n \in Nat
      BY <1>1, <1>11
    <2> QED BY SMT, <2>1, ReliedFacts
  <1> HIDE DEF r2, w
  <1>13. /\ \A j \in Bufs : buf'[j] = IF j = k THEN r2 ELSE buf[j]
         /\ \A j \in Bufs : want'[j] = IF j = k THEN w ELSE want[j]
    BY <1>9 DEF IInv, Typed
  <1>14. Owned' /\ shelf' \in [PoolBlocks -> Nat]
    <2>1. \A j \in Bufs : buf'[j].data = IF j = k THEN r.data ELSE buf[j].data
      BY <1>10, <1>13
    <2> QED BY SMT, <1>6, <2>1, ReplacedOwned DEF free, old
  <1>15. Typed'
    BY <1>9, <1>10, <1>12, <1>14 DEF IInv, Typed, FullBlocks
  <1>16. \A j \in Bufs : Sound(buf[j])'
    BY <1>10, <1>13 DEF IInv
  <1>17. ASSUME NEW j \in Bufs, j # k
         PROVE  /\ Len(want'[j]) <= buf'[j].size
                /\ \A i \in 1..Len(want'[j]) : Data(buf'[j], mem')[i] = want'[j][i]
    <2>1. buf[j].tag = "kPool" => buf[j].data \in PoolBlocks /\ free[buf[j].data] = 0
      BY <1>3, <1>17 DEF IInv, Sound
    <2>2. buf[j].tag = "kPool" => ~(r.tag = "kPool" /\ buf[j].data = r.data)
      BY <1>6, <2>1
    <2>3. buf[j].tag = "kPool" => mem'[buf[j].data] = mem[buf[j].data]
      BY <1>10, <2>1, <2>2
    <2> QED BY <1>13, <1>17, <2>3, OthersHold
  <1>18. /\ Len(w) <= r2.size
         /\ \A i \in 1..Len(w) : Data(r2, mem')[i] = w[i]
    <2>1. Len(w) \in Nat /\ Len(want[k]) \in Nat
      BY SMT, <1>11, <1>12
    <2>2. Len(w) <= copy
      BY SMT, <1>1, <1>11, <1>12, <2>1 DEF copy
    <2>3. ASSUME NEW i \in 1..Len(w) PROVE Data(r2, mem')[i] = w[i]
      <3>1. i \in 1..Len(want[k]) /\ i \in 1..copy /\ i <= r.size /\ Readable(old, r)
        BY SMT, <1>1, <1>2, <1>6, <1>12, <2>1, <2>2
      <3>2. Data(r2, mem')[i] = bytes[i]
        BY <1>7, <1>10, <3>1
      <3>3. bytes[i] = Data(old, mem)[i]
        BY <1>7, <3>1
      <3> QED BY <1>11, <1>12, <3>1, <3>2, <3>3
    <2> QED BY <1>6, <1>10, <1>12, <2>3
  <1>19. Holds'
    <2>1. want'[k] = w /\ buf'[k] = r2
      BY <1>13
    <2>2. /\ Len(want'[k]) <= buf'[k].size
          /\ \A i \in 1..Len(want'[k]) : Data(buf'[k], mem')[i] = want'[k][i]
      BY <1>18, <2>1
    <2> QED BY <1>17, <2>2 DEF Holds
  <1> QED BY <1>14, <1>15, <1>16, <1>19 DEF IInv

-----------------------------------------------------------------------------
(* Theorems *)

\* The invariant is inductive.
LEMMA SpecIInv == Spec => []IInv
  <1>1. IInv /\ [Next]_vars => IInv'
    <2> SUFFICES ASSUME IInv, [Next]_vars PROVE IInv'
      OBVIOUS
    <2>1. CASE UNCHANGED vars
      BY SMT, <2>1 DEF vars, IInv, Typed, Owned, Holds
    <2>2. CASE Next
      BY <2>2, ConstructIInv, ResizeIInv, MoveConstructIInv, MoveAssignIInv, DestructIInv, FillIInv
         DEF Next
    <2> QED BY <2>1, <2>2
  <1> QED BY InitIInv, <1>1, PTL DEF Spec

\* The number of elements of a set of one, from the definition of Cardinality.
LEMMA OneElement == ASSUME NEW q PROVE Cardinality({q}) = 1
  <1> DEFINE F(f) == [T \in SUBSET {q} |-> IF T = {} THEN 0 ELSE 1 + f[T \ {CHOOSE x : x \in T}]]
             g == [T \in SUBSET {q} |-> IF T = {} THEN 0 ELSE 1]
             CS == CHOOSE f : f = F(f)
  <1>1. Cardinality({q}) = CS[{q}]
    BY DEF Cardinality
  <1>2. g = F(g)
    <2>1. ASSUME NEW T \in SUBSET {q} PROVE g[T] = F(g)[T]
      <3>1. T = {} \/ T = {q}
        OBVIOUS
      <3>2. CASE T = {q}
        <4>1. (CHOOSE x : x \in T) = q
          BY <3>2
        <4>2. T \ {CHOOSE x : x \in T} = {}
          BY <3>2, <4>1
        <4> QED BY SMT, <3>2, <4>2
      <3> QED BY <3>1, <3>2
    <2> QED BY <2>1
  <1>3. CS = F(CS)
    BY <1>2
  <1> HIDE DEF CS
  <1>4. CS[{}] = 0
    BY <1>3
  <1>5. (CHOOSE x : x \in {q}) = q
    OBVIOUS
  <1>6. {q} \ {CHOOSE x : x \in {q}} = {}
    BY <1>5
  <1>7. CS[{q}] = 1 + CS[{}]
    BY <1>3, <1>6
  <1> QED BY SMT, <1>1, <1>4, <1>7

\* The empty set has none.
LEMMA NoElement == Cardinality({}) = 0
  <1> DEFINE F(f) == [T \in SUBSET {} |-> IF T = {} THEN 0 ELSE 1 + f[T \ {CHOOSE x : x \in T}]]
             g == [T \in SUBSET {} |-> 0]
             CS == CHOOSE f : f = F(f)
  <1>1. Cardinality({}) = CS[{}]
    BY DEF Cardinality
  <1>2. g = F(g)
    OBVIOUS
  <1>3. CS = F(CS)
    BY <1>2
  <1> HIDE DEF CS
  <1> QED BY <1>1, <1>3

\* Constructors, moves, Resize and destructors never share a pool block between two
\* objects, lose one or give one back twice.
THEOREM BufOneOwner == Spec => []OneOwner
  <1>1. IInv => OneOwner
    <2> SUFFICES ASSUME IInv, NEW b \in PoolBlocks
                 PROVE  Cardinality({k \in Bufs : buf[k].live /\ buf[k].data = b})
                            = IF shelf[b] = 0 THEN 1 ELSE 0
      BY DEF OneOwner
    <2> DEFINE S == {k \in Bufs : buf[k].live /\ buf[k].data = b}
    <2>1. \A k \in Bufs : buf[k].data = b => buf[k].live
      BY BufAssumption DEF IInv, Sound
    <2>2. CASE shelf[b] = 0
      <3>1. PICK k \in Bufs : buf[k].data = b
        BY <2>2 DEF IInv, Owned
      <3>2. S = {k}
        BY <2>1, <3>1, BufAssumption DEF IInv, Owned
      <3> QED BY <2>2, <3>2, OneElement
    <2>3. CASE shelf[b] # 0
      <3>1. S = {}
        BY <2>3 DEF IInv, Owned
      <3> QED BY <2>3, <3>1, NoElement
    <2> QED BY <2>2, <2>3
  <1> QED BY SpecIInv, <1>1, PTL

\* Data() always has room for size bytes, and every block is given back under its own
\* class.
THEOREM BufFits == Spec => []Fits
  <1>1. IInv => Fits
    BY DataFacts DEF IInv, Typed, Owned, Fits
  <1> QED BY SpecIInv, <1>1, PTL

\* Moves, and the resizes that read the old bytes where they were, keep what the owner
\* put in.
THEOREM BufDataPreserved == Spec => []DataPreserved
  <1>1. IInv => DataPreserved
    <2> SUFFICES ASSUME IInv, NEW k \in Bufs
                 PROVE  SubSeq(Data(buf[k], mem), 1, Len(want[k])) = want[k]
      BY DEF DataPreserved
    <2> DEFINE d == Data(buf[k], mem)
               m == Len(want[k])
    <2>1. d \in Seq(Bytes) /\ buf[k].size <= Len(d) /\ buf[k].size \in Nat
      BY DataFacts DEF IInv, Typed, Objects
    <2>2. want[k] \in Seq(Bytes) /\ m \in Nat /\ m <= buf[k].size /\ \A i \in 1..m : d[i] = want[k][i]
      BY SMT DEF IInv, Typed, Holds
    <2> HIDE DEF d
    <2>3. m <= Len(d)
      BY SMT, <2>1, <2>2
    <2>4. /\ SubSeq(d, 1, m) \in Seq(Bytes) /\ Len(SubSeq(d, 1, m)) = m
          /\ \A i \in 1..m : SubSeq(d, 1, m)[i] = want[k][i]
      <3> HIDE DEF m
      <3> QED BY <2>1, <2>2, <2>3, FrontFacts
    <2> QED BY SMT, <2>2, <2>4 DEF d
  <1> QED BY SpecIInv, <1>1, PTL
=============================================================================
