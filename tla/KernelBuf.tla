------------------------------ MODULE KernelBuf ------------------------------
(***************************************************************************)
(* talon::task::KernelBuf (async_io_kernelbuf.hpp): a buffer whose bytes are *)
(* inline (kSbo), in a block of the BufferPool (kPool) or in a vector        *)
(* (kHeap).  A KernelBuf belongs to one thread at a time, so each member     *)
(* function is one step.                                                     *)
(***************************************************************************)
EXTENDS Integers, Sequences, FiniteSets

CONSTANTS
    Bufs,         \* KernelBuf objects
    PoolBlocks,   \* blocks the BufferPool has
    None,         \* nullptr
    BlockSize,    \* the class size of every block
    SboSize,      \* kKernelBufSboSize
    MaxPooled,    \* kMaxPooledSize
    Sizes,        \* sizes the callers ask for
    Bytes,        \* byte values; 0 is one of them
    PoolFails     \* whether BufferPool::Allocate may return nullptr

ASSUME BufAssumption ==
    /\ None \notin PoolBlocks
    /\ BlockSize \in [PoolBlocks -> Nat \ {0}]
    /\ SboSize \in Nat /\ MaxPooled \in Nat /\ SboSize < MaxPooled
    /\ \E b \in PoolBlocks : MaxPooled <= BlockSize[b]
    /\ Sizes \subseteq Nat
    /\ 0 \in Bytes
    /\ PoolFails \in BOOLEAN

VARIABLES
    buf,     \* the fields of each object
    mem,     \* the bytes of each pool block
    shelf,   \* under which size the BufferPool got each block back; 0: it is out
    want     \* history: the bytes the owner of each object relies on

vars == <<buf, mem, shelf, want>>

Zeros(n) == [i \in 1..n |-> 0]

Unborn == [live |-> FALSE, size |-> 0, tag |-> "kNone", sbo |-> Zeros(SboSize),
           data |-> None, alloc |-> 0, heap |-> <<>>]

Init ==
    /\ buf = [k \in Bufs |-> Unborn]
    /\ mem = [b \in PoolBlocks |-> Zeros(BlockSize[b])]
    /\ shelf = BlockSize
    /\ want = [k \in Bufs |-> <<>>]

\* Data(), given the pool's memory: where the bytes are read from.
Data(r, m) ==
    CASE r.tag = "kSbo" -> r.sbo
      [] r.tag = "kPool" -> m[r.data]
      [] r.tag = "kHeap" -> r.heap
      [] r.tag = "kNone" -> <<>>

-----------------------------------------------------------------------------
(* Storage *)

\* The vector branch of AllocateStorage: a zero-filled vector.
OnHeap(r, n) == [r EXCEPT !.tag = "kHeap", !.heap = Zeros(n), !.size = n]

\* BufferPool::Allocate(n), as KernelBuf sees it: a free block filed under the class
\* of n, the smallest that fits.
Class(n) == CHOOSE s \in {BlockSize[b] : b \in PoolBlocks} :
                /\ n <= s
                /\ \A b \in PoolBlocks : n <= BlockSize[b] => s <= BlockSize[b]

FreeBlocks(n, free) == {b \in PoolBlocks : free[b] # 0 /\ Class(free[b]) = Class(n)}

\* Mutant: the size of the block is not recorded.
AllocateStorageUnsized(r, n, free) ==
    IF n <= SboSize THEN {[r EXCEPT !.tag = "kSbo", !.sbo = Zeros(SboSize), !.size = n]}
    ELSE IF n <= MaxPooled
    THEN {[r EXCEPT !.tag = "kPool", !.data = b, !.alloc = SboSize, !.size = n] :
             b \in FreeBlocks(n, free)}
    ELSE {OnHeap(r, n)}

\* AllocateStorage(n): the objects it can leave behind, given the free blocks.
AllocateStorage(r, n, free) ==
    IF n <= SboSize THEN {[r EXCEPT !.tag = "kSbo", !.sbo = Zeros(SboSize), !.size = n]}
    ELSE IF n <= MaxPooled
    THEN {[r EXCEPT !.tag = "kPool", !.data = b, !.alloc = n, !.size = n] :
             b \in FreeBlocks(n, free)}
         \cup IF PoolFails THEN {OnHeap(r, n)} ELSE {}
    ELSE {OnHeap(r, n)}

\* The blocks once r has been given its storage.
Taken(r, free) == IF r.tag = "kPool" THEN [free EXCEPT ![r.data] = 0] ELSE free

\* DestroyStorage: the object, and the blocks after Deallocate(data, alloc).
DestroyStorage(r) ==
    [r EXCEPT !.tag = "kNone",
              !.data = IF r.tag = "kPool" THEN None ELSE @,
              !.alloc = IF r.tag = "kPool" THEN 0 ELSE @,
              !.heap = IF r.tag = "kHeap" THEN <<>> ELSE @]

GivenBack(r, free) == IF r.tag = "kPool" THEN [free EXCEPT ![r.data] = r.alloc] ELSE free

\* Mutant: the source keeps the pool block.
MovedKeeps(r) == [r EXCEPT !.size = 0, !.tag = "kNone"]

\* MoveStorageFrom and the resets after it: the source, and the object that takes
\* its storage.
Moved(r) ==
    [r EXCEPT !.size = 0, !.tag = "kNone",
              !.data = IF r.tag = "kPool" THEN None ELSE @,
              !.alloc = IF r.tag = "kPool" THEN 0 ELSE @,
              !.heap = IF r.tag = "kHeap" THEN <<>> ELSE @]

MoveStorageFrom(r, other) ==
    [r EXCEPT !.size = other.size, !.tag = other.tag,
              !.sbo = IF other.tag = "kSbo" THEN other.sbo ELSE @,
              !.data = IF other.tag = "kPool" THEN other.data ELSE @,
              !.alloc = IF other.tag = "kPool" THEN other.alloc ELSE @,
              !.heap = IF other.tag = "kHeap" THEN other.heap ELSE @]

-----------------------------------------------------------------------------
(* Operations *)

\* KernelBuf(sz), MakeKernelBuffer.
Construct(k, n) ==
    /\ ~buf[k].live
    /\ \E r \in AllocateStorage([Unborn EXCEPT !.live = TRUE], n, shelf) :
          /\ buf' = [buf EXCEPT ![k] = r]
          /\ shelf' = Taken(r, shelf)
    /\ want' = [want EXCEPT ![k] = <<>>]
    /\ UNCHANGED mem

\* KernelBuf(KernelBuf&&).
MoveConstruct(k, o) ==
    /\ ~buf[k].live /\ buf[o].live
    /\ buf' = [buf EXCEPT ![k] = MoveStorageFrom([Unborn EXCEPT !.live = TRUE], buf[o]),
                          ![o] = Moved(buf[o])]
    /\ want' = [want EXCEPT ![k] = want[o], ![o] = <<>>]
    /\ UNCHANGED <<mem, shelf>>

\* operator=(KernelBuf&&); assigning an object to itself does nothing.
MoveAssign(k, o) ==
    /\ k # o /\ buf[k].live /\ buf[o].live
    /\ buf' = [buf EXCEPT ![k] = MoveStorageFrom(DestroyStorage(buf[k]), buf[o]),
                          ![o] = Moved(buf[o])]
    /\ shelf' = GivenBack(buf[k], shelf)
    /\ want' = [want EXCEPT ![k] = want[o], ![o] = <<>>]
    /\ UNCHANGED mem

\* ~KernelBuf.
Destruct(k) ==
    /\ buf[k].live
    /\ buf' = [buf EXCEPT ![k] = Unborn]
    /\ shelf' = GivenBack(buf[k], shelf)
    /\ want' = [want EXCEPT ![k] = <<>>]
    /\ UNCHANGED mem

\* memcpy of bytes over the front of to.
Copied(bytes, to) == [i \in DOMAIN to |-> IF i \in DOMAIN bytes THEN bytes[i] ELSE to[i]]

\* The bytes old_data reads after DestroyStorage and AllocateStorage made r of old:
\* inline bytes may have been zeroed; a pool block still has its bytes, in the
\* thread's cache or as the new block; a vector is freed and reads as anything.
OldBytes(old, r, n) ==
    CASE old.tag = "kSbo" -> {SubSeq(r.sbo, 1, n)}
      [] old.tag = "kPool" -> {SubSeq(mem[old.data], 1, n)}
      [] old.tag = "kHeap" -> [1..n -> Bytes]
      [] old.tag = "kNone" -> {<<>>}

\* What the owner of old's n first bytes can rely on in r.  Nothing if they were inline
\* and are again, or were in a vector: AllocateStorage zeroes sbo_data_ and
\* DestroyStorage frees the vector before line 73 copies.
Relied(bytes, old, r, n) ==
    IF old.tag = "kHeap" \/ (old.tag = "kSbo" /\ r.tag = "kSbo") THEN <<>>
    ELSE SubSeq(bytes, 1, IF n < Len(bytes) THEN n ELSE Len(bytes))

\* Mutant: the size to copy is taken after the new size is stored.
ResizeCopiesNew(k, n) ==
    /\ buf[k].live
    /\ ~(n = buf[k].size /\ buf[k].tag # "kNone")
    /\ LET old == buf[k]
           free == GivenBack(old, shelf)
       IN  \E r \in AllocateStorage(DestroyStorage(old), n, free) :
              /\ shelf' = Taken(r, free)
              /\ buf' = [buf EXCEPT ![k] = r]
              /\ want' = [want EXCEPT ![k] = Relied(@, old, r, n)]
              /\ UNCHANGED mem

\* Resize(n).
Resize(k, n) ==
    /\ buf[k].live
    /\ ~(n = buf[k].size /\ buf[k].tag # "kNone")
    /\ LET old == buf[k]
           copy == IF n < old.size THEN n ELSE old.size
           free == GivenBack(old, shelf)
       IN  \E r \in AllocateStorage(DestroyStorage(old), n, free) :
           \E bytes \in OldBytes(old, r, copy) :
              /\ shelf' = Taken(r, free)
              /\ buf' = [buf EXCEPT ![k] =
                           [r EXCEPT !.sbo = IF r.tag = "kSbo" THEN Copied(bytes, @) ELSE @,
                                     !.heap = IF r.tag = "kHeap" THEN Copied(bytes, @) ELSE @]]
              /\ mem' = IF r.tag = "kPool" THEN [mem EXCEPT ![r.data] = Copied(bytes, @)] ELSE mem
              /\ want' = [want EXCEPT ![k] = Relied(@, old, r, n)]

\* The owner, or the kernel during a read, fills the buffer through Data().
Fill(k, v) ==
    /\ buf[k].live /\ buf[k].tag # "kNone"
    /\ LET bytes == [i \in 1..buf[k].size |-> v]
       IN  /\ want' = [want EXCEPT ![k] = bytes]
           /\ buf' = [buf EXCEPT ![k].sbo = IF buf[k].tag = "kSbo" THEN Copied(bytes, @) ELSE @,
                                 ![k].heap = IF buf[k].tag = "kHeap" THEN bytes ELSE @]
           /\ mem' = IF buf[k].tag = "kPool"
                     THEN [mem EXCEPT ![buf[k].data] = Copied(bytes, @)] ELSE mem
    /\ UNCHANGED shelf

Next ==
    \E k \in Bufs :
        \/ \E n \in Sizes : Construct(k, n) \/ Resize(k, n)
        \/ \E o \in Bufs : MoveConstruct(k, o) \/ MoveAssign(k, o)
        \/ Destruct(k)
        \/ \E v \in Bytes : Fill(k, v)

Spec == Init /\ [][Next]_vars

-----------------------------------------------------------------------------
(* Properties *)

\* A pool block belongs to one object, or is free: moves, resizes and destructors
\* neither share, leak nor return it twice.
OneOwner ==
    \A b \in PoolBlocks :
        Cardinality({k \in Bufs : buf[k].live /\ buf[k].data = b})
            = IF shelf[b] = 0 THEN 1 ELSE 0

\* The storage can hold size bytes, and a free block is filed under its own class:
\* SubmitTask passes Data() and size to the kernel, DestroyStorage passes
\* alloc_size to Deallocate.
Fits ==
    /\ \A k \in Bufs : buf[k].live => buf[k].size <= Len(Data(buf[k], mem))
    /\ \A b \in PoolBlocks : shelf[b] # 0 => Class(shelf[b]) = BlockSize[b]

\* "Resize (preserves data)" (README), and moves carry the bytes along: what the
\* owner put in and did not cut off is still there, through any sequence of moves,
\* reuses of blocks and resizes but the two kinds that Relied names.
DataPreserved ==
    \A k \in Bufs : buf[k].live =>
        SubSeq(Data(buf[k], mem), 1, Len(want[k])) = want[k]
=============================================================================
