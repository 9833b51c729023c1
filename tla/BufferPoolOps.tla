--------------------------- MODULE BufferPoolOps ---------------------------
(***************************************************************************)
(* The operations of mtl::BufferPool (mtl_buffer_pool.mm) on a pool p and  *)
(* the memory m its buffers live in, for every specification that holds a  *)
(* pool.  A buffer is named by the Metal storage behind it; replacing the  *)
(* storage (Buffer::reset) gives it a new name.                            *)
(***************************************************************************)
EXTENDS Integers, Sequences, FiniteSets

CONSTANTS
    MaxStorages,     \* bound: number of Metal buffers ever created
    SharedLimit,     \* kSharedMemBufferMaxBufSizeHint
    MacOS,           \* TARGET_OS_OSX || TARGET_OS_MACCATALYST
    UnifiedMemory,   \* the device has no managed storage
    ForceGPUStorage  \* the feature forceBufferGPUStorage

\* size_t, as far as the counter of buffers goes below zero.
Word == 65536

\* A process has fewer buffers than size_t counts.
ASSUME StorageAssumption == MaxStorages \in 0..(Word - 1) /\ SharedLimit \in Nat

Storages == 1..MaxStorages
Nil      == 0     \* a Buffer object whose Metal buffer is nil
NoBuffer == -1    \* no Buffer object
Policies == {"auto", "shared", "gpu"}

PoolType ==
    [initial : Nat, cur : Storages \cup {Nil, NoBuffer}, next : Nat,
     size : Nat, align : Nat \ {0},
     inflight : Seq(Storages \cup {Nil}), free : Seq(Storages \cup {Nil}),
     count : Nat, max : Nat, policy : Policies, always : BOOLEAN]

MemoryType ==
    [made : 0..MaxStorages, size : [Storages -> Nat],
     shared : [Storages -> BOOLEAN], usage : [Storages -> Nat],
     needSync : [Storages -> BOOLEAN]]

NewPool(always, policy) ==
    [initial |-> 0, cur |-> NoBuffer, next |-> 0, size |-> 0,
     align |-> 1, inflight |-> <<>>, free |-> <<>>, count |-> 0, max |-> 0,
     policy |-> policy, always |-> always]

NewMemory ==
    [made |-> 0,
     size |-> [s \in Storages |-> 0],
     shared |-> [s \in Storages |-> FALSE],
     usage |-> [s \in Storages |-> 0],         \* cmdBufferQueueSerial
     needSync |-> [s \in Storages |-> FALSE]]  \* cpuReadMemNeedSync

RoundUp(v, a) == ((v + a - 1) \div a) * a

\* The place of i among the numbers of I, the first being 1.
Rank(I, i) == Cardinality({j \in I : j <= i})

Place(I, k) == CHOOSE i \in I : Rank(I, i) = k

\* The elements of s at the positions in I, in their order.
Selected(s, I) == [k \in 1..Cardinality(I) |-> s[Place(I, k)]]

SizeOf(m, b)     == IF b = Nil THEN 0 ELSE m.size[b]
InUse(m, b, done) == b # Nil /\ done < m.usage[b]
NeedSync(m, b)   == b # Nil /\ m.needSync[b]

\* BufferPool::shouldAllocateInSharedMem
ShouldAllocateInSharedMem(p) ==
    /\ ~ForceGPUStorage
    /\ \/ p.policy = "shared"
       \/ p.policy = "auto" /\ p.size <= SharedLimit

\* The storage mode Buffer::reset chooses.
StorageIsShared(wantShared) == MacOS => wantShared \/ UnifiedMemory

\* Buffer::reset: k new Metal buffers of n bytes each.
CreateStorages(m, k, n, wantShared) ==
    LET fresh == (m.made + 1)..(m.made + k) IN
      [made     |-> m.made + k,
       size     |-> [s \in Storages |-> IF s \in fresh THEN n ELSE m.size[s]],
       shared   |-> [s \in Storages |-> IF s \in fresh THEN StorageIsShared(wantShared)
                                                      ELSE m.shared[s]],
       usage    |-> [s \in Storages |-> IF s \in fresh THEN 0 ELSE m.usage[s]],
       needSync |-> [s \in Storages |-> s \notin fresh /\ m.needSync[s]]]

\* Mutant: the pending buffer is let go of.
FinalizeAndForget(p) == [p EXCEPT !.cur = NoBuffer, !.next = 0]

\* BufferPool::finalizePendingBuffer
FinalizePendingBuffer(p) ==
    [p EXCEPT !.inflight = IF p.cur = NoBuffer THEN @ ELSE Append(@, p.cur),
              !.cur = NoBuffer, !.next = 0]

\* Mutant: buffers that became too small stay.
ReusableAnySize(p, m, b) ==
    MacOS => (b = Nil \/ m.shared[b]) = ShouldAllocateInSharedMem(p)

\* A buffer of the in-flight list that may go to the free list.
Reusable(p, m, b) ==
    /\ SizeOf(m, b) >= p.size
    /\ MacOS => (b = Nil \/ m.shared[b]) = ShouldAllocateInSharedMem(p)

\* BufferPool::releaseInFlightBuffers
ReleaseInFlightBuffers(p, m) ==
    LET kept == {i \in DOMAIN p.inflight : Reusable(p, m, p.inflight[i])} IN
      [p EXCEPT !.inflight = <<>>,
                !.free = @ \o Selected(p.inflight, kept),
                !.count = (@ - (Len(p.inflight) - Cardinality(kept))) % Word]

\* Mutant: the counter is not updated.
DropFreeList(p) == [p EXCEPT !.free = <<>>]

\* Mutant: one buffer too many is taken off the counter.
DropFreeListTwice(p) == [p EXCEPT !.free = <<>>, !.count = @ - Len(p.free) - 1]

\* BufferPool::destroyBufferList(&mBufferFreeList)
DestroyFreeList(p) ==
    [p EXCEPT !.free = <<>>, !.count = (@ - Len(p.free)) % Word]

\* BufferPool::updateAlignment
UpdateAlignment(p, a) ==
    [p EXCEPT !.next = IF a = p.align THEN @ ELSE RoundUp(@, a), !.align = a]

-----------------------------------------------------------------------------
(* allocate().  Its result: the pool and the memory afterwards, the serial  *)
(* known to be completed, whether the command buffer was flushed, and       *)
(* whether the call succeeded.                                              *)

\* Mutant: one buffer too many.
OverLimit(p) == p.max > 0 /\ p.count > p.max

AtLimit(p) == p.max > 0 /\ p.count >= p.max

TakeFree(p) == [p EXCEPT !.cur = Head(p.free), !.free = Tail(p.free)]

Taken(p, m, flush, done) ==
    [p |-> TakeFree(p), m |-> m, flush |-> flush, ok |-> TRUE, done |-> done]

\* The limit is reached: the free buffer in front, once the GPU is done with it.
WaitForFree(p, m, done) ==
    IF InUse(m, Head(p.free), done)
    THEN Taken(p, m, TRUE, m.usage[Head(p.free)]) ELSE Taken(p, m, FALSE, done)

\* Buffer::MakeBuffer; ok: [newBufferWithLength:] succeeds.
MakeBuffer(p, m, done, ok) ==
    IF ok
    THEN [p |-> [p EXCEPT !.cur = m.made + 1, !.count = @ + 1],
          m |-> CreateStorages(m, 1, p.size, ShouldAllocateInSharedMem(p)),
          flush |-> FALSE, ok |-> TRUE, done |-> done]
    ELSE [p |-> [p EXCEPT !.cur = Nil], m |-> m, flush |-> FALSE, ok |-> FALSE, done |-> done]

\* The second half of allocateNewBuffer.
FreeOrNew(p, m, done, ok) ==
    IF AtLimit(p) THEN WaitForFree(p, m, done) ELSE MakeBuffer(p, m, done, ok)

\* BufferPool::allocateNewBuffer
AllocateNewBuffer(p, m, done, ok) ==
    FreeOrNew(IF AtLimit(p) THEN ReleaseInFlightBuffers(p, m) ELSE p, m, done, ok)

\* Mutant: the first allocation decides the size of the buffers.
GrowOnce(p, n) ==
    IF p.size = 0
    THEN DestroyFreeList([p EXCEPT !.size = IF p.initial > n THEN p.initial ELSE n])
    ELSE p

\* The free buffers are too small for n bytes.
Grow(p, n) ==
    IF n > p.size
    THEN DestroyFreeList([p EXCEPT !.size = IF p.initial > n THEN p.initial ELSE n])
    ELSE p

\* Whether n bytes go to the current buffer.
Appends(p, m, n) ==
    /\ p.cur # NoBuffer
    /\ p.next + n < p.size
    /\ ~NeedSync(m, p.cur)
    /\ ~p.always

\* Mutant: the GPU may still read the free buffer.
AnyFreeBuffer(p, m, done) == p.free # <<>>

FreeBufferAvailable(p, m, done) == p.free # <<>> /\ ~InUse(m, Head(p.free), done)

\* A pool whose current buffer was finalized gets another one.
NextBuffer(p, m, done, ok) ==
    IF FreeBufferAvailable(p, m, done) THEN Taken(p, m, FALSE, done)
    ELSE AllocateNewBuffer(p, m, done, ok)

AdvanceOffset(r, n) == IF r.ok THEN [r EXCEPT !.p.next = @ + n] ELSE r

AllocateRounded(p, m, done, n, ok) ==
    AdvanceOffset(IF Appends(p, m, n)
                  THEN [p |-> p, m |-> m, flush |-> FALSE, ok |-> TRUE, done |-> done]
                  ELSE NextBuffer(Grow(FinalizePendingBuffer(p), n), m, done, ok), n)

\* BufferPool::allocate
Allocate(p, m, done, bytes, ok) == AllocateRounded(p, m, done, RoundUp(bytes, p.align), ok)

-----------------------------------------------------------------------------
(* reset() and destroy(). *)

\* The free buffers the GPU still uses get new storage, if there is memory.
ReplaceUsed(p, m, done, ok) ==
    LET used == {i \in DOMAIN p.free : InUse(m, p.free[i], done)}
        name(i) == IF ok THEN m.made + Rank(used, i) ELSE Nil
    IN [p |-> [p EXCEPT !.free = [i \in DOMAIN p.free |->
                                    IF i \in used THEN name(i) ELSE p.free[i]]],
        m |-> CreateStorages(m, IF ok THEN Cardinality(used) ELSE 0, p.size,
                             ShouldAllocateInSharedMem(p))]

\* Free buffers beyond the new limit go.
CutFreeList(p, maxBuffers) ==
    IF maxBuffers > 0 /\ Len(p.free) > maxBuffers
    THEN [p EXCEPT !.free = SubSeq(@, 1, maxBuffers), !.count = maxBuffers] ELSE p

\* reset() keeps the free buffers if the first is not too small.
KeepFreeBuffers(p, m, done, ok, maxBuffers) ==
    IF p.free # <<>> /\ p.initial <= SizeOf(m, Head(p.free))
    THEN ReplaceUsed([CutFreeList(p, maxBuffers) EXCEPT !.size = SizeOf(m, Head(p.free))],
                     m, done, ok)
    ELSE [p |-> [p EXCEPT !.free = <<>>, !.count = 0, !.size = 0], m |-> m]

\* BufferPool::reset(initialSize, alignment, maxBuffers)
Reset(p, m, done, ok, initialSize, alignment, maxBuffers) ==
    [KeepFreeBuffers(ReleaseInFlightBuffers(FinalizePendingBuffer(p), m), m, done, ok, maxBuffers)
       EXCEPT !.p = UpdateAlignment([@ EXCEPT !.initial = initialSize, !.max = maxBuffers],
                                    alignment)]

\* BufferPool::destroy
Destroy(p) ==
    [p EXCEPT !.cur = NoBuffer, !.next = 0, !.size = 0,
              !.inflight = <<>>, !.free = <<>>, !.count = 0, !.max = 0, !.always = FALSE]
=============================================================================
