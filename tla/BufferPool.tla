----------------------------- MODULE BufferPool -----------------------------
(***************************************************************************)
(* One mtl::BufferPool (mtl_buffer_pool.mm), its owner and the GPU.        *)
(*                                                                         *)
(* The owner writes the regions it is given without waiting for the GPU    *)
(* (allocate() maps with noSync), refers to them in commands as long as    *)
(* their buffer is the current or an in-flight one, and gives them up when *)
(* the in-flight buffers are released.  The command buffers are those of   *)
(* CommandQueue for one context: `now` is the serial being recorded, `done`*)
(* the completed serial.                                                   *)
(***************************************************************************)
EXTENDS BufferPoolOps

CONSTANTS
    Owners,         \* the ways in which the renderer owns a pool, see OwnerType
    MayFail         \* [newBufferWithLength:] may return nil

OwnerType ==
    [always : BOOLEAN,         \* alwaysAllocNewBuffer of the constructor
     flushReleases : BOOLEAN,  \* one of the pools ContextMtl releases on flush
     sizes : SUBSET (Nat \ {0}),         \* byte counts asked for
     initials : SUBSET Nat,               \* arguments of initialize and reset
     alignments : SUBSET (Nat \ {0}), limits : SUBSET Nat,
     policies : SUBSET Policies,          \* what the owner chooses at reset
     storages : 0..MaxStorages,           \* bound: Metal buffers it may create
     serials : Nat]                       \* bound: number of command buffers

ASSUME PoolAssumption ==
    /\ \A o \in Owners : o \in OwnerType
    /\ MayFail \in BOOLEAN

VARIABLES
    owner,      \* who owns the pool; never changes
    pool, mem,
    now, done,
    regions     \* the regions handed out that still matter, see Live

vars == <<owner, pool, mem, now, done, regions>>

\* The owner may refer to these buffers.
Held(p) == {p.cur} \cup {p.inflight[i] : i \in DOMAIN p.inflight}

\* A region matters while the owner holds its buffer or the GPU may access it.
Live(r, held, completed) == r.buf \in held \/ r.serial > completed

\* The pool becomes p and the memory m; the owner still holds the buffers in
\* held, and the regions in new are handed out.
Become(p, m, completed, held, new) ==
    /\ pool' = p /\ mem' = m /\ done' = completed
    /\ regions' = {r \in regions : Live(r, held, completed)} \cup new

Outcomes == IF MayFail THEN BOOLEAN ELSE {TRUE}

Init ==
    /\ owner \in Owners
    /\ pool = NewPool(owner.always, "auto") /\ mem = NewMemory
    /\ now = 1 /\ done = 0
    /\ regions = {}

\* initialize() must not be called while there are buffers.
Initialize(n, a, limit) ==
    /\ pool.count = 0 /\ pool.cur = NoBuffer
    /\ pool' = UpdateAlignment([pool EXCEPT !.initial = n, !.max = limit], a)
    /\ UNCHANGED <<mem, now, done, regions>>

\* allocate(): the owner gets the region at the end of the current buffer.
AllocateRegion(n, ok) ==
    LET r == Allocate(pool, mem, done, n, ok)
        last == r.p.next - RoundUp(n, pool.align)
        region == [buf |-> r.p.cur, lo |-> last, hi |-> last + n, serial |-> 0]
        held == IF Appends(pool, mem, RoundUp(n, pool.align))
                THEN Held(pool) ELSE Held([r.p EXCEPT !.cur = NoBuffer])
    IN /\ r.m.made <= owner.storages
       /\ r.flush => now < owner.serials
       /\ Become(r.p, r.m, r.done, held, IF r.ok THEN {region} ELSE {})
       /\ now' = IF r.flush THEN now + 1 ELSE now

\* The owner's commands read a region, or write it (GPU index generation).
UseRegion(r, writing) ==
    /\ r \in regions /\ r.buf \in Held(pool) \ {Nil}
    /\ mem' = [mem EXCEPT !.usage[r.buf] = now,
                          !.needSync[r.buf] = @ \/ writing]
    /\ regions' = (regions \ {r}) \cup {[r EXCEPT !.serial = now]}
    /\ UNCHANGED <<pool, now, done>>

\* releaseInFlightBuffers() by the owner
Release ==
    /\ Become(ReleaseInFlightBuffers(pool, mem), mem, done, {pool.cur}, {})
    /\ UNCHANGED now

\* ContextMtl::flushCommandBufer
FlushCommandBuffer ==
    /\ now < owner.serials
    /\ now' = now + 1
    /\ IF owner.flushReleases
       THEN Become(ReleaseInFlightBuffers(pool, mem), mem, done, {pool.cur}, {})
       ELSE UNCHANGED <<pool, mem, done, regions>>

\* The completed handler of a command buffer, see CommandQueue.
Complete(s) ==
    /\ s > done /\ s < now
    /\ Become(pool, mem, s, Held(pool), {})
    /\ UNCHANGED now

\* reset(): the owner gives up all its regions.  It may have chosen another
\* memory policy just before (BufferMtl::setDataImpl).
ResetPool(n, a, limit, policy, ok) ==
    LET r == Reset([pool EXCEPT !.policy = policy], mem, done, ok, n, a, limit) IN
    /\ r.m.made <= owner.storages
    /\ Become(r.p, r.m, done, {}, {})
    /\ UNCHANGED now

\* updateAlignment()
SetAlignment(a) ==
    /\ pool' = UpdateAlignment(pool, a)
    /\ UNCHANGED <<mem, now, done, regions>>

DestroyPool ==
    /\ Become(Destroy(pool), mem, done, {}, {})
    /\ UNCHANGED now

Next ==
    /\ \/ \E n \in owner.initials, a \in owner.alignments, limit \in owner.limits :
            \/ Initialize(n, a, limit)
            \/ \E policy \in owner.policies, ok \in Outcomes :
                 ResetPool(n, a, limit, policy, ok)
       \/ \E n \in owner.sizes, ok \in Outcomes : AllocateRegion(n, ok)
       \/ \E r \in regions, writing \in BOOLEAN : UseRegion(r, writing)
       \/ \E s \in 1..owner.serials : Complete(s)
       \/ \E a \in owner.alignments : SetAlignment(a)
       \/ Release \/ FlushCommandBuffer \/ DestroyPool
    /\ UNCHANGED owner

Spec == Init /\ [][Next]_vars

-----------------------------------------------------------------------------
(* Properties. *)

Listed(p) == {p.free[i] : i \in DOMAIN p.free} \cup Held(p)

RegionType == [buf : Storages \cup {Nil}, lo : Nat, hi : Nat, serial : Nat]

\* Type invariant.
TypeOK ==
    /\ owner \in Owners
    /\ pool \in PoolType /\ mem \in MemoryType
    /\ now \in Nat /\ done \in Nat
    /\ regions \subseteq RegionType

\* "Each time you write to the buffer, you will always write to a previously
\* unused portion" (mtl_buffer_pool.h 38): no byte belongs to two regions that
\* the owner or the GPU may still access, although buffers are recycled and
\* allocate() does not wait for the GPU.
RegionsDisjoint ==
    \A r, s \in regions :
        r # s /\ r.buf = s.buf => r.hi <= s.lo \/ s.hi <= r.lo

\* A region lies in a Metal buffer.
RegionsBacked ==
    \A r \in regions : r.buf # Nil /\ r.hi <= mem.size[r.buf]

\* mBuffersAllocated is the number of buffers the pool has.
CountExact ==
    pool.count = Len(pool.free) + Len(pool.inflight)
                   + (IF pool.cur = NoBuffer THEN 0 ELSE 1)

\* The pool never has more buffers than its limit.
LimitRespected == pool.max > 0 => pool.count <= pool.max

\* ASSERT(!mBufferFreeList.empty()) of allocateNewBuffer: a pool at its limit
\* that has no current buffer finds a free one after releaseInFlightBuffers.
FreeWhenAtLimit ==
    LET q == ReleaseInFlightBuffers(FinalizePendingBuffer(pool), mem) IN
    AtLimit(q) => q.free # <<>>

\* What the asserts of lines 147 and 215 rest on: all buffers but those that
\* are too small have the size of the pool.
SizesUniform ==
    /\ pool.cur # NoBuffer => SizeOf(mem, pool.cur) = pool.size
    /\ \A i \in DOMAIN pool.free : SizeOf(mem, pool.free[i]) = pool.size
    /\ \A i \in DOMAIN pool.inflight : SizeOf(mem, pool.inflight[i]) <= pool.size
=============================================================================
