-------------------------- MODULE BufferPoolProofs --------------------------
(***************************************************************************)
(* What holds of BufferPool for every owner, any sizes and any number of   *)
(* buffers.                                                                *)
(***************************************************************************)
EXTENDS BufferPool, BufferPoolLemmas

-----------------------------------------------------------------------------
(* The inductive invariant. *)

\* The regions in R lie in buffers of the pool, below the next offset if in the
\* current one, and are held or used by commands the GPU has not executed.
RegionsSound(p, m, d, R) ==
    \A r \in R :
      /\ r \in RegionType /\ r.buf \in 1..m.made
      /\ r.hi <= m.size[r.buf] /\ r.serial <= m.usage[r.buf]
      /\ r.buf = p.cur => r.hi <= p.next
      /\ Live(r, Held(p), d)

Apart(R) ==
    \A r, s \in R : r # s /\ r.buf = s.buf => r.hi <= s.lo \/ s.hi <= r.lo

UsageBound(m, n) == \A s \in Storages : m.usage[s] <= n

PoolInv ==
    /\ owner \in Owners /\ now \in Nat /\ done \in Nat
    /\ Sound(pool, mem)
    /\ RegionsSound(pool, mem, done, regions) /\ Apart(regions)
    /\ UsageBound(mem, now)

\* The regions that are left when the pool becomes p and the memory m.
LEMMA RegionsKept ==
    ASSUME PoolInv, NEW p, NEW m, Sound(p, m), Extends(mem, m), NEW d \in Nat, NEW held,
           \A b \in held : b \in 1..mem.made => b \in Held(p),
           \A r \in regions : Live(r, held, d) /\ r.buf = p.cur => r.hi <= p.next
    PROVE  LET R == {r \in regions : Live(r, held, d)} IN
           RegionsSound(p, m, d, R) /\ Apart(R)
<1> DEFINE R == {r \in regions : Live(r, held, d)}
<1>1. Apart(R)
  BY DEF Apart, PoolInv
<1>2. ASSUME NEW r \in R
      PROVE  /\ r \in RegionType /\ r.buf \in 1..m.made
             /\ r.hi <= m.size[r.buf] /\ r.serial <= m.usage[r.buf]
             /\ r.buf = p.cur => r.hi <= p.next
             /\ Live(r, Held(p), d)
  <2>1. /\ r \in RegionType /\ r.buf \in 1..mem.made
        /\ r.hi <= mem.size[r.buf] /\ r.serial <= mem.usage[r.buf]
    BY DEF PoolInv, RegionsSound
  <2>2. m.size[r.buf] = mem.size[r.buf] /\ m.usage[r.buf] = mem.usage[r.buf]
    BY <2>1 DEF Extends
  <2>3. r.buf \in 1..m.made
    <3>1. mem.made \in Nat /\ m.made \in Nat /\ mem.made <= m.made
      BY SoundParts DEF PoolInv, Extends
    <3> QED
      BY <2>1, <3>1
  <2>4. Live(r, Held(p), d)
    BY <2>1 DEF Live
  <2> QED
    BY <2>1, <2>2, <2>3, <2>4
<1> QED
  BY <1>1, <1>2 DEF RegionsSound

LEMMA UsageKept ==
    ASSUME PoolInv, NEW m, Extends(mem, m), NEW n \in Nat, now <= n
    PROVE  UsageBound(m, n)
<1> SUFFICES ASSUME NEW s \in Storages PROVE m.usage[s] <= n
  BY DEF UsageBound
<1>1. mem.usage[s] <= now /\ mem.usage[s] \in Nat /\ now \in Nat
  BY DEF PoolInv, UsageBound, Sound, MemoryType
<1>2. m.usage[s] \in {0, mem.usage[s]}
  BY DEF Extends
<1> QED
  BY <1>1, <1>2

OwnerFacts ==
    /\ owner.storages \in 0..MaxStorages
    /\ \A n \in owner.sizes : n \in Nat /\ n # 0
    /\ \A n \in owner.initials : n \in Nat
    /\ \A a \in owner.alignments : a \in Nat \ {0}
    /\ \A n \in owner.limits : n \in Nat
    /\ \A x \in owner.policies : x \in Policies
    /\ owner.always \in BOOLEAN

LEMMA OwnerIs ==
    ASSUME owner \in Owners
    PROVE  OwnerFacts
BY PoolAssumption DEF OwnerFacts, OwnerType

LEMMA InitPoolInv == ASSUME Init PROVE PoolInv
<1>1. owner \in Owners /\ owner.always \in BOOLEAN
  BY OwnerIs DEF Init, OwnerFacts
<1>2. Sound(pool, mem)
  BY <1>1, NewPoolSound DEF Init
<1>3. UsageBound(mem, now)
  BY DEF Init, UsageBound, NewMemory
<1>4. RegionsSound(pool, mem, done, regions) /\ Apart(regions)
  BY DEF Init, RegionsSound, Apart
<1> QED
  BY <1>1, <1>2, <1>3, <1>4 DEF PoolInv, Init

\* allocate() hands out a region that is apart from the others.
LEMMA AllocatePreserves ==
    ASSUME PoolInv, NEW n \in owner.sizes, AllocateRegion(n, TRUE), UNCHANGED owner
    PROVE  PoolInv'
<1> DEFINE r == Allocate(pool, mem, done, n, TRUE)
           k == RoundUp(n, pool.align)
           last == r.p.next - k
           region == [buf |-> r.p.cur, lo |-> last, hi |-> last + n, serial |-> 0]
           held == IF Appends(pool, mem, k) THEN Held(pool) ELSE Held([r.p EXCEPT !.cur = NoBuffer])
           old == {x \in regions : Live(x, held, r.done)}
<1>1. /\ r.m.made <= owner.storages
      /\ pool' = r.p /\ mem' = r.m /\ done' = r.done
      /\ regions' = old \cup (IF r.ok THEN {region} ELSE {})
      /\ now' = IF r.flush THEN now + 1 ELSE now
  BY DEF AllocateRegion, Become
<1>2. /\ owner \in Owners /\ now \in Nat /\ done \in Nat /\ Sound(pool, mem)
      /\ owner.storages \in 0..MaxStorages /\ n \in Nat /\ n # 0
  BY OwnerIs DEF PoolInv, OwnerFacts
<1>3. r.m.made <= MaxStorages
  <2>1. MaxStorages \in Nat /\ mem.made \in Nat
    BY <1>2, SoundParts
  <2>2. r.m.made \in Int
    <3>1. mem.made \in Int
      BY <2>1
    <3> QED
      BY <3>1, AllocateMade
  <2> HIDE DEF r
  <2> QED
    BY <1>1, <1>2, <2>1, <2>2
<1>4. /\ k \in Nat /\ k >= n
      /\ Allocated(pool, mem, r, k)
      /\ Appends(pool, mem, k) =>
            /\ r.p.cur = pool.cur /\ r.p.next - k = pool.next
            /\ r.p.inflight = pool.inflight /\ r.done = done /\ r.m = mem
      /\ ~Appends(pool, mem, k) =>
            /\ r.p.next - k = 0
            /\ r.p.cur \in 1..mem.made => mem.usage[r.p.cur] <= r.done
  BY <1>2, <1>3, AllocateSound
<1>5. /\ Sound(r.p, r.m) /\ Extends(mem, r.m) /\ r.ok /\ r.done \in Nat /\ r.p.cur # NoBuffer
      /\ last \in Nat /\ r.p.next <= r.p.size
  BY <1>4 DEF Allocated
<1> HIDE DEF r, k
<1>6. regions' = old \cup {region}
  BY <1>1, <1>5
<1>7. /\ r.p.next \in Nat /\ r.p.size \in Nat /\ r.p.cur \in 1..r.m.made
      /\ r.p.cur \in Storages /\ r.m.size[r.p.cur] = r.p.size /\ r.m.usage[r.p.cur] \in Nat
  <2>1. /\ r.p.next \in Nat /\ r.p.size \in Nat /\ r.p.cur \in 1..r.m.made
        /\ r.p.cur \in Storages /\ r.m.usage[r.p.cur] \in Nat
    BY <1>5, SoundParts
  <2>2. r.m.size[r.p.cur] = r.p.size
    BY <1>5 DEF Sound, Sized
  <2> QED
    BY <2>1, <2>2
<1>8. last + n \in Nat /\ last + n <= r.p.next /\ last + n <= r.m.size[r.p.cur]
  BY <1>2, <1>4, <1>5, <1>7
\* The regions that stay live end where the new one starts.
<1>9. ASSUME NEW x \in regions, Live(x, held, r.done), x.buf = r.p.cur
      PROVE  x.hi <= last /\ x.hi \in Nat
  <2>1. /\ x \in RegionType /\ x.buf \in 1..mem.made /\ x.serial <= mem.usage[x.buf]
        /\ x.buf = pool.cur => x.hi <= pool.next
    BY DEF PoolInv, RegionsSound
  <2>2. x.hi \in Nat /\ x.serial \in Nat
    BY <2>1 DEF RegionType
  <2>3. CASE Appends(pool, mem, k)
    BY <1>4, <1>9, <2>1, <2>2, <2>3
  <2>4. CASE ~Appends(pool, mem, k)
    <3>1. mem.usage[x.buf] <= r.done /\ mem.usage[x.buf] \in Nat
      BY <1>2, <1>4, <1>9, <2>1, <2>4, SoundParts
    <3>2. ~(x.serial > r.done)
      BY <1>5, <2>1, <2>2, <3>1
    <3>3. x.buf \in Held([r.p EXCEPT !.cur = NoBuffer])
      BY <1>9, <2>4, <3>2 DEF Live
    <3>4. r.p \in PoolType /\ r.p.inflight \in Seq(1..r.m.made)
      BY <1>5, SoundParts
    <3>5. [r.p EXCEPT !.cur = NoBuffer].cur = NoBuffer /\ [r.p EXCEPT !.cur = NoBuffer].inflight = r.p.inflight
      BY <3>4 DEF PoolType
    <3>6. PICK i \in DOMAIN r.p.inflight : x.buf = r.p.inflight[i]
      BY <1>5, <1>9, <3>3, <3>5 DEF Held
    <3>7. i \in 1..Len(r.p.inflight)
      BY <3>4, LenProperties
    <3>8. r.p.inflight[i] # r.p.cur
      BY <1>5, <3>7 DEF Sound, Distinct
    <3> QED
      BY <1>9, <3>6, <3>8
  <2> QED
    BY <2>3, <2>4
<1>10. \A b \in held : b \in 1..mem.made => b \in Held(r.p)
  <2>1. r.p \in PoolType /\ mem.made \in Nat
    BY <1>2, <1>5, SoundParts
  <2>2. Appends(pool, mem, k) => held = Held(r.p)
    BY <1>4 DEF Held
  <2>3. [r.p EXCEPT !.cur = NoBuffer].cur = NoBuffer /\ [r.p EXCEPT !.cur = NoBuffer].inflight = r.p.inflight
    BY <2>1 DEF PoolType
  <2>4. NoBuffer \notin 1..mem.made
    BY <2>1 DEF NoBuffer
  <2>5. ~Appends(pool, mem, k) => \A b \in held : b = NoBuffer \/ b \in Held(r.p)
    BY <2>3 DEF Held
  <2> QED
    BY <2>2, <2>4, <2>5
<1>11. RegionsSound(r.p, r.m, r.done, old) /\ Apart(old)
  <2>1. \A x \in regions : Live(x, held, r.done) /\ x.buf = r.p.cur => x.hi <= r.p.next
    <3> SUFFICES ASSUME NEW x \in regions, Live(x, held, r.done), x.buf = r.p.cur
                 PROVE  x.hi <= r.p.next
      OBVIOUS
    <3>1. x.hi <= last /\ x.hi \in Nat
      BY <1>9
    <3> QED
      BY <1>4, <1>5, <1>7, <3>1
  <2> HIDE DEF held
  <2> QED
    BY <1>5, <1>10, <2>1, RegionsKept
<1>12. RegionsSound(r.p, r.m, r.done, old \cup {region})
  <2>1. region \in RegionType
    BY <1>5, <1>7, <1>8 DEF RegionType
  <2>2. Live(region, Held(r.p), r.done)
    BY DEF Live, Held
  <2>3. /\ region.buf \in 1..r.m.made /\ region.hi <= r.m.size[region.buf]
        /\ region.serial <= r.m.usage[region.buf] /\ region.hi <= r.p.next
    BY <1>7, <1>8
  <2> HIDE DEF old, region
  <2> QED
    BY <1>11, <2>1, <2>2, <2>3 DEF RegionsSound
<1>13. Apart(old \cup {region})
  <2>1. ASSUME NEW x \in old, x.buf = region.buf PROVE x.hi <= region.lo
    BY <1>9, <2>1
  <2> HIDE DEF old, region
  <2> QED
    BY <1>11, <2>1 DEF Apart
<1>14. UsageBound(r.m, now') /\ now' \in Nat
  <2>1. now' \in Nat /\ now <= now'
    BY <1>1, <1>2
  <2> QED
    BY <1>5, <2>1, UsageKept
<1> QED
  BY <1>1, <1>2, <1>5, <1>6, <1>12, <1>13, <1>14 DEF PoolInv

\* The pool becomes p, the memory m, and no region is handed out.
LEMMA BecomePreserves ==
    ASSUME PoolInv, NEW p, NEW m, Sound(p, m), Extends(mem, m), NEW d \in Nat, NEW held,
           \A b \in held : b \in 1..mem.made => b \in Held(p),
           \A r \in regions : Live(r, held, d) /\ r.buf = p.cur => r.hi <= p.next,
           Become(p, m, d, held, {}), UNCHANGED owner, now' \in Nat, now <= now'
    PROVE  PoolInv'
<1> DEFINE R == {r \in regions : Live(r, held, d)}
<1>1. regions' = R /\ pool' = p /\ mem' = m /\ done' = d
  BY DEF Become
<1>2. RegionsSound(p, m, d, R) /\ Apart(R)
  BY RegionsKept
<1>3. UsageBound(m, now')
  BY UsageKept
<1> HIDE DEF R
<1> QED
  BY <1>1, <1>2, <1>3 DEF PoolInv

\* Nothing moves but the next offset, and that moves up.
LEMMA RealignPreserves ==
    ASSUME PoolInv, Sound(pool', mem), pool'.cur = pool.cur, pool'.inflight = pool.inflight,
           pool'.next >= pool.next, UNCHANGED <<mem, now, done, regions, owner>>
    PROVE  PoolInv'
<1>1. pool.next \in Nat /\ pool'.next \in Nat
  BY SoundParts DEF PoolInv
<1>2. Held(pool') = Held(pool)
  BY DEF Held
<1>3. ASSUME NEW r \in regions
      PROVE  /\ r \in RegionType /\ r.buf \in 1..mem.made
             /\ r.hi <= mem.size[r.buf] /\ r.serial <= mem.usage[r.buf]
             /\ r.buf = pool'.cur => r.hi <= pool'.next
             /\ Live(r, Held(pool'), done)
  <2>1. /\ r \in RegionType /\ r.buf \in 1..mem.made
        /\ r.hi <= mem.size[r.buf] /\ r.serial <= mem.usage[r.buf]
        /\ r.buf = pool.cur => r.hi <= pool.next
        /\ Live(r, Held(pool), done)
    BY DEF PoolInv, RegionsSound
  <2>2. r.hi \in Nat
    BY <2>1 DEF RegionType
  <2> QED
    BY <1>1, <1>2, <2>1, <2>2
<1>4. RegionsSound(pool', mem, done, regions)
  BY <1>3 DEF RegionsSound
<1> QED
  BY <1>4 DEF PoolInv

LEMMA InitializePreserves ==
    ASSUME PoolInv, NEW n \in owner.initials, NEW a \in owner.alignments, NEW limit \in owner.limits,
           Initialize(n, a, limit), UNCHANGED owner
    PROVE  PoolInv'
<1> DEFINE q == [pool EXCEPT !.initial = n, !.max = limit]
<1>1. /\ n \in Nat /\ a \in Nat \ {0} /\ limit \in Nat /\ Sound(pool, mem)
      /\ limit > 0 => pool.count <= limit
  BY OwnerIs DEF PoolInv, OwnerFacts, Initialize
<1>2. Sound(q, mem) /\ q.cur = pool.cur /\ q.inflight = pool.inflight /\ q.next = pool.next
  BY <1>1, ConfigureSound, ZenonT(60)
<1> HIDE DEF q
<1>3. /\ Sound(UpdateAlignment(q, a), mem)
      /\ UpdateAlignment(q, a).cur = q.cur /\ UpdateAlignment(q, a).inflight = q.inflight
      /\ UpdateAlignment(q, a).next >= q.next
  BY <1>1, <1>2, AlignSound
<1>4. pool' = UpdateAlignment(q, a)
  BY DEF Initialize, q
<1> QED
  BY <1>2, <1>3, <1>4, RealignPreserves DEF Initialize

LEMMA SetAlignmentPreserves ==
    ASSUME PoolInv, NEW a \in owner.alignments, SetAlignment(a), UNCHANGED owner
    PROVE  PoolInv'
<1>1. a \in Nat \ {0} /\ Sound(pool, mem)
  BY OwnerIs DEF PoolInv, OwnerFacts
<1>2. LET q == UpdateAlignment(pool, a) IN
      Sound(q, mem) /\ q.cur = pool.cur /\ q.inflight = pool.inflight /\ q.next >= pool.next
  BY <1>1, AlignSound
<1> QED
  BY <1>2, RealignPreserves DEF SetAlignment

\* A command refers to a region.
LEMMA UseRegionPreserves ==
    ASSUME PoolInv, NEW r \in regions, NEW writing \in BOOLEAN, UseRegion(r, writing), UNCHANGED owner
    PROVE  PoolInv'
<1> DEFINE m == [mem EXCEPT !.usage[r.buf] = now, !.needSync[r.buf] = @ \/ writing]
           s == [r EXCEPT !.serial = now]
<1>1. /\ r.buf \in Held(pool) /\ mem' = m /\ regions' = (regions \ {r}) \cup {s}
      /\ pool' = pool /\ now' = now /\ done' = done
  BY DEF UseRegion
<1>2. /\ owner \in Owners /\ now \in Nat /\ done \in Nat /\ Sound(pool, mem)
      /\ UsageBound(mem, now) /\ Apart(regions) /\ RegionsSound(pool, mem, done, regions)
  BY DEF PoolInv
<1>3. /\ r \in RegionType /\ r.buf \in 1..mem.made /\ r.hi <= mem.size[r.buf]
      /\ r.buf = pool.cur => r.hi <= pool.next
  BY <1>2 DEF RegionsSound
<1>4. mem \in MemoryType /\ r.buf \in Storages
  BY <1>2, <1>3, SoundParts
<1>5. /\ m.made = mem.made /\ m.size = mem.size
      /\ m.usage = [mem.usage EXCEPT ![r.buf] = now]
      /\ m.usage \in [Storages -> Nat] /\ m.usage[r.buf] = now
      /\ \A b \in Storages : b # r.buf => m.usage[b] = mem.usage[b]
  BY <1>2, <1>4 DEF MemoryType
<1>6. m \in MemoryType
  <2>1. [mem.needSync EXCEPT ![r.buf] = @ \/ writing] \in [Storages -> BOOLEAN]
    BY <1>4 DEF MemoryType
  <2>2. [mem.usage EXCEPT ![r.buf] = now] \in [Storages -> Nat]
    BY <1>5
  <2>3. m = [mem EXCEPT !.usage = [mem.usage EXCEPT ![r.buf] = now],
                        !.needSync = [mem.needSync EXCEPT ![r.buf] = @ \/ writing]]
    BY <1>4 DEF MemoryType
  <2> QED
    BY <1>4, <2>1, <2>2, <2>3 DEF MemoryType
<1> HIDE DEF m
<1>7. Sound(pool, m)
  BY <1>2, <1>5, <1>6 DEF Sound, EntriesMade, Sized, Counted
<1>8. UsageBound(m, now)
  BY <1>2, <1>5 DEF UsageBound
<1>9. s \in RegionType /\ s.buf = r.buf /\ s.lo = r.lo /\ s.hi = r.hi /\ s.serial = now
  BY <1>2, <1>3 DEF RegionType
<1> HIDE DEF s
<1>10. RegionsSound(pool, m, done, regions')
  <2> SUFFICES ASSUME NEW x \in regions'
               PROVE  /\ x \in RegionType /\ x.buf \in 1..m.made
                      /\ x.hi <= m.size[x.buf] /\ x.serial <= m.usage[x.buf]
                      /\ x.buf = pool.cur => x.hi <= pool.next
                      /\ Live(x, Held(pool), done)
    BY DEF RegionsSound
  <2>1. CASE x = s
    <3>1. now <= now
      BY <1>2
    <3> QED
      BY <1>1, <1>3, <1>5, <1>9, <2>1, <3>1 DEF Live
  <2>2. CASE x \in regions
    <3>1. /\ x \in RegionType /\ x.buf \in 1..mem.made
          /\ x.hi <= mem.size[x.buf] /\ x.serial <= mem.usage[x.buf]
          /\ x.buf = pool.cur => x.hi <= pool.next
          /\ Live(x, Held(pool), done)
      BY <1>2, <2>2 DEF RegionsSound
    <3>2. x.buf \in Storages /\ mem.usage[x.buf] <= now /\ mem.usage[x.buf] \in Nat
      BY <1>2, <3>1, SoundParts DEF UsageBound
    <3>3. x.serial \in Nat
      BY <3>1 DEF RegionType
    <3>4. x.serial <= m.usage[x.buf]
      BY <1>2, <1>5, <3>1, <3>2, <3>3
    <3> QED
      BY <1>5, <3>1, <3>4
  <2> QED
    BY <1>1, <2>1, <2>2
<1>11. Apart(regions')
  BY <1>1, <1>2, <1>9 DEF Apart
<1> QED
  BY <1>1, <1>2, <1>7, <1>8, <1>10, <1>11 DEF PoolInv

\* The owner gives up the regions of the in-flight buffers.
LEMMA ReleasePreserves ==
    ASSUME PoolInv, Become(ReleaseInFlightBuffers(pool, mem), mem, done, {pool.cur}, {}),
           UNCHANGED owner, now' \in Nat, now <= now'
    PROVE  PoolInv'
<1> DEFINE q == ReleaseInFlightBuffers(pool, mem)
<1>1. Sound(pool, mem) /\ done \in Nat /\ RegionsSound(pool, mem, done, regions)
  BY DEF PoolInv
<1>2. Sound(q, mem) /\ q.cur = pool.cur /\ q.next = pool.next
  BY <1>1, ReleaseSound
<1>3. Extends(mem, mem)
  BY <1>1, ExtendsSelf
<1>4. \A b \in {pool.cur} : b \in 1..mem.made => b \in Held(q)
  BY <1>2 DEF Held
<1>5. \A r \in regions : r.buf = q.cur => r.hi <= q.next
  BY <1>1, <1>2 DEF RegionsSound
<1> HIDE DEF q
<1> QED
  BY <1>1, <1>2, <1>3, <1>4, <1>5, BecomePreserves DEF q

LEMMA CompletePreserves ==
    ASSUME PoolInv, NEW s \in 1..owner.serials, Complete(s), UNCHANGED owner
    PROVE  PoolInv'
<1>1. /\ Sound(pool, mem) /\ now \in Nat /\ done \in Nat /\ s \in Nat
      /\ RegionsSound(pool, mem, done, regions)
  <2>1. s \in Nat
    OBVIOUS
  <2> QED
    BY <2>1 DEF PoolInv
<1>2. Extends(mem, mem)
  BY <1>1, ExtendsSelf
<1>3. \A r \in regions : r.buf = pool.cur => r.hi <= pool.next
  BY <1>1 DEF RegionsSound
<1>4. Become(pool, mem, s, Held(pool), {}) /\ now' = now
  BY DEF Complete
<1> QED
  BY <1>1, <1>2, <1>3, <1>4, BecomePreserves

\* destroy(): nothing is left in the pool.
LEMMA DestroyPreserves ==
    ASSUME PoolInv, DestroyPool, UNCHANGED owner
    PROVE  PoolInv'
<1> DEFINE q == Destroy(pool)
<1>1. Sound(pool, mem) /\ done \in Nat /\ now \in Nat /\ RegionsSound(pool, mem, done, regions)
  BY DEF PoolInv
<1>2. pool \in PoolType /\ mem \in MemoryType /\ mem.made \in Nat
  BY <1>1, SoundParts
<1>3. q \in PoolType
  <2>1. <<>> \in Seq(Storages \cup {Nil})
    BY EmptySeq
  <2> QED
    BY <1>2, <2>1 DEF Destroy, PoolType
<1>4. /\ q.free = <<>> /\ q.count = 0 /\ q.max = 0 /\ OnlyFree(q) /\ q.cur = NoBuffer
  BY <1>2 DEF Destroy, PoolType, OnlyFree
<1> HIDE DEF q
<1>5. /\ q.free \in Seq(1..mem.made)
      /\ \A i, j \in 1..Len(q.free) : q.free[i] = q.free[j] => i = j
      /\ \A i \in 1..Len(q.free) : mem.size[q.free[i]] = q.size
      /\ q.count = Len(q.free) /\ q.count <= mem.made /\ (q.max > 0 => q.count <= q.max)
  <2>1. q.free \in Seq(1..mem.made) /\ Len(q.free) = 0 /\ 1..Len(q.free) = {}
    BY <1>4, EmptySeq
  <2> QED
    BY <1>2, <1>4, <2>1
<1>6. Sound(q, mem)
  BY <1>2, <1>3, <1>4, <1>5, OnlyFreeSound
<1>7. Extends(mem, mem)
  BY <1>1, ExtendsSelf
<1>8. \A r \in regions : r.buf # q.cur
  BY <1>1, <1>2, <1>4 DEF RegionsSound, NoBuffer
<1>9. Become(q, mem, done, {}, {}) /\ now' = now
  BY DEF DestroyPool, q
<1> QED
  BY <1>1, <1>6, <1>7, <1>8, <1>9, BecomePreserves

LEMMA ResetPreserves ==
    ASSUME NEW n, NEW a, NEW limit, NEW policy
    PROVE  PoolInv /\ n \in owner.initials /\ a \in owner.alignments /\ limit \in owner.limits
           /\ policy \in owner.policies /\ ResetPool(n, a, limit, policy, TRUE) /\ UNCHANGED owner
              => PoolInv'
<1> DEFINE r == Reset([pool EXCEPT !.policy = policy], mem, done, TRUE, n, a, limit)
<1>0. SUFFICES ASSUME PoolInv, n \in owner.initials, a \in owner.alignments, limit \in owner.limits,
                      policy \in owner.policies, ResetPool(n, a, limit, policy, TRUE), UNCHANGED owner
               PROVE  PoolInv'
  OBVIOUS
<1>1. /\ n \in Nat /\ a \in Nat \ {0} /\ limit \in Nat /\ policy \in Policies /\ Sound(pool, mem)
      /\ owner.storages \in 0..MaxStorages /\ done \in Nat /\ now \in Nat
      /\ RegionsSound(pool, mem, done, regions)
  BY <1>0, OwnerIs DEF PoolInv, OwnerFacts
<1>2. mem.made \in Nat
  BY <1>1, SoundParts
<1>3. r.m.made <= owner.storages /\ Become(r.p, r.m, done, {}, {}) /\ now' = now
  BY <1>0 DEF ResetPool
<1>4. Sound(r.p, r.m) /\ Extends(mem, r.m) /\ r.p.cur = NoBuffer
  <2> DEFINE p == [pool EXCEPT !.policy = policy]
             x == Reset(p, mem, done, TRUE, n, a, limit)
  <2>1. Sound(p, mem)
    BY <1>1, PolicySound
  <2>2. x.m.made <= owner.storages
    BY <1>3
  <2>3. n \in Nat /\ a \in Nat \ {0} /\ limit \in Nat
    BY <1>1
  <2> HIDE DEF p
  <2>4. x.m.made \in Int
    BY <2>1, <2>3, ResetMade
  <2>5. x.m.made <= MaxStorages
    <3> HIDE DEF x
    <3> QED
      BY <1>1, <2>2, <2>4, StorageAssumption
  <2>6. Sound(x.p, x.m) /\ Extends(mem, x.m) /\ x.p.cur = NoBuffer
    BY <2>1, <2>3, <2>5, ResetSound
  <2> QED
    BY <2>6 DEF p
<1> HIDE DEF r
<1>5. \A x \in regions : x.buf # r.p.cur
  BY <1>1, <1>2, <1>4 DEF RegionsSound, NoBuffer
<1>6. now' \in Nat /\ now <= now'
  BY <1>1, <1>3
<1>7. \A x \in regions : Live(x, {}, done) /\ x.buf = r.p.cur => x.hi <= r.p.next
  BY <1>5
<1> QED
  BY <1>0, <1>1, <1>3, <1>4, <1>6, <1>7, BecomePreserves

\* Every step keeps the invariant, if no allocation fails.
LEMMA StepPreserves ==
    ASSUME MayFail = FALSE, PoolInv, [Next]_vars
    PROVE  PoolInv'
<1>1. CASE UNCHANGED vars
  BY <1>1 DEF vars, PoolInv, Sound, RegionsSound, Apart, UsageBound, EntriesMade, Distinct, Sized, Counted
<1>2. CASE Next
  <2>1. UNCHANGED owner /\ now \in Nat
    BY <1>2 DEF Next, PoolInv
  <2>2. CASE \E n \in owner.initials, a \in owner.alignments, limit \in owner.limits :
               Initialize(n, a, limit)
    BY <2>1, <2>2, InitializePreserves
  <2>3. CASE \E n \in owner.initials, a \in owner.alignments, limit \in owner.limits :
               \E policy \in owner.policies, ok \in Outcomes : ResetPool(n, a, limit, policy, ok)
    <3>1. \A ok \in Outcomes : ok = TRUE
      BY DEF Outcomes
    <3> QED
      BY <2>1, <2>3, <3>1, ResetPreserves
  <2>4. CASE \E n \in owner.sizes, ok \in Outcomes : AllocateRegion(n, ok)
    <3>1. \A ok \in Outcomes : ok = TRUE
      BY DEF Outcomes
    <3> QED
      BY <2>1, <2>4, <3>1, AllocatePreserves
  <2>5. CASE \E r \in regions, writing \in BOOLEAN : UseRegion(r, writing)
    BY <2>1, <2>5, UseRegionPreserves
  <2>6. CASE \E s \in 1..owner.serials : Complete(s)
    BY <2>1, <2>6, CompletePreserves
  <2>7. CASE \E a \in owner.alignments : SetAlignment(a)
    BY <2>1, <2>7, SetAlignmentPreserves
  <2>8. CASE Release
    <3>1. now' \in Nat /\ now <= now'
      BY <2>1, <2>8 DEF Release
    <3> QED
      BY <2>1, <2>8, <3>1, ReleasePreserves DEF Release
  <2>9. CASE FlushCommandBuffer
    <3>1. now' \in Nat /\ now <= now'
      BY <2>1, <2>9 DEF FlushCommandBuffer
    <3>2. CASE owner.flushReleases
      BY <2>1, <2>9, <3>1, <3>2, ReleasePreserves DEF FlushCommandBuffer
    <3>3. CASE ~owner.flushReleases
      <4>1. UNCHANGED <<pool, mem, done, regions>>
        BY <2>9, <3>3 DEF FlushCommandBuffer
      <4>2. UsageBound(mem, now')
        BY <3>1, UsageKept, ExtendsSelf DEF PoolInv
      <4> QED
        BY <2>1, <3>1, <4>1, <4>2 DEF PoolInv, Sound, RegionsSound, Apart, UsageBound,
                                      EntriesMade, Distinct, Sized, Counted
    <3> QED
      BY <3>2, <3>3
  <2>10. CASE DestroyPool
    BY <2>1, <2>10, DestroyPreserves
  <2> QED
    BY <1>2, <2>2, <2>3, <2>4, <2>5, <2>6, <2>7, <2>8, <2>9, <2>10 DEF Next
<1> QED
  BY <1>1, <1>2

-----------------------------------------------------------------------------
(***************************************************************************)
(* The theorems.  Each holds for every set of owners, every bound on the   *)
(* storages and every shared limit, on both platforms, as long as          *)
(* [newBufferWithLength:] succeeds: when it fails, allocateNewBuffer keeps *)
(* an entry without a Metal buffer and these properties are lost (the run  *)
(* pool_nil).                                                              *)
(***************************************************************************)

\* The inductive invariant: the lists of the pool are apart, hold buffers of
\* its size and are counted by mBuffersAllocated; every region ends before
\* mNextAllocationOffset if it is in the current buffer, and lives only as long
\* as the owner may use its buffer or the GPU reads it.
THEOREM PoolInvariant ==
    ASSUME MayFail = FALSE
    PROVE  Spec => []PoolInv
<1>1. Init => PoolInv
  BY InitPoolInv
<1>2. PoolInv /\ [Next]_vars => PoolInv'
  BY StepPreserves
<1> QED
  BY <1>1, <1>2, PTL DEF Spec

\* The members of mtl::BufferPool, of its buffers and of its regions keep
\* their types.
THEOREM PoolTypes ==
    ASSUME MayFail = FALSE
    PROVE  Spec => []TypeOK
<1>1. PoolInv => TypeOK
  <2>1. SUFFICES ASSUME PoolInv PROVE TypeOK
    OBVIOUS
  <2>2. \A r \in regions : r \in RegionType
    BY <2>1 DEF PoolInv, RegionsSound
  <2>3. pool \in PoolType /\ mem \in MemoryType
    BY <2>1, SoundParts DEF PoolInv
  <2> QED
    BY <2>1, <2>2, <2>3 DEF PoolInv, TypeOK
<1> QED
  BY <1>1, PoolInvariant, PTL

\* allocate() never hands out a byte that the owner or the GPU may still
\* access, although buffers are recycled without waiting for the GPU
\* (mtl_buffer_pool.h 38).
THEOREM RegionsAreDisjoint ==
    ASSUME MayFail = FALSE
    PROVE  Spec => []RegionsDisjoint
<1>1. PoolInv => RegionsDisjoint
  BY DEF PoolInv, Apart, RegionsDisjoint
<1> QED
  BY <1>1, PoolInvariant, PTL

\* A region that allocate() returns lies inside a Metal buffer, for as long as
\* it is in use.
THEOREM RegionsAreBacked ==
    ASSUME MayFail = FALSE
    PROVE  Spec => []RegionsBacked
<1>1. PoolInv => RegionsBacked
  <2>1. SUFFICES ASSUME PoolInv, NEW r \in regions PROVE r.buf # Nil /\ r.hi <= mem.size[r.buf]
    BY DEF RegionsBacked
  <2>2. r.buf \in 1..mem.made /\ r.hi <= mem.size[r.buf]
    BY <2>1 DEF PoolInv, RegionsSound
  <2> QED
    BY <2>2 DEF Nil
<1> QED
  BY <1>1, PoolInvariant, PTL

\* mBuffersAllocated is the number of buffers in the two lists and at the
\* front, although it is incremented, decremented and overwritten apart from
\* them (lines 61 to 85, 168, 293, 307 and 347).
THEOREM CountIsExact ==
    ASSUME MayFail = FALSE
    PROVE  Spec => []CountExact
<1>1. PoolInv => CountExact
  BY DEF PoolInv, Sound, Counted, CountExact
<1> QED
  BY <1>1, PoolInvariant, PTL

\* The asserts of lines 147 and 215: all buffers but the ones that became too
\* small while in flight have the size of the pool.
THEOREM SizesAreUniform ==
    ASSUME MayFail = FALSE
    PROVE  Spec => []SizesUniform
<1>1. PoolInv => SizesUniform
  <2>1. SUFFICES ASSUME PoolInv PROVE SizesUniform
    OBVIOUS
  <2>2. Sound(pool, mem)
    BY <2>1 DEF PoolInv
  <2>3. /\ pool.cur \in (1..mem.made) \cup {NoBuffer}
        /\ \A i \in 1..Len(pool.free) : pool.free[i] \in 1..mem.made
        /\ \A i \in 1..Len(pool.inflight) : pool.inflight[i] \in 1..mem.made
        /\ DOMAIN pool.free = 1..Len(pool.free) /\ DOMAIN pool.inflight = 1..Len(pool.inflight)
    BY <2>2, SoundParts
  <2>4. \A s \in 1..mem.made : SizeOf(mem, s) = mem.size[s]
    BY DEF SizeOf, Nil
  <2>5. pool.cur # NoBuffer => SizeOf(mem, pool.cur) = pool.size
    BY <2>2, <2>3, <2>4 DEF Sound, Sized
  <2>6. \A i \in DOMAIN pool.free : SizeOf(mem, pool.free[i]) = pool.size
    BY <2>2, <2>3, <2>4 DEF Sound, Sized
  <2>7. \A i \in DOMAIN pool.inflight : SizeOf(mem, pool.inflight[i]) <= pool.size
    BY <2>2, <2>3, <2>4 DEF Sound, Sized
  <2> QED
    BY <2>5, <2>6, <2>7 DEF SizesUniform
<1> QED
  BY <1>1, PoolInvariant, PTL

\* A pool with a limit (mMaxBuffers) never owns more buffers than that.
THEOREM LimitIsRespected ==
    ASSUME MayFail = FALSE
    PROVE  Spec => []LimitRespected
<1>1. PoolInv => LimitRespected
  BY DEF PoolInv, Sound, Counted, LimitRespected
<1> QED
  BY <1>1, PoolInvariant, PTL

\* ASSERT(!mBufferFreeList.empty()) of allocateNewBuffer: a full pool that has
\* released its buffers in flight has a free one to wait for.
THEOREM FreeBufferAtLimit ==
    ASSUME MayFail = FALSE
    PROVE  Spec => []FreeWhenAtLimit
<1>1. PoolInv => FreeWhenAtLimit
  <2>1. SUFFICES ASSUME PoolInv PROVE FreeWhenAtLimit
    OBVIOUS
  <2> DEFINE f == FinalizePendingBuffer(pool)
             q == ReleaseInFlightBuffers(f, mem)
  <2>2. Sound(f, mem) /\ f.cur = NoBuffer
    BY <2>1, FinalizeSound DEF PoolInv
  <2> HIDE DEF f
  <2>3. Sound(q, mem) /\ q.cur = NoBuffer /\ q.inflight = <<>>
    BY <2>2, ReleaseSound
  <2> HIDE DEF q
  <2>4. AtLimit(q) => q.free # <<>>
    BY <2>3, FreeAtLimit
  <2> QED
    BY <2>4 DEF FreeWhenAtLimit, q, f
<1> QED
  BY <1>1, PoolInvariant, PTL
=============================================================================
