-------------------------- MODULE BufferPoolLemmas --------------------------
(***************************************************************************)
(* What the operations of mtl::BufferPool do to a pool and its memory, for *)
(* any sizes and any number of buffers.                                    *)
(***************************************************************************)
EXTENDS BufferPoolOps, TLAPS, SequenceTheorems, FiniteSetTheorems, WellFoundedInduction


-----------------------------------------------------------------------------
(* Lemmas about numbers and sequences. *)

\* The storages are numbered by a word.
LEMMA StoragesBounded == Word \in Nat /\ MaxStorages \in Nat /\ MaxStorages < Word
<1>1. \A w \in Nat, k \in Int : k \in 0..(w - 1) => k \in Nat /\ k < w
  OBVIOUS
<1>2. Word \in Nat
  BY DEF Word
<1>3. MaxStorages \in 0..(Word - 1)
  BY StorageAssumption
<1> QED
  BY <1>1, <1>2, <1>3

\* A nonempty set of natural numbers has a least element.
LEMMA LeastNat ==
    ASSUME NEW S, S \subseteq Nat, S # {}
    PROVE  \E n \in S : \A m \in S : n <= m
<1>1. \E x \in S : \A y \in S : ~ (<<y, x>> \in OpToRel(<, Nat))
  BY NatLessThanWellFounded, WFMin
<1>2. PICK x \in S : \A y \in S : ~ (<<y, x>> \in OpToRel(<, Nat))
  BY <1>1
<1>3. \A y \in S : ~(y < x)
  BY <1>2 DEF OpToRel
<1>4. ASSUME NEW y \in S PROVE x <= y
  <2>1. x \in Nat /\ y \in Nat
    OBVIOUS
  <2>2. ~(y < x)
    BY <1>3
  <2> QED
    BY <2>1, <2>2
<1> QED
  BY <1>4

\* roundUp() does not make a number smaller.
LEMMA RoundUpBound ==
    ASSUME NEW v \in Nat, NEW a \in Nat \ {0}
    PROVE  RoundUp(v, a) \in Nat /\ RoundUp(v, a) >= v
<1> DEFINE q == (v + a - 1) \div a
<1>1. q \in Nat /\ a * q <= v + a - 1 /\ v + a - 1 < a * (q + 1)
  OBVIOUS
<1>2. a * (q + 1) = a * q + a
  <2> HIDE DEF q
  <2> QED
    BY <1>1
<1>3. q * a = a * q /\ a * q \in Nat
  <2> HIDE DEF q
  <2> QED
    BY <1>1
<1>4. q * a \in Nat /\ q * a >= v
  <2> HIDE DEF q
  <2> DEFINE x == a * q
  <2>1. x \in Nat /\ v + a - 1 < x + a
    BY <1>1, <1>2, <1>3
  <2>2. x >= v
    <3> HIDE DEF x
    <3> QED
      BY <2>1
  <2> QED
    BY <1>3, <2>2
<1> QED
  BY <1>4 DEF RoundUp

\* Rank counts from 0 at 0 to the cardinality at the end, in steps of at
\* most one, and steps at the members.
LEMMA RankSteps ==
    ASSUME NEW n \in Nat, NEW I, I \subseteq 1..n
    PROVE  /\ IsFiniteSet(I) /\ Cardinality(I) \in 0..n
           /\ Rank(I, 0) = 0 /\ Rank(I, n) = Cardinality(I)
           /\ \A i \in 0..n : Rank(I, i) \in 0..Cardinality(I)
           /\ \A i \in 1..n : Rank(I, i) = Rank(I, i - 1) + (IF i \in I THEN 1 ELSE 0)
<1> DEFINE Below(i) == {j \in I : j <= i}
<1>0. \A j \in I : j \in Nat /\ 1 <= j /\ j <= n
  OBVIOUS
<1>1. IsFiniteSet(I) /\ Cardinality(I) \in 0..n
  <2>1. IsFiniteSet(1..n) /\ Cardinality(1..n) = n
    BY FS_Interval
  <2>2. IsFiniteSet(I) /\ Cardinality(I) <= n
    BY <2>1, FS_Subset
  <2> QED
    BY <2>2, FS_CardinalityType
<1>2. Rank(I, 0) = 0
  <2>1. Below(0) = {}
    <3>1. \A j \in I : ~(j <= 0)
      BY <1>0
    <3> QED
      BY <3>1
  <2> QED
    BY <2>1, FS_EmptySet DEF Rank
<1>3. Rank(I, n) = Cardinality(I)
  <2>1. Below(n) = I
    BY <1>0
  <2> QED
    BY <2>1 DEF Rank
<1>4. ASSUME NEW i \in 0..n PROVE IsFiniteSet(Below(i)) /\ Cardinality(Below(i)) \in 0..Cardinality(I)
  <2>1. Below(i) \subseteq I
    OBVIOUS
  <2>2. IsFiniteSet(Below(i)) /\ Cardinality(Below(i)) <= Cardinality(I)
    BY <1>1, <2>1, FS_Subset
  <2> QED
    BY <1>1, <2>2, FS_CardinalityType
<1>5. ASSUME NEW i \in 1..n
      PROVE  Rank(I, i) = Rank(I, i - 1) + (IF i \in I THEN 1 ELSE 0)
  <2>0. i - 1 \in 0..n
    OBVIOUS
  <2>1. IsFiniteSet(Below(i - 1))
    BY <2>0, <1>4
  <2>2. CASE i \in I
    <3>1. Below(i) = Below(i - 1) \cup {i} /\ i \notin Below(i - 1)
      <4>1. \A j \in I : j <= i <=> j <= i - 1 \/ j = i
        BY <1>0
      <4>2. ~(i <= i - 1)
        OBVIOUS
      <4> QED
        BY <2>2, <4>1, <4>2
    <3>2. Cardinality(Below(i)) = Cardinality(Below(i - 1)) + 1
      BY <2>1, <3>1, FS_AddElement
    <3> QED
      BY <2>2, <3>2 DEF Rank
  <2>3. CASE i \notin I
    <3>1. Below(i) = Below(i - 1)
      <4>1. ASSUME NEW j \in I PROVE j <= i <=> j <= i - 1
        BY <1>0, <2>3
      <4> QED
        BY <4>1
    <3>2. Cardinality(Below(i - 1)) \in Nat
      BY <2>1, FS_CardinalityType
    <3> QED
      BY <2>3, <3>1, <3>2 DEF Rank
  <2> QED
    BY <2>2, <2>3
<1> QED
  BY <1>1, <1>2, <1>3, <1>4, <1>5 DEF Rank

\* Of two members the smaller has the smaller rank.
LEMMA RankIncreases ==
    ASSUME NEW n \in Nat, NEW I, I \subseteq 1..n,
           NEW i \in I, NEW j \in I, i < j
    PROVE  Rank(I, i) < Rank(I, j)
<1> DEFINE A == {k \in I : k <= i}
           B == {k \in I : k <= j}
<1>0. \A k \in I : k \in Nat
  OBVIOUS
<1>1. IsFiniteSet(I) /\ i \in Nat /\ j \in Nat
  BY <1>0, RankSteps
<1>2. A \subseteq B /\ B \subseteq I /\ j \in B /\ j \notin A
  <2>1. \A k \in I : k <= i => k <= j
    BY <1>0, <1>1
  <2>2. j <= j /\ ~(j <= i)
    BY <1>1
  <2> QED
    BY <2>1, <2>2
<1>3. IsFiniteSet(B)
  BY <1>1, <1>2, FS_Subset
<1>4. IsFiniteSet(A) /\ Cardinality(A) <= Cardinality(B) /\ Cardinality(A) \in Nat /\ Cardinality(B) \in Nat
  BY <1>2, <1>3, FS_Subset, FS_CardinalityType
<1>5. Cardinality(A) # Cardinality(B)
  BY <1>2, <1>3, FS_Subset
<1>6. Cardinality(A) < Cardinality(B)
  BY <1>4, <1>5
<1> QED
  BY <1>6 DEF Rank

\* There is a member of every rank.
LEMMA RankTaken ==
    ASSUME NEW n \in Nat, NEW I, I \subseteq 1..n, NEW k \in 1..Cardinality(I)
    PROVE  \E i \in I : Rank(I, i) = k
<1> DEFINE S == {i \in 0..n : Rank(I, i) >= k}
<1>1. /\ Cardinality(I) \in 0..n
      /\ Rank(I, 0) = 0 /\ Rank(I, n) = Cardinality(I)
      /\ \A i \in 0..n : Rank(I, i) \in 0..Cardinality(I)
      /\ \A i \in 1..n : Rank(I, i) = Rank(I, i - 1) + (IF i \in I THEN 1 ELSE 0)
  BY RankSteps
<1>2. S \subseteq Nat /\ n \in S
  BY <1>1
<1>3. PICK i \in S : \A j \in S : i <= j
  <2> HIDE DEF S
  <2> QED
    BY <1>2, LeastNat
<1>4. i \in 1..n
  BY <1>1, <1>3
<1>5. i - 1 \in 0..n /\ i - 1 \notin S
  BY <1>3, <1>4
<1>6. Rank(I, i - 1) < k /\ Rank(I, i) >= k /\ Rank(I, i - 1) \in Nat
  BY <1>1, <1>3, <1>5
<1>7. i \in I /\ Rank(I, i) = k
  BY <1>1, <1>4, <1>6
<1> QED
  BY <1>7

\* A selection has the elements of the selected positions, each once.
LEMMA SelectedFrom ==
    ASSUME NEW T, NEW s \in Seq(T), NEW I, I \subseteq 1..Len(s)
    PROVE  /\ Selected(s, I) \in Seq(T) /\ Len(Selected(s, I)) = Cardinality(I)
           /\ Cardinality(I) \in 0..Len(s)
           /\ \A k \in 1..Cardinality(I) : /\ Place(I, k) \in I
                                           /\ Selected(s, I)[k] = s[Place(I, k)]
           /\ \A k, l \in 1..Cardinality(I) : Place(I, k) = Place(I, l) => k = l
<1>1. Len(s) \in Nat /\ Cardinality(I) \in 0..Len(s)
  <2>1. Len(s) \in Nat
    OBVIOUS
  <2> QED
    BY <2>1, RankSteps
<1>2. ASSUME NEW k \in 1..Cardinality(I) PROVE Place(I, k) \in I /\ Rank(I, Place(I, k)) = k
  <2>1. \E i \in I : Rank(I, i) = k
    BY <1>1, RankTaken
  <2> QED
    BY <2>1 DEF Place
<1>3. \A k, l \in 1..Cardinality(I) : Place(I, k) = Place(I, l) => k = l
  BY <1>2
<1>4. \A k \in 1..Cardinality(I) : Selected(s, I)[k] = s[Place(I, k)]
  BY DEF Selected
<1>5. Selected(s, I) \in Seq(T) /\ Len(Selected(s, I)) = Cardinality(I)
  <2>1. \A i \in I : s[i] \in T
    OBVIOUS
  <2>2. \A k \in 1..Cardinality(I) : s[Place(I, k)] \in T
    BY <1>2, <2>1
  <2> QED
    BY <1>1, <2>2 DEF Selected
<1> QED
  BY <1>1, <1>2, <1>3, <1>4, <1>5

-----------------------------------------------------------------------------
(* The type of the pool and of the memory. *)

LEMMA FinalizeType ==
    ASSUME NEW p \in PoolType
    PROVE  FinalizePendingBuffer(p) \in PoolType
<1>1. p.cur # NoBuffer => Append(p.inflight, p.cur) \in Seq(Storages \cup {Nil})
  BY DEF PoolType
<1>2. p.inflight \in Seq(Storages \cup {Nil})
  BY DEF PoolType
<1>3. (IF p.cur = NoBuffer THEN p.inflight ELSE Append(p.inflight, p.cur)) \in Seq(Storages \cup {Nil})
  BY <1>1, <1>2
<1> QED
  BY <1>3 DEF FinalizePendingBuffer, PoolType

Kept(p, m) == {i \in 1..Len(p.inflight) : Reusable(p, m, p.inflight[i])}

\* What releaseInFlightBuffers() keeps: buffers of the in-flight list, each
\* once, that may be reused.
LEMMA ReleaseKeeps ==
    ASSUME NEW p \in PoolType, NEW m
    PROVE  LET s == Selected(p.inflight, Kept(p, m))
               c == Cardinality(Kept(p, m))
           IN /\ ReleaseInFlightBuffers(p, m) =
                    [p EXCEPT !.inflight = <<>>, !.free = p.free \o s,
                              !.count = (p.count - (Len(p.inflight) - c)) % Word]
              /\ s \in Seq(Storages \cup {Nil}) /\ Len(s) = c /\ c \in 0..Len(p.inflight)
              /\ \A k \in 1..c : /\ Place(Kept(p, m), k) \in 1..Len(p.inflight)
                                 /\ s[k] = p.inflight[Place(Kept(p, m), k)]
                                 /\ Reusable(p, m, s[k])
              /\ \A k, l \in 1..c : Place(Kept(p, m), k) = Place(Kept(p, m), l) => k = l
<1> DEFINE I == Kept(p, m)
           s == Selected(p.inflight, I)
           T == Storages \cup {Nil}
<1>1. p.inflight \in Seq(T) /\ DOMAIN p.inflight = 1..Len(p.inflight)
  BY DEF PoolType
<1>2. I \subseteq 1..Len(p.inflight) /\ \A i \in I : Reusable(p, m, p.inflight[i])
  BY DEF Kept
<1>3. ReleaseInFlightBuffers(p, m) =
        [p EXCEPT !.inflight = <<>>, !.free = p.free \o s,
                  !.count = (p.count - (Len(p.inflight) - Cardinality(I))) % Word]
  BY <1>1 DEF ReleaseInFlightBuffers, Kept
<1> HIDE DEF I, T
<1>4. /\ s \in Seq(T) /\ Len(s) = Cardinality(I)
      /\ Cardinality(I) \in 0..Len(p.inflight)
      /\ \A k \in 1..Cardinality(I) : Place(I, k) \in I /\ s[k] = p.inflight[Place(I, k)]
      /\ \A k, l \in 1..Cardinality(I) : Place(I, k) = Place(I, l) => k = l
  BY <1>1, <1>2, SelectedFrom, ZenonT(60)
<1> HIDE DEF s
<1>5. \A k \in 1..Cardinality(I) : Place(I, k) \in 1..Len(p.inflight) /\ Reusable(p, m, s[k])
  BY <1>2, <1>4
<1> QED
  BY <1>3, <1>4, <1>5 DEF I, T, s

LEMMA ReleaseType ==
    ASSUME NEW p \in PoolType, NEW m
    PROVE  ReleaseInFlightBuffers(p, m) \in PoolType
<1> DEFINE s == Selected(p.inflight, Kept(p, m))
           c == Cardinality(Kept(p, m))
<1>1. /\ ReleaseInFlightBuffers(p, m) =
            [p EXCEPT !.inflight = <<>>, !.free = p.free \o s,
                      !.count = (p.count - (Len(p.inflight) - c)) % Word]
      /\ s \in Seq(Storages \cup {Nil}) /\ c \in 0..Len(p.inflight)
  BY ReleaseKeeps
<1> HIDE DEF s, c
<1>2. p.free \in Seq(Storages \cup {Nil}) /\ p.inflight \in Seq(Storages \cup {Nil}) /\ p.count \in Nat
  BY DEF PoolType
<1>3. p.free \o s \in Seq(Storages \cup {Nil}) /\ <<>> \in Seq(Storages \cup {Nil})
  BY <1>1, <1>2
<1>4. (p.count - (Len(p.inflight) - c)) % Word \in Nat
  BY <1>1, <1>2 DEF Word
<1> QED
  BY <1>1, <1>3, <1>4 DEF PoolType

LEMMA GrowType ==
    ASSUME NEW p \in PoolType, NEW n \in Nat
    PROVE  Grow(p, n) \in PoolType
<1>1. p.initial \in Nat /\ p.count \in Nat /\ Len(p.free) \in Nat
  BY DEF PoolType
<1>2. (p.count - Len(p.free)) % Word \in Nat
  BY <1>1 DEF Word
<1>3. <<>> \in Seq(Storages \cup {Nil})
  OBVIOUS
<1> QED
  BY <1>1, <1>2, <1>3 DEF Grow, DestroyFreeList, PoolType

LEMMA UpdateAlignmentType ==
    ASSUME NEW p \in PoolType, NEW a \in Nat \ {0}
    PROVE  UpdateAlignment(p, a) \in PoolType
<1>1. p.next \in Nat /\ RoundUp(p.next, a) \in Nat
  BY RoundUpBound DEF PoolType
<1> QED
  BY <1>1 DEF UpdateAlignment, PoolType

LEMMA CreateStoragesType ==
    ASSUME NEW m \in MemoryType, NEW k \in Nat, NEW n \in Nat, NEW b,
           m.made + k <= MaxStorages
    PROVE  /\ CreateStorages(m, k, n, b) \in MemoryType
           /\ CreateStorages(m, k, n, b).made = m.made + k
           /\ \A s \in 1..m.made : /\ CreateStorages(m, k, n, b).size[s] = m.size[s]
                                   /\ CreateStorages(m, k, n, b).usage[s] = m.usage[s]
           /\ \A s \in (m.made + 1)..(m.made + k) : /\ CreateStorages(m, k, n, b).size[s] = n
                                                    /\ CreateStorages(m, k, n, b).usage[s] = 0
           /\ \A s \in Storages : CreateStorages(m, k, n, b).usage[s] \in {0, m.usage[s]}
<1>0. MaxStorages \in Nat
  BY StoragesBounded
<1>1. /\ m.made \in 0..MaxStorages /\ m.size \in [Storages -> Nat] /\ m.shared \in [Storages -> BOOLEAN]
      /\ m.usage \in [Storages -> Nat] /\ m.needSync \in [Storages -> BOOLEAN]
  BY DEF MemoryType
<1>2. m.made + k \in 0..MaxStorages
  BY <1>0, <1>1
<1> DEFINE fresh == (m.made + 1)..(m.made + k)
           size == [s \in Storages |-> IF s \in fresh THEN n ELSE m.size[s]]
           shared == [s \in Storages |-> IF s \in fresh THEN StorageIsShared(b) ELSE m.shared[s]]
           usage == [s \in Storages |-> IF s \in fresh THEN 0 ELSE m.usage[s]]
           needSync == [s \in Storages |-> s \notin fresh /\ m.needSync[s]]
           new == CreateStorages(m, k, n, b)
<1>3. size \in [Storages -> Nat] /\ usage \in [Storages -> Nat]
  BY <1>1
<1>4. shared \in [Storages -> BOOLEAN]
  BY <1>1 DEF StorageIsShared
<1>5. needSync \in [Storages -> BOOLEAN]
  OBVIOUS
<1>6. new = [made |-> m.made + k, size |-> size, shared |-> shared, usage |-> usage, needSync |-> needSync]
  BY DEF CreateStorages
<1>7. ASSUME NEW s \in 1..m.made PROVE size[s] = m.size[s] /\ usage[s] = m.usage[s]
  <2>1. s \in Storages /\ s \notin fresh
    BY <1>0, <1>1 DEF Storages
  <2> QED
    BY <2>1
<1>8. ASSUME NEW s \in fresh PROVE size[s] = n /\ usage[s] = 0
  <2>1. s \in Storages
    BY <1>0, <1>1 DEF Storages
  <2> QED
    BY <2>1
<1>9. \A s \in Storages : usage[s] \in {0, m.usage[s]}
  OBVIOUS
<1> HIDE DEF size, shared, usage, needSync
<1>10. new \in MemoryType /\ new.made = m.made + k
  BY <1>2, <1>3, <1>4, <1>5, <1>6 DEF MemoryType
<1>11. new.size = size /\ new.usage = usage
  BY <1>6
<1> QED
  BY <1>7, <1>8, <1>9, <1>10, <1>11

-----------------------------------------------------------------------------
(* The invariant of a pool p in the memory m. *)

EntriesMade(p, m) ==
    /\ p.cur \in (1..m.made) \cup {NoBuffer}
    /\ p.free \in Seq(1..m.made) /\ p.inflight \in Seq(1..m.made)

\* A buffer has one place.
Distinct(p) ==
    /\ \A i, j \in 1..Len(p.free) : p.free[i] = p.free[j] => i = j
    /\ \A i, j \in 1..Len(p.inflight) : p.inflight[i] = p.inflight[j] => i = j
    /\ \A i \in 1..Len(p.free), j \in 1..Len(p.inflight) : p.free[i] # p.inflight[j]
    /\ \A i \in 1..Len(p.free) : p.free[i] # p.cur
    /\ \A i \in 1..Len(p.inflight) : p.inflight[i] # p.cur

Sized(p, m) ==
    /\ p.cur # NoBuffer => m.size[p.cur] = p.size
    /\ \A i \in 1..Len(p.free) : m.size[p.free[i]] = p.size
    /\ \A i \in 1..Len(p.inflight) : m.size[p.inflight[i]] <= p.size

Counted(p, m) ==
    /\ p.count = Len(p.free) + Len(p.inflight) + (IF p.cur = NoBuffer THEN 0 ELSE 1)
    /\ p.count <= m.made
    /\ p.max > 0 => p.count <= p.max

Sound(p, m) ==
    /\ p \in PoolType /\ m \in MemoryType
    /\ EntriesMade(p, m) /\ Distinct(p) /\ Sized(p, m) /\ Counted(p, m)

LEMMA FinalizeSound ==
    ASSUME NEW p, NEW m, Sound(p, m)
    PROVE  LET q == FinalizePendingBuffer(p) IN
           /\ Sound(q, m) /\ q.cur = NoBuffer /\ q.next = 0
           /\ q.size = p.size /\ q.max = p.max
<1> DEFINE q == FinalizePendingBuffer(p)
<1>1. /\ q.cur = NoBuffer /\ q.next = 0 /\ q.size = p.size /\ q.max = p.max
      /\ q.free = p.free /\ q.count = p.count
      /\ q.inflight = IF p.cur = NoBuffer THEN p.inflight ELSE Append(p.inflight, p.cur)
  BY DEF FinalizePendingBuffer, Sound, PoolType
<1>2. q \in PoolType
  BY FinalizeType DEF Sound
<1>3. /\ p.cur \in (1..m.made) \cup {NoBuffer}
      /\ p.free \in Seq(1..m.made) /\ p.inflight \in Seq(1..m.made)
  BY DEF Sound, EntriesMade
<1>4. m.made \in Nat
  BY DEF Sound, MemoryType
<1> HIDE DEF q
<1>5. CASE p.cur = NoBuffer
  <2>1. q.inflight = p.inflight
    BY <1>1, <1>5
  <2>2. EntriesMade(q, m)
    BY <1>1, <1>3, <2>1 DEF EntriesMade
  <2>3. Distinct(q)
    BY <1>1, <1>5, <2>1, SMTT(40) DEF Distinct, Sound
  <2>4. Sized(q, m)
    BY <1>1, <2>1 DEF Sized, Sound
  <2>5. Counted(q, m)
    BY <1>1, <1>5, <2>1 DEF Counted, Sound
  <2> QED
    BY <1>1, <1>2, <2>2, <2>3, <2>4, <2>5 DEF Sound, q
<1>6. CASE p.cur # NoBuffer
  <2> DEFINE n == Len(p.inflight)
  <2>1. /\ q.inflight \in Seq(1..m.made) /\ Len(q.inflight) = n + 1 /\ n \in Nat
        /\ \A i \in 1..n : q.inflight[i] = p.inflight[i] /\ q.inflight[i] \in 1..m.made
        /\ q.inflight[n + 1] = p.cur /\ p.cur \in 1..m.made
    <3>1. p.cur \in 1..m.made /\ q.inflight = Append(p.inflight, p.cur) /\ n \in Nat
      BY <1>1, <1>3, <1>6
    <3>2. /\ Append(p.inflight, p.cur) \in Seq(1..m.made)
          /\ Len(Append(p.inflight, p.cur)) = n + 1
          /\ \A i \in 1..n : Append(p.inflight, p.cur)[i] = p.inflight[i]
          /\ Append(p.inflight, p.cur)[n + 1] = p.cur
      BY <1>3, <3>1, AppendProperties
    <3>3. \A i \in 1..n : p.inflight[i] \in 1..m.made
      BY <1>3, ElementOfSeq
    <3> QED
      BY <3>1, <3>2, <3>3
  <2>2. EntriesMade(q, m)
    BY <1>1, <1>3, <2>1 DEF EntriesMade
  <2>3. Distinct(q)
    <3>1. \A i \in 1..Len(p.free) : p.free[i] # q.cur /\ p.free[i] \in 1..m.made
      BY <1>1, <1>3, <1>4, SMTT(40) DEF NoBuffer
    <3>2. \A i \in 1..(n + 1) : q.inflight[i] # q.cur
      BY <1>1, <1>4, <2>1 DEF NoBuffer
    <3>3. \A i \in 1..(n + 1) : i \in 1..n \/ i = n + 1
      BY <2>1
    <3>4. /\ \A i \in 1..n : p.inflight[i] # p.cur
          /\ \A i, j \in 1..n : p.inflight[i] = p.inflight[j] => i = j
      BY DEF Distinct, Sound
    <3>5. \A i, j \in 1..(n + 1) : q.inflight[i] = q.inflight[j] => i = j
      <4> SUFFICES ASSUME NEW i \in 1..(n + 1), NEW j \in 1..(n + 1), q.inflight[i] = q.inflight[j]
                   PROVE  i = j
        OBVIOUS
      <4> QED
        BY <2>1, <3>3, <3>4
    <3>6. \A i \in 1..Len(p.free), j \in 1..(n + 1) : p.free[i] # q.inflight[j]
      BY <2>1, <3>3, SMTT(40) DEF Distinct, Sound
    <3>7. \A i, j \in 1..Len(p.free) : p.free[i] = p.free[j] => i = j
      BY DEF Distinct, Sound
    <3>8. Len(q.inflight) = n + 1 /\ q.free = p.free
      BY <1>1, <2>1
    <3> HIDE DEF n
    <3> QED
      BY <3>1, <3>2, <3>5, <3>6, <3>7, <3>8 DEF Distinct
  <2>4. Sized(q, m)
    <3>1. \A i \in 1..(n + 1) : i \in 1..n \/ i = n + 1
      BY <2>1
    <3>2. /\ m.size[p.cur] = p.size
          /\ \A i \in 1..n : m.size[p.inflight[i]] <= p.size
          /\ \A i \in 1..Len(p.free) : m.size[p.free[i]] = p.size
      BY <1>6 DEF Sized, Sound
    <3>3. p.size <= p.size
      BY DEF Sound, PoolType
    <3> HIDE DEF n
    <3> QED
      BY <1>1, <2>1, <3>1, <3>2, <3>3 DEF Sized
  <2>5. Counted(q, m)
    <3>1. Len(p.free) \in Nat
      BY <1>3
    <3>2. Len(q.inflight) = n + 1 /\ n \in Nat /\ p.count = Len(p.free) + n + 1
      BY <1>6, <2>1 DEF Counted, Sound
    <3>3. p.count <= m.made /\ (p.max > 0 => p.count <= p.max)
      BY DEF Counted, Sound
    <3>4. q.count = p.count /\ q.max = p.max /\ q.free = p.free /\ q.cur = NoBuffer
      BY <1>1
    <3> HIDE DEF n
    <3>5. p.count = Len(p.free) + Len(q.inflight) + 0
      <4> DEFINE a == Len(p.free)
                 b == Len(q.inflight)
                 c == p.count
      <4>1. a \in Nat /\ b = n + 1 /\ c = a + n + 1 /\ n \in Nat
        BY <3>1, <3>2
      <4> HIDE DEF a, b, c
      <4>2. c = a + b + 0
        BY <4>1
      <4> QED
        BY <4>2 DEF a, b, c
    <3> QED
      BY <3>3, <3>4, <3>5 DEF Counted
  <2> QED
    BY <1>1, <1>2, <2>2, <2>3, <2>4, <2>5 DEF Sound, q
<1> QED
  BY <1>5, <1>6

LEMMA SoundParts ==
    ASSUME NEW p, NEW m, Sound(p, m)
    PROVE  /\ p \in PoolType /\ m \in MemoryType
           /\ m.made \in Nat /\ m.made <= MaxStorages /\ MaxStorages \in Nat /\ MaxStorages < Word
           /\ \A s \in 1..m.made : s \in Storages /\ m.size[s] \in Nat /\ m.usage[s] \in Nat
           /\ p.size \in Nat /\ p.next \in Nat /\ p.count \in Nat /\ p.max \in Nat
           /\ p.initial \in Nat /\ p.align \in Nat \ {0}
           /\ p.cur \in (1..m.made) \cup {NoBuffer}
           /\ p.free \in Seq(1..m.made) /\ p.inflight \in Seq(1..m.made)
           /\ Len(p.free) \in Nat /\ Len(p.inflight) \in Nat
           /\ \A i \in 1..Len(p.free) : p.free[i] \in 1..m.made
           /\ \A i \in 1..Len(p.inflight) : p.inflight[i] \in 1..m.made
<1>1. p \in PoolType /\ m \in MemoryType
  BY DEF Sound
<1>2. MaxStorages \in Nat /\ MaxStorages < Word /\ m.made \in Nat /\ m.made <= MaxStorages
  <2>1. MaxStorages \in Nat /\ MaxStorages < Word
    BY StoragesBounded
  <2>2. m.made \in 0..MaxStorages
    BY <1>1 DEF MemoryType
  <2> QED
    BY <2>1, <2>2
<1>3. \A s \in 1..m.made : s \in Storages
  BY <1>2 DEF Storages
<1>4. m.size \in [Storages -> Nat] /\ m.usage \in [Storages -> Nat]
  BY <1>1 DEF MemoryType
<1>5. /\ p.size \in Nat /\ p.next \in Nat /\ p.count \in Nat /\ p.max \in Nat
      /\ p.initial \in Nat /\ p.align \in Nat \ {0}
  BY <1>1 DEF PoolType
<1>6. /\ p.cur \in (1..m.made) \cup {NoBuffer}
      /\ p.free \in Seq(1..m.made) /\ p.inflight \in Seq(1..m.made)
  BY DEF Sound, EntriesMade
<1>7. Len(p.free) \in Nat /\ Len(p.inflight) \in Nat
  BY <1>6
<1>8. ASSUME NEW i \in 1..Len(p.free) PROVE p.free[i] \in 1..m.made
  BY <1>6, ElementOfSeq
<1>9. ASSUME NEW i \in 1..Len(p.inflight) PROVE p.inflight[i] \in 1..m.made
  BY <1>6, ElementOfSeq
<1> QED
  BY <1>1, <1>2, <1>3, <1>4, <1>5, <1>6, <1>7, <1>8, <1>9

\* The counter of the pool is exact when in-flight buffers are released, and
\* what is kept has the size of the pool.
LEMMA ReleaseSound ==
    ASSUME NEW p, NEW m, Sound(p, m)
    PROVE  LET q == ReleaseInFlightBuffers(p, m) IN
           /\ Sound(q, m) /\ q.cur = p.cur /\ q.next = p.next
           /\ q.size = p.size /\ q.max = p.max /\ q.inflight = <<>>
           /\ q.align = p.align /\ q.initial = p.initial /\ q.always = p.always
<1> DEFINE q == ReleaseInFlightBuffers(p, m)
           s == Selected(p.inflight, Kept(p, m))
           c == Cardinality(Kept(p, m))
           at(k) == Place(Kept(p, m), k)
           n == Len(p.free)
<1>1. /\ p \in PoolType /\ m \in MemoryType /\ m.made \in Nat
      /\ m.made <= MaxStorages /\ MaxStorages < Word /\ MaxStorages \in Nat
      /\ p.free \in Seq(1..m.made) /\ p.inflight \in Seq(1..m.made)
      /\ n \in Nat /\ Len(p.inflight) \in Nat /\ p.count \in Nat /\ p.size \in Nat
      /\ p.cur \in (1..m.made) \cup {NoBuffer}
      /\ \A i \in 1..n : p.free[i] \in 1..m.made
      /\ \A i \in 1..Len(p.inflight) : p.inflight[i] \in 1..m.made
      /\ \A t \in 1..m.made : m.size[t] \in Nat
  BY SoundParts
<1>2. /\ q = [p EXCEPT !.inflight = <<>>, !.free = p.free \o s,
                       !.count = (p.count - (Len(p.inflight) - c)) % Word]
      /\ s \in Seq(Storages \cup {Nil}) /\ Len(s) = c /\ c \in 0..Len(p.inflight)
      /\ \A k \in 1..c : /\ at(k) \in 1..Len(p.inflight)
                         /\ s[k] = p.inflight[at(k)]
                         /\ Reusable(p, m, s[k])
      /\ \A k, l \in 1..c : at(k) = at(l) => k = l
  BY <1>1, ReleaseKeeps
<1>3. q \in PoolType
  BY <1>1, ReleaseType
<1>4. /\ q.cur = p.cur /\ q.next = p.next /\ q.size = p.size /\ q.max = p.max /\ q.inflight = <<>>
      /\ q.free = p.free \o s /\ q.count = (p.count - (Len(p.inflight) - c)) % Word
      /\ q.align = p.align /\ q.initial = p.initial /\ q.always = p.always
  BY <1>1, <1>2 DEF PoolType
<1> HIDE DEF q, s, c, at
<1>5. \A k \in 1..c : s[k] \in 1..m.made /\ s[k] = p.inflight[at(k)] /\ at(k) \in 1..Len(p.inflight)
  BY <1>1, <1>2
<1>6. s \in Seq(1..m.made)
  <2>1. Kept(p, m) \subseteq 1..Len(p.inflight)
    BY DEF Kept
  <2> QED
    BY <1>1, <2>1, SelectedFrom DEF s
<1>7. /\ p.free \o s \in Seq(1..m.made) /\ Len(p.free \o s) = n + c
      /\ \A i \in 1..(n + c) : (p.free \o s)[i] = IF i <= n THEN p.free[i] ELSE s[i - n]
  <2>1. /\ p.free \o s \in Seq(1..m.made) /\ Len(p.free \o s) = Len(p.free) + Len(s)
        /\ \A i \in 1..Len(p.free) + Len(s) :
              (p.free \o s)[i] = IF i <= Len(p.free) THEN p.free[i] ELSE s[i - Len(p.free)]
    BY <1>1, <1>6, ConcatProperties
  <2> QED
    BY <1>2, <2>1
<1>8. /\ Len(q.free) = n + c /\ q.free \in Seq(1..m.made) /\ Len(q.inflight) = 0 /\ q.inflight \in Seq(1..m.made)
      /\ \A i \in 1..n : q.free[i] = p.free[i]
      /\ \A k \in 1..c : q.free[n + k] = s[k]
      /\ \A i \in 1..(n + c) : i \in 1..n \/ (i - n \in 1..c /\ i = n + (i - n))
  <2>1. c \in Nat
    BY <1>1, <1>2
  <2>2. \A i \in 1..n : i \in 1..(n + c) /\ i <= n
    BY <1>1, <2>1
  <2>3. \A k \in 1..c : n + k \in 1..(n + c) /\ ~(n + k <= n) /\ (n + k) - n = k
    BY <1>1, <2>1
  <2>4. \A i \in 1..(n + c) : i \in 1..n \/ (i - n \in 1..c /\ i = n + (i - n))
    BY <1>1, <2>1
  <2> QED
    BY <1>4, <1>7, <2>2, <2>3, <2>4
<1>9. EntriesMade(q, m)
  BY <1>1, <1>4, <1>8 DEF EntriesMade
<1>10. Distinct(q)
  <2>1. /\ \A i, j \in 1..n : p.free[i] = p.free[j] => i = j
        /\ \A i, j \in 1..Len(p.inflight) : p.inflight[i] = p.inflight[j] => i = j
        /\ \A i \in 1..n, j \in 1..Len(p.inflight) : p.free[i] # p.inflight[j]
        /\ \A i \in 1..n : p.free[i] # p.cur
        /\ \A i \in 1..Len(p.inflight) : p.inflight[i] # p.cur
    BY DEF Distinct, Sound
  <2>2. \A k, l \in 1..c : s[k] = s[l] => k = l
    BY <1>2, <1>5, <2>1
  <2>3. \A i \in 1..n, k \in 1..c : p.free[i] # s[k]
    BY <1>5, <2>1
  <2>4. \A k \in 1..c : s[k] # p.cur
    BY <1>5, <2>1
  <2>5. \A i, j \in 1..(n + c) : q.free[i] = q.free[j] => i = j
    <3> SUFFICES ASSUME NEW i \in 1..(n + c), NEW j \in 1..(n + c), q.free[i] = q.free[j]
                 PROVE  i = j
      OBVIOUS
    <3>1. CASE i \in 1..n /\ j \in 1..n
      BY <1>8, <2>1, <3>1
    <3>2. CASE i \in 1..n /\ j \notin 1..n
      BY <1>8, <2>3, <3>2
    <3>3. CASE i \notin 1..n /\ j \in 1..n
      BY <1>8, <2>3, <3>3
    <3>4. CASE i \notin 1..n /\ j \notin 1..n
      BY <1>8, <2>2, <3>4
    <3> QED
      BY <3>1, <3>2, <3>3, <3>4
  <2>6. \A i \in 1..(n + c) : q.free[i] # q.cur
    BY <1>4, <1>8, <2>1, <2>4
  <2>7. Len(q.free) = n + c /\ 1..Len(q.inflight) = {}
    BY <1>8
  <2> QED
    BY <2>5, <2>6, <2>7 DEF Distinct
<1>11. Sized(q, m)
  <2>1. \A k \in 1..c : m.size[s[k]] = p.size
    <3> TAKE k \in 1..c
    <3>1. s[k] # Nil /\ m.size[s[k]] \in Nat
      BY <1>1, <1>5, SMTT(40) DEF Nil
    <3>2. m.size[s[k]] >= p.size
      BY <1>2, <3>1 DEF Reusable, SizeOf
    <3>3. m.size[s[k]] <= p.size
      BY <1>5 DEF Sized, Sound
    <3> QED
      BY <1>1, <3>1, <3>2, <3>3
  <2>2. /\ p.cur # NoBuffer => m.size[p.cur] = p.size
        /\ \A i \in 1..n : m.size[p.free[i]] = p.size
    BY DEF Sized, Sound
  <2>3. \A i \in 1..(n + c) : m.size[q.free[i]] = p.size
    <3> TAKE i \in 1..(n + c)
    <3>1. CASE i \in 1..n
      BY <1>8, <2>2, <3>1
    <3>2. CASE i \notin 1..n
      <4>1. i - n \in 1..c /\ i = n + (i - n)
        BY <1>8, <3>2
      <4>2. q.free[i] = s[i - n]
        BY <1>8, <4>1
      <4> QED
        BY <2>1, <4>1, <4>2
    <3> QED
      BY <3>1, <3>2
  <2>4. Len(q.free) = n + c /\ 1..Len(q.inflight) = {}
    BY <1>8
  <2> QED
    BY <1>4, <2>2, <2>3, <2>4 DEF Sized
<1>12. Counted(q, m)
  <2> DEFINE d == IF p.cur = NoBuffer THEN 0 ELSE 1
             l == Len(p.inflight)
             k == p.count
  <2>1. /\ k = n + l + d /\ k <= m.made /\ (p.max > 0 => k <= p.max)
    BY DEF Counted, Sound
  <2>2. d \in 0..1 /\ d = IF q.cur = NoBuffer THEN 0 ELSE 1
    BY <1>4
  <2>3. k \in Nat /\ l \in Nat /\ n \in Nat
    BY <1>1
  <2>31. c \in 0..l
    BY <1>2
  <2>32. m.made \in Nat /\ MaxStorages \in Nat /\ m.made <= MaxStorages
    BY <1>1
  <2>33. MaxStorages < 65536
    BY <1>1 DEF Word
  <2>4. q.count = (k - (l - c)) % 65536 /\ q.max = p.max /\ p.max \in Nat
    BY <1>4, SoundParts DEF Word
  <2>5. Len(q.free) = n + c /\ Len(q.inflight) = 0
    BY <1>8
  <2> HIDE DEF d, k, l, n
  <2>6. k - (l - c) \in 0..k /\ k < 65536
    BY <2>1, <2>2, <2>3, <2>31, <2>32, <2>33
  <2>7. q.count = k - (l - c)
    <3> DEFINE x == k - (l - c)
    <3>1. x \in Int /\ 0 <= x /\ x < 65536
      BY <2>3, <2>31, <2>6
    <3> HIDE DEF x
    <3>2. x % 65536 = x
      BY <3>1, Z3
    <3> QED
      BY <2>4, <3>2 DEF x
  <2>8. q.count = n + c + 0 + d /\ q.count <= k
    BY <2>1, <2>2, <2>3, <2>31, <2>7
  <2>9. q.count <= m.made /\ (q.max > 0 => q.count <= q.max)
    BY <2>1, <2>2, <2>3, <2>31, <2>32, <2>4, <2>8
  <2> QED
    BY <2>2, <2>5, <2>8, <2>9 DEF Counted
<1> QED
  BY <1>1, <1>3, <1>4, <1>9, <1>10, <1>11, <1>12 DEF Sound, q

\* The counter of the pool does not wrap around.
LEMMA WordExact ==
    ASSUME NEW x \in Nat, x < Word
    PROVE  x % Word = x
<1>1. x \in Int /\ 0 <= x /\ x < 65536
  BY DEF Word
<1>2. x % 65536 = x
  BY <1>1, Z3
<1> QED
  BY <1>2 DEF Word

\* After it has grown, the pool has buffers of at least the size asked for.
LEMMA GrowSound ==
    ASSUME NEW p, NEW m, Sound(p, m), p.cur = NoBuffer, NEW n \in Nat
    PROVE  LET q == Grow(p, n) IN
           /\ Sound(q, m) /\ q.cur = NoBuffer /\ q.next = p.next
           /\ q.size >= n /\ q.max = p.max
<1> DEFINE q == Grow(p, n)
<1>1. /\ p \in PoolType /\ m \in MemoryType /\ m.made \in Nat
      /\ m.made <= MaxStorages /\ MaxStorages < Word /\ MaxStorages \in Nat
      /\ p.free \in Seq(1..m.made) /\ p.inflight \in Seq(1..m.made)
      /\ Len(p.free) \in Nat /\ Len(p.inflight) \in Nat /\ p.count \in Nat /\ p.size \in Nat
      /\ p.max \in Nat /\ p.initial \in Nat /\ p.next \in Nat
      /\ \A i \in 1..Len(p.inflight) : p.inflight[i] \in 1..m.made
      /\ \A t \in 1..m.made : m.size[t] \in Nat
  BY SoundParts
<1>2. q \in PoolType
  BY <1>1, GrowType
<1>3. CASE ~(n > p.size)
  <2>1. q = p
    BY <1>3 DEF Grow
  <2> QED
    BY <1>1, <1>3, <2>1
<1>4. CASE n > p.size
  <2> DEFINE big == IF p.initial > n THEN p.initial ELSE n
  <2>1. /\ q.cur = NoBuffer /\ q.next = p.next /\ q.size = big /\ q.max = p.max
        /\ q.inflight = p.inflight /\ q.free = <<>> /\ q.count = (p.count - Len(p.free)) % Word
    BY <1>1, <1>4 DEF Grow, DestroyFreeList, PoolType
  <2>2. big \in Nat /\ big >= n /\ big > p.size
    BY <1>1, <1>4
  <2> HIDE DEF q, big
  <2>3. EntriesMade(q, m)
    BY <1>1, <2>1 DEF EntriesMade
  <2>4. Distinct(q)
    <3>1. \A i \in 1..Len(p.inflight) : p.inflight[i] # NoBuffer
      BY <1>1, SMTT(40) DEF NoBuffer
    <3>2. 1..Len(q.free) = {}
      BY <2>1
    <3> QED
      BY <2>1, <3>1, <3>2 DEF Distinct, Sound
  <2>5. Sized(q, m)
    <3>1. \A i \in 1..Len(p.inflight) : m.size[p.inflight[i]] <= p.size /\ m.size[p.inflight[i]] \in Nat
      BY <1>1 DEF Sized, Sound
    <3>2. \A i \in 1..Len(p.inflight) : m.size[p.inflight[i]] <= big
      BY <1>1, <2>2, <3>1, SMTT(40)
    <3>3. 1..Len(q.free) = {}
      BY <2>1
    <3> QED
      BY <2>1, <3>2, <3>3 DEF Sized
  <2>6. Counted(q, m)
    <3> DEFINE f == Len(p.free)
               l == Len(p.inflight)
               k == p.count
    <3>1. k = f + l + 0 /\ k <= m.made /\ (p.max > 0 => k <= p.max)
      BY DEF Counted, Sound
    <3>2. f \in Nat /\ l \in Nat /\ k \in Nat /\ m.made \in Nat /\ p.max \in Nat
      BY <1>1
    <3>3. m.made < Word /\ Word \in Nat
      BY <1>1 DEF Word
    <3>4. q.count = (k - f) % Word /\ q.max = p.max
      BY <2>1
    <3>5. Len(q.free) = 0 /\ Len(q.inflight) = l
      BY <2>1
    <3> HIDE DEF f, l, k
    <3>6. q.count = l /\ l <= k
      <4>1. k - f = l /\ l < Word
        BY <3>1, <3>2, <3>3
      <4> QED
        BY <3>1, <3>2, <3>4, <4>1, WordExact
    <3>7. q.count <= m.made /\ (q.max > 0 => q.count <= q.max)
      BY <3>1, <3>2, <3>4, <3>6
    <3> QED
      BY <2>1, <3>2, <3>5, <3>6, <3>7 DEF Counted
  <2>7. q.size >= n
    BY <2>1, <2>2
  <2> QED
    BY <1>1, <1>2, <2>1, <2>3, <2>4, <2>5, <2>6, <2>7 DEF Sound, q
<1> QED
  BY <1>3, <1>4

\* A free buffer becomes the current one.
LEMMA TakeSound ==
    ASSUME NEW p, NEW m, Sound(p, m), p.cur = NoBuffer, p.free # <<>>
    PROVE  LET q == TakeFree(p) IN
           /\ Sound(q, m) /\ q.cur = Head(p.free) /\ q.cur \in 1..m.made
           /\ q.next = p.next /\ q.size = p.size
<1> DEFINE q == TakeFree(p)
           n == Len(p.free)
<1>1. /\ p \in PoolType /\ m \in MemoryType /\ m.made \in Nat
      /\ p.free \in Seq(1..m.made) /\ p.inflight \in Seq(1..m.made)
      /\ n \in Nat /\ Len(p.inflight) \in Nat /\ p.count \in Nat
      /\ \A i \in 1..n : p.free[i] \in 1..m.made
      /\ \A i \in 1..Len(p.inflight) : p.inflight[i] \in 1..m.made
      /\ \A s \in 1..m.made : s \in Storages
  BY SoundParts
<1>2. /\ Head(p.free) \in 1..m.made /\ Head(p.free) = p.free[1]
      /\ Tail(p.free) \in Seq(1..m.made) /\ Len(Tail(p.free)) = n - 1 /\ n - 1 \in Nat
      /\ \A i \in 1..(n - 1) : Tail(p.free)[i] = p.free[i + 1]
  <2>1. p.free \in Seq(1..m.made) /\ p.free # <<>>
    BY <1>1
  <2>2. Tail(p.free) \in Seq(1..m.made) /\ Len(Tail(p.free)) = n - 1
    BY <2>1, HeadTailProperties
  <2>3. Head(p.free) \in 1..m.made
    BY <2>1, HeadTailProperties
  <2>6. Head(p.free) = p.free[1]
    OBVIOUS
  <2>5. n - 1 \in Nat
    BY <2>2, LenProperties
  <2>4. ASSUME NEW i \in 1..(n - 1) PROVE Tail(p.free)[i] = p.free[i + 1]
    BY <2>1, <2>2, HeadTailProperties
  <2> QED
    BY <2>2, <2>3, <2>4, <2>5, <2>6
<1>3. /\ q.cur = Head(p.free) /\ q.free = Tail(p.free) /\ q.next = p.next /\ q.size = p.size
      /\ q.inflight = p.inflight /\ q.count = p.count /\ q.max = p.max
  BY <1>1 DEF TakeFree, PoolType
<1>4. q \in PoolType
  <2>1. Tail(p.free) \in Seq(Storages \cup {Nil}) /\ Head(p.free) \in Storages
    <3>1. p.free \in Seq(Storages \cup {Nil})
      BY <1>1 DEF PoolType
    <3> QED
      BY <1>1, <1>2, <3>1, HeadTailProperties
  <2> QED
    BY <1>1, <2>1 DEF TakeFree, PoolType
<1> HIDE DEF q
<1>5. EntriesMade(q, m)
  BY <1>1, <1>2, <1>3 DEF EntriesMade
<1>6. Distinct(q)
  <2>1. /\ \A i, j \in 1..n : p.free[i] = p.free[j] => i = j
        /\ \A i, j \in 1..Len(p.inflight) : p.inflight[i] = p.inflight[j] => i = j
        /\ \A i \in 1..n, j \in 1..Len(p.inflight) : p.free[i] # p.inflight[j]
    BY DEF Distinct, Sound
  <2>2. \A i \in 1..(n - 1) : i + 1 \in 1..n /\ i + 1 # 1 /\ q.free[i] = p.free[i + 1]
    BY <1>1, <1>2, <1>3
  <2>3. 1 \in 1..n /\ q.cur = p.free[1]
    BY <1>1, <1>2, <1>3
  <2>4. \A i, j \in 1..(n - 1) : q.free[i] = q.free[j] => i = j
    BY <1>1, <2>1, <2>2
  <2>5. \A i \in 1..(n - 1), j \in 1..Len(p.inflight) : q.free[i] # p.inflight[j]
    BY <2>1, <2>2
  <2>6. \A i \in 1..(n - 1) : q.free[i] # q.cur
    BY <2>1, <2>2, <2>3
  <2>7. \A i \in 1..Len(p.inflight) : p.inflight[i] # q.cur
    BY <2>1, <2>3
  <2>8. Len(q.free) = n - 1
    BY <1>2, <1>3
  <2>9. q.inflight = p.inflight
    BY <1>3
  <2> HIDE DEF n
  <2> QED
    BY <2>1, <2>4, <2>5, <2>6, <2>7, <2>8, <2>9 DEF Distinct
<1>7. Sized(q, m)
  <2>1. /\ \A i \in 1..n : m.size[p.free[i]] = p.size
        /\ \A i \in 1..Len(p.inflight) : m.size[p.inflight[i]] <= p.size
    BY DEF Sized, Sound
  <2>2. \A i \in 1..(n - 1) : i + 1 \in 1..n /\ q.free[i] = p.free[i + 1]
    BY <1>1, <1>2, <1>3
  <2>3. 1 \in 1..n /\ q.cur = p.free[1]
    BY <1>1, <1>2, <1>3
  <2>4. Len(q.free) = n - 1
    BY <1>2, <1>3
  <2>5. \A i \in 1..(n - 1) : m.size[q.free[i]] = p.size
    BY <2>1, <2>2
  <2> HIDE DEF n
  <2> QED
    BY <1>3, <2>1, <2>3, <2>4, <2>5 DEF Sized
<1>8. Counted(q, m)
  <2>1. /\ p.count = n + Len(p.inflight) + 0 /\ p.count <= m.made
        /\ p.max > 0 => p.count <= p.max
    BY DEF Counted, Sound
  <2>2. q.cur # NoBuffer
    BY <1>1, <1>2, <1>3 DEF NoBuffer
  <2>3. Len(q.free) = n - 1 /\ Len(q.inflight) = Len(p.inflight)
    BY <1>2, <1>3
  <2>4. q.count = Len(q.free) + Len(q.inflight) + 1
    <3> DEFINE l == Len(p.inflight)
    <3>1. n \in Nat /\ l \in Nat /\ q.count = p.count
      BY <1>1, <1>3
    <3> HIDE DEF n, l
    <3> QED
      BY <2>1, <2>3, <3>1 DEF l
  <2> QED
    BY <1>3, <2>1, <2>2, <2>4 DEF Counted
<1> QED
  BY <1>1, <1>2, <1>3, <1>4, <1>5, <1>6, <1>7, <1>8 DEF Sound, q

\* The memory m2 has the buffers of m, unchanged, and new ones nothing uses.
Extends(m, m2) ==
    /\ m.made <= m2.made
    /\ \A s \in 1..m.made : m2.size[s] = m.size[s] /\ m2.usage[s] = m.usage[s]
    /\ \A s \in Storages : m2.usage[s] \in {0, m.usage[s]}

\* The pool gets a new buffer of its size.
LEMMA MakeSound ==
    ASSUME NEW p, NEW m, Sound(p, m), p.cur = NoBuffer, ~AtLimit(p),
           NEW d, m.made + 1 <= MaxStorages
    PROVE  LET r == MakeBuffer(p, m, d, TRUE) IN
           /\ Sound(r.p, r.m) /\ Extends(m, r.m) /\ r.done = d
           /\ r.p.cur = m.made + 1 /\ r.p.next = p.next /\ r.p.size = p.size
<1> DEFINE r == MakeBuffer(p, m, d, TRUE)
           q == r.p
           m2 == r.m
           new == m.made + 1
<1>1. /\ p \in PoolType /\ m \in MemoryType /\ m.made \in Nat
      /\ m.made <= MaxStorages /\ MaxStorages < Word /\ MaxStorages \in Nat
      /\ p.free \in Seq(1..m.made) /\ p.inflight \in Seq(1..m.made)
      /\ Len(p.free) \in Nat /\ Len(p.inflight) \in Nat /\ p.count \in Nat /\ p.size \in Nat
      /\ p.max \in Nat
      /\ \A i \in 1..Len(p.free) : p.free[i] \in 1..m.made
      /\ \A i \in 1..Len(p.inflight) : p.inflight[i] \in 1..m.made
      /\ \A s \in 1..m.made : s \in Storages
  BY SoundParts
<1>2. /\ q = [p EXCEPT !.cur = m.made + 1, !.count = p.count + 1]
      /\ m2 = CreateStorages(m, 1, p.size, ShouldAllocateInSharedMem(p))
      /\ r.done = d
  BY DEF MakeBuffer
<1> HIDE DEF r, q, m2
<1>3. /\ m2 \in MemoryType /\ m2.made = m.made + 1
      /\ \A s \in 1..m.made : m2.size[s] = m.size[s] /\ m2.usage[s] = m.usage[s]
      /\ \A s \in (m.made + 1)..(m.made + 1) : m2.size[s] = p.size /\ m2.usage[s] = 0
      /\ \A s \in Storages : m2.usage[s] \in {0, m.usage[s]}
  <2>1. 1 \in Nat /\ p.size \in Nat /\ m \in MemoryType
    BY <1>1
  <2> QED
    <3> DEFINE shared == ShouldAllocateInSharedMem(p)
               k == 1
               w == CreateStorages(m, k, p.size, shared)
    <3>1. k \in Nat /\ m.made + k <= MaxStorages
      OBVIOUS
    <3> HIDE DEF shared, k
    <3>2. /\ w \in MemoryType /\ w.made = m.made + k
          /\ \A s \in 1..m.made : w.size[s] = m.size[s] /\ w.usage[s] = m.usage[s]
          /\ \A s \in (m.made + 1)..(m.made + k) : w.size[s] = p.size /\ w.usage[s] = 0
          /\ \A s \in Storages : w.usage[s] \in {0, m.usage[s]}
      BY <2>1, <3>1, CreateStoragesType
    <3>3. m2 = w
      BY <1>2 DEF shared, k
    <3> HIDE DEF w
    <3> QED
      BY <3>2, <3>3 DEF k
<1>4. Extends(m, m2)
  <2>1. m.made <= m2.made
    BY <1>1, <1>3
  <2> QED
    BY <1>3, <2>1 DEF Extends
<1>5. /\ q.cur = m.made + 1 /\ q.next = p.next /\ q.size = p.size /\ q.count = p.count + 1
      /\ q.free = p.free /\ q.inflight = p.inflight /\ q.max = p.max
  BY <1>1, <1>2 DEF PoolType
<1>6. q \in PoolType
  <2>1. m.made + 1 \in Storages /\ p.count + 1 \in Nat
    BY <1>1 DEF Storages
  <2> QED
    <3>1. p \in PoolType /\ q = [p EXCEPT !.cur = m.made + 1, !.count = p.count + 1]
      BY <1>1, <1>2
    <3> QED
      BY <2>1, <3>1 DEF PoolType
<1>7. /\ m.made + 1 \in 1..m2.made /\ m.made + 1 \notin 1..m.made
      /\ 1..m.made \subseteq 1..m2.made /\ m.made + 1 # NoBuffer
  <2>1. m.made \in Nat /\ m2.made = m.made + 1
    BY <1>1, <1>3
  <2>2. 1..m.made \subseteq 1..(m.made + 1)
    BY <2>1
  <2> QED
    BY <2>1, <2>2 DEF NoBuffer
<1>8. EntriesMade(q, m2)
  <2>1. q.free \in Seq(1..m2.made) /\ q.inflight \in Seq(1..m2.made)
    BY <1>1, <1>5, <1>7, SeqMonotonic
  <2> QED
    BY <1>5, <1>7, <2>1 DEF EntriesMade
<1>9. Distinct(q)
  <2>1. /\ \A i \in 1..Len(p.free) : p.free[i] # m.made + 1
        /\ \A i \in 1..Len(p.inflight) : p.inflight[i] # m.made + 1
    BY <1>1, <1>7
  <2> QED
    BY <1>5, <2>1 DEF Distinct, Sound
<1>10. Sized(q, m2)
  <2>1. m2.size[m.made + 1] = p.size
    BY <1>1, <1>3
  <2>2. /\ \A i \in 1..Len(p.free) : m2.size[p.free[i]] = m.size[p.free[i]]
        /\ \A i \in 1..Len(p.inflight) : m2.size[p.inflight[i]] = m.size[p.inflight[i]]
    BY <1>1, <1>3
  <2> QED
    BY <1>5, <2>1, <2>2 DEF Sized, Sound
<1>11. Counted(q, m2)
  <2> DEFINE f == Len(p.free)
             l == Len(p.inflight)
  <2>1. p.count = f + l + 0 /\ p.count <= m.made /\ (p.max > 0 => p.count <= p.max)
    BY DEF Counted, Sound
  <2>2. f \in Nat /\ l \in Nat /\ p.count \in Nat /\ p.max \in Nat /\ m.made \in Nat
    BY <1>1
  <2>3. p.max > 0 => ~(p.count >= p.max)
    BY DEF AtLimit
  <2>4. q.cur # NoBuffer /\ q.count = p.count + 1 /\ q.max = p.max /\ m2.made = m.made + 1
    BY <1>3, <1>5, <1>7
  <2>5. Len(q.free) = f /\ Len(q.inflight) = l
    BY <1>5
  <2> HIDE DEF f, l
  <2> QED
    BY <2>1, <2>2, <2>3, <2>4, <2>5 DEF Counted
<1> QED
  BY <1>2, <1>3, <1>4, <1>5, <1>6, <1>8, <1>9, <1>10, <1>11 DEF Sound, r, q, m2

\* What r, the result of getting a buffer for the pool p, guarantees: the GPU
\* has finished with the buffer.
Obtained(p, m, r) ==
    /\ Sound(r.p, r.m) /\ Extends(m, r.m)
    /\ r = [p |-> r.p, m |-> r.m, flush |-> r.flush, ok |-> TRUE, done |-> r.done]
    /\ r.done \in Nat
    /\ r.p.cur # NoBuffer /\ r.p.next = p.next /\ r.p.size = p.size
    /\ r.p.cur \in 1..m.made => m.usage[r.p.cur] <= r.done

LEMMA ExtendsSelf ==
    ASSUME NEW p, NEW m, Sound(p, m)
    PROVE  Extends(m, m)
<1>1. m.made \in Nat
  BY SoundParts
<1> QED
  BY <1>1 DEF Extends

\* A free buffer, the GPU being known to be done with it.
LEMMA TakenObtained ==
    ASSUME NEW p, NEW m, Sound(p, m), p.cur = NoBuffer, p.free # <<>>,
           NEW d \in Nat, m.usage[Head(p.free)] <= d, NEW f
    PROVE  Obtained(p, m, Taken(p, m, f, d))
<1> DEFINE q == TakeFree(p)
<1>1. /\ Sound(q, m) /\ q.cur = Head(p.free) /\ q.cur \in 1..m.made
      /\ q.next = p.next /\ q.size = p.size
  BY TakeSound
<1>2. Extends(m, m)
  BY ExtendsSelf
<1>3. q.cur # NoBuffer
  BY <1>1, SoundParts DEF NoBuffer
<1> HIDE DEF q
<1>4. Obtained(p, m, [p |-> q, m |-> m, flush |-> f, ok |-> TRUE, done |-> d])
  BY <1>1, <1>2, <1>3 DEF Obtained
<1> QED
  BY <1>4 DEF Taken, q

\* At the limit, with nothing in flight, there is a free buffer.
LEMMA FreeAtLimit ==
    ASSUME NEW p, NEW m, Sound(p, m), p.cur = NoBuffer, p.inflight = <<>>, AtLimit(p)
    PROVE  p.free # <<>>
<1>1. p.count = Len(p.free) + Len(p.inflight) + 0
  BY DEF Sound, Counted
<1>2. p.max > 0 /\ p.count >= p.max /\ p.max \in Nat /\ p.count \in Nat
  BY SoundParts DEF AtLimit
<1>3. Len(p.inflight) = 0
  OBVIOUS
<1>4. Len(p.free) # 0
  BY <1>1, <1>2, <1>3
<1> QED
  BY <1>4

LEMMA FreeOrNewObtained ==
    ASSUME NEW p, NEW m, Sound(p, m), p.cur = NoBuffer,
           AtLimit(p) => p.inflight = <<>>,
           NEW d \in Nat, FreeOrNew(p, m, d, TRUE).m.made <= MaxStorages
    PROVE  Obtained(p, m, FreeOrNew(p, m, d, TRUE))
<1>1. CASE AtLimit(p)
  <2>1. p.free # <<>>
    BY <1>1, FreeAtLimit
  <2>2. Head(p.free) \in 1..m.made /\ Head(p.free) \in Storages /\ m.usage[Head(p.free)] \in Nat /\ Head(p.free) # Nil
    <3>1. Head(p.free) \in 1..m.made
      BY <2>1, TakeSound
    <3> QED
      BY <3>1, SoundParts DEF Nil
  <2>3. FreeOrNew(p, m, d, TRUE) = WaitForFree(p, m, d)
    BY <1>1 DEF FreeOrNew
  <2>4. CASE InUse(m, Head(p.free), d)
    <3>1. WaitForFree(p, m, d) = Taken(p, m, TRUE, m.usage[Head(p.free)])
      BY <2>4 DEF WaitForFree
    <3>2. m.usage[Head(p.free)] <= m.usage[Head(p.free)]
      BY <2>2
    <3>3. Obtained(p, m, Taken(p, m, TRUE, m.usage[Head(p.free)]))
      BY <2>1, <2>2, <3>2, TakenObtained
    <3> QED
      BY <2>3, <3>1, <3>3
  <2>5. CASE ~InUse(m, Head(p.free), d)
    <3>1. WaitForFree(p, m, d) = Taken(p, m, FALSE, d)
      BY <2>5 DEF WaitForFree
    <3>2. m.usage[Head(p.free)] <= d
      BY <2>2, <2>5 DEF InUse
    <3>3. Obtained(p, m, Taken(p, m, FALSE, d))
      BY <2>1, <3>2, TakenObtained
    <3> QED
      BY <2>3, <3>1, <3>3
  <2> QED
    BY <2>4, <2>5
<1>2. CASE ~AtLimit(p)
  <2> DEFINE r == MakeBuffer(p, m, d, TRUE)
  <2>1. FreeOrNew(p, m, d, TRUE) = r
    BY <1>2 DEF FreeOrNew
  <2>2. r.m.made = m.made + 1
    BY DEF MakeBuffer, CreateStorages
  <2>3. m.made \in Nat /\ m.made + 1 <= MaxStorages /\ d \in Nat
    BY <2>1, <2>2, SoundParts
  <2>4. /\ Sound(r.p, r.m) /\ Extends(m, r.m) /\ r.done = d
        /\ r.p.cur = m.made + 1 /\ r.p.next = p.next /\ r.p.size = p.size
    BY <1>2, <2>3, MakeSound, ZenonT(30)
  <2>5. r = [p |-> r.p, m |-> r.m, flush |-> r.flush, ok |-> TRUE, done |-> r.done]
    BY DEF MakeBuffer
  <2> HIDE DEF r
  <2>6. r.p.cur \notin 1..m.made /\ r.p.cur # NoBuffer
    BY <2>3, <2>4 DEF NoBuffer
  <2> QED
    BY <2>1, <2>3, <2>4, <2>5, <2>6 DEF Obtained
<1> QED
  BY <1>1, <1>2

\* A buffer for a pool that has none: a free one the GPU has finished with, a
\* free one it is waited for, or a new one.
LEMMA NextBufferObtained ==
    ASSUME NEW p, NEW m, Sound(p, m), p.cur = NoBuffer,
           NEW d \in Nat, NextBuffer(p, m, d, TRUE).m.made <= MaxStorages
    PROVE  Obtained(p, m, NextBuffer(p, m, d, TRUE))
<1>1. CASE FreeBufferAvailable(p, m, d)
  <2>1. p.free # <<>> /\ ~InUse(m, Head(p.free), d)
    BY <1>1 DEF FreeBufferAvailable
  <2>2. Head(p.free) \in 1..m.made
    BY <2>1, TakeSound
  <2>3. m.usage[Head(p.free)] \in Nat /\ Head(p.free) # Nil
    BY <2>2, SoundParts DEF Nil
  <2>4. m.usage[Head(p.free)] <= d
    BY <2>1, <2>3 DEF InUse
  <2>5. NextBuffer(p, m, d, TRUE) = Taken(p, m, FALSE, d)
    BY <1>1 DEF NextBuffer
  <2> QED
    BY <2>1, <2>4, <2>5, TakenObtained
<1>2. CASE ~FreeBufferAvailable(p, m, d)
  <2> DEFINE q == IF AtLimit(p) THEN ReleaseInFlightBuffers(p, m) ELSE p
  <2>1. NextBuffer(p, m, d, TRUE) = FreeOrNew(q, m, d, TRUE)
    BY <1>2 DEF NextBuffer, AllocateNewBuffer
  <2>2. /\ Sound(q, m) /\ q.cur = NoBuffer /\ q.next = p.next /\ q.size = p.size
        /\ AtLimit(q) => q.inflight = <<>>
    BY ReleaseSound
  <2> HIDE DEF q
  <2>3. Obtained(q, m, FreeOrNew(q, m, d, TRUE))
    BY <2>1, <2>2, FreeOrNewObtained
  <2> QED
    BY <2>1, <2>2, <2>3 DEF Obtained
<1> QED
  BY <1>1, <1>2

\* Offsets, alignment, policy and limit are no part of the lists.
LEMMA SameListsSound ==
    ASSUME NEW p, NEW m, Sound(p, m), NEW q \in PoolType,
           q.cur = p.cur, q.free = p.free, q.inflight = p.inflight,
           q.size = p.size, q.count = p.count,
           q.max > 0 => q.count <= q.max
    PROVE  Sound(q, m)
<1>1. EntriesMade(q, m)
  BY DEF Sound, EntriesMade
<1>2. Distinct(q)
  BY DEF Sound, Distinct
<1>3. Sized(q, m)
  BY DEF Sound, Sized
<1>4. Counted(q, m)
  BY DEF Sound, Counted
<1> QED
  BY <1>1, <1>2, <1>3, <1>4 DEF Sound

\* What allocate() gives its caller: k bytes up to the new offset.
Allocated(p, m, r, k) ==
    /\ Sound(r.p, r.m) /\ Extends(m, r.m)
    /\ r.ok = TRUE /\ r.done \in Nat /\ r.p.cur # NoBuffer
    /\ r.p.next - k \in Nat /\ r.p.next <= r.p.size

LEMMA AdvanceAllocated ==
    ASSUME NEW p, NEW m, NEW k \in Nat, NEW pp, NEW mm, NEW fl, NEW dd \in Nat,
           Sound(pp, mm), Extends(m, mm), pp.cur # NoBuffer, pp.next + k <= pp.size
    PROVE  LET r == AdvanceOffset([p |-> pp, m |-> mm, flush |-> fl, ok |-> TRUE, done |-> dd], k) IN
           /\ Allocated(p, m, r, k)
           /\ r.p.next = pp.next + k /\ r.p.cur = pp.cur /\ r.p.inflight = pp.inflight
           /\ r.m = mm /\ r.done = dd
<1> DEFINE r == AdvanceOffset([p |-> pp, m |-> mm, flush |-> fl, ok |-> TRUE, done |-> dd], k)
           q == [pp EXCEPT !.next = pp.next + k]
<1>1. r = [p |-> q, m |-> mm, flush |-> fl, ok |-> TRUE, done |-> dd]
  BY DEF AdvanceOffset
<1>2. pp \in PoolType /\ pp.next \in Nat /\ pp.max \in Nat
  BY SoundParts
<1>3. q \in PoolType
  <2>1. pp.next + k \in Nat
    BY <1>2
  <2> HIDE DEF r
  <2> QED
    BY <1>2, <2>1 DEF PoolType
<1>4. /\ q.next = pp.next + k /\ q.cur = pp.cur /\ q.inflight = pp.inflight /\ q.free = pp.free
      /\ q.size = pp.size /\ q.count = pp.count /\ q.max = pp.max
  BY <1>2 DEF PoolType
<1>5. r.p = q /\ r.m = mm /\ r.ok = TRUE /\ r.done = dd
  BY <1>1
<1> HIDE DEF q, r
<1>6. Sound(q, mm)
  <2>1. q.max > 0 => q.count <= q.max
    BY <1>4 DEF Sound, Counted
  <2> QED
    BY <1>3, <1>4, <2>1, SameListsSound
<1>7. q.next - k \in Nat /\ q.next <= q.size
  BY <1>2, <1>4
<1>8. Allocated(p, m, r, k)
  BY <1>4, <1>5, <1>6, <1>7 DEF Allocated
<1> QED
  BY <1>4, <1>5, <1>8 DEF r

\* The result of getting a buffer is a record.
LEMMA NextBufferShape ==
    ASSUME NEW p, NEW m, NEW d
    PROVE  LET b == NextBuffer(p, m, d, TRUE) IN
           b = [p |-> b.p, m |-> b.m, flush |-> b.flush, ok |-> TRUE, done |-> b.done]
<1> DEFINE Shaped(b) == b = [p |-> b.p, m |-> b.m, flush |-> b.flush, ok |-> TRUE, done |-> b.done]
<1>1. ASSUME NEW q, NEW e, NEW f PROVE Shaped(Taken(q, m, f, e))
  BY DEF Taken
<1>2. ASSUME NEW q PROVE Shaped(MakeBuffer(q, m, d, TRUE))
  BY DEF MakeBuffer
<1> HIDE DEF Shaped
<1>3. ASSUME NEW q PROVE Shaped(FreeOrNew(q, m, d, TRUE))
  BY <1>1, <1>2 DEF FreeOrNew, WaitForFree
<1>4. Shaped(NextBuffer(p, m, d, TRUE))
  BY <1>1, <1>3 DEF NextBuffer, AllocateNewBuffer
<1> QED
  BY <1>4 DEF Shaped

\* allocate(): at the end of the current buffer, or at the start of one the
\* GPU has finished with.
LEMMA AllocateSound ==
    ASSUME NEW p, NEW m, Sound(p, m), NEW d \in Nat, NEW n \in Nat,
           Allocate(p, m, d, n, TRUE).m.made <= MaxStorages
    PROVE  LET r == Allocate(p, m, d, n, TRUE)
               k == RoundUp(n, p.align)
           IN /\ k \in Nat /\ k >= n
              /\ Allocated(p, m, r, k)
              /\ Appends(p, m, k) => /\ r.p.cur = p.cur /\ r.p.next - k = p.next
                                     /\ r.p.inflight = p.inflight /\ r.done = d /\ r.m = m
              /\ ~Appends(p, m, k) => /\ r.p.next - k = 0
                                      /\ r.p.cur \in 1..m.made => m.usage[r.p.cur] <= r.done
<1> DEFINE r == Allocate(p, m, d, n, TRUE)
           k == RoundUp(n, p.align)
<1>1. k \in Nat /\ k >= n /\ p.next \in Nat /\ p.size \in Nat
  BY SoundParts, RoundUpBound
<1> HIDE DEF k
<1>2. r = AllocateRounded(p, m, d, k, TRUE)
  BY DEF Allocate, k
<1>3. CASE Appends(p, m, k)
  <2>1. r = AdvanceOffset([p |-> p, m |-> m, flush |-> FALSE, ok |-> TRUE, done |-> d], k)
    BY <1>2, <1>3 DEF AllocateRounded
  <2>2. p.cur # NoBuffer /\ p.next + k <= p.size /\ Extends(m, m)
    BY <1>1, <1>3, ExtendsSelf DEF Appends
  <2>3. /\ Allocated(p, m, r, k)
        /\ r.p.next = p.next + k /\ r.p.cur = p.cur /\ r.p.inflight = p.inflight
        /\ r.m = m /\ r.done = d
    <3> HIDE DEF r
    <3>1. k \in Nat /\ d \in Nat /\ Sound(p, m)
      BY <1>1
    <3> QED
      BY <2>1, <2>2, <3>1, AdvanceAllocated
  <2> HIDE DEF r
  <2>4. r.p.next - k = p.next
    BY <1>1, <2>3
  <2> QED
    BY <1>1, <1>3, <2>3, <2>4 DEF k, r
<1>4. CASE ~Appends(p, m, k)
  <2> DEFINE f == FinalizePendingBuffer(p)
             q == Grow(f, k)
             b == NextBuffer(q, m, d, TRUE)
  <2>1. r = AdvanceOffset(b, k)
    BY <1>2, <1>4 DEF AllocateRounded
  <2>2. Sound(f, m) /\ f.cur = NoBuffer /\ f.next = 0
    BY FinalizeSound
  <2> HIDE DEF f
  <2>3. Sound(q, m) /\ q.cur = NoBuffer /\ q.next = 0 /\ q.size >= k
    BY <1>1, <2>2, GrowSound
  <2> HIDE DEF q
  <2>4. r.m = b.m
    <3>1. b = [p |-> b.p, m |-> b.m, flush |-> b.flush, ok |-> TRUE, done |-> b.done]
      BY NextBufferShape
    <3> HIDE DEF b, r
    <3> QED
      BY <2>1, <3>1 DEF AdvanceOffset
  <2>5. b.m.made <= MaxStorages
    BY <2>4
  <2>6. Obtained(q, m, b)
    BY <2>3, <2>5, NextBufferObtained
  <2> HIDE DEF b, r
  <2>7. /\ b = [p |-> b.p, m |-> b.m, flush |-> b.flush, ok |-> TRUE, done |-> b.done]
        /\ Sound(b.p, b.m) /\ Extends(m, b.m) /\ b.p.cur # NoBuffer /\ b.done \in Nat
        /\ b.p.next + k <= b.p.size /\ b.p.next = 0
        /\ b.p.cur \in 1..m.made => m.usage[b.p.cur] <= b.done
    <3>1. q.size \in Nat
      BY <2>3, SoundParts
    <3> QED
      BY <1>1, <2>3, <2>6, <3>1 DEF Obtained
  <2>8. /\ Allocated(p, m, r, k)
        /\ r.p.next = b.p.next + k /\ r.p.cur = b.p.cur /\ r.done = b.done
    BY <1>1, <2>1, <2>7, AdvanceAllocated
  <2>9. r.p.next - k = 0
    BY <1>1, <2>7, <2>8
  <2> QED
    BY <1>1, <1>4, <2>7, <2>8, <2>9 DEF k, r
<1> QED
  BY <1>3, <1>4

LEMMA FunctionIsSeq ==
    ASSUME NEW n \in Nat, NEW T, NEW s \in [1..n -> T]
    PROVE  s \in Seq(T) /\ Len(s) = n
OBVIOUS

\* A pool that has nothing but its free list.
OnlyFree(p) == p.cur = NoBuffer /\ p.inflight = <<>>

LEMMA OnlyFreeSound ==
    ASSUME NEW q \in PoolType, NEW m \in MemoryType, OnlyFree(q),
           q.free \in Seq(1..m.made),
           \A i, j \in 1..Len(q.free) : q.free[i] = q.free[j] => i = j,
           \A i \in 1..Len(q.free) : m.size[q.free[i]] = q.size,
           q.count = Len(q.free), q.count <= m.made, q.max > 0 => q.count <= q.max
    PROVE  Sound(q, m)
<1>1. 1..Len(q.inflight) = {} /\ Len(q.inflight) = 0
  BY DEF OnlyFree
<1>2. m.made \in Nat /\ Len(q.free) \in Nat
  BY LenProperties DEF MemoryType
<1>3. \A i \in 1..Len(q.free) : q.free[i] # NoBuffer
  <2> TAKE i \in 1..Len(q.free)
  <2>1. q.free[i] \in 1..m.made
    BY ElementOfSeq
  <2> QED
    BY <1>2, <2>1 DEF NoBuffer
<1>4. EntriesMade(q, m)
  <2>1. <<>> \in Seq(1..m.made)
    BY EmptySeq
  <2> QED
    BY <2>1 DEF EntriesMade, OnlyFree
<1>5. Distinct(q)
  BY <1>1, <1>3 DEF Distinct, OnlyFree
<1>6. Sized(q, m)
  BY <1>1 DEF Sized, OnlyFree
<1>7. Counted(q, m)
  <2>1. q.count = Len(q.free) + Len(q.inflight) + 0
    BY <1>1, <1>2
  <2> QED
    BY <2>1 DEF Counted, OnlyFree
<1> QED
  BY <1>4, <1>5, <1>6, <1>7 DEF Sound

\* reset() cuts the free list to the new limit.
LEMMA CutSound ==
    ASSUME NEW p, NEW m, Sound(p, m), OnlyFree(p), NEW k \in Nat
    PROVE  LET q == CutFreeList(p, k) IN
           Sound(q, m) /\ OnlyFree(q) /\ q.size = p.size /\ (k > 0 => q.count <= k)
<1> DEFINE q == CutFreeList(p, k)
           n == Len(p.free)
<1>1. /\ p \in PoolType /\ m \in MemoryType /\ m.made \in Nat /\ p.free \in Seq(1..m.made)
      /\ n \in Nat /\ p.count \in Nat /\ p.max \in Nat
  BY SoundParts
<1>2. p.count = n /\ p.count <= m.made /\ (p.max > 0 => p.count <= p.max)
  <2>1. p.count = n + Len(p.inflight) + 0 /\ Len(p.inflight) = 0
    BY DEF Sound, Counted, OnlyFree
  <2>2. p.count <= m.made /\ (p.max > 0 => p.count <= p.max)
    BY DEF Sound, Counted
  <2> QED
    BY <1>1, <2>1, <2>2
<1>3. CASE ~(k > 0 /\ n > k)
  <2>1. q = p
    BY <1>3 DEF CutFreeList
  <2>2. k > 0 => p.count <= k
    BY <1>1, <1>2, <1>3
  <2> QED
    BY <2>1, <2>2
<1>4. CASE k > 0 /\ n > k
  <2> DEFINE s == SubSeq(p.free, 1, k)
  <2>1. q = [p EXCEPT !.free = s, !.count = k]
    BY <1>4 DEF CutFreeList
  <2>2. 1 \in 1..n /\ k \in 1..n
    BY <1>1, <1>4
  <2>3. s \in Seq(1..m.made) /\ Len(s) = k
    BY <1>1, <1>4, <2>2, SubSeqProperties
  <2>4. \A i \in 1..k : i \in 1..n /\ s[i] = p.free[i]
    BY <1>1, <1>4
  <2>5. s \in Seq(Storages \cup {Nil})
    <3>1. 1..m.made \subseteq Storages \cup {Nil}
      BY SoundParts
    <3> QED
      BY <2>3, <3>1, SeqMonotonic
  <2> HIDE DEF s, q
  <2>6. q \in PoolType
    BY <1>1, <2>1, <2>5 DEF PoolType
  <2>7. /\ q.free = s /\ q.count = k /\ q.size = p.size /\ q.max = p.max /\ OnlyFree(q)
    BY <1>1, <2>1 DEF PoolType, OnlyFree
  <2>8. \A i, j \in 1..k : s[i] = s[j] => i = j
    BY <2>4 DEF Sound, Distinct
  <2>9. \A i \in 1..k : m.size[s[i]] = p.size
    BY <2>4 DEF Sound, Sized
  <2>10. k <= m.made /\ (p.max > 0 => k <= p.max) /\ k <= k
    BY <1>1, <1>2, <1>4
  <2>11. Sound(q, m)
    BY <1>1, <2>3, <2>6, <2>7, <2>8, <2>9, <2>10, OnlyFreeSound
  <2> QED
    BY <2>7, <2>10, <2>11 DEF q
<1> QED
  BY <1>3, <1>4

\* reset() gives new storage to the free buffers the GPU still uses.
LEMMA ReplaceSound ==
    ASSUME NEW p, NEW m, Sound(p, m), OnlyFree(p), NEW d,
           ReplaceUsed(p, m, d, TRUE).m.made <= MaxStorages
    PROVE  LET r == ReplaceUsed(p, m, d, TRUE) IN
           /\ Sound(r.p, r.m) /\ OnlyFree(r.p) /\ Extends(m, r.m)
           /\ r.p.count = p.count /\ r.p.size = p.size
<1> DEFINE r == ReplaceUsed(p, m, d, TRUE)
           n == Len(p.free)
           used == {i \in DOMAIN p.free : InUse(m, p.free[i], d)}
           c == Cardinality(used)
           s == [i \in DOMAIN p.free |-> IF i \in used THEN m.made + Rank(used, i) ELSE p.free[i]]
           shared == ShouldAllocateInSharedMem(p)
           q == [p EXCEPT !.free = s]
           m2 == CreateStorages(m, c, p.size, shared)
<1>1. /\ p \in PoolType /\ m \in MemoryType /\ m.made \in Nat /\ p.free \in Seq(1..m.made)
      /\ n \in Nat /\ p.count \in Nat /\ p.max \in Nat /\ p.size \in Nat
      /\ DOMAIN p.free = 1..n /\ \A i \in 1..n : p.free[i] \in 1..m.made
      /\ MaxStorages \in Nat
  BY SoundParts, LenProperties
<1>2. r = [p |-> q, m |-> m2]
  BY DEF ReplaceUsed
<1>3. r.p = q /\ r.m = m2 /\ m2.made = m.made + c /\ m2.made <= MaxStorages
  <2>1. m2.made = m.made + c
    BY DEF CreateStorages
  <2>2. r.m.made <= MaxStorages
    OBVIOUS
  <2> HIDE DEF q, m2, r, c
  <2>3. r.p = q /\ r.m = m2
    BY <1>2
  <2> QED
    BY <2>1, <2>2, <2>3
<1>4. /\ c \in 0..n
      /\ \A i \in 1..n : Rank(used, i) \in 0..c
      /\ \A i \in used : Rank(used, i) \in 1..c
      /\ \A i, j \in used : Rank(used, i) = Rank(used, j) => i = j
  <2>1. used \subseteq 1..n
    BY <1>1
  <2> HIDE DEF used
  <2>2. /\ Cardinality(used) \in 0..n
        /\ \A i \in 0..n : Rank(used, i) \in 0..Cardinality(used)
        /\ \A i \in 1..n : Rank(used, i) = Rank(used, i - 1) + (IF i \in used THEN 1 ELSE 0)
    BY <1>1, <2>1, RankSteps
  <2>3. ASSUME NEW i \in used PROVE Rank(used, i) \in 1..c
    <3>1. i \in 1..n /\ i - 1 \in 0..n /\ i \in 0..n
      BY <1>1, <2>1
    <3>2. Rank(used, i) = Rank(used, i - 1) + 1 /\ Rank(used, i - 1) \in Nat
      BY <2>2, <3>1
    <3>3. Rank(used, i) \in 0..c
      BY <2>2, <3>1
    <3> QED
      BY <3>2, <3>3
  <2>4. ASSUME NEW i \in used, NEW j \in used, i < j PROVE Rank(used, i) # Rank(used, j)
    <3>1. Rank(used, i) < Rank(used, j)
      BY <1>1, <2>1, <2>4, RankIncreases
    <3>2. Rank(used, i) \in Nat /\ Rank(used, j) \in Nat
      BY <2>2, <2>3
    <3> QED
      BY <3>1, <3>2
  <2>5. ASSUME NEW i \in used, NEW j \in used, Rank(used, i) = Rank(used, j) PROVE i = j
    <3>1. i \in Nat /\ j \in Nat
      BY <1>1, <2>1
    <3>2. ~(i < j) /\ ~(j < i)
      BY <2>4, <2>5
    <3> QED
      BY <3>1, <3>2
  <2>6. ASSUME NEW i \in 1..n PROVE Rank(used, i) \in 0..c
    BY <1>1, <2>2
  <2> QED
    BY <2>2, <2>3, <2>5, <2>6
<1>5. /\ m2 \in MemoryType
      /\ \A t \in 1..m.made : m2.size[t] = m.size[t] /\ m2.usage[t] = m.usage[t]
      /\ \A t \in (m.made + 1)..(m.made + c) : m2.size[t] = p.size /\ m2.usage[t] = 0
      /\ \A t \in Storages : m2.usage[t] \in {0, m.usage[t]}
  <2>1. c \in Nat /\ m.made + c <= MaxStorages /\ m \in MemoryType /\ p.size \in Nat
    <3> HIDE DEF m2, c, shared, used, r, q
    <3> QED
      BY <1>1, <1>3, <1>4
  <2> HIDE DEF c, shared, used
  <2> QED
    BY <2>1, CreateStoragesType
<1> HIDE DEF m2, c, used
<1>6. Extends(m, m2)
  <2>1. m.made <= m2.made
    BY <1>1, <1>3, <1>4
  <2> QED
    BY <1>5, <2>1 DEF Extends
<1>7. /\ 1..m.made \subseteq 1..m2.made /\ m2.made \in Nat /\ m2.made <= MaxStorages
      /\ \A k \in 1..c : m.made + k \in 1..m2.made /\ m.made + k \notin 1..m.made
                         /\ m.made + k \in (m.made + 1)..(m.made + c)
  <2>1. c \in Nat /\ m2.made = m.made + c /\ m.made \in Nat /\ m2.made <= MaxStorages
    <3> HIDE DEF r, q, n, s
    <3> QED
      BY <1>1, <1>3, <1>4
  <2> QED
    BY <2>1
<1>8. \A i \in 1..n : s[i] = IF i \in used THEN m.made + Rank(used, i) ELSE p.free[i]
  BY <1>1
<1>9. s \in Seq(1..m2.made) /\ Len(s) = n
  <2>1. \A i \in 1..n : s[i] \in 1..m2.made
    BY <1>1, <1>4, <1>7, <1>8
  <2>2. s \in [1..n -> 1..m2.made]
    <3>1. DOMAIN p.free = 1..n
      BY <1>1
    <3>2. s = [i \in 1..n |-> IF i \in used THEN m.made + Rank(used, i) ELSE p.free[i]]
      BY <3>1
    <3> HIDE DEF n
    <3> QED
      BY <1>8, <2>1, <3>2
  <2>3. n \in Nat
    BY <1>1
  <2> HIDE DEF s, n
  <2> QED
    BY <2>2, <2>3, FunctionIsSeq
<1>10. \A i, j \in 1..n : s[i] = s[j] => i = j
  <2> SUFFICES ASSUME NEW i \in 1..n, NEW j \in 1..n, s[i] = s[j]
               PROVE  i = j
    OBVIOUS
  <2>1. CASE i \in used /\ j \in used
    <3>1. m.made + Rank(used, i) = m.made + Rank(used, j)
      BY <1>8, <2>1
    <3>2. Rank(used, i) \in Nat /\ Rank(used, j) \in Nat
      BY <1>4, <2>1
    <3>3. Rank(used, i) = Rank(used, j)
      BY <1>1, <3>1, <3>2
    <3> QED
      BY <1>4, <2>1, <3>3
  <2>2. CASE i \in used /\ j \notin used
    BY <1>1, <1>4, <1>7, <1>8, <2>2
  <2>3. CASE i \notin used /\ j \in used
    BY <1>1, <1>4, <1>7, <1>8, <2>3
  <2>4. CASE i \notin used /\ j \notin used
    BY <1>8, <2>4 DEF Sound, Distinct
  <2> QED
    BY <2>1, <2>2, <2>3, <2>4
<1>11. \A i \in 1..n : m2.size[s[i]] = p.size
  <2> TAKE i \in 1..n
  <2>1. CASE i \in used
    <3>1. s[i] \in (m.made + 1)..(m.made + c)
      BY <1>4, <1>7, <1>8, <2>1
    <3> QED
      BY <1>5, <3>1
  <2>2. CASE i \notin used
    <3>1. s[i] = p.free[i] /\ p.free[i] \in 1..m.made
      BY <1>1, <1>8, <2>2
    <3>2. m.size[p.free[i]] = p.size
      BY DEF Sound, Sized
    <3> QED
      BY <1>5, <3>1, <3>2
  <2> QED
    BY <2>1, <2>2
<1> HIDE DEF s
<1>12. q \in PoolType
  <2>1. 1..m2.made \subseteq Storages \cup {Nil}
    BY <1>1, <1>7 DEF Storages
  <2>2. s \in Seq(Storages \cup {Nil})
    BY <1>9, <2>1, SeqMonotonic
  <2> QED
    BY <1>1, <2>2 DEF PoolType
<1>13. /\ q.free = s /\ q.count = p.count /\ q.size = p.size /\ q.max = p.max /\ OnlyFree(q)
  BY <1>1 DEF PoolType, OnlyFree
<1>14. p.count = n /\ p.count <= m2.made /\ (p.max > 0 => p.count <= p.max)
  <2>1. p.count = n + Len(p.inflight) + 0 /\ Len(p.inflight) = 0
    BY DEF Sound, Counted, OnlyFree
  <2>2. p.count <= m.made /\ (p.max > 0 => p.count <= p.max)
    BY DEF Sound, Counted
  <2>3. m2.made = m.made + c /\ c \in Nat /\ m.made \in Nat
    BY <1>1, <1>3, <1>4
  <2>4. n \in Nat /\ p.count \in Nat
    BY <1>1
  <2> HIDE DEF n
  <2> QED
    BY <2>1, <2>2, <2>3, <2>4
<1> HIDE DEF q, n
<1>15. Sound(q, m2)
  BY <1>5, <1>9, <1>10, <1>11, <1>12, <1>13, <1>14, OnlyFreeSound
<1> QED
  BY <1>3, <1>6, <1>13, <1>15 DEF r

LEMMA KeepSound ==
    ASSUME NEW p, NEW m, Sound(p, m), OnlyFree(p), NEW d, NEW k \in Nat,
           KeepFreeBuffers(p, m, d, TRUE, k).m.made <= MaxStorages
    PROVE  LET r == KeepFreeBuffers(p, m, d, TRUE, k) IN
           /\ Sound(r.p, r.m) /\ OnlyFree(r.p) /\ Extends(m, r.m)
           /\ k > 0 => r.p.count <= k
           /\ r = [p |-> r.p, m |-> r.m]
<1> DEFINE r == KeepFreeBuffers(p, m, d, TRUE, k)
<1>1. /\ p \in PoolType /\ m \in MemoryType /\ m.made \in Nat /\ p.free \in Seq(1..m.made)
      /\ p.max \in Nat /\ p.size \in Nat
  BY SoundParts
<1>2. CASE p.free # <<>> /\ p.initial <= SizeOf(m, Head(p.free))
  <2> DEFINE cut == CutFreeList(p, k)
             q == [cut EXCEPT !.size = SizeOf(m, Head(p.free))]
  <2>1. r = ReplaceUsed(q, m, d, TRUE)
    BY <1>2 DEF KeepFreeBuffers
  <2>2. Sound(cut, m) /\ OnlyFree(cut) /\ cut.size = p.size /\ (k > 0 => cut.count <= k)
    BY CutSound
  <2>3. SizeOf(m, Head(p.free)) = p.size
    <3>1. Head(p.free) = p.free[1] /\ 1 \in 1..Len(p.free)
      BY <1>1, <1>2, EmptySeq
    <3>2. p.free[1] \in 1..m.made
      BY <3>1, SoundParts
    <3>3. Head(p.free) # Nil
      BY <1>1, <3>1, <3>2 DEF Nil
    <3>4. m.size[p.free[1]] = p.size
      BY <3>1 DEF Sound, Sized
    <3> QED
      BY <3>1, <3>3, <3>4 DEF SizeOf
  <2> HIDE DEF cut, r
  <2>4. q = cut
    <3>1. cut \in PoolType
      BY <2>2 DEF Sound
    <3>2. q = [cut EXCEPT !.size = cut.size]
      BY <2>2, <2>3
    <3> QED
      BY <3>1, <3>2 DEF PoolType
  <2>5. r = ReplaceUsed(cut, m, d, TRUE) /\ r.m.made <= MaxStorages
    BY <2>1, <2>4 DEF r
  <2>6. /\ Sound(r.p, r.m) /\ OnlyFree(r.p) /\ Extends(m, r.m) /\ r.p.count = cut.count
    BY <2>2, <2>5, ReplaceSound
  <2>7. r = [p |-> r.p, m |-> r.m]
    BY <2>5 DEF ReplaceUsed
  <2> QED
    BY <2>2, <2>6, <2>7 DEF r
<1>3. CASE ~(p.free # <<>> /\ p.initial <= SizeOf(m, Head(p.free)))
  <2> DEFINE q == [p EXCEPT !.free = <<>>, !.count = 0, !.size = 0]
  <2>1. r = [p |-> q, m |-> m]
    BY <1>3 DEF KeepFreeBuffers
  <2>2. q \in PoolType
    <3>1. <<>> \in Seq(Storages \cup {Nil})
      BY EmptySeq
    <3> QED
      BY <1>1, <3>1 DEF PoolType
  <2>3. q.free = <<>> /\ q.count = 0 /\ OnlyFree(q) /\ q.max = p.max
    BY <1>1 DEF PoolType, OnlyFree
  <2> HIDE DEF q, r
  <2>4. q.free \in Seq(1..m.made) /\ Len(q.free) = 0 /\ 1..Len(q.free) = {} /\ 0 <= m.made
    BY <1>1, <2>3, EmptySeq
  <2>5. Sound(q, m)
    <3>1. /\ \A i, j \in 1..Len(q.free) : q.free[i] = q.free[j] => i = j
          /\ \A i \in 1..Len(q.free) : m.size[q.free[i]] = q.size
      BY <2>4
    <3>2. q.count = Len(q.free) /\ q.count <= m.made /\ (q.max > 0 => q.count <= q.max)
      BY <1>1, <2>3, <2>4
    <3> QED
      BY <1>1, <2>2, <2>3, <2>4, <3>1, <3>2, OnlyFreeSound
  <2>6. r.p = q /\ r.m = m
    BY <2>1
  <2>7. k > 0 => q.count <= k
    BY <2>3
  <2> QED
    BY <2>1, <2>3, <2>5, <2>6, <2>7, ExtendsSelf DEF r
<1> QED
  BY <1>2, <1>3

\* updateAlignment() moves the next offset up.
LEMMA AlignSound ==
    ASSUME NEW p, NEW m, Sound(p, m), NEW a \in Nat \ {0}
    PROVE  LET q == UpdateAlignment(p, a) IN
           /\ Sound(q, m) /\ q.cur = p.cur /\ q.inflight = p.inflight
           /\ q.next >= p.next /\ q.next \in Nat
<1> DEFINE q == UpdateAlignment(p, a)
<1>1. p \in PoolType /\ p.next \in Nat
  BY SoundParts
<1>2. q \in PoolType
  BY <1>1, UpdateAlignmentType
<1>3. RoundUp(p.next, a) \in Nat /\ RoundUp(p.next, a) >= p.next
  BY <1>1, RoundUpBound
<1>4. /\ q.cur = p.cur /\ q.inflight = p.inflight /\ q.free = p.free /\ q.size = p.size
      /\ q.count = p.count /\ q.max = p.max
      /\ q.next = IF a = p.align THEN p.next ELSE RoundUp(p.next, a)
  BY <1>1 DEF UpdateAlignment, PoolType
<1>5. q.max > 0 => q.count <= q.max
  BY <1>4 DEF Sound, Counted
<1> HIDE DEF q
<1>6. Sound(q, m)
  BY <1>2, <1>4, <1>5, SameListsSound
<1> QED
  BY <1>1, <1>3, <1>4, <1>6 DEF q

\* The initial size and the limit of a pool that has no more buffers.
LEMMA ConfigureSound ==
    ASSUME NEW p, NEW m, Sound(p, m), NEW n \in Nat, NEW limit \in Nat,
           limit > 0 => p.count <= limit
    PROVE  LET q == [p EXCEPT !.initial = n, !.max = limit] IN
           Sound(q, m) /\ q.cur = p.cur /\ q.inflight = p.inflight /\ q.next = p.next
<1> DEFINE q == [p EXCEPT !.initial = n, !.max = limit]
<1>1. p \in PoolType
  BY SoundParts
<1>2. q \in PoolType
  BY <1>1 DEF PoolType
<1>3. /\ q.cur = p.cur /\ q.inflight = p.inflight /\ q.free = p.free /\ q.size = p.size
      /\ q.count = p.count /\ q.max = limit /\ q.next = p.next
  BY <1>1 DEF PoolType
<1> HIDE DEF q
<1>4. Sound(q, m)
  BY <1>2, <1>3, SameListsSound
<1> QED
  BY <1>3, <1>4 DEF q

\* After reset() the pool has no current buffer and nothing in flight.
LEMMA ResetSound ==
    ASSUME NEW p, NEW m, Sound(p, m), NEW d, NEW n \in Nat, NEW a \in Nat \ {0}, NEW limit \in Nat,
           Reset(p, m, d, TRUE, n, a, limit).m.made <= MaxStorages
    PROVE  LET r == Reset(p, m, d, TRUE, n, a, limit) IN
           /\ Sound(r.p, r.m) /\ Extends(m, r.m) /\ r.p.cur = NoBuffer
<1> DEFINE f == FinalizePendingBuffer(p)
           l == ReleaseInFlightBuffers(f, m)
           k == KeepFreeBuffers(l, m, d, TRUE, limit)
           r == Reset(p, m, d, TRUE, n, a, limit)
           c == [k.p EXCEPT !.initial = n, !.max = limit]
<1>1. r = [k EXCEPT !.p = UpdateAlignment(c, a)]
  BY DEF Reset
<1>2. Sound(f, m) /\ f.cur = NoBuffer
  BY FinalizeSound
<1> HIDE DEF f
<1>3. Sound(l, m) /\ OnlyFree(l)
  BY <1>2, ReleaseSound DEF OnlyFree
<1>4. \A x, y, z : [[p |-> x, m |-> y] EXCEPT !.p = z] = [p |-> z, m |-> y]
  OBVIOUS
<1>5. \E x, y : k = [p |-> x, m |-> y]
  BY DEF KeepFreeBuffers, ReplaceUsed
<1> HIDE DEF k, l, c, r
<1>6. r.p = UpdateAlignment(c, a) /\ r.m = k.m
  BY <1>1, <1>4, <1>5
<1>7. k.m.made <= MaxStorages
  BY <1>6 DEF r
<1>8. /\ Sound(k.p, k.m) /\ OnlyFree(k.p) /\ Extends(m, k.m)
      /\ limit > 0 => k.p.count <= limit
  BY <1>3, <1>7, KeepSound DEF k
<1>9. Sound(c, k.m) /\ c.cur = NoBuffer
  <2>1. Sound(k.p, k.m) /\ (limit > 0 => k.p.count <= limit) /\ k.p.cur = NoBuffer
    BY <1>8 DEF OnlyFree
  <2>2. Sound(c, k.m) /\ c.cur = k.p.cur
    <3> DEFINE kp == k.p
               km == k.m
    <3>1. Sound(kp, km) /\ (limit > 0 => kp.count <= limit) /\ limit \in Nat
      BY <2>1
    <3> HIDE DEF kp, km
    <3>2. /\ Sound([kp EXCEPT !.initial = n, !.max = limit], km)
          /\ [kp EXCEPT !.initial = n, !.max = limit].cur = kp.cur
      BY <3>1, ConfigureSound, ZenonT(60)
    <3> QED
      BY <3>2 DEF c, kp, km
  <2> QED
    BY <2>1, <2>2
<1>10. Sound(r.p, k.m) /\ r.p.cur = NoBuffer
  BY <1>6, <1>9, AlignSound
<1> QED
  BY <1>6, <1>8, <1>10 DEF r

\* A new pool in the memory of a new device.
LEMMA NewPoolSound ==
    ASSUME NEW b \in BOOLEAN
    PROVE  Sound(NewPool(b, "auto"), NewMemory)
<1> DEFINE q == NewPool(b, "auto")
           m == NewMemory
<1>1. MaxStorages \in Nat
  BY StoragesBounded
<1>2. /\ q.cur = NoBuffer /\ q.inflight = <<>> /\ q.free = <<>> /\ q.count = 0 /\ q.max = 0
      /\ q.size = 0 /\ m.made = 0
  BY DEF NewPool, NewMemory
<1>3. q \in PoolType
  <2>1. <<>> \in Seq(Storages \cup {Nil})
    BY EmptySeq
  <2> QED
    BY <2>1 DEF NewPool, PoolType, Policies
<1>4. m \in MemoryType
  BY <1>1 DEF NewMemory, MemoryType
<1> HIDE DEF q, m
<1>5. q.free \in Seq(1..m.made) /\ Len(q.free) = 0 /\ 1..Len(q.free) = {}
  BY <1>2, EmptySeq
<1>6. OnlyFree(q)
  BY <1>2 DEF OnlyFree
<1>7. /\ \A i, j \in 1..Len(q.free) : q.free[i] = q.free[j] => i = j
      /\ \A i \in 1..Len(q.free) : m.size[q.free[i]] = q.size
  BY <1>5
<1>8. q.count = Len(q.free) /\ q.count <= m.made /\ (q.max > 0 => q.count <= q.max)
  BY <1>2, <1>5
<1> QED
  BY <1>3, <1>4, <1>5, <1>6, <1>7, <1>8, OnlyFreeSound DEF q, m

\* The number of storages after an operation is a number.
LEMMA AllocateMade ==
    ASSUME NEW p, NEW m, m.made \in Int, NEW d, NEW n
    PROVE  Allocate(p, m, d, n, TRUE).m.made \in Int
<1>1. ASSUME NEW q, NEW k, NEW b, b = NextBuffer(q, m, d, TRUE), b.m.made \in Int
      PROVE  AdvanceOffset(b, k).m.made \in Int
  <2>1. b = [p |-> b.p, m |-> b.m, flush |-> b.flush, ok |-> TRUE, done |-> b.done]
    BY <1>1, NextBufferShape
  <2>2. AdvanceOffset(b, k).m = b.m
    BY <2>1 DEF AdvanceOffset
  <2> QED
    BY <1>1, <2>2
<1>2. ASSUME NEW q PROVE FreeOrNew(q, m, d, TRUE).m.made \in Int
  BY DEF FreeOrNew, WaitForFree, Taken, MakeBuffer, CreateStorages
<1>3. ASSUME NEW q PROVE NextBuffer(q, m, d, TRUE).m.made \in Int
  BY <1>2 DEF NextBuffer, AllocateNewBuffer, Taken
<1>4. ASSUME NEW k PROVE AllocateRounded(p, m, d, k, TRUE).m.made \in Int
  <2>1. CASE Appends(p, m, k)
    BY <2>1 DEF AllocateRounded, AdvanceOffset
  <2>2. CASE ~Appends(p, m, k)
    <3> DEFINE b == NextBuffer(Grow(FinalizePendingBuffer(p), k), m, d, TRUE)
    <3>1. b.m.made \in Int
      BY <1>3
    <3>2. AllocateRounded(p, m, d, k, TRUE) = AdvanceOffset(b, k)
      BY <2>2 DEF AllocateRounded
    <3> QED
      BY <1>1, <3>1, <3>2
  <2> QED
    BY <2>1, <2>2
<1> QED
  BY <1>4 DEF Allocate

\* Besides, the number of storages after reset() is a number.
LEMMA ResetMade ==
    ASSUME NEW p, NEW m, Sound(p, m), NEW d, NEW n, NEW a, NEW limit \in Nat
    PROVE  Reset(p, m, d, TRUE, n, a, limit).m.made \in Int
<1> DEFINE l == ReleaseInFlightBuffers(FinalizePendingBuffer(p), m)
           k == KeepFreeBuffers(l, m, d, TRUE, limit)
           r == Reset(p, m, d, TRUE, n, a, limit)
<1>1. r.m = k.m
  <2>1. \E x, y : k = [p |-> x, m |-> y]
    BY DEF KeepFreeBuffers, ReplaceUsed
  <2>2. \A x, y, z : [[p |-> x, m |-> y] EXCEPT !.p = z].m = y
    OBVIOUS
  <2>3. \E z : r = [k EXCEPT !.p = z]
    BY DEF Reset
  <2> HIDE DEF k, r
  <2> QED
    BY <2>1, <2>2, <2>3
<1>2. Sound(l, m) /\ OnlyFree(l)
  BY FinalizeSound, ReleaseSound DEF OnlyFree
<1>3. m.made \in Nat
  BY SoundParts
<1> HIDE DEF l
<1> SUFFICES k.m.made \in Int
  BY <1>1
<1>4. CASE l.free # <<>> /\ l.initial <= SizeOf(m, Head(l.free))
  <2> DEFINE c == CutFreeList(l, limit)
             q == [c EXCEPT !.size = SizeOf(m, Head(l.free))]
             used == {i \in DOMAIN q.free : InUse(m, q.free[i], d)}
  <2>1. k = ReplaceUsed(q, m, d, TRUE)
    BY <1>4 DEF KeepFreeBuffers
  <2>2. k.m.made = m.made + Cardinality(used)
    <3> HIDE DEF k, q
    <3> QED
      BY <2>1 DEF ReplaceUsed, CreateStorages
  <2>3. Cardinality(used) \in Int
    <3>1. c \in PoolType
      BY <1>2, CutSound, SoundParts
    <3> HIDE DEF c
    <3>2. q.free = c.free /\ Len(c.free) \in Nat /\ DOMAIN c.free = 1..Len(c.free)
      BY <3>1, LenProperties DEF PoolType
    <3>3. used \subseteq 1..Len(c.free)
      BY <3>2
    <3> HIDE DEF used
    <3> QED
      BY <3>2, <3>3, RankSteps
  <2> HIDE DEF k, used
  <2> QED
    BY <1>3, <2>2, <2>3
<1>5. CASE ~(l.free # <<>> /\ l.initial <= SizeOf(m, Head(l.free)))
  <2>1. k.m = m
    BY <1>5 DEF KeepFreeBuffers
  <2> HIDE DEF k
  <2> QED
    BY <1>3, <2>1
<1> QED
  BY <1>4, <1>5

\* The owner may have changed the policy just before.
LEMMA PolicySound ==
    ASSUME NEW q, NEW m, Sound(q, m), NEW policy \in Policies
    PROVE  Sound([q EXCEPT !.policy = policy], m)
<1> DEFINE p == [q EXCEPT !.policy = policy]
<1>1. q \in PoolType
  BY SoundParts
<1>2. p \in PoolType
  BY <1>1 DEF PoolType
<1>3. /\ p.cur = q.cur /\ p.free = q.free /\ p.inflight = q.inflight
      /\ p.size = q.size /\ p.count = q.count /\ p.max = q.max
  BY <1>1 DEF PoolType
<1>4. p.max > 0 => p.count <= p.max
  BY <1>3 DEF Sound, Counted
<1> HIDE DEF p
<1>5. Sound(p, m)
  BY <1>2, <1>3, <1>4, SameListsSound
<1> QED
  BY <1>5 DEF p
=============================================================================
