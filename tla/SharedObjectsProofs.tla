------------------------- MODULE SharedObjectsProofs -------------------------
(***************************************************************************)
(* Proofs about the objects of a share group and their names: buffers      *)
(* (HandleAllocator, SharedBuffers), shaders and programs (SharedPrograms),*)
(* in the whole system ShareGroup.                                         *)
(***************************************************************************)
EXTENDS ShareGroup, TLAPS, SequenceTheorems, FiniteSetTheorems, WellFoundedInduction

-----------------------------------------------------------------------------
(* The allocator of names. *)

HandleRange == [begin : Nat, end : Nat]

Between(range, n) == range.begin <= n /\ n <= range.end

Covers(free, n) == \E i \in 1..Len(free) : Between(free[i], n)

\* The ranges are not empty, in order and apart.
Sorted(free) ==
    /\ free \in Seq(HandleRange)
    /\ \A i \in 1..Len(free) : 1 <= free[i].begin /\ free[i].begin <= free[i].end /\ free[i].end <= MaxName
    /\ \A i, j \in 1..Len(free) : i < j => free[i].end < free[j].begin

\* Each name of S can be handed out once, from the heap or from a range, and
\* no other name can.
AllocInv(a, S) ==
    /\ a \in [free : Seq(HandleRange), released : [DOMAIN a.released -> {1}]]
    /\ Sorted(a.free) /\ DOMAIN a.released \subseteq S /\ S \subseteq Names
    /\ \A n \in Names : Covers(a.free, n) <=> n \in S \ DOMAIN a.released

LEMMA RangeParts ==
    ASSUME NEW free \in Seq(HandleRange)
    PROVE  /\ Len(free) \in Nat
           /\ \A i \in 1..Len(free) : free[i] \in HandleRange /\ free[i].begin \in Nat /\ free[i].end \in Nat
<1>1. Len(free) \in Nat
  BY LenProperties
<1>2. \A i \in 1..Len(free) : free[i] \in HandleRange
  BY ElementOfSeq
<1> QED
  BY <1>1, <1>2 DEF HandleRange

\* A nonempty set of names has a lowest one.
LEMMA LowestName ==
    ASSUME NEW S, S \subseteq Nat, S # {}
    PROVE  Lowest(S) \in S /\ \A m \in S : Lowest(S) <= m
<1>1. \E x \in S : \A y \in S : ~ (<<y, x>> \in OpToRel(<, Nat))
  BY NatLessThanWellFounded, WFMin
<1>2. PICK x \in S : \A y \in S : ~ (<<y, x>> \in OpToRel(<, Nat))
  BY <1>1
<1>3. \A y \in S : ~(y < x)
  BY <1>2 DEF OpToRel
<1>4. \A y \in S : x <= y
  <2>1. ASSUME NEW y \in S PROVE x <= y
    <3>1. x \in Nat /\ y \in Nat /\ ~(y < x)
      BY <1>3
    <3> QED
      BY <3>1
  <2> QED
    BY <2>1
<1> QED
  BY <1>4 DEF Lowest

\* Ranges one after the other.
LEMMA ConcatSorted ==
    ASSUME NEW s, NEW t, Sorted(s), Sorted(t),
           \A i \in 1..Len(s), j \in 1..Len(t) : s[i].end < t[j].begin
    PROVE  /\ Sorted(s \o t)
           /\ \A n : Covers(s \o t, n) <=> Covers(s, n) \/ Covers(t, n)
           /\ \A i \in 1..Len(s \o t) :
                \/ \E j \in 1..Len(s) : (s \o t)[i] = s[j]
                \/ \E j \in 1..Len(t) : (s \o t)[i] = t[j]
<1> DEFINE r == s \o t
           m == Len(s)
           k == Len(t)
<1>1. s \in Seq(HandleRange) /\ t \in Seq(HandleRange)
  BY DEF Sorted
<1>2. /\ r \in Seq(HandleRange) /\ Len(r) = m + k /\ m \in Nat /\ k \in Nat
      /\ \A i \in 1..m + k : r[i] = IF i <= m THEN s[i] ELSE t[i - m]
  BY <1>1, ConcatProperties, LenProperties
<1>3. /\ \A i \in 1..m : 1 <= s[i].begin /\ s[i].begin <= s[i].end /\ s[i].end <= MaxName
      /\ \A i, j \in 1..m : i < j => s[i].end < s[j].begin
      /\ \A i \in 1..k : 1 <= t[i].begin /\ t[i].begin <= t[i].end /\ t[i].end <= MaxName
      /\ \A i, j \in 1..k : i < j => t[i].end < t[j].begin
      /\ \A i \in 1..m, j \in 1..k : s[i].end < t[j].begin
  BY DEF Sorted
<1>4. \A n : Covers(s, n) <=> \E i \in 1..m : Between(s[i], n)
  BY DEF Covers
<1>5. \A n : Covers(t, n) <=> \E i \in 1..k : Between(t[i], n)
  BY DEF Covers
<1> HIDE DEF r, m, k
<1>6. \A i \in 1..m + k : \/ i \in 1..m /\ r[i] = s[i]
                          \/ ~(i <= m) /\ i - m \in 1..k /\ r[i] = t[i - m]
  <2>1. \A i \in 1..m + k : i \in 1..m \/ (~(i <= m) /\ i - m \in 1..k)
    BY <1>2
  <2>2. \A i \in 1..m : i <= m
    BY <1>2
  <2> QED
    BY <1>2, <2>1, <2>2
<1>7. \A i \in 1..m : i \in 1..m + k /\ r[i] = s[i]
  <2>1. \A i \in 1..m : i \in 1..m + k /\ i <= m
    BY <1>2
  <2> QED
    BY <1>2, <2>1
<1>8. \A j \in 1..k : m + j \in 1..m + k /\ r[m + j] = t[j]
  <2>1. \A j \in 1..k : m + j \in 1..m + k /\ ~(m + j <= m) /\ (m + j) - m = j
    BY <1>2
  <2> QED
    BY <1>2, <2>1
<1>9. Sorted(r)
  <2>1. \A i \in 1..m + k : 1 <= r[i].begin /\ r[i].begin <= r[i].end /\ r[i].end <= MaxName
    BY <1>3, <1>6
  <2>2. ASSUME NEW i \in 1..m + k, NEW j \in 1..m + k, i < j PROVE r[i].end < r[j].begin
    <3>1. CASE i \in 1..m /\ j \in 1..m
      BY <1>3, <1>7, <2>2, <3>1
    <3>2. CASE i \in 1..m /\ j \notin 1..m
      BY <1>3, <1>6, <1>7, <3>2
    <3>3. CASE i \notin 1..m /\ j \notin 1..m
      <4>1. i - m \in 1..k /\ j - m \in 1..k /\ r[i] = t[i - m] /\ r[j] = t[j - m]
        BY <1>6, <3>3
      <4>2. i - m < j - m
        BY <1>2, <2>2
      <4> QED
        BY <1>3, <4>1, <4>2
    <3>4. CASE i \notin 1..m /\ j \in 1..m
      BY <1>2, <2>2, <3>4
    <3> QED
      BY <3>1, <3>2, <3>3, <3>4
  <2> QED
    BY <1>2, <2>1, <2>2 DEF Sorted
<1>10. ASSUME NEW n PROVE Covers(r, n) <=> Covers(s, n) \/ Covers(t, n)
  <2>1. Covers(r, n) <=> \E i \in 1..m + k : Between(r[i], n)
    BY <1>2 DEF Covers
  <2> QED
    BY <1>4, <1>5, <1>6, <1>7, <1>8, <2>1
<1>11. \A i \in 1..Len(r) : (\E j \in 1..m : r[i] = s[j]) \/ (\E j \in 1..k : r[i] = t[j])
  BY <1>2, <1>6
<1> QED
  BY <1>9, <1>10, <1>11 DEF r, m, k

\* The ranges b to c of others.
IsSlice(t, free, b, c) ==
    /\ Sorted(t)
    /\ \A x : Covers(t, x) <=> \E k \in b..c : Between(free[k], x)
    /\ \A k \in 1..Len(t) : \E j \in b..c : t[k] = free[j]

LEMMA SliceSorted ==
    ASSUME NEW free, Sorted(free), NEW m \in Nat \ {0}, NEW n \in Nat, n <= Len(free)
    PROVE  IsSlice(SubSeq(free, m, n), free, m, n)
<1> DEFINE r == SubSeq(free, m, n)
           l == Len(r)
<1>1. free \in Seq(HandleRange) /\ Len(free) \in Nat /\ \A i \in 1..Len(free) : free[i] \in HandleRange
  BY RangeParts DEF Sorted
<1>2. \A i \in m..n : i \in 1..Len(free)
  BY <1>1
<1>3. /\ r \in Seq(HandleRange) /\ l = IF m <= n THEN n - m + 1 ELSE 0
      /\ \A i \in 1..n - m + 1 : r[i] = free[m + i - 1]
  <2>1. m \in Int /\ n \in Int /\ \A i \in m..n : free[i] \in HandleRange
    BY <1>1, <1>2
  <2> QED
    BY <2>1, SubSeqProperties
<1> HIDE DEF r
<1>4. l \in Nat /\ \A i \in 1..l : m + i - 1 \in m..n /\ r[i] = free[m + i - 1]
  <2>1. \A i \in 1..l : i \in 1..n - m + 1 /\ m + i - 1 \in m..n
    BY <1>3
  <2>2. l \in Nat
    BY <1>3
  <2> QED
    BY <1>3, <2>1, <2>2
<1>5. \A j \in m..n : j - m + 1 \in 1..l /\ r[j - m + 1] = free[j]
  <2>1. \A j \in m..n : j - m + 1 \in 1..l /\ m + (j - m + 1) - 1 = j
    BY <1>3
  <2> QED
    BY <1>4, <2>1
<1>6. Sorted(r)
  <2>1. \A i \in 1..l : 1 <= r[i].begin /\ r[i].begin <= r[i].end /\ r[i].end <= MaxName
    BY <1>2, <1>4 DEF Sorted
  <2>2. ASSUME NEW i \in 1..l, NEW j \in 1..l, i < j PROVE r[i].end < r[j].begin
    <3>1. m + i - 1 \in 1..Len(free) /\ m + j - 1 \in 1..Len(free) /\ m + i - 1 < m + j - 1
      BY <1>2, <1>4, <2>2
    <3>2. free[m + i - 1].end < free[m + j - 1].begin
      BY <3>1 DEF Sorted
    <3> QED
      BY <1>4, <3>2
  <2> HIDE DEF l
  <2> QED
    BY <1>3, <2>1, <2>2 DEF Sorted, l
<1>7. ASSUME NEW x PROVE Covers(r, x) <=> \E i \in m..n : Between(free[i], x)
  <2>1. Covers(r, x) <=> \E i \in 1..l : Between(r[i], x)
    BY DEF Covers
  <2> HIDE DEF l
  <2> QED
    BY <1>4, <1>5, <2>1
<1> QED
  BY <1>4, <1>6, <1>7 DEF r, IsSlice

\* A single range.
LEMMA PartSorted ==
    ASSUME NEW b \in Nat, NEW e \in Nat, 1 <= b, e <= MaxName
    PROVE  /\ Sorted(Part(b, e))
           /\ \A n \in Names : Covers(Part(b, e), n) <=> b <= n /\ n <= e
           /\ \A i \in 1..Len(Part(b, e)) : Part(b, e)[i].begin = b /\ Part(b, e)[i].end = e
<1> DEFINE q == [begin |-> b, end |-> e]
<1>1. q \in HandleRange /\ q.begin = b /\ q.end = e /\ MaxName \in Nat
  BY NameAssumption DEF HandleRange
<1> HIDE DEF q
<1>2. CASE b <= e
  <2>1. Part(b, e) = <<q>> /\ <<q>> \in Seq(HandleRange) /\ Len(<<q>>) = 1 /\ <<q>>[1] = q
    BY <1>1, <1>2 DEF Part, q
  <2>2. \A i \in 1..1 : i = 1
    OBVIOUS
  <2>3. 1 \in 1..1
    OBVIOUS
  <2> QED
    BY <1>1, <1>2, <2>1, <2>2, <2>3 DEF Sorted, Covers, Between
<1>3. CASE ~(b <= e)
  <2>1. Part(b, e) = <<>>
    BY <1>3 DEF Part
  <2>2. <<>> \in Seq(HandleRange) /\ \A i \in 1..Len(<<>>) : FALSE
    BY EmptySeq
  <2>3. \A n \in Names : ~(b <= n /\ n <= e)
    BY <1>3 DEF Names
  <2> QED
    BY <2>1, <2>2, <2>3 DEF Sorted, Covers
<1> QED
  BY <1>2, <1>3

\* Names taken from the heap and given to it.
LEMMA HeapProperties ==
    ASSUME NEW D, NEW B \in [D -> {1}], NEW n
    PROVE  /\ DOMAIN B = D /\ (BagIn(n, B) <=> n \in D)
           /\ n \in D => B (-) SetToBag({n}) \in [D \ {n} -> {1}]
           /\ n \notin D => B (+) SetToBag({n}) \in [D \cup {n} -> {1}]
<1>1. SetToBag({n}) = [x \in {n} |-> 1]
  BY DEF SetToBag
<1>2. ASSUME n \in D PROVE B (-) SetToBag({n}) \in [D \ {n} -> {1}]
  <2> DEFINE C == [x \in DOMAIN B |-> IF x \in DOMAIN SetToBag({n}) THEN B[x] - SetToBag({n})[x] ELSE B[x]]
  <2>1. C = [x \in D |-> IF x = n THEN 0 ELSE 1]
    BY <1>1
  <2>2. B (-) SetToBag({n}) = [x \in {d \in DOMAIN C : C[d] > 0} |-> C[x]]
    BY DEF (-)
  <2> HIDE DEF C
  <2>3. {d \in DOMAIN C : C[d] > 0} = D \ {n}
    BY <2>1
  <2> QED
    BY <2>1, <2>2, <2>3
<1>3. ASSUME n \notin D PROVE B (+) SetToBag({n}) \in [D \cup {n} -> {1}]
  <2>1. B (+) SetToBag({n})
          = [x \in (DOMAIN B) \cup (DOMAIN SetToBag({n})) |->
               (IF x \in DOMAIN B THEN B[x] ELSE 0)
                 + (IF x \in DOMAIN SetToBag({n}) THEN SetToBag({n})[x] ELSE 0)]
    BY DEF (+)
  <2>2. (DOMAIN B) \cup (DOMAIN SetToBag({n})) = D \cup {n}
    BY <1>1
  <2>3. \A x \in D \cup {n} : (IF x \in DOMAIN B THEN B[x] ELSE 0)
                 + (IF x \in DOMAIN SetToBag({n}) THEN SetToBag({n})[x] ELSE 0) = 1
    BY <1>1, <1>3
  <2> QED
    BY <2>1, <2>2, <2>3
<1> QED
  BY <1>2, <1>3 DEF BagIn, BagToSet

LEMMA NewAlloc == AllocInv(NewAllocator, Names)
<1>1. NewAllocator.free = <<[begin |-> 1, end |-> MaxName]>> /\ NewAllocator.released = EmptyBag
      /\ MaxName \in Nat /\ 1 <= MaxName
  BY NameAssumption DEF NewAllocator
<1>2. EmptyBag \in [{} -> {1}] /\ DOMAIN EmptyBag = {}
  BY DEF EmptyBag, SetToBag
<1>3. Part(1, MaxName) = NewAllocator.free
  BY <1>1 DEF Part
<1>4. Sorted(NewAllocator.free) /\ \A n \in Names : Covers(NewAllocator.free, n)
  <2>1. Sorted(Part(1, MaxName)) /\ \A n \in Names : Covers(Part(1, MaxName), n) <=> 1 <= n /\ n <= MaxName
    BY <1>1, PartSorted, 1 \in Nat, 1 <= 1, MaxName <= MaxName
  <2>2. \A n \in Names : 1 <= n /\ n <= MaxName
    BY <1>1 DEF Names
  <2> QED
    BY <1>3, <2>1, <2>2
<1>5. NewAllocator.free \in Seq(HandleRange)
  BY <1>4 DEF Sorted
<1>6. NewAllocator \in [free : Seq(HandleRange), released : [DOMAIN NewAllocator.released -> {1}]]
  BY <1>1, <1>2, <1>5 DEF NewAllocator
<1> QED
  BY <1>1, <1>2, <1>4, <1>6 DEF AllocInv

\* The heap gives a name away.
LEMMA FromHeap ==
    ASSUME NEW a, NEW S, AllocInv(a, S), NEW n \in DOMAIN a.released
    PROVE  n \in S /\ AllocInv([a EXCEPT !.released = @ (-) SetToBag({n})], S \ {n})
<1> DEFINE D == DOMAIN a.released
           B == a.released
           r == B (-) SetToBag({n})
           z == [a EXCEPT !.released = r]
<1>1. /\ a \in [free : Seq(HandleRange), released : [D -> {1}]]
      /\ B \in [D -> {1}] /\ Sorted(a.free) /\ D \subseteq S /\ S \subseteq Names /\ n \in D
      /\ \A x \in Names : Covers(a.free, x) <=> x \in S \ D
  BY DEF AllocInv
<1>2. r \in [D \ {n} -> {1}]
  <2>1. B \in [D -> {1}] /\ n \in D
    BY <1>1
  <2> HIDE DEF B, D
  <2> QED
    BY <2>1, HeapProperties
<1> HIDE DEF r, D
<1>3. z.free = a.free /\ z.released = r /\ DOMAIN r = D \ {n}
      /\ z \in [free : Seq(HandleRange), released : [D \ {n} -> {1}]]
  BY <1>1, <1>2
<1> HIDE DEF z
<1>4. \A x \in Names : x \in S \ D <=> x \in (S \ {n}) \ (D \ {n})
  BY <1>1
<1>5. AllocInv(z, S \ {n})
  BY <1>1, <1>3, <1>4 DEF AllocInv
<1>6. z = [a EXCEPT !.released = @ (-) SetToBag({n})]
  BY DEF z, r
<1> QED
  BY <1>1, <1>5, <1>6

\* allocate() hands out a name that is free.
LEMMA TakeKeeps ==
    ASSUME NEW a, NEW S, AllocInv(a, S), HasName(a)
    PROVE  NextName(a) \in S /\ AllocInv(TakeName(a), S \ {NextName(a)})
<1> DEFINE n == NextName(a)
           z == TakeName(a)
           D == DOMAIN a.released
<1>1. /\ a \in [free : Seq(HandleRange), released : [D -> {1}]] /\ a.free \in Seq(HandleRange)
      /\ a.released \in [D -> {1}] /\ Sorted(a.free) /\ D \subseteq S /\ S \subseteq Names
      /\ \A x \in Names : Covers(a.free, x) <=> x \in S \ D
  BY DEF AllocInv
<1>2. MaxName \in Nat /\ Names \subseteq Nat
  BY NameAssumption DEF Names
<1>3. CASE a.released # EmptyBag
  <2>1. D # {}
    BY <1>1, <1>3 DEF EmptyBag, SetToBag
  <2>2. n = Lowest(D) /\ n \in D
    <3>1. D \subseteq Nat
      BY <1>1, <1>2
    <3> HIDE DEF D
    <3>2. Lowest(D) \in D
      BY <2>1, <3>1, LowestName
    <3> QED
      BY <1>3, <3>2 DEF NextName, BagToSet, D
  <2>3. z = [a EXCEPT !.released = @ (-) SetToBag({n})]
    BY <1>3 DEF TakeName
  <2>4. n \in DOMAIN a.released
    BY <2>2
  <2> HIDE DEF n, z
  <2>5. n \in S /\ AllocInv([a EXCEPT !.released = @ (-) SetToBag({n})], S \ {n})
    BY <2>4, FromHeap
  <2> QED
    BY <2>3, <2>5 DEF n, z
<1>4. CASE a.released = EmptyBag
  <2>1. D = {}
    BY <1>4 DEF EmptyBag, SetToBag
  <2> DEFINE f == a.free
             b == f[1].begin
             e == f[1].end
             t == Tail(f)
             new == Part(b + 1, e) \o t
  <2>2. f # <<>> /\ n = b /\ z = [a EXCEPT !.free = new]
    BY <1>4 DEF HasName, NextName, TakeName
  <2>3. /\ f \in Seq(HandleRange) /\ Len(f) \in Nat /\ Len(f) # 0 /\ 1 \in 1..Len(f)
        /\ b \in Nat /\ e \in Nat /\ 1 <= b /\ b <= e /\ e <= MaxName
    <3>1. f \in Seq(HandleRange) /\ Len(f) \in Nat /\ Len(f) # 0
      BY <1>1, <2>2, EmptySeq, LenProperties
    <3>2. 1 \in 1..Len(f)
      BY <3>1
    <3> QED
      BY <1>1, <3>1, <3>2, RangeParts DEF Sorted
  <2>4. t = SubSeq(f, 2, Len(f))
    BY <2>2, <2>3, TailIsSubSeq
  <2>5. Sorted(f)
    BY <1>1
  <2> HIDE DEF f, n, z, D
  <2>6. /\ Sorted(t) /\ \A x : Covers(t, x) <=> \E i \in 2..Len(f) : Between(f[i], x)
        /\ \A i \in 1..Len(t) : \E j \in 2..Len(f) : t[i] = f[j]
    <3> DEFINE l == Len(f)
    <3>1. 2 \in Nat \ {0} /\ l \in Nat /\ l <= Len(f)
      BY <2>3
    <3>2. t = SubSeq(f, 2, l) /\ Sorted(f)
      BY <2>4, <2>5
    <3>3. IsSlice(SubSeq(f, 2, l), f, 2, l)
      <4> HIDE DEF l, t
      <4> QED
        BY <3>1, <3>2, SliceSorted
    <3> HIDE DEF t
    <3> QED
      BY <3>2, <3>3 DEF IsSlice
  <2>7. /\ Sorted(Part(b + 1, e))
        /\ \A x \in Names : Covers(Part(b + 1, e), x) <=> b + 1 <= x /\ x <= e
        /\ \A i \in 1..Len(Part(b + 1, e)) : Part(b + 1, e)[i].end = e
    BY <2>3, PartSorted
  <2>8. \A j \in 2..Len(f) : e < f[j].begin
    <3>1. \A j \in 2..Len(f) : j \in 1..Len(f) /\ 1 < j
      BY <2>3
    <3> QED
      BY <2>3, <2>5, <3>1 DEF Sorted
  <2> HIDE DEF t
  <2>9. Sorted(new) /\ \A x : Covers(new, x) <=> Covers(Part(b + 1, e), x) \/ Covers(t, x)
    <3> DEFINE p == Part(b + 1, e)
    <3>1. \A i \in 1..Len(p), j \in 1..Len(t) : p[i].end < t[j].begin
      BY <2>6, <2>7, <2>8
    <3>2. Sorted(p) /\ Sorted(t)
      BY <2>6, <2>7
    <3> HIDE DEF p
    <3>3. Sorted(p \o t) /\ \A x : Covers(p \o t, x) <=> Covers(p, x) \/ Covers(t, x)
      BY <3>1, <3>2, ConcatSorted
    <3> QED
      BY <3>3 DEF p
  <2>10. ASSUME NEW x \in Names PROVE Covers(f, x) <=> (b <= x /\ x <= e) \/ Covers(t, x)
    <3>1. Covers(f, x) <=> \E i \in 1..Len(f) : Between(f[i], x)
      BY DEF Covers
    <3>2. \A i \in 1..Len(f) : i = 1 \/ i \in 2..Len(f)
      BY <2>3
    <3>3. \A i \in 2..Len(f) : i \in 1..Len(f)
      BY <2>3
    <3>4. Between(f[1], x) <=> b <= x /\ x <= e
      BY DEF Between
    <3> QED
      BY <2>3, <2>6, <3>1, <3>2, <3>3, <3>4
  <2>11. ~Covers(t, b)
    <3>1. \A j \in 2..Len(f) : f[j].begin \in Nat /\ ~(f[j].begin <= b)
      <4>1. \A j \in 2..Len(f) : j \in 1..Len(f)
        BY <2>3
      <4>2. \A j \in 2..Len(f) : f[j].begin \in Nat /\ e < f[j].begin
        BY <2>3, <2>8, <4>1, RangeParts
      <4> QED
        BY <2>3, <4>2
    <3> QED
      BY <2>6, <3>1 DEF Between
  <2>12. b \in Names /\ b \in S
    <3>1. b \in Names
      BY <1>2, <2>3 DEF Names
    <3>2. Covers(f, b)
      BY <2>3, <2>10, <3>1
    <3> QED
      BY <1>1, <3>1, <3>2 DEF f
  <2>13. \A x \in Names : Covers(new, x) <=> x \in S \ {b}
    <3>1. SUFFICES ASSUME NEW x \in Names PROVE Covers(new, x) <=> x \in S \ {b}
      OBVIOUS
    <3>2. x \in Nat
      BY <1>2
    <3>3. Covers(f, x) <=> x \in S
      BY <1>1, <2>1 DEF f, D
    <3>4. b + 1 <= x /\ x <= e <=> b <= x /\ x <= e /\ x # b
      BY <2>3, <3>2
    <3>5. Covers(Part(b + 1, e), x) <=> b + 1 <= x /\ x <= e
      BY <2>7
    <3>6. Covers(new, x) <=> Covers(Part(b + 1, e), x) \/ Covers(t, x)
      BY <2>9
    <3> HIDE DEF new, b, e
    <3> QED
      BY <2>10, <2>11, <3>3, <3>4, <3>5, <3>6
  <2> HIDE DEF new, b
  <2>14. /\ z.free = new /\ z.released = a.released /\ new \in Seq(HandleRange)
         /\ z \in [free : Seq(HandleRange), released : [{} -> {1}]] /\ DOMAIN a.released = {}
    <3>1. new \in Seq(HandleRange)
      BY <2>9 DEF Sorted
    <3> QED
      BY <1>1, <2>1, <2>2, <3>1 DEF D
  <2>15. AllocInv(z, S \ {b})
    BY <1>1, <2>9, <2>13, <2>14 DEF AllocInv
  <2> QED
    BY <2>2, <2>12, <2>15 DEF n, z
<1> QED
  BY <1>3, <1>4

\* release() makes a name free again that is not.
LEMMA ReleaseNameKeeps ==
    ASSUME NEW a, NEW S, AllocInv(a, S), NEW n \in Names \ S
    PROVE  AllocInv(ReleaseName(a, n), S \cup {n})
<1> DEFINE D == DOMAIN a.released
           B == a.released
           r == B (+) SetToBag({n})
           z == ReleaseName(a, n)
<1>1. /\ a \in [free : Seq(HandleRange), released : [D -> {1}]]
      /\ B \in [D -> {1}] /\ Sorted(a.free) /\ D \subseteq S /\ S \subseteq Names
      /\ \A x \in Names : Covers(a.free, x) <=> x \in S \ D
  BY DEF AllocInv
<1>2. z = [a EXCEPT !.released = r]
  BY DEF ReleaseName
<1>3. r \in [D \cup {n} -> {1}]
  <2>1. B \in [D -> {1}] /\ n \notin D
    BY <1>1
  <2> HIDE DEF B, D
  <2> QED
    BY <2>1, HeapProperties
<1> HIDE DEF r, D, z
<1>4. z.free = a.free /\ z.released = r /\ DOMAIN r = D \cup {n}
      /\ z \in [free : Seq(HandleRange), released : [D \cup {n} -> {1}]]
  BY <1>1, <1>2, <1>3
<1>5. \A x \in Names : x \in S \ D <=> x \in (S \cup {n}) \ (D \cup {n})
  OBVIOUS
<1>6. AllocInv(z, S \cup {n})
  BY <1>1, <1>4, <1>5 DEF AllocInv
<1> QED
  BY <1>6 DEF z

\* A range without a name.
LEMMA WithoutSorted ==
    ASSUME NEW q \in HandleRange, NEW n \in Nat, 1 <= q.begin, q.end <= MaxName, Between(q, n)
    PROVE  /\ Sorted(Without(q, n))
           /\ \A x \in Names : Covers(Without(q, n), x) <=> (Between(q, x) /\ x # n)
           /\ \A i \in 1..Len(Without(q, n)) :
                q.begin <= Without(q, n)[i].begin /\ Without(q, n)[i].end <= q.end
<1> DEFINE b == q.begin
           e == q.end
           s == Part(b, n - 1)
           t == Part(n + 1, e)
<1>1. /\ b \in Nat /\ e \in Nat /\ 1 <= b /\ e <= MaxName /\ b <= n /\ n <= e /\ MaxName \in Nat
      /\ n - 1 \in Nat /\ n + 1 \in Nat /\ n - 1 <= MaxName /\ 1 <= n + 1
  BY NameAssumption DEF HandleRange, Between
<1>2. Without(q, n) = s \o t
  BY DEF Without
<1>3. \A x \in Names : Between(q, x) <=> (b <= x /\ x <= e)
  BY DEF Between
<1> HIDE DEF b, e
<1>4. /\ Sorted(s) /\ \A x \in Names : Covers(s, x) <=> b <= x /\ x <= n - 1
      /\ \A i \in 1..Len(s) : s[i].begin = b /\ s[i].end = n - 1
  <2> DEFINE d == n - 1
  <2>1. d \in Nat /\ d <= MaxName
    BY <1>1
  <2> HIDE DEF d
  <2>2. /\ Sorted(Part(b, d)) /\ \A x \in Names : Covers(Part(b, d), x) <=> b <= x /\ x <= d
        /\ \A i \in 1..Len(Part(b, d)) : Part(b, d)[i].begin = b /\ Part(b, d)[i].end = d
    BY <1>1, <2>1, PartSorted
  <2> QED
    BY <2>2 DEF d
<1>5. /\ Sorted(t) /\ \A x \in Names : Covers(t, x) <=> n + 1 <= x /\ x <= e
      /\ \A i \in 1..Len(t) : t[i].begin = n + 1 /\ t[i].end = e
  <2> DEFINE d == n + 1
  <2>1. d \in Nat /\ 1 <= d
    BY <1>1
  <2> HIDE DEF d
  <2>2. /\ Sorted(Part(d, e)) /\ \A x \in Names : Covers(Part(d, e), x) <=> d <= x /\ x <= e
        /\ \A i \in 1..Len(Part(d, e)) : Part(d, e)[i].begin = d /\ Part(d, e)[i].end = e
    BY <1>1, <2>1, PartSorted
  <2> QED
    BY <2>2 DEF d
<1> HIDE DEF s, t
<1>6. \A i \in 1..Len(s), j \in 1..Len(t) : s[i].end < t[j].begin
  <2>1. n - 1 < n + 1
    BY <1>1
  <2> QED
    BY <1>4, <1>5, <2>1
<1>7. /\ Sorted(s \o t) /\ \A x : Covers(s \o t, x) <=> Covers(s, x) \/ Covers(t, x)
      /\ \A i \in 1..Len(s \o t) :
           \/ \E j \in 1..Len(s) : (s \o t)[i] = s[j]
           \/ \E j \in 1..Len(t) : (s \o t)[i] = t[j]
  BY <1>4, <1>5, <1>6, ConcatSorted
<1> DEFINE r == s \o t
<1> HIDE DEF r
<1>8. \A x \in Names : Covers(r, x) <=> (Between(q, x) /\ x # n)
  <2>1. \A x \in Names : x \in Nat
    BY <1>1 DEF Names
  <2>2. \A x \in Nat : ((b <= x /\ x <= n - 1) \/ (n + 1 <= x /\ x <= e)) <=> (b <= x /\ x <= e /\ x # n)
    BY <1>1
  <2> QED
    BY <1>3, <1>4, <1>5, <1>7, <2>1, <2>2 DEF r
<1>9. \A i \in 1..Len(r) : b <= r[i].begin /\ r[i].end <= e
  <2>1. b <= b /\ n - 1 <= e /\ b <= n + 1 /\ e <= e
    BY <1>1
  <2>2. \A i \in 1..Len(r) : \/ r[i].begin = b /\ r[i].end = n - 1
                             \/ r[i].begin = n + 1 /\ r[i].end = e
    BY <1>4, <1>5, <1>7 DEF r
  <2> QED
    BY <2>1, <2>2
<1> QED
  BY <1>2, <1>7, <1>8, <1>9 DEF r, b, e

LEMMA SidesSorted ==
    ASSUME NEW free, Sorted(free), NEW i \in 1..Len(free)
    PROVE  /\ IsSlice(SubSeq(free, 1, i - 1), free, 1, i - 1)
           /\ IsSlice(SubSeq(free, i + 1, Len(free)), free, i + 1, Len(free))
<1> DEFINE b == 1
           c == i - 1
           d == i + 1
           l == Len(free)
<1>1. b \in Nat \ {0} /\ c \in Nat /\ c <= Len(free) /\ d \in Nat \ {0} /\ l \in Nat /\ l <= Len(free)
  BY RangeParts DEF Sorted
<1> HIDE DEF b, c, d, l
<1>2. IsSlice(SubSeq(free, b, c), free, b, c)
  BY <1>1, SliceSorted
<1>3. IsSlice(SubSeq(free, d, l), free, d, l)
  BY <1>1, SliceSorted
<1> QED
  BY <1>2, <1>3 DEF b, c, d, l

\* reserve() takes the name that was asked for, and only that one.
LEMMA ReserveKeeps ==
    ASSUME NEW a, NEW S, AllocInv(a, S), NEW n \in S
    PROVE  AllocInv(Reserve(a, n), S \ {n})
<1> DEFINE D == DOMAIN a.released
           f == a.free
<1>1. /\ a \in [free : Seq(HandleRange), released : [D -> {1}]] /\ f \in Seq(HandleRange)
      /\ Sorted(f) /\ D \subseteq S /\ S \subseteq Names /\ n \in Names
      /\ \A x \in Names : Covers(f, x) <=> x \in S \ D
  BY DEF AllocInv
<1>2. MaxName \in Nat /\ Names \subseteq Nat /\ n \in Nat
  BY <1>1, NameAssumption DEF Names
<1>3. BagIn(n, a.released) <=> n \in D
  BY DEF BagIn, BagToSet
<1>4. CASE n \in D
  BY <1>3, <1>4, FromHeap DEF Reserve
<1>5. CASE n \notin D
  <2> DEFINE i == LowerBound(f, n)
             q == f[i]
             s == SubSeq(f, 1, i - 1)
             w == Without(q, n)
             t == SubSeq(f, i + 1, Len(f))
             new == (s \o w) \o t
             z == [a EXCEPT !.free = new]
  <2>1. Reserve(a, n) = z
    BY <1>3, <1>5 DEF Reserve
  <2>2. /\ Len(f) \in Nat /\ DOMAIN f = 1..Len(f)
        /\ \A k \in 1..Len(f) : f[k] \in HandleRange /\ f[k].begin \in Nat /\ f[k].end \in Nat
    BY <1>1, RangeParts, LenProperties
  <2>3. i \in 1..Len(f) /\ Between(q, n)
    <3> DEFINE I == {k \in DOMAIN f : f[k].end >= n}
    <3>1. PICK j \in 1..Len(f) : Between(f[j], n)
      BY <1>1, <1>5 DEF Covers
    <3>2. j \in I /\ I \subseteq Nat
      BY <1>2, <2>2, <3>1 DEF Between
    <3>3. i = Lowest(I)
      BY DEF LowerBound
    <3> HIDE DEF i
    <3>4. i \in I /\ i <= j
      <4> HIDE DEF I
      <4> QED
        BY <3>2, <3>3, LowestName
    <3>5. i \in 1..Len(f) /\ f[i].end >= n
      BY <2>2, <3>4
    <3>6. ~(i < j)
      <4>1. f[j].begin <= n
        BY <3>1 DEF Between
      <4>2. i < j => f[i].end < f[j].begin
        BY <1>1, <3>5 DEF Sorted
      <4> HIDE DEF I, f
      <4> QED
        BY <1>2, <2>2, <3>5, <4>1, <4>2
    <3>7. i = j
      BY <2>2, <3>4, <3>5, <3>6
    <3> QED
      BY <3>1, <3>7
  <2> HIDE DEF i, f, D
  <2>20. IsSlice(s, f, 1, i - 1) /\ IsSlice(t, f, i + 1, Len(f))
    <3>1. Sorted(f) /\ i \in 1..Len(f)
      BY <1>1, <2>3
    <3> QED
      BY <3>1, SidesSorted
  <2> HIDE DEF s, t
  <2>4. /\ Sorted(s) /\ \A x : Covers(s, x) <=> \E k \in 1..i - 1 : Between(f[k], x)
        /\ \A k \in 1..Len(s) : \E j \in 1..i - 1 : s[k] = f[j]
    BY <2>20 DEF IsSlice
  <2>5. /\ Sorted(t) /\ \A x : Covers(t, x) <=> \E k \in i + 1..Len(f) : Between(f[k], x)
        /\ \A k \in 1..Len(t) : \E j \in i + 1..Len(f) : t[k] = f[j]
    BY <2>20 DEF IsSlice
  <2>6. /\ Sorted(w) /\ \A x \in Names : Covers(w, x) <=> (Between(q, x) /\ x # n)
        /\ \A k \in 1..Len(w) : q.begin <= w[k].begin /\ w[k].end <= q.end
    <3>1. q \in HandleRange /\ 1 <= q.begin /\ q.end <= MaxName /\ Between(q, n)
      BY <1>1, <2>2, <2>3 DEF Sorted
    <3> HIDE DEF q
    <3> QED
      BY <1>2, <3>1, WithoutSorted
  <2>7. \A k \in 1..i - 1 : k \in 1..Len(f) /\ f[k].end < q.begin
    <3>1. \A k \in 1..i - 1 : k \in 1..Len(f) /\ k < i
      BY <2>2, <2>3
    <3> QED
      BY <1>1, <2>3, <3>1 DEF Sorted
  <2>8. \A k \in i + 1..Len(f) : k \in 1..Len(f) /\ q.end < f[k].begin
    <3>1. \A k \in i + 1..Len(f) : k \in 1..Len(f) /\ i < k
      BY <2>2, <2>3
    <3> QED
      BY <1>1, <2>3, <3>1 DEF Sorted
  <2>9. /\ \A k \in 1..Len(w) : w[k].begin \in Nat /\ w[k].end \in Nat
        /\ q.begin \in Nat /\ q.end \in Nat /\ q.begin <= q.end
    BY <1>1, <2>2, <2>3, <2>6, RangeParts DEF Sorted
  <2> HIDE DEF w, q
  <2>10. /\ Sorted(s \o w) /\ \A x : Covers(s \o w, x) <=> Covers(s, x) \/ Covers(w, x)
         /\ \A k \in 1..Len(s \o w) :
              \/ \E j \in 1..Len(s) : (s \o w)[k] = s[j]
              \/ \E j \in 1..Len(w) : (s \o w)[k] = w[j]
    <3>1. ASSUME NEW k \in 1..Len(s), NEW j \in 1..Len(w) PROVE s[k].end < w[j].begin
      <4>1. PICK d \in 1..i - 1 : s[k] = f[d]
        BY <2>4
      <4>2. f[d].end \in Nat /\ f[d].end < q.begin /\ q.begin <= w[j].begin
        BY <2>2, <2>6, <2>7
      <4> QED
        BY <2>9, <4>1, <4>2
    <3> QED
      BY <2>4, <2>6, <3>1, ConcatSorted
  <2> DEFINE u == s \o w
  <2>11. \A k \in 1..Len(u) : u[k].end \in Nat /\ u[k].end <= q.end
    <3>1. ASSUME NEW k \in 1..Len(s) PROVE s[k].end \in Nat /\ s[k].end <= q.end
      <4>1. PICK d \in 1..i - 1 : s[k] = f[d]
        BY <2>4
      <4>2. f[d].end \in Nat /\ f[d].end < q.begin
        BY <2>2, <2>7
      <4> QED
        BY <2>9, <4>1, <4>2
    <3>2. \A k \in 1..Len(w) : w[k].end \in Nat /\ w[k].end <= q.end
      BY <2>6, <2>9
    <3> QED
      BY <2>10, <3>1, <3>2
  <2>12. Sorted(u) /\ \A x : Covers(u, x) <=> Covers(s, x) \/ Covers(w, x)
    BY <2>10
  <2> HIDE DEF u
  <2>13. Sorted(u \o t) /\ \A x : Covers(u \o t, x) <=> Covers(u, x) \/ Covers(t, x)
    <3>1. ASSUME NEW k \in 1..Len(u), NEW j \in 1..Len(t) PROVE u[k].end < t[j].begin
      <4>1. PICK d \in i + 1..Len(f) : t[j] = f[d]
        BY <2>5
      <4>2. f[d].begin \in Nat /\ q.end < f[d].begin
        BY <2>2, <2>8
      <4> QED
        BY <2>9, <2>11, <4>1, <4>2
    <3> QED
      BY <2>5, <2>12, <3>1, ConcatSorted
  <2>14. new = u \o t
    BY DEF u
  <2> HIDE DEF new
  <2>15. \A x \in Names : Covers(new, x) <=> x \in (S \ {n}) \ D
    <3>1. SUFFICES ASSUME NEW x \in Names PROVE Covers(new, x) <=> x \in (S \ {n}) \ D
      OBVIOUS
    <3>2. x \in Nat
      BY <1>2
    <3>3. Covers(new, x) <=> Covers(s, x) \/ (Between(q, x) /\ x # n) \/ Covers(t, x)
      BY <2>6, <2>12, <2>13, <2>14
    <3>4. ~Covers(s, n) /\ ~Covers(t, n)
      <4>1. \A k \in 1..i - 1 : ~Between(f[k], n)
        <5>1. ASSUME NEW k \in 1..i - 1, Between(f[k], n) PROVE FALSE
          <6>1. n <= f[k].end /\ f[k].end \in Nat /\ f[k].end < q.begin /\ q.begin <= n
            BY <2>2, <2>3, <2>7, <5>1 DEF Between
          <6> QED
            BY <1>2, <2>9, <6>1
        <5> QED
          BY <5>1
      <4>2. \A k \in i + 1..Len(f) : ~Between(f[k], n)
        <5>1. ASSUME NEW k \in i + 1..Len(f), Between(f[k], n) PROVE FALSE
          <6>1. f[k].begin <= n /\ f[k].begin \in Nat /\ q.end < f[k].begin /\ n <= q.end
            BY <2>2, <2>3, <2>8, <5>1 DEF Between
          <6> QED
            BY <1>2, <2>9, <6>1
        <5> QED
          BY <5>1
      <4> QED
        BY <2>4, <2>5, <4>1, <4>2
    <3>5. Covers(f, x) <=> Covers(s, x) \/ Between(q, x) \/ Covers(t, x)
      <4>1. Covers(f, x) <=> \E k \in 1..Len(f) : Between(f[k], x)
        BY DEF Covers
      <4>2. \A k \in 1..Len(f) : k \in 1..i - 1 \/ k = i \/ k \in i + 1..Len(f)
        BY <2>2, <2>3
      <4> QED
        BY <2>3, <2>4, <2>5, <2>7, <2>8, <4>1, <4>2 DEF q
    <3>6. Covers(f, x) <=> x \in S \ D
      BY <1>1
    <3>7. Covers(new, x) <=> Covers(f, x) /\ x # n
      BY <2>3, <3>3, <3>4, <3>5
    <3> QED
      BY <3>6, <3>7
  <2>16. /\ z.free = new /\ z.released = a.released
         /\ z \in [free : Seq(HandleRange), released : [D -> {1}]] /\ new \in Seq(HandleRange)
    <3>1. new \in Seq(HandleRange)
      BY <2>13, <2>14 DEF Sorted
    <3> QED
      BY <1>1, <3>1 DEF D
  <2> HIDE DEF z
  <2>17. DOMAIN z.released = D /\ D \subseteq S \ {n}
    BY <1>1, <1>5, <2>16 DEF D
  <2>18. AllocInv(z, S \ {n})
    BY <1>1, <2>13, <2>14, <2>15, <2>16, <2>17 DEF AllocInv
  <2> QED
    BY <2>1, <2>18 DEF z
<1> QED
  BY <1>4, <1>5

\* Each free name can be handed out once.
LEMMA CopiesExact ==
    ASSUME NEW a, NEW S, AllocInv(a, S), NEW n \in Names
    PROVE  Copies(a, n) = IF n \in S THEN 1 ELSE 0
<1> DEFINE D == DOMAIN a.released
           f == a.free
           K == {i \in DOMAIN f : f[i].begin <= n /\ n <= f[i].end}
<1>1. /\ f \in Seq(HandleRange) /\ Sorted(f) /\ a.released \in [D -> {1}] /\ D \subseteq S
      /\ Covers(f, n) <=> n \in S \ D
  BY DEF AllocInv
<1>2. n \in Nat /\ Len(f) \in Nat /\ DOMAIN f = 1..Len(f)
      /\ \A i \in 1..Len(f) : f[i].begin \in Nat /\ f[i].end \in Nat
  BY <1>1, RangeParts, LenProperties, NameAssumption DEF Names
<1>3. Copies(a, n) = (IF n \in D THEN 1 ELSE 0) + Cardinality(K)
  BY <1>1 DEF Copies, BagIn, BagToSet
<1>4. K = {i \in 1..Len(f) : Between(f[i], n)}
  BY <1>2 DEF Between
<1>5. CASE Covers(f, n)
  <2>1. PICK i \in 1..Len(f) : Between(f[i], n)
    BY <1>5 DEF Covers
  <2>2. ASSUME NEW j \in 1..Len(f), Between(f[j], n) PROVE j = i
    <3>1. f[i].begin <= n /\ n <= f[i].end /\ f[j].begin <= n /\ n <= f[j].end
      BY <2>1, <2>2 DEF Between
    <3>2. (i < j => f[i].end < f[j].begin) /\ (j < i => f[j].end < f[i].begin)
      BY <1>1 DEF Sorted
    <3>3. f[i].begin \in Nat /\ f[i].end \in Nat /\ f[j].begin \in Nat /\ f[j].end \in Nat
      BY <1>2
    <3> HIDE DEF f
    <3>4. ~(i < j) /\ ~(j < i)
      BY <1>2, <3>1, <3>2, <3>3
    <3> QED
      BY <1>2, <3>4
  <2>3. K = {i}
    BY <1>4, <2>1, <2>2
  <2>4. Cardinality(K) = 1
    BY <2>3, FS_Singleton
  <2> HIDE DEF K
  <2> QED
    BY <1>1, <1>3, <1>5, <2>4
<1>6. CASE ~Covers(f, n)
  <2>1. K = {}
    BY <1>4, <1>6 DEF Covers
  <2>2. Cardinality(K) = 0
    BY <2>1, FS_EmptySet
  <2>3. n \in D <=> n \in S
    BY <1>1, <1>6
  <2> QED
    BY <1>3, <2>2, <2>3
<1> QED
  BY <1>5, <1>6

-----------------------------------------------------------------------------
(* How often a function has a value. *)

Count(D, f, v) == Cardinality({x \in D : f[x] = v})

\* g is f but for its value at y.
IsUpdate(g, f, y, w) == g = [f EXCEPT ![y] = w]

LEMMA CountNat ==
    ASSUME NEW D, IsFiniteSet(D), NEW f, NEW v
    PROVE  Count(D, f, v) \in Nat /\ (Count(D, f, v) = 0 <=> \A x \in D : f[x] # v)
<1> DEFINE C == {x \in D : f[x] = v}
<1>1. IsFiniteSet(C)
  BY FS_Subset
<1>2. Cardinality(C) \in Nat /\ (Cardinality(C) = 0 <=> C = {})
  BY <1>1, FS_CardinalityType, FS_EmptySet
<1> QED
  BY <1>2 DEF Count

LEMMA CountChange ==
    ASSUME NEW D, IsFiniteSet(D), NEW V, NEW f \in [D -> V], NEW y \in D, NEW w,
           NEW g, IsUpdate(g, f, y, w), NEW v
    PROVE  Count(D, g, v)
             = (Count(D, f, v) - (IF f[y] = v THEN 1 ELSE 0)) + (IF w = v THEN 1 ELSE 0)
<1> DEFINE C == {x \in D : f[x] = v}
           R == C \ {y}
           E == {x \in D : g[x] = v}
<1>0. g = [f EXCEPT ![y] = w]
  BY DEF IsUpdate
<1>1. IsFiniteSet(C) /\ IsFiniteSet(R)
  BY FS_Subset
<1>2. Cardinality(R) \in Nat
  BY <1>1, FS_CardinalityType
<1>3. Cardinality(C) = Cardinality(R) + (IF f[y] = v THEN 1 ELSE 0)
  <2>1. CASE f[y] = v
    <3>1. C = R \cup {y} /\ y \notin R
      BY <2>1
    <3>2. Cardinality(R \cup {y}) = Cardinality(R) + 1
      BY <1>1, <3>1, FS_AddElement
    <3> QED
      BY <2>1, <3>1, <3>2
  <2>2. CASE f[y] # v
    <3>1. C = R
      BY <2>2
    <3>2. (IF f[y] = v THEN 1 ELSE 0) = 0
      BY <2>2
    <3> HIDE DEF C, R
    <3>3. Cardinality(R) + 0 = Cardinality(R)
      BY <1>2
    <3> QED
      BY <3>1, <3>2, <3>3
  <2> QED
    BY <2>1, <2>2
<1>4. Cardinality(E) = Cardinality(R) + (IF w = v THEN 1 ELSE 0)
  <2>1. CASE w = v
    <3>1. E = R \cup {y} /\ y \notin R
      BY <1>0, <2>1
    <3>2. Cardinality(R \cup {y}) = Cardinality(R) + 1
      BY <1>1, <3>1, FS_AddElement
    <3> QED
      BY <2>1, <3>1, <3>2
  <2>2. CASE w # v
    <3>1. E = R
      BY <1>0, <2>2
    <3>2. (IF w = v THEN 1 ELSE 0) = 0
      BY <2>2
    <3> HIDE DEF E, R
    <3>3. Cardinality(R) + 0 = Cardinality(R)
      BY <1>2
    <3> QED
      BY <3>1, <3>2, <3>3
  <2> QED
    BY <2>1, <2>2
<1>5. Count(D, g, v) = Cardinality(E) /\ Count(D, f, v) = Cardinality(C)
  BY DEF Count
<1> HIDE DEF C, E, R
<1>6. Cardinality(E) = (Cardinality(C) - (IF f[y] = v THEN 1 ELSE 0)) + (IF w = v THEN 1 ELSE 0)
  BY <1>2, <1>3, <1>4
<1> QED
  BY <1>5, <1>6

\* The values of g are those of f, but for one a that has become b.
Moved(D, f, g, a, b) ==
    \A v : Count(D, g, v) = (Count(D, f, v) - (IF a = v THEN 1 ELSE 0)) + (IF b = v THEN 1 ELSE 0)

LEMMA CountPoint ==
    ASSUME NEW D, IsFiniteSet(D), NEW W, NEW f \in [D -> W], NEW g \in [D -> W], NEW y \in D, NEW w,
           \A x \in D : g[x] = IF x = y THEN w ELSE f[x]
    PROVE  Moved(D, f, g, f[y], w)
<1>1. IsUpdate(g, f, y, w)
  <2>1. g = [f EXCEPT ![y] = w]
    OBVIOUS
  <2> QED
    BY <2>1 DEF IsUpdate
<1>2. ASSUME NEW v
      PROVE  Count(D, g, v) = (Count(D, f, v) - (IF f[y] = v THEN 1 ELSE 0)) + (IF w = v THEN 1 ELSE 0)
  BY <1>1, CountChange
<1> QED
  BY <1>2 DEF Moved

-----------------------------------------------------------------------------
(* The buffers. *)

FreeNames(b) == {n \in Names : b.map[n] = Absent}

BufTypes(b) ==
    /\ b \in [alloc : {b.alloc}, map : [Names -> BufferIds \cup {Absent, Reserved}],
              refs : [BufferIds -> Nat], id : [BufferIds -> Names \cup {0}],
              bound : [Contexts -> BufferIds \cup {0}]]

\* Every reference is a name or a binding, and keeps the object.
Counted(b) ==
    \A o \in BufferIds : /\ b.refs[o] = Count(Names, b.map, o) + Count(Contexts, b.bound, o)
                         /\ b.refs[o] > 0 <=> b.id[o] # 0

BufOK(b) == BufTypes(b) /\ AllocInv(b.alloc, FreeNames(b)) /\ Counted(b)

\* A context that is gone has nothing bound.
BufInv ==
    /\ BufOK(bufs)
    /\ alive \subseteq Contexts /\ \A c \in Contexts : bufs.bound[c] # 0 => c \in alive

LEMMA BufDomains ==
    /\ IsFiniteSet(Names) /\ IsFiniteSet(Contexts) /\ BufferIds \subseteq Nat \ {0} /\ Names \subseteq Nat \ {0}
    /\ Absent = -1 /\ Reserved = 0 /\ Absent \notin BufferIds /\ Reserved \notin BufferIds
<1>1. IsFiniteSet(Names)
  BY NameAssumption, FS_Interval DEF Names
<1> QED
  BY <1>1, ClientsAssumption, NameAssumption, BuffersAssumption DEF Names, BufferIds, Absent, Reserved

\* The object of a name or a binding has references.
LEMMA Referenced ==
    ASSUME NEW b, BufOK(b), NEW o \in BufferIds
    PROVE  /\ Count(Names, b.map, o) \in Nat /\ Count(Contexts, b.bound, o) \in Nat
           /\ b.refs[o] = Count(Names, b.map, o) + Count(Contexts, b.bound, o) /\ b.refs[o] \in Nat
           /\ b.refs[o] > 0 <=> b.id[o] # 0
           /\ \A n \in Names : b.map[n] = o => Count(Names, b.map, o) >= 1 /\ b.refs[o] >= 1
           /\ \A c \in Contexts : b.bound[c] = o => Count(Contexts, b.bound, o) >= 1 /\ b.refs[o] >= 1
<1> DEFINE N == Count(Names, b.map, o)
           B == Count(Contexts, b.bound, o)
<1>1. N \in Nat /\ (N = 0 <=> \A x \in Names : b.map[x] # o)
  BY BufDomains, CountNat
<1>2. B \in Nat /\ (B = 0 <=> \A x \in Contexts : b.bound[x] # o)
  BY BufDomains, CountNat
<1>3. b.refs[o] = N + B /\ (b.refs[o] > 0 <=> b.id[o] # 0)
  BY DEF BufOK, Counted
<1> HIDE DEF N, B
<1>4. \A n \in Names : b.map[n] = o => N >= 1 /\ N + B >= 1
  BY <1>1, <1>2
<1>5. \A c \in Contexts : b.bound[c] = o => B >= 1 /\ N + B >= 1
  BY <1>1, <1>2
<1>6. N + B \in Nat
  BY <1>1, <1>2
<1> QED
  BY <1>1, <1>2, <1>3, <1>4, <1>5, <1>6 DEF N, B

LEMMA ReleaseFields ==
    ASSUME NEW b, BufTypes(b), NEW o \in BufferIds, b.refs[o] >= 1
    PROVE  /\ BufTypes(Release(b, o)) /\ Release(b, o).alloc = b.alloc /\ Release(b, o).map = b.map
           /\ Release(b, o).bound = b.bound
           /\ \A q \in BufferIds :
                /\ Release(b, o).refs[q] = b.refs[q] - (IF q = o THEN 1 ELSE 0)
                /\ Release(b, o).id[q] = IF q = o /\ b.refs[q] = 1 THEN 0 ELSE b.id[q]
<1> DEFINE z == Release(b, o)
           r == [b.refs EXCEPT ![o] = b.refs[o] - 1]
           d == [b.id EXCEPT ![o] = IF b.refs[o] = 1 THEN 0 ELSE b.id[o]]
<1>1. b \in [alloc : {b.alloc}, map : [Names -> BufferIds \cup {Absent, Reserved}],
             refs : [BufferIds -> Nat], id : [BufferIds -> Names \cup {0}],
             bound : [Contexts -> BufferIds \cup {0}]]
  BY DEF BufTypes
<1>2. z = [b EXCEPT !.refs = r, !.id = d]
  BY <1>1 DEF Release
<1>3. r \in [BufferIds -> Nat] /\ d \in [BufferIds -> Names \cup {0}]
  <2>1. b.refs[o] - 1 \in Nat
    BY <1>1
  <2> QED
    BY <1>1, <2>1
<1>4. \A q \in BufferIds : /\ r[q] = b.refs[q] - (IF q = o THEN 1 ELSE 0)
                           /\ d[q] = IF q = o /\ b.refs[q] = 1 THEN 0 ELSE b.id[q]
  <2>1. \A q \in BufferIds : b.refs[q] \in Nat
    BY <1>1
  <2> QED
    BY <1>1, <2>1
<1> HIDE DEF r, d, z
<1>5. /\ z.alloc = b.alloc /\ z.map = b.map /\ z.bound = b.bound /\ z.refs = r /\ z.id = d
      /\ z \in [alloc : {b.alloc}, map : [Names -> BufferIds \cup {Absent, Reserved}],
                refs : [BufferIds -> Nat], id : [BufferIds -> Names \cup {0}],
                bound : [Contexts -> BufferIds \cup {0}]]
  BY <1>1, <1>2, <1>3
<1> QED
  BY <1>4, <1>5 DEF z, BufTypes

\* A context binds an object that has a name, or nothing.
LEMMA SetBindingKeeps ==
    ASSUME NEW b, BufOK(b), NEW c \in Contexts, NEW o \in BufferIds \cup {0},
           o # 0 => \E n \in Names : b.map[n] = o
    PROVE  /\ BufOK(SetBinding(b, c, o)) /\ SetBinding(b, c, o).map = b.map
           /\ SetBinding(b, c, o).bound = [b.bound EXCEPT ![c] = o]
<1> DEFINE p == b.bound[c]
           left == IF p = 0 THEN b ELSE Release(b, p)
           more == IF o = 0 THEN left ELSE [left EXCEPT !.refs[o] = @ + 1]
           bnd == [b.bound EXCEPT ![c] = o]
           z == SetBinding(b, c, o)
<1>1. BufTypes(b) /\ AllocInv(b.alloc, FreeNames(b)) /\ p \in BufferIds \cup {0} /\ 0 \notin BufferIds
      /\ bnd \in [Contexts -> BufferIds \cup {0}]
  BY BufDomains DEF BufOK, BufTypes
<1>2. /\ BufTypes(left) /\ left.alloc = b.alloc /\ left.map = b.map /\ left.bound = b.bound
      /\ \A q \in BufferIds : /\ left.refs[q] = b.refs[q] - (IF q = p THEN 1 ELSE 0)
                              /\ left.id[q] = IF q = p /\ b.refs[q] = 1 THEN 0 ELSE b.id[q]
  <2>1. CASE p = 0
    <3>1. left = b /\ \A q \in BufferIds : q # p
      BY <1>1, <2>1
    <3>2. \A q \in BufferIds : b.refs[q] = b.refs[q] - 0
      BY <1>1 DEF BufTypes
    <3> HIDE DEF left, p
    <3> QED
      BY <1>1, <3>1, <3>2
  <2>2. CASE p # 0
    <3>1. p \in BufferIds
      BY <1>1, <2>2
    <3>2. b.refs[p] >= 1
      BY <3>1, Referenced
    <3>3. left = Release(b, p)
      BY <2>2
    <3> HIDE DEF left, p
    <3> QED
      BY <1>1, <3>1, <3>2, <3>3, ReleaseFields
  <2> QED
    BY <2>1, <2>2
<1> HIDE DEF left, p
<1>3. /\ more \in [alloc : {b.alloc}, map : [Names -> BufferIds \cup {Absent, Reserved}],
                   refs : [BufferIds -> Nat], id : [BufferIds -> Names \cup {0}],
                   bound : [Contexts -> BufferIds \cup {0}]]
      /\ more.alloc = b.alloc /\ more.map = b.map /\ more.id = left.id
      /\ \A q \in BufferIds : more.refs[q] = left.refs[q] + (IF q = o THEN 1 ELSE 0)
  <2>1. left \in [alloc : {b.alloc}, map : [Names -> BufferIds \cup {Absent, Reserved}],
                  refs : [BufferIds -> Nat], id : [BufferIds -> Names \cup {0}],
                  bound : [Contexts -> BufferIds \cup {0}]]
    BY <1>2 DEF BufTypes
  <2>2. CASE o = 0
    <3>1. \A q \in BufferIds : q # o /\ left.refs[q] = left.refs[q] + 0
      BY <1>1, <2>1, <2>2
    <3> QED
      BY <1>2, <2>1, <2>2, <3>1
  <2>3. CASE o # 0
    <3> DEFINE r == [left.refs EXCEPT ![o] = left.refs[o] + 1]
    <3>1. o \in BufferIds /\ more = [left EXCEPT !.refs = r]
      BY <2>1, <2>3
    <3>2. r \in [BufferIds -> Nat] /\ \A q \in BufferIds : r[q] = left.refs[q] + (IF q = o THEN 1 ELSE 0)
      <4>1. \A q \in BufferIds : left.refs[q] \in Nat /\ left.refs[q] + 0 = left.refs[q]
        BY <2>1
      <4> QED
        BY <2>1, <3>1, <4>1
    <3> HIDE DEF r, more
    <3> QED
      BY <1>2, <2>1, <3>1, <3>2
  <2> QED
    BY <2>2, <2>3
<1>4. z = [more EXCEPT !.bound = bnd]
  <2>1. z = [more EXCEPT !.bound[c] = o]
    BY DEF SetBinding, left, p
  <2>2. more.bound = b.bound
    <3>1. left \in [alloc : {b.alloc}, map : [Names -> BufferIds \cup {Absent, Reserved}],
                    refs : [BufferIds -> Nat], id : [BufferIds -> Names \cup {0}],
                    bound : [Contexts -> BufferIds \cup {0}]]
      BY <1>2 DEF BufTypes
    <3> QED
      BY <1>2, <3>1
  <2> HIDE DEF more, z
  <2> QED
    BY <1>3, <2>1, <2>2
<1> HIDE DEF more, bnd, z
<1>5. /\ z.alloc = b.alloc /\ z.map = b.map /\ z.bound = bnd
      /\ z.id = left.id /\ z.refs = more.refs
      /\ z \in [alloc : {b.alloc}, map : [Names -> BufferIds \cup {Absent, Reserved}],
                refs : [BufferIds -> Nat], id : [BufferIds -> Names \cup {0}],
                bound : [Contexts -> BufferIds \cup {0}]]
  BY <1>1, <1>3, <1>4
<1>6. BufTypes(z) /\ FreeNames(z) = FreeNames(b)
  BY <1>5 DEF BufTypes, FreeNames
<1>7. ASSUME NEW q \in BufferIds
      PROVE  /\ z.refs[q] = Count(Names, z.map, q) + Count(Contexts, z.bound, q)
             /\ z.refs[q] > 0 <=> z.id[q] # 0
  <2> DEFINE R == b.refs[q]
             N == Count(Names, b.map, q)
             B == Count(Contexts, b.bound, q)
             G == Count(Contexts, bnd, q)
  <2>1. N \in Nat /\ B \in Nat /\ R = N + B /\ (R > 0 <=> b.id[q] # 0)
    BY Referenced
  <2>2. (q = p => B >= 1) /\ (q = o => N >= 1)
    <3>1. q = p => B >= 1
      BY Referenced DEF p
    <3>2. q = o => \E n \in Names : b.map[n] = q
      BY <1>1
    <3> QED
      BY <3>1, <3>2, Referenced
  <2>3. G = (B - (IF q = p THEN 1 ELSE 0)) + (IF q = o THEN 1 ELSE 0)
    <3> DEFINE V == BufferIds \cup {0}
               f == b.bound
    <3>1. f \in [Contexts -> V] /\ IsFiniteSet(Contexts) /\ IsUpdate(bnd, f, c, o)
      BY <1>1, BufDomains DEF BufTypes, bnd, IsUpdate
    <3> HIDE DEF V, f
    <3>2. Count(Contexts, bnd, q)
            = (Count(Contexts, f, q) - (IF f[c] = q THEN 1 ELSE 0)) + (IF o = q THEN 1 ELSE 0)
      BY <3>1, CountChange
    <3>3. (f[c] = q <=> q = p) /\ (o = q <=> q = o)
      BY DEF p, f
    <3> QED
      BY <3>2, <3>3 DEF f
  <2>4. z.refs[q] = (R - (IF q = p THEN 1 ELSE 0)) + (IF q = o THEN 1 ELSE 0)
    BY <1>2, <1>3, <1>5
  <2>5. z.id[q] = IF q = p /\ R = 1 THEN 0 ELSE b.id[q]
    BY <1>2, <1>5
  <2> HIDE DEF R, N, B, G
  <2>6. z.refs[q] = N + G /\ (z.refs[q] > 0 <=> z.id[q] # 0)
    BY <2>1, <2>2, <2>3, <2>4, <2>5
  <2> QED
    BY <1>5, <2>6 DEF N, G
<1>8. Counted(z)
  BY <1>7 DEF Counted
<1> QED
  BY <1>1, <1>5, <1>6, <1>8 DEF BufOK, z, bnd

\* The map changes for one name, and the references of its objects with it.
LEMMA MapChange ==
    ASSUME NEW b, BufOK(b), NEW z, BufTypes(z), NEW n \in Names, NEW w,
           IsUpdate(z.map, b.map, n, w), z.bound = b.bound, AllocInv(z.alloc, FreeNames(z)),
           \A q \in BufferIds :
             /\ z.refs[q] = (b.refs[q] - (IF b.map[n] = q THEN 1 ELSE 0)) + (IF w = q THEN 1 ELSE 0)
             /\ z.refs[q] > 0 <=> z.id[q] # 0
    PROVE  BufOK(z)
<1>1. ASSUME NEW q \in BufferIds
      PROVE  z.refs[q] = Count(Names, z.map, q) + Count(Contexts, z.bound, q)
  <2> DEFINE N == Count(Names, b.map, q)
             B == Count(Contexts, b.bound, q)
             G == Count(Names, z.map, q)
             x == IF b.map[n] = q THEN 1 ELSE 0
             y == IF w = q THEN 1 ELSE 0
  <2>1. N \in Nat /\ B \in Nat /\ b.refs[q] = N + B
    BY Referenced
  <2>2. G = (N - x) + y
    <3> DEFINE V == BufferIds \cup {Absent, Reserved}
               f == b.map
               g == z.map
    <3>1. f \in [Names -> V] /\ IsFiniteSet(Names) /\ IsUpdate(g, f, n, w)
      BY BufDomains DEF BufOK, BufTypes
    <3> HIDE DEF V, f, g
    <3>2. Count(Names, g, q)
            = (Count(Names, f, q) - (IF f[n] = q THEN 1 ELSE 0)) + (IF w = q THEN 1 ELSE 0)
      BY <3>1, CountChange
    <3> QED
      BY <3>2 DEF f, g
  <2>3. z.refs[q] = (b.refs[q] - x) + y /\ x \in {0, 1} /\ y \in {0, 1}
    OBVIOUS
  <2>4. Count(Contexts, z.bound, q) = B
    OBVIOUS
  <2> HIDE DEF N, B, G, x, y
  <2>5. z.refs[q] = G + B
    BY <2>1, <2>2, <2>3
  <2> QED
    BY <2>4, <2>5 DEF G
<1>2. Counted(z)
  BY <1>1 DEF Counted
<1> QED
  BY <1>2 DEF BufOK

\* checkObjectAllocation makes the object.
LEMMA MakeKeeps ==
    ASSUME NEW b, BufOK(b), NEW n \in Names, ~Existing(b, n), NEW o \in BufferIds, b.refs[o] = 0
    PROVE  /\ BufOK(MakeObject(b, n, o)) /\ MakeObject(b, n, o).map[n] = o
           /\ MakeObject(b, n, o).bound = b.bound
<1> DEFINE z == MakeObject(b, n, o)
           al == IF b.map[n] = Absent THEN Reserve(b.alloc, n) ELSE b.alloc
           mp == [b.map EXCEPT ![n] = o]
           rf == [b.refs EXCEPT ![o] = 1]
           dd == [b.id EXCEPT ![o] = n]
<1>1. /\ b \in [alloc : {b.alloc}, map : [Names -> BufferIds \cup {Absent, Reserved}],
                refs : [BufferIds -> Nat], id : [BufferIds -> Names \cup {0}],
                bound : [Contexts -> BufferIds \cup {0}]]
      /\ AllocInv(b.alloc, FreeNames(b)) /\ b.map[n] \in {Absent, Reserved}
  BY DEF BufOK, BufTypes, Existing
<1>2. z = [b EXCEPT !.alloc = al, !.map = mp, !.refs = rf, !.id = dd]
  BY <1>1 DEF MakeObject
<1>3. /\ mp \in [Names -> BufferIds \cup {Absent, Reserved}] /\ rf \in [BufferIds -> Nat]
      /\ dd \in [BufferIds -> Names \cup {0}] /\ mp[n] = o
  BY <1>1
<1>4. AllocInv(al, {m \in Names : mp[m] = Absent})
  <2> DEFINE S == FreeNames(b)
             T == {m \in Names : mp[m] = Absent}
  <2>1. o # Absent /\ Reserved # Absent
    BY BufDomains
  <2>2. T = S \ {n}
    BY <1>1, <2>1 DEF FreeNames
  <2>3. CASE b.map[n] = Absent
    <3>1. n \in S /\ al = Reserve(b.alloc, n)
      BY <2>3 DEF FreeNames
    <3> DEFINE a == b.alloc
    <3>2. AllocInv(a, S)
      BY <1>1
    <3> HIDE DEF S, T, a, al
    <3>3. AllocInv(Reserve(a, n), S \ {n})
      BY <3>1, <3>2, ReserveKeeps
    <3> QED
      BY <2>2, <3>1, <3>3 DEF a, T
  <2>4. CASE b.map[n] # Absent
    <3>1. n \notin S /\ al = b.alloc
      BY <2>4 DEF FreeNames
    <3>2. T = S
      BY <2>2, <3>1
    <3> QED
      BY <1>1, <3>1, <3>2
  <2> QED
    BY <2>3, <2>4
<1>5. \A q \in BufferIds :
        /\ rf[q] = (b.refs[q] - (IF b.map[n] = q THEN 1 ELSE 0)) + (IF o = q THEN 1 ELSE 0)
        /\ rf[q] > 0 <=> dd[q] # 0
  <2>1. ASSUME NEW q \in BufferIds
        PROVE  /\ rf[q] = (b.refs[q] - (IF b.map[n] = q THEN 1 ELSE 0)) + (IF o = q THEN 1 ELSE 0)
               /\ rf[q] > 0 <=> dd[q] # 0
    <3>1. b.map[n] # q /\ b.refs[q] \in Nat /\ (b.refs[q] > 0 <=> b.id[q] # 0)
      BY <1>1, BufDomains DEF BufOK, Counted
    <3>2. n # 0
      BY BufDomains
    <3>3. CASE q = o
      BY <1>1, <3>1, <3>2, <3>3
    <3>4. CASE q # o
      <4>1. rf[q] = b.refs[q] /\ dd[q] = b.id[q]
        BY <1>1, <3>4
      <4> QED
        BY <3>1, <3>4, <4>1
    <3> QED
      BY <3>3, <3>4
  <2> QED
    BY <2>1
<1>6. IsUpdate(mp, b.map, n, o)
  BY DEF IsUpdate
<1> HIDE DEF z, al, mp, rf, dd
<1>7. /\ z.alloc = al /\ z.map = mp /\ z.refs = rf /\ z.id = dd /\ z.bound = b.bound
      /\ z \in [alloc : {z.alloc}, map : [Names -> BufferIds \cup {Absent, Reserved}],
                refs : [BufferIds -> Nat], id : [BufferIds -> Names \cup {0}],
                bound : [Contexts -> BufferIds \cup {0}]]
  BY <1>1, <1>2, <1>3
<1>8. BufTypes(z) /\ AllocInv(z.alloc, FreeNames(z))
  BY <1>4, <1>7 DEF BufTypes, FreeNames
<1>9. IsUpdate(z.map, b.map, n, o) /\ z.bound = b.bound
      /\ \A q \in BufferIds :
        /\ z.refs[q] = (b.refs[q] - (IF b.map[n] = q THEN 1 ELSE 0)) + (IF o = q THEN 1 ELSE 0)
        /\ z.refs[q] > 0 <=> z.id[q] # 0
  BY <1>5, <1>6, <1>7
<1>10. BufOK(z)
  BY <1>8, <1>9, MapChange
<1> QED
  BY <1>3, <1>7, <1>10 DEF z

LEMMA ObtainKeeps ==
    ASSUME NEW b, BufOK(b), NEW n \in Names, Existing(b, n) \/ \E o \in BufferIds : b.refs[o] = 0
    PROVE  /\ BufOK(Obtain(b, n)) /\ Obtain(b, n).map[n] \in BufferIds
           /\ Obtain(b, n).bound = b.bound
<1>1. CASE Existing(b, n)
  <2>1. b.map[n] \in BufferIds
    BY <1>1 DEF BufOK, BufTypes, Existing
  <2> QED
    BY <1>1, <2>1 DEF Obtain
<1>2. CASE ~Existing(b, n)
  <2> DEFINE O == {o \in BufferIds : b.refs[o] = 0}
             o == NewObject(b)
  <2>1. O \subseteq Nat /\ O # {}
    BY <1>2, BufDomains
  <2>2. Lowest(O) \in O
    <3> HIDE DEF O
    <3> QED
      BY <2>1, LowestName
  <2>3. o \in BufferIds /\ b.refs[o] = 0
    BY <2>2 DEF NewObject
  <2>4. Obtain(b, n) = MakeObject(b, n, o)
    BY <1>2 DEF Obtain
  <2> HIDE DEF o
  <2> QED
    BY <1>2, <2>3, <2>4, MakeKeeps
<1> QED
  BY <1>1, <1>2

LEMMA GenKeeps ==
    ASSUME NEW b, BufOK(b), HasName(b.alloc)
    PROVE  /\ BufOK([b EXCEPT !.alloc = TakeName(@), !.map[NextName(b.alloc)] = Reserved])
           /\ [b EXCEPT !.alloc = TakeName(@), !.map[NextName(b.alloc)] = Reserved].bound = b.bound
<1> DEFINE z == [b EXCEPT !.alloc = TakeName(@), !.map[NextName(b.alloc)] = Reserved]
           n == NextName(b.alloc)
           al == TakeName(b.alloc)
           mp == [b.map EXCEPT ![n] = Reserved]
<1>1. /\ b \in [alloc : {b.alloc}, map : [Names -> BufferIds \cup {Absent, Reserved}],
                refs : [BufferIds -> Nat], id : [BufferIds -> Names \cup {0}],
                bound : [Contexts -> BufferIds \cup {0}]]
      /\ AllocInv(b.alloc, FreeNames(b))
  BY DEF BufOK, BufTypes
<1>2. n \in FreeNames(b) /\ AllocInv(al, FreeNames(b) \ {n})
  <2> DEFINE a == b.alloc
             S == FreeNames(b)
  <2>1. AllocInv(a, S) /\ HasName(a)
    BY <1>1
  <2> HIDE DEF a, S
  <2>2. NextName(a) \in S /\ AllocInv(TakeName(a), S \ {NextName(a)})
    BY <2>1, TakeKeeps
  <2> QED
    BY <2>2 DEF a, S
<1>3. z = [b EXCEPT !.alloc = al, !.map = mp]
  BY <1>1
<1> HIDE DEF n
<1>4. n \in Names /\ b.map[n] = Absent /\ Reserved # Absent /\ Absent \notin BufferIds /\ Reserved \notin BufferIds
  BY <1>2, BufDomains DEF FreeNames
<1>5. mp \in [Names -> BufferIds \cup {Absent, Reserved}] /\ IsUpdate(mp, b.map, n, Reserved)
      /\ {m \in Names : mp[m] = Absent} = FreeNames(b) \ {n}
  BY <1>1, <1>4 DEF IsUpdate, FreeNames
<1> HIDE DEF al, mp, z
<1>6. /\ z.alloc = al /\ z.map = mp /\ z.refs = b.refs /\ z.id = b.id /\ z.bound = b.bound
      /\ z \in [alloc : {z.alloc}, map : [Names -> BufferIds \cup {Absent, Reserved}],
                refs : [BufferIds -> Nat], id : [BufferIds -> Names \cup {0}],
                bound : [Contexts -> BufferIds \cup {0}]]
  BY <1>1, <1>3, <1>5
<1>7. BufTypes(z) /\ AllocInv(z.alloc, FreeNames(z))
  BY <1>2, <1>5, <1>6 DEF BufTypes, FreeNames
<1>8. IsUpdate(z.map, b.map, n, Reserved) /\ z.bound = b.bound /\ \A q \in BufferIds :
        /\ z.refs[q] = (b.refs[q] - (IF b.map[n] = q THEN 1 ELSE 0)) + (IF Reserved = q THEN 1 ELSE 0)
        /\ z.refs[q] > 0 <=> z.id[q] # 0
  <2>1. \A q \in BufferIds : b.map[n] # q /\ Reserved # q
    BY <1>4
  <2>2. \A q \in BufferIds : b.refs[q] \in Nat /\ (b.refs[q] > 0 <=> b.id[q] # 0)
    BY <1>1 DEF BufOK, Counted
  <2>3. \A q \in BufferIds : (b.refs[q] - 0) + 0 = b.refs[q]
    BY <2>2
  <2> QED
    BY <1>5, <1>6, <2>1, <2>2, <2>3
<1>9. BufOK(z)
  <2> DEFINE w == Reserved
  <2>1. /\ n \in Names /\ BufTypes(z) /\ IsUpdate(z.map, b.map, n, w) /\ z.bound = b.bound
        /\ AllocInv(z.alloc, FreeNames(z))
    BY <1>4, <1>7, <1>8
  <2>2. \A q \in BufferIds :
          /\ z.refs[q] = (b.refs[q] - (IF b.map[n] = q THEN 1 ELSE 0)) + (IF w = q THEN 1 ELSE 0)
          /\ z.refs[q] > 0 <=> z.id[q] # 0
    BY <1>8
  <2> HIDE DEF w
  <2> QED
    BY <2>1, <2>2, MapChange
<1> QED
  BY <1>6, <1>9 DEF z

\* deleteObject gives the name back and drops its reference.
LEMMA EraseKeeps ==
    ASSUME NEW b, BufOK(b), NEW n \in Names
    PROVE  BufOK(Erase(b, n)) /\ Erase(b, n).bound = b.bound
<1> DEFINE o == b.map[n]
           al == ReleaseName(b.alloc, n)
           mp == [b.map EXCEPT ![n] = Absent]
           c == [b EXCEPT !.map = mp, !.alloc = al]
           z == Erase(b, n)
<1>1. /\ b \in [alloc : {b.alloc}, map : [Names -> BufferIds \cup {Absent, Reserved}],
                refs : [BufferIds -> Nat], id : [BufferIds -> Names \cup {0}],
                bound : [Contexts -> BufferIds \cup {0}]]
      /\ AllocInv(b.alloc, FreeNames(b)) /\ o \in BufferIds \cup {Absent, Reserved}
  BY DEF BufOK, BufTypes
<1>2. CASE o = Absent
  BY <1>2 DEF Erase
<1>3. CASE o # Absent
  <2>1. n \in Names \ FreeNames(b)
    BY <1>3 DEF FreeNames
  <2>2. AllocInv(al, FreeNames(b) \cup {n})
    <3> DEFINE a == b.alloc
               S == FreeNames(b)
    <3>1. AllocInv(a, S) /\ n \in Names \ S
      BY <1>1, <2>1
    <3> HIDE DEF a, S
    <3>2. AllocInv(ReleaseName(a, n), S \cup {n})
      BY <3>1, ReleaseNameKeeps
    <3> QED
      BY <3>2 DEF a, S
  <2>3. mp \in [Names -> BufferIds \cup {Absent, Reserved}] /\ IsUpdate(mp, b.map, n, Absent)
        /\ {m \in Names : mp[m] = Absent} = FreeNames(b) \cup {n}
    BY <1>1 DEF IsUpdate, FreeNames
  <2>4. z = IF o \notin {Absent, Reserved} THEN Release(c, o) ELSE c
    BY <1>1, <1>3 DEF Erase, Existing
  <2> HIDE DEF al, mp, z
  <2>5. /\ c.alloc = al /\ c.map = mp /\ c.refs = b.refs /\ c.id = b.id /\ c.bound = b.bound
        /\ c \in [alloc : {c.alloc}, map : [Names -> BufferIds \cup {Absent, Reserved}],
                  refs : [BufferIds -> Nat], id : [BufferIds -> Names \cup {0}],
                  bound : [Contexts -> BufferIds \cup {0}]]
    BY <1>1, <2>3
  <2> HIDE DEF c
  <2>6. BufTypes(c)
    BY <2>5 DEF BufTypes
  <2>7. /\ BufTypes(z) /\ z.alloc = al /\ z.map = mp /\ z.bound = b.bound
        /\ \A q \in BufferIds :
             /\ z.refs[q] = (b.refs[q] - (IF o = q THEN 1 ELSE 0)) + (IF Absent = q THEN 1 ELSE 0)
             /\ z.refs[q] > 0 <=> z.id[q] # 0
    <3>1. \A q \in BufferIds : Absent # q /\ b.refs[q] \in Nat /\ (b.refs[q] > 0 <=> b.id[q] # 0)
      BY <1>1, BufDomains DEF BufOK, Counted
    <3>2. CASE o \in {Absent, Reserved}
      <4>1. z = c /\ \A q \in BufferIds : o # q
        BY <2>4, <3>2, BufDomains
      <4> HIDE DEF o
      <4> QED
        BY <2>5, <2>6, <3>1, <4>1
    <3>3. CASE o \notin {Absent, Reserved}
      <4>1. o \in BufferIds /\ z = Release(c, o)
        BY <1>1, <2>4, <3>3
      <4>2. c.refs[o] >= 1
        <5>1. b.refs[o] >= 1
          BY <4>1, Referenced
        <5> QED
          BY <2>5, <5>1
      <4> HIDE DEF o
      <4>3. /\ BufTypes(z) /\ z.alloc = c.alloc /\ z.map = c.map /\ z.bound = c.bound
            /\ \A q \in BufferIds :
                 /\ z.refs[q] = c.refs[q] - (IF q = o THEN 1 ELSE 0)
                 /\ z.id[q] = IF q = o /\ c.refs[q] = 1 THEN 0 ELSE c.id[q]
        BY <2>6, <4>1, <4>2, ReleaseFields
      <4>4. ASSUME NEW q \in BufferIds
            PROVE  /\ z.refs[q] = (b.refs[q] - (IF o = q THEN 1 ELSE 0)) + (IF Absent = q THEN 1 ELSE 0)
                   /\ z.refs[q] > 0 <=> z.id[q] # 0
        <5>1. /\ z.refs[q] = b.refs[q] - (IF q = o THEN 1 ELSE 0)
              /\ z.id[q] = IF q = o /\ b.refs[q] = 1 THEN 0 ELSE b.id[q]
          BY <2>5, <4>3
        <5>2. q = o => b.refs[q] >= 1
          BY <2>5, <4>2
        <5> DEFINE r == b.refs[q]
        <5>3. r \in Nat /\ (r > 0 <=> b.id[q] # 0) /\ Absent # q
          BY <3>1
        <5> HIDE DEF r
        <5>4. CASE q = o
          BY <5>1, <5>2, <5>3, <5>4 DEF r
        <5>5. CASE q # o
          BY <5>1, <5>3, <5>5 DEF r
        <5> QED
          BY <5>4, <5>5
      <4> QED
        BY <2>5, <4>3, <4>4
    <3> QED
      BY <3>2, <3>3
  <2>8. AllocInv(z.alloc, FreeNames(z))
    BY <2>2, <2>3, <2>7 DEF FreeNames
  <2>9. IsUpdate(z.map, b.map, n, Absent)
    BY <2>3, <2>7
  <2>10. BufOK(z)
    BY <2>7, <2>8, <2>9, MapChange
  <2> QED
    BY <2>7, <2>10 DEF z
<1> QED
  BY <1>2, <1>3

LEMMA DetachBufferKeeps ==
    ASSUME NEW b, BufOK(b), NEW c \in Contexts, NEW o
    PROVE  /\ BufOK(Detach(b, c, o))
           /\ Detach(b, c, o).bound \in {b.bound, [b.bound EXCEPT ![c] = 0]}
<1> DEFINE z == SetBinding(b, c, 0)
<1>1. Detach(b, c, o) = z \/ Detach(b, c, o) = b
  BY DEF Detach
<1>2. BufOK(z) /\ z.bound = [b.bound EXCEPT ![c] = 0]
  BY SetBindingKeeps
<1> HIDE DEF z
<1> QED
  BY <1>1, <1>2

\* Managers that are destroyed, when nothing is bound.
LEMMA ResetBuffersKeeps ==
    ASSUME NEW b, BufOK(b), \A c \in Contexts : b.bound[c] = 0
    PROVE  BufOK(ResetBuffers(b)) /\ ResetBuffers(b).bound = b.bound
<1> DEFINE z == ResetBuffers(b)
           rf == [o \in BufferIds |-> b.refs[o] - NamesOf(b, o)]
           dd == [o \in BufferIds |-> IF b.refs[o] = NamesOf(b, o) THEN 0 ELSE b.id[o]]
           mp == [n \in Names |-> Absent]
<1>1. b \in [alloc : {b.alloc}, map : [Names -> BufferIds \cup {Absent, Reserved}],
             refs : [BufferIds -> Nat], id : [BufferIds -> Names \cup {0}],
             bound : [Contexts -> BufferIds \cup {0}]]
  BY DEF BufOK, BufTypes
<1>2. z = [b EXCEPT !.refs = rf, !.id = dd, !.alloc = NewAllocator, !.map = mp]
  BY <1>1 DEF ResetBuffers
<1>3. \A o \in BufferIds : NamesOf(b, o) = b.refs[o] /\ b.refs[o] \in Nat
  <2>1. ASSUME NEW o \in BufferIds PROVE NamesOf(b, o) = b.refs[o] /\ b.refs[o] \in Nat
    <3>1. Count(Contexts, b.bound, o) = 0
      <4>1. \A c \in Contexts : b.bound[c] # o
        BY BufDomains
      <4> QED
        BY <4>1, BufDomains, CountNat
    <3>2. NamesOf(b, o) = Count(Names, b.map, o)
      BY DEF NamesOf, Count
    <3> QED
      BY <3>1, <3>2, Referenced
  <2> QED
    BY <2>1
<1>4. /\ rf = [o \in BufferIds |-> 0] /\ dd = [o \in BufferIds |-> 0]
      /\ mp \in [Names -> BufferIds \cup {Absent, Reserved}]
  <2>1. \A o \in BufferIds : b.refs[o] - NamesOf(b, o) = 0
    BY <1>3
  <2> QED
    BY <1>3, <2>1
<1> HIDE DEF rf, dd, z
<1>5. /\ z.alloc = NewAllocator /\ z.map = mp /\ z.refs = [o \in BufferIds |-> 0]
      /\ z.id = [o \in BufferIds |-> 0] /\ z.bound = b.bound
      /\ z \in [alloc : {z.alloc}, map : [Names -> BufferIds \cup {Absent, Reserved}],
                refs : [BufferIds -> Nat], id : [BufferIds -> Names \cup {0}],
                bound : [Contexts -> BufferIds \cup {0}]]
  BY <1>1, <1>2, <1>4
<1>6. FreeNames(z) = Names
  BY <1>5 DEF FreeNames
<1>7. \A o \in BufferIds : Count(Names, z.map, o) = 0 /\ Count(Contexts, z.bound, o) = 0
  <2>1. ASSUME NEW o \in BufferIds
        PROVE  Count(Names, z.map, o) = 0 /\ Count(Contexts, z.bound, o) = 0
    <3>1. (\A n \in Names : z.map[n] # o) /\ \A c \in Contexts : z.bound[c] # o
      BY <1>5, BufDomains
    <3> QED
      BY <3>1, BufDomains, CountNat
  <2> QED
    BY <2>1
<1>8. Counted(z)
  BY <1>5, <1>7 DEF Counted
<1>9. BufTypes(z) /\ AllocInv(z.alloc, FreeNames(z))
  BY <1>5, <1>6, NewAlloc DEF BufTypes
<1> QED
  BY <1>5, <1>8, <1>9 DEF BufOK, z

LEMMA NewKeeps == BufOK(NewBuffers) /\ \A c \in Contexts : NewBuffers.bound[c] = 0
<1> DEFINE z == NewBuffers
           mp == [n \in Names |-> Absent]
           bd == [c \in Contexts |-> 0]
           zero == [o \in BufferIds |-> 0]
<1>1. z = [alloc |-> NewAllocator, map |-> mp, refs |-> zero, id |-> zero, bound |-> bd]
  BY DEF NewBuffers
<1>2. /\ mp \in [Names -> BufferIds \cup {Absent, Reserved}] /\ bd \in [Contexts -> BufferIds \cup {0}]
      /\ zero \in [BufferIds -> Nat] /\ zero \in [BufferIds -> Names \cup {0}]
  OBVIOUS
<1> HIDE DEF z
<1>3. BufTypes(z) /\ z.map = mp /\ z.refs = zero /\ z.id = zero /\ z.bound = bd /\ z.alloc = NewAllocator
  BY <1>1, <1>2 DEF BufTypes
<1>4. FreeNames(z) = Names
  BY <1>3 DEF FreeNames
<1>5. \A o \in BufferIds : Count(Names, z.map, o) = 0 /\ Count(Contexts, z.bound, o) = 0
  <2>1. ASSUME NEW o \in BufferIds
        PROVE  Count(Names, z.map, o) = 0 /\ Count(Contexts, z.bound, o) = 0
    <3>1. (\A n \in Names : z.map[n] # o) /\ \A c \in Contexts : z.bound[c] # o
      BY <1>3, BufDomains
    <3> QED
      BY <3>1, BufDomains, CountNat
  <2> QED
    BY <2>1
<1>6. Counted(z)
  BY <1>3, <1>5 DEF Counted
<1> QED
  BY <1>3, <1>4, <1>6, NewAlloc DEF BufOK, z

(* The steps of the share group. *)

LEMMA BufferCallKeeps ==
    ASSUME BufInv, NEW c \in alive, BufferCall(c)
    PROVE  BufInv'
<1> DEFINE b == bufs
<1>1. c \in Contexts /\ BufOK(b) /\ alive \subseteq Contexts /\ \A d \in Contexts : b.bound[d] # 0 => d \in alive
  BY DEF BufInv
<1>2. alive' = alive
  BY DEF BufferCall, GenBuffer, UnbindBuffer, BindBuffer, DeleteBuffers, CallReturns, entryVars
<1>3. b.bound \in [Contexts -> BufferIds \cup {0}]
  BY <1>1 DEF BufOK, BufTypes
<1>4. ASSUME NEW z, bufs' = z, BufOK(z), NEW v \in BufferIds \cup {0},
             z.bound = b.bound \/ z.bound = [b.bound EXCEPT ![c] = v]
      PROVE  BufInv'
  <2>1. \A d \in Contexts : z.bound[d] # 0 => d \in alive
    BY <1>1, <1>3, <1>4
  <2> QED
    BY <1>1, <1>2, <1>4, <2>1 DEF BufInv
<1>5. CASE GenBuffer(c)
  <2> DEFINE z == [b EXCEPT !.alloc = TakeName(@), !.map[NextName(b.alloc)] = Reserved]
  <2>1. bufs' = z /\ HasName(b.alloc)
    BY <1>5 DEF GenBuffer
  <2> HIDE DEF b
  <2>2. BufOK(z) /\ z.bound = b.bound
    BY <1>1, <2>1, GenKeeps
  <2> HIDE DEF z
  <2> QED
    BY <1>4, <2>1, <2>2
<1>6. CASE UnbindBuffer(c)
  <2>1. bufs' = SetBinding(b, c, 0)
    BY <1>6 DEF UnbindBuffer
  <2> HIDE DEF b
  <2>2. BufOK(SetBinding(b, c, 0)) /\ SetBinding(b, c, 0).bound = [b.bound EXCEPT ![c] = 0]
    BY <1>1, SetBindingKeeps
  <2> QED
    BY <1>4, <2>1, <2>2
<1>7. ASSUME NEW n \in Names, BindBuffer(c, n) PROVE BufInv'
  <2> DEFINE d == Obtain(b, n)
             o == d.map[n]
             z == SetBinding(d, c, o)
  <2>1. bufs' = z /\ (Existing(b, n) \/ \E q \in BufferIds : b.refs[q] = 0)
    BY <1>7 DEF BindBuffer
  <2> HIDE DEF b
  <2>2. BufOK(d) /\ o \in BufferIds /\ d.bound = b.bound
    BY <1>1, <2>1, ObtainKeeps
  <2> HIDE DEF d
  <2>3. \E m \in Names : d.map[m] = o
    OBVIOUS
  <2> HIDE DEF o
  <2>4. BufOK(z) /\ z.bound = [d.bound EXCEPT ![c] = o]
    BY <1>1, <2>2, <2>3, SetBindingKeeps
  <2> HIDE DEF z
  <2> QED
    BY <1>4, <2>1, <2>2, <2>4
<1>8. ASSUME NEW n \in Names, DeleteBuffers(c, n) PROVE BufInv'
  <2> DEFINE d == Detach(b, c, b.map[n])
             z == Erase(d, n)
  <2>1. bufs' = z
    BY <1>8 DEF DeleteBuffers
  <2>2. BufOK(d) /\ d.bound \in {b.bound, [b.bound EXCEPT ![c] = 0]}
    <3> DEFINE o == b.map[n]
    <3> HIDE DEF b, o
    <3>1. BufOK(Detach(b, c, o)) /\ Detach(b, c, o).bound \in {b.bound, [b.bound EXCEPT ![c] = 0]}
      BY <1>1, DetachBufferKeeps
    <3> QED
      BY <3>1 DEF o
  <2> HIDE DEF b, d
  <2>3. BufOK(z) /\ z.bound = d.bound
    BY <2>2, EraseKeeps
  <2> HIDE DEF z
  <2> QED
    BY <1>4, <2>1, <2>2, <2>3
<1> QED
  BY <1>5, <1>6, <1>7, <1>8 DEF BufferCall

LEMMA DestroyBuffers ==
    ASSUME BufInv, NEW c \in alive, DestroyContext(c)
    PROVE  BufInv'
<1> DEFINE b == bufs
           last == alive = {c}
           d == SetBinding(b, c, 0)
           z == ReleaseBuffers(b, c, last)
<1>1. c \in Contexts /\ BufOK(b) /\ alive \subseteq Contexts /\ \A x \in Contexts : b.bound[x] # 0 => x \in alive
  BY DEF BufInv
<1>2. \/ bufs' = z /\ alive' = alive \ {c}
      \/ bufs' = b /\ alive' = alive
  BY DEF DestroyContext
<1>3. BufOK(d) /\ d.bound = [b.bound EXCEPT ![c] = 0]
  <2> HIDE DEF b
  <2> QED
    BY <1>1, SetBindingKeeps
<1>4. \A x \in Contexts : d.bound[x] # 0 => x \in alive \ {c}
  BY <1>1, <1>3 DEF BufOK, BufTypes
<1>5. z = IF last THEN ResetBuffers(d) ELSE d
  BY DEF ReleaseBuffers
<1>6. BufOK(z) /\ z.bound = d.bound
  <2>1. CASE last
    <3>1. \A x \in Contexts : d.bound[x] = 0
      BY <1>4, <2>1
    <3> HIDE DEF d, z
    <3> QED
      BY <1>3, <1>5, <2>1, <3>1, ResetBuffersKeeps
  <2>2. CASE ~last
    BY <1>3, <1>5, <2>2
  <2> QED
    BY <2>1, <2>2
<1> HIDE DEF z, d, last
<1>7. CASE bufs' = z /\ alive' = alive \ {c}
  BY <1>1, <1>4, <1>6, <1>7 DEF BufInv
<1>8. CASE bufs' = b /\ alive' = alive
  BY <1>8 DEF BufInv
<1> QED
  BY <1>2, <1>7, <1>8

\* The other calls destroy no context.
LEMMA OthersKeepBuffers ==
    ASSUME NEW c \in alive, ProgramCall(c) \/ SyncCall(c) \/ Finish(c)
    PROVE  alive' = alive
<1>1. ASSUME NEW call, CallReturns(call) PROVE alive' = alive
  BY <1>1 DEF CallReturns, entryVars
<1>2. ASSUME NEW call, NEW r, Perform(call, r) PROVE alive' = alive
  BY <1>2 DEF Perform
<1>3. ASSUME NEW call, NEW r, Returns(call, r) PROVE alive' = alive
  BY <1>1, <1>3 DEF Returns
<1>4. ASSUME NEW n, CompileShader(c, n) \/ GetShader(c, n) \/ DeleteShader(c, n) \/ DeleteProgram(c, n)
      PROVE  alive' = alive
  BY <1>2, <1>4 DEF CompileShader, GetShader, DeleteShader, DeleteProgram
<1>5. ASSUME NEW n, LinkProgram(c, n) \/ UseProgram(c, n) \/ \E s \in Names : DetachShader(c, n, s)
      PROVE  alive' = alive
  BY <1>2, <1>5 DEF LinkProgram, UseProgram, DetachShader
<1>6. ASSUME NEW n, NEW s, CreateShader(c, n, s) \/ ShaderSource(c, n, s) \/ AttachShader(c, n, s)
                           \/ CreateProgram(c) \/ ReleaseShaderCompiler(c) \/ MaxShaderCompilerThreads(c, n)
      PROVE  alive' = alive
  BY <1>3, <1>6 DEF CreateShader, ShaderSource, AttachShader, CreateProgram, ReleaseShaderCompiler,
                    MaxShaderCompilerThreads
<1>7. ProgramCall(c) => alive' = alive
  BY <1>4, <1>5, <1>6 DEF ProgramCall
<1>8. SyncCall(c) => alive' = alive
  BY <1>1 DEF SyncCall, Draw, Flush, FenceSync, DeleteSync, SetFenceNV, WaitSync, PollSync,
              ClientWaitSync, FinishFenceNV, ClientWait
<1>9. Finish(c) => alive' = alive
  BY DEF Finish
<1> QED
  BY <1>7, <1>8, <1>9

LEMMA InitBuffers == Init => BufInv
<1> SUFFICES ASSUME Init PROVE BufInv
  OBVIOUS
<1>1. bufs = NewBuffers /\ alive \subseteq Contexts
  BY ClientsAssumption DEF Init, EntryInit
<1> QED
  BY <1>1, NewKeeps DEF BufInv

LEMMA StepBuffers == BufInv /\ [Next]_vars => BufInv'
<1> SUFFICES ASSUME BufInv, [Next]_vars PROVE BufInv'
  OBVIOUS
<1>1. ASSUME bufs' = bufs, alive' = alive PROVE BufInv'
  BY <1>1 DEF BufInv
<1>2. ASSUME NEW c \in alive, ContextStep(c) PROVE BufInv'
  BY <1>1, <1>2, BufferCallKeeps, OthersKeepBuffers, DestroyBuffers DEF ContextStep
<1>3. CASE Workers
  BY <1>1, <1>3 DEF Workers, WorkerStep, entryVars
<1>4. CASE Gpu
  BY <1>1, <1>4 DEF Gpu, GpuStep, Listeners, Fire, entryVars
<1>5. CASE WaitingThread
  BY <1>1, <1>5 DEF WaitingThread, ThreadStep
<1>6. CASE UNCHANGED vars
  BY <1>1, <1>6 DEF vars
<1> QED
  BY <1>2, <1>3, <1>4, <1>5, <1>6 DEF Next, Ended

-----------------------------------------------------------------------------
(* The theorems. *)

\* The names, maps, counts and bindings of buffers are consistent with each
\* other in every reachable state, and no context that was destroyed has
\* anything bound (HandleAllocator, ResourceManager.cpp, RefCountObject.h).
THEOREM BufferInvariant == Spec => []BufInv
<1> QED
  BY InitBuffers, StepBuffers, PTL DEF Spec

\* A buffer lives exactly as long as a name or a binding refers to it, and a
\* name can be handed out exactly once while it is neither generated nor in
\* use, with any number of contexts, buffers and names (Context::bindBuffer,
\* deleteBuffer, detachBuffer, HandleAllocator::reserve).
THEOREM NamesExactAlways == Spec => []NamesExact
<1>1. BufInv => NamesExact
  <2> SUFFICES ASSUME BufInv PROVE NamesExact
    OBVIOUS
  <2> DEFINE b == bufs
  <2>1. Counted(b) /\ AllocInv(b.alloc, FreeNames(b))
    BY DEF BufInv, BufOK
  <2>2. \A n \in Names : Copies(b.alloc, n) = IF b.map[n] = Absent THEN 1 ELSE 0
    <3>1. SUFFICES ASSUME NEW n \in Names
                   PROVE  Copies(b.alloc, n) = IF b.map[n] = Absent THEN 1 ELSE 0
      OBVIOUS
    <3> DEFINE a == b.alloc
               S == FreeNames(b)
    <3>2. AllocInv(a, S) /\ (n \in S <=> b.map[n] = Absent)
      BY <2>1 DEF FreeNames
    <3> HIDE DEF a, S
    <3>3. Copies(a, n) = IF n \in S THEN 1 ELSE 0
      BY <3>2, CopiesExact
    <3> QED
      BY <3>2, <3>3 DEF a
  <2> QED
    BY <2>1, <2>2 DEF NamesExact, Counted, Count, NamesOf
<1> QED
  BY <1>1, BufferInvariant, PTL

-----------------------------------------------------------------------------
(* The state of the programs, without types for what compilations use.     *)

ShaderShape(s) ==
    s \in [exists : {TRUE}, type : Types, source : {s.source}, refs : Nat, flagged : BOOLEAN,
           status : {s.status}, translator : {s.translator}, compiler : {s.compiler},
           asked : {s.asked}, translated : {s.translated}]

ProgramType ==
    [exists : {TRUE}, shaders : [Types -> Names \cup {0}], refs : Nat, flagged : BOOLEAN,
     linked : BOOLEAN, resolved : BOOLEAN, outcome : LinkOutcomes \cup {"ok"}]

Fields(p) ==
    p \in [alloc : {p.alloc}, shader : {p.shader}, program : {p.program}, current : {p.current},
           compilerOf : {p.compilerOf}, idle : {p.idle}, translator : {p.translator},
           workers : {p.workers}, job : {p.job}, poolOf : {p.poolOf}, waits : {p.waits}]

Shaped(p) ==
    /\ Fields(p)
    /\ p.shader = [n \in Names |-> p.shader[n]]
    /\ \A n \in Names : p.shader[n] = NoShader \/ ShaderShape(p.shader[n])
    /\ p.program \in [Names -> ProgramType \cup {NoProgram}]
    /\ p.current \in [Contexts -> Names \cup {0}]

\* Compilations leave the objects alone.
SameShader(s, r) ==
    r.exists = s.exists /\ (s.exists => r.type = s.type /\ r.refs = s.refs /\ r.flagged = s.flagged)

SameObjects(p, q) ==
    /\ q.alloc = p.alloc /\ q.program = p.program /\ q.current = p.current
    /\ \A n \in Names : SameShader(p.shader[n], q.shader[n])

LEMMA SameTrans ==
    ASSUME NEW p, NEW q, NEW r, SameObjects(p, q), SameObjects(q, r)
    PROVE  SameObjects(p, r)
  BY DEF SameObjects, SameShader

\* What no object sees.
LEMMA HiddenKeep ==
    ASSUME NEW p, Shaped(p), NEW q, Fields(q), q.alloc = p.alloc, q.program = p.program,
           q.current = p.current, q.shader = p.shader
    PROVE  Shaped(q) /\ SameObjects(p, q)
  BY DEF Shaped, SameObjects, SameShader

LEMMA DropCompilersKeeps ==
    ASSUME NEW p, Shaped(p)
    PROVE  Shaped(DropCompilers(p)) /\ SameObjects(p, DropCompilers(p))
<1> DEFINE q == DropCompilers(p)
<1>1. PICK d, e : q = [p EXCEPT !.idle = d, !.translator = e]
  BY DEF DropCompilers
<1>2. Fields(q) /\ q.alloc = p.alloc /\ q.program = p.program
      /\ q.current = p.current /\ q.shader = p.shader
  <2> HIDE DEF q
  <2> QED
    BY <1>1 DEF Shaped, Fields
<1> QED
  BY <1>2, HiddenKeep, SMTT(40)

\* One shader changes in what compilations use.
LEMMA ShaderKeeps ==
    ASSUME NEW p, Shaped(p), NEW n, IsShader(p, n), NEW q, Fields(q), q.alloc = p.alloc, q.program = p.program,
           q.current = p.current, NEW s, ShaderShape(s), SameShader(p.shader[n], s),
           q.shader = [p.shader EXCEPT ![n] = s]
    PROVE  Shaped(q) /\ SameObjects(p, q)
<1>1. \A m \in Names : q.shader[m] = IF m = n THEN s ELSE p.shader[m]
  BY DEF Shaped
<1>2. q.shader = [m \in Names |-> q.shader[m]]
  BY DEF Shaped
<1> QED
  BY <1>1, <1>2 DEF Shaped, SameObjects, SameShader, IsShader

LEMMA BindCompilerKeeps ==
    ASSUME NEW p, Shaped(p), NEW c, NEW n, IsShader(p, n)
    PROVE  Shaped(BindCompiler(p, c, n)) /\ SameObjects(p, BindCompiler(p, c, n))
<1> DEFINE k == IF p.compilerOf[c] # 0 THEN p.compilerOf[c] ELSE Unused(Compilers, CompilersInUse(p))
           q == [p EXCEPT !.compilerOf[c] = k, !.shader[n].compiler = k]
           s == [p.shader[n] EXCEPT !.compiler = k]
<1>0. ShaderShape(p.shader[n])
  BY DEF IsShader, Shaped, NoShader
<1> HIDE DEF k
<1>1. ShaderShape(s) /\ SameShader(p.shader[n], s)
  BY <1>0 DEF ShaderShape, SameShader
<1>2. Fields(q) /\ q.alloc = p.alloc /\ q.program = p.program
      /\ q.current = p.current /\ q.shader = [p.shader EXCEPT ![n] = s]
  BY DEF Shaped, Fields
<1> HIDE DEF q, s
<1>3. Shaped(q) /\ SameObjects(p, q)
  BY <1>1, <1>2, ShaderKeeps
<1>4. Shaped(DropCompilers(q)) /\ SameObjects(q, DropCompilers(q))
  BY <1>3, DropCompilersKeeps
<1> QED
  BY <1>3, <1>4, SameTrans DEF BindCompiler, q, k

LEMMA ShapedShader ==
    ASSUME NEW p, Shaped(p), NEW n, IsShader(p, n)
    PROVE  n \in Names /\ ShaderShape(p.shader[n]) /\ p.shader[n].exists
  BY DEF IsShader, Shaped, NoShader

LEMMA GetInstanceKeeps ==
    ASSUME NEW p, Shaped(p), NEW n, IsShader(p, n)
    PROVE  Shaped(GetInstance(p, n)) /\ SameObjects(p, GetInstance(p, n))
<1> DEFINE q == GetInstance(p, n)
           s == [p.shader[n] EXCEPT !.translator = InstanceFor(p, n)]
<1>1. ShaderShape(s) /\ SameShader(p.shader[n], s)
  BY ShapedShader DEF ShaderShape, SameShader
<1>2. PICK d, e : q = [p EXCEPT !.shader[n].translator = InstanceFor(p, n), !.translator = d, !.idle = e]
  BY DEF GetInstance
<1>3. Fields(q) /\ q.alloc = p.alloc /\ q.program = p.program
      /\ q.current = p.current /\ q.shader = [p.shader EXCEPT ![n] = s]
  <2> HIDE DEF q
  <2> QED
    BY <1>2 DEF Shaped, Fields
<1> HIDE DEF q, s
<1> QED
  BY <1>1, <1>3, ShaderKeeps DEF q

LEMMA PutInstanceKeeps ==
    ASSUME NEW p, Shaped(p), NEW n, IsShader(p, n)
    PROVE  Shaped(PutInstance(p, n)) /\ SameObjects(p, PutInstance(p, n))
<1> DEFINE q == PutInstance(p, n)
           s == [p.shader[n] EXCEPT !.translator = 0]
<1>1. ShaderShape(s) /\ SameShader(p.shader[n], s)
  BY ShapedShader DEF ShaderShape, SameShader
<1>2. PICK d, e : q = [p EXCEPT !.idle = d, !.translator = e, !.shader[n].translator = 0]
  <2>1. \/ \E d, e : q = [p EXCEPT !.idle = d, !.translator = e, !.shader[n].translator = 0]
        \/ \E e : q = [p EXCEPT !.translator = e, !.shader[n].translator = 0]
    BY DEF PutInstance
  <2> HIDE DEF q
  <2>2. ASSUME NEW e, q = [p EXCEPT !.translator = e, !.shader[n].translator = 0]
        PROVE  q = [p EXCEPT !.idle = p.idle, !.translator = e, !.shader[n].translator = 0]
    BY <2>2 DEF Shaped, Fields
  <2> QED
    BY <2>1, <2>2, ZenonT(60)
<1>3. Fields(q) /\ q.alloc = p.alloc /\ q.program = p.program
      /\ q.current = p.current /\ q.shader = [p.shader EXCEPT ![n] = s]
  <2> HIDE DEF q
  <2> QED
    BY <1>2 DEF Shaped, Fields
<1> HIDE DEF q, s
<1> QED
  BY <1>1, <1>3, ShaderKeeps DEF q

LEMMA ResolveCompileKeeps ==
    ASSUME NEW p, Shaped(p), NEW n
    PROVE  Shaped(ResolveCompile(p, n)) /\ SameObjects(p, ResolveCompile(p, n))
<1>1. CASE ~CompilePending(p, n)
  BY <1>1 DEF ResolveCompile, SameObjects, SameShader
<1>2. CASE CompilePending(p, n)
  <2> DEFINE r == PutInstance(p, n)
             out == p.translator[p.shader[n].translator].holds
             st == IF out \in Correct THEN "compiled" ELSE "not compiled"
             q == ResolveCompile(p, n)
             s == [r.shader[n] EXCEPT !.translated = out, !.status = st]
  <2>1. IsShader(p, n)
    BY <1>2 DEF CompilePending
  <2>2. Shaped(r) /\ SameObjects(p, r)
    BY <2>1, PutInstanceKeeps
  <2>3. q = [r EXCEPT !.waits = @ \cup {n}, !.workers.tasks[n] = NoTask, !.job[n] = NoJob,
                      !.shader[n].translated = out, !.shader[n].status = st]
    BY <1>2 DEF ResolveCompile
  <2> HIDE DEF r, q, out, st
  <2>4. PICK w, x, y : q = [r EXCEPT !.waits = w, !.workers = x, !.job = y,
                                     !.shader[n].translated = out, !.shader[n].status = st]
    BY <2>3
  <2>5. IsShader(r, n)
    BY <2>1, <2>2 DEF IsShader, SameObjects, SameShader
  <2>6. ShaderShape(s) /\ SameShader(r.shader[n], s)
    BY <2>2, <2>5, ShapedShader DEF ShaderShape, SameShader
  <2>7. Fields(q) /\ q.alloc = r.alloc /\ q.program = r.program
        /\ q.current = r.current /\ q.shader = [r.shader EXCEPT ![n] = s]
    BY <2>2, <2>4 DEF Shaped, Fields
  <2> HIDE DEF s
  <2>8. Shaped(q) /\ SameObjects(r, q)
    BY <2>2, <2>5, <2>6, <2>7, ShaderKeeps
  <2> QED
    BY <2>2, <2>8, SameTrans DEF q
<1> QED
  BY <1>1, <1>2

LEMMA RunTranslationKeeps ==
    ASSUME NEW p, Shaped(p), NEW i
    PROVE  Shaped(RunTranslation(p, i)) /\ SameObjects(p, RunTranslation(p, i))
<1> DEFINE q == RunTranslation(p, i)
<1>1. Fields(q) /\ q.alloc = p.alloc /\ q.program = p.program
      /\ q.current = p.current /\ q.shader = p.shader
  BY DEF Shaped, Fields, RunTranslation
<1> QED
  BY <1>1, HiddenKeep

LEMMA PostTranslationKeeps ==
    ASSUME NEW p, Shaped(p), NEW c, NEW n
    PROVE  Shaped(PostTranslation(p, c, n)) /\ SameObjects(p, PostTranslation(p, c, n))
<1> DEFINE z == PostTranslation(p, c, n)
           q == [p EXCEPT !.job[n] = [translator |-> p.shader[n].translator,
                                      source |-> p.shader[n].source],
                          !.workers = PostWorkerTask(@, p.poolOf[c], n)]
<1>1. z = q \/ z = RunTranslation(q, n)
  BY DEF PostTranslation
<1>2. Fields(q) /\ q.alloc = p.alloc /\ q.program = p.program
      /\ q.current = p.current /\ q.shader = p.shader
  BY DEF Shaped, Fields
<1> HIDE DEF q, z
<1>3. Shaped(q) /\ SameObjects(p, q)
  BY <1>2, HiddenKeep
<1> QED
  BY <1>1, <1>3, RunTranslationKeeps, SameTrans DEF z

LEMMA AskKeeps ==
    ASSUME NEW p, Shaped(p), NEW n, IsShader(p, n)
    PROVE  Shaped(Ask(p, n)) /\ SameObjects(p, Ask(p, n))
<1> DEFINE q == Ask(p, n)
           s == [p.shader[n] EXCEPT !.status = "pending", !.asked = p.shader[n].source,
                                    !.translated = "nothing"]
<1>1. ShaderShape(s) /\ SameShader(p.shader[n], s)
  BY ShapedShader DEF ShaderShape, SameShader
<1>2. Fields(q) /\ q.alloc = p.alloc /\ q.program = p.program
      /\ q.current = p.current /\ q.shader = [p.shader EXCEPT ![n] = s]
  BY DEF Shaped, Fields, Ask
<1> HIDE DEF q, s
<1> QED
  BY <1>1, <1>2, ShaderKeeps DEF q

LEMMA CompileKeeps ==
    ASSUME NEW p, Shaped(p), NEW c, NEW n, IsShader(p, n)
    PROVE  Shaped(Compile(p, c, n)) /\ SameObjects(p, Compile(p, c, n))
<1> DEFINE q == ResolveCompile(p, n)
           r == Ask(q, n)
           s == BindCompiler(r, c, n)
           t == GetInstance(s, n)
           u == PostTranslation(t, c, n)
<1>1. Compile(p, c, n) = u
  BY DEF Compile
<1>2. \A x, y : IsShader(x, n) /\ SameObjects(x, y) => IsShader(y, n)
  BY DEF IsShader, SameObjects, SameShader
<1> HIDE DEF q
<1>3. Shaped(q) /\ SameObjects(p, q) /\ IsShader(q, n)
  BY <1>2, ResolveCompileKeeps DEF q
<1> HIDE DEF r
<1>4. Shaped(r) /\ SameObjects(q, r) /\ IsShader(r, n)
  BY <1>2, <1>3, AskKeeps DEF r
<1> HIDE DEF s
<1>5. Shaped(s) /\ SameObjects(r, s) /\ IsShader(s, n)
  BY <1>2, <1>4, BindCompilerKeeps DEF s
<1> HIDE DEF t
<1>6. Shaped(t) /\ SameObjects(s, t)
  BY <1>5, GetInstanceKeeps DEF t
<1>7. Shaped(u) /\ SameObjects(t, u)
  BY <1>6, PostTranslationKeeps
<1> HIDE DEF u
<1> QED
  BY <1>1, <1>3, <1>4, <1>5, <1>6, <1>7, SameTrans

(* The objects and their references.                                       *)

FreeObjects(p) == {n \in Names : ~IsShader(p, n) /\ ~IsProgram(p, n)}

\* The shaders of the programs.
Attached(p) ==
    [t \in Types |-> [m \in Names |-> IF p.program[m].exists THEN p.program[m].shaders[t] ELSE 0]]

\* The references of shaders are those of U, one by one: while a program is
\* deleted, it has released some shaders that it still names.
ShadersCounted(p, U) ==
    /\ U \in [Types -> [Names -> Names \cup {0}]]
    /\ \A t \in Types, m \in Names :
         U[t][m] # 0 => IsShader(p, U[t][m]) /\ p.shader[U[t][m]].type = t
    /\ \A s \in Names : IsShader(p, s) =>
         /\ p.shader[s].refs = Count(Names, U[p.shader[s].type], s)
         /\ p.shader[s].flagged => p.shader[s].refs > 0

\* The references of programs are those of C, but for programs in X.
ProgramsCounted(p, C, X) ==
    /\ C \in [Contexts -> Names \cup {0}]
    /\ \A c \in Contexts : C[c] # 0 => IsProgram(p, C[c])
    /\ \A n \in Names : IsProgram(p, n) /\ n \notin X =>
         /\ p.program[n].refs = Count(Contexts, C, n)
         /\ p.program[n].flagged => p.program[n].refs > 0
         /\ p.program[n].refs > 0 => p.program[n].resolved

Named(p) ==
    /\ Shaped(p) /\ AllocInv(p.alloc, FreeObjects(p))
    /\ \A n \in Names : ~(IsShader(p, n) /\ IsProgram(p, n))

ObjInv(p, U, C, X) == Named(p) /\ ShadersCounted(p, U) /\ ProgramsCounted(p, C, X)

ObjOK(p) == ObjInv(p, Attached(p), p.current, {})

LEMMA SetsFinite ==
    /\ IsFiniteSet(Names) /\ IsFiniteSet(Contexts) /\ Names \subseteq Nat /\ 0 \notin Names
<1>1. IsFiniteSet(Names)
  BY NameAssumption, FS_Interval DEF Names
<1> QED
  BY <1>1, ClientsAssumption, NameAssumption DEF Names

LEMMA SameExists ==
    ASSUME NEW p, NEW q, SameObjects(p, q)
    PROVE  /\ \A n : (IsShader(q, n) <=> IsShader(p, n)) /\ (IsProgram(q, n) <=> IsProgram(p, n))
           /\ Attached(q) = Attached(p) /\ FreeObjects(q) = FreeObjects(p)
<1>1. \A n : (IsShader(q, n) <=> IsShader(p, n)) /\ (IsProgram(q, n) <=> IsProgram(p, n))
  BY DEF IsShader, IsProgram, SameObjects, SameShader
<1> QED
  BY <1>1 DEF SameObjects, Attached, FreeObjects

LEMMA SameInv ==
    ASSUME NEW p, NEW U, NEW C, NEW X, ObjInv(p, U, C, X), NEW q, Shaped(q), SameObjects(p, q)
    PROVE  ObjInv(q, U, C, X)
<1>1. \A n : (IsShader(q, n) <=> IsShader(p, n)) /\ (IsProgram(q, n) <=> IsProgram(p, n))
  BY SameExists
<1>2. \A n : IsShader(p, n) =>
        q.shader[n].type = p.shader[n].type /\ q.shader[n].refs = p.shader[n].refs
        /\ q.shader[n].flagged = p.shader[n].flagged
  BY DEF SameObjects, SameShader, IsShader
<1>3. Named(q)
  BY <1>1, SameExists DEF ObjInv, Named, SameObjects
<1>4. ShadersCounted(q, U)
  BY <1>1, <1>2 DEF ObjInv, ShadersCounted
<1>5. ProgramsCounted(q, C, X)
  BY <1>1 DEF ObjInv, ProgramsCounted, SameObjects
<1> QED
  BY <1>3, <1>4, <1>5 DEF ObjInv

LEMMA SameOK ==
    ASSUME NEW p, ObjOK(p), NEW q, Shaped(q), SameObjects(p, q)
    PROVE  ObjOK(q)
  BY SameInv, SameExists DEF ObjOK, SameObjects

\* Shader::onDestroy and the name.
DestroyedShader(p, q, s) ==
    /\ Shaped(q) /\ q.program = p.program /\ q.current = p.current
    /\ q.alloc = ReleaseName(p.alloc, s) /\ q.shader[s] = NoShader
    /\ \A m \in Names \ {s} : SameShader(p.shader[m], q.shader[m])

LEMMA DestroyShaderEffect ==
    ASSUME NEW p, Shaped(p), NEW s, IsShader(p, s)
    PROVE  DestroyedShader(p, DestroyShader(p, s), s)
<1> DEFINE r == ResolveCompile(p, s)
           q == [r EXCEPT !.shader[s] = NoShader, !.alloc = ReleaseName(@, s)]
<1>1. Shaped(r) /\ SameObjects(p, r) /\ s \in Names
  BY ResolveCompileKeeps DEF IsShader
<1> HIDE DEF r
<1>2. Fields(q) /\ q.alloc = ReleaseName(r.alloc, s) /\ q.program = r.program
      /\ q.current = r.current /\ q.shader = [r.shader EXCEPT ![s] = NoShader]
  BY <1>1 DEF Shaped, Fields
<1> HIDE DEF q
<1>3. \A m \in Names : q.shader[m] = IF m = s THEN NoShader ELSE r.shader[m]
  BY <1>1, <1>2 DEF Shaped
<1>4. q.shader = [m \in Names |-> q.shader[m]]
  BY <1>1, <1>2 DEF Shaped
<1>5. Shaped(q)
  BY <1>1, <1>2, <1>3, <1>4 DEF Shaped
<1>6. Shaped(DropCompilers(q)) /\ SameObjects(q, DropCompilers(q))
  BY <1>5, DropCompilersKeeps
<1>7. DestroyShader(p, s) = DropCompilers(q)
  BY DEF DestroyShader, q, r
<1> DEFINE z == DropCompilers(q)
<1> HIDE DEF z
<1>8. z.shader[s] = NoShader
  <2>1. ~z.shader[s].exists
    BY <1>1, <1>3, <1>6 DEF z, SameObjects, SameShader, NoShader
  <2> QED
    BY <1>1, <1>6, <2>1 DEF z, Shaped, ShaderShape
<1>9. \A m \in Names \ {s} : SameShader(p.shader[m], z.shader[m])
  BY <1>1, <1>3, <1>6 DEF z, SameObjects, SameShader
<1> QED
  BY <1>1, <1>2, <1>6, <1>7, <1>8, <1>9 DEF z, DestroyedShader, SameObjects

\* A shader goes when no reference to it is left.
LEMMA DestroyedKeeps ==
    ASSUME NEW p, NEW U, NEW C, NEW X, ObjInv(p, U, C, X), NEW s, IsShader(p, s),
           NEW q, DestroyedShader(p, q, s), NEW V \in [Types -> [Names -> Names \cup {0}]],
           \A t \in Types, m \in Names : /\ V[t][m] # s
                                         /\ V[t][m] = U[t][m] \/ (V[t][m] = 0 /\ U[t][m] = s)
    PROVE  ObjInv(q, V, C, X)
<1>1. s \in Names /\ p.shader[s].exists /\ ~IsProgram(p, s)
  BY DEF IsShader, ObjInv, Named
<1>2. /\ \A n : IsProgram(q, n) <=> IsProgram(p, n)
      /\ \A n : IsShader(q, n) <=> IsShader(p, n) /\ n # s
      /\ \A n : IsShader(q, n) => /\ q.shader[n].type = p.shader[n].type
                                  /\ q.shader[n].refs = p.shader[n].refs
                                  /\ q.shader[n].flagged = p.shader[n].flagged
  BY DEF DestroyedShader, IsProgram, IsShader, SameShader, NoShader
<1>3. FreeObjects(q) = FreeObjects(p) \cup {s} /\ s \in Names \ FreeObjects(p)
  BY <1>1, <1>2 DEF FreeObjects
<1>4. AllocInv(q.alloc, FreeObjects(q))
  <2> DEFINE a == p.alloc
             F == FreeObjects(p)
  <2>1. AllocInv(a, F) /\ s \in Names \ F
    BY <1>3 DEF ObjInv, Named
  <2> HIDE DEF a, F
  <2>2. AllocInv(ReleaseName(a, s), F \cup {s})
    BY <2>1, ReleaseNameKeeps
  <2> QED
    BY <1>3, <2>2 DEF a, F, DestroyedShader
<1>5. Named(q)
  BY <1>2, <1>4 DEF ObjInv, Named, DestroyedShader
<1>6. ShadersCounted(q, V)
  <2>1. ASSUME NEW t \in Types, NEW m \in Names, V[t][m] # 0
        PROVE  IsShader(q, V[t][m]) /\ q.shader[V[t][m]].type = t
    <3>1. V[t][m] = U[t][m] /\ V[t][m] # s
      BY <2>1
    <3>2. IsShader(p, U[t][m]) /\ p.shader[U[t][m]].type = t
      BY <2>1, <3>1 DEF ObjInv, ShadersCounted
    <3> QED
      BY <1>2, <3>1, <3>2
  <2>2. ASSUME NEW n \in Names, IsShader(q, n)
        PROVE  /\ q.shader[n].refs = Count(Names, V[q.shader[n].type], n)
               /\ q.shader[n].flagged => q.shader[n].refs > 0
    <3> DEFINE t == p.shader[n].type
    <3>1. IsShader(p, n) /\ n # s /\ t \in Types
      BY <1>2, <2>2, ShapedShader DEF ObjInv, Named, ShaderShape
    <3>2. p.shader[n].refs = Count(Names, U[t], n) /\ (p.shader[n].flagged => p.shader[n].refs > 0)
      BY <3>1 DEF ObjInv, ShadersCounted
    <3>3. \A m \in Names : V[t][m] = n <=> U[t][m] = n
      BY <3>1, SetsFinite
    <3>4. Count(Names, V[t], n) = Count(Names, U[t], n)
      BY <3>3 DEF Count
    <3> QED
      BY <1>2, <2>2, <3>2, <3>4
  <2> QED
    BY <2>1, <2>2 DEF ShadersCounted
<1>7. ProgramsCounted(q, C, X)
  BY <1>2 DEF ObjInv, ProgramsCounted, DestroyedShader
<1> QED
  BY <1>5, <1>6, <1>7 DEF ObjInv

\* A program lets go of the shader of a type.
LEMMA ReleaseShaderKeeps ==
    ASSUME NEW p, NEW U, NEW C, NEW X, ObjInv(p, U, C, X), NEW t \in Types, NEW m \in Names, U[t][m] # 0,
           NEW V \in [Types -> [Names -> Names \cup {0}]],
           \A u \in Types, x \in Names : V[u][x] = IF u = t /\ x = m THEN 0 ELSE U[u][x]
    PROVE  /\ ObjInv(ReleaseShader(p, U[t][m]), V, C, X)
           /\ ReleaseShader(p, U[t][m]).program = p.program /\ ReleaseShader(p, U[t][m]).current = p.current
<1> DEFINE s == U[t][m]
           q == ReleaseShader(p, s)
           N == Count(Names, U[t], s)
<1>1. /\ U \in [Types -> [Names -> Names \cup {0}]] /\ s \in Names
      /\ IsShader(p, s) /\ p.shader[s].type = t /\ Shaped(p)
      /\ p.shader[s].refs = N /\ (p.shader[s].flagged => p.shader[s].refs > 0)
  BY DEF ObjInv, ShadersCounted, Named, IsShader
<1>2. ShaderShape(p.shader[s])
  BY <1>1, ShapedShader
<1>3. N \in Nat /\ N >= 1
  <2>1. N \in Nat /\ (N = 0 <=> \A x \in Names : U[t][x] # s)
    BY SetsFinite, CountNat
  <2> HIDE DEF N
  <2> QED
    BY <2>1
<1>4. \A u \in Types, x \in Names : V[u][x] = IF u = t /\ x = m THEN 0 ELSE U[u][x]
  OBVIOUS
<1>5. \A u \in Types : u # t => V[u] = U[u]
  <2>1. ASSUME NEW u \in Types, u # t PROVE V[u] = U[u]
    <3>1. V[u] \in [Names -> Names \cup {0}] /\ U[u] \in [Names -> Names \cup {0}]
      BY <1>1
    <3>2. \A x \in Names : V[u][x] = U[u][x]
      BY <2>1
    <3> QED
      BY <3>1, <3>2
  <2> QED
    BY <2>1
<1>6. \A n : Count(Names, V[t], n) = (Count(Names, U[t], n) - (IF s = n THEN 1 ELSE 0)) + (IF 0 = n THEN 1 ELSE 0)
  <2> DEFINE f == U[t]
             g == V[t]
             W == Names \cup {0}
             zero == 0
  <2>1. f \in [Names -> W] /\ g \in [Names -> W] /\ f[m] = s /\ IsFiniteSet(Names)
    BY <1>1, SetsFinite
  <2>2. \A x \in Names : g[x] = IF x = m THEN zero ELSE f[x]
    OBVIOUS
  <2> HIDE DEF f, g, W, s, zero
  <2>3. Moved(Names, f, g, f[m], zero)
    BY <2>1, <2>2, CountPoint
  <2> QED
    BY <2>1, <2>3 DEF f, g, zero, Moved
<1>7. Count(Names, V[t], s) = N - 1 /\ \A n \in Names \ {s} : Count(Names, V[t], n) = Count(Names, U[t], n)
  <2>1. s # 0 /\ N - 1 \in Nat
    BY <1>3
  <2>2. \A n \in Names : n # 0 /\ Count(Names, U[t], n) \in Nat
    BY SetsFinite, CountNat
  <2>3. ASSUME NEW n \in Names \ {s} PROVE Count(Names, V[t], n) = Count(Names, U[t], n)
    <3> DEFINE k == Count(Names, U[t], n)
    <3>1. Count(Names, V[t], n) = (k - 0) + 0 /\ k \in Nat
      BY <1>6, <2>2
    <3> HIDE DEF k
    <3>2. Count(Names, V[t], n) = k
      BY <3>1
    <3> QED
      BY <3>2 DEF k
  <2>4. Count(Names, V[t], s) = (N - 1) + 0
    BY <1>6, <2>1
  <2> HIDE DEF N
  <2>5. Count(Names, V[t], s) = N - 1
    BY <2>1, <2>4
  <2> QED
    BY <2>3, <2>5
<1>8. CASE p.shader[s].refs = 1 /\ p.shader[s].flagged
  <2> DEFINE r == [p EXCEPT !.shader[s].refs = 0]
             o == [p.shader[s] EXCEPT !.refs = 0]
  <2>1. q = DestroyShader(r, s)
    BY <1>8 DEF ReleaseShader
  <2>2. Fields(r) /\ r.alloc = p.alloc /\ r.program = p.program
        /\ r.current = p.current /\ r.shader = [p.shader EXCEPT ![s] = o]
    BY <1>1 DEF Shaped, Fields
  <2>3. ShaderShape(o) /\ o.exists
    BY <1>2 DEF ShaderShape
  <2> HIDE DEF r, o, q, s, N
  <2>4. \A n \in Names : r.shader[n] = IF n = s THEN o ELSE p.shader[n]
    BY <1>1, <2>2 DEF Shaped
  <2>5. r.shader = [n \in Names |-> r.shader[n]]
    BY <1>1, <2>2 DEF Shaped
  <2>6. Shaped(r) /\ IsShader(r, s)
    BY <1>1, <2>2, <2>3, <2>4, <2>5 DEF Shaped, IsShader
  <2>7. DestroyedShader(r, q, s)
    BY <2>1, <2>6, DestroyShaderEffect
  <2>8. DestroyedShader(p, q, s)
    BY <2>2, <2>4, <2>7 DEF DestroyedShader
  <2>9. \A x \in Names : V[t][x] # s
    <3>1. Count(Names, V[t], s) = 0
      BY <1>1, <1>7, <1>8
    <3>2. Count(Names, V[t], s) = 0 <=> \A x \in Names : V[t][x] # s
      BY SetsFinite, CountNat
    <3> QED
      BY <3>1, <3>2
  <2>10. \A u \in Types, x \in Names : V[u][x] # s /\ (V[u][x] = U[u][x] \/ (V[u][x] = 0 /\ U[u][x] = s))
    <3>1. ASSUME NEW u \in Types, NEW x \in Names, U[u][x] = s PROVE u = t
      <4>1. p.shader[s].type = u
        BY <1>1, <3>1, SetsFinite DEF ObjInv, ShadersCounted
      <4> QED
        BY <1>1, <4>1
    <3> QED
      BY <1>4, <1>5, <2>9, <3>1 DEF s
  <2>11. ObjInv(q, V, C, X)
    BY <1>1, <2>8, <2>10, DestroyedKeeps
  <2> QED
    BY <2>8, <2>11 DEF DestroyedShader, q, s
<1>9. CASE ~(p.shader[s].refs = 1 /\ p.shader[s].flagged)
  <2> DEFINE o == [p.shader[s] EXCEPT !.refs = p.shader[s].refs - 1]
  <2>1. q = [p EXCEPT !.shader[s].refs = p.shader[s].refs - 1]
    BY <1>1, <1>9 DEF ReleaseShader, Shaped, Fields
  <2>2. Fields(q) /\ q.alloc = p.alloc /\ q.program = p.program
        /\ q.current = p.current /\ q.shader = [p.shader EXCEPT ![s] = o]
    <3> HIDE DEF q
    <3> QED
      BY <1>1, <2>1 DEF Shaped, Fields
  <2>3. ShaderShape(o) /\ o.exists /\ o.type = t /\ o.refs = N - 1 /\ o.flagged = p.shader[s].flagged
    <3>1. p.shader[s].refs - 1 \in Nat
      BY <1>1, <1>3
    <3> QED
      BY <1>1, <1>2, <3>1 DEF ShaderShape
  <2>4. o.flagged => N - 1 > 0
    BY <1>1, <1>3, <1>9, <2>3
  <2> HIDE DEF o, q, s, N
  <2>5. \A n \in Names : q.shader[n] = IF n = s THEN o ELSE p.shader[n]
    BY <1>1, <2>2 DEF Shaped
  <2>6. q.shader = [n \in Names |-> q.shader[n]]
    BY <1>1, <2>2 DEF Shaped
  <2>7. Shaped(q)
    BY <1>1, <2>2, <2>3, <2>5, <2>6 DEF Shaped
  <2>8. /\ \A n : IsProgram(q, n) <=> IsProgram(p, n)
        /\ \A n : IsShader(q, n) <=> IsShader(p, n)
        /\ FreeObjects(q) = FreeObjects(p)
    <3>1. \A n : IsProgram(q, n) <=> IsProgram(p, n)
      BY <2>2 DEF IsProgram
    <3>2. \A n : IsShader(q, n) <=> IsShader(p, n)
      BY <1>1, <2>3, <2>5 DEF IsShader
    <3> QED
      BY <3>1, <3>2 DEF FreeObjects
  <2>9. Named(q)
    BY <2>2, <2>7, <2>8 DEF ObjInv, Named
  <2>10. ShadersCounted(q, V)
    <3>1. ASSUME NEW u \in Types, NEW x \in Names, V[u][x] # 0
          PROVE  IsShader(q, V[u][x]) /\ q.shader[V[u][x]].type = u
      <4>1. V[u][x] = U[u][x] /\ V[u][x] \in Names
        BY <1>4, <3>1
      <4>2. IsShader(p, V[u][x]) /\ p.shader[V[u][x]].type = u
        BY <3>1, <4>1 DEF ObjInv, ShadersCounted
      <4>3. q.shader[V[u][x]].type = p.shader[V[u][x]].type
        BY <1>1, <2>3, <2>5, <4>1
      <4> QED
        BY <2>8, <4>2, <4>3
    <3>2. ASSUME NEW n \in Names, IsShader(q, n)
          PROVE  /\ q.shader[n].refs = Count(Names, V[q.shader[n].type], n)
                 /\ q.shader[n].flagged => q.shader[n].refs > 0
      <4>1. CASE n = s
        BY <1>7, <2>3, <2>4, <2>5, <4>1
      <4>2. CASE n # s
        <5> DEFINE u == p.shader[n].type
        <5>1. IsShader(p, n) /\ u \in Types /\ q.shader[n] = p.shader[n]
          BY <1>1, <2>5, <2>8, <3>2, <4>2, ShapedShader DEF ShaderShape
        <5>2. p.shader[n].refs = Count(Names, U[u], n) /\ (p.shader[n].flagged => p.shader[n].refs > 0)
          BY <5>1 DEF ObjInv, ShadersCounted
        <5>3. Count(Names, V[u], n) = Count(Names, U[u], n)
          BY <1>5, <1>7, <4>2, <5>1
        <5> QED
          BY <5>1, <5>2, <5>3
      <4> QED
        BY <4>1, <4>2
    <3> QED
      BY <3>1, <3>2 DEF ShadersCounted
  <2>11. ProgramsCounted(q, C, X)
    BY <2>2, <2>8 DEF ObjInv, ProgramsCounted
  <2>12. ObjInv(q, V, C, X)
    BY <2>9, <2>10, <2>11 DEF ObjInv
  <2> QED
    BY <2>2, <2>12 DEF q, s
<1> QED
  BY <1>8, <1>9

(* Links, which change nothing that is counted.                            *)

SameButLink(p, q, n) ==
    /\ Shaped(q) /\ q.alloc = p.alloc /\ q.current = p.current
    /\ \A m \in Names : SameShader(p.shader[m], q.shader[m])
    /\ \A m \in Names \ {n} : q.program[m] = p.program[m]
    /\ q.program[n].exists /\ q.program[n].shaders = p.program[n].shaders
    /\ q.program[n].refs = p.program[n].refs /\ q.program[n].flagged = p.program[n].flagged

LEMMA ShapedProgram ==
    ASSUME NEW p, Shaped(p), NEW n, IsProgram(p, n)
    PROVE  n \in Names /\ p.program[n] \in ProgramType /\ p.program[n].exists
  BY DEF IsProgram, Shaped, NoProgram

\* The program n becomes r.
Rewritten(p, q, n, r) ==
    /\ Fields(q) /\ q.alloc = p.alloc /\ q.shader = p.shader /\ q.current = p.current
    /\ q.program = [p.program EXCEPT ![n] = r]

\* What is counted of a program.
Relinked(s, r) ==
    r \in ProgramType /\ r.shaders = s.shaders /\ r.refs = s.refs /\ r.flagged = s.flagged

LEMMA RewrittenKeeps ==
    ASSUME NEW p, Shaped(p), NEW n, IsProgram(p, n), NEW q, NEW r, Rewritten(p, q, n, r), r \in ProgramType
    PROVE  /\ Shaped(q) /\ q.program[n] = r /\ r.exists
           /\ \A m \in Names \ {n} : q.program[m] = p.program[m]
<1>1. n \in Names /\ p.program \in [Names -> ProgramType \cup {NoProgram}] /\ r.exists
  BY ShapedProgram DEF Shaped, ProgramType
<1>2. q.program[n] = r /\ \A m \in Names \ {n} : q.program[m] = p.program[m]
  BY <1>1 DEF Rewritten
<1>3. q.program \in [Names -> ProgramType \cup {NoProgram}]
  BY <1>1 DEF Rewritten
<1>4. Shaped(q)
  BY <1>3 DEF Shaped, Rewritten
<1> QED
  BY <1>1, <1>2, <1>4

LEMMA ProgramKeeps ==
    ASSUME NEW p, Shaped(p), NEW n, IsProgram(p, n), NEW q, NEW r, Rewritten(p, q, n, r),
           Relinked(p.program[n], r)
    PROVE  SameButLink(p, q, n) /\ q.program[n] = r
<1>1. Shaped(q) /\ q.program[n] = r /\ r.exists /\ \A m \in Names \ {n} : q.program[m] = p.program[m]
  BY RewrittenKeeps DEF Relinked
<1> QED
  BY <1>1 DEF SameButLink, SameShader, Rewritten, Relinked

LEMMA LinkTrans ==
    ASSUME NEW n \in Names, NEW p, NEW q, NEW r, SameButLink(p, q, n), SameButLink(q, r, n)
    PROVE  SameButLink(p, r, n)
  BY DEF SameButLink, SameShader

LEMMA SameIsLink ==
    ASSUME NEW p, NEW n, IsProgram(p, n), NEW q, Shaped(q), SameObjects(p, q)
    PROVE  SameButLink(p, q, n) /\ q.program[n] = p.program[n]
  BY DEF SameButLink, SameObjects, IsProgram

LEMMA ResolveLinkKeeps ==
    ASSUME NEW p, Shaped(p), NEW n, IsProgram(p, n)
    PROVE  SameButLink(p, ResolveLink(p, n), n) /\ ResolveLink(p, n).program[n].resolved
<1> DEFINE q == ResolveLink(p, n)
           r == [p.program[n] EXCEPT !.resolved = TRUE, !.linked = p.program[n].outcome = "ok"]
<1>1. p.program[n] \in ProgramType /\ n \in Names
  BY ShapedProgram
<1>2. CASE p.program[n].resolved
  BY <1>2, SameIsLink DEF ResolveLink, SameObjects, SameShader
<1>3. CASE ~p.program[n].resolved
  <2>1. q = [p EXCEPT !.program[n].resolved = TRUE, !.program[n].linked = p.program[n].outcome = "ok"]
    BY <1>3 DEF ResolveLink
  <2> HIDE DEF q
  <2>2. Rewritten(p, q, n, r)
    BY <1>1, <2>1 DEF Shaped, Fields, Rewritten
  <2>3. Relinked(p.program[n], r) /\ r.resolved
    BY <1>1 DEF ProgramType, Relinked
  <2> HIDE DEF r
  <2>4. SameButLink(p, q, n) /\ q.program[n] = r
    BY <2>2, <2>3, ProgramKeeps
  <2> QED
    BY <2>3, <2>4 DEF q
<1> QED
  BY <1>2, <1>3

LEMMA LinkInv ==
    ASSUME NEW p, NEW U, NEW C, NEW X, ObjInv(p, U, C, X), NEW n, IsProgram(p, n),
           NEW q, SameButLink(p, q, n), n \in X \/ (q.program[n].refs > 0 => q.program[n].resolved)
    PROVE  ObjInv(q, U, C, X) /\ Attached(q) = Attached(p)
<1>1. n \in Names /\ p.program[n].exists
  BY DEF IsProgram
<1>2. \A m : (IsShader(q, m) <=> IsShader(p, m)) /\ (IsProgram(q, m) <=> IsProgram(p, m))
  BY <1>1 DEF IsShader, IsProgram, SameButLink, SameShader
<1>3. \A m : IsShader(p, m) =>
        q.shader[m].type = p.shader[m].type /\ q.shader[m].refs = p.shader[m].refs
        /\ q.shader[m].flagged = p.shader[m].flagged
  BY DEF SameButLink, SameShader, IsShader
<1>4. Named(q)
  <2>1. FreeObjects(q) = FreeObjects(p)
    BY <1>2 DEF FreeObjects
  <2> QED
    BY <1>2, <2>1 DEF ObjInv, Named, SameButLink
<1>5. ShadersCounted(q, U)
  BY <1>2, <1>3 DEF ObjInv, ShadersCounted
<1>6. ProgramsCounted(q, C, X)
  <2>1. ASSUME NEW m \in Names, IsProgram(q, m), m \notin X
        PROVE  /\ q.program[m].refs = Count(Contexts, C, m)
               /\ q.program[m].flagged => q.program[m].refs > 0
               /\ q.program[m].refs > 0 => q.program[m].resolved
    <3>1. /\ p.program[m].refs = Count(Contexts, C, m)
          /\ p.program[m].flagged => p.program[m].refs > 0
          /\ p.program[m].refs > 0 => p.program[m].resolved
      BY <1>2, <2>1 DEF ObjInv, ProgramsCounted
    <3>2. CASE m = n
      BY <2>1, <3>1, <3>2 DEF SameButLink
    <3>3. CASE m # n
      BY <3>1, <3>3 DEF SameButLink
    <3> QED
      BY <3>2, <3>3
  <2> QED
    BY <1>2, <2>1 DEF ObjInv, ProgramsCounted
<1>7. Attached(q) = Attached(p)
  <2>1. ASSUME NEW m \in Names
        PROVE  q.program[m].exists = p.program[m].exists /\ q.program[m].shaders = p.program[m].shaders
    <3>1. CASE m = n
      <4>1. q.program[n].exists \in {TRUE} /\ p.program[n].exists \in {TRUE}
        BY <1>2, ShapedProgram DEF SameButLink, ObjInv, Named, ProgramType
      <4> QED
        BY <1>1, <3>1, <4>1 DEF SameButLink
    <3>2. CASE m # n
      BY <3>2 DEF SameButLink
    <3> QED
      BY <3>1, <3>2
  <2> QED
    BY <2>1 DEF Attached
<1> QED
  BY <1>4, <1>5, <1>6, <1>7 DEF ObjInv

LEMMA LinkedProgram ==
    ASSUME NEW p, NEW n, IsProgram(p, n), NEW q, SameButLink(p, q, n)
    PROVE  IsProgram(q, n) /\ Shaped(q) /\ n \in Names
  BY DEF SameButLink, IsProgram

LEMMA ResolveShadersKeeps ==
    ASSUME NEW p, Shaped(p), NEW n
    PROVE  Shaped(ResolveShaders(p, n)) /\ SameObjects(p, ResolveShaders(p, n))
<1> DEFINE s == ShadersToLink(p, n)
           q == ResolveCompile(p, s[1])
           r == ResolveCompile(q, Last(s))
<1>1. ResolveShaders(p, n) = q \/ ResolveShaders(p, n) = r
  BY DEF ResolveShaders
<1> HIDE DEF s
<1>2. Shaped(q) /\ SameObjects(p, q)
  BY ResolveCompileKeeps
<1> HIDE DEF q
<1>3. Shaped(r) /\ SameObjects(q, r)
  BY <1>2, ResolveCompileKeeps
<1> HIDE DEF r
<1> QED
  BY <1>1, <1>2, <1>3, SameTrans

LEMMA LinkProgramKeeps ==
    ASSUME NEW p, Shaped(p), NEW n, IsProgram(p, n), NEW outcome \in LinkOutcomes
    PROVE  SameButLink(p, LinkProgramObject(p, n, outcome), n)
<1> DEFINE r == ResolveLink(p, n)
           start == [r EXCEPT !.program[n].linked = FALSE]
           a == [r.program[n] EXCEPT !.linked = FALSE]
           q == ResolveShaders(start, n)
           z == [q EXCEPT !.program[n].resolved = FALSE, !.program[n].outcome = outcome]
           b == [q.program[n] EXCEPT !.resolved = FALSE, !.outcome = outcome]
<1>0. LinkProgramObject(p, n, outcome) \in {start, q, z}
  BY DEF LinkProgramObject
<1>1. SameButLink(p, r, n) /\ IsProgram(r, n) /\ Shaped(r) /\ n \in Names
  BY ResolveLinkKeeps, LinkedProgram
<1> HIDE DEF r
<1>2. Rewritten(r, start, n, a) /\ Relinked(r.program[n], a)
  <2>1. r.program[n] \in ProgramType
    BY <1>1, ShapedProgram
  <2>2. Relinked(r.program[n], a)
    BY <2>1 DEF Relinked, ProgramType
  <2>3. Rewritten(r, start, n, a)
    BY <1>1, <2>1 DEF Shaped, Fields, Rewritten, ProgramType
  <2> QED
    BY <2>2, <2>3
<1> HIDE DEF start, a
<1>3. SameButLink(r, start, n)
  BY <1>1, <1>2, ProgramKeeps
<1>4. IsProgram(start, n) /\ Shaped(start)
  BY <1>1, <1>3, LinkedProgram
<1>5. Shaped(q) /\ SameObjects(start, q)
  BY <1>4, ResolveShadersKeeps
<1> HIDE DEF q
<1>6. SameButLink(start, q, n)
  BY <1>4, <1>5, SameIsLink
<1>7. IsProgram(q, n)
  BY <1>4, <1>6, LinkedProgram
<1>8. Rewritten(q, z, n, b) /\ Relinked(q.program[n], b)
  <2>1. q.program[n] \in ProgramType
    BY <1>5, <1>7, ShapedProgram
  <2>2. Relinked(q.program[n], b)
    BY <2>1 DEF Relinked, ProgramType
  <2>3. Rewritten(q, z, n, b)
    BY <1>1, <1>5, <2>1 DEF Shaped, Fields, Rewritten, ProgramType
  <2> QED
    BY <2>2, <2>3
<1> HIDE DEF z, b
<1>9. SameButLink(q, z, n)
  BY <1>5, <1>7, <1>8, ProgramKeeps
<1>10. SameButLink(p, start, n)
  BY <1>1, <1>3, LinkTrans
<1>11. SameButLink(p, q, n)
  BY <1>1, <1>6, <1>10, LinkTrans
<1>12. SameButLink(p, z, n)
  BY <1>1, <1>9, <1>11, LinkTrans
<1> QED
  BY <1>0, <1>10, <1>11, <1>12

\* Context::linkProgram: the link of a program in use is resolved.
LEMMA LinkKeeps ==
    ASSUME NEW p, ObjOK(p), NEW n, IsProgram(p, n), NEW outcome \in LinkOutcomes
    PROVE  ObjOK(Link(p, n, outcome))
<1> DEFINE q == LinkProgramObject(p, n, outcome)
           r == ResolveLink(q, n)
           z == Link(p, n, outcome)
<1>0. Shaped(p)
  BY DEF ObjOK, ObjInv, Named
<1>1. SameButLink(p, q, n) /\ IsProgram(q, n) /\ Shaped(q) /\ n \in Names
  BY <1>0, LinkProgramKeeps, LinkedProgram
<1>2. z = IF q.program[n].refs > 0 THEN r ELSE q
  BY DEF Link
<1> HIDE DEF q, z
<1>3. SameButLink(q, r, n) /\ r.program[n].resolved
  BY <1>1, ResolveLinkKeeps
<1> HIDE DEF r
<1>4. SameButLink(p, r, n)
  BY <1>1, <1>3, LinkTrans
<1>5. SameButLink(p, z, n) /\ (z.program[n].refs > 0 => z.program[n].resolved)
  BY <1>1, <1>2, <1>3, <1>4
<1> DEFINE U == Attached(p)
           C == p.current
<1>6. ObjInv(p, U, C, {}) /\ z.current = C
  BY <1>5 DEF ObjOK, SameButLink
<1> HIDE DEF U, C
<1>7. ObjInv(z, U, C, {}) /\ Attached(z) = Attached(p)
  BY <1>5, <1>6, LinkInv
<1> QED
  BY <1>6, <1>7 DEF ObjOK, U, z

\* Resolving the link of any program.
LEMMA ResolvedKeeps ==
    ASSUME NEW p, NEW U, NEW C, NEW X, ObjInv(p, U, C, X), NEW n, IsProgram(p, n)
    PROVE  /\ ObjInv(ResolveLink(p, n), U, C, X) /\ Attached(ResolveLink(p, n)) = Attached(p)
           /\ SameButLink(p, ResolveLink(p, n), n) /\ ResolveLink(p, n).program[n].resolved
<1> DEFINE r == ResolveLink(p, n)
<1>1. Shaped(p)
  BY DEF ObjInv, Named
<1>2. SameButLink(p, r, n) /\ r.program[n].resolved
  BY <1>1, ResolveLinkKeeps
<1> HIDE DEF r
<1>3. ObjInv(r, U, C, X) /\ Attached(r) = Attached(p)
  BY <1>2, LinkInv
<1> QED
  BY <1>2, <1>3 DEF r

(* The end of a program.                                                   *)

\* U without what the program n names of the types T.
Released(U, T, n) ==
    [t \in Types |-> [m \in Names |-> IF t \in T /\ m = n THEN 0 ELSE U[t][m]]]

Naming == [Types -> [Names -> Names \cup {0}]]

LEMMA ReleaseAttachedKeeps ==
    ASSUME NEW p, NEW U, NEW C, NEW X, NEW T, NEW t \in Types, t \notin T, NEW S, S = T \cup {t},
           NEW n, IsProgram(p, n),
           ObjInv(p, Released(U, T, n), C, X), U \in Naming,
           U[t][n] = p.program[n].shaders[t]
    PROVE  /\ ObjInv(ReleaseAttached(p, n, t), Released(U, S, n), C, X)
           /\ ReleaseAttached(p, n, t).program = p.program /\ ReleaseAttached(p, n, t).current = p.current
<1> DEFINE V == Released(U, T, n)
           W == Released(U, S, n)
           s == p.program[n].shaders[t]
<1>1. n \in Names /\ V[t][n] = s
  BY DEF IsProgram, Released
<1>2. V \in [Types -> [Names -> Names \cup {0}]] /\ W \in [Types -> [Names -> Names \cup {0}]]
  BY DEF Released, Naming
<1>3. \A u \in Types, x \in Names : W[u][x] = IF u = t /\ x = n THEN 0 ELSE V[u][x]
  BY DEF Released
<1>4. ObjInv(p, V, C, X)
  OBVIOUS
<1>5. ReleaseAttached(p, n, t) = IF s = 0 THEN p ELSE ReleaseShader(p, s)
  BY DEF ReleaseAttached
<1> HIDE DEF V, W, s
<1>6. s = 0 => W = V
  <2>1. ASSUME s = 0, NEW u \in Types PROVE W[u] = V[u]
    <3>1. \A x \in Names : W[u][x] = V[u][x]
      BY <1>1, <1>3, <2>1
    <3> QED
      BY <1>2, <3>1
  <2> QED
    BY <1>2, <2>1
<1>7. CASE s = 0
  BY <1>4, <1>5, <1>6, <1>7 DEF V, W
<1>8. CASE s # 0
  <2>1. V[t][n] # 0
    BY <1>1, <1>8
  <2>2. /\ ObjInv(ReleaseShader(p, V[t][n]), W, C, X)
        /\ ReleaseShader(p, V[t][n]).program = p.program /\ ReleaseShader(p, V[t][n]).current = p.current
    BY <1>1, <1>2, <1>3, <1>4, <2>1, ReleaseShaderKeeps
  <2> QED
    BY <1>1, <1>5, <1>8, <2>2 DEF W
<1> QED
  BY <1>7, <1>8

\* The program n has let go of its shaders of the types T.
Letting(p, U, C, X, T, n) ==
    /\ IsProgram(p, n) /\ ObjInv(p, Released(U, T, n), C, X)
    /\ U \in Naming
    /\ \A t \in Types : U[t][n] = p.program[n].shaders[t]

LEMMA LettingKeeps ==
    ASSUME NEW p, NEW U, NEW C, NEW X, NEW T, NEW n, Letting(p, U, C, X, T, n),
           NEW t \in Types, t \notin T, NEW S, S = T \cup {t}
    PROVE  /\ Letting(ReleaseAttached(p, n, t), U, C, X, S, n)
           /\ ReleaseAttached(p, n, t).program = p.program /\ ReleaseAttached(p, n, t).current = p.current
<1> DEFINE q == ReleaseAttached(p, n, t)
<1>1. /\ IsProgram(p, n) /\ ObjInv(p, Released(U, T, n), C, X)
      /\ U \in Naming /\ U[t][n] = p.program[n].shaders[t]
  BY DEF Letting
<1>2. ObjInv(q, Released(U, S, n), C, X) /\ q.program = p.program /\ q.current = p.current
  BY <1>1, ReleaseAttachedKeeps
<1> HIDE DEF q
<1>3. IsProgram(q, n)
  BY <1>1, <1>2 DEF IsProgram
<1>4. Letting(q, U, C, X, S, n)
  BY <1>2, <1>3 DEF Letting
<1> QED
  BY <1>2, <1>4 DEF q

\* Program::onDestroy, but for the name.
LEMMA AllReleased ==
    ASSUME NEW p, NEW U, NEW C, NEW X, NEW n, IsProgram(p, n), ObjInv(p, U, C, X), U = Attached(p)
    PROVE  LET q == ReleaseAttached(ReleaseAttached(ReleaseAttached(p, n, "vertex"), n, "fragment"),
                                    n, "compute")
           IN  /\ ObjInv(q, Released(U, Types, n), C, X)
               /\ q.program = p.program /\ q.current = p.current
<1> DEFINE a == ReleaseAttached(p, n, "vertex")
           b == ReleaseAttached(a, n, "fragment")
           q == ReleaseAttached(b, n, "compute")
           S0 == {}
           S1 == {"vertex"}
           S2 == {"vertex", "fragment"}
<1>0. /\ S1 = S0 \cup {"vertex"} /\ S2 = S1 \cup {"fragment"} /\ Types = S2 \cup {"compute"}
      /\ "vertex" \in Types \ S0 /\ "fragment" \in Types \ S1 /\ "compute" \in Types \ S2
  BY DEF Types
<1>1. U \in [Types -> [Names -> Names \cup {0}]]
  BY DEF ObjInv, ShadersCounted
<1>2. \A t \in Types : U[t][n] = p.program[n].shaders[t]
  BY DEF Attached, IsProgram
<1>3. Released(U, S0, n) = U
  <2>1. \A t \in Types : Released(U, S0, n)[t] = U[t]
    <3>1. ASSUME NEW t \in Types PROVE Released(U, S0, n)[t] = U[t]
      <4>1. U[t] = [m \in Names |-> U[t][m]]
        BY <1>1
      <4> QED
        BY <4>1 DEF Released
    <3> QED
      BY <3>1
  <2>2. U = [t \in Types |-> U[t]]
    BY <1>1
  <2> QED
    BY <2>1, <2>2 DEF Released
<1>4. Letting(p, U, C, X, S0, n)
  BY <1>1, <1>2, <1>3 DEF Letting, Naming
<1> HIDE DEF S0, S1, S2, a, b, q
<1>5. Letting(a, U, C, X, S1, n) /\ a.program = p.program /\ a.current = p.current
  BY <1>0, <1>4, LettingKeeps DEF a
<1>6. Letting(b, U, C, X, S2, n) /\ b.program = a.program /\ b.current = a.current
  BY <1>0, <1>5, LettingKeeps DEF b
<1>7. Letting(q, U, C, X, Types, n) /\ q.program = b.program /\ q.current = b.current
  BY <1>0, <1>6, LettingKeeps DEF q
<1> QED
  BY <1>5, <1>6, <1>7 DEF Letting, q, b, a

\* Program n goes, which no context has.
LEMMA DestroyProgramKeeps ==
    ASSUME NEW p, NEW C, NEW n, IsProgram(p, n), ObjInv(p, Attached(p), C, {n}), \A c \in Contexts : C[c] # n
    PROVE  LET q == DestroyProgram(p, n)
           IN  /\ ObjInv(q, Attached(q), C, {}) /\ q.current = p.current /\ ~IsProgram(q, n)
               /\ \A m \in Names \ {n} : q.program[m] = p.program[m]
<1> DEFINE o == ResolveLink(p, n)
           r == ReleaseAttached(ReleaseAttached(ReleaseAttached(o, n, "vertex"), n, "fragment"), n, "compute")
           q == [r EXCEPT !.program[n] = NoProgram, !.alloc = ReleaseName(@, n)]
           U == Attached(p)
           W == Released(U, Types, n)
<1>1. DestroyProgram(p, n) = q
  BY DEF DestroyProgram
<1>2. ObjInv(o, U, C, {n}) /\ Attached(o) = U /\ SameButLink(p, o, n)
  BY ResolvedKeeps
<1>3. IsProgram(o, n) /\ n \in Names
  BY <1>2, LinkedProgram
<1> HIDE DEF o
<1>4. ObjInv(r, W, C, {n}) /\ r.program = o.program /\ r.current = o.current
  BY <1>2, <1>3, AllReleased
<1> HIDE DEF r
<1>5. IsProgram(r, n) /\ Shaped(r) /\ ~IsShader(r, n)
  BY <1>3, <1>4 DEF IsProgram, ObjInv, Named
<1>6. Fields(q) /\ q.alloc = ReleaseName(r.alloc, n) /\ q.shader = r.shader
      /\ q.current = r.current /\ q.program = [r.program EXCEPT ![n] = NoProgram]
  BY <1>5 DEF Shaped, Fields
<1> HIDE DEF q
<1>7. \A m \in Names : q.program[m] = IF m = n THEN NoProgram ELSE r.program[m]
  BY <1>5, <1>6 DEF Shaped
<1>8. Shaped(q)
  <2>1. q.program \in [Names -> ProgramType \cup {NoProgram}]
    BY <1>5, <1>6 DEF Shaped
  <2> QED
    BY <1>5, <1>6, <2>1 DEF Shaped
<1>9. /\ \A m : IsShader(q, m) <=> IsShader(r, m)
      /\ \A m : IsProgram(q, m) <=> IsProgram(r, m) /\ m # n
  BY <1>3, <1>6, <1>7 DEF IsShader, IsProgram, NoProgram
<1>10. AllocInv(q.alloc, FreeObjects(q))
  <2> DEFINE a == r.alloc
             F == FreeObjects(r)
  <2>1. FreeObjects(q) = F \cup {n} /\ n \in Names \ F
    BY <1>3, <1>5, <1>9 DEF FreeObjects
  <2>2. AllocInv(a, F)
    BY <1>4 DEF ObjInv, Named
  <2> HIDE DEF a, F
  <2>3. AllocInv(ReleaseName(a, n), F \cup {n})
    BY <2>1, <2>2, ReleaseNameKeeps
  <2> QED
    BY <1>6, <2>1, <2>3 DEF a
<1>11. Named(q)
  BY <1>4, <1>8, <1>9, <1>10 DEF Named, ObjInv
<1>12. W = Attached(q)
  <2>1. ASSUME NEW t \in Types, NEW m \in Names
        PROVE  W[t][m] = Attached(q)[t][m]
    <3>1. CASE m = n
      BY <1>3, <1>7, <3>1 DEF Released, Attached, NoProgram
    <3>2. CASE m # n
      <4>1. q.program[m] = p.program[m]
        BY <1>2, <1>4, <1>7, <3>2 DEF SameButLink
      <4> QED
        BY <3>2, <4>1 DEF Released, Attached
    <3> QED
      BY <3>1, <3>2
  <2>2. ASSUME NEW t \in Types PROVE W[t] = Attached(q)[t]
    <3>1. W[t] = [m \in Names |-> W[t][m]] /\ Attached(q)[t] = [m \in Names |-> Attached(q)[t][m]]
      BY DEF Released, Attached
    <3> QED
      BY <2>1, <3>1
  <2>3. W = [t \in Types |-> W[t]] /\ Attached(q) = [t \in Types |-> Attached(q)[t]]
    BY DEF Released, Attached
  <2> QED
    BY <2>2, <2>3
<1>13. ShadersCounted(q, W)
  BY <1>4, <1>6, <1>9 DEF ObjInv, ShadersCounted
<1>14. ProgramsCounted(q, C, {})
  <2>1. \A c \in Contexts : C[c] # 0 => IsProgram(q, C[c])
    BY <1>4, <1>9 DEF ObjInv, ProgramsCounted
  <2>2. \A m \in Names : IsProgram(q, m) => m \notin {n} /\ IsProgram(r, m) /\ q.program[m] = r.program[m]
    BY <1>7, <1>9
  <2> QED
    BY <1>4, <2>1, <2>2 DEF ObjInv, ProgramsCounted
<1>15. \A m \in Names \ {n} : q.program[m] = p.program[m]
  BY <1>2, <1>4, <1>7 DEF SameButLink
<1>16. q.current = p.current /\ ~IsProgram(q, n)
  BY <1>2, <1>4, <1>6, <1>9 DEF SameButLink
<1> QED
  BY <1>1, <1>11, <1>12, <1>13, <1>14, <1>15, <1>16 DEF ObjInv

(* The references of programs.                                             *)

\* The program n becomes r.
Changed(p, q, n, r) ==
    /\ Shaped(q) /\ q.alloc = p.alloc /\ q.shader = p.shader
    /\ q.program[n] = r /\ r.exists /\ r.shaders = p.program[n].shaders
    /\ \A m \in Names \ {n} : q.program[m] = p.program[m]

Currents == [Contexts -> Names \cup {0}]

\* The references D of programs but n are those of C.
SameCounts(C, D, n) ==
    \A m \in Names \ {n} : Count(Contexts, D, m) = Count(Contexts, C, m)

ProperRefs(r, D, n) ==
    /\ r.refs = Count(Contexts, D, n)
    /\ r.flagged => r.refs > 0
    /\ r.refs > 0 => r.resolved

LEMMA ChangedInv ==
    ASSUME NEW p, NEW U, NEW C, ObjInv(p, U, C, {}), NEW n, IsProgram(p, n), NEW q, NEW r, Changed(p, q, n, r),
           NEW D \in Currents, \A c \in Contexts : D[c] # 0 => IsProgram(p, D[c]),
           SameCounts(C, D, n), NEW Y, Y = {n} \/ (Y = {} /\ ProperRefs(r, D, n))
    PROVE  ObjInv(q, U, D, Y) /\ Attached(q) = Attached(p)
<1>1. n \in Names /\ p.program[n].exists /\ p.program[n] \in ProgramType
  BY ShapedProgram DEF ObjInv, Named
<1>2. \A m : (IsShader(q, m) <=> IsShader(p, m)) /\ (IsProgram(q, m) <=> IsProgram(p, m))
  BY <1>1 DEF IsShader, IsProgram, Changed
<1>3. Named(q)
  <2>1. FreeObjects(q) = FreeObjects(p)
    BY <1>2 DEF FreeObjects
  <2> QED
    BY <1>2, <2>1 DEF ObjInv, Named, Changed
<1>4. ShadersCounted(q, U)
  BY <1>2 DEF ObjInv, ShadersCounted, Changed
<1>5. ProgramsCounted(q, D, Y)
  <2>1. ASSUME NEW m \in Names, IsProgram(q, m), m \notin Y
        PROVE  ProperRefs(q.program[m], D, m)
    <3>1. CASE m = n
      BY <2>1, <3>1 DEF Changed
    <3>2. CASE m # n
      <4>1. ProperRefs(p.program[m], C, m)
        BY <1>2, <2>1 DEF ObjInv, ProgramsCounted, ProperRefs
      <4>2. q.program[m] = p.program[m] /\ Count(Contexts, D, m) = Count(Contexts, C, m)
        BY <3>2 DEF Changed, SameCounts
      <4> QED
        BY <4>1, <4>2 DEF ProperRefs
    <3> QED
      BY <3>1, <3>2
  <2> QED
    BY <1>2, <2>1 DEF ProgramsCounted, ProperRefs, Currents
<1>6. Attached(q) = Attached(p)
  <2>1. ASSUME NEW m \in Names
        PROVE  q.program[m].exists = p.program[m].exists /\ q.program[m].shaders = p.program[m].shaders
    <3>1. CASE m = n
      <4>1. q.program[n].exists \in {TRUE} /\ p.program[n].exists \in {TRUE}
        BY <1>1, <1>2, ShapedProgram DEF Changed, ProgramType
      <4> QED
        BY <1>1, <3>1, <4>1 DEF Changed
    <3>2. CASE m # n
      BY <3>2 DEF Changed
    <3> QED
      BY <3>1, <3>2
  <2> QED
    BY <2>1 DEF Attached
<1> QED
  BY <1>3, <1>4, <1>5, <1>6 DEF ObjInv

\* A context leaves a program, or takes one.
LEMMA Leaves ==
    ASSUME NEW C \in Currents, NEW c \in Contexts, C[c] # 0, NEW D, IsUpdate(D, C, c, 0)
    PROVE  /\ D \in Currents /\ D[c] = 0 /\ \A x \in Contexts : D[x] # 0 => D[x] = C[x]
           /\ SameCounts(C, D, C[c])
           /\ Count(Contexts, C, C[c]) \in Nat \ {0}
           /\ Count(Contexts, D, C[c]) = Count(Contexts, C, C[c]) - 1
<1>1. D = [C EXCEPT ![c] = 0]
  BY DEF IsUpdate
<1>2. D \in Currents /\ D[c] = 0 /\ \A x \in Contexts : D[x] # 0 => D[x] = C[x]
  BY <1>1 DEF Currents
<1> DEFINE n == C[c]
           zero == 0
           W == Names \cup {0}
<1>3. n \in Names /\ n # zero
  BY DEF Currents
<1>4. IsUpdate(D, C, c, zero) /\ C \in [Contexts -> W]
  BY DEF Currents
<1> HIDE DEF zero, W, n
<1>5. \A m : Count(Contexts, D, m) = (Count(Contexts, C, m) - (IF C[c] = m THEN 1 ELSE 0))
                                        + (IF zero = m THEN 1 ELSE 0)
  BY <1>4, CountChange, SetsFinite
<1>6. \A m : Count(Contexts, C, m) \in Nat
  BY CountNat, SetsFinite
<1>7. Count(Contexts, C, n) # 0
  BY CountNat, SetsFinite DEF n
<1>8. ASSUME NEW m \in Names \ {n} PROVE Count(Contexts, D, m) = Count(Contexts, C, m)
  <2> DEFINE k == Count(Contexts, C, m)
  <2>1. k \in Nat /\ C[c] # m /\ zero # m
    BY <1>6, <1>8, SetsFinite DEF n, zero
  <2>2. Count(Contexts, D, m) = (k - 0) + 0
    BY <1>5, <2>1
  <2> HIDE DEF k
  <2>3. Count(Contexts, D, m) = k
    BY <2>1, <2>2
  <2> QED
    BY <2>3 DEF k
<1>9. Count(Contexts, D, n) = Count(Contexts, C, n) - 1
  <2> DEFINE k == Count(Contexts, C, n)
  <2>1. k \in Nat \ {0} /\ C[c] = n
    BY <1>6, <1>7 DEF n
  <2>2. Count(Contexts, D, n) = (k - 1) + 0
    BY <1>3, <1>5, <2>1
  <2> HIDE DEF k
  <2>3. Count(Contexts, D, n) = k - 1
    BY <2>1, <2>2
  <2> QED
    BY <2>3 DEF k
<1> QED
  BY <1>2, <1>6, <1>7, <1>8, <1>9 DEF SameCounts, n

LEMMA CurrentMoved ==
    ASSUME NEW C \in Currents, NEW c \in Contexts, NEW w, NEW D, IsUpdate(D, C, c, w)
    PROVE  \A m : Count(Contexts, D, m) = (Count(Contexts, C, m) - (IF C[c] = m THEN 1 ELSE 0))
                                             + (IF w = m THEN 1 ELSE 0)
<1> DEFINE W == Names \cup {0}
<1>1. C \in [Contexts -> W] /\ IsFiniteSet(Contexts)
  BY SetsFinite DEF Currents
<1> HIDE DEF W
<1> QED
  BY <1>1, CountChange

LEMMA Takes ==
    ASSUME NEW C \in Currents, NEW c \in Contexts, C[c] = 0, NEW n \in Names, NEW D, IsUpdate(D, C, c, n)
    PROVE  /\ D \in Currents /\ D[c] = n /\ \A x \in Contexts : D[x] # 0 => D[x] = n \/ D[x] = C[x]
           /\ SameCounts(C, D, n)
           /\ Count(Contexts, C, n) \in Nat
           /\ Count(Contexts, D, n) = Count(Contexts, C, n) + 1
<1>1. D = [C EXCEPT ![c] = n]
  BY DEF IsUpdate
<1>2. D \in Currents /\ D[c] = n /\ \A x \in Contexts : D[x] # 0 => D[x] = n \/ D[x] = C[x]
  BY <1>1 DEF Currents
<1> DEFINE W == Names \cup {0}
<1>4. C \in [Contexts -> W] /\ n # 0 /\ IsFiniteSet(Contexts)
  BY SetsFinite DEF Currents
<1> HIDE DEF W
<1>5. \A m : Count(Contexts, D, m) = (Count(Contexts, C, m) - (IF C[c] = m THEN 1 ELSE 0))
                                        + (IF n = m THEN 1 ELSE 0)
  BY CurrentMoved
<1>6. \A m : Count(Contexts, C, m) \in Nat
  BY CountNat, SetsFinite
<1>8. ASSUME NEW m \in Names \ {n} PROVE Count(Contexts, D, m) = Count(Contexts, C, m)
  <2> DEFINE k == Count(Contexts, C, m)
  <2>1. k \in Nat /\ C[c] # m /\ n # m
    BY <1>6, <1>8, SetsFinite
  <2>2. Count(Contexts, D, m) = (k - 0) + 0
    BY <1>5, <2>1
  <2> HIDE DEF k
  <2>3. Count(Contexts, D, m) = k
    BY <2>1, <2>2
  <2> QED
    BY <2>3 DEF k
<1>9. Count(Contexts, D, n) = Count(Contexts, C, n) + 1
  <2> DEFINE k == Count(Contexts, C, n)
  <2>1. k \in Nat /\ C[c] # n
    BY <1>4, <1>6
  <2>2. Count(Contexts, D, n) = (k - 0) + 1
    BY <1>5, <2>1
  <2> HIDE DEF k
  <2>3. Count(Contexts, D, n) = k + 1
    BY <2>1, <2>2
  <2> QED
    BY <2>3 DEF k
<1> QED
  BY <1>2, <1>6, <1>8, <1>9 DEF SameCounts

LEMMA OKInv ==
    ASSUME NEW p, ObjOK(p)
    PROVE  /\ ObjInv(p, Attached(p), p.current, {}) /\ Shaped(p) /\ p.current \in Currents
           /\ \A c \in Contexts : p.current[c] # 0 => IsProgram(p, p.current[c])
           /\ \A n \in Names : IsProgram(p, n) => ProperRefs(p.program[n], p.current, n)
  BY DEF ObjOK, ObjInv, Named, ProgramsCounted, Currents, ProperRefs

\* A state in which the program n has become r.
LEMMA RewrittenChanges ==
    ASSUME NEW p, Shaped(p), NEW n, IsProgram(p, n), NEW q, NEW r \in ProgramType, Fields(q),
           q.alloc = p.alloc, q.shader = p.shader, q.program = [p.program EXCEPT ![n] = r],
           q.current \in Currents, r.shaders = p.program[n].shaders
    PROVE  Changed(p, q, n, r)
<1>1. n \in Names /\ p.program \in [Names -> ProgramType \cup {NoProgram}] /\ r.exists
  BY ShapedProgram DEF Shaped, ProgramType
<1>2. q.program[n] = r /\ \A m \in Names \ {n} : q.program[m] = p.program[m]
  BY <1>1
<1>3. q.program \in [Names -> ProgramType \cup {NoProgram}]
  BY <1>1
<1>4. Shaped(q)
  BY <1>3 DEF Shaped, Currents
<1> QED
  BY <1>1, <1>2, <1>4 DEF Changed

\* ShaderProgramManager::deleteProgram
LEMMA DeleteProgramKeeps ==
    ASSUME NEW p, ObjOK(p), NEW n, IsProgram(p, n)
    PROVE  ObjOK(DeleteProgramObject(p, n))
<1> DEFINE C == p.current
           U == Attached(p)
           z == DeleteProgramObject(p, n)
<1>1. ObjInv(p, U, C, {}) /\ Shaped(p) /\ C \in Currents /\ n \in Names
      /\ (\A c \in Contexts : C[c] # 0 => IsProgram(p, C[c])) /\ ProperRefs(p.program[n], C, n)
  BY OKInv DEF IsProgram
<1>2. CASE p.program[n].refs = 0
  <2>1. z = DestroyProgram(p, n)
    BY <1>2 DEF DeleteProgramObject
  <2>2. \A c \in Contexts : C[c] # n
    <3>1. Count(Contexts, C, n) = 0
      BY <1>1, <1>2 DEF ProperRefs
    <3> HIDE DEF C
    <3> QED
      BY <3>1, CountNat, SetsFinite
  <2>3. ObjInv(p, U, C, {n})
    BY <1>1 DEF ObjInv, ProgramsCounted
  <2> HIDE DEF C
  <2>4. ObjInv(DestroyProgram(p, n), Attached(DestroyProgram(p, n)), C, {})
        /\ DestroyProgram(p, n).current = p.current
    BY <2>2, <2>3, DestroyProgramKeeps
  <2> QED
    BY <2>1, <2>4 DEF C, ObjOK
<1>3. CASE p.program[n].refs # 0
  <2> DEFINE q == ResolveLink(p, n)
             r == [q.program[n] EXCEPT !.flagged = TRUE]
  <2>1. z = [q EXCEPT !.program[n].flagged = TRUE]
    BY <1>3 DEF DeleteProgramObject
  <2>2. ObjInv(q, U, C, {}) /\ Attached(q) = U /\ SameButLink(p, q, n) /\ q.program[n].resolved
    BY <1>1, ResolvedKeeps
  <2> HIDE DEF q, z, U, C
  <2>3. IsProgram(q, n) /\ Shaped(q) /\ q.current = C
    BY <2>2, LinkedProgram DEF SameButLink, C
  <2>4. q.program[n] \in ProgramType /\ n \in Names
    BY <2>3, ShapedProgram
  <2>5. r \in ProgramType /\ r.shaders = q.program[n].shaders /\ r.refs = q.program[n].refs /\ r.resolved
    BY <2>2, <2>4 DEF ProgramType
  <2>6. Fields(z) /\ z.alloc = q.alloc /\ z.shader = q.shader /\ z.program = [q.program EXCEPT ![n] = r]
        /\ z.current = q.current
    BY <2>1, <2>3, <2>4 DEF Shaped, Fields
  <2>7. ProperRefs(r, C, n)
    <3>1. q.program[n].refs = p.program[n].refs /\ p.program[n].refs \in Nat
      BY <2>2, <2>4 DEF SameButLink, ProgramType
    <3> HIDE DEF r
    <3> QED
      BY <1>1, <1>3, <2>5, <3>1 DEF ProperRefs
  <2> HIDE DEF r
  <2>8. Changed(q, z, n, r)
    BY <1>1, <2>3, <2>5, <2>6, RewrittenChanges
  <2>9. \A c \in Contexts : C[c] # 0 => IsProgram(q, C[c])
    BY <2>2 DEF ObjInv, ProgramsCounted
  <2>10. ObjInv(z, U, C, {}) /\ Attached(z) = Attached(q)
    <3>1. SameCounts(C, C, n)
      BY DEF SameCounts
    <3> QED
      BY <1>1, <2>2, <2>3, <2>7, <2>8, <2>9, <3>1, ChangedInv
  <2> QED
    BY <2>2, <2>3, <2>6, <2>10 DEF ObjOK, z
<1> QED
  BY <1>2, <1>3

\* The context c has let go of the program n, and D is what contexts have then.
LEMMA ReleaseProgramKeeps ==
    ASSUME NEW p, NEW C \in Currents, ObjInv(p, Attached(p), C, {}), NEW c \in Contexts, C[c] # 0,
           NEW D, IsUpdate(D, C, c, 0), p.current = D
    PROVE  LET z == ReleaseProgram(p, C[c])
           IN  /\ ObjOK(z) /\ z.current = D
               /\ \A m \in Names \ {C[c]} : z.program[m] = p.program[m]
<1> DEFINE n == C[c]
           U == Attached(p)
           z == ReleaseProgram(p, n)
           N == Count(Contexts, C, n)
<1>1. IsProgram(p, n) /\ Shaped(p) /\ ProperRefs(p.program[n], C, n) /\ n \in Names
      /\ \A x \in Contexts : C[x] # 0 => IsProgram(p, C[x])
  BY DEF ObjInv, Named, ProgramsCounted, ProperRefs, Currents, IsProgram
<1>2. /\ D \in Currents /\ D[c] = 0 /\ \A x \in Contexts : D[x] # 0 => D[x] = C[x]
      /\ SameCounts(C, D, n) /\ N \in Nat \ {0} /\ Count(Contexts, D, n) = N - 1
  BY Leaves
<1>3. p.program[n] \in ProgramType /\ p.program[n].refs = N
  BY <1>1, ShapedProgram DEF ProperRefs
<1>4. \A x \in Contexts : D[x] # 0 => IsProgram(p, D[x])
  BY <1>1, <1>2
<1>5. ObjInv(p, U, C, {})
  OBVIOUS
<1> HIDE DEF U
<1>6. CASE p.program[n].refs = 1 /\ p.program[n].flagged
  <2> DEFINE q == [p EXCEPT !.program[n].refs = 0]
             r == [p.program[n] EXCEPT !.refs = 0]
  <2>1. z = DestroyProgram(q, n)
    BY <1>6 DEF ReleaseProgram
  <2>2. r \in ProgramType /\ r.shaders = p.program[n].shaders
    BY <1>3 DEF ProgramType
  <2>3. Fields(q) /\ q.alloc = p.alloc /\ q.shader = p.shader /\ q.program = [p.program EXCEPT ![n] = r]
        /\ q.current = p.current
    BY <1>1, <1>3 DEF Shaped, Fields
  <2> HIDE DEF q, r, z, n, N
  <2>4. Changed(p, q, n, r)
    BY <1>1, <1>2, <2>2, <2>3, RewrittenChanges
  <2>5. ObjInv(q, U, D, {n}) /\ Attached(q) = Attached(p)
    BY <1>1, <1>2, <1>4, <1>5, <2>4, ChangedInv
  <2>6. \A x \in Contexts : D[x] # n
    <3>1. Count(Contexts, D, n) = 0
      BY <1>2, <1>3, <1>6
    <3> QED
      BY <3>1, CountNat, SetsFinite
  <2>7. IsProgram(q, n) /\ ObjInv(q, Attached(q), D, {n})
    BY <1>1, <2>4, <2>5 DEF Changed, IsProgram, U
  <2>8. ObjInv(z, Attached(z), D, {}) /\ z.current = q.current
        /\ \A m \in Names \ {n} : z.program[m] = q.program[m]
    BY <2>1, <2>6, <2>7, DestroyProgramKeeps
  <2>9. \A m \in Names \ {n} : z.program[m] = p.program[m]
    BY <2>4, <2>8 DEF Changed
  <2> QED
    BY <2>3, <2>8, <2>9 DEF ObjOK, z, n
<1>7. CASE ~(p.program[n].refs = 1 /\ p.program[n].flagged)
  <2> DEFINE r == [p.program[n] EXCEPT !.refs = N - 1]
  <2>1. z = [p EXCEPT !.program[n].refs = N - 1]
    <3>1. z = [p EXCEPT !.program[n].refs = p.program[n].refs - 1]
      BY <1>1, <1>3, <1>7 DEF ReleaseProgram, Shaped, Fields, ProgramType
    <3> QED
      BY <1>3, <3>1
  <2>2. r \in ProgramType /\ r.shaders = p.program[n].shaders /\ r.refs = N - 1
        /\ r.flagged = p.program[n].flagged /\ r.resolved = p.program[n].resolved
    <3>1. N - 1 \in Nat
      BY <1>2
    <3> HIDE DEF N
    <3> QED
      BY <1>3, <3>1 DEF ProgramType
  <2> HIDE DEF z, n, N
  <2>3. Fields(z) /\ z.alloc = p.alloc /\ z.shader = p.shader /\ z.program = [p.program EXCEPT ![n] = r]
        /\ z.current = p.current
    BY <1>1, <1>3, <2>1 DEF Shaped, Fields
  <2> HIDE DEF r
  <2>4. Changed(p, z, n, r)
    BY <1>1, <1>2, <2>2, <2>3, RewrittenChanges
  <2>5. ProperRefs(r, D, n)
    BY <1>1, <1>2, <1>3, <1>7, <2>2 DEF ProperRefs
  <2>6. ObjInv(z, U, D, {}) /\ Attached(z) = Attached(p)
    BY <1>1, <1>2, <1>4, <1>5, <2>4, <2>5, ChangedInv
  <2>7. \A m \in Names \ {n} : z.program[m] = p.program[m]
    BY <2>4 DEF Changed
  <2> QED
    BY <2>3, <2>6, <2>7 DEF ObjOK, z, n, U
<1> QED
  BY <1>6, <1>7

\* A change of what contexts have keeps the rest.
LEMMA CurrentKeeps ==
    ASSUME NEW p, Shaped(p), NEW q, Fields(q), q.alloc = p.alloc, q.shader = p.shader,
           q.program = p.program, q.current \in Currents
    PROVE  /\ Shaped(q) /\ Attached(q) = Attached(p)
           /\ \A U, C, X : ObjInv(p, U, C, X) => ObjInv(q, U, C, X)
<1>1. Shaped(q)
  BY DEF Shaped, Currents
<1>2. \A n : (IsShader(q, n) <=> IsShader(p, n)) /\ (IsProgram(q, n) <=> IsProgram(p, n))
  BY DEF IsShader, IsProgram
<1>3. FreeObjects(q) = FreeObjects(p)
  BY <1>2 DEF FreeObjects
<1>4. Named(p) => Named(q)
  BY <1>1, <1>2, <1>3 DEF Named
<1>5. \A U : ShadersCounted(p, U) => ShadersCounted(q, U)
  BY <1>2 DEF ShadersCounted
<1>6. \A C, X : ProgramsCounted(p, C, X) => ProgramsCounted(q, C, X)
  BY <1>2 DEF ProgramsCounted
<1> QED
  BY <1>1, <1>4, <1>5, <1>6 DEF ObjInv, Attached

LEMMA LeaveKeeps ==
    ASSUME NEW p, ObjOK(p), NEW c \in Contexts
    PROVE  LET z == LeaveProgram(p, c)
           IN  /\ ObjOK(z) /\ IsUpdate(z.current, p.current, c, 0)
               /\ \A m \in Names : m # p.current[c] => z.program[m] = p.program[m]
<1> DEFINE C == p.current
           n == C[c]
           D == [C EXCEPT ![c] = 0]
           z == LeaveProgram(p, c)
           q == [p EXCEPT !.current[c] = 0]
<1>1. ObjInv(p, Attached(p), C, {}) /\ Shaped(p) /\ C \in Currents
  BY OKInv
<1>2. IsUpdate(D, C, c, 0) /\ D \in Currents
  BY <1>1 DEF IsUpdate, Currents
<1>3. CASE n = 0
  <2>1. z = p
    BY <1>3 DEF LeaveProgram
  <2>2. D = C
    BY <1>1, <1>3 DEF Currents
  <2> QED
    BY <1>2, <2>1, <2>2
<1>4. CASE n # 0
  <2>1. z = ReleaseProgram(q, n)
    BY <1>4 DEF LeaveProgram
  <2>2. Fields(q) /\ q.alloc = p.alloc /\ q.shader = p.shader /\ q.program = p.program /\ q.current = D
    BY <1>1 DEF Shaped, Fields
  <2> HIDE DEF q, z, D
  <2>3. Shaped(q) /\ Attached(q) = Attached(p) /\ \A U, E, X : ObjInv(p, U, E, X) => ObjInv(q, U, E, X)
    BY <1>1, <1>2, <2>2, CurrentKeeps
  <2>4. ObjInv(q, Attached(q), C, {})
    BY <1>1, <2>3
  <2> HIDE DEF C
  <2>5. /\ ObjOK(ReleaseProgram(q, C[c])) /\ ReleaseProgram(q, C[c]).current = D
        /\ \A m \in Names \ {C[c]} : ReleaseProgram(q, C[c]).program[m] = q.program[m]
    BY <1>1, <1>2, <1>4, <2>2, <2>4, ReleaseProgramKeeps
  <2> QED
    BY <1>2, <2>1, <2>2, <2>5 DEF C, z
<1> QED
  BY <1>3, <1>4

\* State::setProgram
LEMMA SetProgramKeeps ==
    ASSUME NEW p, ObjOK(p), NEW c \in Contexts, NEW n,
           n = 0 \/ (IsProgram(p, n) /\ p.program[n].resolved)
    PROVE  ObjOK(SetProgram(p, c, n))
<1> DEFINE q == LeaveProgram(p, c)
           z == SetProgram(p, c, n)
<1>1. CASE p.current[c] = n
  BY <1>1 DEF SetProgram
<1>2. CASE p.current[c] # n
  <2>1. z = IF n = 0 THEN q ELSE [q EXCEPT !.current[c] = n, !.program[n].refs = @ + 1]
    BY <1>2 DEF SetProgram
  <2>2. ObjOK(q) /\ IsUpdate(q.current, p.current, c, 0)
        /\ \A m \in Names : m # p.current[c] => q.program[m] = p.program[m]
    BY LeaveKeeps
  <2>3. CASE n = 0
    BY <2>1, <2>2, <2>3
  <2>4. CASE n # 0
    <3> HIDE DEF q, z
    <3> DEFINE C == q.current
               D == [C EXCEPT ![c] = n]
               U == Attached(q)
               r == [q.program[n] EXCEPT !.refs = @ + 1]
               t == [q EXCEPT !.program[n].refs = @ + 1]
    <3>1. /\ ObjInv(q, U, C, {}) /\ Shaped(q) /\ C \in Currents
          /\ \A x \in Contexts : C[x] # 0 => IsProgram(q, C[x])
          /\ \A m \in Names : IsProgram(q, m) => ProperRefs(q.program[m], C, m)
      BY <2>2, OKInv
    <3>2. n \in Names /\ q.program[n] = p.program[n] /\ q.program[n].resolved /\ IsProgram(q, n)
      BY <1>2, <2>2, <2>4 DEF IsProgram
    <3>3. C[c] = 0
      <4>1. p.current \in Currents
        BY OKInv
      <4> QED
        BY <2>2, <4>1 DEF IsUpdate, Currents
    <3>4. IsUpdate(D, C, c, n)
      BY DEF IsUpdate
    <3>5. q.program[n] \in ProgramType
      BY <3>1, <3>2, ShapedProgram
    <3>6. r \in ProgramType /\ r.shaders = q.program[n].shaders /\ r.refs = q.program[n].refs + 1
          /\ r.flagged = q.program[n].flagged /\ r.resolved
      <4>0. q.program[n].refs \in Nat
        BY <3>5 DEF ProgramType
      <4>1. q.program[n].refs + 1 \in Nat
        BY <4>0
      <4> QED
        BY <3>2, <3>5, <4>1 DEF ProgramType
    <3>7. Fields(z) /\ z.alloc = q.alloc /\ z.shader = q.shader /\ z.program = [q.program EXCEPT ![n] = r]
          /\ z.current = D
      BY <2>1, <2>4, <3>1, <3>2 DEF Shaped, Fields
    <3> HIDE DEF C, D, U, r
    <3>8. /\ D \in Currents /\ D[c] = n /\ \A x \in Contexts : D[x] # 0 => D[x] = n \/ D[x] = C[x]
          /\ SameCounts(C, D, n) /\ Count(Contexts, C, n) \in Nat
          /\ Count(Contexts, D, n) = Count(Contexts, C, n) + 1
      BY <3>1, <3>2, <3>3, <3>4, Takes
    <3>9. Changed(q, z, n, r)
      BY <3>1, <3>2, <3>6, <3>7, <3>8, RewrittenChanges
    <3>10. ProperRefs(r, D, n)
      <4>1. q.program[n].refs = Count(Contexts, C, n)
        BY <3>1, <3>2 DEF ProperRefs
      <4> DEFINE k == Count(Contexts, C, n)
      <4>2. k \in Nat /\ r.refs = k + 1 /\ Count(Contexts, D, n) = k + 1
        BY <3>6, <3>8, <4>1
      <4> HIDE DEF k
      <4> QED
        BY <3>6, <4>2 DEF ProperRefs
    <3>11. \A x \in Contexts : D[x] # 0 => IsProgram(q, D[x])
      BY <3>1, <3>2, <3>8
    <3>12. ObjInv(z, U, D, {}) /\ Attached(z) = Attached(q)
      BY <3>1, <3>2, <3>8, <3>9, <3>10, <3>11, ChangedInv
    <3> QED
      BY <3>7, <3>12 DEF ObjOK, U, z
  <2> QED
    BY <2>3, <2>4
<1> QED
  BY <1>1, <1>2

(* Shaders and their references.                                           *)

\* The shader s becomes o.
ShaderChanged(p, q, s, o) ==
    /\ Fields(q) /\ q.alloc = p.alloc /\ q.program = p.program /\ q.current = p.current
    /\ q.shader = [p.shader EXCEPT ![s] = o] /\ ShaderShape(o) /\ o.type = p.shader[s].type

ShaderRefs(o, f, s) == o.refs = Count(Names, f, s) /\ (o.flagged => o.refs > 0)

LEMMA ShaderChangedInv ==
    ASSUME NEW p, NEW U, NEW C, NEW X, ObjInv(p, U, C, X), NEW s, IsShader(p, s), NEW q, NEW o,
           ShaderChanged(p, q, s, o), NEW V \in Naming,
           \A u \in Types, x \in Names : V[u][x] = U[u][x] \/ (V[u][x] = s /\ u = o.type),
           \A u \in Types, n \in Names \ {s} : Count(Names, V[u], n) = Count(Names, U[u], n),
           ShaderRefs(o, V[o.type], s)
    PROVE  ObjInv(q, V, C, X) /\ q.program = p.program /\ q.current = p.current
           /\ Attached(q) = Attached(p) /\ \A n : IsShader(q, n) <=> IsShader(p, n)
<1>1. s \in Names /\ Shaped(p) /\ ShaderShape(p.shader[s]) /\ o.exists
  BY ShapedShader DEF ObjInv, Named, ShaderChanged, ShaderShape
<1>2. \A n \in Names : q.shader[n] = IF n = s THEN o ELSE p.shader[n]
  BY <1>1 DEF Shaped, ShaderChanged
<1>3. q.shader = [n \in Names |-> q.shader[n]]
  BY <1>1 DEF Shaped, ShaderChanged
<1>4. Shaped(q)
  BY <1>1, <1>2, <1>3 DEF Shaped, ShaderChanged
<1>5. /\ \A n : IsShader(q, n) <=> IsShader(p, n)
      /\ \A n : IsProgram(q, n) <=> IsProgram(p, n)
  BY <1>1, <1>2 DEF IsShader, IsProgram, ShaderChanged
<1>6. FreeObjects(q) = FreeObjects(p)
  BY <1>5 DEF FreeObjects
<1>7. Named(q)
  BY <1>4, <1>5, <1>6 DEF ObjInv, Named, ShaderChanged
<1>8. \A n \in Names : q.shader[n].type = p.shader[n].type
  BY <1>2 DEF ShaderChanged
<1>9. ShadersCounted(q, V)
  <2>1. ASSUME NEW u \in Types, NEW x \in Names, V[u][x] # 0
        PROVE  IsShader(q, V[u][x]) /\ q.shader[V[u][x]].type = u
    <3>1. CASE V[u][x] = s /\ u = o.type
      BY <1>1, <1>2, <1>5, <3>1
    <3>2. CASE V[u][x] = U[u][x]
      <4>1. IsShader(p, U[u][x]) /\ p.shader[U[u][x]].type = u
        BY <2>1, <3>2 DEF ObjInv, ShadersCounted
      <4> QED
        BY <1>5, <1>8, <3>2, <4>1 DEF IsShader
    <3> QED
      BY <3>1, <3>2
  <2>2. ASSUME NEW n \in Names, IsShader(q, n)
        PROVE  ShaderRefs(q.shader[n], V[q.shader[n].type], n)
    <3>1. CASE n = s
      BY <1>2, <3>1
    <3>2. CASE n # s
      <4> DEFINE u == p.shader[n].type
      <4>1. IsShader(p, n) /\ q.shader[n] = p.shader[n]
        BY <1>2, <1>5, <2>2, <3>2
      <4>2. u \in Types
        BY <1>1, <4>1, ShapedShader DEF ShaderShape
      <4>3. ShaderRefs(p.shader[n], U[u], n)
        BY <4>1 DEF ObjInv, ShadersCounted, ShaderRefs
      <4>4. Count(Names, V[u], n) = Count(Names, U[u], n)
        BY <3>2, <4>2
      <4> QED
        BY <4>1, <4>3, <4>4 DEF ShaderRefs
    <3> QED
      BY <3>1, <3>2
  <2> QED
    BY <2>1, <2>2 DEF ShadersCounted, Naming, ShaderRefs
<1>10. ProgramsCounted(q, C, X)
  BY <1>5 DEF ObjInv, ProgramsCounted, ShaderChanged
<1> QED
  BY <1>5, <1>7, <1>9, <1>10 DEF ObjInv, Attached, ShaderChanged

LEMMA ShaderInv ==
    ASSUME NEW p, NEW U, NEW C, NEW X, ObjInv(p, U, C, X), NEW s, IsShader(p, s)
    PROVE  /\ s \in Names /\ Shaped(p) /\ U \in Naming
           /\ ShaderShape(p.shader[s]) /\ p.shader[s].type \in Types /\ p.shader[s].refs \in Nat
           /\ ShaderRefs(p.shader[s], U[p.shader[s].type], s)
           /\ \A u \in Types, x \in Names : U[u][x] = s => u = p.shader[s].type
<1>1. s \in Names /\ Shaped(p) /\ U \in Naming /\ ShaderShape(p.shader[s])
  BY ShapedShader DEF ObjInv, Named, ShadersCounted, Naming
<1>2. p.shader[s].type \in Types /\ p.shader[s].refs \in Nat
  BY <1>1 DEF ShaderShape
<1>3. ShaderRefs(p.shader[s], U[p.shader[s].type], s)
  BY <1>1 DEF ObjInv, ShadersCounted, ShaderRefs
<1>4. s # 0
  BY <1>1, SetsFinite
<1>5. \A u \in Types, x \in Names : U[u][x] = s => u = p.shader[s].type
  BY <1>4 DEF ObjInv, ShadersCounted
<1> QED
  BY <1>1, <1>2, <1>3, <1>5

\* ShaderProgramManager::deleteShader
LEMMA DeleteShaderKeeps ==
    ASSUME NEW p, ObjOK(p), NEW s, IsShader(p, s)
    PROVE  ObjOK(DeleteShaderObject(p, s))
<1> DEFINE U == Attached(p)
           C == p.current
           z == DeleteShaderObject(p, s)
           t == p.shader[s].type
<1>1. ObjInv(p, U, C, {})
  BY DEF ObjOK
<1> HIDE DEF U, C
<1>2. /\ s \in Names /\ Shaped(p) /\ U \in Naming /\ ShaderShape(p.shader[s]) /\ t \in Types
      /\ p.shader[s].refs \in Nat /\ ShaderRefs(p.shader[s], U[t], s)
      /\ \A u \in Types, x \in Names : U[u][x] = s => u = t
  BY <1>1, ShaderInv
<1>3. CASE p.shader[s].refs = 0
  <2>1. z = DestroyShader(p, s)
    BY <1>3 DEF DeleteShaderObject
  <2>2. \A x \in Names : U[t][x] # s
    <3>1. Count(Names, U[t], s) = 0
      BY <1>2, <1>3 DEF ShaderRefs
    <3> QED
      BY <3>1, CountNat, SetsFinite
  <2>3. \A u \in Types, x \in Names : U[u][x] # s
    BY <1>2, <2>2
  <2> HIDE DEF z
  <2>4. DestroyedShader(p, z, s)
    BY <1>2, <2>1, DestroyShaderEffect
  <2>5. \A u \in Types, x \in Names : U[u][x] # s /\ (U[u][x] = U[u][x] \/ (U[u][x] = 0 /\ U[u][x] = s))
    BY <2>3
  <2>6. ObjInv(z, U, C, {})
    BY <1>1, <1>2, <2>4, <2>5, DestroyedKeeps DEF Naming
  <2>7. Attached(z) = U /\ z.current = C
    BY <2>4 DEF DestroyedShader, Attached, U, C
  <2> QED
    BY <2>6, <2>7 DEF ObjOK, z
<1>4. CASE p.shader[s].refs # 0
  <2> DEFINE o == [p.shader[s] EXCEPT !.flagged = TRUE]
  <2>1. z = [p EXCEPT !.shader[s].flagged = TRUE]
    BY <1>4 DEF DeleteShaderObject
  <2>2. ShaderShape(o) /\ o.type = t /\ o.refs = p.shader[s].refs
    BY <1>2 DEF ShaderShape
  <2> HIDE DEF z
  <2>3. ShaderChanged(p, z, s, o)
    BY <1>2, <2>1, <2>2 DEF ShaderChanged, Shaped, Fields
  <2>4. ShaderRefs(o, U[o.type], s)
    <3>1. p.shader[s].refs > 0
      BY <1>2, <1>4
    <3> QED
      BY <1>2, <2>2, <3>1 DEF ShaderRefs
  <2> HIDE DEF o
  <2>5. ObjInv(z, U, C, {}) /\ z.program = p.program /\ z.current = p.current /\ Attached(z) = Attached(p)
    BY <1>1, <1>2, <2>3, <2>4, ShaderChangedInv
  <2> QED
    BY <2>5 DEF ObjOK, z, U, C
<1> QED
  BY <1>3, <1>4

(* New objects.                                                            *)

LEMMA CreateShaderKeeps ==
    ASSUME NEW p, ObjOK(p), HasName(p.alloc), NEW type \in Types, NEW source
    PROVE  ObjOK([p EXCEPT !.alloc = TakeName(@), !.shader[NextName(p.alloc)] = NewShader(type, source)])
<1> DEFINE U == Attached(p)
           C == p.current
           a == p.alloc
           F == FreeObjects(p)
           s == NextName(a)
           o == NewShader(type, source)
           q == [p EXCEPT !.alloc = TakeName(@), !.shader[s] = o]
<1>1. ObjInv(p, U, C, {}) /\ Shaped(p) /\ AllocInv(a, F) /\ HasName(a)
  BY DEF ObjOK, ObjInv, Named
<1> HIDE DEF a, F
<1>2. s \in F /\ AllocInv(TakeName(a), F \ {s})
  BY <1>1, TakeKeeps
<1>3. ShaderShape(o) /\ o.exists /\ o.refs = 0 /\ ~o.flagged /\ o.type = type
  BY DEF ShaderShape, NewShader
<1> HIDE DEF s, o
<1>4. Fields(q) /\ q.alloc = TakeName(a) /\ q.program = p.program /\ q.current = p.current
      /\ q.shader = [p.shader EXCEPT ![s] = o]
  BY <1>1 DEF Shaped, Fields, a
<1> HIDE DEF q
<1>5. s \in Names /\ ~IsShader(p, s) /\ ~IsProgram(p, s)
  BY <1>2 DEF F, FreeObjects
<1>6. \A n \in Names : q.shader[n] = IF n = s THEN o ELSE p.shader[n]
  BY <1>1, <1>4 DEF Shaped
<1>7. q.shader = [n \in Names |-> q.shader[n]]
  BY <1>1, <1>4 DEF Shaped
<1>8. Shaped(q)
  BY <1>1, <1>3, <1>4, <1>6, <1>7 DEF Shaped
<1>9. /\ \A n : IsShader(q, n) <=> (IsShader(p, n) \/ n = s)
      /\ \A n : IsProgram(q, n) <=> IsProgram(p, n)
  BY <1>3, <1>4, <1>5, <1>6 DEF IsShader, IsProgram
<1>10. FreeObjects(q) = F \ {s}
  BY <1>9 DEF FreeObjects, F
<1>11. Named(q)
  BY <1>1, <1>2, <1>4, <1>5, <1>8, <1>9, <1>10 DEF ObjInv, Named
<1>12. ShadersCounted(q, U)
  <2>1. U \in Naming /\ \A t \in Types, m \in Names :
           U[t][m] # 0 => IsShader(p, U[t][m]) /\ p.shader[U[t][m]].type = t
    BY <1>1 DEF ObjInv, ShadersCounted, Naming
  <2>2. \A t \in Types, m \in Names : U[t][m] # s
    BY <1>5, <2>1, SetsFinite
  <2>3. ASSUME NEW n \in Names, IsShader(q, n)
        PROVE  ShaderRefs(q.shader[n], U[q.shader[n].type], n)
    <3>1. CASE n = s
      <4>1. q.shader[n] = o /\ Count(Names, U[type], s) = 0
        BY <1>6, <2>2, <3>1, CountNat, SetsFinite
      <4> QED
        BY <1>3, <3>1, <4>1 DEF ShaderRefs
    <3>2. CASE n # s
      <4>1. IsShader(p, n) /\ q.shader[n] = p.shader[n]
        BY <1>6, <1>9, <2>3, <3>2
      <4> QED
        BY <1>1, <4>1 DEF ObjInv, ShadersCounted, ShaderRefs
    <3> QED
      BY <3>1, <3>2
  <2>4. ASSUME NEW t \in Types, NEW m \in Names, U[t][m] # 0
        PROVE  IsShader(q, U[t][m]) /\ q.shader[U[t][m]].type = t
    <3>1. IsShader(p, U[t][m]) /\ p.shader[U[t][m]].type = t /\ U[t][m] # s
      BY <2>1, <2>2, <2>4
    <3> QED
      BY <1>6, <1>9, <3>1 DEF IsShader
  <2> QED
    BY <2>1, <2>3, <2>4 DEF ShadersCounted, ShaderRefs, Naming
<1>13. ProgramsCounted(q, C, {})
  BY <1>1, <1>4, <1>9 DEF ObjInv, ProgramsCounted
<1>14. Attached(q) = U /\ q.current = C
  BY <1>4 DEF Attached, U, C
<1> QED
  BY <1>11, <1>12, <1>13, <1>14 DEF ObjOK, ObjInv, q, s, o, a

LEMMA CreateProgramKeeps ==
    ASSUME NEW p, ObjOK(p), HasName(p.alloc)
    PROVE  ObjOK([p EXCEPT !.alloc = TakeName(@), !.program[NextName(p.alloc)] = NewProgram])
<1> DEFINE U == Attached(p)
           C == p.current
           a == p.alloc
           F == FreeObjects(p)
           s == NextName(a)
           o == NewProgram
           q == [p EXCEPT !.alloc = TakeName(@), !.program[s] = o]
<1>1. ObjInv(p, U, C, {}) /\ Shaped(p) /\ AllocInv(a, F) /\ HasName(a)
  BY DEF ObjOK, ObjInv, Named
<1> HIDE DEF a, F
<1>2. s \in F /\ AllocInv(TakeName(a), F \ {s})
  BY <1>1, TakeKeeps
<1>3. o \in ProgramType /\ o.exists /\ o.refs = 0 /\ ~o.flagged /\ o.shaders = [t \in Types |-> 0]
  BY DEF ProgramType, NewProgram
<1> HIDE DEF s, o
<1>4. Fields(q) /\ q.alloc = TakeName(a) /\ q.shader = p.shader /\ q.current = p.current
      /\ q.program = [p.program EXCEPT ![s] = o]
  BY <1>1 DEF Shaped, Fields, a
<1> HIDE DEF q
<1>5. s \in Names /\ ~IsShader(p, s) /\ ~IsProgram(p, s) /\ p.program[s] = NoProgram
  BY <1>1, <1>2 DEF F, FreeObjects, IsProgram, Shaped, ProgramType
<1>6. \A n \in Names : q.program[n] = IF n = s THEN o ELSE p.program[n]
  BY <1>1, <1>4 DEF Shaped
<1>8. Shaped(q)
  <2>1. q.program \in [Names -> ProgramType \cup {NoProgram}]
    BY <1>1, <1>3, <1>4 DEF Shaped
  <2> QED
    BY <1>1, <1>4, <2>1 DEF Shaped
<1>9. /\ \A n : IsShader(q, n) <=> IsShader(p, n)
      /\ \A n : IsProgram(q, n) <=> (IsProgram(p, n) \/ n = s)
  BY <1>3, <1>4, <1>5, <1>6 DEF IsShader, IsProgram
<1>10. FreeObjects(q) = F \ {s}
  BY <1>9 DEF FreeObjects, F
<1>11. Named(q)
  BY <1>1, <1>2, <1>4, <1>5, <1>8, <1>9, <1>10 DEF ObjInv, Named
<1>12. ShadersCounted(q, U)
  BY <1>1, <1>4, <1>9 DEF ObjInv, ShadersCounted
<1>13. ProgramsCounted(q, C, {})
  <2>1. C \in Currents /\ \A c \in Contexts : C[c] # 0 => IsProgram(p, C[c])
    BY <1>1 DEF ObjInv, ProgramsCounted, Currents
  <2>2. \A c \in Contexts : C[c] # s
    BY <1>5, <2>1, SetsFinite
  <2>3. ASSUME NEW n \in Names, IsProgram(q, n)
        PROVE  ProperRefs(q.program[n], C, n)
    <3>1. CASE n = s
      <4>1. q.program[n] = o /\ Count(Contexts, C, s) = 0
        BY <1>6, <2>2, <3>1, CountNat, SetsFinite
      <4> QED
        BY <1>3, <3>1, <4>1 DEF ProperRefs
    <3>2. CASE n # s
      <4>1. IsProgram(p, n) /\ q.program[n] = p.program[n]
        BY <1>6, <1>9, <2>3, <3>2
      <4> QED
        BY <1>1, <4>1 DEF ObjInv, ProgramsCounted, ProperRefs
    <3> QED
      BY <3>1, <3>2
  <2> QED
    BY <1>9, <2>1, <2>3 DEF ProgramsCounted, ProperRefs, Currents
<1>14. Attached(q) = U /\ q.current = C
  <2>1. ASSUME NEW t \in Types, NEW n \in Names
        PROVE  (IF q.program[n].exists THEN q.program[n].shaders[t] ELSE 0)
                 = (IF p.program[n].exists THEN p.program[n].shaders[t] ELSE 0)
    BY <1>3, <1>5, <1>6 DEF NoProgram
  <2> QED
    BY <1>4, <2>1 DEF Attached, U, C
<1> QED
  BY <1>11, <1>12, <1>13, <1>14 DEF ObjOK, ObjInv, q, s, o, a

\* glShaderSource
LEMMA SourceKeeps ==
    ASSUME NEW p, ObjOK(p), NEW n, IsShader(p, n), NEW source
    PROVE  ObjOK([p EXCEPT !.shader[n].source = source])
<1> DEFINE q == [p EXCEPT !.shader[n].source = source]
           s == [p.shader[n] EXCEPT !.source = source]
<1>0. Shaped(p)
  BY DEF ObjOK, ObjInv, Named
<1>1. ShaderShape(s) /\ SameShader(p.shader[n], s)
  BY <1>0, ShapedShader DEF ShaderShape, SameShader
<1>2. Fields(q) /\ q.alloc = p.alloc /\ q.program = p.program
      /\ q.current = p.current /\ q.shader = [p.shader EXCEPT ![n] = s]
  BY <1>0 DEF Shaped, Fields
<1> HIDE DEF q, s
<1>3. Shaped(q) /\ SameObjects(p, q)
  BY <1>0, <1>1, <1>2, ShaderKeeps
<1> QED
  BY <1>3, SameOK DEF q

\* The program n names w as its shader of the type t.
Renamed(p, q, n, t, w) ==
    /\ Fields(q) /\ q.alloc = p.alloc /\ q.shader = p.shader /\ q.current = p.current
    /\ q.program = [p.program EXCEPT ![n].shaders[t] = w]

LEMMA NamingKeeps ==
    ASSUME NEW p, NEW V, NEW C, NEW X, ObjInv(p, V, C, X), NEW n, IsProgram(p, n), NEW t \in Types,
           NEW w \in Names \cup {0}, NEW q, Renamed(p, q, n, t, w),
           \A u \in Types, x \in Names : V[u][x] = IF u = t /\ x = n THEN w ELSE Attached(p)[u][x]
    PROVE  ObjInv(q, V, C, X) /\ V = Attached(q) /\ q.current = p.current
<1> DEFINE r == [p.program[n] EXCEPT !.shaders[t] = w]
<1>1. n \in Names /\ p.program[n] \in ProgramType /\ Shaped(p) /\ V \in Naming
  BY ShapedProgram DEF ObjInv, Named, ShadersCounted, Naming
<1>2. /\ r \in ProgramType /\ r.shaders = [p.program[n].shaders EXCEPT ![t] = w]
      /\ r.refs = p.program[n].refs /\ r.flagged = p.program[n].flagged /\ r.resolved = p.program[n].resolved
  BY <1>1 DEF ProgramType
<1>3. q.program = [p.program EXCEPT ![n] = r]
  BY DEF Renamed
<1> HIDE DEF r
<1>4. Rewritten(p, q, n, r)
  BY <1>3 DEF Renamed, Rewritten
<1>5. Shaped(q) /\ q.program[n] = r /\ r.exists /\ \A m \in Names \ {n} : q.program[m] = p.program[m]
  BY <1>1, <1>2, <1>4, RewrittenKeeps
<1>6. /\ \A m : IsShader(q, m) <=> IsShader(p, m)
      /\ \A m : IsProgram(q, m) <=> IsProgram(p, m)
  BY <1>5 DEF IsShader, IsProgram, Renamed
<1>7. FreeObjects(q) = FreeObjects(p)
  BY <1>6 DEF FreeObjects
<1>8. Named(q)
  BY <1>5, <1>6, <1>7 DEF ObjInv, Named, Renamed
<1>9. ShadersCounted(q, V)
  BY <1>6 DEF ObjInv, ShadersCounted, Renamed
<1>10. ProgramsCounted(q, C, X)
  <2>1. ASSUME NEW m \in Names, IsProgram(q, m), m \notin X
        PROVE  ProperRefs(q.program[m], C, m)
    <3>1. ProperRefs(p.program[m], C, m)
      BY <1>6, <2>1 DEF ObjInv, ProgramsCounted, ProperRefs
    <3>2. CASE m = n
      BY <1>2, <1>5, <3>1, <3>2 DEF ProperRefs
    <3>3. CASE m # n
      BY <1>5, <3>1, <3>3
    <3> QED
      BY <3>2, <3>3
  <2> QED
    BY <1>6, <2>1 DEF ObjInv, ProgramsCounted, ProperRefs
<1>11. V = Attached(q)
  <2>1. ASSUME NEW u \in Types, NEW x \in Names
        PROVE  V[u][x] = IF q.program[x].exists THEN q.program[x].shaders[u] ELSE 0
    <3>1. CASE x = n
      <4>1. p.program[n].exists /\ p.program[n].shaders \in [Types -> Names \cup {0}]
        BY <1>1 DEF ProgramType
      <4>2. q.program[n].shaders[u] = IF u = t THEN w ELSE p.program[n].shaders[u]
        BY <1>2, <1>5, <4>1
      <4> QED
        BY <1>1, <1>5, <3>1, <4>1, <4>2 DEF Attached
    <3>2. CASE x # n
      BY <1>5, <3>2 DEF Attached
    <3> QED
      BY <3>1, <3>2
  <2>2. ASSUME NEW u \in Types PROVE V[u] = [x \in Names |-> IF q.program[x].exists THEN q.program[x].shaders[u] ELSE 0]
    <3>1. V[u] = [x \in Names |-> V[u][x]]
      BY <1>1 DEF Naming
    <3> QED
      BY <2>1, <3>1
  <2>3. V = [u \in Types |-> V[u]]
    BY <1>1 DEF Naming
  <2> QED
    BY <2>2, <2>3 DEF Attached
<1> QED
  BY <1>8, <1>9, <1>10, <1>11 DEF ObjInv, Renamed

\* A program takes the shader s.
LEMMA AttachKeeps ==
    ASSUME NEW p, ObjOK(p), NEW n, IsProgram(p, n), NEW s, IsShader(p, s), NEW t, t = p.shader[s].type,
           p.program[n].shaders[t] = 0
    PROVE  ObjOK([p EXCEPT !.program[n].shaders[t] = s, !.shader[s].refs = @ + 1])
<1> DEFINE U == Attached(p)
           C == p.current
           o == [p.shader[s] EXCEPT !.refs = @ + 1]
           q == [p EXCEPT !.shader[s].refs = @ + 1]
           z == [p EXCEPT !.program[n].shaders[t] = s, !.shader[s].refs = @ + 1]
           V == [u \in Types |-> [x \in Names |-> IF u = t /\ x = n THEN s ELSE U[u][x]]]
           N == Count(Names, U[t], s)
<1>1. ObjInv(p, U, C, {})
  BY DEF ObjOK
<1>2. /\ s \in Names /\ Shaped(p) /\ U \in Naming /\ ShaderShape(p.shader[s]) /\ t \in Types
      /\ p.shader[s].refs \in Nat /\ ShaderRefs(p.shader[s], U[t], s)
  BY <1>1, ShaderInv, SMTT(40)
<1>3. n \in Names /\ U[t][n] = 0 /\ p.program[n] \in ProgramType
  BY <1>2, ShapedProgram DEF IsProgram, Attached
<1>4. ShaderShape(o) /\ o.type = t /\ o.refs = p.shader[s].refs + 1
  <2>1. p.shader[s].refs + 1 \in Nat
    BY <1>2
  <2> QED
    BY <1>2, <2>1 DEF ShaderShape
<1>5. ShaderChanged(p, q, s, o)
  BY <1>2, <1>4 DEF ShaderChanged, Shaped, Fields
<1> HIDE DEF U, C
<1>6. V \in Naming /\ \A u \in Types, x \in Names : V[u][x] = IF u = t /\ x = n THEN s ELSE U[u][x]
  BY <1>2 DEF Naming
<1>7. Renamed(q, z, n, t, s)
  BY <1>2, <1>3 DEF Renamed, Shaped, Fields
<1> HIDE DEF V, o, q, z
<1>8. \A m : Count(Names, V[t], m) = (Count(Names, U[t], m) - (IF U[t][n] = m THEN 1 ELSE 0)) + (IF s = m THEN 1 ELSE 0)
  <2> DEFINE f == U[t]
             g == V[t]
             W == Names \cup {0}
  <2>1. f \in [Names -> W] /\ g \in [Names -> W] /\ n \in Names /\ IsFiniteSet(Names)
    BY <1>2, <1>3, <1>6, SetsFinite DEF Naming
  <2>2. \A x \in Names : g[x] = IF x = n THEN s ELSE f[x]
    BY <1>2, <1>6
  <2> HIDE DEF f, g, W
  <2>3. Moved(Names, f, g, f[n], s)
    BY <2>1, <2>2, CountPoint
  <2> QED
    BY <2>3 DEF f, g, Moved
<1>9. /\ \A m \in Names \ {s} : Count(Names, V[t], m) = Count(Names, U[t], m)
      /\ Count(Names, V[t], s) = N + 1
  <2>1. \A m \in Names : m # 0 /\ Count(Names, U[t], m) \in Nat
    BY SetsFinite, CountNat
  <2>2. ASSUME NEW m \in Names \ {s} PROVE Count(Names, V[t], m) = Count(Names, U[t], m)
    <3> DEFINE k == Count(Names, U[t], m)
    <3>1. Count(Names, V[t], m) = (k - 0) + 0 /\ k \in Nat
      BY <1>3, <1>8, <2>1
    <3> HIDE DEF k
    <3>2. Count(Names, V[t], m) = k
      BY <3>1
    <3> QED
      BY <3>2 DEF k
  <2>3. Count(Names, V[t], s) = (N - 0) + 1 /\ N \in Nat
    BY <1>2, <1>3, <1>8, <2>1
  <2> HIDE DEF N
  <2>4. Count(Names, V[t], s) = N + 1
    BY <2>3
  <2> QED
    BY <2>2, <2>4
<1>10. \A u \in Types, m \in Names \ {s} : Count(Names, V[u], m) = Count(Names, U[u], m)
  <2>1. ASSUME NEW u \in Types, u # t PROVE V[u] = U[u]
    <3>1. V[u] = [x \in Names |-> V[u][x]] /\ U[u] = [x \in Names |-> U[u][x]]
      BY <1>2, <1>6 DEF Naming
    <3>2. \A x \in Names : V[u][x] = U[u][x]
      BY <1>6, <2>1
    <3> QED
      BY <3>1, <3>2
  <2> QED
    BY <1>9, <2>1
<1>11. \A u \in Types, x \in Names : V[u][x] = U[u][x] \/ (V[u][x] = s /\ u = o.type)
  BY <1>4, <1>6
<1>12. ShaderRefs(o, V[o.type], s)
  <2>1. N \in Nat /\ p.shader[s].refs = N
    BY <1>2, SetsFinite, CountNat DEF ShaderRefs
  <2> HIDE DEF N
  <2>2. o.refs = N + 1 /\ N + 1 > 0
    BY <1>4, <2>1
  <2> QED
    BY <1>4, <1>9, <2>2 DEF ShaderRefs
<1>13. ObjInv(q, V, C, {}) /\ q.program = p.program /\ q.current = p.current /\ Attached(q) = Attached(p)
  BY <1>1, <1>5, <1>6, <1>10, <1>11, <1>12, ShaderChangedInv
<1>14. IsProgram(q, n)
  BY <1>13 DEF IsProgram
<1>15. \A u \in Types, x \in Names : V[u][x] = IF u = t /\ x = n THEN s ELSE Attached(q)[u][x]
  BY <1>6, <1>13 DEF U
<1>16. ObjInv(z, V, C, {}) /\ V = Attached(z) /\ z.current = q.current
  BY <1>2, <1>7, <1>13, <1>14, <1>15, NamingKeeps
<1> QED
  BY <1>13, <1>16 DEF ObjOK, z, C

\* A program lets go of its shader s.
LEMMA DetachKeeps ==
    ASSUME NEW p, ObjOK(p), NEW n, IsProgram(p, n), NEW s, IsShader(p, s), NEW t, t = p.shader[s].type,
           p.program[n].shaders[t] = s
    PROVE  ObjOK([ReleaseShader(p, s) EXCEPT !.program[n].shaders[t] = 0])
<1> DEFINE U == Attached(p)
           C == p.current
           q == ReleaseShader(p, s)
           z == [q EXCEPT !.program[n].shaders[t] = 0]
           V == [u \in Types |-> [x \in Names |-> IF u = t /\ x = n THEN 0 ELSE U[u][x]]]
<1>1. ObjInv(p, U, C, {})
  BY DEF ObjOK
<1>2. s \in Names /\ U \in Naming /\ t \in Types
  BY <1>1, ShaderInv
<1>3. n \in Names /\ U[t][n] = s /\ s # 0
  BY <1>2, SetsFinite DEF IsProgram, Attached
<1> HIDE DEF U, C
<1>4. V \in Naming /\ \A u \in Types, x \in Names : V[u][x] = IF u = t /\ x = n THEN 0 ELSE U[u][x]
  BY <1>2 DEF Naming
<1> HIDE DEF V
<1>5. /\ ObjInv(ReleaseShader(p, U[t][n]), V, C, {})
      /\ ReleaseShader(p, U[t][n]).program = p.program /\ ReleaseShader(p, U[t][n]).current = p.current
  BY <1>1, <1>2, <1>3, <1>4, ReleaseShaderKeeps DEF Naming
<1>6. ObjInv(q, V, C, {}) /\ q.program = p.program /\ q.current = p.current
  BY <1>3, <1>5
<1> HIDE DEF q
<1>7. IsProgram(q, n) /\ Attached(q) = U /\ Shaped(q)
  BY <1>6 DEF IsProgram, Attached, U, ObjInv, Named
<1>8. Renamed(q, z, n, t, 0)
  BY <1>2, <1>7 DEF Renamed, Shaped, Fields
<1> HIDE DEF z
<1>9. ObjInv(z, V, C, {}) /\ V = Attached(z) /\ z.current = q.current
  BY <1>2, <1>4, <1>6, <1>7, <1>8, NamingKeeps
<1> QED
  BY <1>6, <1>9 DEF ObjOK, z, C, q

(* The reset of the managers.                                              *)

\* The program n is deleted, if there is one; and the shader.
ProgramCleared(r, n) == IF IsProgram(r, n) THEN DeleteProgramObject(r, n) ELSE r
ShaderCleared(r, n) == IF IsShader(r, n) THEN DeleteShaderObject(r, n) ELSE r

\* f is what the loop up to k does.
ProgramLoop(f, p, k) ==
    f = [n \in 0..k |-> IF n = 0 THEN p ELSE ProgramCleared(f[n - 1], n)]
ShaderLoop(f, p, k) ==
    f = [n \in 0..k |-> IF n = 0 THEN p ELSE ShaderCleared(f[n - 1], n)]

LEMMA ProgramLoopOnce ==
    ASSUME NEW p, NEW k \in Nat, NEW f, ProgramLoop(f, p, k)
    PROVE  ProgramLoop([n \in 0..(k + 1) |-> IF n = k + 1 THEN ProgramCleared(f[k], n) ELSE f[n]], p, k + 1)
<1> DEFINE g == [n \in 0..(k + 1) |-> IF n = k + 1 THEN ProgramCleared(f[k], n) ELSE f[n]]
<1>1. \A n \in 0..k : f[n] = IF n = 0 THEN p ELSE ProgramCleared(f[n - 1], n)
  BY DEF ProgramLoop
<1>2. ASSUME NEW n \in 0..(k + 1)
      PROVE  g[n] = IF n = 0 THEN p ELSE ProgramCleared(g[n - 1], n)
  <2>1. CASE n = k + 1
    <3>1. n # 0 /\ n - 1 = k /\ k \in 0..(k + 1) /\ k # k + 1 /\ g[k] = f[k]
      BY <2>1
    <3>2. g[n] = ProgramCleared(f[k], n)
      BY <2>1
    <3> QED
      BY <3>1, <3>2
  <2>2. CASE n # k + 1
    <3>1. n \in 0..k /\ g[n] = f[n]
      BY <2>2
    <3>2. CASE n = 0
      BY <1>1, <3>1, <3>2
    <3>3. CASE n # 0
      <4>1. n - 1 \in 0..(k + 1) /\ n - 1 # k + 1 /\ g[n - 1] = f[n - 1]
        BY <3>1, <3>3
      <4>2. f[n] = ProgramCleared(f[n - 1], n)
        BY <1>1, <3>1, <3>3
      <4> HIDE DEF g
      <4> QED
        BY <3>1, <3>3, <4>1, <4>2
    <3> QED
      BY <3>2, <3>3
  <2> QED
    BY <2>1, <2>2
<1>3. g = [n \in 0..(k + 1) |-> g[n]]
  OBVIOUS
<1> HIDE DEF g
<1>4. g = [n \in 0..(k + 1) |-> IF n = 0 THEN p ELSE ProgramCleared(g[n - 1], n)]
  BY <1>2, <1>3
<1> QED
  BY <1>4 DEF ProgramLoop, g

LEMMA ClearProgramsIsLoop ==
    ASSUME NEW p
    PROVE  ClearPrograms(p) = (CHOOSE f : ProgramLoop(f, p, MaxName))[MaxName]
  BY DEF ClearPrograms, ProgramLoop, ProgramCleared

LEMMA ProgramLoopExists ==
    ASSUME NEW p
    PROVE  \A k \in Nat : \E f : ProgramLoop(f, p, k)
<1> DEFINE Bad == {k \in Nat : ~\E f : ProgramLoop(f, p, k)}
<1>1. SUFFICES ASSUME Bad # {} PROVE FALSE
  OBVIOUS
<1> DEFINE k == Lowest(Bad)
<1>2. k \in Bad /\ k \in Nat /\ \A m \in Bad : k <= m
  BY <1>1, LowestName
<1> HIDE DEF k
<1>3. k # 0
  <2> DEFINE f == [n \in 0..0 |-> p]
  <2>1. f = [n \in 0..0 |-> IF n = 0 THEN p ELSE ProgramCleared(f[n - 1], n)]
    OBVIOUS
  <2>2. ProgramLoop(f, p, 0)
    BY <2>1 DEF ProgramLoop
  <2> QED
    BY <1>2, <2>2
<1>4. k - 1 \in Nat /\ ~(k <= k - 1) /\ (k - 1) + 1 = k
  BY <1>2, <1>3
<1> DEFINE j == k - 1
<1> HIDE DEF j
<1>5. j \in Nat /\ j \notin Bad /\ j + 1 = k
  BY <1>2, <1>4 DEF j
<1>6. PICK f : ProgramLoop(f, p, j)
  BY <1>5
<1>7. \E g : ProgramLoop(g, p, j + 1)
  BY <1>5, <1>6, ProgramLoopOnce
<1> QED
  BY <1>2, <1>5, <1>7

\* A loop that starts well ends well.
LEMMA ProgramLoopKeeps ==
    ASSUME NEW p, ObjOK(p), NEW f, ProgramLoop(f, p, MaxName)
    PROVE  ObjOK(f[MaxName])
<1>1. MaxName \in Nat /\ MaxName \in 0..MaxName
  BY NameAssumption
<1>2. \A n \in 0..MaxName : f[n] = IF n = 0 THEN p ELSE ProgramCleared(f[n - 1], n)
  BY DEF ProgramLoop
<1> DEFINE Bad == {k \in 0..MaxName : ~ObjOK(f[k])}
<1>3. SUFFICES ASSUME Bad # {} PROVE FALSE
  BY <1>1
<1> DEFINE k == Lowest(Bad)
<1>4. k \in Bad /\ \A m \in Bad : k <= m
  <2>1. Bad \subseteq Nat
    BY <1>1
  <2> HIDE DEF Bad
  <2> QED
    BY <1>3, <2>1, LowestName
<1> HIDE DEF k
<1>5. k \in 0..MaxName /\ ~ObjOK(f[k])
  BY <1>4
<1>6. k # 0
  BY <1>2, <1>5
<1>7. k - 1 \in 0..MaxName /\ ~(k <= k - 1)
  BY <1>1, <1>5, <1>6
<1>8. ObjOK(f[k - 1])
  BY <1>4, <1>7
<1> DEFINE r == f[k - 1]
<1>9. f[k] = ProgramCleared(r, k)
  BY <1>2, <1>5, <1>6
<1> HIDE DEF r
<1>10. ObjOK(ProgramCleared(r, k))
  BY <1>8, DeleteProgramKeeps DEF ProgramCleared, r
<1> QED
  BY <1>5, <1>9, <1>10

LEMMA ClearProgramsKeeps ==
    ASSUME NEW p, ObjOK(p)
    PROVE  ObjOK(ClearPrograms(p))
<1> DEFINE f == CHOOSE g : ProgramLoop(g, p, MaxName)
<1>1. MaxName \in Nat
  BY NameAssumption
<1>2. ProgramLoop(f, p, MaxName)
  BY <1>1, ProgramLoopExists
<1>3. ClearPrograms(p) = f[MaxName]
  BY ClearProgramsIsLoop
<1> HIDE DEF f
<1> QED
  BY <1>2, <1>3, ProgramLoopKeeps

LEMMA ShaderLoopOnce ==
    ASSUME NEW p, NEW k \in Nat, NEW f, ShaderLoop(f, p, k)
    PROVE  ShaderLoop([n \in 0..(k + 1) |-> IF n = k + 1 THEN ShaderCleared(f[k], n) ELSE f[n]], p, k + 1)
<1> DEFINE g == [n \in 0..(k + 1) |-> IF n = k + 1 THEN ShaderCleared(f[k], n) ELSE f[n]]
<1>1. \A n \in 0..k : f[n] = IF n = 0 THEN p ELSE ShaderCleared(f[n - 1], n)
  BY DEF ShaderLoop
<1>2. ASSUME NEW n \in 0..(k + 1)
      PROVE  g[n] = IF n = 0 THEN p ELSE ShaderCleared(g[n - 1], n)
  <2>1. CASE n = k + 1
    <3>1. n # 0 /\ n - 1 = k /\ k \in 0..(k + 1) /\ k # k + 1 /\ g[k] = f[k]
      BY <2>1
    <3>2. g[n] = ShaderCleared(f[k], n)
      BY <2>1
    <3> QED
      BY <3>1, <3>2
  <2>2. CASE n # k + 1
    <3>1. n \in 0..k /\ g[n] = f[n]
      BY <2>2
    <3>2. CASE n = 0
      BY <1>1, <3>1, <3>2
    <3>3. CASE n # 0
      <4>1. n - 1 \in 0..(k + 1) /\ n - 1 # k + 1 /\ g[n - 1] = f[n - 1]
        BY <3>1, <3>3
      <4>2. f[n] = ShaderCleared(f[n - 1], n)
        BY <1>1, <3>1, <3>3
      <4> HIDE DEF g
      <4> QED
        BY <3>1, <3>3, <4>1, <4>2
    <3> QED
      BY <3>2, <3>3
  <2> QED
    BY <2>1, <2>2
<1>3. g = [n \in 0..(k + 1) |-> g[n]]
  OBVIOUS
<1> HIDE DEF g
<1>4. g = [n \in 0..(k + 1) |-> IF n = 0 THEN p ELSE ShaderCleared(g[n - 1], n)]
  BY <1>2, <1>3
<1> QED
  BY <1>4 DEF ShaderLoop, g

LEMMA ClearShadersIsLoop ==
    ASSUME NEW p
    PROVE  ClearShaders(p) = (CHOOSE f : ShaderLoop(f, p, MaxName))[MaxName]
  BY DEF ClearShaders, ShaderLoop, ShaderCleared

LEMMA ShaderLoopExists ==
    ASSUME NEW p
    PROVE  \A k \in Nat : \E f : ShaderLoop(f, p, k)
<1> DEFINE Bad == {k \in Nat : ~\E f : ShaderLoop(f, p, k)}
<1>1. SUFFICES ASSUME Bad # {} PROVE FALSE
  OBVIOUS
<1> DEFINE k == Lowest(Bad)
<1>2. k \in Bad /\ k \in Nat /\ \A m \in Bad : k <= m
  BY <1>1, LowestName
<1> HIDE DEF k
<1>3. k # 0
  <2> DEFINE f == [n \in 0..0 |-> p]
  <2>1. f = [n \in 0..0 |-> IF n = 0 THEN p ELSE ShaderCleared(f[n - 1], n)]
    OBVIOUS
  <2>2. ShaderLoop(f, p, 0)
    BY <2>1 DEF ShaderLoop
  <2> QED
    BY <1>2, <2>2
<1>4. k - 1 \in Nat /\ ~(k <= k - 1) /\ (k - 1) + 1 = k
  BY <1>2, <1>3
<1> DEFINE j == k - 1
<1> HIDE DEF j
<1>5. j \in Nat /\ j \notin Bad /\ j + 1 = k
  BY <1>2, <1>4 DEF j
<1>6. PICK f : ShaderLoop(f, p, j)
  BY <1>5
<1>7. \E g : ShaderLoop(g, p, j + 1)
  BY <1>5, <1>6, ShaderLoopOnce
<1> QED
  BY <1>2, <1>5, <1>7

LEMMA ShaderLoopKeeps ==
    ASSUME NEW p, ObjOK(p), NEW f, ShaderLoop(f, p, MaxName)
    PROVE  ObjOK(f[MaxName])
<1>1. MaxName \in Nat /\ MaxName \in 0..MaxName
  BY NameAssumption
<1>2. \A n \in 0..MaxName : f[n] = IF n = 0 THEN p ELSE ShaderCleared(f[n - 1], n)
  BY DEF ShaderLoop
<1> DEFINE Bad == {k \in 0..MaxName : ~ObjOK(f[k])}
<1>3. SUFFICES ASSUME Bad # {} PROVE FALSE
  BY <1>1
<1> DEFINE k == Lowest(Bad)
<1>4. k \in Bad /\ \A m \in Bad : k <= m
  <2>1. Bad \subseteq Nat
    BY <1>1
  <2> HIDE DEF Bad
  <2> QED
    BY <1>3, <2>1, LowestName
<1> HIDE DEF k
<1>5. k \in 0..MaxName /\ ~ObjOK(f[k])
  BY <1>4
<1>6. k # 0
  BY <1>2, <1>5
<1>7. k - 1 \in 0..MaxName /\ ~(k <= k - 1)
  BY <1>1, <1>5, <1>6
<1>8. ObjOK(f[k - 1])
  BY <1>4, <1>7
<1> DEFINE r == f[k - 1]
<1>9. f[k] = ShaderCleared(r, k)
  BY <1>2, <1>5, <1>6
<1> HIDE DEF r
<1>10. ObjOK(ShaderCleared(r, k))
  BY <1>8, DeleteShaderKeeps DEF ShaderCleared, r
<1> QED
  BY <1>5, <1>9, <1>10

LEMMA ClearShadersKeeps ==
    ASSUME NEW p, ObjOK(p)
    PROVE  ObjOK(ClearShaders(p))
<1> DEFINE f == CHOOSE g : ShaderLoop(g, p, MaxName)
<1>1. MaxName \in Nat
  BY NameAssumption
<1>2. ShaderLoop(f, p, MaxName)
  BY <1>1, ShaderLoopExists
<1>3. ClearShaders(p) = f[MaxName]
  BY ClearShadersIsLoop
<1> HIDE DEF f
<1> QED
  BY <1>2, <1>3, ShaderLoopKeeps

(* The steps of the share group.                                           *)

ProgInv == client \in Clients /\ alive \subseteq Contexts /\ ObjOK(progs)

LEMMA WaitsKeep ==
    ASSUME NEW p, ObjOK(p), NEW w, NEW x
    PROVE  /\ ObjOK([p EXCEPT !.waits = w]) /\ ObjOK([p EXCEPT !.workers = x])
           /\ ObjOK([p EXCEPT !.poolOf = x]) /\ ObjOK([p EXCEPT !.compilerOf = x])
<1>1. Shaped(p)
  BY DEF ObjOK, ObjInv, Named
<1>2. ASSUME NEW q \in {[p EXCEPT !.waits = w], [p EXCEPT !.workers = x],
                        [p EXCEPT !.poolOf = x], [p EXCEPT !.compilerOf = x]}
      PROVE  ObjOK(q)
  <2>1. Fields(q) /\ q.alloc = p.alloc /\ q.program = p.program /\ q.current = p.current /\ q.shader = p.shader
    BY <1>1 DEF Shaped, Fields
  <2> QED
    BY <1>1, <2>1, HiddenKeep, SameOK
<1> QED
  BY <1>2

LEMMA DropPoolsKeeps ==
    ASSUME NEW p, ObjOK(p)
    PROVE  ObjOK(DropPools(p))
<1>1. PICK x : DropPools(p) = [p EXCEPT !.workers = x]
  BY DEF DropPools
<1>2. \A w : ObjOK([p EXCEPT !.workers = x])
  BY WaitsKeep
<1> QED
  BY <1>1, <1>2

LEMMA DroppedKeeps ==
    ASSUME NEW p, ObjOK(p)
    PROVE  ObjOK(DropCompilers(p))
  BY DropCompilersKeeps, SameOK DEF ObjOK, ObjInv, Named

LEMMA PerformKeeps ==
    ASSUME ProgInv, NEW call, NEW r, ObjOK(r), Perform(call, r)
    PROVE  ProgInv'
<1>1. progs' = DropPools([r EXCEPT !.waits = {}]) \/ progs' = progs
  BY DEF Perform
<1>2. ObjOK(progs')
  BY <1>1, WaitsKeep, DropPoolsKeeps DEF ProgInv
<1>3. client' = client /\ alive' = alive
  BY DEF Perform
<1> QED
  BY <1>2, <1>3 DEF ProgInv

LEMMA ReturnsKeeps ==
    ASSUME ProgInv, NEW call, NEW r, ObjOK(r), Returns(call, r)
    PROVE  ProgInv'
<1>1. ObjOK(progs') /\ client' = client /\ alive' = alive
  BY DropPoolsKeeps DEF Returns, CallReturns, entryVars
<1> QED
  BY <1>1 DEF ProgInv

LEMMA OKFacts ==
    ASSUME NEW p, ObjOK(p)
    PROVE  /\ Shaped(p)
           /\ \A n : IsProgram(p, n) => /\ ObjOK(ResolveLink(p, n)) /\ SameButLink(p, ResolveLink(p, n), n)
                                        /\ ResolveLink(p, n).program[n].resolved
                                        /\ IsProgram(ResolveLink(p, n), n)
<1>1. Shaped(p) /\ ObjInv(p, Attached(p), p.current, {})
  BY DEF ObjOK, ObjInv, Named
<1>2. ASSUME NEW n, IsProgram(p, n)
      PROVE  /\ ObjOK(ResolveLink(p, n)) /\ SameButLink(p, ResolveLink(p, n), n)
             /\ ResolveLink(p, n).program[n].resolved /\ IsProgram(ResolveLink(p, n), n)
  <2> DEFINE q == ResolveLink(p, n)
             U == Attached(p)
             C == p.current
  <2> HIDE DEF U, C
  <2>1. ObjInv(q, U, C, {}) /\ Attached(q) = Attached(p) /\ SameButLink(p, q, n) /\ q.program[n].resolved
    BY <1>1, <1>2, ResolvedKeeps DEF U, C
  <2> HIDE DEF q
  <2>2. IsProgram(q, n) /\ q.current = C
    BY <1>2, <2>1, LinkedProgram DEF SameButLink, C
  <2> QED
    BY <2>1, <2>2 DEF ObjOK, q, U
<1> QED
  BY <1>1, <1>2

\* The calls that resolve compilations.
LEMMA PerformedCalls ==
    ASSUME ProgInv, NEW c \in alive, NEW n,
           \/ CompileShader(c, n) \/ GetShader(c, n) \/ DeleteShader(c, n) \/ DeleteProgram(c, n)
           \/ LinkProgram(c, n) \/ UseProgram(c, n) \/ \E s \in Names : DetachShader(c, n, s)
    PROVE  ProgInv'
<1>1. ObjOK(progs) /\ c \in Contexts /\ Shaped(progs)
  BY OKFacts DEF ProgInv
<1>2. CASE CompileShader(c, n)
  <2>1. ObjOK(Compile(progs, c, n))
    BY <1>1, <1>2, CompileKeeps, SameOK DEF CompileShader
  <2> QED
    BY <1>2, <2>1, PerformKeeps DEF CompileShader
<1>3. CASE GetShader(c, n)
  <2>1. ObjOK(ResolveCompile(progs, n))
    BY <1>1, ResolveCompileKeeps, SameOK
  <2> QED
    BY <1>3, <2>1, PerformKeeps DEF GetShader
<1>4. CASE DeleteShader(c, n)
  <2>1. ObjOK(DeleteShaderObject(progs, n))
    BY <1>1, <1>4, DeleteShaderKeeps DEF DeleteShader
  <2> QED
    BY <1>4, <2>1, PerformKeeps DEF DeleteShader
<1>5. CASE DeleteProgram(c, n)
  <2>1. ObjOK(DeleteProgramObject(progs, n))
    BY <1>1, <1>5, DeleteProgramKeeps DEF DeleteProgram
  <2> QED
    BY <1>5, <2>1, PerformKeeps DEF DeleteProgram
<1>6. CASE LinkProgram(c, n)
  <2>1. PICK outcome \in LinkOutcomes : Perform(Call("LinkProgram", c, n, outcome), Link(progs, n, outcome))
    BY <1>6 DEF LinkProgram
  <2>2. ObjOK(Link(progs, n, outcome))
    BY <1>1, <1>6, LinkKeeps DEF LinkProgram
  <2> QED
    BY <2>1, <2>2, PerformKeeps
<1>7. CASE UseProgram(c, n)
  <2> DEFINE p == IF n = 0 THEN progs ELSE ResolveLink(progs, n)
  <2>1. (n = 0 \/ IsProgram(progs, n)) /\ Perform(Call("UseProgram", c, n, 0), SetProgram(p, c, n))
    BY <1>7 DEF UseProgram
  <2>2. ObjOK(p) /\ (n = 0 \/ (IsProgram(p, n) /\ p.program[n].resolved))
    BY <1>1, <2>1, OKFacts
  <2> HIDE DEF p
  <2>3. ObjOK(SetProgram(p, c, n))
    BY <1>1, <2>2, SetProgramKeeps
  <2> QED
    BY <2>1, <2>3, PerformKeeps
<1>8. ASSUME NEW s \in Names, DetachShader(c, n, s) PROVE ProgInv'
  <2> DEFINE q == ResolveLink(progs, n)
             t == progs.shader[s].type
             z == [ReleaseShader(q, s) EXCEPT !.program[n].shaders[t] = 0]
  <2>1. IsProgram(progs, n) /\ IsShader(progs, s) /\ progs.program[n].shaders[t] = s
        /\ Perform(Call("DetachShader", c, n, s), z)
    BY <1>8 DEF DetachShader
  <2>2. ObjOK(q) /\ SameButLink(progs, q, n) /\ IsProgram(q, n)
    BY <1>1, <2>1, OKFacts
  <2> HIDE DEF q
  <2>3. IsShader(q, s) /\ t = q.shader[s].type /\ q.program[n].shaders[t] = s
    BY <2>1, <2>2 DEF SameButLink, SameShader, IsShader
  <2> HIDE DEF t
  <2>4. ObjOK(z)
    BY <2>2, <2>3, DetachKeeps
  <2> HIDE DEF z
  <2> QED
    BY <2>1, <2>4, PerformKeeps
<1> QED
  BY <1>2, <1>3, <1>4, <1>5, <1>6, <1>7, <1>8

\* The calls that resolve none.
LEMMA ReturnedCalls ==
    ASSUME ProgInv, NEW c \in alive, NEW n,
           \/ \E type \in client.types, source \in client.sources : CreateShader(c, type, source)
           \/ CreateProgram(c) \/ ReleaseShaderCompiler(c) \/ MaxShaderCompilerThreads(c, n)
           \/ \E source \in client.sources : ShaderSource(c, n, source)
           \/ \E s \in Names : AttachShader(c, n, s)
    PROVE  ProgInv'
<1>1. ObjOK(progs) /\ c \in Contexts
  BY DEF ProgInv
<1>2. ASSUME NEW type \in client.types, NEW source, CreateShader(c, type, source) PROVE ProgInv'
  <2>1. type \in Types
    BY ProgramAssumption DEF ProgInv
  <2> DEFINE q == [progs EXCEPT !.alloc = TakeName(@),
                                !.shader[NextName(progs.alloc)] = NewShader(type, source)]
  <2>2. ObjOK(q)
    BY <1>1, <1>2, <2>1, CreateShaderKeeps DEF CreateShader
  <2>3. Returns(Call("CreateShader", c, type, source), q)
    BY <1>2 DEF CreateShader
  <2> HIDE DEF q
  <2> QED
    BY <2>2, <2>3, ReturnsKeeps
<1>3. CASE CreateProgram(c)
  <2> DEFINE q == [progs EXCEPT !.alloc = TakeName(@), !.program[NextName(progs.alloc)] = NewProgram]
  <2>1. ObjOK(q)
    BY <1>1, <1>3, CreateProgramKeeps DEF CreateProgram
  <2>2. Returns(Call("CreateProgram", c, 0, 0), q)
    BY <1>3 DEF CreateProgram
  <2> HIDE DEF q
  <2> QED
    BY <2>1, <2>2, ReturnsKeeps
<1>4. CASE ReleaseShaderCompiler(c)
  <2> DEFINE q == [progs EXCEPT !.compilerOf[c] = 0]
  <2>1. PICK x : q = [progs EXCEPT !.compilerOf = x]
    OBVIOUS
  <2> HIDE DEF q
  <2>2. \A w : ObjOK([progs EXCEPT !.compilerOf = x])
    BY <1>1, WaitsKeep
  <2>3. ObjOK(DropCompilers(q))
    BY <2>1, <2>2, DroppedKeeps
  <2>4. Returns(Call("ReleaseShaderCompiler", c, 0, 0), DropCompilers(q))
    BY <1>4 DEF ReleaseShaderCompiler, q
  <2> QED
    BY <2>3, <2>4, ReturnsKeeps
<1>5. CASE MaxShaderCompilerThreads(c, n)
  <2>1. PICK r : /\ Returns(Call("MaxShaderCompilerThreads", c, n, 0), r)
                 /\ \E x, y : r = [progs EXCEPT !.workers = x] \/ r = [progs EXCEPT !.poolOf = y, !.workers = x]
    BY <1>5 DEF MaxShaderCompilerThreads
  <2>2. PICK x, y : r = [progs EXCEPT !.workers = x] \/ r = [progs EXCEPT !.poolOf = y, !.workers = x]
    BY <2>1
  <2> DEFINE q == [progs EXCEPT !.poolOf = y]
  <2>3. r = [progs EXCEPT !.workers = x] \/ r = [q EXCEPT !.workers = x]
    BY <2>2
  <2>4. \A w : ObjOK([progs EXCEPT !.workers = x]) /\ ObjOK([progs EXCEPT !.poolOf = y])
    BY <1>1, WaitsKeep
  <2>5. ObjOK(q)
    BY <2>4
  <2> HIDE DEF q
  <2>6. \A w : ObjOK([q EXCEPT !.workers = x])
    BY <2>5, WaitsKeep
  <2>7. ObjOK(r)
    BY <2>3, <2>4, <2>6
  <2> QED
    BY <2>1, <2>7, ReturnsKeeps
<1>6. ASSUME NEW source, ShaderSource(c, n, source) PROVE ProgInv'
  <2> DEFINE q == [progs EXCEPT !.shader[n].source = source]
  <2>1. ObjOK(q)
    BY <1>1, <1>6, SourceKeeps DEF ShaderSource
  <2>2. Returns(Call("ShaderSource", c, n, source), q)
    BY <1>6 DEF ShaderSource
  <2> HIDE DEF q
  <2> QED
    BY <2>1, <2>2, ReturnsKeeps
<1>7. ASSUME NEW s \in Names, AttachShader(c, n, s) PROVE ProgInv'
  <2> DEFINE q == ResolveLink(progs, n)
             t == progs.shader[s].type
             z == [q EXCEPT !.program[n].shaders[t] = s, !.shader[s].refs = @ + 1]
  <2>1. IsProgram(progs, n) /\ IsShader(progs, s) /\ progs.program[n].shaders[t] = 0
        /\ Returns(Call("AttachShader", c, n, s), z)
    BY <1>7 DEF AttachShader
  <2>2. ObjOK(q) /\ SameButLink(progs, q, n) /\ IsProgram(q, n)
    BY <1>1, <2>1, OKFacts
  <2> HIDE DEF q
  <2>3. IsShader(q, s) /\ t = q.shader[s].type /\ q.program[n].shaders[t] = 0
    BY <2>1, <2>2, SMTT(40) DEF SameButLink, SameShader, IsShader
  <2> HIDE DEF t
  <2>4. ObjOK(z)
    BY <2>2, <2>3, AttachKeeps
  <2> HIDE DEF z
  <2> QED
    BY <2>1, <2>4, ReturnsKeeps, SMTT(40)
<1> QED
  BY <1>2, <1>3, <1>4, <1>5, <1>6, <1>7

LEMMA ProgramCalls ==
    ASSUME ProgInv, NEW c \in alive, ProgramCall(c)
    PROVE  ProgInv'
<1>1. ASSUME NEW n, \/ CompileShader(c, n) \/ GetShader(c, n) \/ DeleteShader(c, n) \/ DeleteProgram(c, n)
                    \/ LinkProgram(c, n) \/ UseProgram(c, n) \/ \E s \in Names : DetachShader(c, n, s)
      PROVE  ProgInv'
  BY <1>1, PerformedCalls
<1>2. ASSUME NEW n, \/ \E type \in client.types, source \in client.sources : CreateShader(c, type, source)
                    \/ CreateProgram(c) \/ ReleaseShaderCompiler(c) \/ MaxShaderCompilerThreads(c, n)
                    \/ \E source \in client.sources : ShaderSource(c, n, source)
                    \/ \E s \in Names : AttachShader(c, n, s)
      PROVE  ProgInv'
  BY <1>2, ReturnedCalls
<1>3. CASE \/ \E type \in client.types, source \in client.sources : CreateShader(c, type, source)
           \/ CreateProgram(c) \/ ReleaseShaderCompiler(c)
           \/ \E count \in client.counts : MaxShaderCompilerThreads(c, count)
  BY <1>2, <1>3
<1>4. CASE \E n \in Names \cup {0} : UseProgram(c, n)
  BY <1>1, <1>4
<1>5. ASSUME NEW n \in Names,
             \/ CompileShader(c, n) \/ GetShader(c, n) \/ DeleteShader(c, n) \/ DeleteProgram(c, n)
             \/ LinkProgram(c, n)
             \/ \E source \in client.sources : ShaderSource(c, n, source)
             \/ \E s \in Names : AttachShader(c, n, s) \/ DetachShader(c, n, s)
      PROVE  ProgInv'
  BY <1>1, <1>2, <1>5
<1> QED
  BY <1>3, <1>4, <1>5 DEF ProgramCall

LEMMA WorkerKeeps ==
    ASSUME ProgInv, WorkerStep
    PROVE  ProgInv'
<1>1. ObjOK(progs)
  BY DEF ProgInv
<1>2. ObjOK(progs')
  <2>1. ASSUME NEW i, RunTask(i) PROVE ObjOK(progs')
    <3> DEFINE q == RunTranslation(progs, i)
    <3>1. PICK x : progs' = [q EXCEPT !.workers = x]
      BY <2>1 DEF RunTask
    <3>2. ObjOK(q)
      BY <1>1, OKFacts, RunTranslationKeeps, SameOK
    <3> HIDE DEF q
    <3>3. \A w : ObjOK([q EXCEPT !.workers = x])
      BY <3>2, WaitsKeep
    <3> QED
      BY <3>1, <3>3
  <2>2. ASSUME NEW i, FinishTask(i) PROVE ObjOK(progs')
    <3>1. PICK x : progs' = [progs EXCEPT !.workers = x]
      BY <2>2 DEF FinishTask
    <3>2. \A w : ObjOK([progs EXCEPT !.workers = x])
      BY <1>1, WaitsKeep
    <3> QED
      BY <3>1, <3>2
  <2> QED
    BY <2>1, <2>2 DEF WorkerStep
<1> QED
  BY <1>2 DEF ProgInv, WorkerStep, entryVars

LEMMA ReleaseKeeps ==
    ASSUME NEW p, ObjOK(p), NEW c \in Contexts, NEW last
    PROVE  ObjOK(ReleasePrograms(p, c, last))
<1> DEFINE o == [p EXCEPT !.compilerOf[c] = 0]
           d == DropCompilers(o)
           q == LeaveProgram(d, c)
           s == ClearPrograms(q)
           r == IF last THEN ResetPrograms(q) ELSE q
           z == [r EXCEPT !.poolOf[c] = 0]
<1>1. ReleasePrograms(p, c, last) = z
  BY DEF ReleasePrograms
<1>2. ObjOK(o)
  <2>1. PICK x : o = [p EXCEPT !.compilerOf = x]
    OBVIOUS
  <2> HIDE DEF o
  <2>2. \A w : ObjOK([p EXCEPT !.compilerOf = x])
    BY WaitsKeep
  <2> QED
    BY <2>1, <2>2
<1> HIDE DEF o
<1>3. ObjOK(d)
  BY <1>2, DroppedKeeps
<1> HIDE DEF d
<1>4. ObjOK(q)
  BY <1>3, LeaveKeeps
<1> HIDE DEF q
<1>5. ObjOK(r)
  <2>1. ObjOK(s)
    BY <1>4, ClearProgramsKeeps
  <2>2. ResetPrograms(q) = s \/ ResetPrograms(q) = ClearShaders(s)
    BY DEF ResetPrograms
  <2> HIDE DEF s
  <2>3. ObjOK(ClearShaders(s))
    BY <2>1, ClearShadersKeeps
  <2> QED
    BY <1>4, <2>1, <2>2, <2>3
<1> HIDE DEF r
<1>6. ObjOK(z)
  <2>1. PICK x : z = [r EXCEPT !.poolOf = x]
    OBVIOUS
  <2> HIDE DEF z
  <2>2. \A w : ObjOK([r EXCEPT !.poolOf = x])
    BY <1>5, WaitsKeep
  <2> QED
    BY <2>1, <2>2
<1> QED
  BY <1>1, <1>6 DEF z

LEMMA DestroyContextKeeps ==
    ASSUME ProgInv, NEW c \in alive, DestroyContext(c)
    PROVE  ProgInv'
<1> DEFINE p == ReleasePrograms(progs, c, alive = {c})
<1>1. ObjOK(p)
  BY ReleaseKeeps DEF ProgInv
<1>2. progs' = DropPools([p EXCEPT !.waits = {}]) \/ progs' = progs
  BY DEF DestroyContext
<1> HIDE DEF p
<1>3. ObjOK(progs')
  BY <1>1, <1>2, WaitsKeep, DropPoolsKeeps DEF ProgInv
<1>4. alive' \subseteq alive /\ client' = client
  BY DEF DestroyContext
<1> QED
  BY <1>3, <1>4 DEF ProgInv

LEMMA InitPrograms == Init => ProgInv
<1> SUFFICES ASSUME Init PROVE ProgInv
  OBVIOUS
<1> DEFINE z == NewPrograms
           C == [c \in Contexts |-> 0]
           zero == [t \in Types |-> [m \in Names |-> 0]]
<1>1. Fields(z) /\ z.alloc = NewAllocator /\ z.shader = [n \in Names |-> NoShader]
      /\ z.program = [n \in Names |-> NoProgram] /\ z.current = C
  BY DEF NewPrograms, Fields
<1> HIDE DEF z
<1>2. Shaped(z)
  BY <1>1 DEF Shaped
<1>3. (\A n : ~IsShader(z, n)) /\ \A n : ~IsProgram(z, n)
  BY <1>1 DEF IsShader, IsProgram, NoShader, NoProgram
<1>4. FreeObjects(z) = Names
  BY <1>3 DEF FreeObjects
<1>5. Named(z)
  BY <1>1, <1>2, <1>3, <1>4, NewAlloc DEF Named
<1>6. Attached(z) = zero
  BY <1>1 DEF Attached, NoProgram
<1>7. ShadersCounted(z, zero)
  BY <1>3 DEF ShadersCounted
<1>8. ProgramsCounted(z, C, {})
  BY <1>3 DEF ProgramsCounted
<1>9. ObjOK(z)
  BY <1>1, <1>5, <1>6, <1>7, <1>8 DEF ObjOK, ObjInv
<1>10. ObjOK(progs)
  <2>1. PICK x, y : progs = [z EXCEPT !.poolOf = y, !.workers = x]
    BY DEF Init, ProgramsInit, z
  <2> DEFINE q == [z EXCEPT !.poolOf = y]
  <2>2. progs = [q EXCEPT !.workers = x]
    BY <2>1
  <2>3. \A w : ObjOK([z EXCEPT !.poolOf = y])
    BY <1>9, WaitsKeep
  <2>4. ObjOK(q)
    BY <2>3
  <2> HIDE DEF q
  <2>5. \A w : ObjOK([q EXCEPT !.workers = x])
    BY <2>4, WaitsKeep
  <2> QED
    BY <2>2, <2>5, SMTT(40)
<1>11. client \in Clients /\ alive \subseteq Contexts
  BY ClientsAssumption DEF Init, EntryInit
<1> QED
  BY <1>10, <1>11 DEF ProgInv

LEMMA StepPrograms == ProgInv /\ [Next]_vars => ProgInv'
<1> SUFFICES ASSUME ProgInv, [Next]_vars PROVE ProgInv'
  OBVIOUS
<1>1. ASSUME progs' = progs, UNCHANGED <<client, alive>> PROVE ProgInv'
  BY <1>1 DEF ProgInv
<1>2. ASSUME NEW call, CallReturns(call) PROVE UNCHANGED <<client, alive>>
  BY <1>2 DEF CallReturns, entryVars
<1>3. ASSUME NEW c \in alive, ContextStep(c) PROVE ProgInv'
  <2>1. CASE BufferCall(c) /\ UNCHANGED <<progs, syncs>>
    <3>1. UNCHANGED <<client, alive>>
      BY <1>2, <2>1 DEF BufferCall, GenBuffer, UnbindBuffer, BindBuffer, DeleteBuffers
    <3> QED
      BY <1>1, <2>1, <3>1
  <2>2. CASE ProgramCall(c)
    BY <2>2, ProgramCalls
  <2>3. CASE (SyncCall(c) \/ Finish(c)) /\ UNCHANGED <<bufs, progs>>
    <3>1. SyncCall(c) => UNCHANGED <<client, alive>>
      BY <1>2 DEF SyncCall, Draw, Flush, FenceSync, DeleteSync, SetFenceNV, WaitSync, PollSync,
                  ClientWaitSync, FinishFenceNV, ClientWait
    <3>2. Finish(c) => UNCHANGED <<client, alive>>
      BY DEF Finish
    <3> QED
      BY <1>1, <2>3, <3>1, <3>2
  <2>4. CASE DestroyContext(c)
    BY <2>4, DestroyContextKeeps
  <2> QED
    BY <1>3, <2>1, <2>2, <2>3, <2>4 DEF ContextStep
<1>4. CASE Workers
  BY <1>4, WorkerKeeps DEF Workers
<1>5. CASE Gpu
  BY <1>1, <1>5 DEF Gpu, GpuStep, Listeners, Fire, entryVars
<1>6. CASE WaitingThread
  BY <1>1, <1>6 DEF WaitingThread, ThreadStep
<1>7. CASE UNCHANGED vars
  BY <1>1, <1>7 DEF vars
<1> QED
  BY <1>3, <1>4, <1>5, <1>6, <1>7 DEF Next, Ended

-----------------------------------------------------------------------------
(* The theorems.                                                           *)

\* Shaders and programs, their names and their references are consistent in
\* every reachable state (ShaderProgramManager, Program.cpp, Shader.cpp).
THEOREM ProgramInvariant == Spec => []ProgInv
<1> QED
  BY InitPrograms, StepPrograms, PTL DEF Spec

\* A shader is kept exactly as long as its name or a program needs it, and a
\* program as long as its name or a context does, for any number of contexts,
\* names and compilations (ShaderProgramManager, Program and Shader::release).
THEOREM RefCountsExactAlways == Spec => []RefCountsExact
<1>1. ProgInv => RefCountsExact
  <2> SUFFICES ASSUME ProgInv PROVE RefCountsExact
    OBVIOUS
  <2> DEFINE U == Attached(progs)
             C == progs.current
  <2>1. ObjInv(progs, U, C, {}) /\ Shaped(progs)
    BY OKFacts DEF ProgInv, ObjOK
  <2>2. ASSUME NEW n \in Names, IsShader(progs, n)
        PROVE  LET s == progs.shader[n]
                   users == {m \in Names : IsProgram(progs, m) /\ progs.program[m].shaders[s.type] = n}
               IN  s.refs = Cardinality(users) /\ (s.flagged => s.refs > 0)
    <3> DEFINE s == progs.shader[n]
               users == {m \in Names : IsProgram(progs, m) /\ progs.program[m].shaders[s.type] = n}
    <3>1. s.type \in Types
      BY <2>1, <2>2, ShapedShader DEF ShaderShape
    <3>2. s.refs = Count(Names, U[s.type], n) /\ (s.flagged => s.refs > 0)
      BY <2>1, <2>2 DEF ObjInv, ShadersCounted
    <3>3. \A m \in Names : U[s.type][m] = n <=> m \in users
      BY <3>1, SetsFinite DEF Attached, IsProgram
    <3>4. users = {m \in Names : U[s.type][m] = n}
      BY <3>3
    <3> QED
      BY <3>2, <3>4 DEF Count
  <2>3. ASSUME NEW n \in Names, IsProgram(progs, n)
        PROVE  LET p == progs.program[n]
               IN  /\ p.refs = Cardinality({c \in Contexts : progs.current[c] = n})
                   /\ p.flagged => p.refs > 0
                   /\ \A t \in Types : p.shaders[t] = 0 \/ IsShader(progs, p.shaders[t])
    <3>1. ProperRefs(progs.program[n], C, n)
      BY <2>1, <2>3 DEF ObjInv, ProgramsCounted, ProperRefs
    <3>2. \A t \in Types : U[t][n] = progs.program[n].shaders[t]
      BY <2>3 DEF Attached, IsProgram
    <3>3. \A t \in Types : U[t][n] = 0 \/ IsShader(progs, U[t][n])
      BY <2>1 DEF ObjInv, ShadersCounted
    <3> QED
      BY <3>1, <3>2, <3>3 DEF ProperRefs, Count
  <2>4. \A c \in Contexts : C[c] = 0 \/ IsProgram(progs, C[c])
    BY <2>1 DEF ObjInv, ProgramsCounted
  <2> QED
    BY <2>2, <2>3, <2>4 DEF RefCountsExact
<1> QED
  BY <1>1, ProgramInvariant, PTL

\* The program that a context uses has its link resolved, for any number of
\* contexts and names (Context::useProgram, onProgramLink).
THEOREM InUseIsResolvedAlways == Spec => []InUseIsResolved
<1>1. ProgInv => InUseIsResolved
  BY DEF ProgInv, ObjOK, ObjInv, ProgramsCounted, InUseIsResolved
<1> QED
  BY <1>1, ProgramInvariant, PTL
=============================================================================
