--------------------------- MODULE BufferMtlProofs ---------------------------
(***************************************************************************)
(* What holds of GL buffers on Metal for every repertoire of a client, any *)
(* number of buffers, contents, storages and commands.                     *)
(***************************************************************************)
EXTENDS BufferMtl, BufferPoolLemmas

-----------------------------------------------------------------------------
(* Executing commands one after the other.                                  *)

\* Induction over the numbers, with the property as a set.
LEMMA Induction ==
    ASSUME NEW S \in SUBSET Nat, 0 \in S, \A k \in S : k + 1 \in S
    PROVE  S = Nat
<1> SUFFICES ASSUME Nat \ S # {} PROVE FALSE
  OBVIOUS
<1>1. PICK m \in Nat \ S : \A k \in Nat \ S : m <= k
  BY LeastNat
<1>2. m # 0 /\ m - 1 \in Nat
  BY <1>1
<1>3. m - 1 \in S
  BY <1>1, <1>2
<1>4. (m - 1) + 1 \in S
  BY <1>3
<1> QED
  BY <1>1, <1>4

\* The greatest of the numbers up to n, and of a set with n.
LEMMA MaxOfUpTo ==
    ASSUME NEW n \in Nat, NEW t, t \subseteq 1..n, n \in t
    PROVE  Max(t) = n
<1>1. \A y \in t : n >= y
  OBVIOUS
<1>2. \A x \in t : (\A y \in t : x >= y) => x = n
  OBVIOUS
<1> QED
  BY <1>1, <1>2 DEF Max

\* f is what the fold of commands s over the world w computes for the sets of
\* the first n places.
Folds(w, s, f, n) ==
    f = [t \in SUBSET (1..n) |-> IF t = {} THEN w ELSE Execute(f[t \ {Max(t)}], s[Max(t)])]

\* The recursive definition of the fold has a solution.
LEMMA FoldsExist ==
    ASSUME NEW w, NEW s, NEW n \in Nat
    PROVE  \E f : Folds(w, s, f, n)
<1> DEFINE S == {k \in Nat : \E f : Folds(w, s, f, k)}
<1>1. \E f : Folds(w, s, f, 0)
  <2> DEFINE f == [t \in SUBSET (1..0) |-> w]
  <2>1. \A t \in SUBSET (1..0) : t = {}
    OBVIOUS
  <2>2. Folds(w, s, f, 0)
    BY <2>1 DEF Folds
  <2> QED
    BY <2>2
<1>2. ASSUME NEW k \in Nat, \E f : Folds(w, s, f, k)
      PROVE  \E f : Folds(w, s, f, k + 1)
  <2>1. PICK f : Folds(w, s, f, k)
    BY <1>2
  <2> DEFINE g == [t \in SUBSET (1..(k + 1)) |->
                     IF k + 1 \in t THEN Execute(f[t \ {k + 1}], s[k + 1]) ELSE f[t]]
  <2>2. \A t \in SUBSET (1..k) : f[t] = IF t = {} THEN w ELSE Execute(f[t \ {Max(t)}], s[Max(t)])
    BY <2>1 DEF Folds
  <2>3. \A t \in SUBSET (1..k) : k + 1 \notin t /\ t \in SUBSET (1..(k + 1)) /\ g[t] = f[t]
    OBVIOUS
  <2>4. ASSUME NEW t \in SUBSET (1..(k + 1))
        PROVE  g[t] = IF t = {} THEN w ELSE Execute(g[t \ {Max(t)}], s[Max(t)])
    <3>1. CASE k + 1 \in t
      <4>1. Max(t) = k + 1
        <5>1. k + 1 \in Nat /\ t \subseteq 1..(k + 1)
          OBVIOUS
        <5> QED
          BY <3>1, <5>1, MaxOfUpTo
      <4>2. t \ {k + 1} \in SUBSET (1..k)
        OBVIOUS
      <4>3. g[t \ {k + 1}] = f[t \ {k + 1}] /\ g[t] = Execute(f[t \ {k + 1}], s[k + 1])
        BY <2>3, <3>1, <4>2
      <4> HIDE DEF g
      <4> QED
        BY <3>1, <4>1, <4>3
    <3>2. CASE k + 1 \notin t
      <4>1. t \in SUBSET (1..k) /\ t \ {Max(t)} \in SUBSET (1..k)
        <5>1. \A x \in 1..(k + 1) : x = k + 1 \/ x \in 1..k
          OBVIOUS
        <5>2. \A x \in t : x \in 1..k
          BY <3>2, <5>1
        <5> QED
          BY <5>2
      <4>2. g[t] = f[t] /\ g[t \ {Max(t)}] = f[t \ {Max(t)}]
        BY <2>3, <4>1
      <4> HIDE DEF g
      <4> QED
        BY <2>2, <4>1, <4>2
    <3> QED
      BY <3>1, <3>2
  <2>5. g = [t \in SUBSET (1..(k + 1)) |-> g[t]]
    OBVIOUS
  <2> HIDE DEF g
  <2>6. Folds(w, s, g, k + 1)
    BY <2>4, <2>5 DEF Folds
  <2> QED
    BY <2>6
<1>3. S \in SUBSET Nat /\ 0 \in S /\ \A k \in S : k + 1 \in S
  BY <1>1, <1>2
<1> HIDE DEF S
<1>4. S = Nat
  BY <1>3, Induction
<1> QED
  BY <1>4 DEF S

\* The fold is the last value of its solution.
LEMMA FoldIs ==
    ASSUME NEW w, NEW s, NEW n \in Nat, DOMAIN s = 1..n
    PROVE  \E f : Folds(w, s, f, n) /\ FoldLeft(Execute, w, s) = f[1..n]
<1>1. \E f : Folds(w, s, f, n)
  BY FoldsExist
<1> DEFINE r[t \in SUBSET (1..n)] == IF t = {} THEN w ELSE Execute(r[t \ {Max(t)}], s[Max(t)])
<1>2. FoldLeft(Execute, w, s) = r[1..n]
  BY DEF FoldLeft, MapThenFoldSet
<1>3. Folds(w, s, r, n)
  BY <1>1 DEF Folds
<1> QED
  BY <1>2, <1>3

\* The values of the solution for the first places.
LEMMA FoldSteps ==
    ASSUME NEW w, NEW s, NEW n \in Nat, NEW f, Folds(w, s, f, n)
    PROVE  /\ f[1..0] = w
           /\ \A j \in 0..n : j + 1 <= n => f[1..(j + 1)] = Execute(f[1..j], s[j + 1])
<1>1. \A t \in SUBSET (1..n) : f[t] = IF t = {} THEN w ELSE Execute(f[t \ {Max(t)}], s[Max(t)])
  BY DEF Folds
<1>2. f[1..0] = w
  <2>1. 1..0 = {} /\ {} \in SUBSET (1..n)
    OBVIOUS
  <2> QED
    BY <1>1, <2>1
<1>3. ASSUME NEW j \in 0..n, j + 1 <= n
      PROVE  f[1..(j + 1)] = Execute(f[1..j], s[j + 1])
  <2> DEFINE t == 1..(j + 1)
  <2>1. t \in SUBSET (1..n) /\ t # {} /\ t \subseteq 1..(j + 1) /\ j + 1 \in t /\ j + 1 \in Nat
    BY <1>3
  <2>2. t \ {j + 1} = 1..j
    OBVIOUS
  <2> HIDE DEF t
  <2>3. Max(t) = j + 1
    BY <2>1, MaxOfUpTo
  <2>4. f[t] = Execute(f[t \ {Max(t)}], s[Max(t)])
    BY <1>1, <2>1
  <2> QED
    BY <2>2, <2>3, <2>4 DEF t
<1> QED
  BY <1>2, <1>3

\* The contents of a storage are numbers, those of a conversion included.
Data == [Cells -> Nat]

CommandKinds == {"draw", "copy", "fill", "convert", "synchronize"}

Commands ==
    [kind : CommandKinds, src : Storages \cup {NoBuffer}, dst : Storages \cup {NoBuffer},
     cells : SUBSET Cells, bytes : Data, serial : Nat]

WorldType ==
    [mem : MemoryType, now : Nat, done : Nat, queue : Seq(Commands),
     cpu : [Storages -> Data], gpu : [Storages -> Data], dirty : [Storages -> BOOLEAN]]

\* The world when the first k commands have been executed, and all of them.
Ran(w, k) == FoldLeft(Execute, w, SubSeq(w.queue, 1, k))
Final(w) == Ran(w, Len(w.queue))

LEMMA RanSteps ==
    ASSUME NEW w, w.queue \in Seq(Commands)
    PROVE  /\ Len(w.queue) \in Nat /\ Ran(w, 0) = w
           /\ \A k \in 0..Len(w.queue) :
                k + 1 <= Len(w.queue) => Ran(w, k + 1) = Execute(Ran(w, k), w.queue[k + 1])
<1> DEFINE q == w.queue
           n == Len(q)
<1>1. n \in Nat /\ \A i \in 1..n : q[i] \in Commands
  BY LenProperties, ElementOfSeq
<1> HIDE DEF q, n
<1>2. PICK f : Folds(w, q, f, n)
  BY <1>1, FoldsExist
<1>3. /\ f[1..0] = w
      /\ \A j \in 0..n : j + 1 <= n => f[1..(j + 1)] = Execute(f[1..j], q[j + 1])
  BY <1>1, <1>2, FoldSteps
<1>4. ASSUME NEW k \in 0..n
      PROVE  Ran(w, k) = f[1..k]
  <2> DEFINE p == SubSeq(q, 1, k)
  <2>1. p \in Seq(Commands) /\ Len(p) = k /\ \A j \in 1..k : p[j] = q[j]
    <3>1. 1 \in Int /\ k \in Int /\ \A i \in 1..k : q[i] \in Commands
      BY <1>1
    <3>2. /\ p \in Seq(Commands) /\ Len(p) = IF 1 <= k THEN k - 1 + 1 ELSE 0
          /\ \A i \in 1..(k - 1 + 1) : p[i] = q[1 + i - 1]
      BY <3>1, SubSeqProperties
    <3> HIDE DEF p
    <3> QED
      BY <3>2
  <2> HIDE DEF p
  <2>2. DOMAIN p = 1..k /\ k \in Nat
    BY <2>1, LenProperties
  <2>3. PICK g : Folds(w, p, g, k) /\ FoldLeft(Execute, w, p) = g[1..k]
    BY <2>2, FoldIs
  <2>4. /\ g[1..0] = w
        /\ \A j \in 0..k : j + 1 <= k => g[1..(j + 1)] = Execute(g[1..j], p[j + 1])
    BY <2>2, <2>3, FoldSteps
  <2> DEFINE S == {j \in Nat : j <= k => g[1..j] = f[1..j]}
  <2>5. 0 \in S
    BY <1>3, <2>4
  <2>6. ASSUME NEW j \in S PROVE j + 1 \in S
    <3> SUFFICES ASSUME j + 1 <= k PROVE g[1..(j + 1)] = f[1..(j + 1)]
      OBVIOUS
    <3>1. j \in 0..k /\ j \in 0..n /\ j + 1 <= n /\ j + 1 \in 1..k
      BY <1>1
    <3>2. g[1..j] = f[1..j]
      BY <3>1
    <3> HIDE DEF S
    <3> QED
      BY <1>3, <2>1, <2>4, <3>1, <3>2
  <2>7. S \in SUBSET Nat
    OBVIOUS
  <2> HIDE DEF S
  <2>8. k \in S
    BY <2>2, <2>5, <2>6, <2>7, Induction
  <2> QED
    BY <2>3, <2>8 DEF S, Ran, p, q
<1>5. Ran(w, 0) = w
  BY <1>1, <1>3, <1>4
<1>6. ASSUME NEW k \in 0..n, k + 1 <= n
      PROVE  Ran(w, k + 1) = Execute(Ran(w, k), q[k + 1])
  <2>1. k + 1 \in 0..n
    BY <1>1, <1>6
  <2> QED
    BY <1>3, <1>4, <1>6, <2>1
<1> QED
  BY <1>1, <1>5, <1>6 DEF q, n

-----------------------------------------------------------------------------
(* What a command does to each storage.                                     *)

Reads(c) == c.kind # "fill"
Writes(c) == c.kind \in {"copy", "fill", "convert"}
Touches(c, s) == s \in {c.src, c.dst}

\* A command has the storages its kind needs.
Proper(c) ==
    /\ Reads(c) => c.src \in Storages
    /\ ~Reads(c) => c.src = NoBuffer
    /\ Writes(c) => c.dst \in Storages
    /\ ~Writes(c) => c.dst = NoBuffer
    /\ c.src # c.dst

GpuAfter(w, c, s) ==
    IF s # c.dst THEN w.gpu[s]
    ELSE IF c.kind = "copy" THEN Merge(w.gpu[s], c.cells, w.gpu[c.src])
    ELSE IF c.kind = "fill" THEN Merge(w.gpu[s], c.cells, c.bytes)
    ELSE Converted(w.gpu[c.src])

CpuAfter(w, c, s) ==
    IF c.kind = "synchronize" /\ s = c.src THEN w.gpu[s]
    ELSE IF s = c.dst /\ w.mem.shared[s] THEN GpuAfter(w, c, s)
    ELSE w.cpu[s]

\* v is w but for the contents of the storages.
SameRest(w, v) ==
    /\ v.mem = w.mem /\ v.now = w.now /\ v.done = w.done /\ v.queue = w.queue
    /\ v.dirty = w.dirty

LEMMA ConstantTypes ==
    /\ NumValues \in Nat \ {0, 1} /\ Cells \subseteq Nat \ {0}
    /\ PoolLimit \in Nat \ {0, 1}
  BY BufferAssumption

LEMMA MergeType ==
    ASSUME NEW a \in Data, NEW cells, NEW b \in Data
    PROVE  /\ Merge(a, cells, b) \in Data
           /\ \A c \in Cells : Merge(a, cells, b)[c] = IF c \in cells THEN b[c] ELSE a[c]
  BY DEF Merge, Data

LEMMA ConvertedType ==
    ASSUME NEW a \in Data
    PROVE  /\ Converted(a) \in Data
           /\ \A c \in Cells : Converted(a)[c] = a[c] + NumValues + 1
<1>1. \A c \in Cells : a[c] + NumValues + 1 \in Nat
  BY ConstantTypes DEF Data
<1> QED
  BY <1>1 DEF Converted, Data

LEMMA StoragesAre ==
    /\ MaxStorages \in Nat
    /\ \A s \in Storages : s \in Nat /\ s # 0 /\ s # NoBuffer /\ s <= MaxStorages
<1>1. MaxStorages \in Nat
  BY StoragesBounded
<1> QED
  BY <1>1 DEF Storages, NoBuffer

\* The effect of a command on the contents of every storage.
LEMMA ExecuteIs ==
    ASSUME NEW w \in WorldType, NEW c \in Commands, Proper(c)
    PROVE  LET v == Execute(w, c) IN
           /\ v \in WorldType /\ SameRest(w, v)
           /\ \A s \in Storages : /\ v.gpu[s] = GpuAfter(w, c, s)
                                  /\ v.cpu[s] = CpuAfter(w, c, s)
<1> DEFINE v == Execute(w, c)
<1>1. /\ w.gpu \in [Storages -> Data] /\ w.cpu \in [Storages -> Data]
      /\ w.mem.shared \in [Storages -> BOOLEAN]
  BY DEF WorldType, MemoryType
<1>2. \A s \in Storages : w.gpu[s] \in Data /\ w.cpu[s] \in Data
  BY <1>1
<1>3. c.bytes \in Data /\ c.kind \in CommandKinds /\ NoBuffer \notin Storages
  BY StoragesAre DEF Commands
<1>4. ASSUME NEW g \in [Storages -> Data], NEW d \in [Storages -> Data]
      PROVE  LET u == [[w EXCEPT !.gpu = g] EXCEPT !.cpu = d] IN
             u \in WorldType /\ SameRest(w, u) /\ u.gpu = g /\ u.cpu = d
  BY DEF WorldType, SameRest
<1>5. CASE c.kind = "draw"
  <2>1. v = w
    BY <1>5 DEF Execute
  <2>2. c.dst = NoBuffer
    BY <1>5 DEF Proper, Writes
  <2>3. \A s \in Storages : s # c.dst
    BY <1>3, <2>2
  <2> HIDE DEF v
  <2> QED
    BY <1>5, <2>1, <2>3 DEF SameRest, GpuAfter, CpuAfter, v
<1>6. CASE c.kind = "synchronize"
  <2>1. c.src \in Storages /\ c.dst = NoBuffer
    BY <1>6 DEF Proper, Writes, Reads
  <2>2. v = [w EXCEPT !.cpu[c.src] = w.gpu[c.src]]
    BY <1>6 DEF Execute
  <2> DEFINE d == [w.cpu EXCEPT ![c.src] = w.gpu[c.src]]
  <2>3. d \in [Storages -> Data]
    BY <1>1, <1>2, <2>1
  <2>4. \A s \in Storages : d[s] = IF s = c.src THEN w.gpu[s] ELSE w.cpu[s]
    BY <1>1, <2>1
  <2>5. v = [[w EXCEPT !.gpu = w.gpu] EXCEPT !.cpu = d]
    BY <2>2 DEF WorldType
  <2> HIDE DEF v, d
  <2>6. v \in WorldType /\ SameRest(w, v) /\ v.gpu = w.gpu /\ v.cpu = d
    BY <1>1, <1>4, <2>3, <2>5
  <2>7. \A s \in Storages : s # c.dst
    BY <1>3, <2>1
  <2> QED
    BY <1>6, <2>4, <2>6, <2>7 DEF GpuAfter, CpuAfter, v
<1>7. CASE Writes(c)
  <2> DEFINE bytes == GpuAfter(w, c, c.dst)
             g == [w.gpu EXCEPT ![c.dst] = bytes]
             d == [w.cpu EXCEPT ![c.dst] = IF w.mem.shared[c.dst] THEN bytes ELSE @]
  <2>1. c.dst \in Storages /\ c.kind # "synchronize" /\ (c.kind # "fill" => c.src \in Storages)
    BY <1>7 DEF Proper, Writes, Reads
  <2>2. bytes \in Data
    BY <1>2, <1>3, <2>1, MergeType, ConvertedType DEF GpuAfter
  <2>3. v = GpuWrite(w, c.dst, bytes)
    <3>1. CASE c.kind = "copy"
      BY <3>1 DEF Execute, GpuAfter
    <3>2. CASE c.kind = "fill"
      BY <3>2 DEF Execute, GpuAfter
    <3>3. CASE c.kind = "convert"
      BY <3>3 DEF Execute, GpuAfter
    <3> QED
      BY <1>7, <3>1, <3>2, <3>3 DEF Writes
  <2>4. \A s \in Storages : s # c.dst => GpuAfter(w, c, s) = w.gpu[s]
    BY DEF GpuAfter
  <2> HIDE DEF bytes, v
  <2>5. g \in [Storages -> Data] /\ d \in [Storages -> Data]
    BY <1>1, <1>2, <2>1, <2>2
  <2>6. v = [[w EXCEPT !.gpu = g] EXCEPT !.cpu = d]
    BY <2>3 DEF GpuWrite, Managed, WorldType
  <2>7. \A s \in Storages : /\ g[s] = IF s = c.dst THEN bytes ELSE w.gpu[s]
                            /\ d[s] = IF s = c.dst /\ w.mem.shared[s] THEN bytes ELSE w.cpu[s]
    BY <1>1, <2>1
  <2> HIDE DEF g, d
  <2>8. v \in WorldType /\ SameRest(w, v) /\ v.gpu = g /\ v.cpu = d
    BY <1>4, <2>5, <2>6
  <2>9. \A s \in Storages : g[s] = GpuAfter(w, c, s)
    BY <2>4, <2>7 DEF bytes
  <2>10. \A s \in Storages : d[s] = CpuAfter(w, c, s)
    BY <2>1, <2>7 DEF CpuAfter, bytes
  <2> QED
    BY <2>8, <2>9, <2>10 DEF v
<1> QED
  BY <1>3, <1>5, <1>6, <1>7 DEF CommandKinds, Writes

AllProper(w) == \A i \in 1..Len(w.queue) : Proper(w.queue[i])

LEMMA QueueFacts ==
    ASSUME NEW w \in WorldType
    PROVE  /\ w.queue \in Seq(Commands) /\ Len(w.queue) \in Nat
           /\ DOMAIN w.queue = 1..Len(w.queue)
           /\ \A i \in 1..Len(w.queue) : w.queue[i] \in Commands
<1>1. w.queue \in Seq(Commands)
  BY DEF WorldType
<1> QED
  BY <1>1, LenProperties, ElementOfSeq

\* Executing commands leaves everything but the contents of storages.
LEMMA RanType ==
    ASSUME NEW w \in WorldType, AllProper(w)
    PROVE  \A k \in 0..Len(w.queue) : Ran(w, k) \in WorldType /\ SameRest(w, Ran(w, k))
<1>1. /\ Len(w.queue) \in Nat /\ Ran(w, 0) = w
      /\ \A k \in 0..Len(w.queue) :
           k + 1 <= Len(w.queue) => Ran(w, k + 1) = Execute(Ran(w, k), w.queue[k + 1])
  BY QueueFacts, RanSteps
<1> DEFINE Good(k) == Ran(w, k) \in WorldType /\ SameRest(w, Ran(w, k))
           S == {k \in Nat : k <= Len(w.queue) => Good(k)}
<1>2. 0 \in S
  BY <1>1 DEF SameRest
<1>3. ASSUME NEW k \in S PROVE k + 1 \in S
  <2> SUFFICES ASSUME k + 1 <= Len(w.queue) PROVE Good(k + 1)
    OBVIOUS
  <2>1. k \in 0..Len(w.queue) /\ k + 1 \in 1..Len(w.queue)
    BY <1>1
  <2>2. Good(k)
    BY <2>1
  <2>3. w.queue[k + 1] \in Commands /\ Proper(w.queue[k + 1])
    BY <2>1, QueueFacts DEF AllProper
  <2>4. Ran(w, k + 1) = Execute(Ran(w, k), w.queue[k + 1])
    BY <1>1, <2>1
  <2>5. Execute(Ran(w, k), w.queue[k + 1]) \in WorldType /\ SameRest(Ran(w, k), Execute(Ran(w, k), w.queue[k + 1]))
    BY <2>2, <2>3, ExecuteIs
  <2> QED
    BY <2>2, <2>4, <2>5 DEF SameRest
<1>4. S \in SUBSET Nat
  OBVIOUS
<1> HIDE DEF S
<1>5. S = Nat
  BY <1>2, <1>3, <1>4, Induction
<1> HIDE DEF Good
<1>6. \A k \in 0..Len(w.queue) : Good(k)
  BY <1>1, <1>5 DEF S
<1> QED
  BY <1>6 DEF Good

\* Two worlds have the same contents outside X.
Alike(u, v, X) == \A s \in Storages \ X : u.gpu[s] = v.gpu[s] /\ u.cpu[s] = v.cpu[s]

\* A command that touches nothing in X does the same in worlds that are alike
\* outside X.
LEMMA ExecuteAlike ==
    ASSUME NEW u \in WorldType, NEW v \in WorldType, NEW X, Alike(u, v, X),
           NEW c \in Commands, Proper(c), \A s \in X : ~Touches(c, s),
           c.dst \in Storages => u.mem.shared[c.dst] = v.mem.shared[c.dst]
    PROVE  Alike(Execute(u, c), Execute(v, c), X)
<1>1. \A s \in Storages : /\ Execute(u, c).gpu[s] = GpuAfter(u, c, s)
                          /\ Execute(u, c).cpu[s] = CpuAfter(u, c, s)
  BY ExecuteIs
<1>2. \A s \in Storages : /\ Execute(v, c).gpu[s] = GpuAfter(v, c, s)
                          /\ Execute(v, c).cpu[s] = CpuAfter(v, c, s)
  BY ExecuteIs
<1>3. c.src \notin X /\ (c.kind # "fill" => c.src \in Storages)
  BY DEF Touches, Proper, Reads
<1>4. c.kind # "fill" => u.gpu[c.src] = v.gpu[c.src]
  BY <1>3 DEF Alike
<1>5. ASSUME NEW s \in Storages \ X
      PROVE  GpuAfter(u, c, s) = GpuAfter(v, c, s) /\ CpuAfter(u, c, s) = CpuAfter(v, c, s)
  <2>1. u.gpu[s] = v.gpu[s] /\ u.cpu[s] = v.cpu[s]
    BY DEF Alike
  <2>2. GpuAfter(u, c, s) = GpuAfter(v, c, s)
    BY <1>4, <2>1 DEF GpuAfter
  <2>3. s = c.dst => u.mem.shared[s] = v.mem.shared[s]
    OBVIOUS
  <2> QED
    BY <2>1, <2>2, <2>3 DEF CpuAfter
<1> QED
  BY <1>1, <1>2, <1>5 DEF Alike

\* Worlds that are alike outside X stay so while they execute the same commands,
\* w from place a on and v from place b on, and these touch nothing in X.
LEMMA Lockstep ==
    ASSUME NEW w \in WorldType, AllProper(w), NEW v \in WorldType, AllProper(v),
           NEW a \in Nat, NEW b \in Nat, NEW n \in Nat,
           a + n <= Len(w.queue), b + n <= Len(v.queue), NEW X,
           \A j \in 1..n : w.queue[a + j] = v.queue[b + j],
           \A j \in 1..n : \A s \in X : ~Touches(w.queue[a + j], s),
           \A j \in 1..n : LET s == w.queue[a + j].dst IN
                           s \in Storages => w.mem.shared[s] = v.mem.shared[s],
           Alike(Ran(w, a), Ran(v, b), X)
    PROVE  \A j \in 0..n : Alike(Ran(w, a + j), Ran(v, b + j), X)
<1> DEFINE S == {j \in Nat : j <= n => Alike(Ran(w, a + j), Ran(v, b + j), X)}
<1>0. Len(w.queue) \in Nat /\ Len(v.queue) \in Nat
  BY QueueFacts
<1>1. /\ \A k \in 0..Len(w.queue) :
           k + 1 <= Len(w.queue) => Ran(w, k + 1) = Execute(Ran(w, k), w.queue[k + 1])
      /\ \A k \in 0..Len(v.queue) :
           k + 1 <= Len(v.queue) => Ran(v, k + 1) = Execute(Ran(v, k), v.queue[k + 1])
  BY QueueFacts, RanSteps
<1>2. 0 \in S
  <2>1. a + 0 = a /\ b + 0 = b
    OBVIOUS
  <2> QED
    BY <2>1
<1>3. ASSUME NEW j \in S PROVE j + 1 \in S
  <2> SUFFICES ASSUME j + 1 <= n PROVE Alike(Ran(w, a + (j + 1)), Ran(v, b + (j + 1)), X)
    OBVIOUS
  <2>1. /\ j <= n /\ j + 1 \in 1..n /\ a + j \in 0..Len(w.queue) /\ b + j \in 0..Len(v.queue)
        /\ a + (j + 1) = (a + j) + 1 /\ b + (j + 1) = (b + j) + 1
        /\ a + (j + 1) \in 1..Len(w.queue) /\ b + (j + 1) \in 1..Len(v.queue)
        /\ (a + j) + 1 <= Len(w.queue) /\ (b + j) + 1 <= Len(v.queue)
    BY <1>0
  <2> DEFINE c == w.queue[a + (j + 1)]
             x == Ran(w, a + j)
             y == Ran(v, b + j)
  <2>2. Alike(x, y, X)
    BY <2>1
  <2>3. c = v.queue[b + (j + 1)] /\ c \in Commands /\ Proper(c)
    BY <2>1, QueueFacts DEF AllProper
  <2>4. (\A s \in X : ~Touches(c, s)) /\ (c.dst \in Storages => w.mem.shared[c.dst] = v.mem.shared[c.dst])
    BY <2>1
  <2>5. Ran(w, a + (j + 1)) = Execute(x, c) /\ Ran(v, b + (j + 1)) = Execute(y, c)
    BY <1>1, <2>1, <2>3
  <2>6. x \in WorldType /\ y \in WorldType /\ x.mem = w.mem /\ y.mem = v.mem
    BY <2>1, RanType DEF SameRest
  <2> HIDE DEF c, x, y, S
  <2>7. Alike(Execute(x, c), Execute(y, c), X)
    BY <2>2, <2>3, <2>4, <2>6, ExecuteAlike
  <2> QED
    BY <2>5, <2>7
<1>4. S \in SUBSET Nat
  OBVIOUS
<1> HIDE DEF S
<1>5. S = Nat
  BY <1>2, <1>3, <1>4, Induction
<1> SUFFICES ASSUME NEW j \in 0..n PROVE Alike(Ran(w, a + j), Ran(v, b + j), X)
  OBVIOUS
<1>6. j \in S /\ j <= n
  BY <1>5
<1> QED
  BY <1>6 DEF S

-----------------------------------------------------------------------------
(* The worlds the program can be in.                                        *)

\* No command the GPU has not executed touches s.
Idle(w, s) == \A i \in 1..Len(w.queue) : ~Touches(w.queue[i], s)

\* Commands are in the order of their command buffers, which the GPU has not
\* completed; what they touch is marked as used, and nothing is marked as used
\* by the current command buffer while it has no command.
Ordered(w) ==
    /\ w.done < w.now
    /\ \A i \in 1..Len(w.queue) :
         /\ Proper(w.queue[i])
         /\ w.done < w.queue[i].serial /\ w.queue[i].serial <= w.now
         /\ \A j \in 1..i : w.queue[j].serial <= w.queue[i].serial
         /\ \A s \in Storages :
              Touches(w.queue[i], s) => w.queue[i].serial <= w.mem.usage[s] /\ s <= w.mem.made
    /\ \A s \in Storages :
         /\ w.mem.usage[s] <= w.now
         /\ w.mem.usage[s] = w.now => \E i \in 1..Len(w.queue) : w.queue[i].serial = w.now

\* The CPU and the GPU see the same bytes of a storage they share, and of one
\* that is still to be made.
Shared(w, s) == w.mem.shared[s] \/ s > w.mem.made
Coherent(w) == \A s \in Storages : Shared(w, s) => w.cpu[s] = w.gpu[s]

WorldOK(w) == w \in WorldType /\ Ordered(w) /\ Coherent(w)

\* What each side of the bus will hold when the GPU has executed everything.
LastGPU(w, s) == Final(w).gpu[s]
LastCPU(w, s) == Final(w).cpu[s]

\* Every draw finds the bytes it must fetch.
DrawsRight(w) ==
    \A i \in 1..Len(w.queue) :
        w.queue[i].kind = "draw" => Agrees(Ran(w, i - 1).gpu[w.queue[i].src], w.queue[i].bytes)

DrawsKept(w, v) == DrawsRight(w) => DrawsRight(v)

LEMMA WorldFacts ==
    ASSUME NEW w, WorldOK(w)
    PROVE  /\ w \in WorldType /\ w.mem \in MemoryType /\ AllProper(w)
           /\ w.now \in Nat /\ w.done \in Nat /\ w.done < w.now
           /\ w.queue \in Seq(Commands) /\ Len(w.queue) \in Nat
           /\ \A i \in 1..Len(w.queue) : /\ w.queue[i] \in Commands /\ Proper(w.queue[i])
                                         /\ w.queue[i].serial \in Nat
           /\ w.mem.made \in Nat /\ w.mem.made <= MaxStorages
           /\ 1..w.mem.made \subseteq Storages
           /\ \A s \in Storages : /\ w.mem.usage[s] \in Nat /\ w.mem.shared[s] \in BOOLEAN
                                  /\ w.mem.needSync[s] \in BOOLEAN /\ w.dirty[s] \in BOOLEAN
                                  /\ w.cpu[s] \in Data /\ w.gpu[s] \in Data
<1>1. w \in WorldType /\ Ordered(w)
  BY DEF WorldOK
<1>2. /\ w.mem \in MemoryType /\ w.now \in Nat /\ w.done \in Nat
      /\ w.cpu \in [Storages -> Data] /\ w.gpu \in [Storages -> Data]
      /\ w.dirty \in [Storages -> BOOLEAN]
  BY <1>1 DEF WorldType
<1>3. AllProper(w) /\ w.done < w.now
  BY <1>1 DEF Ordered, AllProper
<1>4. /\ w.mem.made \in 0..MaxStorages /\ w.mem.usage \in [Storages -> Nat]
      /\ w.mem.shared \in [Storages -> BOOLEAN] /\ w.mem.needSync \in [Storages -> BOOLEAN]
  BY <1>2 DEF MemoryType
<1>5. 1..w.mem.made \subseteq Storages
  BY <1>4, StoragesBounded DEF Storages
<1>6. \A i \in 1..Len(w.queue) : w.queue[i] \in Commands /\ w.queue[i].serial \in Nat
  BY <1>1, QueueFacts DEF Commands
<1> QED
  BY <1>1, <1>2, <1>3, <1>4, <1>5, <1>6, QueueFacts, StoragesBounded DEF AllProper

\* A storage no command touches keeps its contents.
LEMMA RanIdle ==
    ASSUME NEW w \in WorldType, AllProper(w), NEW s \in Storages, Idle(w, s)
    PROVE  \A k \in 0..Len(w.queue) : Ran(w, k).gpu[s] = w.gpu[s] /\ Ran(w, k).cpu[s] = w.cpu[s]
<1> DEFINE Same(k) == Ran(w, k).gpu[s] = w.gpu[s] /\ Ran(w, k).cpu[s] = w.cpu[s]
           S == {k \in Nat : k <= Len(w.queue) => Same(k)}
<1>1. /\ Len(w.queue) \in Nat /\ Ran(w, 0) = w
      /\ \A k \in 0..Len(w.queue) :
           k + 1 <= Len(w.queue) => Ran(w, k + 1) = Execute(Ran(w, k), w.queue[k + 1])
  BY QueueFacts, RanSteps
<1>2. 0 \in S
  BY <1>1
<1>3. ASSUME NEW k \in S PROVE k + 1 \in S
  <2> SUFFICES ASSUME k + 1 <= Len(w.queue) PROVE Same(k + 1)
    OBVIOUS
  <2>1. k \in 0..Len(w.queue) /\ k + 1 \in 1..Len(w.queue)
    BY <1>1
  <2>2. Same(k)
    BY <2>1
  <2> DEFINE c == w.queue[k + 1]
             x == Ran(w, k)
  <2>3. c \in Commands /\ Proper(c) /\ s # c.src /\ s # c.dst
    BY <2>1, QueueFacts DEF AllProper, Idle, Touches
  <2>4. x \in WorldType /\ Ran(w, k + 1) = Execute(x, c)
    BY <1>1, <2>1, RanType
  <2> HIDE DEF c, x, S
  <2>5. Execute(x, c).gpu[s] = GpuAfter(x, c, s) /\ Execute(x, c).cpu[s] = CpuAfter(x, c, s)
    BY <2>3, <2>4, ExecuteIs
  <2>6. GpuAfter(x, c, s) = x.gpu[s] /\ CpuAfter(x, c, s) = x.cpu[s]
    BY <2>3 DEF GpuAfter, CpuAfter
  <2> QED
    BY <2>2, <2>4, <2>5, <2>6 DEF x
<1>4. S \in SUBSET Nat
  OBVIOUS
<1> HIDE DEF S
<1>5. S = Nat
  BY <1>2, <1>3, <1>4, Induction
<1> HIDE DEF Same
<1>6. \A k \in 0..Len(w.queue) : Same(k)
  BY <1>1, <1>5 DEF S
<1> QED
  BY <1>6 DEF Same

\* Executing commands leaves shared storages the same on both sides.
LEMMA RanCoherent ==
    ASSUME NEW w, WorldOK(w)
    PROVE  \A k \in 0..Len(w.queue) :
             \A s \in Storages : Shared(w, s) => Ran(w, k).cpu[s] = Ran(w, k).gpu[s]
<1> DEFINE Same(k) == \A s \in Storages : Shared(w, s) => Ran(w, k).cpu[s] = Ran(w, k).gpu[s]
           S == {k \in Nat : k <= Len(w.queue) => Same(k)}
<1>1. /\ Len(w.queue) \in Nat /\ Ran(w, 0) = w
      /\ \A k \in 0..Len(w.queue) :
           k + 1 <= Len(w.queue) => Ran(w, k + 1) = Execute(Ran(w, k), w.queue[k + 1])
  BY WorldFacts, RanSteps
<1>2. 0 \in S
  BY <1>1 DEF WorldOK, Coherent
<1>3. ASSUME NEW k \in S PROVE k + 1 \in S
  <2> SUFFICES ASSUME k + 1 <= Len(w.queue) PROVE Same(k + 1)
    OBVIOUS
  <2>1. k \in 0..Len(w.queue) /\ k + 1 \in 1..Len(w.queue)
    BY <1>1
  <2>2. Same(k)
    BY <2>1
  <2> DEFINE c == w.queue[k + 1]
             x == Ran(w, k)
  <2>3. c \in Commands /\ Proper(c)
    BY <2>1, WorldFacts
  <2>4. x \in WorldType /\ x.mem = w.mem /\ Ran(w, k + 1) = Execute(x, c)
    BY <1>1, <2>1, WorldFacts, RanType DEF SameRest
  <2>5. \A s \in Storages : s = c.dst => s <= w.mem.made
    BY <2>1 DEF WorldOK, Ordered, Touches
  <2> HIDE DEF c, x, S
  <2>6. ASSUME NEW s \in Storages, Shared(w, s)
        PROVE  Execute(x, c).cpu[s] = Execute(x, c).gpu[s]
    <3>1. Execute(x, c).gpu[s] = GpuAfter(x, c, s) /\ Execute(x, c).cpu[s] = CpuAfter(x, c, s)
      BY <2>3, <2>4, ExecuteIs
    <3>2. x.cpu[s] = x.gpu[s]
      BY <2>2, <2>6 DEF x
    <3>3. s = c.dst => x.mem.shared[s]
      <4>1. w.mem.made \in Nat /\ s \in Nat
        BY WorldFacts, StoragesAre
      <4> QED
        BY <2>4, <2>5, <2>6, <4>1 DEF Shared
    <3>4. c.kind = "synchronize" /\ s = c.src => GpuAfter(x, c, s) = x.gpu[s]
      BY <2>3 DEF GpuAfter, Proper
    <3>5. s # c.dst => GpuAfter(x, c, s) = x.gpu[s]
      BY DEF GpuAfter
    <3>6. CASE c.kind = "synchronize" /\ s = c.src
      <4>1. CpuAfter(x, c, s) = x.gpu[s]
        BY <3>6 DEF CpuAfter
      <4> QED
        BY <3>1, <3>4, <3>6, <4>1
    <3>7. CASE ~(c.kind = "synchronize" /\ s = c.src) /\ s = c.dst
      <4>1. CpuAfter(x, c, s) = GpuAfter(x, c, s)
        BY <3>3, <3>7 DEF CpuAfter
      <4> QED
        BY <3>1, <4>1
    <3>8. CASE ~(c.kind = "synchronize" /\ s = c.src) /\ s # c.dst
      <4>1. CpuAfter(x, c, s) = x.cpu[s]
        BY <3>8 DEF CpuAfter
      <4> QED
        BY <3>1, <3>2, <3>5, <3>8, <4>1
    <3> QED
      BY <3>6, <3>7, <3>8
  <2> QED
    BY <2>4, <2>6
<1>4. S \in SUBSET Nat
  OBVIOUS
<1> HIDE DEF S
<1>5. S = Nat
  BY <1>2, <1>3, <1>4, Induction
<1> HIDE DEF Same
<1>6. \A k \in 0..Len(w.queue) : Same(k)
  BY <1>1, <1>5 DEF S
<1> QED
  BY <1>6 DEF Same

-----------------------------------------------------------------------------
(* Steps between worlds that leave most storages alone.                     *)

\* In v, which comes after w, everything outside X is what it was in w.
Spares(w, v, X) ==
    /\ WorldOK(v) /\ w.mem.made <= v.mem.made
    /\ \A s \in 1..w.mem.made : v.mem.size[s] = w.mem.size[s]
    /\ \A s \in (1..w.mem.made) \ X :
         /\ LastGPU(v, s) = LastGPU(w, s) /\ LastCPU(v, s) = LastCPU(w, s)
         /\ v.mem.needSync[s] = w.mem.needSync[s] /\ v.dirty[s] = w.dirty[s]
         /\ Idle(w, s) => Idle(v, s)

Moves(w, v, X) == Spares(w, v, X) /\ DrawsKept(w, v)

LEMMA SparesSelf ==
    ASSUME NEW w, WorldOK(w), NEW X
    PROVE  Moves(w, w, X)
  BY WorldFacts DEF Moves, Spares, DrawsKept

LEMMA SparesThen ==
    ASSUME NEW u, NEW v, NEW w, NEW X, NEW Y, Spares(u, v, X), Spares(v, w, Y), WorldOK(u),
           \A s \in Y : s \in X \/ s \notin 1..u.mem.made
    PROVE  Spares(u, w, X) /\ (DrawsKept(u, v) /\ DrawsKept(v, w) => DrawsKept(u, w))
<1>1. u.mem.made \in Nat /\ v.mem.made \in Nat /\ w.mem.made \in Nat
  BY WorldFacts DEF Spares
<1>2. u.mem.made <= v.mem.made /\ v.mem.made <= w.mem.made
  BY DEF Spares
<1>3. \A s \in 1..u.mem.made : s \in 1..v.mem.made
  BY <1>1, <1>2
<1>4. u.mem.made <= w.mem.made
  BY <1>1, <1>2
<1>5. \A s \in (1..u.mem.made) \ X : s \in (1..v.mem.made) \ Y
  BY <1>3
<1>6. \A s \in 1..u.mem.made : w.mem.size[s] = u.mem.size[s]
  BY <1>3 DEF Spares
<1>7. ASSUME NEW s \in (1..u.mem.made) \ X
      PROVE  /\ LastGPU(w, s) = LastGPU(u, s) /\ LastCPU(w, s) = LastCPU(u, s)
             /\ w.mem.needSync[s] = u.mem.needSync[s] /\ w.dirty[s] = u.dirty[s]
             /\ Idle(u, s) => Idle(w, s)
  <2>1. s \in (1..v.mem.made) \ Y
    BY <1>5
  <2> QED
    BY <2>1 DEF Spares
<1>8. WorldOK(w)
  BY DEF Spares
<1> QED
  BY <1>4, <1>6, <1>7, <1>8 DEF Spares, DrawsKept

LEMMA MovesThen ==
    ASSUME NEW u, NEW v, NEW w, NEW X, Moves(u, v, X), Moves(v, w, X), WorldOK(u)
    PROVE  Moves(u, w, X)
  BY SparesThen DEF Moves

\* Fewer storages are spared.
LEMMA SparesLess ==
    ASSUME NEW u, NEW v, NEW X, NEW Y, Moves(u, v, X), X \subseteq Y
    PROVE  Moves(u, v, Y)
  BY DEF Moves, Spares

\* v has the commands of w, and contents of its own in storages of X, which no
\* command touches.
LEMMA SameQueue ==
    ASSUME NEW w, WorldOK(w), NEW v \in WorldType, v.queue = w.queue,
           NEW X \in SUBSET Storages, \A s \in X : Idle(w, s), Alike(w, v, X),
           \A s \in 1..w.mem.made : v.mem.shared[s] = w.mem.shared[s]
    PROVE  /\ \A s \in Storages : Idle(v, s) <=> Idle(w, s)
           /\ \A s \in Storages \ X : LastGPU(v, s) = LastGPU(w, s) /\ LastCPU(v, s) = LastCPU(w, s)
           /\ \A s \in X : LastGPU(v, s) = v.gpu[s] /\ LastCPU(v, s) = v.cpu[s]
           /\ DrawsKept(w, v)
<1>1. AllProper(w) /\ AllProper(v) /\ w \in WorldType /\ Len(w.queue) \in Nat
  BY WorldFacts DEF AllProper
<1>2. \A s : Idle(v, s) <=> Idle(w, s)
  BY DEF Idle
<1>3. \A j \in 1..Len(w.queue) : LET s == w.queue[j].dst IN
        s \in Storages => w.mem.shared[s] = v.mem.shared[s]
  <2>1. \A j \in 1..Len(w.queue) : LET s == w.queue[j].dst IN
          s \in Storages => s <= w.mem.made
    BY DEF WorldOK, Ordered, Touches
  <2>2. \A s \in Storages : s <= w.mem.made => s \in 1..w.mem.made
    <3>1. w.mem.made \in Nat
      BY WorldFacts
    <3> QED
      BY <3>1, StoragesAre
  <2> QED
    BY <2>1, <2>2
<1>4. Alike(Ran(w, 0), Ran(v, 0), X)
  BY <1>1, QueueFacts, RanSteps
<1>5. \A j \in 0..Len(w.queue) : Alike(Ran(w, 0 + j), Ran(v, 0 + j), X)
  <2>1. \A j \in 1..Len(w.queue) : 0 + j = j
    OBVIOUS
  <2>2. 0 \in Nat /\ 0 + Len(w.queue) <= Len(w.queue) /\ 0 + Len(w.queue) <= Len(v.queue)
    BY <1>1
  <2>3. \A j \in 1..Len(w.queue) : w.queue[0 + j] = v.queue[0 + j]
    OBVIOUS
  <2>4. \A j \in 1..Len(w.queue) : \A s \in X : ~Touches(w.queue[0 + j], s)
    BY <2>1 DEF Idle
  <2>5. \A j \in 1..Len(w.queue) : LET s == w.queue[0 + j].dst IN
          s \in Storages => w.mem.shared[s] = v.mem.shared[s]
    BY <1>3, <2>1
  <2> QED
    BY <1>1, <1>4, <2>2, <2>3, <2>4, <2>5, Lockstep
<1>6. \A j \in 0..Len(w.queue) : Alike(Ran(w, j), Ran(v, j), X)
  <2>1. \A j \in 0..Len(w.queue) : 0 + j = j
    BY <1>1
  <2> QED
    BY <1>5, <2>1
<1>7. \A s \in Storages \ X : LastGPU(v, s) = LastGPU(w, s) /\ LastCPU(v, s) = LastCPU(w, s)
  BY <1>1, <1>6 DEF Alike, LastGPU, LastCPU, Final
<1>8. \A s \in X : LastGPU(v, s) = v.gpu[s] /\ LastCPU(v, s) = v.cpu[s]
  BY <1>1, <1>2, RanIdle DEF LastGPU, LastCPU, Final
<1>9. DrawsKept(w, v)
  <2> SUFFICES ASSUME DrawsRight(w), NEW i \in 1..Len(w.queue), w.queue[i].kind = "draw"
               PROVE  Agrees(Ran(v, i - 1).gpu[w.queue[i].src], w.queue[i].bytes)
    BY DEF DrawsKept, DrawsRight
  <2>1. w.queue[i].src \in Storages
    BY WorldFacts DEF Proper, Reads
  <2>2. w.queue[i].src \notin X
    BY DEF Idle, Touches
  <2>3. i - 1 \in 0..Len(w.queue)
    BY <1>1
  <2>4. Ran(v, i - 1).gpu[w.queue[i].src] = Ran(w, i - 1).gpu[w.queue[i].src]
    BY <1>6, <2>1, <2>2, <2>3 DEF Alike
  <2> QED
    BY <2>4 DEF DrawsRight
<1> QED
  BY <1>2, <1>7, <1>8, <1>9

\* The same when the step leaves the marks of storages outside X alone.
LEMMA SameQueueMoves ==
    ASSUME NEW w, WorldOK(w), NEW v, WorldOK(v), v.queue = w.queue,
           NEW X \in SUBSET Storages, \A s \in X : Idle(w, s), Alike(w, v, X),
           w.mem.made <= v.mem.made,
           \A s \in 1..w.mem.made : v.mem.shared[s] = w.mem.shared[s] /\ v.mem.size[s] = w.mem.size[s],
           NEW Y, X \subseteq Y,
           \A s \in (1..w.mem.made) \ Y : v.mem.needSync[s] = w.mem.needSync[s] /\ v.dirty[s] = w.dirty[s]
    PROVE  Moves(w, v, Y)
<1>1. v \in WorldType
  BY DEF WorldOK
<1>2. \A s \in (1..w.mem.made) \ Y : s \in Storages \ X
  BY WorldFacts
<1> QED
  BY <1>1, <1>2, SameQueue DEF Moves, Spares

-----------------------------------------------------------------------------
(* The GPU executes commands.                                               *)

\* The first commands have been executed, and it is known up to the serial d.
LEMMA FirstMoves ==
    ASSUME NEW w, WorldOK(w), NEW k \in 0..Len(w.queue), NEW d \in Nat,
           w.done <= d, d < w.now,
           \A i \in 1..k : w.queue[i].serial < w.now,
           \A i \in 1..Len(w.queue) : i <= k \/ d < w.queue[i].serial
    PROVE  LET v == [ExecuteFirst(w, k) EXCEPT !.done = d] IN
           /\ Moves(w, v, {})
           /\ v.mem = w.mem /\ v.now = w.now /\ v.done = d /\ v.dirty = w.dirty
           /\ Len(v.queue) = Len(w.queue) - k
           /\ \A j \in 1..Len(v.queue) : v.queue[j] = w.queue[k + j]
<1> DEFINE x == Ran(w, k)
           q == w.queue
           p == SubSeq(q, k + 1, Len(q))
           v == [ExecuteFirst(w, k) EXCEPT !.done = d]
<1>1. /\ w \in WorldType /\ AllProper(w) /\ q \in Seq(Commands) /\ Len(q) \in Nat
      /\ w.now \in Nat /\ w.done \in Nat
  BY WorldFacts
<1>2. x \in WorldType /\ SameRest(w, x)
  BY <1>1, RanType
<1>3. p \in Seq(Commands) /\ Len(p) = Len(q) - k /\ \A j \in 1..Len(p) : p[j] = q[k + j]
  <2>1. k + 1 \in Int /\ Len(q) \in Int /\ \A i \in (k + 1)..Len(q) : q[i] \in Commands
    BY <1>1, WorldFacts
  <2>2. /\ p \in Seq(Commands)
        /\ Len(p) = IF k + 1 <= Len(q) THEN Len(q) - (k + 1) + 1 ELSE 0
        /\ \A i \in 1..(Len(q) - (k + 1) + 1) : p[i] = q[(k + 1) + i - 1]
    BY <2>1, SubSeqProperties
  <2>7. k \in 0..Len(q)
    OBVIOUS
  <2> HIDE DEF p, q
  <2>3. Len(p) = Len(q) - k
    BY <1>1, <2>2, <2>7
  <2>4. \A i \in 1..(Len(q) - k) : i \in 1..(Len(q) - (k + 1) + 1) /\ (k + 1) + i - 1 = k + i
    BY <1>1, <2>7
  <2>5. \A i \in 1..(Len(q) - k) : p[i] = q[(k + 1) + i - 1]
    BY <2>2, <2>4
  <2> QED
    BY <2>2, <2>3, <2>4, <2>5
<1>4. /\ v \in WorldType /\ v.mem = w.mem /\ v.now = w.now /\ v.done = d /\ v.dirty = w.dirty
      /\ v.queue = p /\ v.cpu = x.cpu /\ v.gpu = x.gpu
  <2>1. v = [[x EXCEPT !.queue = p] EXCEPT !.done = d]
    BY <1>2 DEF ExecuteFirst, Ran, SameRest
  <2> HIDE DEF v, x, p
  <2> QED
    BY <1>2, <1>3, <2>1 DEF WorldType, SameRest
<1> HIDE DEF v, x, p
<1>5. \A j \in 1..Len(p) : k + j \in 1..Len(q)
  BY <1>1, <1>3
<1>6. Ordered(v)
  <2>1. ASSUME NEW j \in 1..Len(p)
        PROVE  /\ Proper(p[j]) /\ d < p[j].serial /\ p[j].serial <= w.now
               /\ \A l \in 1..j : p[l].serial <= p[j].serial
               /\ \A s \in Storages : Touches(p[j], s) => p[j].serial <= w.mem.usage[s] /\ s <= w.mem.made
    <3>1. k + j \in 1..Len(q) /\ p[j] = q[k + j] /\ ~(k + j <= k)
      BY <1>1, <1>3, <1>5
    <3>2. \A l \in 1..j : l \in 1..Len(p) /\ k + l \in 1..(k + j) /\ p[l] = q[k + l]
      BY <1>1, <1>3
    <3> QED
      BY <3>1, <3>2 DEF WorldOK, Ordered
  <2>2. ASSUME NEW s \in Storages
        PROVE  /\ w.mem.usage[s] <= w.now
               /\ w.mem.usage[s] = w.now => \E i \in 1..Len(p) : p[i].serial = w.now
    <3>1. w.mem.usage[s] <= w.now
      BY DEF WorldOK, Ordered
    <3>2. ASSUME w.mem.usage[s] = w.now PROVE \E i \in 1..Len(p) : p[i].serial = w.now
      <4>1. PICK i \in 1..Len(q) : q[i].serial = w.now
        BY <3>2 DEF WorldOK, Ordered
      <4>2. i > k
        BY <1>1, <4>1
      <4>3. i - k \in 1..Len(p) /\ k + (i - k) = i
        BY <1>1, <1>3, <4>2
      <4>4. p[i - k] = q[k + (i - k)]
        BY <1>3, <4>3
      <4> QED
        BY <4>1, <4>3, <4>4
    <3> QED
      BY <3>1, <3>2
  <2>3. v.done < v.now
    BY <1>4
  <2> QED
    BY <1>4, <2>1, <2>2, <2>3 DEF Ordered
<1>7. Coherent(v)
  <2>1. \A s \in Storages : Shared(w, s) => x.cpu[s] = x.gpu[s]
    BY RanCoherent DEF x
  <2> QED
    BY <1>4, <2>1 DEF Coherent, Shared
<1>8. WorldOK(v)
  BY <1>4, <1>6, <1>7 DEF WorldOK
<1>9. \A j \in 0..Len(p) : Alike(Ran(w, k + j), Ran(v, 0 + j), {})
  <2>1. AllProper(v) /\ Ran(v, 0) = v
    BY <1>4, <1>6, QueueFacts, RanSteps DEF Ordered, AllProper
  <2>2. Alike(Ran(w, k), Ran(v, 0), {})
    BY <1>4, <2>1 DEF Alike, x
  <2>3. Len(p) \in Nat /\ k + Len(p) <= Len(w.queue) /\ 0 + Len(p) <= Len(v.queue)
    BY <1>1, <1>3, <1>4
  <2>4. \A j \in 1..Len(p) : w.queue[k + j] = v.queue[0 + j]
    <3>1. \A j \in 1..Len(p) : 0 + j = j
      OBVIOUS
    <3> QED
      BY <1>3, <1>4, <3>1
  <2>5. \A j \in 1..Len(p) : LET s == w.queue[k + j].dst IN
          s \in Storages => w.mem.shared[s] = v.mem.shared[s]
    BY <1>4
  <2>6. k \in Nat /\ 0 \in Nat /\ \A j \in 1..Len(p) : \A s \in {} : ~Touches(w.queue[k + j], s)
    OBVIOUS
  <2> QED
    BY <1>1, <1>4, <2>1, <2>2, <2>3, <2>4, <2>5, <2>6, Lockstep
<1>10. \A s \in Storages : LastGPU(v, s) = LastGPU(w, s) /\ LastCPU(v, s) = LastCPU(w, s)
  <2>1. Len(p) \in 0..Len(p) /\ k + Len(p) = Len(w.queue) /\ 0 + Len(p) = Len(v.queue)
    BY <1>1, <1>3, <1>4
  <2>2. Alike(Ran(w, k + Len(p)), Ran(v, 0 + Len(p)), {})
    BY <1>9, <2>1
  <2> QED
    BY <2>1, <2>2 DEF Alike, LastGPU, LastCPU, Final
<1>11. \A s : Idle(w, s) => Idle(v, s)
  BY <1>3, <1>4, <1>5 DEF Idle
<1>12. DrawsKept(w, v)
  <2> SUFFICES ASSUME DrawsRight(w), NEW i \in 1..Len(p), p[i].kind = "draw"
               PROVE  Agrees(Ran(v, i - 1).gpu[p[i].src], p[i].bytes)
    BY <1>4 DEF DrawsKept, DrawsRight
  <2>1. k + i \in 1..Len(q) /\ p[i] = q[k + i]
    BY <1>3, <1>5
  <2>2. i - 1 \in 0..Len(p) /\ 0 + (i - 1) = i - 1 /\ k + (i - 1) = (k + i) - 1
    BY <1>1, <1>3
  <2>3. p[i].src \in Storages
    BY <2>1, WorldFacts DEF Proper, Reads
  <2>4. Ran(v, i - 1).gpu[p[i].src] = Ran(w, (k + i) - 1).gpu[p[i].src]
    BY <1>9, <2>2, <2>3 DEF Alike
  <2>5. Agrees(Ran(w, (k + i) - 1).gpu[q[k + i].src], q[k + i].bytes)
    BY <2>1 DEF DrawsRight
  <2> QED
    BY <2>1, <2>4, <2>5
<1>13. 1..w.mem.made \subseteq Storages /\ w.mem.made <= v.mem.made
  BY <1>4, WorldFacts
<1>14. Moves(w, v, {})
  BY <1>4, <1>8, <1>10, <1>11, <1>12, <1>13 DEF Moves, Spares
<1> QED
  BY <1>3, <1>4, <1>14 DEF v

\* A set with every number below its members is an interval.
LEMMA PrefixIs ==
    ASSUME NEW n \in Nat, NEW K, K \subseteq 1..n, \A i \in K : \A j \in 1..i : j \in K
    PROVE  Cardinality(K) \in 0..n /\ K = 1..Cardinality(K)
<1>1. CASE K = 1..n
  <2>1. Cardinality(1..n) = n
    BY FS_Interval
  <2> QED
    BY <1>1, <2>1
<1>2. CASE K # 1..n
  <2>1. (1..n) \ K \subseteq Nat /\ (1..n) \ K # {}
    <3>1. \E i \in 1..n : i \notin K
      BY <1>2, Zenon
    <3>2. (1..n) \ K \subseteq Nat
      OBVIOUS
    <3> QED
      BY <3>1, <3>2, Zenon
  <2>2. PICK m \in (1..n) \ K : \A i \in (1..n) \ K : m <= i
    BY <2>1, LeastNat
  <2>3. m \in 1..n /\ m - 1 \in Nat
    OBVIOUS
  <2>4. \A i \in 1..(m - 1) : i \in K
    BY <2>2, <2>3
  <2>5. \A i \in K : i < m
    <3> SUFFICES ASSUME NEW i \in K, ~(i < m) PROVE FALSE
      OBVIOUS
    <3>1. m \in 1..i
      BY <2>3
    <3> QED
      BY <3>1
  <2>6. K = 1..(m - 1)
    <3>1. \A i \in K : i \in 1..(m - 1)
      BY <2>3, <2>5
    <3> QED
      BY <2>4, <3>1, Zenon
  <2>7. Cardinality(1..(m - 1)) = m - 1
    BY <2>3, FS_Interval
  <2> QED
    BY <2>3, <2>6, <2>7
<1> QED
  BY <1>1, <1>2

\* The GPU is waited for up to the serial n of a committed command buffer.
LEMMA AdvanceMoves ==
    ASSUME NEW w, WorldOK(w), NEW n \in Nat, n < w.now
    PROVE  LET v == AdvanceTo(w, n) IN
           /\ Moves(w, v, {})
           /\ v.mem = w.mem /\ v.now = w.now /\ v.dirty = w.dirty
           /\ n <= v.done /\ w.done <= v.done
           /\ \A s \in Storages : w.mem.usage[s] <= n => Idle(v, s)
<1> DEFINE K == {i \in DOMAIN w.queue : w.queue[i].serial <= n}
           k == Cardinality(K)
           d == IF n > w.done THEN n ELSE w.done
           v == [ExecuteFirst(w, k) EXCEPT !.done = d]
<1>1. /\ w \in WorldType /\ AllProper(w) /\ Len(w.queue) \in Nat /\ w.done \in Nat /\ w.now \in Nat
      /\ w.done < w.now /\ \A i \in 1..Len(w.queue) : w.queue[i].serial \in Nat
      /\ DOMAIN w.queue = 1..Len(w.queue)
  BY WorldFacts, QueueFacts
<1>2. K \subseteq 1..Len(w.queue)
  BY <1>1
<1>3. \A i \in K : \A j \in 1..i : j \in K
  <2> SUFFICES ASSUME NEW i \in K, NEW j \in 1..i PROVE j \in K
    OBVIOUS
  <2>1. i \in 1..Len(w.queue) /\ j \in 1..Len(w.queue) /\ w.queue[i].serial <= n
    BY <1>1
  <2>2. w.queue[j].serial <= w.queue[i].serial
    BY <2>1 DEF WorldOK, Ordered
  <2> QED
    BY <1>1, <2>1, <2>2
<1> HIDE DEF K
<1>4. k \in 0..Len(w.queue) /\ K = 1..k
  BY <1>1, <1>2, <1>3, PrefixIs
<1>5. AdvanceTo(w, n) = v
  <2>1. ExecuteFirst(w, k).done = w.done
    BY <1>1, <1>4, RanType DEF ExecuteFirst, Ran, SameRest
  <2> QED
    BY <2>1 DEF AdvanceTo, K
<1>6. d \in Nat /\ w.done <= d /\ n <= d /\ d < w.now
  BY <1>1
<1> HIDE DEF k, d
<1>7. \A i \in 1..k : w.queue[i].serial < w.now
  <2>1. \A i \in 1..k : i \in 1..Len(w.queue) /\ w.queue[i].serial <= n
    BY <1>4 DEF K
  <2> QED
    BY <1>1, <2>1
<1>8. \A i \in 1..Len(w.queue) : i <= k \/ (n < w.queue[i].serial /\ d < w.queue[i].serial)
  <2> SUFFICES ASSUME NEW i \in 1..Len(w.queue), ~(i <= k)
               PROVE  n < w.queue[i].serial /\ d < w.queue[i].serial
    OBVIOUS
  <2>1. i \notin K
    BY <1>1, <1>4
  <2>2. n < w.queue[i].serial
    BY <1>1, <2>1 DEF K
  <2>3. w.done < w.queue[i].serial
    BY DEF WorldOK, Ordered
  <2> QED
    BY <2>2, <2>3 DEF d
<1> HIDE DEF v
<1>9. /\ Moves(w, v, {})
      /\ v.mem = w.mem /\ v.now = w.now /\ v.done = d /\ v.dirty = w.dirty
      /\ Len(v.queue) = Len(w.queue) - k
      /\ \A j \in 1..Len(v.queue) : v.queue[j] = w.queue[k + j]
  BY <1>4, <1>6, <1>7, <1>8, FirstMoves DEF v
<1>10. ASSUME NEW s \in Storages, w.mem.usage[s] <= n
       PROVE  Idle(v, s)
  <2> SUFFICES ASSUME NEW j \in 1..Len(v.queue), Touches(v.queue[j], s) PROVE FALSE
    BY DEF Idle
  <2>1. k + j \in 1..Len(w.queue) /\ ~(k + j <= k) /\ v.queue[j] = w.queue[k + j]
    BY <1>1, <1>4, <1>9
  <2>2. w.queue[k + j].serial <= w.mem.usage[s]
    BY <2>1 DEF WorldOK, Ordered
  <2>3. n < w.queue[k + j].serial /\ w.mem.usage[s] \in Nat
    BY <1>8, <2>1, WorldFacts
  <2> QED
    BY <1>1, <1>10, <2>1, <2>2, <2>3
<1> QED
  BY <1>5, <1>6, <1>9, <1>10

\* The next command of a committed command buffer.
LEMMA GpuStepMoves ==
    ASSUME NEW w, WorldOK(w), w.queue # <<>>, Head(w.queue).serial < w.now
    PROVE  Moves(w, [Execute(w, Head(w.queue)) EXCEPT !.queue = Tail(@)], {})
<1> DEFINE q == w.queue
           v == [ExecuteFirst(w, 1) EXCEPT !.done = w.done]
<1>1. /\ w \in WorldType /\ AllProper(w) /\ q \in Seq(Commands) /\ Len(q) \in Nat
      /\ w.now \in Nat /\ w.done \in Nat /\ w.done < w.now
  BY WorldFacts
<1>2. Len(q) >= 1 /\ 1 \in 0..Len(q) /\ 0 \in 0..Len(q) /\ 0 + 1 = 1
  BY <1>1, EmptySeq
<1>3. Head(q) = q[1]
  BY <1>1, <1>2
<1>4. Ran(w, 0) = w /\ Ran(w, 1) = Execute(w, q[1])
  BY <1>1, <1>2, RanSteps
<1>5. Execute(w, q[1]) \in WorldType /\ SameRest(w, Execute(w, q[1]))
  BY <1>1, <1>2, <1>4, RanType
<1>6. SubSeq(q, 2, Len(q)) = Tail(q)
  BY <1>1, <1>2, TailIsSubSeq
<1>7. v = [Execute(w, Head(q)) EXCEPT !.queue = Tail(@)]
  <2>1. ExecuteFirst(w, 1) = [Execute(w, q[1]) EXCEPT !.queue = SubSeq(q, 2, Len(q))]
    <3>1. 1 + 1 = 2
      OBVIOUS
    <3>2. ExecuteFirst(w, 1) = [Ran(w, 1) EXCEPT !.queue = SubSeq(Ran(w, 1).queue, 2, Len(Ran(w, 1).queue))]
      BY <3>1, Zenon DEF ExecuteFirst, Ran
    <3>3. Ran(w, 1).queue = q
      BY <1>4, <1>5 DEF SameRest
    <3> QED
      BY <1>4, <3>2, <3>3
  <2> DEFINE x == Execute(w, q[1])
  <2>2. x \in WorldType /\ x.done = w.done /\ x.queue = q
    BY <1>5 DEF SameRest
  <2> HIDE DEF x, q
  <2>3. [[x EXCEPT !.queue = Tail(q)] EXCEPT !.done = w.done] = [x EXCEPT !.queue = Tail(x.queue)]
    BY <2>2 DEF WorldType
  <2> QED
    BY <1>3, <1>6, <2>1, <2>3, <2>2 DEF x
<1>8. \A i \in 1..1 : q[i].serial < w.now
  BY <1>3
<1>9. \A i \in 1..Len(q) : i <= 1 \/ w.done < q[i].serial
  BY DEF WorldOK, Ordered
<1> HIDE DEF v
<1>10. Moves(w, v, {})
  BY <1>1, <1>2, <1>8, <1>9, FirstMoves DEF v
<1> QED
  BY <1>7, <1>10

\* It becomes known how far the GPU is.
LEMMA CompleteMoves ==
    ASSUME NEW w, WorldOK(w), NEW d \in Nat, w.done < d, d < w.now,
           \A i \in DOMAIN w.queue : w.queue[i].serial > d
    PROVE  Moves(w, [w EXCEPT !.done = d], {})
<1> DEFINE v == [w EXCEPT !.done = d]
<1>1. w \in WorldType /\ DOMAIN w.queue = 1..Len(w.queue) /\ Len(w.queue) \in Nat
  BY WorldFacts, QueueFacts
<1>2. /\ v \in WorldType /\ v.mem = w.mem /\ v.now = w.now /\ v.done = d /\ v.dirty = w.dirty
      /\ v.queue = w.queue /\ v.cpu = w.cpu /\ v.gpu = w.gpu
  BY <1>1 DEF WorldType
<1> HIDE DEF v
<1>3. \A i \in 1..Len(w.queue) : d < w.queue[i].serial
  BY <1>1, WorldFacts
<1>4. Ordered(v)
  BY <1>2, <1>3 DEF Ordered, WorldOK
<1>5. WorldOK(v)
  BY <1>2, <1>4 DEF WorldOK, Coherent, Shared
<1>6. Alike(w, v, {}) /\ w.mem.made <= v.mem.made
  BY <1>2, WorldFacts DEF Alike
<1>7. Moves(w, v, {})
  BY <1>2, <1>5, <1>6, SameQueueMoves
<1> QED
  BY <1>7 DEF v

\* The command buffer is committed, if there is one.
LEMMA FlushMoves ==
    ASSUME NEW w, WorldOK(w)
    PROVE  LET v == Flush(w) IN
           /\ Moves(w, v, {}) /\ v.mem = w.mem /\ v.done = w.done /\ v.dirty = w.dirty
           /\ \A s \in Storages : w.mem.usage[s] < v.now
<1> DEFINE v == Flush(w)
           busy == \E i \in DOMAIN w.queue : w.queue[i].serial = w.now
<1>1. /\ w \in WorldType /\ DOMAIN w.queue = 1..Len(w.queue) /\ Len(w.queue) \in Nat
      /\ w.now \in Nat /\ w.done \in Nat /\ w.done < w.now
      /\ \A s \in Storages : w.mem.usage[s] \in Nat
      /\ \A i \in 1..Len(w.queue) : w.queue[i].serial \in Nat
  BY WorldFacts, QueueFacts
<1>2. \A s \in Storages : /\ w.mem.usage[s] <= w.now
                          /\ w.mem.usage[s] = w.now => busy
  BY <1>1 DEF WorldOK, Ordered
<1>3. CASE ~busy
  <2>1. v = w
    BY <1>3 DEF Flush
  <2>2. \A s \in Storages : w.mem.usage[s] < w.now
    BY <1>1, <1>2, <1>3
  <2> QED
    BY <2>1, <2>2, SparesSelf
<1>4. CASE busy
  <2>1. v = [w EXCEPT !.now = w.now + 1]
    BY <1>4 DEF Flush
  <2>2. /\ v \in WorldType /\ v.mem = w.mem /\ v.now = w.now + 1 /\ v.done = w.done
        /\ v.dirty = w.dirty /\ v.queue = w.queue /\ v.cpu = w.cpu /\ v.gpu = w.gpu
    BY <1>1, <2>1 DEF WorldType
  <2> HIDE DEF v
  <2>3. \A s \in Storages : w.mem.usage[s] < w.now + 1 /\ w.mem.usage[s] <= w.now + 1 /\ w.mem.usage[s] # w.now + 1
    BY <1>1, <1>2
  <2>4. \A i \in 1..Len(w.queue) : w.queue[i].serial <= w.now + 1
    <3>1. \A i \in 1..Len(w.queue) : w.queue[i].serial <= w.now
      BY DEF WorldOK, Ordered
    <3> QED
      BY <1>1, <3>1
  <2>5. w.done < w.now + 1
    BY <1>1
  <2>6. Ordered(v)
    BY <2>2, <2>3, <2>4, <2>5 DEF Ordered, WorldOK
  <2>7. WorldOK(v)
    BY <2>2, <2>6 DEF WorldOK, Coherent, Shared
  <2>8. Alike(w, v, {}) /\ w.mem.made <= v.mem.made
    BY <2>2, WorldFacts DEF Alike
  <2>9. Moves(w, v, {})
    BY <2>2, <2>7, <2>8, SameQueueMoves
  <2> QED
    BY <2>2, <2>3, <2>9 DEF v
<1> QED
  BY <1>3, <1>4

-----------------------------------------------------------------------------
(* Commands are encoded.                                                    *)

\* What a command of a kind does does not depend on its serial.
LEMMA RecordMoves ==
    ASSUME NEW w, WorldOK(w), NEW c \in Commands, Proper(c),
           \A s \in Storages : Touches(c, s) => s <= w.mem.made
    PROVE  LET v == Record(w, c) IN
           /\ Spares(w, v, {c.src, c.dst})
           /\ \A s \in Storages : /\ LastGPU(v, s) = GpuAfter(Final(w), c, s)
                                  /\ LastCPU(v, s) = CpuAfter(Final(w), c, s)
                                  /\ v.mem.needSync[s] = (s = c.dst \/ w.mem.needSync[s])
                                  /\ v.dirty[s] = (s = c.dst \/ w.dirty[s])
                                  /\ v.mem.shared[s] = w.mem.shared[s]
           /\ v.mem.made = w.mem.made /\ v.mem.size = w.mem.size /\ v.now = w.now /\ v.done = w.done
           /\ DrawsRight(w) /\ (c.kind = "draw" => Agrees(LastGPU(w, c.src), c.bytes)) => DrawsRight(v)
<1> DEFINE d == [c EXCEPT !.serial = w.now]
           q == w.queue
           n == Len(q)
           v == Record(w, c)
<1>1. /\ w \in WorldType /\ w.mem \in MemoryType /\ AllProper(w) /\ q \in Seq(Commands) /\ n \in Nat
      /\ w.now \in Nat /\ w.done \in Nat /\ w.done < w.now
      /\ \A s \in Storages : w.mem.usage[s] \in Nat
      /\ \A i \in 1..n : q[i] \in Commands /\ q[i].serial \in Nat
      /\ w.mem.made \in Nat /\ 1..w.mem.made \subseteq Storages
  BY WorldFacts
<1>2. /\ d \in Commands /\ d.serial = w.now /\ d.kind = c.kind /\ d.src = c.src /\ d.dst = c.dst
      /\ d.cells = c.cells /\ d.bytes = c.bytes
  BY <1>1 DEF Commands
<1>3. Proper(d) /\ \A s : Touches(d, s) <=> Touches(c, s)
  BY <1>2 DEF Proper, Touches, Reads, Writes
<1> DEFINE usage == [s \in Storages |-> IF s \in {c.src, c.dst} THEN w.now ELSE w.mem.usage[s]]
           sync == [s \in Storages |-> s = c.dst \/ w.mem.needSync[s]]
           dirt == [s \in Storages |-> s = c.dst \/ w.dirty[s]]
<1>4. usage \in [Storages -> Nat] /\ sync \in [Storages -> BOOLEAN] /\ dirt \in [Storages -> BOOLEAN]
  <2>1. \A s \in Storages : (s = c.dst \/ w.mem.needSync[s]) \in BOOLEAN /\ (s = c.dst \/ w.dirty[s]) \in BOOLEAN
    OBVIOUS
  <2> QED
    BY <1>1, <2>1
<1>5. /\ v = [w EXCEPT !.queue = Append(q, d),
                       !.mem = [w.mem EXCEPT !.usage = usage, !.needSync = sync], !.dirty = dirt]
  BY DEF Record
<1>6. /\ Append(q, d) \in Seq(Commands) /\ Len(Append(q, d)) = n + 1
      /\ \A i \in 1..n : Append(q, d)[i] = q[i]
      /\ Append(q, d)[n + 1] = d
  BY <1>1, <1>2, AppendProperties
<1> DEFINE aq == Append(q, d)
<1> HIDE DEF d, usage, sync, dirt, v, aq
<1>7. /\ v \in WorldType /\ v.queue = aq /\ v.now = w.now /\ v.done = w.done
      /\ v.cpu = w.cpu /\ v.gpu = w.gpu /\ v.dirty = dirt
      /\ v.mem.usage = usage /\ v.mem.needSync = sync
      /\ v.mem.made = w.mem.made /\ v.mem.size = w.mem.size /\ v.mem.shared = w.mem.shared
  <2> DEFINE m == [w.mem EXCEPT !.usage = usage, !.needSync = sync]
  <2>1. /\ m \in MemoryType /\ m.usage = usage /\ m.needSync = sync
        /\ m.made = w.mem.made /\ m.size = w.mem.size /\ m.shared = w.mem.shared
    BY <1>1, <1>4 DEF MemoryType
  <2>2. v = [w EXCEPT !.queue = aq, !.mem = m, !.dirty = dirt]
    BY <1>5 DEF aq
  <2>3. aq \in Seq(Commands)
    BY <1>6 DEF aq
  <2> HIDE DEF m
  <2> QED
    BY <1>1, <1>4, <2>1, <2>2, <2>3 DEF WorldType
<1>8. \A s \in Storages : /\ usage[s] = IF s \in {c.src, c.dst} THEN w.now ELSE w.mem.usage[s]
                          /\ sync[s] = (s = c.dst \/ w.mem.needSync[s])
                          /\ dirt[s] = (s = c.dst \/ w.dirty[s])
  BY DEF usage, sync, dirt
<1>9. /\ Len(aq) = n + 1 /\ aq[n + 1] = d /\ \A i \in 1..n : aq[i] = q[i]
  BY <1>6 DEF aq
<1>10. \A i \in 1..(n + 1) : i \in 1..n \/ i = n + 1
  BY <1>1
<1>11. Ordered(v)
  <2>1. ASSUME NEW i \in 1..(n + 1)
        PROVE  /\ Proper(aq[i]) /\ w.done < aq[i].serial /\ aq[i].serial <= w.now
               /\ \A j \in 1..i : aq[j].serial <= aq[i].serial
               /\ \A s \in Storages : Touches(aq[i], s) => aq[i].serial <= usage[s] /\ s <= w.mem.made
    <3>1. CASE i \in 1..n
      <4>1. aq[i] = q[i] /\ \A j \in 1..i : j \in 1..n /\ aq[j] = q[j]
        BY <1>1, <1>9, <3>1
      <4>2. /\ Proper(q[i]) /\ w.done < q[i].serial /\ q[i].serial <= w.now
            /\ \A j \in 1..i : q[j].serial <= q[i].serial
            /\ \A s \in Storages : Touches(q[i], s) => q[i].serial <= w.mem.usage[s] /\ s <= w.mem.made
        BY <3>1 DEF WorldOK, Ordered
      <4> QED
        BY <1>8, <4>1, <4>2
    <3>2. CASE i = n + 1
      <4>1. aq[i] = d
        BY <1>9, <3>2
      <4>2. \A j \in 1..n : q[j].serial <= w.now
        BY DEF WorldOK, Ordered
      <4>3. \A j \in 1..i : aq[j].serial <= w.now
        BY <1>1, <1>2, <1>9, <1>10, <3>2, <4>2
      <4>4. \A s \in Storages : Touches(d, s) => usage[s] = w.now /\ s <= w.mem.made
        BY <1>3, <1>8 DEF Touches
      <4> QED
        BY <1>1, <1>2, <1>3, <4>1, <4>3, <4>4
    <3> QED
      BY <1>10, <3>1, <3>2
  <2>2. ASSUME NEW s \in Storages
        PROVE  /\ usage[s] <= w.now
               /\ usage[s] = w.now => \E i \in 1..(n + 1) : aq[i].serial = w.now
    <3>1. usage[s] <= w.now
      BY <1>1, <1>8 DEF WorldOK, Ordered
    <3>2. n + 1 \in 1..(n + 1) /\ aq[n + 1].serial = w.now
      BY <1>1, <1>2, <1>9
    <3> QED
      BY <3>1, <3>2
  <2> QED
    BY <1>1, <1>7, <1>9, <2>1, <2>2 DEF Ordered
<1>12. WorldOK(v)
  BY <1>7, <1>11 DEF WorldOK, Coherent, Shared
<1>13. \A j \in 0..n : Alike(Ran(w, 0 + j), Ran(v, 0 + j), {})
  <2>1. Ran(w, 0) = w /\ Ran(v, 0) = v /\ AllProper(v)
    BY <1>1, <1>7, <1>12, RanSteps, WorldFacts
  <2>2. Alike(Ran(w, 0), Ran(v, 0), {})
    BY <1>7, <2>1 DEF Alike
  <2>3. 0 \in Nat /\ 0 + n <= Len(w.queue) /\ 0 + n <= Len(v.queue)
    BY <1>1, <1>7, <1>9
  <2>4. \A j \in 1..n : w.queue[0 + j] = v.queue[0 + j]
    <3>1. \A j \in 1..n : 0 + j = j
      OBVIOUS
    <3> QED
      BY <1>7, <1>9, <3>1
  <2>5. \A j \in 1..n : LET s == w.queue[0 + j].dst IN
          s \in Storages => w.mem.shared[s] = v.mem.shared[s]
    BY <1>7
  <2>6. \A j \in 1..n : \A s \in {} : ~Touches(w.queue[0 + j], s)
    OBVIOUS
  <2> HIDE DEF n
  <2> QED
    BY <1>1, <1>7, <2>1, <2>2, <2>3, <2>4, <2>5, <2>6, Lockstep
<1>14. \A j \in 0..n : Alike(Ran(w, j), Ran(v, j), {})
  <2>1. \A j \in 0..n : 0 + j = j
    BY <1>1
  <2> QED
    BY <1>13, <2>1
<1> DEFINE x == Ran(w, n)
           y == Ran(v, n)
<1>15. /\ x \in WorldType /\ y \in WorldType /\ x.mem = w.mem /\ y.mem = v.mem /\ Alike(x, y, {})
       /\ Final(w) = x /\ Final(v) = Execute(y, d)
  <2>1. n \in 0..n /\ n \in 0..(n + 1) /\ n + 1 <= n + 1
    BY <1>1
  <2>2. x \in WorldType /\ SameRest(w, x)
    BY <1>1, <2>1, RanType
  <2>3. y \in WorldType /\ SameRest(v, y)
    BY <1>7, <1>9, <1>12, <2>1, RanType, WorldFacts
  <2>4. Ran(v, n + 1) = Execute(y, d)
    BY <1>7, <1>9, <2>1, RanSteps DEF WorldType
  <2> QED
    BY <1>7, <1>9, <1>14, <2>1, <2>2, <2>3, <2>4 DEF SameRest, Final
<1>16. \A s \in Storages : LastGPU(v, s) = GpuAfter(y, d, s) /\ LastCPU(v, s) = CpuAfter(y, d, s)
  BY <1>2, <1>3, <1>15, ExecuteIs DEF LastGPU, LastCPU
<1>17. ASSUME NEW s \in Storages
       PROVE  GpuAfter(y, d, s) = GpuAfter(x, c, s) /\ CpuAfter(y, d, s) = CpuAfter(x, c, s)
  <2>1. x.gpu[s] = y.gpu[s] /\ x.cpu[s] = y.cpu[s] /\ x.mem.shared[s] = y.mem.shared[s]
    BY <1>7, <1>15 DEF Alike
  <2>2. c.kind # "fill" => x.gpu[c.src] = y.gpu[c.src]
    BY <1>15 DEF Alike, Proper, Reads
  <2>3. GpuAfter(y, d, s) = GpuAfter(x, c, s)
    BY <1>2, <2>1, <2>2 DEF GpuAfter
  <2> QED
    BY <1>2, <2>1, <2>3 DEF CpuAfter
<1> HIDE DEF x, y
<1>18. \A s \in Storages : /\ LastGPU(v, s) = GpuAfter(Final(w), c, s)
                           /\ LastCPU(v, s) = CpuAfter(Final(w), c, s)
  BY <1>15, <1>16, <1>17
<1>19. ASSUME NEW s \in (1..w.mem.made) \ {c.src, c.dst}
       PROVE  /\ LastGPU(v, s) = LastGPU(w, s) /\ LastCPU(v, s) = LastCPU(w, s)
              /\ v.mem.needSync[s] = w.mem.needSync[s] /\ v.dirty[s] = w.dirty[s]
              /\ Idle(w, s) => Idle(v, s)
  <2>1. s \in Storages /\ s # c.src /\ s # c.dst
    BY <1>1
  <2>2. GpuAfter(Final(w), c, s) = Final(w).gpu[s] /\ CpuAfter(Final(w), c, s) = Final(w).cpu[s]
    BY <2>1 DEF GpuAfter, CpuAfter
  <2>3. LastGPU(v, s) = LastGPU(w, s) /\ LastCPU(v, s) = LastCPU(w, s)
    BY <1>18, <2>1, <2>2 DEF LastGPU, LastCPU
  <2>4. v.mem.needSync[s] = w.mem.needSync[s] /\ v.dirty[s] = w.dirty[s]
    <3>1. w.mem.needSync[s] \in BOOLEAN /\ w.dirty[s] \in BOOLEAN
      BY <2>1, WorldFacts
    <3> QED
      BY <1>7, <1>8, <2>1, <3>1
  <2>5. ~Touches(d, s)
    BY <1>2, <2>1 DEF Touches
  <2>6. ASSUME Idle(w, s) PROVE Idle(v, s)
    <3>1. \A i \in 1..(n + 1) : ~Touches(aq[i], s)
      BY <1>9, <1>10, <2>5, <2>6 DEF Idle
    <3> QED
      BY <1>7, <1>9, <3>1 DEF Idle
  <2> QED
    BY <2>3, <2>4, <2>6
<1>20. Spares(w, v, {c.src, c.dst})
  <2>1. w.mem.made <= v.mem.made
    BY <1>1, <1>7
  <2> QED
    BY <1>7, <1>12, <1>19, <2>1 DEF Spares
<1>21. ASSUME DrawsRight(w), c.kind = "draw" => Agrees(LastGPU(w, c.src), c.bytes)
       PROVE  DrawsRight(v)
  <2> SUFFICES ASSUME NEW i \in 1..(n + 1), aq[i].kind = "draw"
               PROVE  Agrees(Ran(v, i - 1).gpu[aq[i].src], aq[i].bytes)
    BY <1>7, <1>9 DEF DrawsRight
  <2>1. i - 1 \in 0..n
    BY <1>1
  <2>2. aq[i].src \in Storages
    <3>1. Proper(aq[i])
      BY <1>1, <1>3, <1>9, <1>10 DEF AllProper
    <3> QED
      BY <3>1 DEF Proper, Reads
  <2>3. Ran(v, i - 1).gpu[aq[i].src] = Ran(w, i - 1).gpu[aq[i].src]
    BY <1>14, <2>1, <2>2 DEF Alike
  <2>4. CASE i \in 1..n
    BY <1>9, <1>21, <2>3, <2>4 DEF DrawsRight
  <2>5. CASE i = n + 1
    <3>1. i - 1 = n /\ aq[i] = d
      BY <1>1, <1>9, <2>5
    <3>2. Agrees(Final(w).gpu[c.src], c.bytes)
      BY <1>2, <1>21, <2>5, <3>1 DEF LastGPU
    <3> QED
      BY <1>2, <2>3, <3>1, <3>2 DEF Final
  <2> QED
    BY <1>10, <2>4, <2>5
<1> QED
  BY <1>7, <1>8, <1>18, <1>20, <1>21 DEF v

-----------------------------------------------------------------------------
(* The CPU gets at the contents.                                            *)

LEMMA BlankType == Blank \in Data /\ Undef \in Nat
  BY DEF Blank, Data, Undef

\* The defined ones of data are what the storage s holds in the cells C, once
\* the GPU is done, and what the CPU sees unless a synchronization is due.
HasOn(w, s, data, C) ==
    \A c \in C : data[c] # Undef =>
        /\ LastGPU(w, s)[c] = data[c]
        /\ ~w.mem.needSync[s] => LastCPU(w, s)[c] = data[c]

\* An idle storage holds already what it will hold.
LEMMA IdleIs ==
    ASSUME NEW w, WorldOK(w), NEW s \in Storages, Idle(w, s)
    PROVE  LastGPU(w, s) = w.gpu[s] /\ LastCPU(w, s) = w.cpu[s]
  BY WorldFacts, RanIdle DEF LastGPU, LastCPU, Final

LEMMA LastCoherent ==
    ASSUME NEW w, WorldOK(w), NEW s \in Storages, w.mem.shared[s]
    PROVE  LastCPU(w, s) = LastGPU(w, s)
<1>1. Len(w.queue) \in 0..Len(w.queue)
  BY WorldFacts
<1> QED
  BY <1>1, RanCoherent DEF LastGPU, LastCPU, Final, Shared

\* The storage s has other contents.
Put(w, s, a, b) == [w EXCEPT !.cpu[s] = a, !.gpu[s] = b]

LEMMA ContentsMove ==
    ASSUME NEW w, WorldOK(w), NEW s \in 1..w.mem.made, Idle(w, s), NEW a \in Data, NEW b \in Data,
           w.mem.shared[s] => a = b,
           NEW v, v = Put(w, s, a, b)
    PROVE  /\ Moves(w, v, {s}) /\ v.mem = w.mem /\ v.dirty = w.dirty /\ v.queue = w.queue
           /\ v.now = w.now /\ v.done = w.done
           /\ Idle(v, s) /\ LastCPU(v, s) = a /\ LastGPU(v, s) = b /\ v.cpu[s] = a /\ v.gpu[s] = b
<1> DEFINE cpu == [w.cpu EXCEPT ![s] = a]
           gpu == [w.gpu EXCEPT ![s] = b]
<1>1. w \in WorldType /\ s \in Storages /\ w.mem.made \in Nat
  BY WorldFacts
<1>2. w.cpu \in [Storages -> Data] /\ w.gpu \in [Storages -> Data]
  BY <1>1 DEF WorldType
<1>3. /\ cpu \in [Storages -> Data] /\ cpu[s] = a /\ \A t \in Storages \ {s} : cpu[t] = w.cpu[t]
      /\ gpu \in [Storages -> Data] /\ gpu[s] = b /\ \A t \in Storages \ {s} : gpu[t] = w.gpu[t]
  BY <1>1, <1>2
<1>4. v = [w EXCEPT !.cpu = cpu, !.gpu = gpu]
  BY DEF Put
<1> HIDE DEF cpu, gpu
<1>5. /\ v \in WorldType /\ v.mem = w.mem /\ v.now = w.now /\ v.done = w.done
      /\ v.dirty = w.dirty /\ v.queue = w.queue /\ v.cpu = cpu /\ v.gpu = gpu
  BY <1>1, <1>3, <1>4 DEF WorldType
<1>6. Ordered(v)
  BY <1>5 DEF Ordered, WorldOK
<1>7. ~(s > w.mem.made)
  BY <1>1
<1>8. Coherent(v)
  BY <1>3, <1>5, <1>7 DEF Coherent, Shared, WorldOK
<1>9. WorldOK(v)
  BY <1>5, <1>6, <1>8 DEF WorldOK
<1>10. Alike(w, v, {s}) /\ {s} \in SUBSET Storages /\ \A t \in {s} : Idle(w, t)
  BY <1>1, <1>3, <1>5 DEF Alike
<1>11. Moves(w, v, {s})
  <2>1. w.mem.made <= v.mem.made
    BY <1>1, <1>5
  <2> QED
    BY <1>5, <1>9, <1>10, <2>1, SameQueueMoves
<1>12. Idle(v, s)
  BY <1>5 DEF Idle
<1>13. LastCPU(v, s) = a /\ LastGPU(v, s) = b
  <2>1. LastCPU(v, s) = v.cpu[s] /\ LastGPU(v, s) = v.gpu[s]
    BY <1>1, <1>9, <1>12, IdleIs
  <2> QED
    BY <1>3, <1>5, <2>1
<1> QED
  BY <1>3, <1>5, <1>11, <1>12, <1>13

\* The CPU writes an idle storage, and tells Metal.
Written(w, s, cells, bytes) == DidModifyRange(CpuWrite(w, s, cells, bytes), s, cells)

\* Then v has the bytes in the cells of s, and s is all that changed.
Wrote(w, v, s, cells, bytes) ==
    /\ Moves(w, v, {s}) /\ v.mem = w.mem /\ v.dirty = w.dirty /\ Idle(v, s)
    /\ \A c \in Cells : /\ LastCPU(v, s)[c] = IF c \in cells THEN bytes[c] ELSE w.cpu[s][c]
                        /\ LastGPU(v, s)[c] = IF c \in cells THEN bytes[c] ELSE w.gpu[s][c]

LEMMA WriteMoves ==
    ASSUME NEW w, WorldOK(w), NEW s \in 1..w.mem.made, Idle(w, s), NEW bytes \in Data, NEW cells
    PROVE  Wrote(w, Written(w, s, cells, bytes), s, cells, bytes)
<1> DEFINE a == Merge(w.cpu[s], cells, bytes)
           g == IF Managed(w, s) THEN w.gpu[s] ELSE a
           b == Merge(g, cells, a)
           v == Written(w, s, cells, bytes)
<1>1. /\ w \in WorldType /\ s \in Storages /\ w.cpu[s] \in Data /\ w.gpu[s] \in Data
      /\ w.mem.shared[s] \in BOOLEAN
  BY WorldFacts
<1>2. a \in Data /\ \A c \in Cells : a[c] = IF c \in cells THEN bytes[c] ELSE w.cpu[s][c]
  BY <1>1, MergeType
<1>3. g \in Data
  BY <1>1, <1>2
<1>4. b \in Data /\ \A c \in Cells : b[c] = IF c \in cells THEN a[c] ELSE g[c]
  <2> HIDE DEF a, g
  <2> QED
    BY <1>2, <1>3, MergeType
<1>5. w.mem.shared[s] => w.cpu[s] = w.gpu[s]
  BY <1>1 DEF WorldOK, Coherent, Shared
<1>6. w.mem.shared[s] => a = b
  <2> SUFFICES ASSUME w.mem.shared[s] PROVE a = b
    OBVIOUS
  <2>1. g = a
    BY DEF Managed
  <2> HIDE DEF a, g, b
  <2>2. \A c \in Cells : b[c] = a[c]
    BY <1>4, <2>1
  <2> QED
    BY <1>2, <1>4, <2>2 DEF Data
<1>7. \A c \in Cells : b[c] = IF c \in cells THEN bytes[c] ELSE w.gpu[s][c]
  <2>1. g = w.gpu[s] \/ (w.mem.shared[s] /\ g = a)
    BY DEF Managed
  <2> HIDE DEF a, g, b
  <2> QED
    BY <1>2, <1>4, <1>5, <2>1
<1>8. v = Put(w, s, a, b)
  <2>1. CpuWrite(w, s, cells, bytes) = [w EXCEPT !.cpu[s] = a, !.gpu[s] = g]
    BY DEF CpuWrite
  <2> HIDE DEF a, g
  <2> DEFINE x == [w EXCEPT !.cpu[s] = a, !.gpu[s] = g]
  <2>2. x.cpu[s] = a /\ x.gpu[s] = g /\ [x EXCEPT !.gpu[s] = b] = Put(w, s, a, b)
    BY <1>1 DEF WorldType, Put
  <2>3. v = [x EXCEPT !.gpu[s] = Merge(@, cells, x.cpu[s])]
    BY <2>1 DEF Written, DidModifyRange
  <2> HIDE DEF x
  <2> QED
    BY <2>2, <2>3
<1> HIDE DEF a, b, v
<1>9. /\ Moves(w, v, {s}) /\ v.mem = w.mem /\ v.dirty = w.dirty /\ v.queue = w.queue
      /\ v.now = w.now /\ v.done = w.done
      /\ Idle(v, s) /\ LastCPU(v, s) = a /\ LastGPU(v, s) = b
  BY <1>2, <1>4, <1>6, <1>8, ContentsMove
<1> QED
  BY <1>2, <1>7, <1>9 DEF Wrote, v

\* The command buffer that uses s is flushed, and waited for.
LEMMA ReadyMoves ==
    ASSUME NEW w, WorldOK(w), NEW s \in 1..w.mem.made
    PROVE  LET v == EnsureResourceReadyForCPU(FlushIfUsed(w, s), s) IN
           Moves(w, v, {}) /\ Idle(v, s) /\ v.mem = w.mem /\ v.dirty = w.dirty
<1> DEFINE x == FlushIfUsed(w, s)
<1>1. /\ s \in Storages /\ s # Nil /\ w.now \in Nat /\ w.done \in Nat /\ w.done < w.now
      /\ w.mem.usage[s] \in Nat
  BY WorldFacts DEF Nil, Storages
<1>2. /\ Moves(w, x, {}) /\ x.mem = w.mem /\ x.dirty = w.dirty
      /\ w.mem.usage[s] < x.now
  <2>1. CASE InUse(w.mem, s, w.done)
    BY <1>1, <2>1, FlushMoves DEF FlushIfUsed
  <2>2. CASE ~InUse(w.mem, s, w.done)
    <3>1. w.mem.usage[s] < w.now
      BY <1>1, <2>2 DEF InUse
    <3> QED
      BY <2>2, <3>1, SparesSelf DEF FlushIfUsed
  <2> QED
    BY <2>1, <2>2
<1> HIDE DEF x
<1>3. WorldOK(x)
  BY <1>2 DEF Moves, Spares
<1>4. LET v == AdvanceTo(x, x.mem.usage[s]) IN
      /\ Moves(x, v, {}) /\ v.mem = x.mem /\ v.dirty = x.dirty
      /\ \A t \in Storages : x.mem.usage[t] <= x.mem.usage[s] => Idle(v, t)
  BY <1>1, <1>2, <1>3, AdvanceMoves
<1>5. w.mem.usage[s] <= w.mem.usage[s]
  BY <1>1
<1>6. Moves(w, AdvanceTo(x, x.mem.usage[s]), {})
  BY <1>2, <1>4, MovesThen
<1> QED
  BY <1>1, <1>2, <1>4, <1>5, <1>6 DEF EnsureResourceReadyForCPU, x

\* The CPU's copy is made current by a command, if a synchronization is due.
LEMMA SyncMoves ==
    ASSUME NEW w, WorldOK(w), NEW s \in 1..w.mem.made
    PROVE  LET v == EnsureContentSynced(w, s) IN
           /\ Moves(w, v, {s}) /\ v.mem.made = w.mem.made /\ v.dirty = w.dirty
           /\ LastGPU(v, s) = LastGPU(w, s)
           /\ \/ LastCPU(v, s) = LastGPU(w, s)
              \/ ~w.mem.needSync[s] /\ LastCPU(v, s) = LastCPU(w, s)
<1> DEFINE c == Command("synchronize", s, NoBuffer, {}, Blank)
           x == Record(w, c)
           v == [x EXCEPT !.mem.needSync[s] = FALSE]
<1>1. /\ s \in Storages /\ w.mem.shared[s] \in BOOLEAN /\ w.mem.needSync[s] \in BOOLEAN
      /\ w.mem.made \in Nat
  BY WorldFacts
<1>2. CASE ~(Managed(w, s) /\ w.mem.needSync[s])
  <2>1. EnsureContentSynced(w, s) = w
    BY <1>2 DEF EnsureContentSynced
  <2>2. w.mem.shared[s] => LastCPU(w, s) = LastGPU(w, s)
    BY <1>1, LastCoherent
  <2> QED
    BY <1>1, <1>2, <2>1, <2>2, SparesSelf DEF Managed
<1>3. CASE Managed(w, s) /\ w.mem.needSync[s]
  <2>1. EnsureContentSynced(w, s) = v
    BY <1>3 DEF EnsureContentSynced
  <2>2. /\ c \in Commands /\ c.kind = "synchronize" /\ c.src = s /\ c.dst = NoBuffer
    BY <1>1, BlankType DEF Command, Commands, CommandKinds
  <2> HIDE DEF c
  <2>3. Proper(c) /\ s # NoBuffer /\ \A t \in Storages : Touches(c, t) => t <= w.mem.made
    <3>1. s # NoBuffer /\ NoBuffer \notin Storages /\ s <= w.mem.made
      <4>1. NoBuffer \notin Storages
        BY StoragesAre
      <4>2. s <= w.mem.made
        BY <1>1
      <4> QED
        BY <1>1, <4>1, <4>2
    <3>2. \A t \in Storages : Touches(c, t) => t = s
      BY <2>2, <3>1 DEF Touches
    <3>3. Proper(c)
      BY <1>1, <2>2, <3>1 DEF Proper, Reads, Writes
    <3> QED
      BY <3>1, <3>2, <3>3
  <2> HIDE DEF x
  <2>4. /\ Spares(w, x, {s, NoBuffer})
        /\ \A t \in Storages : /\ LastGPU(x, t) = GpuAfter(Final(w), c, t)
                               /\ LastCPU(x, t) = CpuAfter(Final(w), c, t)
                               /\ x.dirty[t] = (t = NoBuffer \/ w.dirty[t])
                               /\ x.mem.shared[t] = w.mem.shared[t]
        /\ x.mem.made = w.mem.made /\ DrawsKept(w, x)
    <3>1. c.kind # "draw"
      BY <2>2
    <3> QED
      BY <2>2, <2>3, <3>1, RecordMoves DEF DrawsKept, x
  <2>5. WorldOK(x)
    BY <2>4 DEF Spares
  <2>6. x \in WorldType /\ x.mem \in MemoryType
    BY <2>5, WorldFacts
  <2>7. /\ v \in WorldType /\ v.now = x.now /\ v.done = x.done /\ v.queue = x.queue
        /\ v.cpu = x.cpu /\ v.gpu = x.gpu /\ v.dirty = x.dirty
        /\ v.mem.made = x.mem.made /\ v.mem.size = x.mem.size /\ v.mem.shared = x.mem.shared
        /\ v.mem.usage = x.mem.usage /\ \A t \in Storages \ {s} : v.mem.needSync[t] = x.mem.needSync[t]
    <3> DEFINE ns == [x.mem.needSync EXCEPT ![s] = FALSE]
               m == [x.mem EXCEPT !.needSync = ns]
    <3>1. x.mem.needSync \in [Storages -> BOOLEAN]
      BY <2>6 DEF MemoryType
    <3>2. ns \in [Storages -> BOOLEAN] /\ \A t \in Storages \ {s} : ns[t] = x.mem.needSync[t]
      BY <3>1
    <3> HIDE DEF ns
    <3>3. /\ m \in MemoryType /\ m.made = x.mem.made /\ m.size = x.mem.size /\ m.shared = x.mem.shared
          /\ m.usage = x.mem.usage /\ m.needSync = ns
      BY <2>6, <3>2 DEF MemoryType
    <3>4. v = [x EXCEPT !.mem = m]
      BY DEF ns
    <3> HIDE DEF m, v
    <3> QED
      BY <2>6, <3>2, <3>3, <3>4 DEF WorldType
  <2> HIDE DEF v
  <2>8. Ordered(v)
    BY <2>5, <2>7 DEF Ordered, WorldOK
  <2>9. WorldOK(v)
    BY <2>5, <2>7, <2>8 DEF WorldOK, Coherent, Shared
  <2>10. Moves(x, v, {s})
    <3>1. Alike(x, v, {}) /\ x.mem.made <= v.mem.made
      BY <1>1, <2>4, <2>7 DEF Alike
    <3>2. \A t \in (1..x.mem.made) \ {s} : v.mem.needSync[t] = x.mem.needSync[t] /\ v.dirty[t] = x.dirty[t]
      BY <2>5, <2>7, WorldFacts
    <3> QED
      BY <2>5, <2>7, <2>9, <3>1, <3>2, SameQueueMoves
  <2>11. LastGPU(v, s) = LastGPU(x, s) /\ LastCPU(v, s) = LastCPU(x, s)
    <3>1. Alike(x, v, {})
      BY <2>7 DEF Alike
    <3> QED
      BY <1>1, <2>5, <2>7, <3>1, SameQueue
  <2>12. Spares(w, x, {s})
    <3>1. \A t \in (1..w.mem.made) \ {s} : t \in (1..w.mem.made) \ {s, NoBuffer}
      BY StoragesAre, WorldFacts
    <3> QED
      BY <2>4, <3>1 DEF Spares
  <2>13. Moves(w, v, {s})
    BY <2>4, <2>10, <2>12, MovesThen DEF Moves
  <2>14. LastGPU(x, s) = LastGPU(w, s) /\ LastCPU(x, s) = LastGPU(w, s)
    BY <1>1, <2>2, <2>3, <2>4 DEF GpuAfter, CpuAfter, LastGPU, LastCPU
  <2>15. v.dirty = w.dirty
    <3>1. v.dirty \in [Storages -> BOOLEAN] /\ w.dirty \in [Storages -> BOOLEAN]
      BY <2>7, WorldFacts DEF WorldType
    <3>2. \A t \in Storages : v.dirty[t] = w.dirty[t]
      <4>1. \A t \in Storages : w.dirty[t] \in BOOLEAN /\ t # NoBuffer
        BY <3>1, StoragesAre
      <4> QED
        BY <2>4, <2>7, <4>1
    <3> QED
      BY <3>1, <3>2
  <2> QED
    BY <2>1, <2>4, <2>7, <2>11, <2>13, <2>14, <2>15
<1> QED
  BY <1>2, <1>3

\* Buffer::map waits until the CPU may use the storage and sees what is in it.
LEMMA MapMoves ==
    ASSUME NEW w, WorldOK(w), NEW s \in 1..w.mem.made
    PROVE  LET v == Map(w, s, FALSE) IN
           /\ Moves(w, v, {s}) /\ Idle(v, s) /\ v.dirty = w.dirty /\ v.mem.made = w.mem.made
           /\ v.gpu[s] = LastGPU(w, s) /\ v.gpu[s] = LastGPU(v, s) /\ v.cpu[s] = LastCPU(v, s)
           /\ \/ v.cpu[s] = LastGPU(w, s)
              \/ ~w.mem.needSync[s] /\ v.cpu[s] = LastCPU(w, s)
<1> DEFINE x == EnsureContentSynced(w, s)
           v == EnsureResourceReadyForCPU(FlushIfUsed(x, s), s)
<1>0. s \in Storages
  BY WorldFacts
<1>1. /\ Moves(w, x, {s}) /\ x.mem.made = w.mem.made /\ x.dirty = w.dirty
      /\ LastGPU(x, s) = LastGPU(w, s)
      /\ \/ LastCPU(x, s) = LastGPU(w, s)
         \/ ~w.mem.needSync[s] /\ LastCPU(x, s) = LastCPU(w, s)
  BY SyncMoves
<1> HIDE DEF x
<1>2. WorldOK(x) /\ s \in 1..x.mem.made
  BY <1>1 DEF Moves, Spares
<1>3. Moves(x, v, {}) /\ Idle(v, s) /\ v.mem = x.mem /\ v.dirty = x.dirty
  BY <1>2, ReadyMoves
<1> HIDE DEF v
<1>4. Map(w, s, FALSE) = v
  BY DEF Map, x, v
<1>5. Moves(x, v, {s})
  BY <1>3, SparesLess
<1>6. Moves(w, v, {s})
  BY <1>1, <1>5, MovesThen
<1>7. LastGPU(v, s) = LastGPU(x, s) /\ LastCPU(v, s) = LastCPU(x, s)
  BY <1>2, <1>3 DEF Moves, Spares
<1>8. v.gpu[s] = LastGPU(v, s) /\ v.cpu[s] = LastCPU(v, s)
  BY <1>0, <1>3, <1>6, IdleIs DEF Moves, Spares
<1> QED
  BY <1>1, <1>3, <1>4, <1>6, <1>7, <1>8

\* After it both sides of the bus have the bytes that the storage had.
Mapped(w, s, v) == v = Map(w, s, FALSE)

LEMMA MapHas ==
    ASSUME NEW w, WorldOK(w), NEW s \in 1..w.mem.made, NEW data, NEW C, HasOn(w, s, data, C),
           NEW v, Mapped(w, s, v)
    PROVE  /\ HasOn(v, s, data, C)
           /\ \A c \in C : data[c] # Undef => v.cpu[s][c] = data[c] /\ v.gpu[s][c] = data[c]
<1>1. /\ v.gpu[s] = LastGPU(w, s) /\ v.gpu[s] = LastGPU(v, s) /\ v.cpu[s] = LastCPU(v, s)
      /\ \/ v.cpu[s] = LastGPU(w, s)
         \/ ~w.mem.needSync[s] /\ v.cpu[s] = LastCPU(w, s)
  BY MapMoves DEF Mapped
<1>2. \A c \in C : data[c] # Undef => v.cpu[s][c] = data[c] /\ v.gpu[s][c] = data[c]
  BY <1>1 DEF HasOn
<1> QED
  BY <1>1, <1>2 DEF HasOn

\* What the CPU has written is there, and the rest stays.
LEMMA WriteHas ==
    ASSUME NEW w, WorldOK(w), NEW s \in 1..w.mem.made, Idle(w, s),
           NEW data, NEW C \in SUBSET Cells, HasOn(w, s, data, C),
           NEW bytes \in Data, NEW cells \in SUBSET Cells,
           NEW v, Wrote(w, v, s, cells, bytes)
    PROVE  HasOn(v, s, Merge(data, cells, bytes), C \cup cells)
<1>1. /\ v.mem = w.mem
      /\ \A c \in Cells : /\ LastCPU(v, s)[c] = IF c \in cells THEN bytes[c] ELSE w.cpu[s][c]
                          /\ LastGPU(v, s)[c] = IF c \in cells THEN bytes[c] ELSE w.gpu[s][c]
  BY DEF Wrote
<1>2. w.gpu[s] = LastGPU(w, s) /\ w.cpu[s] = LastCPU(w, s)
  BY WorldFacts, IdleIs
<1>3. \A c \in Cells : Merge(data, cells, bytes)[c] = IF c \in cells THEN bytes[c] ELSE data[c]
  BY DEF Merge
<1> QED
  BY <1>1, <1>2, <1>3 DEF HasOn

\* cpuReadMemDirty is cleared.
Clean(w, s) == [w EXCEPT !.dirty[s] = FALSE]

LEMMA CleanMoves ==
    ASSUME NEW w, WorldOK(w), NEW s \in 1..w.mem.made, NEW v, v = Clean(w, s)
    PROVE  /\ Moves(w, v, {s}) /\ v.mem = w.mem /\ v.cpu = w.cpu
           /\ LastGPU(v, s) = LastGPU(w, s) /\ LastCPU(v, s) = LastCPU(w, s)
           /\ Idle(w, s) => Idle(v, s)
<1> DEFINE dirt == [w.dirty EXCEPT ![s] = FALSE]
<1>1. w \in WorldType /\ s \in Storages /\ w.dirty \in [Storages -> BOOLEAN] /\ w.mem.made \in Nat
  BY WorldFacts DEF WorldType
<1>2. /\ dirt \in [Storages -> BOOLEAN] /\ dirt[s] = FALSE
      /\ \A t \in Storages \ {s} : dirt[t] = w.dirty[t]
  BY <1>1
<1>3. v = [w EXCEPT !.dirty = dirt]
  BY DEF Clean
<1> HIDE DEF dirt
<1>4. /\ v \in WorldType /\ v.mem = w.mem /\ v.now = w.now /\ v.done = w.done
      /\ v.dirty = dirt /\ v.queue = w.queue /\ v.cpu = w.cpu /\ v.gpu = w.gpu
  BY <1>1, <1>2, <1>3 DEF WorldType
<1>5. Ordered(v)
  BY <1>4 DEF Ordered, WorldOK
<1>6. WorldOK(v)
  BY <1>4, <1>5 DEF WorldOK, Coherent, Shared
<1>7. Alike(w, v, {}) /\ w.mem.made <= v.mem.made
  BY <1>1, <1>4 DEF Alike
<1>8. \A t \in (1..w.mem.made) \ {s} : v.dirty[t] = w.dirty[t]
  BY <1>2, <1>4, WorldFacts
<1>9. Moves(w, v, {s})
  BY <1>4, <1>6, <1>7, <1>8, SameQueueMoves
<1>10. LastGPU(v, s) = LastGPU(w, s) /\ LastCPU(v, s) = LastCPU(w, s)
  BY <1>1, <1>4, <1>7, SameQueue
<1> QED
  BY <1>2, <1>4, <1>9, <1>10 DEF Idle

-----------------------------------------------------------------------------
(* Storages are made.                                                       *)

\* m2 has the storages of m, unchanged, and new ones nothing uses.
Grown(m, m2) ==
    /\ m2 \in MemoryType /\ Extends(m, m2)
    /\ \A s \in 1..m.made : m2.shared[s] = m.shared[s] /\ m2.needSync[s] = m.needSync[s]

LEMMA GrownSelf ==
    ASSUME NEW m \in MemoryType
    PROVE  Grown(m, m)
<1>1. m.made \in Nat
  BY StoragesBounded DEF MemoryType
<1> QED
  BY <1>1 DEF Grown, Extends

\* Other memory with the same storages.
WithMemory(w, m) == [w EXCEPT !.mem = m]

LEMMA MemoryMoves ==
    ASSUME NEW w, WorldOK(w), NEW m, Grown(w.mem, m), NEW v, v = WithMemory(w, m)
    PROVE  /\ Moves(w, v, {}) /\ v.mem = m /\ v.now = w.now /\ v.done = w.done /\ v.queue = w.queue
           /\ \A s \in Storages : s > w.mem.made => Idle(v, s)
           /\ \A s \in Storages : Idle(w, s) => Idle(v, s)
<1>1. /\ w \in WorldType /\ w.mem.made \in Nat /\ w.now \in Nat /\ w.done \in Nat
      /\ w.done < w.now /\ Len(w.queue) \in Nat
      /\ \A s \in Storages : w.mem.usage[s] \in Nat /\ s \in Nat
  BY WorldFacts, StoragesAre
<1>2. m \in MemoryType /\ m.made \in Nat
  BY StoragesBounded DEF Grown, MemoryType
<1>3. /\ v \in WorldType /\ v.mem = m /\ v.now = w.now /\ v.done = w.done
      /\ v.dirty = w.dirty /\ v.queue = w.queue /\ v.cpu = w.cpu /\ v.gpu = w.gpu
  BY <1>1, <1>2 DEF WorldType, WithMemory
<1>4. /\ w.mem.made <= m.made
      /\ \A s \in 1..w.mem.made : /\ m.size[s] = w.mem.size[s] /\ m.usage[s] = w.mem.usage[s]
                                  /\ m.shared[s] = w.mem.shared[s]
                                  /\ m.needSync[s] = w.mem.needSync[s]
      /\ \A s \in Storages : m.usage[s] \in {0, w.mem.usage[s]}
  BY DEF Grown, Extends
<1>5. \A s \in Storages : s <= w.mem.made => s \in 1..w.mem.made
  BY <1>1, StoragesAre
<1>6. Ordered(v)
  <2>1. ASSUME NEW i \in 1..Len(w.queue), NEW s \in Storages, Touches(w.queue[i], s)
        PROVE  w.queue[i].serial <= m.usage[s] /\ s <= m.made
    <3>1. w.queue[i].serial <= w.mem.usage[s] /\ s <= w.mem.made
      BY <2>1 DEF WorldOK, Ordered
    <3>2. m.usage[s] = w.mem.usage[s]
      BY <1>4, <1>5, <3>1
    <3> QED
      BY <1>1, <1>2, <1>4, <3>1, <3>2
  <2>2. ASSUME NEW s \in Storages
        PROVE  /\ m.usage[s] <= w.now
               /\ m.usage[s] = w.now => \E i \in 1..Len(w.queue) : w.queue[i].serial = w.now
    <3>1. m.usage[s] = 0 \/ m.usage[s] = w.mem.usage[s]
      BY <1>4
    <3> QED
      BY <1>1, <3>1 DEF WorldOK, Ordered
  <2> QED
    BY <1>3, <2>1, <2>2 DEF Ordered, WorldOK
<1>7. Coherent(v)
  <2> SUFFICES ASSUME NEW s \in Storages, m.shared[s] \/ s > m.made
               PROVE  w.cpu[s] = w.gpu[s]
    BY <1>3 DEF Coherent, Shared
  <2>1. CASE s \in 1..w.mem.made
    <3>1. m.shared[s] = w.mem.shared[s] /\ ~(s > m.made)
      BY <1>1, <1>2, <1>4, <2>1
    <3> QED
      BY <3>1 DEF WorldOK, Coherent, Shared
  <2>2. CASE s \notin 1..w.mem.made
    <3>1. s > w.mem.made
      BY <1>1, <1>5, <2>2
    <3> QED
      BY <3>1 DEF WorldOK, Coherent, Shared
  <2> QED
    BY <2>1, <2>2
<1>8. WorldOK(v)
  BY <1>3, <1>6, <1>7 DEF WorldOK
<1>9. Moves(w, v, {})
  <2>1. Alike(w, v, {})
    BY <1>3 DEF Alike
  <2> QED
    BY <1>3, <1>4, <1>8, <2>1, SameQueueMoves
<1>10. ASSUME NEW s \in Storages, s > w.mem.made
       PROVE  Idle(v, s)
  <2>1. \A i \in 1..Len(w.queue) : Touches(w.queue[i], s) => s <= w.mem.made
    BY DEF WorldOK, Ordered
  <2> QED
    BY <1>1, <1>3, <1>10, <2>1 DEF Idle
<1> QED
  BY <1>3, <1>9, <1>10 DEF Idle

-----------------------------------------------------------------------------
(* Where the buffers of a pool come from.                                   *)

\* The storages a pool holds.
Members(p) ==
    {s \in Storages : \/ s = p.cur
                      \/ \E i \in 1..Len(p.free) : p.free[i] = s
                      \/ \E i \in 1..Len(p.inflight) : p.inflight[i] = s}

\* q is the pool p later on: its storages come from p or from F.
Within(p, q, F) ==
    /\ \A s \in Members(q) : s \in Members(p) \/ s \in F
    /\ q.align = p.align /\ q.max = p.max /\ q.always = p.always /\ q.initial = p.initial

Fresh(m, m2) == (m.made + 1)..m2.made

\* What an operation r does to the pool p and to the memory m.
Supplied(p, m, d, r) ==
    /\ Grown(m, r.m) /\ r.m.made \in m.made..(m.made + 1)
    /\ r.flush \in BOOLEAN
    /\ r.flush => r.m = m /\ r.p.cur \in 1..m.made /\ r.done = m.usage[r.p.cur]
    /\ ~r.flush => r.done = d
    /\ Within(p, r.p, Fresh(m, r.m))

LEMMA WithinThen ==
    ASSUME NEW p, NEW q, NEW r, NEW F, NEW H, Within(p, q, F), Within(q, r, H), F \subseteq H
    PROVE  Within(p, r, H)
  BY DEF Within

LEMMA CreateStoragesGrown ==
    ASSUME NEW m \in MemoryType, NEW k \in Nat, NEW n \in Nat, NEW b, m.made + k <= MaxStorages
    PROVE  Grown(m, CreateStorages(m, k, n, b)) /\ CreateStorages(m, k, n, b).made = m.made + k
<1> DEFINE new == CreateStorages(m, k, n, b)
<1>1. /\ new \in MemoryType /\ new.made = m.made + k
      /\ \A s \in 1..m.made : new.size[s] = m.size[s] /\ new.usage[s] = m.usage[s]
      /\ \A s \in Storages : new.usage[s] \in {0, m.usage[s]}
  BY CreateStoragesType
<1>2. m.made \in Nat /\ MaxStorages \in Nat /\ m.made <= MaxStorages
  BY StoragesBounded DEF MemoryType
<1>3. \A s \in 1..m.made : s \in Storages /\ s \notin (m.made + 1)..(m.made + k)
  BY <1>2 DEF Storages
<1>4. m.needSync \in [Storages -> BOOLEAN]
  BY DEF MemoryType
<1>5. \A s \in 1..m.made : new.shared[s] = m.shared[s] /\ new.needSync[s] = m.needSync[s]
  BY <1>3, <1>4 DEF CreateStorages
<1> HIDE DEF new
<1>6. m.made <= new.made
  BY <1>1, <1>2
<1> QED
  BY <1>1, <1>5, <1>6 DEF Grown, Extends, new

LEMMA FinalizeWithin ==
    ASSUME NEW p, NEW m, Sound(p, m), NEW F
    PROVE  LET q == FinalizePendingBuffer(p) IN
           /\ Within(p, q, F) /\ q.policy = p.policy
           /\ Len(q.free) + Len(q.inflight) <= Len(p.free) + Len(p.inflight) + 1
<1> DEFINE q == FinalizePendingBuffer(p)
<1>1. /\ p \in PoolType /\ p.inflight \in Seq(1..m.made) /\ Len(p.inflight) \in Nat
      /\ Len(p.free) \in Nat /\ p.cur \in (1..m.made) \cup {NoBuffer}
  BY SoundParts
<1>2. /\ q.free = p.free /\ q.cur = NoBuffer
      /\ q.inflight = IF p.cur = NoBuffer THEN p.inflight ELSE Append(p.inflight, p.cur)
      /\ q.align = p.align /\ q.max = p.max /\ q.always = p.always /\ q.initial = p.initial
      /\ q.policy = p.policy
  BY <1>1 DEF FinalizePendingBuffer, PoolType
<1> HIDE DEF q
<1>3. CASE p.cur = NoBuffer
  <2>1. q.inflight = p.inflight /\ q.free = p.free /\ q.cur = p.cur
    BY <1>2, <1>3
  <2>2. Members(q) = Members(p)
    BY <2>1 DEF Members
  <2>3. Within(p, q, F)
    BY <1>2, <2>2 DEF Within
  <2>4. Len(q.free) + Len(q.inflight) <= Len(p.free) + Len(p.inflight) + 1
    <3> DEFINE a == Len(p.free)
               b == Len(p.inflight)
    <3>1. a \in Nat /\ b \in Nat /\ Len(q.free) = a /\ Len(q.inflight) = b
      BY <1>1, <2>1
    <3> HIDE DEF a, b
    <3>2. a + b <= a + b + 1
      BY <3>1
    <3> QED
      BY <3>1, <3>2 DEF a, b
  <2> QED
    BY <1>2, <2>3, <2>4 DEF q
<1>4. CASE p.cur # NoBuffer
  <2>1. /\ q.inflight = Append(p.inflight, p.cur) /\ p.cur \in 1..m.made
    BY <1>1, <1>2, <1>4
  <2>2. /\ Len(q.inflight) = Len(p.inflight) + 1 /\ q.inflight[Len(p.inflight) + 1] = p.cur
        /\ \A i \in 1..Len(p.inflight) : q.inflight[i] = p.inflight[i]
    BY <1>1, <2>1, AppendProperties
  <2>3. \A i \in 1..(Len(p.inflight) + 1) : i \in 1..Len(p.inflight) \/ i = Len(p.inflight) + 1
    BY <1>1
  <2>4. \A s \in Members(q) : s \in Members(p)
    <3> SUFFICES ASSUME NEW s \in Members(q) PROVE s \in Members(p)
      OBVIOUS
    <3>1. s \in Storages /\ s # NoBuffer
      BY StoragesAre DEF Members
    <3>2. (\E i \in 1..Len(p.free) : p.free[i] = s) \/ (\E i \in 1..Len(q.inflight) : q.inflight[i] = s)
      BY <1>2, <3>1 DEF Members
    <3>3. CASE \E i \in 1..Len(p.free) : p.free[i] = s
      BY <3>1, <3>3 DEF Members
    <3>4. CASE \E i \in 1..Len(q.inflight) : q.inflight[i] = s
      <4>1. PICK i \in 1..Len(q.inflight) : q.inflight[i] = s
        BY <3>4
      <4>2. s = p.cur \/ \E j \in 1..Len(p.inflight) : p.inflight[j] = s
        BY <2>2, <2>3, <4>1
      <4> QED
        BY <3>1, <4>2 DEF Members
    <3> QED
      BY <3>2, <3>3, <3>4
  <2>5. Within(p, q, F)
    BY <1>2, <2>4 DEF Within
  <2>6. Len(q.free) + Len(q.inflight) <= Len(p.free) + Len(p.inflight) + 1
    <3> DEFINE a == Len(p.free)
               b == Len(p.inflight)
    <3>1. a \in Nat /\ b \in Nat /\ Len(q.free) = a /\ Len(q.inflight) = b + 1
      BY <1>1, <1>2, <2>2
    <3> HIDE DEF a, b
    <3>2. a + (b + 1) <= a + b + 1
      BY <3>1
    <3> QED
      BY <3>1, <3>2 DEF a, b
  <2> QED
    BY <1>2, <2>5, <2>6 DEF q
<1> QED
  BY <1>3, <1>4

LEMMA ReleaseWithin ==
    ASSUME NEW p, NEW m, Sound(p, m), NEW F
    PROVE  LET q == ReleaseInFlightBuffers(p, m) IN
           /\ Within(p, q, F) /\ q.policy = p.policy /\ q.size = p.size /\ q.cur = p.cur /\ q.next = p.next
           /\ Len(q.free) <= Len(p.free) + Len(p.inflight) /\ q.inflight = <<>>
<1> DEFINE q == ReleaseInFlightBuffers(p, m)
           c == Cardinality(Kept(p, m))
           t == Selected(p.inflight, Kept(p, m))
<1>1. /\ p \in PoolType /\ p.free \in Seq(Storages \cup {Nil}) /\ Len(p.inflight) \in Nat
      /\ Len(p.free) \in Nat
  BY SoundParts DEF PoolType
<1>2. /\ q = [p EXCEPT !.inflight = <<>>, !.free = p.free \o t,
                       !.count = (p.count - (Len(p.inflight) - c)) % Word]
      /\ t \in Seq(Storages \cup {Nil}) /\ Len(t) = c /\ c \in 0..Len(p.inflight)
      /\ \A k \in 1..c : /\ Place(Kept(p, m), k) \in 1..Len(p.inflight)
                         /\ t[k] = p.inflight[Place(Kept(p, m), k)]
  BY <1>1, ReleaseKeeps
<1> HIDE DEF q, c, t
<1>3. /\ q.free = p.free \o t /\ q.cur = p.cur /\ q.inflight = <<>> /\ q.next = p.next
      /\ q.align = p.align /\ q.max = p.max /\ q.always = p.always /\ q.initial = p.initial
      /\ q.policy = p.policy /\ q.size = p.size
  BY <1>1, <1>2 DEF PoolType
<1>4. /\ Len(p.free \o t) = Len(p.free) + c
      /\ \A i \in 1..(Len(p.free) + c) : (p.free \o t)[i] = IF i <= Len(p.free) THEN p.free[i] ELSE t[i - Len(p.free)]
  BY <1>1, <1>2, ConcatProperties
<1>5. \A s \in Members(q) : s \in Members(p)
  <2> SUFFICES ASSUME NEW s \in Members(q) PROVE s \in Members(p)
    OBVIOUS
  <2>0. \A i \in 1..Len(q.inflight) : FALSE
    BY <1>3
  <2>1. s \in Storages /\ (s = p.cur \/ \E i \in 1..(Len(p.free) + c) : (p.free \o t)[i] = s)
    BY <1>3, <1>4, <2>0 DEF Members
  <2>2. CASE s = p.cur
    BY <2>1, <2>2 DEF Members
  <2>3. CASE \E i \in 1..(Len(p.free) + c) : (p.free \o t)[i] = s
    <3>1. PICK i \in 1..(Len(p.free) + c) : (p.free \o t)[i] = s
      BY <2>3
    <3>2. CASE i <= Len(p.free)
      <4>1. i \in 1..Len(p.free) /\ p.free[i] = s
        BY <1>1, <1>2, <1>4, <3>1, <3>2
      <4> QED
        BY <2>1, <4>1 DEF Members
    <3>3. CASE ~(i <= Len(p.free))
      <4>1. i - Len(p.free) \in 1..c /\ t[i - Len(p.free)] = s
        BY <1>1, <1>2, <1>4, <3>1, <3>3
      <4>2. \E j \in 1..Len(p.inflight) : p.inflight[j] = s
        BY <1>2, <4>1
      <4> QED
        BY <2>1, <4>2 DEF Members
    <3> QED
      BY <3>2, <3>3
  <2> QED
    BY <2>1, <2>2, <2>3
<1>6. Len(q.free) <= Len(p.free) + Len(p.inflight)
  <2> DEFINE a == Len(p.free)
             b == Len(p.inflight)
  <2>1. a \in Nat /\ b \in Nat /\ Len(q.free) = a + c /\ c \in 0..b
    BY <1>1, <1>2, <1>3, <1>4
  <2> HIDE DEF a, b
  <2>2. a + c <= a + b
    BY <2>1
  <2> QED
    BY <2>1, <2>2 DEF a, b
<1> QED
  BY <1>3, <1>5, <1>6 DEF Within, q

LEMMA TakeWithin ==
    ASSUME NEW p, NEW m, Sound(p, m), p.free # <<>>, NEW F
    PROVE  /\ Within(p, TakeFree(p), F) /\ TakeFree(p).cur = Head(p.free)
           /\ TakeFree(p).cur \in 1..m.made /\ TakeFree(p).size = p.size
<1> DEFINE q == TakeFree(p)
<1>1. /\ p \in PoolType /\ p.free \in Seq(1..m.made) /\ Len(p.free) \in Nat
  BY SoundParts
<1>2. /\ q.cur = Head(p.free) /\ q.free = Tail(p.free) /\ q.inflight = p.inflight /\ q.size = p.size
      /\ q.align = p.align /\ q.max = p.max /\ q.always = p.always /\ q.initial = p.initial
  BY <1>1 DEF TakeFree, PoolType
<1> HIDE DEF q
<1>3. /\ Head(p.free) = p.free[1] /\ 1 \in 1..Len(p.free) /\ Head(p.free) \in 1..m.made
      /\ Len(Tail(p.free)) = Len(p.free) - 1
      /\ \A i \in 1..(Len(p.free) - 1) : Tail(p.free)[i] = p.free[i + 1] /\ i + 1 \in 1..Len(p.free)
  <2>1. Len(p.free) # 0
    BY <1>1, EmptySeq
  <2>2. Head(p.free) = p.free[1] /\ 1 \in 1..Len(p.free)
    BY <1>1, <2>1
  <2>3. /\ Head(p.free) \in 1..m.made /\ Len(Tail(p.free)) = Len(p.free) - 1
        /\ \A i \in 1..Len(Tail(p.free)) : Tail(p.free)[i] = p.free[i + 1]
    BY <1>1, HeadTailProperties
  <2>4. \A i \in 1..(Len(p.free) - 1) : i + 1 \in 1..Len(p.free)
    BY <1>1
  <2> QED
    BY <2>2, <2>3, <2>4
<1>4. \A s \in Members(q) : s \in Members(p)
  BY <1>2, <1>3 DEF Members
<1> QED
  BY <1>2, <1>3, <1>4 DEF Within, q

\* The size of the buffers of a pool that is asked for n bytes.
GrownSize(p, n) == IF n > p.size THEN IF p.initial > n THEN p.initial ELSE n ELSE p.size

LEMMA GrowWithin ==
    ASSUME NEW p, NEW m, Sound(p, m), NEW n \in Nat, NEW F
    PROVE  Within(p, Grow(p, n), F) /\ Grow(p, n).size = GrownSize(p, n)
<1> DEFINE q == Grow(p, n)
<1>1. p \in PoolType /\ p.free \in Seq(1..m.made)
  BY SoundParts
<1>2. CASE ~(n > p.size)
  BY <1>2 DEF Grow, GrownSize, Within
<1>3. CASE n > p.size
  <2>1. /\ q.cur = p.cur /\ q.free = <<>> /\ q.inflight = p.inflight /\ q.size = GrownSize(p, n)
        /\ q.align = p.align /\ q.max = p.max /\ q.always = p.always /\ q.initial = p.initial
    BY <1>1, <1>3 DEF Grow, GrownSize, DestroyFreeList, PoolType
  <2> HIDE DEF q
  <2>2. \A i \in 1..Len(q.free) : FALSE
    BY <2>1
  <2>3. \A s \in Members(q) : s \in Members(p)
    BY <2>1, <2>2 DEF Members
  <2> QED
    BY <2>1, <2>3 DEF Within, q
<1> QED
  BY <1>2, <1>3

LEMMA MakeSupplied ==
    ASSUME NEW p, NEW m, Sound(p, m), NEW d, m.made + 1 <= MaxStorages
    PROVE  LET r == MakeBuffer(p, m, d, TRUE) IN Supplied(p, m, d, r) /\ r.p.size = p.size
<1> DEFINE q == [p EXCEPT !.cur = m.made + 1, !.count = @ + 1]
           m2 == CreateStorages(m, 1, p.size, ShouldAllocateInSharedMem(p))
           r == MakeBuffer(p, m, d, TRUE)
<1>1. r = [p |-> q, m |-> m2, flush |-> FALSE, ok |-> TRUE, done |-> d]
  BY DEF MakeBuffer
<1>2. p \in PoolType /\ m \in MemoryType /\ p.size \in Nat /\ m.made \in Nat
  BY SoundParts
<1>3. Grown(m, m2) /\ m2.made = m.made + 1
  BY <1>2, CreateStoragesGrown
<1>4. /\ q.cur = m.made + 1 /\ q.free = p.free /\ q.inflight = p.inflight /\ q.size = p.size
      /\ q.align = p.align /\ q.max = p.max /\ q.always = p.always /\ q.initial = p.initial
  BY <1>2 DEF PoolType
<1> HIDE DEF q, m2, r
<1>5. m.made + 1 \in Fresh(m, m2)
  BY <1>2, <1>3 DEF Fresh
<1>6. Within(p, q, Fresh(m, m2))
  BY <1>4, <1>5 DEF Within, Members
<1>7. r.p = q /\ r.m = m2 /\ r.flush = FALSE /\ r.done = d
  BY <1>1
<1>8. m2.made \in m.made..(m.made + 1)
  BY <1>2, <1>3
<1> QED
  BY <1>3, <1>4, <1>6, <1>7, <1>8 DEF Supplied, r

TakenFree(p, m, d, r) ==
    r = Taken(p, m, FALSE, d) \/ r = Taken(p, m, TRUE, m.usage[Head(p.free)])

LEMMA TakenSupplied ==
    ASSUME NEW p, NEW m, Sound(p, m), p.free # <<>>, NEW d, NEW r, TakenFree(p, m, d, r)
    PROVE  Supplied(p, m, d, r) /\ r.p.size = p.size
<1> DEFINE q == TakeFree(p)
<1>1. /\ r.p = q /\ r.m = m /\ r.flush \in BOOLEAN
      /\ r.flush => r.done = m.usage[Head(p.free)]
      /\ ~r.flush => r.done = d
  <2>1. CASE r = Taken(p, m, FALSE, d)
    <3>1. r = [p |-> q, m |-> m, flush |-> FALSE, ok |-> TRUE, done |-> d]
      BY <2>1 DEF Taken
    <3> HIDE DEF q
    <3> QED
      BY <3>1
  <2>2. CASE r = Taken(p, m, TRUE, m.usage[Head(p.free)])
    <3>1. r = [p |-> q, m |-> m, flush |-> TRUE, ok |-> TRUE, done |-> m.usage[Head(p.free)]]
      BY <2>2 DEF Taken
    <3> HIDE DEF q
    <3> QED
      BY <3>1
  <2> QED
    BY <2>1, <2>2 DEF TakenFree
<1>2. Within(p, q, Fresh(m, m)) /\ q.cur = Head(p.free) /\ q.cur \in 1..m.made /\ q.size = p.size
  BY TakeWithin
<1>3. m \in MemoryType /\ m.made \in Nat
  BY SoundParts
<1>4. Grown(m, m) /\ m.made \in m.made..(m.made + 1)
  BY <1>3, GrownSelf
<1> HIDE DEF q
<1> QED
  BY <1>1, <1>2, <1>4 DEF Supplied

\* What happened to the pool before.
LEMMA SuppliedFrom ==
    ASSUME NEW p, NEW q, NEW m, NEW d, NEW r, Within(p, q, {}), Supplied(q, m, d, r)
    PROVE  Supplied(p, m, d, r)
  BY WithinThen DEF Supplied

LEMMA NextBufferSupplied ==
    ASSUME NEW p, NEW m, Sound(p, m), p.cur = NoBuffer, NEW d \in Nat, m.made + 1 <= MaxStorages
    PROVE  LET r == NextBuffer(p, m, d, TRUE) IN Supplied(p, m, d, r) /\ r.p.size = p.size
<1> DEFINE q == IF AtLimit(p) THEN ReleaseInFlightBuffers(p, m) ELSE p
<1>1. CASE FreeBufferAvailable(p, m, d)
  <2> DEFINE r == NextBuffer(p, m, d, TRUE)
  <2>1. p.free # <<>> /\ TakenFree(p, m, d, r)
    BY <1>1 DEF NextBuffer, FreeBufferAvailable, TakenFree
  <2> HIDE DEF r
  <2>2. Supplied(p, m, d, r) /\ r.p.size = p.size
    BY <2>1, TakenSupplied
  <2> QED
    BY <2>2 DEF r
<1>2. CASE ~FreeBufferAvailable(p, m, d)
  <2>1. NextBuffer(p, m, d, TRUE) = FreeOrNew(q, m, d, TRUE)
    BY <1>2 DEF NextBuffer, AllocateNewBuffer
  <2>2. Sound(q, m) /\ Within(p, q, {}) /\ q.size = p.size /\ q.cur = NoBuffer /\ (AtLimit(q) => q.inflight = <<>>)
    <3>1. CASE AtLimit(p)
      BY <3>1, ReleaseSound, ReleaseWithin
    <3>2. CASE ~AtLimit(p)
      BY <3>2 DEF Within
    <3> QED
      BY <3>1, <3>2
  <2> HIDE DEF q
  <2>3. CASE AtLimit(q)
    <3> DEFINE r == FreeOrNew(q, m, d, TRUE)
    <3>1. q.free # <<>>
      BY <2>2, <2>3, FreeAtLimit
    <3>2. r = WaitForFree(q, m, d)
      BY <2>3 DEF FreeOrNew
    <3>3. TakenFree(q, m, d, r)
      BY <3>2 DEF WaitForFree, TakenFree
    <3> HIDE DEF r
    <3>5. Supplied(q, m, d, r) /\ r.p.size = q.size
      BY <2>2, <3>1, <3>3, TakenSupplied
    <3> QED
      BY <2>1, <2>2, <3>5, SuppliedFrom DEF r
  <2>4. CASE ~AtLimit(q)
    <3>1. FreeOrNew(q, m, d, TRUE) = MakeBuffer(q, m, d, TRUE)
      BY <2>4 DEF FreeOrNew
    <3>2. Supplied(q, m, d, MakeBuffer(q, m, d, TRUE)) /\ MakeBuffer(q, m, d, TRUE).p.size = q.size
      BY <2>2, MakeSupplied
    <3> QED
      BY <2>1, <2>2, <3>1, <3>2, SuppliedFrom
  <2> QED
    BY <2>3, <2>4
<1> QED
  BY <1>1, <1>2

LEMMA RoundUpOne ==
    ASSUME NEW n \in Nat
    PROVE  RoundUp(n, 1) = n
  BY DEF RoundUp

\* allocate() on a pool that does not append.
LEMMA AllocateSupplied ==
    ASSUME NEW p, NEW m, Sound(p, m), p.align = 1, NEW n \in Nat, NEW d \in Nat,
           ~Appends(p, m, n), m.made + 1 <= MaxStorages
    PROVE  LET r == Allocate(p, m, d, n, TRUE) IN
           /\ Supplied(p, m, d, r) /\ r.p.size = GrownSize(p, n)
           /\ Sound(r.p, r.m) /\ r.p.cur \in 1..r.m.made
           /\ r.p.cur \in 1..m.made => m.usage[r.p.cur] <= r.done
<1> DEFINE f == FinalizePendingBuffer(p)
           q == Grow(f, n)
           b == NextBuffer(q, m, d, TRUE)
           r == Allocate(p, m, d, n, TRUE)
<1>1. r = AdvanceOffset(b, n) /\ RoundUp(n, p.align) = n
  BY RoundUpOne DEF Allocate, AllocateRounded
<1>2. Sound(f, m) /\ f.cur = NoBuffer /\ Within(p, f, {}) /\ f.size = p.size
  BY FinalizeSound, FinalizeWithin
<1> HIDE DEF f
<1>3. GrownSize(f, n) = GrownSize(p, n)
  BY <1>2 DEF GrownSize, Within
<1>4. Sound(q, m) /\ q.cur = NoBuffer /\ Within(f, q, {}) /\ q.size = GrownSize(f, n)
  BY <1>2, GrowSound, GrowWithin
<1> HIDE DEF q
<1>5. Supplied(q, m, d, b) /\ b.p.size = q.size
  BY <1>4, NextBufferSupplied
<1>6. b = [p |-> b.p, m |-> b.m, flush |-> b.flush, ok |-> TRUE, done |-> b.done]
  BY NextBufferShape
<1>7. m.made \in Nat
  BY SoundParts
<1> HIDE DEF b, r
<1>8. b.m.made <= MaxStorages
  <2>1. b.m \in MemoryType
    BY <1>5 DEF Supplied, Grown
  <2> QED
    BY <2>1, StoragesBounded DEF MemoryType
<1>9. /\ r.m = b.m /\ r.flush = b.flush /\ r.done = b.done
      /\ r.p = [b.p EXCEPT !.next = @ + n]
  BY <1>1, <1>6 DEF AdvanceOffset
<1>10. r.m.made <= MaxStorages
  BY <1>8, <1>9
<1>11. /\ Sound(r.p, r.m) /\ r.p.cur # NoBuffer
       /\ r.p.cur \in 1..m.made => m.usage[r.p.cur] <= r.done
  <2>1. Allocate(p, m, d, n, TRUE).m.made <= MaxStorages
    BY <1>10 DEF r
  <2>2. /\ Allocated(p, m, Allocate(p, m, d, n, TRUE), RoundUp(n, p.align))
        /\ ~Appends(p, m, RoundUp(n, p.align)) =>
             (Allocate(p, m, d, n, TRUE).p.cur \in 1..m.made =>
                m.usage[Allocate(p, m, d, n, TRUE).p.cur] <= Allocate(p, m, d, n, TRUE).done)
    BY <2>1, AllocateSound
  <2> QED
    BY <1>1, <2>2 DEF Allocated, r
<1>12. r.p.cur \in 1..r.m.made
  BY <1>11, SoundParts
<1>13. b.p \in PoolType
  <2>1. Obtained(q, m, NextBuffer(q, m, d, TRUE))
    BY <1>4, <1>8, NextBufferObtained DEF b
  <2> QED
    BY <2>1, SoundParts DEF Obtained, b
<1>14. /\ r.p.cur = b.p.cur /\ r.p.free = b.p.free /\ r.p.inflight = b.p.inflight
       /\ r.p.align = b.p.align /\ r.p.max = b.p.max /\ r.p.always = b.p.always
       /\ r.p.initial = b.p.initial /\ r.p.size = b.p.size
  BY <1>9, <1>13 DEF PoolType
<1>15. Members(r.p) = Members(b.p)
  BY <1>14 DEF Members
<1>16. Supplied(q, m, d, r)
  BY <1>5, <1>9, <1>14, <1>15 DEF Supplied, Within
<1>17. Supplied(p, m, d, r)
  BY <1>2, <1>4, <1>16, SuppliedFrom
<1> QED
  BY <1>3, <1>4, <1>5, <1>11, <1>12, <1>14, <1>17 DEF r

\* The free list that is cut to a limit.
LEMMA CutWithin ==
    ASSUME NEW p, NEW m, Sound(p, m), OnlyFree(p), NEW k \in Nat
    PROVE  LET q == CutFreeList(p, k) IN
           /\ \A s \in Members(q) : s \in Members(p)
           /\ q.always = p.always /\ Len(q.free) <= Len(p.free) /\ Len(q.free) \in Nat
<1> DEFINE q == CutFreeList(p, k)
           n == Len(p.free)
<1>1. p \in PoolType /\ p.free \in Seq(1..m.made) /\ n \in Nat
  BY SoundParts
<1>2. CASE ~(k > 0 /\ n > k)
  BY <1>1, <1>2 DEF CutFreeList
<1>3. CASE k > 0 /\ n > k
  <2> DEFINE s == SubSeq(p.free, 1, k)
  <2>1. q = [p EXCEPT !.free = s, !.count = k]
    BY <1>3 DEF CutFreeList
  <2>2. 1 \in 1..n /\ k \in 1..n
    BY <1>1, <1>3
  <2>3. Len(s) = k
    BY <1>1, <1>3, <2>2, SubSeqProperties
  <2>4. \A i \in 1..k : i \in 1..n /\ s[i] = p.free[i]
    BY <1>1, <1>3
  <2> HIDE DEF s, q
  <2>5. q.free = s /\ q.cur = p.cur /\ q.inflight = p.inflight /\ q.always = p.always
    BY <1>1, <2>1 DEF PoolType
  <2>6. \A t \in Members(q) : t \in Members(p)
    BY <2>3, <2>4, <2>5 DEF Members
  <2>7. Len(q.free) <= Len(p.free) /\ Len(q.free) \in Nat
    BY <1>1, <1>3, <2>3, <2>5
  <2> QED
    BY <2>5, <2>6, <2>7 DEF q
<1> QED
  BY <1>2, <1>3

\* New storages for the free buffers that are used.
LEMMA ReplaceGrown ==
    ASSUME NEW p, NEW m, Sound(p, m), OnlyFree(p), NEW d, m.made + Len(p.free) <= MaxStorages
    PROVE  LET r == ReplaceUsed(p, m, d, TRUE) IN
           /\ Grown(m, r.m) /\ r.m.made <= m.made + Len(p.free) /\ r.m.made \in Nat
           /\ \A s \in Members(r.p) : s \in Members(p) \/ s \in Fresh(m, r.m)
           /\ r.p.always = p.always
<1> DEFINE r == ReplaceUsed(p, m, d, TRUE)
           n == Len(p.free)
           used == {i \in DOMAIN p.free : InUse(m, p.free[i], d)}
           c == Cardinality(used)
           s == [i \in DOMAIN p.free |-> IF i \in used THEN m.made + Rank(used, i) ELSE p.free[i]]
           shared == ShouldAllocateInSharedMem(p)
           q == [p EXCEPT !.free = s]
           m2 == CreateStorages(m, c, p.size, shared)
<1>1. /\ p \in PoolType /\ m \in MemoryType /\ m.made \in Nat /\ p.free \in Seq(1..m.made)
      /\ n \in Nat /\ p.size \in Nat /\ DOMAIN p.free = 1..n
  BY SoundParts, LenProperties
<1>2. r = [p |-> q, m |-> m2]
  BY DEF ReplaceUsed
<1>3. r.p = q /\ r.m = m2
  <2> HIDE DEF q, m2, r
  <2> QED
    BY <1>2
<1>4. c \in 0..n /\ \A i \in used : i \in 1..n /\ Rank(used, i) \in 1..c
  <2>1. used \subseteq 1..n
    BY <1>1
  <2> HIDE DEF used
  <2>2. /\ Cardinality(used) \in 0..n
        /\ \A i \in 0..n : Rank(used, i) \in 0..Cardinality(used)
        /\ \A i \in 1..n : Rank(used, i) = Rank(used, i - 1) + (IF i \in used THEN 1 ELSE 0)
    BY <1>1, <2>1, RankSteps
  <2>3. ASSUME NEW i \in used PROVE i \in 1..n /\ Rank(used, i) \in 1..c
    <3>1. i \in 1..n /\ i - 1 \in 0..n /\ i \in 0..n
      BY <1>1, <2>1
    <3>2. Rank(used, i) = Rank(used, i - 1) + 1 /\ Rank(used, i - 1) \in Nat
      BY <2>2, <3>1
    <3>3. Rank(used, i) \in 0..c
      BY <2>2, <3>1
    <3> QED
      BY <3>1, <3>2, <3>3
  <2> QED
    BY <2>2, <2>3
<1>5. /\ q.cur = p.cur /\ q.inflight = p.inflight /\ q.free = s /\ q.always = p.always
      /\ DOMAIN s = 1..n /\ \A i \in 1..n : s[i] = IF i \in used THEN m.made + Rank(used, i) ELSE p.free[i]
  BY <1>1 DEF PoolType
<1>6. c \in Nat /\ m.made + c <= MaxStorages /\ m.made + c <= m.made + n /\ m.made + c \in Nat
  <2>1. c \in 0..n /\ n \in Nat /\ m.made \in Nat /\ m.made + n <= MaxStorages
    BY <1>1, <1>4
  <2>2. MaxStorages \in Nat
    BY StoragesBounded
  <2> HIDE DEF c, n
  <2> QED
    BY <2>1, <2>2
<1> HIDE DEF used, s, q, r, shared, c
<1>7. Grown(m, m2) /\ m2.made = m.made + c
  BY <1>1, <1>6, CreateStoragesGrown
<1> HIDE DEF m2
<1>8. Len(s) = n
  BY <1>1, <1>5
<1>9. \A t \in Members(q) : t \in Members(p) \/ t \in Fresh(m, m2)
  <2> SUFFICES ASSUME NEW t \in Members(q), t \notin Members(p) PROVE t \in Fresh(m, m2)
    OBVIOUS
  <2>1. t \in Storages /\ t # p.cur /\ ~\E i \in 1..n : p.free[i] = t
    BY <1>5 DEF Members
  <2>2. \E i \in 1..n : s[i] = t
    BY <1>5, <1>8 DEF Members
  <2>3. PICK i \in 1..n : s[i] = t
    BY <2>2
  <2>4. i \in used /\ t = m.made + Rank(used, i)
    BY <1>5, <2>1, <2>3
  <2>5. Rank(used, i) \in 1..c
    BY <1>4, <2>4
  <2>6. t = m.made + Rank(used, i) /\ m.made \in Nat /\ c \in Nat /\ m2.made = m.made + c
    BY <1>1, <1>6, <1>7, <2>4
  <2> DEFINE k == Rank(used, i)
             a == m.made
             e == m2.made
  <2>7. k \in 1..c /\ t = a + k /\ a \in Nat /\ c \in Nat /\ e = a + c
    BY <2>5, <2>6
  <2> HIDE DEF k, a, e
  <2>8. t \in (a + 1)..e
    BY <2>7
  <2> QED
    BY <2>8 DEF Fresh, a, e
<1>10. m2.made <= m.made + n /\ m2.made \in Nat
  BY <1>6, <1>7
<1> QED
  BY <1>3, <1>5, <1>7, <1>9, <1>10 DEF r

KeptGrown(p, m, r) ==
    /\ Grown(m, r.m) /\ r.m.made <= m.made + Len(p.free) /\ r.m.made \in Nat
    /\ \A s \in Members(r.p) : s \in Members(p) \/ s \in Fresh(m, r.m)
    /\ r.p.always = p.always
    /\ \E x, y : r = [p |-> x, m |-> y]

LEMMA KeepGrown ==
    ASSUME NEW p, NEW m, Sound(p, m), OnlyFree(p), NEW d, NEW k \in Nat,
           m.made + Len(p.free) <= MaxStorages
    PROVE  KeptGrown(p, m, KeepFreeBuffers(p, m, d, TRUE, k))
<1> DEFINE r == KeepFreeBuffers(p, m, d, TRUE, k)
<1>1. /\ p \in PoolType /\ m \in MemoryType /\ m.made \in Nat /\ Len(p.free) \in Nat
      /\ p.free \in Seq(1..m.made)
  BY SoundParts
<1>2. CASE p.free # <<>> /\ p.initial <= SizeOf(m, Head(p.free))
  <2> DEFINE cut == CutFreeList(p, k)
             q == [cut EXCEPT !.size = SizeOf(m, Head(p.free))]
  <2>1. r = ReplaceUsed(q, m, d, TRUE)
    BY <1>2 DEF KeepFreeBuffers
  <2>2. /\ Sound(cut, m) /\ OnlyFree(cut) /\ cut.size = p.size
        /\ \A s \in Members(cut) : s \in Members(p)
        /\ cut.always = p.always /\ Len(cut.free) <= Len(p.free) /\ Len(cut.free) \in Nat
    BY CutSound, CutWithin
  <2>3. SizeOf(m, Head(p.free)) = p.size
    <3>1. Head(p.free) = p.free[1] /\ 1 \in 1..Len(p.free)
      BY <1>1, <1>2, EmptySeq
    <3>2. p.free[1] \in 1..m.made
      BY <3>1, SoundParts
    <3>3. Head(p.free) # Nil
      BY <1>1, <3>1, <3>2 DEF Nil
    <3>4. m.size[p.free[1]] = p.size
      BY <3>1 DEF Sound, Sized
    <3> QED
      BY <3>1, <3>3, <3>4 DEF SizeOf
  <2> HIDE DEF cut, r
  <2>4. q = cut
    <3>1. cut \in PoolType
      BY <2>2 DEF Sound
    <3>2. q = [cut EXCEPT !.size = cut.size]
      BY <2>2, <2>3
    <3> QED
      BY <3>1, <3>2 DEF PoolType
  <2>5. r = ReplaceUsed(cut, m, d, TRUE) /\ m.made + Len(cut.free) <= MaxStorages
    <3> DEFINE a == Len(cut.free)
               b == Len(p.free)
    <3>1. a \in Nat /\ b \in Nat /\ a <= b /\ m.made \in Nat /\ m.made + b <= MaxStorages
      BY <1>1, <2>2
    <3> HIDE DEF a, b
    <3>2. m.made + a <= MaxStorages
      BY <3>1, StoragesBounded
    <3> QED
      BY <2>1, <2>4, <3>2 DEF a
  <2>6. /\ Grown(m, r.m) /\ r.m.made <= m.made + Len(cut.free) /\ r.m.made \in Nat
        /\ \A s \in Members(r.p) : s \in Members(cut) \/ s \in Fresh(m, r.m)
        /\ r.p.always = cut.always
    BY <2>2, <2>5, ReplaceGrown
  <2>7. \E x, y : r = [p |-> x, m |-> y]
    BY <2>5 DEF ReplaceUsed
  <2>8. r.m.made <= m.made + Len(p.free)
    BY <1>1, <2>2, <2>6
  <2> QED
    BY <2>2, <2>6, <2>7, <2>8 DEF r, KeptGrown
<1>3. CASE ~(p.free # <<>> /\ p.initial <= SizeOf(m, Head(p.free)))
  <2> DEFINE q == [p EXCEPT !.free = <<>>, !.count = 0, !.size = 0]
  <2>1. r = [p |-> q, m |-> m]
    BY <1>3 DEF KeepFreeBuffers
  <2>2. q.cur = p.cur /\ q.free = <<>> /\ q.inflight = p.inflight /\ q.always = p.always
    BY <1>1 DEF PoolType
  <2> HIDE DEF q, r
  <2>3. r.p = q /\ r.m = m
    BY <2>1
  <2>4. \A i \in 1..Len(q.free) : FALSE
    BY <2>2
  <2>5. \A s \in Members(q) : s \in Members(p)
    BY <2>2, <2>4 DEF Members
  <2>6. Grown(m, m) /\ m.made <= m.made + Len(p.free)
    BY <1>1, GrownSelf
  <2> QED
    BY <1>1, <2>1, <2>2, <2>3, <2>5, <2>6 DEF r, KeptGrown
<1> QED
  BY <1>2, <1>3

\* What reset() to n cells and a limit does to a pool.
ResetTo(p, m, r, n, limit) ==
    /\ Sound(r.p, r.m) /\ Grown(m, r.m)
    /\ r.m.made <= m.made + (Len(p.free) + Len(p.inflight) + 1) /\ r.m.made \in Nat
    /\ r.p.cur = NoBuffer /\ r.p.align = 1 /\ r.p.max = limit /\ r.p.initial = n
    /\ r.p.always = p.always
    /\ \A s \in Members(r.p) : s \in Members(p) \/ s \in Fresh(m, r.m)

LEMMA ResetSupplied ==
    ASSUME NEW p, NEW m, Sound(p, m), NEW d, NEW n \in Nat, NEW limit \in Nat,
           m.made + (Len(p.free) + Len(p.inflight) + 1) <= MaxStorages
    PROVE  ResetTo(p, m, Reset(p, m, d, TRUE, n, 1, limit), n, limit)
<1> DEFINE f == FinalizePendingBuffer(p)
           l == ReleaseInFlightBuffers(f, m)
           k == KeepFreeBuffers(l, m, d, TRUE, limit)
           r == Reset(p, m, d, TRUE, n, 1, limit)
           c == [k.p EXCEPT !.initial = n, !.max = limit]
           a == Len(p.free) + Len(p.inflight) + 1
<1>1. r = [k EXCEPT !.p = UpdateAlignment(c, 1)]
  BY DEF Reset
<1>2. /\ Sound(f, m) /\ f.cur = NoBuffer /\ Within(p, f, {})
      /\ Len(f.free) + Len(f.inflight) <= a
  BY FinalizeSound, FinalizeWithin
<1> HIDE DEF f
<1>3. /\ Sound(l, m) /\ OnlyFree(l) /\ Within(f, l, {})
      /\ Len(l.free) <= Len(f.free) + Len(f.inflight)
  BY <1>2, ReleaseSound, ReleaseWithin DEF OnlyFree
<1>4. \A x, y, z : [[p |-> x, m |-> y] EXCEPT !.p = z] = [p |-> z, m |-> y]
  OBVIOUS
<1> HIDE DEF l
<1>5. Len(l.free) <= a /\ a \in Nat /\ m.made \in Nat /\ Len(l.free) \in Nat
  <2>1. /\ Len(p.free) \in Nat /\ Len(p.inflight) \in Nat /\ m.made \in Nat
        /\ Len(f.free) \in Nat /\ Len(f.inflight) \in Nat /\ Len(l.free) \in Nat
    BY <1>2, <1>3, SoundParts
  <2> DEFINE fl == Len(f.free) + Len(f.inflight)
             ll == Len(l.free)
  <2>2. fl \in Nat /\ a \in Nat
    <3>1. \A x, y \in Nat : x + y \in Nat /\ x + y + 1 \in Nat
      OBVIOUS
    <3> QED
      BY <2>1, <3>1, Zenon
  <2>4. fl <= a /\ ll <= fl /\ ll \in Nat
    BY <1>2, <1>3, <2>1
  <2> HIDE DEF fl, ll, a
  <2>3. ll <= a
    BY <2>2, <2>4
  <2> QED
    BY <2>1, <2>2, <2>3 DEF ll
<1> HIDE DEF a
<1>6. m.made + a <= MaxStorages
  BY DEF a
<1>7. m.made + Len(l.free) <= MaxStorages
  <2> DEFINE ll == Len(l.free)
  <2>1. ll <= a /\ a \in Nat /\ m.made \in Nat /\ ll \in Nat /\ MaxStorages \in Nat
    BY <1>5, StoragesBounded
  <2> HIDE DEF ll
  <2>2. m.made + ll <= MaxStorages
    BY <1>6, <2>1
  <2> QED
    BY <2>2 DEF ll
<1>19. KeptGrown(l, m, k)
  BY <1>3, <1>7, KeepGrown
<1> HIDE DEF k, c, r
<1>8. /\ Grown(m, k.m) /\ k.m.made <= m.made + Len(l.free) /\ k.m.made \in Nat
      /\ \A s \in Members(k.p) : s \in Members(l) \/ s \in Fresh(m, k.m)
      /\ k.p.always = l.always
      /\ \E x, y : k = [p |-> x, m |-> y]
  BY <1>19 DEF KeptGrown
<1>9. r.p = UpdateAlignment(c, 1) /\ r.m = k.m
  BY <1>1, <1>4, <1>8
<1>10. k.m.made <= MaxStorages
  <2>1. k.m \in MemoryType
    BY <1>8 DEF Grown
  <2> QED
    BY <2>1, StoragesBounded DEF MemoryType
<1>11. Sound(r.p, r.m) /\ r.p.cur = NoBuffer
  <2>1. Reset(p, m, d, TRUE, n, 1, limit).m.made <= MaxStorages
    BY <1>9, <1>10 DEF r
  <2>2. 1 \in Nat \ {0}
    OBVIOUS
  <2>3. Sound(r.p, r.m) /\ Extends(m, r.m) /\ r.p.cur = NoBuffer
    BY <2>1, <2>2, ResetSound DEF r
  <2> QED
    BY <2>3
<1>12. k.p \in PoolType
  BY <1>3, <1>10, KeepSound, SoundParts DEF k
<1>13. /\ c.initial = n /\ c.max = limit /\ c.cur = k.p.cur /\ c.free = k.p.free
       /\ c.inflight = k.p.inflight /\ c.always = k.p.always /\ c \in PoolType
  BY <1>12 DEF c, PoolType
<1>14. /\ r.p.initial = n /\ r.p.max = limit /\ r.p.cur = k.p.cur /\ r.p.free = k.p.free
       /\ r.p.inflight = k.p.inflight /\ r.p.always = k.p.always /\ r.p.align = 1
  BY <1>9, <1>13 DEF UpdateAlignment, PoolType
<1>15. Members(r.p) = Members(k.p)
  BY <1>14 DEF Members
<1>16. \A s \in Members(r.p) : s \in Members(p) \/ s \in Fresh(m, r.m)
  BY <1>2, <1>3, <1>8, <1>9, <1>15 DEF Within
<1>17. r.p.always = p.always
  BY <1>2, <1>3, <1>8, <1>14 DEF Within
<1>18. r.m.made <= m.made + a
  <2> DEFINE ll == Len(l.free)
  <2>1. ll <= a /\ a \in Nat /\ m.made \in Nat /\ ll \in Nat /\ k.m.made \in Nat /\ k.m.made <= m.made + ll
    BY <1>5, <1>8
  <2> HIDE DEF ll
  <2>2. k.m.made <= m.made + a
    BY <2>1
  <2> QED
    BY <1>9, <2>2
<1> QED
  BY <1>8, <1>9, <1>11, <1>14, <1>16, <1>17, <1>18 DEF ResetTo, r, a

-----------------------------------------------------------------------------
(* A pool of the world is asked for a buffer.                               *)

\* What a pool p of the world w is given for n bytes: x has the world and the
\* pool then, with a current buffer that the GPU does not use.
Provided(w, p, n, x) ==
    /\ Moves(w, x.w, {}) /\ x.w.mem.made <= w.mem.made + 1
    /\ Sound(x.pool, x.w.mem) /\ x.pool.cur \in 1..x.w.mem.made /\ Idle(x.w, x.pool.cur)
    /\ Within(p, x.pool, Fresh(w.mem, x.w.mem)) /\ x.pool.size = GrownSize(p, n)

\* A storage whose last use is known to be done is idle.
LEMMA DoneIdle ==
    ASSUME NEW w, WorldOK(w), NEW s \in Storages, w.mem.usage[s] <= w.done
    PROVE  Idle(w, s)
<1> SUFFICES ASSUME NEW i \in 1..Len(w.queue), Touches(w.queue[i], s) PROVE FALSE
  BY DEF Idle
<1>1. w.done < w.queue[i].serial /\ w.queue[i].serial <= w.mem.usage[s]
  BY DEF WorldOK, Ordered
<1>2. w.done \in Nat /\ w.mem.usage[s] \in Nat /\ w.queue[i].serial \in Nat
  BY WorldFacts
<1> QED
  BY <1>1, <1>2

LEMMA AllocateProvides ==
    ASSUME NEW w, WorldOK(w), NEW p, Sound(p, w.mem), p.align = 1, NEW n \in Nat,
           ~Appends(p, w.mem, n), w.mem.made + 1 <= MaxStorages
    PROVE  Provided(w, p, n, PoolAllocate(w, p, n))
<1> DEFINE r == Allocate(p, w.mem, w.done, n, TRUE)
           u == IF r.flush THEN AdvanceTo(Flush(w), r.done) ELSE w
           v == WithMemory(u, r.m)
<1>1. PoolAllocate(w, p, n) = [pool |-> r.p, w |-> v]
  BY DEF PoolAllocate, AfterAllocate, WithMemory
<1>2. /\ w.mem \in MemoryType /\ w.mem.made \in Nat /\ w.done \in Nat
      /\ \A s \in Storages : w.mem.usage[s] \in Nat
      /\ 1..w.mem.made \subseteq Storages
  BY WorldFacts
<1>3. /\ Supplied(p, w.mem, w.done, r) /\ r.p.size = GrownSize(p, n)
      /\ Sound(r.p, r.m) /\ r.p.cur \in 1..r.m.made
      /\ r.p.cur \in 1..w.mem.made => w.mem.usage[r.p.cur] <= r.done
  BY <1>2, AllocateSupplied
<1> HIDE DEF r
<1>4. r.p.cur \in Storages
  BY <1>3, SoundParts
<1>5. /\ Moves(w, u, {}) /\ u.mem = w.mem
      /\ r.p.cur \in 1..w.mem.made => Idle(u, r.p.cur)
  <2>1. CASE r.flush
    <3> DEFINE f == Flush(w)
    <3>1. /\ Moves(w, f, {}) /\ f.mem = w.mem
          /\ \A s \in Storages : w.mem.usage[s] < f.now
      BY FlushMoves
    <3>2. r.done = w.mem.usage[r.p.cur] /\ r.done \in Nat
      BY <1>2, <1>4, <2>1, <1>3 DEF Supplied
    <3>3. WorldOK(f) /\ r.done < f.now
      BY <1>4, <3>1, <3>2 DEF Moves, Spares
    <3> HIDE DEF f
    <3> DEFINE a == AdvanceTo(f, r.done)
    <3>4. /\ Moves(f, a, {}) /\ a.mem = f.mem
          /\ \A s \in Storages : f.mem.usage[s] <= r.done => Idle(a, s)
      BY <3>2, <3>3, AdvanceMoves
    <3> HIDE DEF a
    <3>5. Moves(w, a, {})
      BY <3>1, <3>4, MovesThen
    <3>6. u = a
      BY <2>1 DEF a, f
    <3> HIDE DEF u
    <3> QED
      BY <1>3, <1>4, <3>1, <3>4, <3>5, <3>6
  <2>2. CASE ~r.flush
    <3>1. u = w /\ r.done = w.done
      BY <1>3, <2>2 DEF Supplied
    <3>2. r.p.cur \in 1..w.mem.made => Idle(w, r.p.cur)
      BY <1>3, <1>4, <3>1, DoneIdle
    <3> HIDE DEF u
    <3> QED
      BY <3>1, <3>2, SparesSelf
  <2> QED
    BY <2>1, <2>2
<1> HIDE DEF u, v
<1>6. WorldOK(u) /\ Grown(u.mem, r.m)
  BY <1>3, <1>5 DEF Moves, Spares, Supplied
<1>7. /\ Moves(u, v, {}) /\ v.mem = r.m
      /\ \A s \in Storages : s > u.mem.made => Idle(v, s)
      /\ \A s \in Storages : Idle(u, s) => Idle(v, s)
  BY <1>6, MemoryMoves DEF v
<1>8. Moves(w, v, {})
  BY <1>5, <1>7, MovesThen
<1>9. Idle(v, r.p.cur)
  <2>1. CASE r.p.cur \in 1..w.mem.made
    BY <1>4, <1>5, <1>7, <2>1
  <2>2. CASE r.p.cur \notin 1..w.mem.made
    <3>1. r.p.cur > w.mem.made
      BY <1>2, <1>3, <2>2
    <3> QED
      BY <1>4, <1>5, <1>7, <3>1
  <2> QED
    BY <2>1, <2>2
<1>10. r.m.made <= w.mem.made + 1
  BY <1>2, <1>3 DEF Supplied
<1> DEFINE x == PoolAllocate(w, p, n)
<1>11. x.pool = r.p /\ x.w = v
  BY <1>1
<1> HIDE DEF x
<1> QED
  BY <1>3, <1>7, <1>8, <1>9, <1>10, <1>11 DEF Provided, Supplied, x

\* A pool stays sound in memory that has all that its memory had.
LEMMA SoundLater ==
    ASSUME NEW p, NEW m, Sound(p, m), NEW m2 \in MemoryType, m.made <= m2.made,
           \A s \in 1..m.made : m2.size[s] = m.size[s]
    PROVE  Sound(p, m2)
<1>1. /\ m.made \in Nat /\ m2.made \in Nat /\ p.count \in Nat
      /\ p.cur \in (1..m.made) \cup {NoBuffer}
      /\ p.free \in Seq(1..m.made) /\ p.inflight \in Seq(1..m.made)
      /\ \A i \in 1..Len(p.free) : p.free[i] \in 1..m.made
      /\ \A i \in 1..Len(p.inflight) : p.inflight[i] \in 1..m.made
  BY SoundParts DEF MemoryType
<1>2. 1..m.made \subseteq 1..m2.made
  BY <1>1
<1>3. EntriesMade(p, m2)
  <2>1. p.free \in Seq(1..m2.made) /\ p.inflight \in Seq(1..m2.made)
    BY <1>1, <1>2, SeqMonotonic
  <2> QED
    BY <1>1, <1>2, <2>1 DEF EntriesMade
<1>4. Sized(p, m2)
  BY <1>1 DEF Sound, Sized
<1>5. Counted(p, m2)
  <2>1. p.count <= m.made
    BY DEF Sound, Counted
  <2>2. p.count <= m2.made
    BY <1>1, <2>1
  <2> QED
    BY <2>2 DEF Sound, Counted
<1> QED
  BY <1>3, <1>4, <1>5 DEF Sound

LEMMA NewSound ==
    ASSUME NEW b \in BOOLEAN, NEW m \in MemoryType
    PROVE  Sound(NewPool(b, "auto"), m) /\ Members(NewPool(b, "auto")) = {}
<1>1. m.made \in Nat
  BY StoragesBounded DEF MemoryType
<1>2. NewMemory.made = 0
  BY DEF NewMemory
<1>3. Sound(NewPool(b, "auto"), m)
  <2>1. \A s \in 1..NewMemory.made : m.size[s] = NewMemory.size[s]
    BY <1>2
  <2>2. NewMemory.made <= m.made
    BY <1>1, <1>2
  <2> QED
    BY <2>1, <2>2, NewPoolSound, SoundLater
<1> DEFINE p == NewPool(b, "auto")
<1>4. p.cur = NoBuffer /\ p.free = <<>> /\ p.inflight = <<>>
  BY DEF NewPool
<1> HIDE DEF p
<1>5. Members(p) = {}
  <2>1. (\A i \in 1..Len(p.free) : FALSE) /\ (\A i \in 1..Len(p.inflight) : FALSE)
    BY <1>4
  <2> QED
    BY <1>4, <2>1, StoragesAre DEF Members
<1> QED
  BY <1>3, <1>5 DEF p

LEMMA MembersMade ==
    ASSUME NEW p, NEW m, Sound(p, m)
    PROVE  /\ \A s \in Members(p) : s \in 1..m.made /\ s \in Storages
           /\ p.cur # NoBuffer => p.cur \in Members(p) /\ p.cur \in 1..m.made /\ p.cur \in Storages
<1>1. /\ p.cur \in (1..m.made) \cup {NoBuffer} /\ \A s \in 1..m.made : s \in Storages
      /\ \A i \in 1..Len(p.free) : p.free[i] \in 1..m.made
      /\ \A i \in 1..Len(p.inflight) : p.inflight[i] \in 1..m.made
  BY SoundParts
<1>2. p.cur # NoBuffer => p.cur \in Members(p) /\ p.cur \in 1..m.made /\ p.cur \in Storages
  BY <1>1 DEF Members
<1>3. ASSUME NEW s \in Members(p) PROVE s \in 1..m.made /\ s \in Storages
  <2>1. s \in Storages /\ s # NoBuffer
    BY StoragesAre DEF Members
  <2>2. s = p.cur \/ (\E i \in 1..Len(p.free) : p.free[i] = s) \/ (\E i \in 1..Len(p.inflight) : p.inflight[i] = s)
    BY DEF Members
  <2> QED
    BY <1>1, <2>1, <2>2
<1> QED
  BY <1>2, <1>3

-----------------------------------------------------------------------------
(* One buffer in the world.                                                 *)

ImplType ==
    [buf : Storages \cup {NoBuffer}, shadow : Data, shadowSize : Nat, pool : PoolType,
     conv : [exists : BOOLEAN, dirty : BOOLEAN, buf : Storages \cup {NoBuffer}, pool : PoolType]]

GLType ==
    [size : Cells \cup {0}, usage : {"static", "dynamic"}, data : Bytes,
     access : {"none", "read", "write", "invalidate", "unsync"}, range : SUBSET Cells]

\* The pool of a buffer, and that of its conversion, which is there when it is
\* not marked.
PoolsFit(i, m) ==
    /\ Sound(i.pool, m) /\ i.pool.always = TRUE /\ i.pool.align = 1
    /\ Sound(i.conv.pool, m) /\ i.conv.pool.align = 1 /\ i.conv.pool.initial = 0
    /\ i.buf = i.pool.cur
    /\ i.conv.buf = IF i.conv.dirty THEN NoBuffer ELSE i.conv.pool.cur
    /\ ~i.conv.dirty => i.conv.exists /\ i.conv.pool.cur # NoBuffer
    /\ \A s \in Members(i.pool) : s \notin Members(i.conv.pool)

\* The implementation and the state of the GL buffer.
Fits(i, g) ==
    /\ i.conv.pool.size \in {0, g.size}
    /\ g.size > 0 => /\ i.buf # NoBuffer
                     /\ i.pool.max = IF g.usage = "static" THEN 1 ELSE PoolLimit
    /\ \A c \in Cells : g.data[c] # Undef => c \in Extent(g.size)
    /\ g.access # "none" => g.size > 0 /\ g.range \subseteq Extent(g.size)

\* The client writes to a storage that the GPU does not use.
Ready(w, i, g) ==
    g.access # "none" /\ (Single(i) \/ g.access = "unsync") => Idle(w, i.buf)

Built(w, i, g) ==
    i \in ImplType /\ g \in GLType /\ PoolsFit(i, w.mem) /\ Fits(i, g) /\ Ready(w, i, g)

UnmappedOK(w, i, g) ==
    /\ HasOn(w, i.buf, g.data, Cells)
    /\ ~Single(i) /\ ~w.dirty[i.buf] => Agrees(i.shadow, g.data)

\* The cells that the client may write through the pointer.
Open(g) == IF g.access = "read" THEN {} ELSE g.range

MappedOK(w, i, g) ==
    /\ Single(i) => /\ HasOn(w, i.buf, g.data, Cells \ Open(g))
                    /\ \A c \in Open(g) : g.data[c] # Undef => LastCPU(w, i.buf)[c] = g.data[c]
    /\ ~Single(i) => /\ Agrees(i.shadow, g.data)
                     /\ g.access = "unsync" => HasOn(w, i.buf, g.data, Cells \ Open(g))

\* The contents of a buffer are where they will be looked for.
Whole(w, i, g) ==
    g.size > 0 => IF g.access = "none" THEN UnmappedOK(w, i, g) ELSE MappedOK(w, i, g)

\* What a draw of converted attributes must fetch.
ConvertedData(data) == [c \in Cells |-> IF data[c] = Undef THEN Undef ELSE Converted(data)[c]]

\* The conversion has the contents of the buffer.
Turned(w, i, g) ==
    g.size > 0 /\ g.access = "none" /\ ~i.conv.dirty =>
      Agrees(LastGPU(w, i.conv.buf), ConvertedData(g.data))

\* The storages of a buffer.
Own(i) == Members(i.pool) \cup Members(i.conv.pool)

LEMMA BuiltFacts ==
    ASSUME NEW w, WorldOK(w), NEW i, NEW g, Built(w, i, g)
    PROVE  /\ i \in ImplType /\ g \in GLType /\ i.pool \in PoolType /\ i.conv.pool \in PoolType
           /\ i.shadow \in Data /\ i.shadowSize \in Nat
           /\ g.size \in Nat /\ g.data \in Bytes /\ g.data \in Data /\ Extent(g.size) \subseteq Cells
           /\ g.range \in SUBSET Cells /\ Open(g) \in SUBSET Cells
           /\ \A s \in Own(i) : s \in 1..w.mem.made /\ s \in Storages
           /\ i.buf # NoBuffer => i.buf \in 1..w.mem.made /\ i.buf \in Storages
                                  /\ i.buf \in Own(i) /\ i.buf \notin Members(i.conv.pool)
           /\ g.size > 0 => i.buf # NoBuffer
           /\ ~i.conv.dirty => i.conv.buf \in 1..w.mem.made /\ i.conv.buf \in Storages
                               /\ i.conv.buf \in Own(i) /\ i.conv.buf # i.buf
<1>1. /\ i \in ImplType /\ g \in GLType /\ i.pool \in PoolType /\ i.conv.pool \in PoolType
      /\ i.shadow \in Data /\ i.shadowSize \in Nat
      /\ g.size \in Cells \cup {0} /\ g.data \in Bytes /\ g.range \in SUBSET Cells
  BY DEF Built, ImplType, GLType
<1>2. g.size \in Nat /\ Extent(g.size) \subseteq Cells
  <2>1. CASE g.size = 0
    BY <2>1 DEF Extent
  <2>2. CASE g.size \in Cells
    BY <2>2, BufferAssumption DEF Extent
  <2> QED
    BY <1>1, <2>1, <2>2
<1>3. g.data \in Data /\ Open(g) \in SUBSET Cells
  BY <1>1, ConstantTypes DEF Bytes, Data, Open
<1>4. PoolsFit(i, w.mem) /\ Fits(i, g)
  BY DEF Built
<1>5. Sound(i.pool, w.mem) /\ Sound(i.conv.pool, w.mem)
  BY <1>4 DEF PoolsFit
<1>6. \A s \in Own(i) : s \in 1..w.mem.made /\ s \in Storages
  BY <1>5, MembersMade DEF Own
<1>7. i.buf # NoBuffer => /\ i.buf \in Members(i.pool) /\ i.buf \in 1..w.mem.made /\ i.buf \in Storages
                          /\ i.buf \notin Members(i.conv.pool)
  BY <1>4, <1>5, MembersMade DEF PoolsFit
<1>8. ~i.conv.dirty => /\ i.conv.buf = i.conv.pool.cur /\ i.conv.buf \in Members(i.conv.pool)
                       /\ i.conv.buf \in 1..w.mem.made /\ i.conv.buf \in Storages
  BY <1>4, <1>5, MembersMade DEF PoolsFit
<1>9. ~i.conv.dirty => i.conv.buf # i.buf
  BY <1>7, <1>8, StoragesAre
<1> QED
  BY <1>1, <1>2, <1>3, <1>4, <1>6, <1>7, <1>8, <1>9 DEF Own, Fits

\* A buffer whose storages are spared stays as it is.
LEMMA OthersStay ==
    ASSUME NEW w, WorldOK(w), NEW i, NEW g, Built(w, i, g), NEW v, NEW X, Spares(w, v, X),
           \A s \in Own(i) : s \notin X
    PROVE  /\ Built(v, i, g)
           /\ Whole(w, i, g) => Whole(v, i, g)
           /\ Turned(w, i, g) => Turned(v, i, g)
<1>1. /\ WorldOK(v) /\ v.mem \in MemoryType /\ w.mem.made <= v.mem.made
      /\ \A s \in 1..w.mem.made : v.mem.size[s] = w.mem.size[s]
  BY WorldFacts DEF Spares
<1>2. \A s \in Own(i) : /\ LastGPU(v, s) = LastGPU(w, s) /\ LastCPU(v, s) = LastCPU(w, s)
                        /\ v.mem.needSync[s] = w.mem.needSync[s] /\ v.dirty[s] = w.dirty[s]
                        /\ Idle(w, s) => Idle(v, s)
  BY BuiltFacts DEF Spares
<1>3. PoolsFit(i, v.mem)
  <2>1. Sound(i.pool, w.mem) /\ Sound(i.conv.pool, w.mem)
    BY DEF Built, PoolsFit
  <2>2. Sound(i.pool, v.mem) /\ Sound(i.conv.pool, v.mem)
    BY <1>1, <2>1, SoundLater
  <2> QED
    BY <2>2 DEF Built, PoolsFit
<1>4. g.size > 0 => i.buf \in Own(i)
  BY BuiltFacts
<1>5. Ready(v, i, g)
  BY <1>2, <1>4 DEF Built, Ready, Fits
<1>6. Built(v, i, g)
  BY <1>3, <1>5 DEF Built
<1>7. ASSUME g.size > 0 PROVE /\ UnmappedOK(w, i, g) => UnmappedOK(v, i, g)
                              /\ MappedOK(w, i, g) => MappedOK(v, i, g)
  BY <1>2, <1>4, <1>7 DEF UnmappedOK, MappedOK, HasOn
<1>8. Whole(w, i, g) => Whole(v, i, g)
  BY <1>7 DEF Whole
<1>9. Turned(w, i, g) => Turned(v, i, g)
  BY <1>2, BuiltFacts DEF Turned
<1> QED
  BY <1>6, <1>8, <1>9

-----------------------------------------------------------------------------
(* Steps of one buffer.                                                     *)

\* A step from w to v for a buffer i, which becomes j, concerns the storages of
\* the buffer and new ones.
Serves(w, i, v, j) ==
    /\ Moves(w, v, Own(i))
    /\ \A s \in Own(j) : s \in Own(i) \/ s \in Fresh(w.mem, v.mem)

\* The same for a pool p that becomes q.
PoolServes(w, p, v, q) ==
    /\ Moves(w, v, Members(p))
    /\ \A s \in Members(q) : s \in Members(p) \/ s \in Fresh(w.mem, v.mem)
    /\ Sound(q, v.mem) /\ q.always = p.always /\ q.align = p.align

LEMMA FreshFacts ==
    ASSUME NEW u, WorldOK(u), NEW v, NEW X, Spares(u, v, X), NEW w, NEW Y, Spares(v, w, Y)
    PROVE  /\ \A s \in Fresh(u.mem, v.mem) : s \in Fresh(u.mem, w.mem) /\ s \notin 1..u.mem.made
           /\ \A s \in Fresh(v.mem, w.mem) : s \in Fresh(u.mem, w.mem) /\ s \notin 1..u.mem.made
<1>1. /\ u.mem.made \in Nat /\ v.mem.made \in Nat /\ w.mem.made \in Nat
      /\ u.mem.made <= v.mem.made /\ v.mem.made <= w.mem.made
  BY WorldFacts DEF Spares
<1> QED
  BY <1>1 DEF Fresh

LEMMA ServesThen ==
    ASSUME NEW u, WorldOK(u), NEW i, NEW v, NEW j, NEW w, NEW k,
           Serves(u, i, v, j), Serves(v, j, w, k)
    PROVE  Serves(u, i, w, k)
<1>1. Spares(u, v, Own(i)) /\ DrawsKept(u, v) /\ Spares(v, w, Own(j)) /\ DrawsKept(v, w)
  BY DEF Serves, Moves
<1>2. /\ \A s \in Fresh(u.mem, v.mem) : s \in Fresh(u.mem, w.mem) /\ s \notin 1..u.mem.made
      /\ \A s \in Fresh(v.mem, w.mem) : s \in Fresh(u.mem, w.mem) /\ s \notin 1..u.mem.made
  BY <1>1, FreshFacts
<1>3. \A s \in Own(j) : s \in Own(i) \/ s \notin 1..u.mem.made
  BY <1>2 DEF Serves
<1>4. Moves(u, w, Own(i))
  BY <1>1, <1>3, SparesThen DEF Moves
<1>5. \A s \in Own(k) : s \in Own(i) \/ s \in Fresh(u.mem, w.mem)
  BY <1>2 DEF Serves
<1> QED
  BY <1>4, <1>5 DEF Serves

LEMMA PoolServesThen ==
    ASSUME NEW u, WorldOK(u), NEW p, NEW v, NEW q, NEW w, NEW r,
           PoolServes(u, p, v, q), PoolServes(v, q, w, r)
    PROVE  PoolServes(u, p, w, r)
<1>1. Spares(u, v, Members(p)) /\ DrawsKept(u, v) /\ Spares(v, w, Members(q)) /\ DrawsKept(v, w)
  BY DEF PoolServes, Moves
<1>2. /\ \A s \in Fresh(u.mem, v.mem) : s \in Fresh(u.mem, w.mem) /\ s \notin 1..u.mem.made
      /\ \A s \in Fresh(v.mem, w.mem) : s \in Fresh(u.mem, w.mem) /\ s \notin 1..u.mem.made
  BY <1>1, FreshFacts
<1>3. \A s \in Members(q) : s \in Members(p) \/ s \notin 1..u.mem.made
  BY <1>2 DEF PoolServes
<1>4. Moves(u, w, Members(p))
  BY <1>1, <1>3, SparesThen DEF Moves
<1>5. \A s \in Members(r) : s \in Members(p) \/ s \in Fresh(u.mem, w.mem)
  BY <1>2 DEF PoolServes
<1> QED
  BY <1>4, <1>5 DEF PoolServes

\* The conversion stays, or is marked, or is made new.
ConvKept(c, d) ==
    d = c \/ d = NewConversion \/ d = [c EXCEPT !.dirty = TRUE, !.buf = NoBuffer]

LEMMA ConvFits ==
    ASSUME NEW w, WorldOK(w), NEW i \in ImplType, PoolsFit(i, w.mem), NEW c, ConvKept(i.conv, c),
           NEW m \in MemoryType, w.mem.made <= m.made,
           \A s \in 1..w.mem.made : m.size[s] = w.mem.size[s]
    PROVE  /\ Sound(c.pool, m) /\ c.pool.align = 1 /\ c.pool.initial = 0
           /\ c.buf = IF c.dirty THEN NoBuffer ELSE c.pool.cur
           /\ ~c.dirty => c.exists /\ c.pool.cur # NoBuffer
           /\ \A s \in Members(c.pool) : s \in Members(i.conv.pool)
           /\ c \in [exists : BOOLEAN, dirty : BOOLEAN, buf : Storages \cup {NoBuffer}, pool : PoolType]
<1>1. /\ Sound(i.conv.pool, m) /\ i.conv.pool.align = 1 /\ i.conv.pool.initial = 0
      /\ i.conv.buf = IF i.conv.dirty THEN NoBuffer ELSE i.conv.pool.cur
      /\ ~i.conv.dirty => i.conv.exists /\ i.conv.pool.cur # NoBuffer
  BY SoundLater DEF PoolsFit
<1>2. i.conv \in [exists : BOOLEAN, dirty : BOOLEAN, buf : Storages \cup {NoBuffer}, pool : PoolType]
  BY DEF ImplType
<1>3. CASE c = i.conv
  BY <1>1, <1>2, <1>3
<1>4. CASE c = NewConversion
  <2> DEFINE q == NewPool(FALSE, "auto")
  <2>1. c = [exists |-> FALSE, dirty |-> TRUE, buf |-> NoBuffer, pool |-> q]
    BY <1>4 DEF NewConversion
  <2>2. q.align = 1 /\ q.initial = 0
    BY DEF NewPool
  <2>3. Sound(q, m) /\ Members(q) = {}
    BY NewSound
  <2> HIDE DEF q
  <2>4. q \in PoolType
    BY <2>3, SoundParts
  <2> QED
    BY <2>1, <2>2, <2>3, <2>4
<1>5. CASE c = [i.conv EXCEPT !.dirty = TRUE, !.buf = NoBuffer]
  <2>1. c.dirty = TRUE /\ c.buf = NoBuffer /\ c.pool = i.conv.pool /\ c.exists = i.conv.exists
    BY <1>2, <1>5
  <2>2. c \in [exists : BOOLEAN, dirty : BOOLEAN, buf : Storages \cup {NoBuffer}, pool : PoolType]
    BY <1>2, <1>5
  <2> QED
    BY <1>1, <2>1, <2>2
<1> QED
  BY <1>3, <1>4, <1>5 DEF ConvKept

\* A step of the pool of a buffer is a step of the buffer.
LEMMA Assembled ==
    ASSUME NEW w, WorldOK(w), NEW i \in ImplType, PoolsFit(i, w.mem), NEW v, NEW j,
           PoolServes(w, i.pool, v, j.pool), j.buf = j.pool.cur, ConvKept(i.conv, j.conv)
    PROVE  PoolsFit(j, v.mem) /\ Serves(w, i, v, j)
<1>1. /\ w.mem.made \in Nat /\ v.mem \in MemoryType /\ w.mem.made <= v.mem.made
      /\ \A s \in 1..w.mem.made : v.mem.size[s] = w.mem.size[s]
  BY WorldFacts DEF PoolServes, Moves, Spares
<1>2. /\ Sound(j.conv.pool, v.mem) /\ j.conv.pool.align = 1 /\ j.conv.pool.initial = 0
      /\ j.conv.buf = IF j.conv.dirty THEN NoBuffer ELSE j.conv.pool.cur
      /\ ~j.conv.dirty => j.conv.exists /\ j.conv.pool.cur # NoBuffer
      /\ \A s \in Members(j.conv.pool) : s \in Members(i.conv.pool)
  <2> DEFINE m == v.mem
             c == j.conv
  <2>1. m \in MemoryType /\ w.mem.made <= m.made /\ ConvKept(i.conv, c)
    BY <1>1
  <2>2. \A s \in 1..w.mem.made : m.size[s] = w.mem.size[s]
    BY <1>1
  <2> HIDE DEF m, c
  <2>3. /\ Sound(c.pool, m) /\ c.pool.align = 1 /\ c.pool.initial = 0
        /\ c.buf = IF c.dirty THEN NoBuffer ELSE c.pool.cur
        /\ ~c.dirty => c.exists /\ c.pool.cur # NoBuffer
        /\ \A s \in Members(c.pool) : s \in Members(i.conv.pool)
    BY <2>1, <2>2, ConvFits
  <2> QED
    BY <2>3 DEF m, c
<1>3. \A s \in Members(i.conv.pool) : s \in 1..w.mem.made
  BY MembersMade DEF PoolsFit
<1>4. \A s \in Fresh(w.mem, v.mem) : s \notin 1..w.mem.made
  BY <1>1 DEF Fresh
<1>5. \A s \in Members(j.pool) : s \notin Members(j.conv.pool)
  BY <1>2, <1>3, <1>4 DEF PoolServes, PoolsFit
<1>6. PoolsFit(j, v.mem)
  BY <1>2, <1>5 DEF PoolsFit, PoolServes
<1>7. Moves(w, v, Own(i))
  BY SparesLess DEF PoolServes, Own
<1>8. \A s \in Own(j) : s \in Own(i) \/ s \in Fresh(w.mem, v.mem)
  BY <1>2 DEF PoolServes, Own
<1> QED
  BY <1>6, <1>7, <1>8 DEF Serves

\* A step of the pool leaves the conversion alone.
LEMMA TurnedStays ==
    ASSUME NEW w, WorldOK(w), NEW i, NEW g, Built(w, i, g), NEW v, NEW j,
           PoolServes(w, i.pool, v, j.pool), j.conv = i.conv, Turned(w, i, g)
    PROVE  Turned(v, j, g)
<1> SUFFICES ASSUME g.size > 0, g.access = "none", ~j.conv.dirty
             PROVE  Agrees(LastGPU(v, j.conv.buf), ConvertedData(g.data))
  BY DEF Turned
<1>1. ~i.conv.dirty /\ j.conv.buf = i.conv.buf
  OBVIOUS
<1>2. i.conv.buf \in 1..w.mem.made /\ i.conv.buf \in Members(i.conv.pool)
  <2>1. i.conv.buf = i.conv.pool.cur /\ i.conv.pool.cur # NoBuffer /\ Sound(i.conv.pool, w.mem)
    BY <1>1 DEF Built, PoolsFit
  <2> QED
    BY <2>1, MembersMade
<1>3. i.conv.buf \notin Members(i.pool)
  BY <1>2 DEF Built, PoolsFit
<1>4. LastGPU(v, i.conv.buf) = LastGPU(w, i.conv.buf)
  BY <1>2, <1>3 DEF PoolServes, Moves, Spares
<1> QED
  BY <1>1, <1>4 DEF Turned

\* The buffer i has a storage.
HasBuffer(i, m) == Sound(i.pool, m) /\ i.buf = i.pool.cur /\ i.buf # NoBuffer

LEMMA StepPool ==
    ASSUME NEW w, WorldOK(w), NEW i \in ImplType, HasBuffer(i, w.mem),
           NEW v, Moves(w, v, {i.buf})
    PROVE  /\ PoolServes(w, i.pool, v, i.pool) /\ WorldOK(v)
           /\ i.buf \in 1..w.mem.made /\ i.buf \in 1..v.mem.made /\ i.buf \in Storages
<1>1. i.buf \in Members(i.pool) /\ i.buf \in 1..w.mem.made /\ i.buf \in Storages
  BY MembersMade DEF HasBuffer
<1>2. /\ WorldOK(v) /\ v.mem \in MemoryType /\ w.mem.made <= v.mem.made
      /\ \A s \in 1..w.mem.made : v.mem.size[s] = w.mem.size[s]
      /\ w.mem.made \in Nat /\ v.mem.made \in Nat
  BY WorldFacts DEF Moves, Spares
<1>3. i.buf \in 1..v.mem.made
  BY <1>1, <1>2
<1>4. Sound(i.pool, v.mem)
  BY <1>2, SoundLater DEF HasBuffer
<1>5. Moves(w, v, Members(i.pool))
  <2>1. {i.buf} \subseteq Members(i.pool)
    BY <1>1
  <2> QED
    BY <2>1, SparesLess
<1> QED
  BY <1>1, <1>2, <1>3, <1>4, <1>5 DEF PoolServes

\* The shadow copy of i is up to date in x.
Synced(w, i, g, x) ==
    /\ PoolServes(w, i.pool, x.w, x.i.pool)
    /\ x.i \in ImplType /\ x.i.pool = i.pool /\ x.i.buf = i.buf /\ x.i.conv = i.conv
    /\ x.i.shadowSize = i.shadowSize /\ x.w.mem.made = w.mem.made
    /\ Idle(w, i.buf) => Idle(x.w, i.buf)
    /\ HasOn(w, i.buf, g.data, Cells) /\ (~w.dirty[i.buf] => Agrees(i.shadow, g.data)) =>
         HasOn(x.w, i.buf, g.data, Cells) /\ Agrees(x.i.shadow, g.data)

LEMMA EnsureSyncs ==
    ASSUME NEW w, WorldOK(w), NEW i \in ImplType, HasBuffer(i, w.mem),
           NEW g, \A c \in Cells : g.data[c] # Undef => c \in Extent(g.size)
    PROVE  Synced(w, i, g, EnsureShadowCopySynced(w, i, g))
<1>0. i.buf \in 1..w.mem.made /\ i.buf \in Storages
  BY MembersMade DEF HasBuffer
<1>1. CASE ~w.dirty[i.buf]
  <2> DEFINE x == EnsureShadowCopySynced(w, i, g)
  <2>1. x = [w |-> w, i |-> i]
    BY <1>1 DEF EnsureShadowCopySynced
  <2> HIDE DEF x
  <2>2. x.w = w /\ x.i = i
    BY <2>1
  <2>3. Moves(w, w, {i.buf})
    BY SparesSelf
  <2>4. PoolServes(w, i.pool, w, i.pool)
    BY <2>3, StepPool
  <2>5. Synced(w, i, g, x)
    BY <1>1, <2>2, <2>4 DEF Synced
  <2> QED
    BY <2>5 DEF x
<1>2. CASE w.dirty[i.buf]
  <2> DEFINE v == Map(w, i.buf, FALSE)
             u == Clean(v, i.buf)
             sh == Merge(i.shadow, Extent(g.size), v.cpu[i.buf])
             j == [i EXCEPT !.shadow = sh]
             x == EnsureShadowCopySynced(w, i, g)
  <2>1. x = [w |-> u, i |-> j]
    BY <1>2 DEF EnsureShadowCopySynced, ReadBack, Clean
  <2>2. Moves(w, v, {i.buf}) /\ Idle(v, i.buf) /\ v.mem.made = w.mem.made
    BY <1>0, MapMoves
  <2>13. Mapped(w, i.buf, v) /\ u = Clean(v, i.buf)
    BY DEF Mapped
  <2> HIDE DEF u
  <2> HIDE DEF v
  <2>3. \A C : HasOn(w, i.buf, g.data, C) =>
          /\ HasOn(v, i.buf, g.data, C)
          /\ \A c \in C : g.data[c] # Undef => v.cpu[i.buf][c] = g.data[c]
    BY <1>0, <2>13, MapHas
  <2>4. WorldOK(v) /\ i.buf \in 1..v.mem.made
    BY <1>0, <2>2 DEF Moves, Spares
  <2>5. v.cpu[i.buf] \in Data
    BY <1>0, <2>4, WorldFacts
  <2>6. /\ Moves(v, u, {i.buf}) /\ u.mem = v.mem
        /\ LastGPU(u, i.buf) = LastGPU(v, i.buf) /\ LastCPU(u, i.buf) = LastCPU(v, i.buf)
        /\ Idle(v, i.buf) => Idle(u, i.buf)
    BY <2>4, <2>13, CleanMoves
  <2>7. sh \in Data /\ \A c \in Cells : sh[c] = IF c \in Extent(g.size) THEN v.cpu[i.buf][c] ELSE i.shadow[c]
    BY <2>5, MergeType DEF ImplType
  <2> HIDE DEF sh
  <2>8. /\ j \in ImplType /\ j.shadow = sh /\ j.pool = i.pool /\ j.buf = i.buf /\ j.conv = i.conv
        /\ j.shadowSize = i.shadowSize
    BY <2>7 DEF ImplType
  <2> HIDE DEF j, x
  <2>9. x.w = u /\ x.i = j
    BY <2>1
  <2>10. PoolServes(w, i.pool, u, i.pool)
    <3>1. Moves(w, u, {i.buf})
      BY <2>2, <2>6, MovesThen
    <3> QED
      BY <3>1, StepPool
  <2>11. ASSUME HasOn(w, i.buf, g.data, Cells)
         PROVE  HasOn(u, i.buf, g.data, Cells) /\ Agrees(sh, g.data)
    <3>1. /\ HasOn(v, i.buf, g.data, Cells)
          /\ \A c \in Cells : g.data[c] # Undef => v.cpu[i.buf][c] = g.data[c]
      BY <2>3, <2>11
    <3>2. HasOn(u, i.buf, g.data, Cells)
      BY <2>6, <3>1 DEF HasOn
    <3>3. Agrees(sh, g.data)
      BY <2>7, <3>1 DEF Agrees
    <3> QED
      BY <3>2, <3>3
  <2>12. Synced(w, i, g, x)
    BY <2>2, <2>6, <2>8, <2>9, <2>10, <2>11 DEF Synced
  <2> QED
    BY <2>12 DEF x
<1> QED
  BY <1>0, <1>1, <1>2, WorldFacts

LEMMA ProvidedServes ==
    ASSUME NEW w, WorldOK(w), NEW p, NEW n, NEW x, Provided(w, p, n, x)
    PROVE  /\ PoolServes(w, p, x.w, x.pool) /\ WorldOK(x.w)
           /\ x.pool.cur # NoBuffer /\ x.pool.cur \in Members(x.pool) /\ x.pool.cur \in Storages
           /\ x.pool \in PoolType
<1>1. Moves(w, x.w, Members(p)) /\ WorldOK(x.w)
  <2>1. Moves(w, x.w, {}) /\ {} \subseteq Members(p)
    BY DEF Provided
  <2> QED
    BY <2>1, SparesLess DEF Moves, Spares
<1>2. Sound(x.pool, x.w.mem) /\ x.pool.cur \in 1..x.w.mem.made
  BY DEF Provided
<1>3. x.pool.cur \in Storages /\ x.pool.cur # NoBuffer
  BY <1>1, <1>2, WorldFacts, StoragesAre
<1> QED
  BY <1>1, <1>2, <1>3, MembersMade, SoundParts DEF PoolServes, Provided, Within

\* In-flight buffers are released first.
LEMMA ReleaseServes ==
    ASSUME NEW w, WorldOK(w), NEW p, Sound(p, w.mem)
    PROVE  LET q == ReleaseInFlightBuffers(p, w.mem) IN
           /\ PoolServes(w, p, w, q) /\ Sound(q, w.mem) /\ q.max = p.max /\ q.size = p.size
           /\ q.initial = p.initial /\ q.next = p.next
<1> DEFINE q == ReleaseInFlightBuffers(p, w.mem)
<1>1. Sound(q, w.mem) /\ Within(p, q, {}) /\ q.size = p.size /\ q.next = p.next
  BY ReleaseSound, ReleaseWithin
<1>2. Moves(w, w, Members(p))
  BY SparesSelf
<1> HIDE DEF q
<1>3. PoolServes(w, p, w, q) /\ q.max = p.max /\ q.initial = p.initial
  BY <1>1, <1>2 DEF PoolServes, Within
<1> QED
  BY <1>1, <1>3 DEF q

\* The current buffer of i, in x, is one that was allocated for i in w, and
\* holds the shadow copy in the cells C.
Committed(w, i, C, x) ==
    /\ PoolServes(w, i.pool, x.w, x.i.pool)
    /\ x.i \in ImplType /\ x.i.conv = i.conv /\ x.i.shadow = i.shadow /\ x.i.pool.max = i.pool.max
    /\ x.i.buf = x.i.pool.cur /\ x.i.buf # NoBuffer
    /\ Idle(x.w, x.i.buf)
    /\ \A c \in C : LastGPU(x.w, x.i.buf)[c] = i.shadow[c] /\ LastCPU(x.w, x.i.buf)[c] = i.shadow[c]

\* A pool that may be asked for n bytes.
MainPool(w, p) ==
    Sound(p, w.mem) /\ p.always = TRUE /\ p.align = 1 /\ w.mem.made + 1 <= MaxStorages

\* BufferMtl allocates its current buffer.
LEMMA CurrentAllocated ==
    ASSUME NEW w, WorldOK(w), NEW i \in ImplType, NEW p, PoolServes(w, i.pool, w, p), MainPool(w, p),
           p.max = i.pool.max, NEW n \in Nat
    PROVE  Committed(w, i, {}, AllocateCurrent(i, PoolAllocate(w, p, n)))
<1> DEFINE r == PoolAllocate(w, p, n)
           j == [i EXCEPT !.pool = r.pool, !.buf = r.pool.cur]
           x == AllocateCurrent(i, r)
<1>1. x = [w |-> r.w, i |-> j]
  BY DEF AllocateCurrent
<1>2. Provided(w, p, n, r)
  <2>1. ~Appends(p, w.mem, n)
    BY DEF Appends, MainPool
  <2> QED
    BY <2>1, AllocateProvides DEF MainPool
<1> HIDE DEF r
<1>3. /\ PoolServes(w, p, r.w, r.pool) /\ r.pool.cur # NoBuffer /\ r.pool.cur \in Storages
      /\ r.pool \in PoolType
  BY <1>2, ProvidedServes
<1>4. PoolServes(w, i.pool, r.w, r.pool)
  BY <1>3, PoolServesThen
<1>5. /\ j \in ImplType /\ j.pool = r.pool /\ j.buf = r.pool.cur /\ j.conv = i.conv
      /\ j.shadow = i.shadow
  BY <1>3 DEF ImplType
<1> HIDE DEF j, x
<1>6. x.w = r.w /\ x.i = j
  BY <1>1
<1>7. Committed(w, i, {}, x)
  BY <1>2, <1>3, <1>4, <1>5, <1>6 DEF Committed, Provided, Within
<1> QED
  BY <1>7 DEF x, r

\* The CPU writes the storage s of the pool p in x.
LEMMA WriteServes ==
    ASSUME NEW w, WorldOK(w), NEW p, NEW q, NEW u, PoolServes(w, p, u, q),
           NEW s \in Members(q), Idle(u, s), NEW bytes \in Data, NEW cells, NEW v, v = Written(u, s, cells, bytes)
    PROVE  PoolServes(w, p, v, q) /\ Wrote(u, v, s, cells, bytes) /\ WorldOK(u)
<1>1. WorldOK(u) /\ Sound(q, u.mem) /\ s \in 1..u.mem.made
  BY MembersMade DEF PoolServes, Moves, Spares
<1>2. Wrote(u, v, s, cells, bytes)
  BY <1>1, WriteMoves
<1>3. Moves(u, v, Members(q))
  <2>1. {s} \subseteq Members(q) /\ Moves(u, v, {s})
    BY <1>2 DEF Wrote
  <2> QED
    BY <2>1, SparesLess
<1>4. PoolServes(u, q, v, q)
  BY <1>1, <1>2, <1>3 DEF PoolServes, Wrote
<1> QED
  BY <1>1, <1>2, <1>4, PoolServesThen

LEMMA CommitShadow ==
    ASSUME NEW w, WorldOK(w), NEW i \in ImplType, MainPool(w, i.pool), NEW n
    PROVE  Committed(w, i, IF n = 0 THEN {} ELSE Extent(n) \cap Cells, CommitShadowCopy(w, i, n))
<1>0. i.shadowSize \in Nat /\ i.shadow \in Data /\ Sound(i.pool, w.mem)
  BY DEF ImplType, MainPool
<1>1. CASE n = 0
  <2>1. CommitShadowCopy(w, i, n) = AllocateCurrent(i, PoolAllocate(w, i.pool, i.shadowSize))
    BY <1>1 DEF CommitShadowCopy
  <2>2. PoolServes(w, i.pool, w, i.pool)
    BY <1>0, SparesSelf DEF PoolServes
  <2>3. Committed(w, i, {}, AllocateCurrent(i, PoolAllocate(w, i.pool, i.shadowSize)))
    BY <1>0, <2>2, CurrentAllocated
  <2> QED
    BY <1>1, <2>1, <2>3
<1>2. CASE n # 0
  <2> DEFINE q == ReleaseInFlightBuffers(i.pool, w.mem)
             x == AllocateCurrent(i, PoolAllocate(w, q, i.shadowSize))
             v == Written(x.w, x.i.buf, Extent(n), i.shadow)
             y == CommitShadowCopy(w, i, n)
  <2>1. y = [x EXCEPT !.w = v]
    <3>1. y = WriteCurrent(x, Extent(n), i.shadow)
      BY <1>2 DEF CommitShadowCopy
    <3> HIDE DEF x, y
    <3> QED
      BY <3>1 DEF WriteCurrent, Written
  <2>2. \E a, b : x = [w |-> a, i |-> b]
    BY DEF AllocateCurrent
  <2>3. PoolServes(w, i.pool, w, q) /\ MainPool(w, q) /\ q.max = i.pool.max
    <3>1. PoolServes(w, i.pool, w, q) /\ Sound(q, w.mem) /\ q.max = i.pool.max
      BY <1>0, ReleaseServes
    <3> HIDE DEF q
    <3> QED
      BY <3>1 DEF MainPool, PoolServes
  <2> HIDE DEF q
  <2>4. Committed(w, i, {}, x)
    BY <1>0, <2>3, CurrentAllocated
  <2> HIDE DEF x
  <2>5. x.i.buf \in Members(x.i.pool)
    BY <2>4, MembersMade DEF Committed, PoolServes
  <2>6. v = Written(x.w, x.i.buf, Extent(n), i.shadow)
    OBVIOUS
  <2> HIDE DEF v
  <2>7. PoolServes(w, i.pool, v, x.i.pool) /\ Wrote(x.w, v, x.i.buf, Extent(n), i.shadow)
    BY <1>0, <2>4, <2>5, <2>6, WriteServes DEF Committed
  <2>8. y.w = v /\ y.i = x.i
    <3> HIDE DEF y
    <3> QED
      BY <2>1, <2>2
  <2> HIDE DEF y
  <2>9. Committed(w, i, Extent(n) \cap Cells, y)
    BY <2>4, <2>7, <2>8 DEF Committed, Wrote
  <2> QED
    BY <1>2, <2>9 DEF y
<1> QED
  BY <1>1, <1>2

\* A step of the buffer i that has a storage afterwards, in x.
Runs(w, i, x) ==
    /\ PoolServes(w, i.pool, x.w, x.i.pool)
    /\ x.i \in ImplType /\ x.i.conv = i.conv /\ x.i.pool.max = i.pool.max
    /\ x.i.buf = x.i.pool.cur /\ x.i.buf # NoBuffer

\* The data is in the storage, and in the shadow copy unless the GPU wrote.
Holds(w, i, data) ==
    /\ HasOn(w, i.buf, data, Cells)
    /\ ~Single(i) /\ ~w.dirty[i.buf] => Agrees(i.shadow, data)

\* The storage of a static buffer is mapped.
LEMMA SingleMapped ==
    ASSUME NEW w, WorldOK(w), NEW i \in ImplType, HasBuffer(i, w.mem), NEW v, Mapped(w, i.buf, v),
           NEW data
    PROVE  /\ PoolServes(w, i.pool, v, i.pool) /\ WorldOK(v) /\ Idle(v, i.buf)
           /\ i.buf \in Members(i.pool) /\ i.buf \in 1..v.mem.made /\ i.buf \in Storages
           /\ v.mem.made = w.mem.made /\ v.dirty = w.dirty /\ v.cpu[i.buf] \in Data
           /\ HasOn(w, i.buf, data, Cells) =>
                /\ HasOn(v, i.buf, data, Cells)
                /\ \A c \in Cells : data[c] # Undef => v.cpu[i.buf][c] = data[c]
<1>1. i.buf \in 1..w.mem.made /\ i.buf \in Members(i.pool)
  BY MembersMade DEF HasBuffer
<1>2. /\ Moves(w, v, {i.buf}) /\ Idle(v, i.buf) /\ v.dirty = w.dirty /\ v.mem.made = w.mem.made
  BY <1>1, MapMoves DEF Mapped
<1>3. /\ PoolServes(w, i.pool, v, i.pool) /\ WorldOK(v) /\ i.buf \in 1..v.mem.made /\ i.buf \in Storages
  BY <1>2, StepPool
<1>4. v.cpu[i.buf] \in Data
  BY <1>3, WorldFacts
<1>5. ASSUME HasOn(w, i.buf, data, Cells)
      PROVE  /\ HasOn(v, i.buf, data, Cells)
             /\ \A c \in Cells : data[c] # Undef => v.cpu[i.buf][c] = data[c]
  BY <1>1, <1>5, MapHas
<1> QED
  BY <1>1, <1>2, <1>3, <1>4, <1>5

LEMMA SingleWritten ==
    ASSUME NEW w, WorldOK(w), NEW i \in ImplType, HasBuffer(i, w.mem), Single(i),
           NEW cells \in SUBSET Cells, NEW bytes \in Data, NEW data,
           NEW y, y = WriteCurrent([w |-> Map(w, i.buf, FALSE), i |-> i], cells, bytes)
    PROVE  Runs(w, i, y) /\ (HasOn(w, i.buf, data, Cells) => Holds(y.w, y.i, Merge(data, cells, bytes)))
<1> DEFINE v == Map(w, i.buf, FALSE)
           u == Written(v, i.buf, cells, bytes)
<1>1. y = [w |-> u, i |-> i]
  BY DEF WriteCurrent, Written
<1>2. Mapped(w, i.buf, v) /\ u = Written(v, i.buf, cells, bytes)
  BY DEF Mapped
<1> HIDE DEF u
<1> HIDE DEF v
<1>3. /\ PoolServes(w, i.pool, v, i.pool) /\ WorldOK(v) /\ Idle(v, i.buf)
      /\ i.buf \in Members(i.pool) /\ i.buf \in 1..v.mem.made
      /\ HasOn(w, i.buf, data, Cells) => HasOn(v, i.buf, data, Cells)
  BY <1>2, SingleMapped
<1>4. PoolServes(w, i.pool, u, i.pool) /\ Wrote(v, u, i.buf, cells, bytes)
  BY <1>2, <1>3, WriteServes
<1>5. y.w = u /\ y.i = i
  BY <1>1
<1>6. Runs(w, i, y)
  BY <1>4, <1>5 DEF Runs, HasBuffer
<1>7. ASSUME HasOn(w, i.buf, data, Cells) PROVE Holds(u, i, Merge(data, cells, bytes))
  <2>1. HasOn(u, i.buf, Merge(data, cells, bytes), Cells \cup cells)
    BY <1>3, <1>4, <1>7, WriteHas
  <2>2. Cells \cup cells = Cells
    OBVIOUS
  <2> QED
    BY <2>1, <2>2 DEF Holds
<1> QED
  BY <1>5, <1>6, <1>7

\* The cells that g defines are those of its size.
DataFits(g) ==
    /\ g.data \in Data /\ Extent(g.size) \subseteq Cells
    /\ \A c \in Cells : g.data[c] # Undef => c \in Extent(g.size)

\* A shadow copy with the data is committed.
LEMMA CommitHolds ==
    ASSUME NEW w, WorldOK(w), NEW i \in ImplType, MainPool(w, i.pool), NEW n,
           NEW y, y = CommitShadowCopy(w, i, n), NEW data,
           \A c \in Cells : data[c] # Undef => n # 0 /\ c \in Extent(n)
    PROVE  Runs(w, i, y) /\ Idle(y.w, y.i.buf) /\ (Agrees(i.shadow, data) => Holds(y.w, y.i, data))
<1>1. Committed(w, i, IF n = 0 THEN {} ELSE Extent(n) \cap Cells, y)
  BY CommitShadow
<1>2. Runs(w, i, y) /\ Idle(y.w, y.i.buf)
  BY <1>1 DEF Committed, Runs
<1>3. \A c \in Cells : data[c] # Undef =>
         LastGPU(y.w, y.i.buf)[c] = i.shadow[c] /\ LastCPU(y.w, y.i.buf)[c] = i.shadow[c]
  BY <1>1 DEF Committed
<1>4. y.i.shadow = i.shadow
  BY <1>1 DEF Committed
<1>5. Agrees(i.shadow, data) => Holds(y.w, y.i, data)
  BY <1>3, <1>4 DEF Agrees, Holds, HasOn
<1> QED
  BY <1>2, <1>5

\* setSubDataImpl on a buffer that has a storage.
LEMMA DataWritten ==
    ASSUME NEW w, WorldOK(w), NEW i \in ImplType, HasBuffer(i, w.mem), MainPool(w, i.pool),
           NEW g, DataFits(g), NEW cells \in SUBSET Cells, cells \subseteq Extent(g.size),
           NEW bytes \in Data, NEW y, y = WriteData(w, i, g, cells, bytes)
    PROVE  /\ Runs(w, i, y)
           /\ Holds(w, i, g.data) => Holds(y.w, y.i, Merge(g.data, cells, bytes))
<1>1. CASE Single(i)
  <2>1. y = WriteCurrent([w |-> Map(w, i.buf, FALSE), i |-> i], cells, bytes)
    BY <1>1 DEF WriteData
  <2>2. Runs(w, i, y) /\ (HasOn(w, i.buf, g.data, Cells) => Holds(y.w, y.i, Merge(g.data, cells, bytes)))
    BY <1>1, <2>1, SingleWritten
  <2> QED
    BY <2>2 DEF Holds
<1>2. CASE ~Single(i)
  <2> DEFINE x == EnsureShadowCopySynced(w, i, g)
             sh == Merge(x.i.shadow, cells, bytes)
             j == [x.i EXCEPT !.shadow = sh]
             data == Merge(g.data, cells, bytes)
  <2>1. y = CommitShadowCopy(x.w, j, g.size)
    BY <1>2 DEF WriteData, UpdateShadow
  <2>2. Synced(w, i, g, x)
    BY EnsureSyncs DEF DataFits
  <2> HIDE DEF x
  <2>3. x.i \in ImplType /\ x.i.shadow \in Data
    BY <2>2 DEF Synced, ImplType
  <2>4. sh \in Data /\ \A c \in Cells : sh[c] = IF c \in cells THEN bytes[c] ELSE x.i.shadow[c]
    BY <2>3, MergeType
  <2>5. \A c \in Cells : data[c] = IF c \in cells THEN bytes[c] ELSE g.data[c]
    BY MergeType DEF DataFits
  <2> HIDE DEF sh, data
  <2>6. j \in ImplType /\ j.shadow = sh /\ j.pool = x.i.pool /\ j.conv = x.i.conv
    BY <2>3, <2>4 DEF ImplType
  <2> HIDE DEF j
  <2>7. WorldOK(x.w) /\ MainPool(x.w, j.pool) /\ j.pool = i.pool
    BY <2>2, <2>6 DEF Synced, PoolServes, Moves, Spares, MainPool
  <2>8. \A c \in Cells : data[c] # Undef => g.size # 0 /\ c \in Extent(g.size)
    <3>1. ASSUME NEW c \in Cells, data[c] # Undef PROVE c \in Extent(g.size)
      BY <2>5, <3>1 DEF DataFits
    <3>2. g.size = 0 => Extent(g.size) = {}
      BY DEF Extent
    <3> QED
      BY <3>1, <3>2
  <2>9. Runs(x.w, j, y) /\ (Agrees(j.shadow, data) => Holds(y.w, y.i, data))
    BY <2>1, <2>6, <2>7, <2>8, CommitHolds
  <2>10. Runs(w, i, y)
    <3>1. PoolServes(w, i.pool, x.w, i.pool) /\ PoolServes(x.w, i.pool, y.w, y.i.pool)
      BY <2>2, <2>6, <2>9 DEF Synced, Runs
    <3>2. PoolServes(w, i.pool, y.w, y.i.pool)
      BY <3>1, PoolServesThen
    <3> QED
      BY <2>2, <2>6, <2>9, <3>2 DEF Synced, Runs
  <2>11. ASSUME Holds(w, i, g.data) PROVE Agrees(j.shadow, data)
    <3>1. Agrees(x.i.shadow, g.data)
      BY <1>2, <2>2, <2>11 DEF Holds, Synced
    <3> QED
      BY <2>4, <2>5, <2>6, <3>1 DEF Agrees
  <2> QED
    BY <2>9, <2>10, <2>11 DEF data
<1> QED
  BY <1>1, <1>2

\* getClientShadowCopyData
ReadBytes(w, i, g, y) ==
    /\ Runs(w, i, y) /\ y.i.pool = i.pool /\ y.i.buf = i.buf /\ y.w.mem.made = w.mem.made
    /\ y.bytes \in Data
    /\ Holds(w, i, g.data) => Holds(y.w, y.i, g.data) /\ Agrees(y.bytes, g.data)

LEMMA ClientCopyRead ==
    ASSUME NEW w, WorldOK(w), NEW i \in ImplType, HasBuffer(i, w.mem), NEW g, DataFits(g)
    PROVE  ReadBytes(w, i, g, GetClientShadowCopyData(w, i, g))
<1> DEFINE y == GetClientShadowCopyData(w, i, g)
<1>1. CASE Single(i)
  <2> DEFINE v == Map(w, i.buf, FALSE)
  <2>1. y = [w |-> v, i |-> i, bytes |-> v.cpu[i.buf]]
    BY <1>1 DEF GetClientShadowCopyData, ReadingStorage, Reading
  <2>2. Mapped(w, i.buf, v)
    BY DEF Mapped
  <2> HIDE DEF v
  <2>3. /\ PoolServes(w, i.pool, v, i.pool) /\ v.mem.made = w.mem.made /\ v.cpu[i.buf] \in Data
        /\ HasOn(w, i.buf, g.data, Cells) =>
             /\ HasOn(v, i.buf, g.data, Cells)
             /\ \A c \in Cells : g.data[c] # Undef => v.cpu[i.buf][c] = g.data[c]
    BY <2>2, SingleMapped
  <2> HIDE DEF y
  <2>4. y.w = v /\ y.i = i /\ y.bytes = v.cpu[i.buf]
    BY <2>1
  <2>5. Runs(w, i, y)
    BY <2>3, <2>4 DEF Runs, HasBuffer
  <2>6. ASSUME Holds(w, i, g.data) PROVE Holds(v, i, g.data) /\ Agrees(v.cpu[i.buf], g.data)
    BY <1>1, <2>3, <2>6 DEF Holds, Agrees
  <2>7. ReadBytes(w, i, g, y)
    BY <2>3, <2>4, <2>5, <2>6 DEF ReadBytes
  <2> QED
    BY <2>7 DEF y
<1>2. CASE ~Single(i)
  <2> DEFINE x == EnsureShadowCopySynced(w, i, g)
  <2>1. y = [w |-> x.w, i |-> x.i, bytes |-> x.i.shadow]
    BY <1>2 DEF GetClientShadowCopyData, ReadingShadow, Reading
  <2>2. Synced(w, i, g, x)
    BY EnsureSyncs DEF DataFits
  <2> HIDE DEF x, y
  <2>3. y.w = x.w /\ y.i = x.i /\ y.bytes = x.i.shadow
    BY <2>1
  <2>4. x.i.shadow \in Data
    BY <2>2 DEF Synced, ImplType
  <2>5. Runs(w, i, y)
    BY <2>2, <2>3 DEF Runs, HasBuffer, Synced
  <2>6. ASSUME Holds(w, i, g.data) PROVE Holds(x.w, x.i, g.data) /\ Agrees(x.i.shadow, g.data)
    BY <1>2, <2>2, <2>6 DEF Holds, Synced
  <2>7. ReadBytes(w, i, g, y)
    BY <2>2, <2>3, <2>4, <2>5, <2>6 DEF ReadBytes, Synced
  <2> QED
    BY <2>7 DEF y
<1> QED
  BY <1>1, <1>2

\* The conversion is marked, or dropped.
Marked(c) == [c EXCEPT !.dirty = TRUE, !.buf = NoBuffer]

LEMMA MarkIs ==
    ASSUME NEW i \in ImplType, NEW j, j = MarkConversionBuffersDirty(i)
    PROVE  /\ j \in ImplType /\ j.pool = i.pool /\ j.buf = i.buf /\ j.shadow = i.shadow
           /\ j.shadowSize = i.shadowSize
           /\ j.conv = Marked(i.conv) /\ j.conv.dirty /\ j.conv.pool = i.conv.pool
           /\ Marked(j.conv) = j.conv
<1> DEFINE c == Marked(i.conv)
<1>1. i.conv \in [exists : BOOLEAN, dirty : BOOLEAN, buf : Storages \cup {NoBuffer}, pool : PoolType]
  BY DEF ImplType
<1>2. /\ c \in [exists : BOOLEAN, dirty : BOOLEAN, buf : Storages \cup {NoBuffer}, pool : PoolType]
      /\ c.dirty /\ c.pool = i.conv.pool /\ Marked(c) = c
  BY <1>1 DEF Marked
<1>3. j = [i EXCEPT !.conv = c]
  BY DEF MarkConversionBuffersDirty, Marked
<1> HIDE DEF c
<1>4. /\ j \in ImplType /\ j.pool = i.pool /\ j.buf = i.buf /\ j.shadow = i.shadow
      /\ j.shadowSize = i.shadowSize /\ j.conv = c
  BY <1>2, <1>3 DEF ImplType
<1> QED
  BY <1>2, <1>4 DEF c

LEMMA ClearIs ==
    ASSUME NEW i \in ImplType, NEW j, j = ClearConversionBuffers(i)
    PROVE  /\ j \in ImplType /\ j.pool = i.pool /\ j.buf = i.buf /\ j.shadow = i.shadow
           /\ j.shadowSize = i.shadowSize
           /\ j.conv = NewConversion /\ j.conv.dirty /\ j.conv.pool.size = 0
           /\ Marked(j.conv) = j.conv
<1> DEFINE c == NewConversion
           q == NewPool(FALSE, "auto")
<1>1. q \in PoolType /\ q.size = 0
  <2>1. <<>> \in Seq(Storages \cup {Nil})
    BY EmptySeq
  <2> QED
    BY <2>1 DEF NewPool, PoolType, Policies
<1>2. c = [exists |-> FALSE, dirty |-> TRUE, buf |-> NoBuffer, pool |-> q]
  BY DEF NewConversion
<1>4. j = [i EXCEPT !.conv = c]
  BY DEF ClearConversionBuffers
<1> HIDE DEF q, c
<1>6. c \in [exists : BOOLEAN, dirty : BOOLEAN, buf : Storages \cup {NoBuffer}, pool : PoolType]
  BY <1>1, <1>2
<1>7. c.dirty /\ c.buf = NoBuffer /\ c.pool = q
  BY <1>2
<1>8. Marked(c) = c
  BY <1>6, <1>7 DEF Marked
<1>3. /\ c \in [exists : BOOLEAN, dirty : BOOLEAN, buf : Storages \cup {NoBuffer}, pool : PoolType]
      /\ c.dirty /\ c.pool = q /\ Marked(c) = c
  BY <1>6, <1>7, <1>8
<1>5. /\ j \in ImplType /\ j.pool = i.pool /\ j.buf = i.buf /\ j.shadow = i.shadow
      /\ j.shadowSize = i.shadowSize /\ j.conv = c
  BY <1>3, <1>4 DEF ImplType
<1> QED
  BY <1>1, <1>3, <1>5 DEF c

\* The limit of a pool for a usage.
LimitOf(usage) == IF usage = "dynamic" THEN PoolLimit ELSE 1

\* There is room for the storages that reset() makes, and for one more.
ResetRoom(w, p) == w.mem.made + Len(p.free) + Len(p.inflight) + 1 < MaxStorages

\* The pool may be reset.
CanReset(w, p) == Sound(p, w.mem) /\ p.always = TRUE /\ p.align = 1 /\ ResetRoom(w, p)

LEMMA PoolReset ==
    ASSUME NEW w, WorldOK(w), NEW p, CanReset(w, p), NEW n \in Nat, NEW usage, NEW r, r = ResetPool(w, p, n, usage),
           NEW v, v = WithMemory(w, r.m)
    PROVE  /\ PoolServes(w, p, v, r.p) /\ WorldOK(v)
           /\ MainPool(v, r.p) /\ r.p.max = LimitOf(usage) /\ r.p \in PoolType
<1> DEFINE policy == IF usage = "dynamic" THEN "shared" ELSE "gpu"
           q == [p EXCEPT !.policy = policy]
           limit == LimitOf(usage)
<1>0. Sound(p, w.mem) /\ p.always = TRUE /\ p.align = 1 /\ ResetRoom(w, p)
  BY DEF CanReset
<1>1. /\ p \in PoolType /\ w.mem.made \in Nat /\ Len(p.free) \in Nat /\ Len(p.inflight) \in Nat
      /\ MaxStorages \in Nat
  BY <1>0, SoundParts
<1>2. r = Reset(q, w.mem, w.done, TRUE, n, 1, limit)
  BY DEF ResetPool, LimitOf
<1>3. policy \in Policies /\ limit \in Nat
  BY ConstantTypes DEF Policies, LimitOf
<1> HIDE DEF policy, limit
<1>4. Sound(q, w.mem)
  BY <1>0, <1>3, PolicySound
<1>5. /\ q.cur = p.cur /\ q.free = p.free /\ q.inflight = p.inflight /\ q.always = p.always
  BY <1>1 DEF PoolType
<1> HIDE DEF q
<1>6. Members(q) = Members(p)
  BY <1>5 DEF Members
<1>7. /\ w.mem.made + (Len(p.free) + Len(p.inflight) + 1) \in Nat
      /\ w.mem.made + (Len(p.free) + Len(p.inflight) + 1) + 1 <= MaxStorages
      /\ w.mem.made + (Len(p.free) + Len(p.inflight) + 1) <= MaxStorages
  <2> DEFINE a == Len(p.free)
             b == Len(p.inflight)
             c == w.mem.made
  <2>1. a \in Nat /\ b \in Nat /\ c \in Nat /\ c + a + b + 1 < MaxStorages /\ MaxStorages \in Nat
    BY <1>0, <1>1 DEF ResetRoom
  <2> HIDE DEF a, b, c
  <2>2. /\ c + (a + b + 1) \in Nat
        /\ c + (a + b + 1) + 1 <= MaxStorages
        /\ c + (a + b + 1) <= MaxStorages
    BY <2>1
  <2> QED
    BY <2>2 DEF a, b, c
<1>8. ResetTo(q, w.mem, r, n, limit)
  BY <1>2, <1>3, <1>4, <1>5, <1>7, ResetSupplied
<1>9. Moves(w, v, {}) /\ v.mem = r.m
  BY <1>8, MemoryMoves DEF ResetTo
<1>10. Moves(w, v, Members(p)) /\ WorldOK(v)
  <2>1. {} \subseteq Members(p)
    OBVIOUS
  <2> QED
    BY <1>9, <2>1, SparesLess DEF Moves, Spares
<1>11. PoolServes(w, p, v, r.p)
  BY <1>0, <1>5, <1>6, <1>8, <1>9, <1>10 DEF ResetTo, PoolServes
<1>12. r.m.made + 1 <= MaxStorages
  <2> DEFINE k == w.mem.made + (Len(p.free) + Len(p.inflight) + 1)
  <2>1. r.m.made <= k /\ r.m.made \in Nat
    BY <1>5, <1>8 DEF ResetTo
  <2>2. k \in Nat /\ k + 1 <= MaxStorages
    BY <1>7
  <2> HIDE DEF k
  <2> QED
    BY <1>1, <2>1, <2>2
<1>13. MainPool(v, r.p) /\ r.p.max = limit
  BY <1>0, <1>5, <1>8, <1>9, <1>12 DEF ResetTo, MainPool
<1>14. r.p \in PoolType
  BY <1>8, SoundParts DEF ResetTo
<1> QED
  BY <1>10, <1>11, <1>13, <1>14 DEF limit

\* What glBufferData of n cells defines.
DataOf(n, data) == IF data = Null THEN Blank ELSE Merge(Blank, Extent(n), data)

LEMMA DataOfType ==
    ASSUME NEW n \in Nat, NEW data \in Data \cup {Null}
    PROVE  /\ DataOf(n, data) \in Data
           /\ \A c \in Cells : /\ DataOf(n, data)[c] # Undef => data # Null /\ c \in Extent(n)
                               /\ data # Null /\ c \in Extent(n) => DataOf(n, data)[c] = data[c]
           /\ AdjustedSize(n) \in Nat /\ (n # 0 => AdjustedSize(n) = n)
           /\ \A c \in Extent(n) : AdjustedSize(n) # 0 /\ c \in Extent(AdjustedSize(n))
<1>1. CASE data = Null
  <2>1. DataOf(n, data) = Blank
    BY <1>1 DEF DataOf
  <2>2. \A c \in Cells : Blank[c] = Undef
    BY DEF Blank
  <2> QED
    BY <1>1, <2>1, <2>2, BlankType DEF AdjustedSize, Extent
<1>2. CASE data # Null
  <2>1. DataOf(n, data) = Merge(Blank, Extent(n), data) /\ data \in Data
    BY <1>2 DEF DataOf
  <2>2. \A c \in Cells : Blank[c] = Undef
    BY DEF Blank
  <2>3. /\ DataOf(n, data) \in Data
        /\ \A c \in Cells : DataOf(n, data)[c] = IF c \in Extent(n) THEN data[c] ELSE Undef
    BY <2>1, <2>2, BlankType, MergeType
  <2>4. /\ AdjustedSize(n) \in Nat /\ (n # 0 => AdjustedSize(n) = n)
        /\ \A c \in Extent(n) : AdjustedSize(n) # 0 /\ c \in Extent(AdjustedSize(n))
    BY DEF AdjustedSize, Extent
  <2> QED
    BY <1>2, <2>3, <2>4
<1> QED
  BY <1>1, <1>2

\* A dynamic buffer gets its contents by way of the shadow copy.
LEMMA ShadowFilled ==
    ASSUME NEW w, WorldOK(w), NEW i \in ImplType, MainPool(w, i.pool),
           NEW n \in Nat, NEW data \in Data \cup {Null},
           NEW y, y = CommitShadowCopy(w, ResizeShadow(i, n, data), IF data = Null THEN 0 ELSE AdjustedSize(n))
    PROVE  Runs(w, i, y) /\ Holds(y.w, y.i, DataOf(n, data))
<1> DEFINE given == IF data = Null THEN i.shadow ELSE data
           old == Merge(Blank, Extent(i.shadowSize), i.shadow)
           sh == Merge(old, Extent(n), given)
           j == ResizeShadow(i, n, data)
           k == IF data = Null THEN 0 ELSE AdjustedSize(n)
<1>1. /\ DataOf(n, data) \in Data
      /\ \A c \in Cells : /\ DataOf(n, data)[c] # Undef => data # Null /\ c \in Extent(n)
                          /\ data # Null /\ c \in Extent(n) => DataOf(n, data)[c] = data[c]
      /\ AdjustedSize(n) \in Nat
      /\ \A c \in Extent(n) : AdjustedSize(n) # 0 /\ c \in Extent(AdjustedSize(n))
  BY DataOfType
<1>2. j = [i EXCEPT !.shadowSize = AdjustedSize(n), !.shadow = sh]
  BY DEF ResizeShadow
<1>3. i.shadow \in Data /\ given \in Data
  BY DEF ImplType
<1>4. old \in Data
  BY <1>3, BlankType, MergeType
<1> HIDE DEF old, given
<1>5. sh \in Data /\ \A c \in Cells : c \in Extent(n) => sh[c] = given[c]
  BY <1>3, <1>4, MergeType
<1> HIDE DEF sh, j
<1>6. j \in ImplType /\ j.pool = i.pool /\ j.conv = i.conv /\ j.shadow = sh
  BY <1>1, <1>2, <1>5 DEF ImplType
<1>7. \A c \in Cells : DataOf(n, data)[c] # Undef => k # 0 /\ c \in Extent(k)
  BY <1>1
<1>8. Agrees(j.shadow, DataOf(n, data))
  BY <1>1, <1>5, <1>6 DEF Agrees, given
<1>9. y = CommitShadowCopy(w, j, k)
  BY DEF j
<1> HIDE DEF k
<1>10. Runs(w, j, y) /\ Holds(y.w, y.i, DataOf(n, data))
  BY <1>6, <1>7, <1>8, <1>9, CommitHolds
<1> QED
  BY <1>6, <1>10 DEF Runs

LEMMA RunsThen ==
    ASSUME NEW w, WorldOK(w), NEW i, NEW x, NEW j, NEW y, Runs(w, i, x), Runs(x.w, j, y),
           j.pool = x.i.pool, j.conv = x.i.conv
    PROVE  Runs(w, i, y)
<1>1. PoolServes(w, i.pool, x.w, x.i.pool) /\ PoolServes(x.w, x.i.pool, y.w, y.i.pool)
  BY DEF Runs
<1>2. PoolServes(w, i.pool, y.w, y.i.pool)
  BY <1>1, PoolServesThen
<1> QED
  BY <1>2 DEF Runs

\* A static one has them written to its storage.
LEMMA StorageFilled ==
    ASSUME NEW w, WorldOK(w), NEW i \in ImplType, MainPool(w, i.pool), i.pool.max = 1,
           Marked(i.conv) = i.conv,
           NEW n \in Nat, Extent(n) \subseteq Cells, NEW data \in Data \cup {Null}, NEW g,
           NEW x, x = AllocateCurrent(DropShadow(i), PoolAllocate(w, i.pool, AdjustedSize(n))),
           NEW y, y = FillSingle(x, g, n, data)
    PROVE  Runs(w, i, y) /\ Holds(y.w, y.i, DataOf(n, data))
<1> DEFINE j == DropShadow(i)
<1>1. j \in ImplType /\ j.pool = i.pool /\ j.conv = i.conv
  BY BlankType DEF DropShadow, ImplType
<1>2. AdjustedSize(n) \in Nat
  BY DataOfType
<1>3. PoolServes(w, j.pool, w, i.pool)
  BY <1>1, SparesSelf DEF PoolServes, MainPool
<1> HIDE DEF j
<1>4. x = AllocateCurrent(j, PoolAllocate(w, i.pool, AdjustedSize(n)))
  BY DEF j
<1>5. Committed(w, j, {}, x)
  <2>1. MainPool(w, i.pool) /\ i.pool.max = j.pool.max
    BY <1>1
  <2> DEFINE p == i.pool
             a == AdjustedSize(n)
  <2>2. PoolServes(w, j.pool, w, p) /\ MainPool(w, p) /\ p.max = j.pool.max /\ a \in Nat
    BY <1>2, <1>3, <2>1
  <2>3. x = AllocateCurrent(j, PoolAllocate(w, p, a))
    BY <1>4
  <2> HIDE DEF p, a
  <2> QED
    BY <1>1, <2>2, <2>3, CurrentAllocated
<1>6. /\ Runs(w, i, x) /\ Single(x.i) /\ WorldOK(x.w) /\ HasBuffer(x.i, x.w.mem)
      /\ x.i \in ImplType /\ x.i.conv = i.conv
  BY <1>1, <1>5 DEF Committed, Runs, Single, HasBuffer, PoolServes, Moves, Spares
<1>7. HasOn(x.w, x.i.buf, Blank, Cells)
  BY DEF HasOn, Blank
<1>8. CASE data = Null
  <2>1. y = x /\ DataOf(n, data) = Blank
    BY <1>8 DEF FillSingle, DataOf
  <2> QED
    BY <1>6, <1>7, <2>1 DEF Holds
<1>9. CASE data # Null
  <2> DEFINE k == MarkConversionBuffersDirty(x.i)
  <2>1. /\ k \in ImplType /\ k.pool = x.i.pool /\ k.buf = x.i.buf /\ k.conv = Marked(x.i.conv)
    BY <1>6, MarkIs
  <2>2. y = WriteData(x.w, k, g, Extent(n), data)
    BY <1>9 DEF FillSingle, SetSubDataImpl
  <2> HIDE DEF k
  <2>3. Single(k) /\ HasBuffer(k, x.w.mem) /\ k.conv = x.i.conv
    BY <1>6, <2>1 DEF Single, HasBuffer
  <2>4. y = WriteCurrent([w |-> Map(x.w, k.buf, FALSE), i |-> k], Extent(n), data)
    BY <2>2, <2>3 DEF WriteData
  <2>5. data \in Data
    BY <1>9
  <2>6. Runs(x.w, k, y) /\ Holds(y.w, y.i, Merge(Blank, Extent(n), data))
    BY <1>6, <1>7, <2>1, <2>3, <2>4, <2>5, SingleWritten
  <2>7. DataOf(n, data) = Merge(Blank, Extent(n), data)
    BY <1>9 DEF DataOf
  <2> QED
    BY <1>6, <2>1, <2>3, <2>6, <2>7, RunsThen
<1> QED
  BY <1>8, <1>9

\* glBufferData of n cells: y holds the data, the conversion is marked.
Replaced(w, i, n, usage, data, y) ==
    /\ PoolServes(w, i.pool, y.w, y.i.pool)
    /\ y.i \in ImplType /\ y.i.buf = y.i.pool.cur /\ y.i.buf # NoBuffer
    /\ y.i.pool.max = LimitOf(usage)
    /\ ConvKept(i.conv, y.i.conv) /\ y.i.conv.dirty /\ y.i.conv.pool.size \in {0, n}
    /\ Holds(y.w, y.i, DataOf(n, data))

\* The pool of the conversion has buffers for the whole GL buffer, or none.
ConvSized(i, g) == i.conv.pool.size \in {0, g.size}

LEMMA DataReplaced ==
    ASSUME NEW w, WorldOK(w), NEW i \in ImplType, PoolsFit(i, w.mem), ResetRoom(w, i.pool),
           NEW g, ConvSized(i, g),
           NEW n \in Nat, Extent(n) \subseteq Cells, NEW usage, NEW data \in Data \cup {Null},
           NEW y, y = SetDataImpl(w, i, g, n, usage, data)
    PROVE  Replaced(w, i, n, usage, data, y)
<1> DEFINE a == AdjustedSize(n)
           h == IF g.size = n THEN MarkConversionBuffersDirty(i) ELSE ClearConversionBuffers(i)
           r == ResetPool(w, i.pool, a, usage)
           v == WithMemory(w, r.m)
           j == [h EXCEPT !.pool = r.p]
<1>1. y = Fill([w |-> v, i |-> j], g, n, usage, data)
  BY DEF SetDataImpl, AfterReset, WithMemory
<1>2. /\ h \in ImplType /\ h.conv.dirty /\ ConvKept(i.conv, h.conv) /\ Marked(h.conv) = h.conv
      /\ h.conv.pool.size \in {0, n}
  <2>1. CASE g.size = n
    <3>0. i.conv.pool.size \in {0, g.size}
      BY DEF ConvSized
    <3>1. h = MarkConversionBuffersDirty(i)
      BY <2>1
    <3> HIDE DEF h
    <3>2. /\ h \in ImplType /\ h.conv.dirty /\ h.conv = Marked(i.conv) /\ Marked(h.conv) = h.conv
          /\ h.conv.pool = i.conv.pool
      BY <3>1, MarkIs
    <3>3. ConvKept(i.conv, h.conv)
      BY <3>2 DEF ConvKept, Marked
    <3> QED
      BY <2>1, <3>0, <3>2, <3>3
  <2>2. CASE g.size # n
    <3>1. h = ClearConversionBuffers(i)
      BY <2>2
    <3> HIDE DEF h
    <3>2. /\ h \in ImplType /\ h.conv.dirty /\ h.conv = NewConversion /\ Marked(h.conv) = h.conv
          /\ h.conv.pool.size = 0
      BY <3>1, ClearIs
    <3> QED
      BY <3>2 DEF ConvKept
  <2> QED
    BY <2>1, <2>2
<1>3. a \in Nat
  BY DataOfType DEF AdjustedSize
<1>4. CanReset(w, i.pool)
  BY DEF PoolsFit, CanReset
<1>5. r = ResetPool(w, i.pool, a, usage) /\ v = WithMemory(w, r.m)
  OBVIOUS
<1> HIDE DEF v
<1> HIDE DEF r
<1> HIDE DEF a
<1> HIDE DEF h
<1>6. /\ PoolServes(w, i.pool, v, r.p) /\ WorldOK(v)
      /\ MainPool(v, r.p) /\ r.p.max = LimitOf(usage) /\ r.p \in PoolType
  BY <1>3, <1>4, <1>5, PoolReset
<1>7. j \in ImplType /\ j.pool = r.p /\ j.conv = h.conv
  BY <1>2, <1>6 DEF ImplType
<1> HIDE DEF j
<1>8. Runs(v, j, y) /\ Holds(y.w, y.i, DataOf(n, data))
  <2>1. CASE usage = "dynamic"
    <3>1. y = CommitShadowCopy(v, ResizeShadow(j, n, data), IF data = Null THEN 0 ELSE AdjustedSize(n))
      BY <1>1, <2>1 DEF Fill
    <3> QED
      BY <1>6, <1>7, <3>1, ShadowFilled
  <2>2. CASE usage # "dynamic"
    <3> DEFINE x == AllocateCurrent(DropShadow(j), PoolAllocate(v, j.pool, AdjustedSize(n)))
    <3>1. y = FillSingle(x, g, n, data)
      BY <1>1, <2>2 DEF Fill
    <3>2. j.pool.max = 1
      BY <1>6, <1>7, <2>2 DEF LimitOf
    <3>3. x = AllocateCurrent(DropShadow(j), PoolAllocate(v, j.pool, AdjustedSize(n)))
      OBVIOUS
    <3> HIDE DEF x
    <3> QED
      BY <1>2, <1>6, <1>7, <3>1, <3>2, <3>3, StorageFilled
  <2> QED
    BY <2>1, <2>2
<1>9. PoolServes(w, i.pool, y.w, y.i.pool)
  <2>1. PoolServes(v, r.p, y.w, y.i.pool)
    BY <1>7, <1>8 DEF Runs
  <2> QED
    BY <1>6, <2>1, PoolServesThen
<1> QED
  BY <1>2, <1>6, <1>7, <1>8, <1>9 DEF Runs, Replaced

-----------------------------------------------------------------------------
(* The GL calls on one buffer.                                              *)

\* A call takes the buffer from i and g in the world w to j and h in v.
Keeps(w, i, g, v, j, h) ==
    /\ Serves(w, i, v, j) /\ Built(v, j, h)
    /\ Whole(w, i, g) /\ Turned(w, i, g) => Turned(v, j, h)

\* Its contents stay where they will be looked for, unless the client maps
\* the storage of a static buffer without waiting for the GPU.
Step(w, i, g, v, j, h) ==
    /\ Keeps(w, i, g, v, j, h)
    /\ Whole(w, i, g) /\ (h.access = "unsync" => ~Single(j)) => Whole(v, j, h)

\* The GL state after a call that keeps size and usage.
SameShape(g, h) ==
    /\ h \in GLType /\ h.size = g.size /\ h.usage = g.usage
    /\ \A c \in Cells : h.data[c] # Undef => c \in Extent(h.size)
    /\ h.access # "none" => h.size > 0 /\ h.range \subseteq Extent(h.size)

LEMMA RanBuilt ==
    ASSUME NEW w, WorldOK(w), NEW i, NEW g, Built(w, i, g), NEW v, NEW j,
           PoolServes(w, i.pool, v, j.pool), j \in ImplType, j.buf = j.pool.cur, j.buf # NoBuffer,
           ConvKept(i.conv, j.conv), j.pool.max = i.pool.max,
           NEW h, SameShape(g, h), Ready(v, j, h)
    PROVE  Serves(w, i, v, j) /\ Built(v, j, h)
<1>1. i \in ImplType /\ PoolsFit(i, w.mem) /\ Fits(i, g)
  BY DEF Built
<1>2. PoolsFit(j, v.mem) /\ Serves(w, i, v, j)
  BY <1>1, Assembled
<1>3. j.conv.pool.size \in {0, h.size}
  <2>1. i.conv.pool.size \in {0, h.size}
    BY <1>1 DEF Fits, SameShape
  <2>2. CASE j.conv = i.conv
    BY <2>1, <2>2
  <2>3. CASE j.conv = NewConversion
    <3> DEFINE q == NewPool(FALSE, "auto")
    <3>1. j.conv = [exists |-> FALSE, dirty |-> TRUE, buf |-> NoBuffer, pool |-> q] /\ q.size = 0
      BY <2>3 DEF NewConversion, NewPool
    <3> HIDE DEF q
    <3> QED
      BY <3>1
  <2>4. CASE j.conv = [i.conv EXCEPT !.dirty = TRUE, !.buf = NoBuffer]
    <3>1. j.conv.pool = i.conv.pool
      BY <1>1, <2>4 DEF ImplType
    <3> QED
      BY <2>1, <3>1
  <2> QED
    BY <2>2, <2>3, <2>4 DEF ConvKept
<1>4. Fits(j, h)
  BY <1>1, <1>3 DEF Fits, SameShape
<1> QED
  BY <1>2, <1>4 DEF Built, SameShape

\* A static buffer has one storage, in the pool.
LEMMA SingleIs ==
    ASSUME NEW w, WorldOK(w), NEW i, NEW g, Built(w, i, g), g.size > 0
    PROVE  /\ Single(i) <=> g.usage = "static"
           /\ HasBuffer(i, w.mem) /\ DataFits(g) /\ i \in ImplType
           /\ i.pool.always = TRUE /\ i.pool.align = 1
<1>1. i.pool.max = IF g.usage = "static" THEN 1 ELSE PoolLimit
  BY DEF Built, Fits
<1>2. Single(i) <=> g.usage = "static"
  BY <1>1, ConstantTypes DEF Single
<1>3. DataFits(g)
  BY BuiltFacts DEF Built, Fits, DataFits
<1> QED
  BY <1>2, <1>3 DEF Built, PoolsFit, Fits, HasBuffer

LEMMA WholeUnmapped ==
    ASSUME NEW w, NEW i, NEW g, g.access = "none", g.size > 0
    PROVE  Whole(w, i, g) <=> Holds(w, i, g.data)
  BY DEF Whole, UnmappedOK, Holds

\* glBufferData
LEMMA BufferDataStep ==
    ASSUME NEW w, WorldOK(w), NEW i, NEW g, Built(w, i, g), ResetRoom(w, i.pool),
           NEW n \in Cells \cup {0}, NEW usage \in {"static", "dynamic"}, NEW data \in Bytes \cup {Null},
           NEW y, y = SetDataImpl(w, i, g, n, usage, data),
           NEW h, h \in GLType, h.size = n, h.usage = usage, h.data = DataOf(n, data), h.access = "none"
    PROVE  Step(w, i, g, y.w, y.i, h) /\ y.i.conv.dirty
<1>1. i \in ImplType /\ PoolsFit(i, w.mem) /\ ConvSized(i, g)
  BY DEF Built, Fits, ConvSized
<1>2. n \in Nat /\ Extent(n) \subseteq Cells
  <2>1. CASE n = 0
    BY <2>1 DEF Extent
  <2>2. CASE n \in Cells
    BY <2>2, BufferAssumption DEF Extent
  <2> QED
    BY <2>1, <2>2
<1>3. data \in Data \cup {Null}
  BY ConstantTypes DEF Bytes, Data
<1>4. Replaced(w, i, n, usage, data, y)
  BY <1>1, <1>2, <1>3, DataReplaced
<1>5. PoolsFit(y.i, y.w.mem) /\ Serves(w, i, y.w, y.i)
  BY <1>1, <1>4, Assembled DEF Replaced
<1>6. \A c \in Cells : h.data[c] # Undef => c \in Extent(n)
  <2>1. \A c \in Cells : DataOf(n, data)[c] # Undef => c \in Extent(n)
    BY <1>2, <1>3, DataOfType
  <2> QED
    BY <2>1
<1>7. Fits(y.i, h)
  BY <1>4, <1>6 DEF Fits, Replaced, LimitOf
<1>8. Built(y.w, y.i, h)
  BY <1>4, <1>5, <1>7 DEF Built, Replaced, Ready
<1>9. Whole(y.w, y.i, h)
  BY <1>4 DEF Whole, Replaced, Holds, UnmappedOK
<1>10. Turned(y.w, y.i, h)
  BY <1>4 DEF Turned, Replaced
<1>11. y.i.conv.dirty
  BY <1>4 DEF Replaced
<1> QED
  BY <1>5, <1>8, <1>9, <1>10, <1>11 DEF Step, Keeps

\* What holds data holds less.
LEMMA HoldsLess ==
    ASSUME NEW w, NEW i, NEW d, Holds(w, i, d), NEW e, Agrees(d, e)
    PROVE  Holds(w, i, e)
<1>1. HasOn(w, i.buf, e, Cells)
  BY DEF Holds, HasOn, Agrees
<1>2. ASSUME Agrees(i.shadow, d) PROVE Agrees(i.shadow, e)
  BY <1>2 DEF Agrees
<1> QED
  BY <1>1, <1>2 DEF Holds

\* A call that writes, on a buffer whose conversion is marked.
LEMMA MarkedStep ==
    ASSUME NEW w, WorldOK(w), NEW i, NEW g, Built(w, i, g),
           NEW k, k = MarkConversionBuffersDirty(i), NEW y, Runs(w, k, y),
           NEW h, SameShape(g, h), h.access = "none"
    PROVE  /\ Keeps(w, i, g, y.w, y.i, h) /\ (Holds(y.w, y.i, h.data) => Whole(y.w, y.i, h))
           /\ y.i.conv.dirty
<1>1. i \in ImplType
  BY DEF Built
<1>2. k \in ImplType /\ k.pool = i.pool /\ k.conv = Marked(i.conv) /\ k.conv.dirty
  BY <1>1, MarkIs
<1>3. /\ PoolServes(w, i.pool, y.w, y.i.pool) /\ y.i \in ImplType /\ y.i.conv = k.conv
      /\ y.i.pool.max = i.pool.max /\ y.i.buf = y.i.pool.cur /\ y.i.buf # NoBuffer
  BY <1>2 DEF Runs
<1>4. ConvKept(i.conv, y.i.conv)
  BY <1>2, <1>3 DEF ConvKept, Marked
<1>5. Ready(y.w, y.i, h)
  BY DEF Ready
<1>6. Serves(w, i, y.w, y.i) /\ Built(y.w, y.i, h)
  BY <1>3, <1>4, <1>5, RanBuilt
<1>7. Turned(y.w, y.i, h)
  BY <1>2, <1>3 DEF Turned
<1>8. Holds(y.w, y.i, h.data) => Whole(y.w, y.i, h)
  BY DEF Whole, UnmappedOK, Holds
<1> QED
  BY <1>2, <1>3, <1>6, <1>7, <1>8 DEF Keeps

\* The GL state after bytes have been written to cells of it.
WrittenTo(g, cells, want) == [g EXCEPT !.data = Merge(@, cells, want)]

LEMMA MergeBytes ==
    ASSUME NEW a \in Bytes, NEW b \in Bytes, NEW cells
    PROVE  Merge(a, cells, b) \in Bytes
  BY DEF Merge, Bytes

LEMMA BytesData ==
    ASSUME NEW a \in Bytes
    PROVE  a \in Data
<1>1. 0..NumValues \subseteq Nat
  BY ConstantTypes
<1> QED
  BY <1>1 DEF Bytes, Data

LEMMA WrittenShape ==
    ASSUME NEW w, WorldOK(w), NEW i, NEW g, Built(w, i, g),
           NEW cells \in SUBSET Cells, cells \subseteq Extent(g.size), NEW want \in Bytes,
           NEW h, h = WrittenTo(g, cells, want)
    PROVE  /\ SameShape(g, h) /\ h.access = g.access /\ h.data = Merge(g.data, cells, want)
           /\ h \in GLType /\ h.size = g.size /\ h.usage = g.usage /\ h.range = g.range
<1>1. g \in GLType /\ g.data \in Bytes
  BY DEF Built, GLType
<1> DEFINE d == Merge(g.data, cells, want)
<1>2. d \in Bytes
  BY <1>1, MergeBytes
<1>3. \A c \in Cells : d[c] # Undef => c \in Extent(g.size)
  <2>1. \A c \in Cells : g.data[c] # Undef => c \in Extent(g.size)
    BY DEF Built, Fits
  <2>2. \A c \in Cells : d[c] = IF c \in cells THEN want[c] ELSE g.data[c]
    BY DEF Merge
  <2> HIDE DEF d
  <2> QED
    BY <2>1, <2>2
<1>4. h = [g EXCEPT !.data = d]
  BY DEF WrittenTo
<1> HIDE DEF d
<1>5. h \in GLType /\ h.size = g.size /\ h.usage = g.usage /\ h.access = g.access /\ h.data = d /\ h.range = g.range
  BY <1>1, <1>2, <1>4 DEF GLType
<1> QED
  BY <1>3, <1>5 DEF SameShape, d, Built, Fits

\* glBufferSubData; the GL defines want of the bytes.
LEMMA BufferSubDataStep ==
    ASSUME NEW w, WorldOK(w), NEW i, NEW g, Built(w, i, g), g.access = "none",
           w.mem.made + 1 <= MaxStorages,
           NEW cells \in SUBSET Cells, cells # {}, cells \subseteq Extent(g.size),
           NEW bytes \in Data, NEW want \in Bytes,
           NEW y, y = SetSubDataImpl(w, i, g, cells, bytes), NEW h, h = WrittenTo(g, cells, want)
    PROVE  /\ Keeps(w, i, g, y.w, y.i, h) /\ y.i.conv.dirty
           /\ Whole(w, i, g) /\ Agrees(bytes, want) => Whole(y.w, y.i, h)
<1> DEFINE k == MarkConversionBuffersDirty(i)
<1>0. g.size \in Nat /\ g.size > 0
  <2>1. g.size \in Nat
    BY BuiltFacts
  <2>2. Extent(g.size) # {}
    OBVIOUS
  <2> QED
    BY <2>1, <2>2 DEF Extent
<1>1. HasBuffer(i, w.mem) /\ DataFits(g) /\ i \in ImplType /\ i.pool.always = TRUE /\ i.pool.align = 1
  BY <1>0, SingleIs
<1>2. y = WriteData(w, k, g, cells, bytes) /\ k = MarkConversionBuffersDirty(i)
  BY DEF SetSubDataImpl
<1> HIDE DEF k
<1>3. k \in ImplType /\ k.pool = i.pool /\ k.buf = i.buf /\ k.shadow = i.shadow
  BY <1>1, <1>2, MarkIs
<1>4. HasBuffer(k, w.mem) /\ MainPool(w, k.pool)
  BY <1>1, <1>3 DEF HasBuffer, MainPool
<1>5. Runs(w, k, y) /\ (Holds(w, k, g.data) => Holds(y.w, y.i, Merge(g.data, cells, bytes)))
  BY <1>1, <1>2, <1>3, <1>4, DataWritten
<1>6. SameShape(g, h) /\ h.access = "none" /\ h.data = Merge(g.data, cells, want)
  BY WrittenShape
<1>7. /\ Keeps(w, i, g, y.w, y.i, h) /\ (Holds(y.w, y.i, h.data) => Whole(y.w, y.i, h))
      /\ y.i.conv.dirty
  BY <1>2, <1>5, <1>6, MarkedStep
<1>8. ASSUME Whole(w, i, g), Agrees(bytes, want) PROVE Whole(y.w, y.i, h)
  <2>1. Holds(w, k, g.data)
    <3>1. Holds(w, i, g.data)
      BY <1>0, <1>8, WholeUnmapped
    <3> QED
      BY <1>3, <3>1 DEF Holds, Single
  <2>2. Agrees(Merge(g.data, cells, bytes), Merge(g.data, cells, want))
    BY <1>8 DEF Agrees, Merge
  <2>3. Holds(y.w, y.i, h.data)
    BY <1>5, <1>6, <2>1, <2>2, HoldsLess
  <2> QED
    BY <1>7, <2>3
<1> QED
  BY <1>7, <1>8

\* The client copy is read for a copy to another buffer.
LEMMA ReadStep ==
    ASSUME NEW w, WorldOK(w), NEW i, NEW g, Built(w, i, g), g.access = "none", g.size > 0,
           NEW y, y = GetClientShadowCopyData(w, i, g)
    PROVE  /\ Step(w, i, g, y.w, y.i, g)
           /\ y.bytes \in Data /\ (Whole(w, i, g) => Agrees(y.bytes, g.data))
           /\ y.i.buf = i.buf /\ y.i.conv = i.conv /\ y.i.pool = i.pool /\ y.w.mem.made = w.mem.made
<1>1. HasBuffer(i, w.mem) /\ DataFits(g) /\ i \in ImplType
  BY SingleIs
<1>2. ReadBytes(w, i, g, y)
  BY <1>1, ClientCopyRead
<1>3. /\ PoolServes(w, i.pool, y.w, y.i.pool) /\ y.i \in ImplType /\ y.i.conv = i.conv
      /\ y.i.pool.max = i.pool.max /\ y.i.buf = y.i.pool.cur /\ y.i.buf # NoBuffer
  BY <1>2 DEF Runs, ReadBytes
<1>4. ConvKept(i.conv, y.i.conv)
  BY <1>3 DEF ConvKept
<1>5. Ready(y.w, y.i, g) /\ SameShape(g, g)
  BY DEF Ready, SameShape, Built, Fits
<1>6. Serves(w, i, y.w, y.i) /\ Built(y.w, y.i, g)
  BY <1>3, <1>4, <1>5, RanBuilt
<1>7. Turned(w, i, g) => Turned(y.w, y.i, g)
  BY <1>3, TurnedStays
<1>8. Whole(w, i, g) => Holds(w, i, g.data)
  BY WholeUnmapped
<1>9. Holds(y.w, y.i, g.data) => Whole(y.w, y.i, g)
  BY WholeUnmapped
<1> QED
  BY <1>2, <1>3, <1>6, <1>7, <1>8, <1>9 DEF Step, Keeps, ReadBytes

-----------------------------------------------------------------------------
(* The GPU is told to read and write buffers.                               *)

\* The command c has been encoded: v differs from w in what it writes.
Encoded(w, c, v) ==
    /\ Spares(w, v, {c.src, c.dst} \ {NoBuffer}) /\ v.mem.made = w.mem.made
    /\ \A s \in 1..w.mem.made :
         s # c.dst => /\ LastGPU(v, s) = LastGPU(w, s) /\ LastCPU(v, s) = LastCPU(w, s)
                      /\ v.mem.needSync[s] = w.mem.needSync[s] /\ v.dirty[s] = w.dirty[s]
    /\ c.dst # NoBuffer => /\ LastGPU(v, c.dst) = GpuAfter(Final(w), c, c.dst)
                           /\ v.mem.needSync[c.dst] /\ v.dirty[c.dst]
    /\ DrawsRight(w) /\ (c.kind = "draw" => Agrees(LastGPU(w, c.src), c.bytes)) => DrawsRight(v)

\* A command other than a synchronization, on storages that there are.
Sensible(w, c) ==
    /\ c \in Commands /\ Proper(c) /\ c.kind # "synchronize"
    /\ c.src \in (1..w.mem.made) \cup {NoBuffer} /\ c.dst \in (1..w.mem.made) \cup {NoBuffer}

LEMMA RecordEncodes ==
    ASSUME NEW w, WorldOK(w), NEW c, Sensible(w, c), NEW v, v = Record(w, c)
    PROVE  Encoded(w, c, v)
<1>1. /\ \A s \in Storages : s # NoBuffer
      /\ \A s \in 1..w.mem.made : s \in Storages /\ s # NoBuffer
  BY WorldFacts, StoragesAre
<1>2. c \in Commands /\ Proper(c) /\ \A s \in Storages : Touches(c, s) => s <= w.mem.made
  BY <1>1, WorldFacts DEF Sensible, Touches
<1>3. /\ Spares(w, v, {c.src, c.dst})
      /\ \A s \in Storages : /\ LastGPU(v, s) = GpuAfter(Final(w), c, s)
                             /\ LastCPU(v, s) = CpuAfter(Final(w), c, s)
                             /\ v.mem.needSync[s] = (s = c.dst \/ w.mem.needSync[s])
                             /\ v.dirty[s] = (s = c.dst \/ w.dirty[s])
      /\ v.mem.made = w.mem.made
      /\ DrawsRight(w) /\ (c.kind = "draw" => Agrees(LastGPU(w, c.src), c.bytes)) => DrawsRight(v)
  BY <1>2, RecordMoves
<1>4. Spares(w, v, {c.src, c.dst} \ {NoBuffer})
  <2>1. \A s \in (1..w.mem.made) \ ({c.src, c.dst} \ {NoBuffer}) : s \in (1..w.mem.made) \ {c.src, c.dst}
    BY <1>1
  <2> QED
    BY <1>3, <2>1 DEF Spares
<1>5. ASSUME NEW s \in 1..w.mem.made, s # c.dst
      PROVE  /\ LastGPU(v, s) = LastGPU(w, s) /\ LastCPU(v, s) = LastCPU(w, s)
             /\ v.mem.needSync[s] = w.mem.needSync[s] /\ v.dirty[s] = w.dirty[s]
  <2>1. s \in Storages /\ w.mem.needSync[s] \in BOOLEAN /\ w.dirty[s] \in BOOLEAN
    BY <1>1, WorldFacts
  <2>2. GpuAfter(Final(w), c, s) = LastGPU(w, s) /\ CpuAfter(Final(w), c, s) = LastCPU(w, s)
    BY <1>5 DEF GpuAfter, CpuAfter, LastGPU, LastCPU, Sensible
  <2> QED
    BY <1>3, <1>5, <2>1, <2>2
<1>6. ASSUME c.dst # NoBuffer
      PROVE  /\ LastGPU(v, c.dst) = GpuAfter(Final(w), c, c.dst)
             /\ v.mem.needSync[c.dst] /\ v.dirty[c.dst]
  <2>1. c.dst \in Storages
    BY <1>1, <1>6 DEF Sensible
  <2> QED
    BY <1>3, <2>1
<1> QED
  BY <1>3, <1>4, <1>5, <1>6 DEF Encoded

\* What a buffer holds after bytes have been written to its storage by the GPU.
LEMMA GpuWriteHolds ==
    ASSUME NEW w, NEW i, NEW v, NEW j, j.buf = i.buf, NEW data, HasOn(w, i.buf, data, Cells),
           NEW cells, NEW bytes, LastGPU(v, i.buf) = Merge(LastGPU(w, i.buf), cells, bytes),
           v.mem.needSync[i.buf], v.dirty[i.buf], NEW want, Agrees(bytes, want)
    PROVE  Holds(v, j, Merge(data, cells, want))
<1>1. HasOn(v, i.buf, Merge(data, cells, want), Cells)
  BY DEF HasOn, Merge, Agrees
<1> QED
  BY <1>1 DEF Holds

\* glReadPixels
LEMMA ReadPixelsStep ==
    ASSUME NEW w, WorldOK(w), NEW i, NEW g, Built(w, i, g), g.access = "none",
           NEW cells \in SUBSET Cells, cells # {}, cells \subseteq Extent(g.size), NEW bytes \in Bytes,
           NEW v, v = Record(w, Command("fill", NoBuffer, i.buf, cells, bytes)),
           NEW k, k = MarkConversionBuffersDirty(i), NEW h, h = WrittenTo(g, cells, bytes)
    PROVE  Step(w, i, g, v, k, h)
<1> DEFINE c == Command("fill", NoBuffer, i.buf, cells, bytes)
<1>0. g.size \in Nat /\ g.size > 0
  <2>1. g.size \in Nat
    BY BuiltFacts
  <2>2. Extent(g.size) # {}
    OBVIOUS
  <2> QED
    BY <2>1, <2>2 DEF Extent
<1>1. HasBuffer(i, w.mem) /\ i \in ImplType
  BY <1>0, SingleIs
<1>2. i.buf \in 1..w.mem.made /\ i.buf \in Storages /\ i.buf # NoBuffer
  BY <1>0, BuiltFacts
<1>3. bytes \in Data
  BY BytesData
<1>4. /\ c \in Commands /\ c.kind = "fill" /\ c.src = NoBuffer /\ c.dst = i.buf /\ c.cells = cells
      /\ c.bytes = bytes
  BY <1>2, <1>3 DEF Command, Commands, CommandKinds
<1>5. v = Record(w, c)
  OBVIOUS
<1> HIDE DEF c
<1>6. Sensible(w, c)
  BY <1>2, <1>4 DEF Sensible, Proper, Reads, Writes
<1>7. Encoded(w, c, v)
  BY <1>5, <1>6, RecordEncodes
<1>8. /\ LastGPU(v, i.buf) = Merge(LastGPU(w, i.buf), cells, bytes)
      /\ v.mem.needSync[i.buf] /\ v.dirty[i.buf]
  BY <1>2, <1>4, <1>7 DEF Encoded, GpuAfter, LastGPU
<1>9. Moves(w, v, {i.buf})
  <2>1. {c.src, c.dst} \ {NoBuffer} = {i.buf}
    BY <1>2, <1>4
  <2>2. Spares(w, v, {i.buf})
    BY <1>7, <2>1 DEF Encoded
  <2> QED
    BY <1>4, <1>7, <2>2 DEF Encoded, Moves, DrawsKept
<1>10. k \in ImplType /\ k.pool = i.pool /\ k.buf = i.buf
  BY <1>1, MarkIs
<1> DEFINE y == [w |-> v, i |-> k]
<1>11. Runs(w, k, y)
  <2>1. PoolServes(w, i.pool, v, i.pool)
    BY <1>1, <1>9, StepPool
  <2> QED
    BY <1>1, <1>10, <2>1 DEF Runs, HasBuffer
<1>12. SameShape(g, h) /\ h.access = "none" /\ h.data = Merge(g.data, cells, bytes)
  BY WrittenShape
<1>13. y.w = v /\ y.i = k
  OBVIOUS
<1> HIDE DEF y
<1>14. Keeps(w, i, g, v, k, h) /\ (Holds(v, k, h.data) => Whole(v, k, h))
  BY <1>11, <1>12, <1>13, MarkedStep
<1>15. ASSUME Whole(w, i, g) PROVE Holds(v, k, h.data)
  <2>1. HasOn(w, i.buf, g.data, Cells)
    BY <1>0, <1>15, WholeUnmapped DEF Holds
  <2>2. Agrees(bytes, bytes)
    BY DEF Agrees
  <2> QED
    BY <1>8, <1>10, <1>12, <2>1, <2>2, GpuWriteHolds
<1> QED
  BY <1>14, <1>15 DEF Step

\* A buffer that is not mapped, when its storages are read and written.
LEMMA BuiltLater ==
    ASSUME NEW w, WorldOK(w), NEW i, NEW g, Built(w, i, g), NEW v, NEW X, Spares(w, v, X),
           NEW h, SameShape(g, h), h.access = "none"
    PROVE  Built(v, i, h)
<1>1. /\ v.mem \in MemoryType /\ w.mem.made <= v.mem.made
      /\ \A s \in 1..w.mem.made : v.mem.size[s] = w.mem.size[s]
  BY WorldFacts DEF Spares
<1>2. Sound(i.pool, w.mem) /\ Sound(i.conv.pool, w.mem)
  BY DEF Built, PoolsFit
<1>3. Sound(i.pool, v.mem) /\ Sound(i.conv.pool, v.mem)
  BY <1>1, <1>2, SoundLater
<1>4. PoolsFit(i, v.mem)
  BY <1>3 DEF Built, PoolsFit
<1>5. Fits(i, h)
  BY DEF Built, Fits, SameShape
<1> QED
  BY <1>4, <1>5 DEF Built, Ready, SameShape

LEMMA SameSelf ==
    ASSUME NEW w, NEW i, NEW g, Built(w, i, g)
    PROVE  SameShape(g, g)
  BY DEF SameShape, Built, Fits

\* A command that writes to none of the storages of a buffer.
LEMMA ReadOnlyStays ==
    ASSUME NEW w, WorldOK(w), NEW i, NEW g, Built(w, i, g), g.access = "none",
           NEW c, NEW v, Encoded(w, c, v), \A s \in Own(i) : s # c.dst
    PROVE  /\ Built(v, i, g)
           /\ Whole(w, i, g) => Whole(v, i, g)
           /\ Turned(w, i, g) => Turned(v, i, g)
<1>1. SameShape(g, g)
  BY SameSelf
<1>2. Built(v, i, g)
  BY <1>1, BuiltLater DEF Encoded
<1>3. \A s \in Own(i) : s \in 1..w.mem.made
  BY BuiltFacts
<1>4. \A s \in Own(i) : /\ LastGPU(v, s) = LastGPU(w, s) /\ LastCPU(v, s) = LastCPU(w, s)
                        /\ v.mem.needSync[s] = w.mem.needSync[s] /\ v.dirty[s] = w.dirty[s]
  BY <1>3 DEF Encoded
<1>5. g.size > 0 => i.buf \in Own(i)
  BY BuiltFacts
<1>6. Whole(w, i, g) => Whole(v, i, g)
  BY <1>4, <1>5 DEF Whole, UnmappedOK, HasOn
<1>7. Turned(w, i, g) => Turned(v, i, g)
  BY <1>4, BuiltFacts DEF Turned
<1> QED
  BY <1>2, <1>6, <1>7

\* A draw reads the storage s of a buffer, which holds the bytes it must see.
LEMMA DrawEncodes ==
    ASSUME NEW w, WorldOK(w), NEW i, NEW g, Built(w, i, g), g.access = "none",
           NEW s \in Own(i), NEW bytes \in Data,
           NEW v, v = Record(w, Command("draw", s, NoBuffer, Cells, bytes))
    PROVE  /\ Spares(w, v, {s}) /\ Built(v, i, g)
           /\ Whole(w, i, g) => Whole(v, i, g)
           /\ Turned(w, i, g) => Turned(v, i, g)
           /\ DrawsRight(w) /\ Agrees(LastGPU(w, s), bytes) => DrawsRight(v)
<1> DEFINE c == Command("draw", s, NoBuffer, Cells, bytes)
<1>1. s \in 1..w.mem.made /\ s \in Storages /\ s # NoBuffer
  BY BuiltFacts, StoragesAre
<1>2. \A t \in Own(i) : t # NoBuffer
  BY BuiltFacts, StoragesAre
<1>3. /\ c \in Commands /\ c.kind = "draw" /\ c.src = s /\ c.dst = NoBuffer /\ c.bytes = bytes
  BY <1>1 DEF Command, Commands, CommandKinds
<1>4. v = Record(w, c)
  OBVIOUS
<1> HIDE DEF c
<1>5. Sensible(w, c)
  BY <1>1, <1>3 DEF Sensible, Proper, Reads, Writes
<1>6. Encoded(w, c, v)
  BY <1>4, <1>5, RecordEncodes
<1>7. \A t \in Own(i) : t # c.dst
  BY <1>2, <1>3
<1>8. {c.src, c.dst} \ {NoBuffer} = {s}
  BY <1>1, <1>3
<1>9. Spares(w, v, {s})
  BY <1>6, <1>8 DEF Encoded
<1>10. DrawsRight(w) /\ Agrees(LastGPU(w, s), bytes) => DrawsRight(v)
  BY <1>3, <1>6 DEF Encoded
<1> QED
  BY <1>6, <1>7, <1>9, <1>10, ReadOnlyStays

\* glCopyBufferSubData by the GPU, from i and g to j and h.
LEMMA BlitStep ==
    ASSUME NEW w, WorldOK(w), NEW i, NEW g, Built(w, i, g), g.access = "none",
           NEW j, NEW h, Built(w, j, h), h.access = "none",
           \A s \in Own(i) : s \notin Own(j),
           NEW cells \in SUBSET Cells, cells # {},
           cells \subseteq Extent(g.size), cells \subseteq Extent(h.size),
           NEW v, v = Record(w, Command("copy", i.buf, j.buf, cells, Blank)),
           NEW k, k = WrittenTo(h, cells, g.data)
    PROVE  /\ Moves(w, v, {i.buf, j.buf}) /\ i.buf \in Own(i) /\ j.buf \in Own(j)
           /\ Built(v, i, g) /\ (Whole(w, i, g) => Whole(v, i, g)) /\ (Turned(w, i, g) => Turned(v, i, g))
           /\ Built(v, j, k) /\ (Whole(w, i, g) /\ Whole(w, j, h) => Whole(v, j, k))
<1> DEFINE c == Command("copy", i.buf, j.buf, cells, Blank)
<1>0. g.size \in Nat /\ g.size > 0 /\ h.size \in Nat /\ h.size > 0
  <2>1. g.size \in Nat /\ h.size \in Nat
    BY BuiltFacts
  <2>2. Extent(g.size) # {} /\ Extent(h.size) # {}
    OBVIOUS
  <2> QED
    BY <2>1, <2>2 DEF Extent
<1>1. /\ i.buf \in 1..w.mem.made /\ i.buf \in Storages /\ i.buf # NoBuffer /\ i.buf \in Own(i)
      /\ j.buf \in 1..w.mem.made /\ j.buf \in Storages /\ j.buf # NoBuffer /\ j.buf \in Own(j)
      /\ g.data \in Bytes
  BY <1>0, BuiltFacts
<1>2. i.buf # j.buf /\ \A s \in Own(i) : s # j.buf
  BY <1>1
<1>3. /\ c \in Commands /\ c.kind = "copy" /\ c.src = i.buf /\ c.dst = j.buf /\ c.cells = cells
  BY <1>1, BlankType DEF Command, Commands, CommandKinds
<1>4. v = Record(w, c)
  OBVIOUS
<1> HIDE DEF c
<1>5. Sensible(w, c)
  BY <1>1, <1>2, <1>3 DEF Sensible, Proper, Reads, Writes
<1>6. Encoded(w, c, v)
  BY <1>4, <1>5, RecordEncodes
<1>7. Moves(w, v, {i.buf, j.buf})
  <2>1. {c.src, c.dst} \ {NoBuffer} = {i.buf, j.buf}
    BY <1>1, <1>3
  <2>2. Spares(w, v, {i.buf, j.buf})
    BY <1>6, <2>1 DEF Encoded
  <2> QED
    BY <1>3, <1>6, <2>2 DEF Encoded, Moves, DrawsKept
<1>8. Built(v, i, g) /\ (Whole(w, i, g) => Whole(v, i, g)) /\ (Turned(w, i, g) => Turned(v, i, g))
  BY <1>2, <1>3, <1>6, ReadOnlyStays
<1>9. SameShape(h, k) /\ k.access = "none" /\ k.data = Merge(h.data, cells, g.data) /\ k.size = h.size
  BY <1>1, WrittenShape
<1>10. Built(v, j, k)
  BY <1>7, <1>9, BuiltLater DEF Moves
<1>11. ASSUME Whole(w, i, g), Whole(w, j, h) PROVE Whole(v, j, k)
  <2>1. HasOn(w, j.buf, h.data, Cells)
    BY <1>0, <1>11, WholeUnmapped DEF Holds
  <2>2. Agrees(LastGPU(w, i.buf), g.data)
    <3>1. HasOn(w, i.buf, g.data, Cells)
      BY <1>0, <1>11, WholeUnmapped DEF Holds
    <3> QED
      BY <3>1 DEF HasOn, Agrees
  <2>3. /\ LastGPU(v, j.buf) = Merge(LastGPU(w, j.buf), cells, LastGPU(w, i.buf))
        /\ v.mem.needSync[j.buf] /\ v.dirty[j.buf]
    BY <1>1, <1>3, <1>6 DEF Encoded, GpuAfter, LastGPU
  <2>4. Holds(v, j, k.data)
    BY <1>9, <2>1, <2>2, <2>3, GpuWriteHolds
  <2> QED
    BY <1>0, <1>9, <2>4, WholeUnmapped
<1> QED
  BY <1>1, <1>7, <1>8, <1>10, <1>11

-----------------------------------------------------------------------------
(* Mapping a buffer.                                                        *)

\* The GL state when the cells are mapped.
MappedAs(g, access, cells) == [g EXCEPT !.access = access, !.range = cells]

Accesses == {"read", "write", "invalidate", "unsync"}

LEMMA MappedShape ==
    ASSUME NEW w, WorldOK(w), NEW i, NEW g, Built(w, i, g), g.size > 0,
           NEW access \in Accesses, NEW cells \in SUBSET Cells, cells \subseteq Extent(g.size),
           NEW h, h = MappedAs(g, access, cells)
    PROVE  /\ SameShape(g, h) /\ h.access = access /\ h.range = cells /\ h.data = g.data
           /\ h.size = g.size /\ h.access # "none" /\ h.usage = g.usage
<1>1. g \in GLType
  BY DEF Built
<1>2. /\ h \in GLType /\ h.access = access /\ h.range = cells /\ h.data = g.data
      /\ h.size = g.size /\ h.usage = g.usage
  BY <1>1 DEF MappedAs, GLType, Accesses
<1>3. access # "none"
  BY DEF Accesses
<1>4. \A c \in Cells : g.data[c] # Undef => c \in Extent(g.size)
  BY DEF Built, Fits
<1> QED
  BY <1>2, <1>3, <1>4 DEF SameShape

\* The storage of a static buffer is mapped without waiting, or after it.
LEMMA StorageAccessible ==
    ASSUME NEW w, WorldOK(w), NEW i, NEW g, Built(w, i, g), g.access = "none", g.size > 0, Single(i),
           NEW access \in Accesses, NEW cells \in SUBSET Cells, cells \subseteq Extent(g.size),
           access = "unsync" => w.queue = <<>>,
           NEW v, v = Map(w, i.buf, access = "unsync"), NEW h, h = MappedAs(g, access, cells)
    PROVE  Step(w, i, g, v, i, h)
<1>1. HasBuffer(i, w.mem) /\ i \in ImplType
  BY SingleIs
<1>2. i.buf \in 1..w.mem.made /\ i.buf \in Storages /\ i.buf # NoBuffer
  BY BuiltFacts
<1>3. SameShape(g, h) /\ h.access = access /\ h.range = cells /\ h.data = g.data /\ h.access # "none"
      /\ h.size = g.size
  BY MappedShape
<1>4. /\ PoolServes(w, i.pool, v, i.pool) /\ Idle(v, i.buf)
      /\ access # "unsync" /\ HasOn(w, i.buf, g.data, Cells) =>
           /\ HasOn(v, i.buf, g.data, Cells)
           /\ \A c \in Cells : g.data[c] # Undef => LastCPU(v, i.buf)[c] = g.data[c]
  <2>1. CASE access = "unsync"
    <3>1. v = w
      BY <2>1 DEF Map
    <3>2. Idle(w, i.buf)
      BY <2>1 DEF Idle
    <3>3. Moves(w, w, {i.buf})
      BY SparesSelf
    <3>4. PoolServes(w, i.pool, w, i.pool)
      BY <1>1, <3>3, StepPool
    <3> QED
      BY <2>1, <3>1, <3>2, <3>4
  <2>2. CASE access # "unsync"
    <3>1. Mapped(w, i.buf, v)
      BY <2>2 DEF Mapped, Map
    <3>2. /\ PoolServes(w, i.pool, v, i.pool) /\ WorldOK(v) /\ Idle(v, i.buf)
          /\ HasOn(w, i.buf, g.data, Cells) =>
               /\ HasOn(v, i.buf, g.data, Cells)
               /\ \A c \in Cells : g.data[c] # Undef => v.cpu[i.buf][c] = g.data[c]
      <4>1. \A d : /\ PoolServes(w, i.pool, v, i.pool) /\ WorldOK(v) /\ Idle(v, i.buf)
                   /\ HasOn(w, i.buf, d, Cells) =>
                        /\ HasOn(v, i.buf, d, Cells)
                        /\ \A c \in Cells : d[c] # Undef => v.cpu[i.buf][c] = d[c]
        BY <1>1, <3>1, SingleMapped
      <4> QED
        BY <4>1
    <3>3. LastCPU(v, i.buf) = v.cpu[i.buf]
      BY <1>2, <3>2, IdleIs
    <3> QED
      BY <3>2, <3>3
  <2> QED
    BY <2>1, <2>2
<1>5. i.buf = i.pool.cur /\ ConvKept(i.conv, i.conv) /\ Ready(v, i, h)
  BY <1>1, <1>4 DEF HasBuffer, ConvKept, Ready
<1>6. Serves(w, i, v, i) /\ Built(v, i, h)
  BY <1>1, <1>2, <1>3, <1>4, <1>5, RanBuilt
<1>7. Turned(v, i, h)
  BY <1>3 DEF Turned
<1>8. ASSUME Whole(w, i, g), access # "unsync" PROVE Whole(v, i, h)
  <2>1. HasOn(w, i.buf, g.data, Cells)
    BY <1>8, WholeUnmapped DEF Holds
  <2>2. /\ HasOn(v, i.buf, g.data, Cells)
        /\ \A c \in Cells : g.data[c] # Undef => LastCPU(v, i.buf)[c] = g.data[c]
    BY <1>4, <1>8, <2>1
  <2>3. Open(h) \subseteq Cells
    BY <1>3 DEF Open
  <2>4. MappedOK(v, i, h)
    BY <1>3, <2>2, <2>3 DEF MappedOK, HasOn
  <2> QED
    BY <1>3, <2>4 DEF Whole
<1> QED
  BY <1>3, <1>6, <1>7, <1>8 DEF Step, Keeps

\* The shadow copy of a dynamic buffer is brought up to date.
LEMMA ShadowAccessible ==
    ASSUME NEW w, WorldOK(w), NEW i, NEW g, Built(w, i, g), g.access = "none", g.size > 0, ~Single(i),
           NEW access \in Accesses, NEW cells \in SUBSET Cells, cells \subseteq Extent(g.size),
           access = "unsync" => w.queue = <<>>,
           NEW y, y = EnsureShadowCopySynced(w, i, g), NEW h, h = MappedAs(g, access, cells)
    PROVE  Step(w, i, g, y.w, y.i, h) /\ y.i.conv = i.conv
<1>1. HasBuffer(i, w.mem) /\ i \in ImplType /\ DataFits(g)
  BY SingleIs
<1>2. i.buf \in 1..w.mem.made /\ i.buf \in Storages /\ i.buf # NoBuffer
  BY BuiltFacts
<1>3. SameShape(g, h) /\ h.access = access /\ h.range = cells /\ h.data = g.data /\ h.access # "none"
      /\ h.size = g.size
  BY MappedShape
<1>4. Synced(w, i, g, y)
  BY <1>1, EnsureSyncs DEF DataFits
<1>5. /\ PoolServes(w, i.pool, y.w, y.i.pool) /\ y.i \in ImplType
      /\ y.i.pool = i.pool /\ y.i.buf = i.buf /\ y.i.conv = i.conv
  BY <1>4 DEF Synced
<1>6. y.i.buf = y.i.pool.cur /\ ConvKept(i.conv, y.i.conv) /\ y.i.pool.max = i.pool.max /\ ~Single(y.i)
  BY <1>1, <1>5 DEF HasBuffer, ConvKept, Single
<1>7. Ready(y.w, y.i, h)
  <2>1. access = "unsync" => Idle(w, i.buf)
    BY DEF Idle
  <2> QED
    BY <1>3, <1>4, <1>5, <1>6, <2>1 DEF Ready, Synced
<1>8. Serves(w, i, y.w, y.i) /\ Built(y.w, y.i, h)
  BY <1>2, <1>3, <1>5, <1>6, <1>7, RanBuilt
<1>9. Turned(y.w, y.i, h)
  BY <1>3 DEF Turned
<1>10. ASSUME Whole(w, i, g) PROVE Whole(y.w, y.i, h)
  <2>1. HasOn(w, i.buf, g.data, Cells) /\ (~w.dirty[i.buf] => Agrees(i.shadow, g.data))
    BY <1>10, WholeUnmapped DEF Holds
  <2>2. HasOn(y.w, i.buf, g.data, Cells) /\ Agrees(y.i.shadow, g.data)
    BY <1>4, <2>1 DEF Synced
  <2>3. MappedOK(y.w, y.i, h)
    BY <1>3, <1>5, <1>6, <2>2 DEF MappedOK, HasOn
  <2> QED
    BY <1>3, <2>3 DEF Whole
<1> QED
  BY <1>5, <1>8, <1>9, <1>10 DEF Step, Keeps

\* glMapBufferRange, but for the invalidation; f is the size the code has.
LEMMA AccessStep ==
    ASSUME NEW w, WorldOK(w), NEW i, NEW g, Built(w, i, g), g.access = "none", g.size > 0,
           NEW access \in Accesses, NEW cells \in SUBSET Cells, cells \subseteq Extent(g.size),
           access = "unsync" => w.queue = <<>>, NEW f, f.size = g.size,
           NEW x, x.w = w, x.i = i, x = [w |-> x.w, i |-> x.i],
           NEW y, y = MakeAccessible(x, f, access), NEW h, h = MappedAs(g, access, cells)
    PROVE  Step(w, i, g, y.w, y.i, h) /\ y.i.conv = i.conv
<1>1. CASE Single(i)
  <2> DEFINE v == Map(w, i.buf, access = "unsync")
  <2>1. y = [x EXCEPT !.w = v]
    BY <1>1 DEF MakeAccessible
  <2>2. v = Map(w, i.buf, access = "unsync")
    OBVIOUS
  <2> HIDE DEF v
  <2>3. y.w = v /\ y.i = i
    BY <2>1
  <2> QED
    BY <1>1, <2>2, <2>3, StorageAccessible
<1>2. CASE ~Single(i)
  <2>1. y = EnsureShadowCopySynced(w, i, g)
    BY <1>2 DEF MakeAccessible, EnsureShadowCopySynced, ReadBack
  <2> QED
    BY <1>2, <2>1, ShadowAccessible
<1> QED
  BY <1>1, <1>2

LEMMA StepThen ==
    ASSUME NEW w, WorldOK(w), NEW i, NEW g, NEW v, NEW j, NEW h, Step(w, i, g, v, j, h),
           NEW u, NEW k, NEW e, Step(v, j, h, u, k, e), h.access # "unsync"
    PROVE  Step(w, i, g, u, k, e)
<1>1. Serves(w, i, u, k)
  BY ServesThen DEF Step, Keeps
<1> QED
  BY <1>1 DEF Step, Keeps

\* The GL state of a buffer that is mapped with or without invalidation.
MappedFor(g, access, cells) ==
    [g EXCEPT !.access = access, !.range = cells,
              !.data = IF access = "invalidate" THEN Blank ELSE @]

\* glMapBufferRange
LEMMA MapBufferRangeStep ==
    ASSUME NEW w, WorldOK(w), NEW i, NEW g, Built(w, i, g), g.access = "none", g.size > 0,
           NEW access \in Accesses, NEW cells \in SUBSET Cells, cells \subseteq Extent(g.size),
           access = "unsync" => w.queue = <<>>, access = "invalidate" => ResetRoom(w, i.pool),
           NEW y, y = MapRangeImpl(w, i, g, access), NEW h, h = MappedFor(g, access, cells)
    PROVE  Step(w, i, g, y.w, y.i, h) /\ (i.conv.dirty => y.i.conv.dirty)
<1>0. g \in GLType /\ g.size \in Cells \cup {0} /\ g.usage \in {"static", "dynamic"}
  BY DEF Built, GLType
<1>1. CASE access # "invalidate"
  <2> DEFINE x == [w |-> w, i |-> i]
  <2>1. y = MakeAccessible(x, g, access)
    BY <1>1 DEF MapRangeImpl
  <2>2. x.w = w /\ x.i = i /\ x = [w |-> x.w, i |-> x.i]
    OBVIOUS
  <2> HIDE DEF x
  <2>3. h = MappedAs(g, access, cells)
    BY <1>0, <1>1 DEF MappedFor, MappedAs, GLType
  <2> QED
    BY <2>1, <2>2, <2>3, AccessStep
<1>2. CASE access = "invalidate"
  <2> DEFINE x == SetDataImpl(w, i, g, g.size, g.usage, Null)
             e == [g EXCEPT !.data = Blank]
  <2>1. y = MakeAccessible(x, g, access) /\ x = SetDataImpl(w, i, g, g.size, g.usage, Null)
    BY <1>2 DEF MapRangeImpl
  <2>2. /\ e \in GLType /\ e.size = g.size /\ e.usage = g.usage /\ e.data = Blank /\ e.access = g.access
        /\ h = MappedAs(e, access, cells)
    <3>1. Blank \in Bytes
      BY ConstantTypes DEF Blank, Bytes, Undef
    <3> QED
      BY <1>0, <1>2, <3>1 DEF GLType, MappedFor, MappedAs
  <2>3. e.data = DataOf(g.size, Null)
    BY <2>2 DEF DataOf
  <2> HIDE DEF e, x
  <2>4. Null \in Bytes \cup {Null}
    OBVIOUS
  <2>5. ResetRoom(w, i.pool)
    BY <1>2
  <2>6. Step(w, i, g, x.w, x.i, e) /\ x.i.conv.dirty
    BY <1>0, <2>1, <2>2, <2>3, <2>4, <2>5, BufferDataStep
  <2>7. WorldOK(x.w) /\ Built(x.w, x.i, e)
    <3>1. Serves(w, i, x.w, x.i) /\ Built(x.w, x.i, e)
      BY <2>6 DEF Step, Keeps
    <3>2. Moves(w, x.w, Own(i))
      BY <3>1 DEF Serves
    <3>3. WorldOK(x.w)
      BY <3>2 DEF Moves, Spares
    <3> QED
      BY <3>1, <3>3
  <2>8. x = [w |-> x.w, i |-> x.i]
    BY <2>1 DEF SetDataImpl, Fill, FillSingle, CommitShadowCopy, AllocateCurrent
  <2>9. Step(x.w, x.i, e, y.w, y.i, h) /\ y.i.conv = x.i.conv
    BY <1>2, <2>1, <2>2, <2>7, <2>8, AccessStep
  <2> QED
    BY <2>2, <2>6, <2>9, StepThen
<1> QED
  BY <1>1, <1>2

\* The client writes to the storage that it has mapped.
LEMMA StorageWritten ==
    ASSUME NEW w, WorldOK(w), NEW i, NEW g, Built(w, i, g), g.access # "none", g.access # "read",
           Single(i), NEW bytes \in Bytes,
           NEW v, v = CpuWrite(w, i.buf, g.range, bytes), NEW h, h = WrittenTo(g, g.range, bytes)
    PROVE  Step(w, i, g, v, i, h)
<1> DEFINE s == i.buf
           a == Merge(w.cpu[s], g.range, bytes)
           b == IF Managed(w, s) THEN w.gpu[s] ELSE a
<1>0. g.size \in Nat /\ g.size > 0 /\ g.range \in SUBSET Cells /\ g.range \subseteq Extent(g.size)
  BY BuiltFacts DEF Built, Fits
<1>1. HasBuffer(i, w.mem) /\ i \in ImplType
  BY <1>0, SingleIs
<1>2. s \in 1..w.mem.made /\ s \in Storages /\ s # NoBuffer /\ w.cpu[s] \in Data /\ w.gpu[s] \in Data
  BY <1>0, BuiltFacts, WorldFacts
<1>3. Idle(w, s)
  BY DEF Built, Ready
<1>4. LastGPU(w, s) = w.gpu[s] /\ LastCPU(w, s) = w.cpu[s]
  BY <1>2, <1>3, IdleIs
<1>5. a \in Data /\ \A c \in Cells : a[c] = IF c \in g.range THEN bytes[c] ELSE w.cpu[s][c]
  BY <1>2, BytesData, MergeType
<1>6. b \in Data /\ (w.mem.shared[s] => b = a) /\ (~w.mem.shared[s] => b = w.gpu[s])
  BY <1>2, <1>5 DEF Managed
<1>7. v = Put(w, s, a, b)
  BY DEF CpuWrite, Put
<1> HIDE DEF a, b
<1>8. /\ Moves(w, v, {s}) /\ v.mem = w.mem /\ Idle(v, s) /\ LastCPU(v, s) = a /\ LastGPU(v, s) = b
  <2>1. w.mem.shared[s] => a = b
    BY <1>6
  <2>2. s \in 1..w.mem.made /\ a \in Data /\ b \in Data
    BY <1>2, <1>5, <1>6
  <2> HIDE DEF s
  <2> QED
    BY <1>3, <1>7, <2>1, <2>2, ContentsMove
<1>9. PoolServes(w, i.pool, v, i.pool)
  BY <1>1, <1>8, StepPool
<1>10. /\ SameShape(g, h) /\ h.access = g.access /\ h.data = Merge(g.data, g.range, bytes)
       /\ h.size = g.size /\ h.range = g.range
  BY <1>0, WrittenShape
<1>11. i.buf = i.pool.cur /\ ConvKept(i.conv, i.conv) /\ Ready(v, i, h)
  BY <1>1, <1>8 DEF HasBuffer, ConvKept, Ready
<1>12. Serves(w, i, v, i) /\ Built(v, i, h)
  BY <1>1, <1>2, <1>9, <1>10, <1>11, RanBuilt
<1>13. Turned(v, i, h)
  BY <1>10 DEF Turned
<1>14. ASSUME Whole(w, i, g) PROVE Whole(v, i, h)
  <2>1. Open(g) = g.range /\ Open(h) = g.range
    BY <1>10 DEF Open
  <2>2. HasOn(w, s, g.data, Cells \ g.range)
    BY <1>0, <1>14, <2>1 DEF Whole, MappedOK
  <2>3. w.mem.shared[s] => w.cpu[s] = w.gpu[s]
    BY <1>2, <1>4, LastCoherent
  <2>4. \A c \in Cells : h.data[c] = IF c \in g.range THEN bytes[c] ELSE g.data[c]
    BY <1>10 DEF Merge
  <2>5. ASSUME NEW c \in Cells \ g.range, h.data[c] # Undef
        PROVE  LastGPU(v, s)[c] = h.data[c] /\ (~v.mem.needSync[s] => LastCPU(v, s)[c] = h.data[c])
    <3>1. w.gpu[s][c] = g.data[c] /\ (~w.mem.needSync[s] => w.cpu[s][c] = g.data[c]) /\ h.data[c] = g.data[c]
      BY <1>4, <2>2, <2>4, <2>5 DEF HasOn
    <3>2. a[c] = w.cpu[s][c] /\ b[c] = w.gpu[s][c]
      BY <1>5, <1>6, <2>3
    <3> QED
      BY <1>8, <3>1, <3>2
  <2>6. HasOn(v, s, h.data, Cells \ Open(h))
    BY <2>1, <2>5 DEF HasOn
  <2>7. \A c \in Open(h) : LastCPU(v, s)[c] = h.data[c]
    BY <1>0, <1>5, <1>8, <2>1, <2>4
  <2>8. MappedOK(v, i, h)
    BY <2>6, <2>7 DEF MappedOK
  <2> QED
    BY <1>10, <2>8 DEF Whole
<1> QED
  BY <1>12, <1>13, <1>14 DEF Step, Keeps

\* The client writes to the shadow copy that it has mapped.
LEMMA ShadowWritten ==
    ASSUME NEW w, WorldOK(w), NEW i, NEW g, Built(w, i, g), g.access # "none", g.access # "read",
           ~Single(i), NEW bytes \in Bytes,
           NEW j, j = [i EXCEPT !.shadow = Merge(@, g.range, bytes)], NEW h, h = WrittenTo(g, g.range, bytes)
    PROVE  Step(w, i, g, w, j, h)
<1> DEFINE a == Merge(i.shadow, g.range, bytes)
<1>0. /\ g.size \in Nat /\ g.size > 0 /\ g.range \in SUBSET Cells /\ g.range \subseteq Extent(g.size)
      /\ i.shadow \in Data /\ i \in ImplType
  BY BuiltFacts DEF Built, Fits
<1>1. HasBuffer(i, w.mem) /\ i.buf # NoBuffer /\ i.buf = i.pool.cur
  BY <1>0, SingleIs DEF HasBuffer
<1>2. a \in Data /\ j = [i EXCEPT !.shadow = a]
  BY <1>0, BytesData, MergeType
<1> HIDE DEF a
<1>3. j \in ImplType /\ j.pool = i.pool /\ j.buf = i.buf /\ j.conv = i.conv /\ j.shadow = a
  BY <1>0, <1>2 DEF ImplType
<1>4. PoolServes(w, i.pool, w, j.pool)
  <2>1. Moves(w, w, {i.buf})
    BY SparesSelf
  <2> QED
    BY <1>0, <1>1, <1>3, <2>1, StepPool
<1>5. /\ SameShape(g, h) /\ h.access = g.access /\ h.data = Merge(g.data, g.range, bytes)
      /\ h.size = g.size /\ h.range = g.range
  BY <1>0, WrittenShape
<1>6. ConvKept(i.conv, j.conv) /\ (Single(j) <=> Single(i))
  BY <1>3 DEF ConvKept, Single
<1>7. Ready(w, j, h)
  BY <1>3, <1>5, <1>6 DEF Built, Ready
<1>8. Serves(w, i, w, j) /\ Built(w, j, h)
  BY <1>1, <1>3, <1>4, <1>5, <1>6, <1>7, RanBuilt
<1>9. Turned(w, j, h)
  BY <1>5 DEF Turned
<1>10. ASSUME Whole(w, i, g) PROVE Whole(w, j, h)
  <2>1. Agrees(i.shadow, g.data) /\ (g.access = "unsync" => HasOn(w, i.buf, g.data, Cells \ g.range))
    BY <1>0, <1>10 DEF Whole, MappedOK, Open
  <2>2. Agrees(a, h.data)
    BY <1>5, <2>1 DEF a, Agrees, Merge
  <2>3. h.access = "unsync" => HasOn(w, i.buf, h.data, Cells \ g.range)
    BY <1>5, <2>1 DEF HasOn, Merge
  <2>4. MappedOK(w, j, h)
    BY <1>3, <1>5, <1>6, <2>2, <2>3 DEF MappedOK, Open
  <2> QED
    BY <1>5, <2>4 DEF Whole
<1> QED
  BY <1>8, <1>9, <1>10 DEF Step, Keeps

\* The cells that the client wrote to a storage are sent to the GPU.
LEMMA ModifiedMoves ==
    ASSUME NEW w, WorldOK(w), NEW s \in 1..w.mem.made, Idle(w, s), NEW cells \in SUBSET Cells,
           NEW v, v = DidModifyRange(w, s, cells)
    PROVE  /\ Moves(w, v, {s}) /\ v.mem = w.mem /\ v.dirty = w.dirty
           /\ LastCPU(v, s) = LastCPU(w, s)
           /\ \A c \in Cells : LastGPU(v, s)[c] = IF c \in cells THEN LastCPU(w, s)[c] ELSE LastGPU(w, s)[c]
<1> DEFINE a == w.cpu[s]
           b == Merge(w.gpu[s], cells, a)
<1>1. w \in WorldType /\ s \in Storages /\ w.cpu[s] \in Data /\ w.gpu[s] \in Data
  BY WorldFacts
<1>2. LastGPU(w, s) = w.gpu[s] /\ LastCPU(w, s) = w.cpu[s]
  BY <1>1, IdleIs
<1>3. b \in Data /\ \A c \in Cells : b[c] = IF c \in cells THEN a[c] ELSE w.gpu[s][c]
  BY <1>1, MergeType
<1>4. w.mem.shared[s] => w.cpu[s] = w.gpu[s]
  BY <1>1, <1>2, LastCoherent
<1>5. v = Put(w, s, a, b)
  <2>1. v = [w EXCEPT !.gpu[s] = b]
    BY DEF DidModifyRange
  <2>2. [w EXCEPT !.cpu[s] = w.cpu[s], !.gpu[s] = b] = [w EXCEPT !.gpu[s] = b]
    <3> HIDE DEF b
    <3>1. [w.cpu EXCEPT ![s] = w.cpu[s]] = w.cpu
      BY <1>1 DEF WorldType
    <3> QED
      BY <1>1, <3>1 DEF WorldType
  <2> QED
    BY <2>1, <2>2 DEF Put
<1>6. a \in Data
  BY <1>1
<1> HIDE DEF b
<1>7. w.mem.shared[s] => a = b
  <2> SUFFICES ASSUME w.mem.shared[s] PROVE a = b
    OBVIOUS
  <2>1. \A c \in Cells : b[c] = a[c]
    BY <1>3, <1>4
  <2> QED
    BY <1>1, <1>3, <2>1 DEF Data
<1>8. a = w.cpu[s]
  OBVIOUS
<1> HIDE DEF a
<1>9. /\ Moves(w, v, {s}) /\ v.mem = w.mem /\ v.dirty = w.dirty /\ LastCPU(v, s) = a /\ LastGPU(v, s) = b
  BY <1>3, <1>5, <1>6, <1>7, ContentsMove
<1> QED
  BY <1>2, <1>3, <1>8, <1>9

\* What unmap does to a buffer whose conversion is marked.
Unmapped(w, i, g, y) ==
    Runs(w, i, y) /\ (MappedOK(w, i, g) => Holds(y.w, y.i, g.data))

\* The storage was mapped: nothing happens, or the GPU gets the cells.
LEMMA StorageUnmapped ==
    ASSUME NEW w, WorldOK(w), NEW i \in ImplType, HasBuffer(i, w.mem), Single(i),
           NEW g, g.access # "read" => Idle(w, i.buf), g.range \in SUBSET Cells,
           NEW v, v = IF g.access = "read" THEN w ELSE DidModifyRange(w, i.buf, g.range),
           NEW y, y.w = v, y.i = i
    PROVE  Unmapped(w, i, g, y)
<1>1. i.buf \in 1..w.mem.made
  BY MembersMade DEF HasBuffer
<1>2. CASE g.access = "read"
  <2>1. v = w
    BY <1>2
  <2>2. PoolServes(w, i.pool, v, i.pool)
    BY <2>1, SparesSelf, StepPool
  <2>3. MappedOK(w, i, g) => HasOn(w, i.buf, g.data, Cells)
    BY <1>2 DEF MappedOK, Open
  <2> QED
    BY <2>1, <2>2, <2>3 DEF Unmapped, Runs, Holds, HasBuffer
<1>3. CASE g.access # "read"
  <2>1. v = DidModifyRange(w, i.buf, g.range) /\ Open(g) = g.range
    BY <1>3 DEF Open
  <2>2. /\ Moves(w, v, {i.buf}) /\ v.mem = w.mem /\ v.dirty = w.dirty
        /\ LastCPU(v, i.buf) = LastCPU(w, i.buf)
        /\ \A c \in Cells : LastGPU(v, i.buf)[c] =
             IF c \in g.range THEN LastCPU(w, i.buf)[c] ELSE LastGPU(w, i.buf)[c]
    <3> DEFINE s == i.buf
               C == g.range
    <3>1. s \in 1..w.mem.made /\ Idle(w, s) /\ C \in SUBSET Cells /\ v = DidModifyRange(w, s, C)
      BY <1>1, <1>3, <2>1
    <3> HIDE DEF s, C
    <3>2. /\ Moves(w, v, {s}) /\ v.mem = w.mem /\ v.dirty = w.dirty
          /\ LastCPU(v, s) = LastCPU(w, s)
          /\ \A c \in Cells : LastGPU(v, s)[c] = IF c \in C THEN LastCPU(w, s)[c] ELSE LastGPU(w, s)[c]
      BY <3>1, ModifiedMoves
    <3> QED
      BY <3>2 DEF s, C
  <2>3. PoolServes(w, i.pool, v, i.pool)
    BY <2>2, StepPool
  <2>4. MappedOK(w, i, g) => HasOn(v, i.buf, g.data, Cells)
    BY <2>1, <2>2 DEF MappedOK, HasOn
  <2> QED
    BY <2>3, <2>4 DEF Unmapped, Runs, Holds, HasBuffer
<1> QED
  BY <1>2, <1>3

\* The shadow copy was mapped without synchronization.
LEMMA ShadowCopiedBack ==
    ASSUME NEW w, WorldOK(w), NEW i \in ImplType, HasBuffer(i, w.mem), ~Single(i),
           NEW g, g.access = "unsync", Idle(w, i.buf), g.range \in SUBSET Cells,
           NEW v, v = Written(w, i.buf, g.range, i.shadow), NEW y, y.w = v, y.i = i
    PROVE  Unmapped(w, i, g, y)
<1>1. i.buf \in 1..w.mem.made /\ i.shadow \in Data
  BY MembersMade DEF HasBuffer, ImplType
<1>2. Wrote(w, v, i.buf, g.range, i.shadow)
  BY <1>1, WriteMoves
<1>3. PoolServes(w, i.pool, v, i.pool)
  <2>1. Moves(w, v, {i.buf})
    BY <1>2 DEF Wrote
  <2> QED
    BY <2>1, StepPool
<1>4. ASSUME MappedOK(w, i, g) PROVE Holds(v, i, g.data)
  <2>1. Agrees(i.shadow, g.data) /\ HasOn(w, i.buf, g.data, Cells \ g.range)
    BY <1>4 DEF MappedOK, Open
  <2> DEFINE C == Cells \ g.range
             d == Merge(g.data, g.range, i.shadow)
  <2>2. C \in SUBSET Cells /\ HasOn(w, i.buf, g.data, C) /\ C \cup g.range = Cells
    BY <2>1
  <2> HIDE DEF C
  <2>3. HasOn(v, i.buf, Merge(g.data, g.range, i.shadow), C \cup g.range)
    BY <1>1, <1>2, <2>2, WriteHas
  <2>4. HasOn(v, i.buf, d, Cells)
    BY <2>2, <2>3
  <2>5. \A c \in Cells : g.data[c] # Undef => d[c] = g.data[c]
    BY <2>1 DEF Merge, Agrees
  <2> HIDE DEF d
  <2>6. HasOn(v, i.buf, g.data, Cells)
    BY <2>4, <2>5 DEF HasOn
  <2> QED
    BY <2>1, <2>6 DEF Holds
<1> QED
  BY <1>3, <1>4 DEF Unmapped, Runs, HasBuffer

\* What unmap does.
LEMMA UnmapRuns ==
    ASSUME NEW w, WorldOK(w), NEW i \in ImplType, HasBuffer(i, w.mem), MainPool(w, i.pool),
           NEW g, DataFits(g), g.size > 0, g.size \in Nat, g.range \in SUBSET Cells,
           Single(i) \/ g.access = "unsync" => Idle(w, i.buf),
           NEW y, y = UnmapImpl([w |-> w, i |-> i], g)
    PROVE  Unmapped(w, i, g, y)
<1>1. CASE Single(i)
  <2> DEFINE v == IF g.access = "read" THEN w ELSE DidModifyRange(w, i.buf, g.range)
  <2>1. y.w = v /\ y.i = i
    BY <1>1 DEF UnmapImpl
  <2>2. v = IF g.access = "read" THEN w ELSE DidModifyRange(w, i.buf, g.range)
    OBVIOUS
  <2> HIDE DEF v
  <2> QED
    BY <1>1, <2>1, <2>2, StorageUnmapped
<1>2. CASE ~Single(i) /\ g.access = "unsync"
  <2> DEFINE v == Written(w, i.buf, g.range, i.shadow)
  <2>1. y.w = v /\ y.i = i
    BY <1>2 DEF UnmapImpl, WriteCurrent, Written
  <2>2. v = Written(w, i.buf, g.range, i.shadow)
    OBVIOUS
  <2> HIDE DEF v
  <2> QED
    BY <1>2, <2>1, <2>2, ShadowCopiedBack
<1>3. CASE ~Single(i) /\ g.access # "unsync"
  <2>1. y = CommitShadowCopy(w, i, g.size)
    BY <1>3 DEF UnmapImpl
  <2>2. \A c \in Cells : g.data[c] # Undef => g.size # 0 /\ c \in Extent(g.size)
    BY DEF DataFits
  <2>3. Runs(w, i, y) /\ (Agrees(i.shadow, g.data) => Holds(y.w, y.i, g.data))
    BY <2>1, <2>2, CommitHolds
  <2>4. MappedOK(w, i, g) => Agrees(i.shadow, g.data)
    BY <1>3 DEF MappedOK
  <2> QED
    BY <2>3, <2>4 DEF Unmapped
<1> QED
  BY <1>1, <1>2, <1>3

\* glUnmapBuffer
LEMMA UnmapBufferStep ==
    ASSUME NEW w, WorldOK(w), NEW i, NEW g, Built(w, i, g), g.access # "none",
           w.mem.made + 1 <= MaxStorages,
           NEW y, y = UnmapImpl([w |-> w, i |-> MarkConversionBuffersDirty(i)], g),
           NEW h, h = [g EXCEPT !.access = "none", !.range = {}]
    PROVE  Step(w, i, g, y.w, y.i, h) /\ y.i.conv.dirty
<1> DEFINE k == MarkConversionBuffersDirty(i)
<1>0. g.size \in Nat /\ g.size > 0 /\ g.range \in SUBSET Cells /\ g \in GLType
  BY BuiltFacts DEF Built, Fits
<1>1. HasBuffer(i, w.mem) /\ DataFits(g) /\ i \in ImplType /\ i.pool.always = TRUE /\ i.pool.align = 1
  BY <1>0, SingleIs
<1>2. y = UnmapImpl([w |-> w, i |-> k], g) /\ k = MarkConversionBuffersDirty(i)
  OBVIOUS
<1> HIDE DEF k
<1>3. k \in ImplType /\ k.pool = i.pool /\ k.buf = i.buf /\ k.shadow = i.shadow
  BY <1>1, <1>2, MarkIs
<1>4. HasBuffer(k, w.mem) /\ MainPool(w, k.pool) /\ (Single(k) <=> Single(i))
  BY <1>1, <1>3 DEF HasBuffer, MainPool, Single
<1>5. Single(k) \/ g.access = "unsync" => Idle(w, k.buf)
  BY <1>3, <1>4 DEF Built, Ready
<1>6. Unmapped(w, k, g, y)
  BY <1>0, <1>1, <1>2, <1>3, <1>4, <1>5, UnmapRuns
<1>7. /\ h \in GLType /\ h.size = g.size /\ h.usage = g.usage /\ h.data = g.data /\ h.access = "none"
  BY <1>0 DEF GLType
<1>8. SameShape(g, h)
  BY <1>7 DEF SameShape, Built, Fits
<1>9. /\ Keeps(w, i, g, y.w, y.i, h) /\ (Holds(y.w, y.i, h.data) => Whole(y.w, y.i, h))
      /\ y.i.conv.dirty
  BY <1>2, <1>6, <1>7, <1>8, MarkedStep DEF Unmapped
<1>10. Whole(w, i, g) => MappedOK(w, k, g)
  BY <1>0, <1>3, <1>4 DEF Whole, MappedOK
<1> QED
  BY <1>6, <1>7, <1>9, <1>10 DEF Step, Unmapped

-----------------------------------------------------------------------------
(* Conversions.                                                             *)

\* The pool of the conversion has given r, in whose current buffer the
\* conversion is to go.
Converting(w, i, g, r) ==
    /\ Moves(w, r.w, {}) /\ PoolServes(w, i.conv.pool, r.w, r.pool) /\ WorldOK(r.w)
    /\ r.pool \in PoolType /\ r.pool.align = 1 /\ r.pool.initial = 0 /\ r.pool.size = g.size
    /\ r.pool.cur \in 1..r.w.mem.made /\ r.pool.cur \in Storages /\ r.pool.cur # NoBuffer
    /\ r.pool.cur \in Members(r.pool) /\ Idle(r.w, r.pool.cur)

LEMMA ConversionAllocated ==
    ASSUME NEW w, WorldOK(w), NEW i, NEW g, Built(w, i, g), g.size > 0, w.mem.made + 1 <= MaxStorages,
           NEW r, r = PoolAllocate(w, ReleaseInFlightBuffers(i.conv.pool, w.mem), g.size)
    PROVE  Converting(w, i, g, r)
<1> DEFINE p == i.conv.pool
           q == ReleaseInFlightBuffers(p, w.mem)
           n == g.size
<1>1. Sound(p, w.mem) /\ p.align = 1 /\ p.initial = 0 /\ p.size \in {0, n}
  BY DEF Built, PoolsFit, Fits
<1>2. n \in Nat /\ n > 0
  BY BuiltFacts
<1>3. q = ReleaseInFlightBuffers(p, w.mem) /\ r = PoolAllocate(w, q, n)
  OBVIOUS
<1> HIDE DEF p, q, n
<1>4. /\ PoolServes(w, p, w, q) /\ Sound(q, w.mem) /\ q.max = p.max /\ q.size = p.size
      /\ q.initial = p.initial /\ q.next = p.next
  BY <1>1, <1>3, ReleaseServes
<1>5. q.align = 1 /\ q.initial = 0 /\ q.size \in {0, n}
  BY <1>1, <1>4 DEF PoolServes
<1>6. q.next \in Nat /\ q.size \in Nat
  BY <1>4 DEF Sound, PoolType
<1>7. ~(q.next + n < q.size)
  BY <1>2, <1>5, <1>6
<1>8. ~Appends(q, w.mem, n)
  BY <1>7 DEF Appends
<1>9. Provided(w, q, n, r)
  BY <1>2, <1>3, <1>4, <1>5, <1>8, AllocateProvides
<1>10. /\ PoolServes(w, q, r.w, r.pool) /\ WorldOK(r.w)
       /\ r.pool.cur # NoBuffer /\ r.pool.cur \in Members(r.pool) /\ r.pool.cur \in Storages
       /\ r.pool \in PoolType
  BY <1>9, ProvidedServes
<1>11. PoolServes(w, p, r.w, r.pool)
  BY <1>4, <1>10, PoolServesThen
<1>12. GrownSize(q, n) = n
  BY <1>2, <1>5 DEF GrownSize
<1>13. /\ r.pool.size = n /\ r.pool.initial = 0 /\ Moves(w, r.w, {}) /\ r.pool.cur \in 1..r.w.mem.made
       /\ Idle(r.w, r.pool.cur)
  BY <1>5, <1>9, <1>12 DEF Provided, Within
<1>14. r.pool.align = 1
  BY <1>5, <1>10 DEF PoolServes
<1> QED
  BY <1>10, <1>11, <1>13, <1>14 DEF Converting, p, n

\* Then it is written there, and the storage of the buffer is left as it is.
Filled(i, r, v) ==
    LET s == i.buf IN
    /\ Moves(r.w, v, {s, r.pool.cur})
    /\ LastGPU(v, s) = LastGPU(r.w, s) /\ LastCPU(v, s) = LastCPU(r.w, s)
    /\ v.mem.needSync[s] = r.w.mem.needSync[s] /\ v.dirty[s] = r.w.dirty[s]

LEMMA ConversionSet ==
    ASSUME NEW w, WorldOK(w), NEW i, NEW g, Built(w, i, g), g.access = "none", g.size > 0,
           NEW r, Converting(w, i, g, r), NEW v, Filled(i, r, v), NEW j, j = SetConversion(i, r)
    PROVE  /\ Serves(w, i, v, j) /\ Built(v, j, g) /\ (Whole(w, i, g) => Whole(v, j, g))
           /\ ~j.conv.dirty /\ j.conv.buf = r.pool.cur /\ j.conv.buf \in Own(j)
<1>1. /\ i \in ImplType /\ i.buf \in 1..w.mem.made /\ i.buf \in Own(i) /\ i.buf \in Members(i.pool)
      /\ i.buf \in Storages
  <2>1. Sound(i.pool, w.mem) /\ i.buf = i.pool.cur
    BY DEF Built, PoolsFit
  <2> QED
    BY <2>1, BuiltFacts, MembersMade
<1>2. /\ j \in ImplType /\ j.buf = i.buf /\ j.pool = i.pool /\ j.shadow = i.shadow
      /\ j.conv = [exists |-> TRUE, dirty |-> FALSE, buf |-> r.pool.cur, pool |-> r.pool]
  BY <1>1 DEF SetConversion, ImplType, Converting
<1>3. /\ ~j.conv.dirty /\ j.conv.exists /\ j.conv.buf = r.pool.cur /\ j.conv.pool = r.pool
  BY <1>2
<1>4. /\ Moves(w, r.w, Own(i)) /\ w.mem.made \in Nat /\ r.w.mem.made \in Nat /\ w.mem.made <= r.w.mem.made
      /\ Moves(r.w, v, {i.buf, r.pool.cur}) /\ WorldOK(v) /\ v.mem \in MemoryType
      /\ r.w.mem.made <= v.mem.made
      /\ \A s \in 1..r.w.mem.made : v.mem.size[s] = r.w.mem.size[s]
      /\ \A s \in 1..w.mem.made : r.w.mem.size[s] = w.mem.size[s]
  <2>1. Moves(w, r.w, Own(i))
    BY SparesLess DEF Converting
  <2>2. Moves(r.w, v, {i.buf, r.pool.cur})
    BY DEF Filled
  <2>3. Spares(w, r.w, Own(i)) /\ Spares(r.w, v, {i.buf, r.pool.cur}) /\ WorldOK(v) /\ WorldOK(r.w)
    BY <2>1, <2>2 DEF Moves, Spares
  <2> QED
    BY <2>1, <2>2, <2>3, WorldFacts DEF Spares
<1>5. \A s \in Members(r.pool) : s \in Members(i.conv.pool) \/ s \in Fresh(w.mem, r.w.mem)
  BY DEF Converting, PoolServes
<1>6. \A s \in Fresh(w.mem, r.w.mem) : s \notin 1..w.mem.made /\ s \in Fresh(w.mem, v.mem)
  BY <1>4, FreshFacts DEF Moves
<1>7. Moves(w, v, Own(i))
  <2>1. \A s \in {i.buf, r.pool.cur} : s \in Own(i) \/ s \notin 1..w.mem.made
    BY <1>1, <1>5, <1>6 DEF Own, Converting
  <2> DEFINE Y == {i.buf, r.pool.cur}
             X == Own(i)
  <2>2. Spares(w, r.w, X) /\ Spares(r.w, v, Y) /\ DrawsKept(w, r.w) /\ DrawsKept(r.w, v)
    BY <1>4 DEF Moves
  <2>3. \A s \in Y : s \in X \/ s \notin 1..w.mem.made
    BY <2>1
  <2> HIDE DEF X, Y
  <2>4. Spares(w, v, X) /\ DrawsKept(w, v)
    BY <2>2, <2>3, SparesThen
  <2> QED
    BY <2>4 DEF Moves, X
<1>8. Serves(w, i, v, j)
  BY <1>2, <1>3, <1>5, <1>6, <1>7 DEF Serves, Own
<1>9. Sound(i.pool, v.mem) /\ Sound(r.pool, v.mem)
  <2>1. Sound(i.pool, w.mem) /\ Sound(r.pool, r.w.mem)
    BY DEF Built, PoolsFit, Converting, PoolServes
  <2>2. Sound(r.pool, v.mem)
    BY <1>4, <2>1, SoundLater
  <2>3. r.w.mem \in MemoryType
    BY <2>1 DEF Sound
  <2>4. Sound(i.pool, r.w.mem)
    BY <1>4, <2>1, <2>3, SoundLater
  <2>5. Sound(i.pool, v.mem)
    BY <1>4, <2>4, SoundLater
  <2> QED
    BY <2>2, <2>5
<1>10. \A s \in Members(i.pool) : s \notin Members(r.pool)
  <2>1. \A s \in Members(i.pool) : s \in 1..w.mem.made /\ s \notin Members(i.conv.pool)
    BY MembersMade DEF Built, PoolsFit
  <2> QED
    BY <1>5, <1>6, <2>1
<1>11. PoolsFit(j, v.mem)
  BY <1>2, <1>3, <1>9, <1>10 DEF PoolsFit, Built, Converting
<1>12. Fits(j, g)
  <2>1. j.conv.pool.size \in {0, g.size}
    BY <1>3 DEF Converting
  <2> QED
    BY <1>2, <2>1 DEF Fits, Built
<1>13. Built(v, j, g)
  BY <1>2, <1>11, <1>12 DEF Built, Ready
<1>14. ASSUME Whole(w, i, g) PROVE Whole(v, j, g)
  <2>1. /\ LastGPU(r.w, i.buf) = LastGPU(w, i.buf) /\ LastCPU(r.w, i.buf) = LastCPU(w, i.buf)
        /\ r.w.mem.needSync[i.buf] = w.mem.needSync[i.buf] /\ r.w.dirty[i.buf] = w.dirty[i.buf]
    BY <1>1 DEF Converting, Moves, Spares
  <2>2. Holds(w, i, g.data)
    BY <1>14, WholeUnmapped
  <2>3. Holds(v, j, g.data)
    BY <1>2, <2>1, <2>2 DEF Filled, Holds, HasOn, Single
  <2> QED
    BY <2>3, WholeUnmapped
<1>15. j.conv.buf \in Own(j)
  BY <1>3 DEF Own, Converting
<1> QED
  BY <1>3, <1>8, <1>13, <1>14, <1>15

\* The conversion of what is defined of data.
LEMMA ConvertedAgrees ==
    ASSUME NEW bytes \in Data, NEW data \in Data, Agrees(bytes, data)
    PROVE  Agrees(Converted(bytes), ConvertedData(data))
  BY ConvertedType DEF Agrees, ConvertedData

\* convertVertexBufferGPU
LEMMA ComputeStep ==
    ASSUME NEW w, WorldOK(w), NEW i, NEW g, Built(w, i, g), g.access = "none", g.size > 0,
           NEW r, Converting(w, i, g, r),
           NEW v, v = Record(r.w, Command("convert", i.buf, r.pool.cur, Cells, Blank)),
           NEW j, j = SetConversion(i, r)
    PROVE  Step(w, i, g, v, j, g) /\ ~j.conv.dirty
<1> DEFINE c == Command("convert", i.buf, r.pool.cur, Cells, Blank)
           s == r.pool.cur
<1>1. /\ i.buf \in 1..w.mem.made /\ i.buf \in Own(i) /\ i.buf \in Members(i.pool)
      /\ i.buf \in Storages /\ i.buf # NoBuffer /\ g.data \in Data
  <2>1. Sound(i.pool, w.mem) /\ i.buf = i.pool.cur
    BY DEF Built, PoolsFit
  <2> QED
    BY <2>1, BuiltFacts, MembersMade
<1>2. /\ w.mem.made \in Nat /\ r.w.mem.made \in Nat /\ w.mem.made <= r.w.mem.made /\ WorldOK(r.w)
      /\ LastGPU(r.w, i.buf) = LastGPU(w, i.buf)
  BY <1>1, WorldFacts DEF Converting, Moves, Spares
<1>3. i.buf \in 1..r.w.mem.made /\ s \in 1..r.w.mem.made /\ s \in Storages /\ s # NoBuffer
  BY <1>1, <1>2 DEF Converting
<1>4. i.buf # s
  <2>1. \A t \in Members(r.pool) : t \in Members(i.conv.pool) \/ t \in Fresh(w.mem, r.w.mem)
    BY DEF Converting, PoolServes
  <2>2. i.buf \notin Members(i.conv.pool)
    BY <1>1 DEF Built, PoolsFit
  <2>3. i.buf \notin Fresh(w.mem, r.w.mem)
    BY <1>1, <1>2 DEF Fresh
  <2> QED
    BY <2>1, <2>2, <2>3 DEF Converting
<1>5. /\ c \in Commands /\ c.kind = "convert" /\ c.src = i.buf /\ c.dst = s
  BY <1>1, <1>3, BlankType DEF Command, Commands, CommandKinds
<1>6. v = Record(r.w, c) /\ s = r.pool.cur
  OBVIOUS
<1> HIDE DEF c, s
<1>7. Sensible(r.w, c)
  BY <1>1, <1>3, <1>4, <1>5 DEF Sensible, Proper, Reads, Writes
<1>8. Encoded(r.w, c, v)
  BY <1>2, <1>6, <1>7, RecordEncodes
<1>9. Moves(r.w, v, {i.buf, s})
  <2>1. {c.src, c.dst} \ {NoBuffer} = {i.buf, s}
    BY <1>1, <1>3, <1>5
  <2>2. Spares(r.w, v, {i.buf, s})
    BY <1>8, <2>1 DEF Encoded
  <2> QED
    BY <1>5, <1>8, <2>2 DEF Encoded, Moves, DrawsKept
<1>10. Filled(i, r, v)
  BY <1>3, <1>4, <1>5, <1>6, <1>8, <1>9 DEF Filled, Encoded
<1>11. /\ Serves(w, i, v, j) /\ Built(v, j, g) /\ (Whole(w, i, g) => Whole(v, j, g))
       /\ ~j.conv.dirty /\ j.conv.buf = s
  BY <1>6, <1>10, ConversionSet
<1>12. ASSUME Whole(w, i, g) PROVE Turned(v, j, g)
  <2>1. LastGPU(v, s) = Converted(LastGPU(r.w, i.buf))
    BY <1>3, <1>5, <1>8 DEF Encoded, GpuAfter, LastGPU
  <2>2. LastGPU(w, i.buf) \in Data
    <3>1. Final(w) \in WorldType
      BY WorldFacts, RanType DEF Final
    <3> QED
      BY <1>1, <3>1 DEF LastGPU, WorldType
  <2>3. Agrees(LastGPU(w, i.buf), g.data)
    <3>1. HasOn(w, i.buf, g.data, Cells)
      BY <1>12, WholeUnmapped DEF Holds
    <3> QED
      BY <3>1 DEF HasOn, Agrees
  <2>4. Agrees(LastGPU(v, s), ConvertedData(g.data))
    BY <1>1, <1>2, <2>1, <2>2, <2>3, ConvertedAgrees
  <2> QED
    BY <1>11, <2>4 DEF Turned
<1> QED
  BY <1>11, <1>12 DEF Step, Keeps

\* convertVertexBufferCPU, when the bytes have been read.
LEMMA StreamStep ==
    ASSUME NEW w, WorldOK(w), NEW i, NEW g, Built(w, i, g), g.access = "none", g.size > 0,
           NEW r, Converting(w, i, g, r), NEW bytes \in Data,
           NEW v, v = Written(r.w, r.pool.cur, Cells, Converted(bytes)),
           NEW j, j = SetConversion(i, r)
    PROVE  /\ Serves(w, i, v, j) /\ Built(v, j, g) /\ (Whole(w, i, g) => Whole(v, j, g))
           /\ ~j.conv.dirty /\ (Agrees(bytes, g.data) => Turned(v, j, g))
<1> DEFINE s == r.pool.cur
           a == Converted(bytes)
<1>1. /\ i.buf \in 1..w.mem.made /\ i.buf \in Own(i) /\ i.buf \in Members(i.pool)
      /\ i.buf \in Storages /\ i.buf # NoBuffer /\ g.data \in Data
  <2>1. Sound(i.pool, w.mem) /\ i.buf = i.pool.cur
    BY DEF Built, PoolsFit
  <2> QED
    BY <2>1, BuiltFacts, MembersMade
<1>2. /\ w.mem.made \in Nat /\ r.w.mem.made \in Nat /\ w.mem.made <= r.w.mem.made /\ WorldOK(r.w)
  BY <1>1, WorldFacts DEF Converting, Moves, Spares
<1>3. i.buf \in 1..r.w.mem.made /\ s \in 1..r.w.mem.made /\ Idle(r.w, s)
  BY <1>1, <1>2 DEF Converting
<1>4. i.buf # s
  <2>1. \A t \in Members(r.pool) : t \in Members(i.conv.pool) \/ t \in Fresh(w.mem, r.w.mem)
    BY DEF Converting, PoolServes
  <2>2. i.buf \notin Members(i.conv.pool)
    BY <1>1 DEF Built, PoolsFit
  <2>3. i.buf \notin Fresh(w.mem, r.w.mem)
    BY <1>1, <1>2 DEF Fresh
  <2> QED
    BY <2>1, <2>2, <2>3 DEF Converting
<1>5. v = Written(r.w, s, Cells, a) /\ s = r.pool.cur
  OBVIOUS
<1>6. a \in Data
  BY ConvertedType
<1>7. a = Converted(bytes)
  OBVIOUS
<1> HIDE DEF s, a
<1>8. Wrote(r.w, v, s, Cells, a)
  BY <1>2, <1>3, <1>5, <1>6, WriteMoves
<1>9. Moves(r.w, v, {s})
  BY <1>8 DEF Wrote
<1>10. Moves(r.w, v, {i.buf, s})
  BY <1>9, SparesLess
<1>11. Filled(i, r, v)
  <2>1. /\ LastGPU(v, i.buf) = LastGPU(r.w, i.buf) /\ LastCPU(v, i.buf) = LastCPU(r.w, i.buf)
        /\ v.mem.needSync[i.buf] = r.w.mem.needSync[i.buf] /\ v.dirty[i.buf] = r.w.dirty[i.buf]
    BY <1>3, <1>4, <1>9 DEF Moves, Spares
  <2> QED
    BY <1>5, <1>10, <2>1 DEF Filled
<1>12. /\ Serves(w, i, v, j) /\ Built(v, j, g) /\ (Whole(w, i, g) => Whole(v, j, g))
       /\ ~j.conv.dirty /\ j.conv.buf = s
  BY <1>5, <1>11, ConversionSet
<1>13. ASSUME Agrees(bytes, g.data) PROVE Turned(v, j, g)
  <2>1. \A c \in Cells : LastGPU(v, s)[c] = a[c]
    BY <1>8 DEF Wrote
  <2>2. Agrees(a, ConvertedData(g.data))
    BY <1>1, <1>7, <1>13, ConvertedAgrees
  <2>3. Agrees(LastGPU(v, s), ConvertedData(g.data))
    BY <2>1, <2>2 DEF Agrees
  <2> QED
    BY <1>12, <2>3 DEF Turned
<1> QED
  BY <1>12, <1>13

LEMMA SetLeaves ==
    ASSUME NEW i \in ImplType, NEW r
    PROVE  SetConversion(i, r).buf = i.buf
  BY DEF SetConversion, ImplType

\* VertexArrayMtl::convertVertexBuffer
LEMMA ConvertVertexBufferStep ==
    ASSUME NEW w, WorldOK(w), NEW i, NEW g, Built(w, i, g), g.access = "none", g.size > 0,
           w.mem.made + 1 <= MaxStorages,
           NEW onGPU, NEW y, y = ConvertVertexBuffer(w, i, g, onGPU)
    PROVE  /\ Step(w, i, g, y.w, y.i, g) /\ ~y.i.conv.dirty
           /\ y.i.buf = i.buf /\ y = [w |-> y.w, i |-> y.i]
<1>1. CASE i.conv.exists /\ ~i.conv.dirty
  <2>1. y.w = w /\ y.i = i /\ y = [w |-> y.w, i |-> y.i]
    BY <1>1 DEF ConvertVertexBuffer
  <2>2. Serves(w, i, w, i)
    BY SparesSelf DEF Serves
  <2> QED
    BY <1>1, <2>1, <2>2 DEF Step, Keeps
<1>2. CASE ~(i.conv.exists /\ ~i.conv.dirty) /\ onGPU
  <2> DEFINE r == PoolAllocate(w, ReleaseInFlightBuffers(i.conv.pool, w.mem), g.size)
  <2>1. Converting(w, i, g, r)
    BY ConversionAllocated
  <2>2. y = ConvertByCompute(i, r)
    BY <1>2 DEF ConvertVertexBuffer
  <2> HIDE DEF r
  <2>3. /\ y.w = Record(r.w, Command("convert", i.buf, r.pool.cur, Cells, Blank))
        /\ y.i = SetConversion(i, r) /\ y = [w |-> y.w, i |-> y.i]
    BY <2>2 DEF ConvertByCompute
  <2>4. y.i.buf = i.buf
    BY <2>3, SetLeaves DEF Built
  <2> QED
    BY <2>1, <2>3, <2>4, ComputeStep
<1>3. CASE ~(i.conv.exists /\ ~i.conv.dirty) /\ ~onGPU
  <2> DEFINE x == GetClientShadowCopyData(w, i, g)
             r == PoolAllocate(x.w, ReleaseInFlightBuffers(x.i.conv.pool, x.w.mem), g.size)
  <2>1. y = ConvertOnCPU(x, g) /\ x = GetClientShadowCopyData(w, i, g)
    BY <1>3 DEF ConvertVertexBuffer
  <2>2. y = StreamVertexData(x, r)
    BY <2>1 DEF ConvertOnCPU
  <2>3. r = PoolAllocate(x.w, ReleaseInFlightBuffers(x.i.conv.pool, x.w.mem), g.size)
    OBVIOUS
  <2> HIDE DEF x, r
  <2>4. /\ Step(w, i, g, x.w, x.i, g) /\ x.bytes \in Data /\ (Whole(w, i, g) => Agrees(x.bytes, g.data))
        /\ x.w.mem.made = w.mem.made /\ x.i.buf = i.buf
    BY <2>1, ReadStep
  <2>5. WorldOK(x.w) /\ Built(x.w, x.i, g) /\ Serves(w, i, x.w, x.i)
    BY <2>4 DEF Step, Keeps, Serves, Moves, Spares
  <2>6. x.w.mem.made + 1 <= MaxStorages
    BY <2>4
  <2>7. Converting(x.w, x.i, g, r)
    BY <2>3, <2>5, <2>6, ConversionAllocated
  <2>8. /\ y.w = Written(r.w, r.pool.cur, Cells, Converted(x.bytes)) /\ y.i = SetConversion(x.i, r)
        /\ y = [w |-> y.w, i |-> y.i]
    BY <2>2 DEF StreamVertexData, Written
  <2>9. /\ Serves(x.w, x.i, y.w, y.i) /\ Built(y.w, y.i, g) /\ (Whole(x.w, x.i, g) => Whole(y.w, y.i, g))
        /\ ~y.i.conv.dirty /\ (Agrees(x.bytes, g.data) => Turned(y.w, y.i, g))
    BY <2>4, <2>5, <2>7, <2>8, StreamStep
  <2>10. Serves(w, i, y.w, y.i)
    BY <2>5, <2>9, ServesThen
  <2>11. y.i.buf = i.buf
    BY <2>4, <2>5, <2>8, SetLeaves DEF Built
  <2> QED
    BY <2>4, <2>8, <2>9, <2>10, <2>11 DEF Step, Keeps
<1> QED
  BY <1>1, <1>2, <1>3

LEMMA NewImplType ==
    ASSUME NEW m \in MemoryType
    PROVE  /\ NewImpl \in ImplType /\ NewGL \in GLType /\ Own(NewImpl) = {} /\ PoolsFit(NewImpl, m)
           /\ Fits(NewImpl, NewGL) /\ NewImpl.conv.dirty /\ NewGL.size = 0 /\ NewGL.access = "none"
<1> DEFINE p == NewPool(TRUE, "auto")
           q == NewPool(FALSE, "auto")
           c == NewConversion
<1>1. /\ Sound(p, m) /\ Sound(q, m) /\ Members(p) = {} /\ Members(q) = {}
  BY NewSound
<1>2. p.always = TRUE /\ p.align = 1 /\ p.cur = NoBuffer /\ q.align = 1 /\ q.initial = 0 /\ q.size = 0
  BY DEF NewPool
<1>3. p \in PoolType /\ q \in PoolType
  BY <1>1 DEF Sound
<1>4. c = [exists |-> FALSE, dirty |-> TRUE, buf |-> NoBuffer, pool |-> q]
  BY DEF NewConversion
<1>5. NewImpl = [buf |-> NoBuffer, shadow |-> Blank, shadowSize |-> 0, pool |-> p, conv |-> c]
  BY DEF NewImpl
<1> HIDE DEF p, q, c
<1>6. NewImpl \in ImplType
  BY <1>3, <1>4, <1>5, BlankType DEF ImplType
<1>7. Blank \in Bytes
  BY ConstantTypes DEF Blank, Bytes, Undef
<1>8. NewGL \in GLType /\ NewGL.size = 0 /\ NewGL.access = "none" /\ NewGL.data = Blank
  BY <1>7 DEF NewGL, GLType
<1>9. Own(NewImpl) = {}
  BY <1>1, <1>4, <1>5 DEF Own
<1>10. PoolsFit(NewImpl, m)
  BY <1>1, <1>2, <1>4, <1>5 DEF PoolsFit
<1>11. Fits(NewImpl, NewGL)
  BY <1>2, <1>4, <1>5, <1>8 DEF Fits, Blank
<1> QED
  BY <1>4, <1>5, <1>6, <1>8, <1>9, <1>10, <1>11

\* glDeleteBuffers
LEMMA DeleteStep ==
    ASSUME NEW w, WorldOK(w), NEW i, NEW g, Built(w, i, g)
    PROVE  Step(w, i, g, w, NewImpl, NewGL)
<1>1. w.mem \in MemoryType
  BY WorldFacts
<1>2. /\ NewImpl \in ImplType /\ NewGL \in GLType /\ Own(NewImpl) = {} /\ PoolsFit(NewImpl, w.mem)
      /\ Fits(NewImpl, NewGL) /\ NewGL.size = 0 /\ NewGL.access = "none"
  BY <1>1, NewImplType
<1>3. Serves(w, i, w, NewImpl)
  BY <1>2, SparesSelf DEF Serves
<1>4. Built(w, NewImpl, NewGL)
  BY <1>2 DEF Built, Ready
<1>5. Whole(w, NewImpl, NewGL) /\ Turned(w, NewImpl, NewGL)
  BY <1>2 DEF Whole, Turned
<1> QED
  BY <1>3, <1>4, <1>5 DEF Step, Keeps

-----------------------------------------------------------------------------
(* All the buffers of a client.                                             *)

\* The world and the buffers, which share no storage.
Apart(im) == \A a, b \in Buffers : a # b => \A s \in Own(im[a]) : s \notin Own(im[b])

Standing(w, im, gs) ==
    WorldOK(w) /\ Apart(im) /\ \A b \in Buffers : Built(w, im[b], gs[b])

AllWhole(w, im, gs) == \A b \in Buffers : Whole(w, im[b], gs[b])
AllTurned(w, im, gs) == \A b \in Buffers : Turned(w, im[b], gs[b])

\* f is as before but at b.
Changed(f, b, x, f2) == f2[b] = x /\ \A a \in Buffers : a # b => f2[a] = f[a]

LEMMA OneStep ==
    ASSUME NEW w, NEW im, NEW gs, Standing(w, im, gs), NEW b \in Buffers,
           NEW v, NEW j, NEW h, Keeps(w, im[b], gs[b], v, j, h),
           NEW im2, Changed(im, b, j, im2), NEW gs2, Changed(gs, b, h, gs2)
    PROVE  /\ Standing(v, im2, gs2) /\ DrawsKept(w, v)
           /\ AllWhole(w, im, gs) /\ Whole(v, j, h) => AllWhole(v, im2, gs2)
           /\ AllWhole(w, im, gs) /\ AllTurned(w, im, gs) => AllTurned(v, im2, gs2)
<1>1. /\ WorldOK(w) /\ WorldOK(v) /\ Spares(w, v, Own(im[b])) /\ DrawsKept(w, v) /\ Built(v, j, h)
      /\ w.mem.made \in Nat
      /\ \A s \in Own(j) : s \in Own(im[b]) \/ s \in Fresh(w.mem, v.mem)
  <2>1. WorldOK(w) /\ w.mem.made \in Nat
    BY WorldFacts DEF Standing
  <2> QED
    BY <2>1 DEF Keeps, Serves, Moves, Spares
<1>2. \A a \in Buffers : Built(w, im[a], gs[a])
  BY DEF Standing
<1>3. \A a \in Buffers : \A s \in Own(im[a]) : s \in 1..w.mem.made
  BY <1>1, <1>2, BuiltFacts
<1>4. \A a \in Buffers : a # b => \A s \in Own(im[a]) : s \notin Own(im[b])
  BY DEF Standing, Apart
<1>5. \A a \in Buffers : a # b => /\ Built(v, im[a], gs[a])
                                  /\ Whole(w, im[a], gs[a]) => Whole(v, im[a], gs[a])
                                  /\ Turned(w, im[a], gs[a]) => Turned(v, im[a], gs[a])
  BY <1>1, <1>2, <1>4, OthersStay
<1>6. \A a \in Buffers : Built(v, im2[a], gs2[a])
  BY <1>1, <1>5 DEF Changed
<1>7. \A a \in Buffers : a # b => \A s \in Own(im[a]) : s \notin Own(j)
  <2>1. \A s \in Fresh(w.mem, v.mem) : s \notin 1..w.mem.made
    BY <1>1 DEF Fresh
  <2> QED
    BY <1>1, <1>3, <1>4, <2>1
<1>8. Apart(im2)
  <2>1. \A a, c \in Buffers : a # b /\ c # b /\ a # c => \A s \in Own(im[a]) : s \notin Own(im[c])
    BY DEF Standing, Apart
  <2> QED
    BY <1>7, <2>1 DEF Apart, Changed
<1>9. AllWhole(w, im, gs) /\ Whole(v, j, h) => AllWhole(v, im2, gs2)
  BY <1>5 DEF AllWhole, Changed
<1>10. AllWhole(w, im, gs) /\ AllTurned(w, im, gs) => AllTurned(v, im2, gs2)
  BY <1>5 DEF AllTurned, AllWhole, Changed, Keeps
<1> QED
  BY <1>1, <1>6, <1>8, <1>9, <1>10 DEF Standing

\* The client maps the storage of no static buffer without synchronization.
Waits(c) == "unsync" \in c.accesses => "static" \notin c.usages

\* The client does not both copy buffers on the GPU and draw converted ones.
Marks(c) == ~({"CopyBufferSubData", "DrawConverted"} \subseteq c.calls)

\* The buffer is one that the client c can have.
Allowed(c, i, g) ==
    /\ g.size > 0 => g.usage \in c.usages
    /\ g.access # "none" => g.access \in c.accesses
    /\ "DrawConverted" \in c.calls \/ i.conv.dirty

CoreOK(c, w, im, gs) ==
    /\ c \in Clients /\ im \in [Buffers -> ImplType] /\ gs \in [Buffers -> GLType]
    /\ Standing(w, im, gs)
    /\ \A b \in Buffers : Allowed(c, im[b], gs[b])
    /\ Waits(c) => AllWhole(w, im, gs)
    /\ Waits(c) /\ Marks(c) => DrawsRight(w) /\ AllTurned(w, im, gs)

\* f2 is f with x at b.
Becomes(f, b, x, f2) == f2 = [f EXCEPT ![b] = x]

LEMMA CoreKept ==
    ASSUME NEW c, NEW w, NEW im, NEW gs, CoreOK(c, w, im, gs), NEW b \in Buffers,
           NEW v, NEW j, NEW h, Keeps(w, im[b], gs[b], v, j, h), Allowed(c, j, h),
           Waits(c) => Whole(v, j, h),
           NEW im2, Becomes(im, b, j, im2), NEW gs2, Becomes(gs, b, h, gs2)
    PROVE  CoreOK(c, v, im2, gs2)
<1>1. j \in ImplType /\ h \in GLType
  BY DEF Keeps, Built
<1>2. im \in [Buffers -> ImplType] /\ gs \in [Buffers -> GLType] /\ Standing(w, im, gs)
  BY DEF CoreOK
<1>3. im2 \in [Buffers -> ImplType] /\ gs2 \in [Buffers -> GLType]
  BY <1>1, <1>2 DEF Becomes
<1>4. Changed(im, b, j, im2) /\ Changed(gs, b, h, gs2)
  BY <1>2 DEF Changed, Becomes
<1>5. /\ Standing(v, im2, gs2) /\ DrawsKept(w, v)
      /\ AllWhole(w, im, gs) /\ Whole(v, j, h) => AllWhole(v, im2, gs2)
      /\ AllWhole(w, im, gs) /\ AllTurned(w, im, gs) => AllTurned(v, im2, gs2)
  BY <1>2, <1>4, OneStep
<1>6. \A a \in Buffers : Allowed(c, im2[a], gs2[a])
  BY <1>4 DEF Changed, CoreOK
<1> QED
  BY <1>3, <1>5, <1>6 DEF CoreOK, DrawsKept

LEMMA CoreStep ==
    ASSUME NEW c, NEW w, NEW im, NEW gs, CoreOK(c, w, im, gs), NEW b \in Buffers,
           NEW v, NEW j, NEW h, Step(w, im[b], gs[b], v, j, h), Allowed(c, j, h),
           NEW im2, Becomes(im, b, j, im2), NEW gs2, Becomes(gs, b, h, gs2)
    PROVE  CoreOK(c, v, im2, gs2)
<1>1. Keeps(w, im[b], gs[b], v, j, h)
  BY DEF Step
<1>2. ASSUME Waits(c) PROVE Whole(v, j, h)
  <2>1. Whole(w, im[b], gs[b])
    BY <1>2 DEF CoreOK, AllWhole
  <2>2. ASSUME h.access = "unsync" PROVE ~Single(j)
    <3>1. WorldOK(v) /\ Built(v, j, h)
      BY <1>1 DEF Keeps, Serves, Moves, Spares
    <3>2. h.size > 0
      BY <2>2, <3>1 DEF Built, Fits
    <3>3. Single(j) <=> h.usage = "static"
      BY <3>1, <3>2, SingleIs
    <3>4. "unsync" \in c.accesses /\ h.usage \in c.usages
      BY <2>2, <3>2 DEF Allowed
    <3> QED
      BY <1>2, <3>3, <3>4 DEF Waits
  <2> QED
    BY <2>1, <2>2 DEF Step
<1> QED
  BY <1>1, <1>2, CoreKept

\* The GPU or the command buffers move on.
LEMMA CoreMoves ==
    ASSUME NEW c, NEW w, NEW im, NEW gs, CoreOK(c, w, im, gs), NEW v, Moves(w, v, {})
    PROVE  CoreOK(c, v, im, gs)
<1>1. /\ WorldOK(w) /\ WorldOK(v) /\ Spares(w, v, {}) /\ DrawsKept(w, v)
      /\ \A a \in Buffers : Built(w, im[a], gs[a])
  BY DEF CoreOK, Standing, Moves, Spares
<1>2. \A a \in Buffers : /\ Built(v, im[a], gs[a])
                         /\ Whole(w, im[a], gs[a]) => Whole(v, im[a], gs[a])
                         /\ Turned(w, im[a], gs[a]) => Turned(v, im[a], gs[a])
  BY <1>1, OthersStay
<1> QED
  BY <1>1, <1>2 DEF CoreOK, Standing, AllWhole, AllTurned, DrawsKept

\* A draw reads a storage of the buffer b.
LEMMA CoreDraws ==
    ASSUME NEW c, NEW w, NEW im, NEW gs, CoreOK(c, w, im, gs), NEW b \in Buffers, gs[b].access = "none",
           NEW s \in Own(im[b]), NEW bytes \in Data,
           Waits(c) /\ Marks(c) => Agrees(LastGPU(w, s), bytes),
           NEW v, v = Record(w, Command("draw", s, NoBuffer, Cells, bytes))
    PROVE  CoreOK(c, v, im, gs)
<1>1. WorldOK(w) /\ Apart(im) /\ \A a \in Buffers : Built(w, im[a], gs[a])
  BY DEF CoreOK, Standing
<1> DEFINE i == im[b]
           g == gs[b]
<1>2. WorldOK(w) /\ Built(w, i, g) /\ g.access = "none" /\ s \in Own(i)
  BY <1>1
<1> HIDE DEF i, g
<1>3. /\ Spares(w, v, {s}) /\ Built(v, i, g)
      /\ Whole(w, i, g) => Whole(v, i, g)
      /\ Turned(w, i, g) => Turned(v, i, g)
      /\ DrawsRight(w) /\ Agrees(LastGPU(w, s), bytes) => DrawsRight(v)
  BY <1>2, DrawEncodes
<1>4. \A a \in Buffers : a # b => \A t \in Own(im[a]) : t \notin {s}
  BY <1>1 DEF Apart
<1>5. \A a \in Buffers : a # b => /\ Built(v, im[a], gs[a])
                                  /\ Whole(w, im[a], gs[a]) => Whole(v, im[a], gs[a])
                                  /\ Turned(w, im[a], gs[a]) => Turned(v, im[a], gs[a])
  BY <1>1, <1>3, <1>4, OthersStay
<1>6. \A a \in Buffers : /\ Built(v, im[a], gs[a])
                         /\ Whole(w, im[a], gs[a]) => Whole(v, im[a], gs[a])
                         /\ Turned(w, im[a], gs[a]) => Turned(v, im[a], gs[a])
  BY <1>3, <1>5 DEF i, g
<1>7. WorldOK(v)
  BY <1>3 DEF Spares
<1> QED
  BY <1>1, <1>3, <1>6, <1>7 DEF CoreOK, Standing, AllWhole, AllTurned

\* glCopyBufferSubData by the GPU from a to b.
LEMMA CoreBlits ==
    ASSUME NEW c, NEW w, NEW im, NEW gs, CoreOK(c, w, im, gs), NEW a \in Buffers, NEW b \in Buffers,
           a # b, gs[a].access = "none", gs[b].access = "none", "CopyBufferSubData" \in c.calls,
           NEW cells \in SUBSET Cells, cells # {},
           cells \subseteq Extent(gs[a].size), cells \subseteq Extent(gs[b].size),
           NEW v, v = Record(w, Command("copy", im[a].buf, im[b].buf, cells, Blank)),
           NEW gs2, gs2 = [gs EXCEPT ![b] = WrittenTo(gs[b], cells, gs[a].data)]
    PROVE  CoreOK(c, v, im, gs2)
<1>1. WorldOK(w) /\ Apart(im) /\ \A d \in Buffers : Built(w, im[d], gs[d])
  BY DEF CoreOK, Standing
<1> DEFINE i == im[a]
           g == gs[a]
           j == im[b]
           h == gs[b]
           k == WrittenTo(h, cells, g.data)
<1>2. /\ WorldOK(w) /\ Built(w, i, g) /\ g.access = "none" /\ Built(w, j, h) /\ h.access = "none"
      /\ \A s \in Own(i) : s \notin Own(j)
  BY <1>1 DEF Apart
<1>3. /\ v = Record(w, Command("copy", i.buf, j.buf, cells, Blank)) /\ k = WrittenTo(h, cells, g.data)
      /\ cells \subseteq Extent(g.size) /\ cells \subseteq Extent(h.size)
      /\ gs2 = [gs EXCEPT ![b] = k]
  OBVIOUS
<1> HIDE DEF i, g, j, h, k
<1>4. /\ Moves(w, v, {i.buf, j.buf}) /\ i.buf \in Own(i) /\ j.buf \in Own(j)
      /\ Built(v, i, g) /\ (Whole(w, i, g) => Whole(v, i, g)) /\ (Turned(w, i, g) => Turned(v, i, g))
      /\ Built(v, j, k) /\ (Whole(w, i, g) /\ Whole(w, j, h) => Whole(v, j, k))
  BY <1>2, <1>3, BlitStep
<1>5. WorldOK(v) /\ Spares(w, v, {i.buf, j.buf}) /\ DrawsKept(w, v)
  BY <1>4 DEF Moves, Spares
<1>6. \A d \in Buffers : d # a /\ d # b => \A s \in Own(im[d]) : s \notin {i.buf, j.buf}
  BY <1>1, <1>4 DEF Apart, i, j
<1>7. \A d \in Buffers : d # a /\ d # b => /\ Built(v, im[d], gs[d])
                                           /\ Whole(w, im[d], gs[d]) => Whole(v, im[d], gs[d])
                                           /\ Turned(w, im[d], gs[d]) => Turned(v, im[d], gs[d])
  BY <1>1, <1>5, <1>6, OthersStay
<1>8. im \in [Buffers -> ImplType] /\ gs \in [Buffers -> GLType]
  BY DEF CoreOK
<1>9. gs2[b] = k /\ \A d \in Buffers : d # b => gs2[d] = gs[d]
  BY <1>3, <1>8
<1>10. gs2 \in [Buffers -> GLType]
  BY <1>3, <1>4, <1>8 DEF Built
<1>11. \A d \in Buffers : Built(v, im[d], gs2[d])
  BY <1>4, <1>7, <1>9 DEF i, g, j
<1>12. AllWhole(w, im, gs) => AllWhole(v, im, gs2)
  BY <1>4, <1>7, <1>9 DEF AllWhole, i, g, j, h
<1>13. Marks(c) => AllTurned(v, im, gs2)
  <2> SUFFICES ASSUME Marks(c), NEW d \in Buffers PROVE Turned(v, im[d], gs2[d])
    BY DEF AllTurned
  <2>1. "DrawConverted" \notin c.calls
    BY DEF Marks
  <2>2. im[d].conv.dirty
    BY <2>1 DEF CoreOK, Allowed
  <2> QED
    BY <2>2 DEF Turned
<1>14. \A d \in Buffers : Allowed(c, im[d], gs2[d])
  <2>1. k.size = h.size /\ k.usage = h.usage /\ k.access = h.access
    <3>1. h \in GLType
      BY <1>2 DEF Built
    <3> QED
      BY <1>3, <3>1 DEF WrittenTo, GLType
  <2>2. Allowed(c, im[b], k)
    BY <2>1 DEF CoreOK, Allowed, h
  <2> QED
    BY <1>9, <2>2 DEF CoreOK
<1>15. Standing(v, im, gs2)
  BY <1>1, <1>5, <1>11 DEF Standing
<1> QED
  BY <1>5, <1>8, <1>10, <1>12, <1>13, <1>14, <1>15 DEF CoreOK, DrawsKept

-----------------------------------------------------------------------------
(* The calls keep the invariant.                                            *)

VaoType == [Kinds -> [dirty : BOOLEAN, bound : Storages \cup {NoBuffer}]]

\* The vertex array a of a buffer: what is bound is there, and is what the
\* buffer has.
VaoOK(i, g, a) ==
    /\ a \in VaoType
    /\ \A k \in Kinds : ~a[k].dirty => a[k].bound \in Storages
    /\ g.access = "none" /\ g.size > 0 =>
         /\ a["direct"].dirty \/ a["direct"].bound = i.buf
         /\ a["converted"].dirty \/ a["converted"].bound = i.conv.buf

VaosOK(im, gs, va) ==
    va \in [Buffers -> VaoType] /\ \A b \in Buffers : VaoOK(im[b], gs[b], va[b])

\* The inductive invariant.
BufferInv == CoreOK(client, world, impl, gl) /\ VaosOK(impl, gl, vao)

\* The buffer keeps its storages.
SameStorages(i, j) == j.buf = i.buf /\ j.conv.buf = i.conv.buf

\* The buffers other than b keep their storages and their GL state.
OthersSame(im, gs, b, im2, gs2) ==
    \A a \in Buffers : a # b => SameStorages(im[a], im2[a]) /\ gs2[a] = gs[a]

\* The vertex arrays of b are told.
Told(va, b, va2) == va2 = [va EXCEPT ![b] = [k \in Kinds |-> [@[k] EXCEPT !.dirty = TRUE]]]

LEMMA Notified ==
    ASSUME NEW im, NEW gs, NEW va, VaosOK(im, gs, va), NEW b \in Buffers,
           NEW im2, NEW gs2, OthersSame(im, gs, b, im2, gs2), NEW va2, Told(va, b, va2)
    PROVE  VaosOK(im2, gs2, va2)
<1> DEFINE n == [k \in Kinds |-> [va[b][k] EXCEPT !.dirty = TRUE]]
<1>1. va \in [Buffers -> VaoType] /\ va[b] \in VaoType
  BY DEF VaosOK
<1>2. n \in VaoType /\ \A k \in Kinds : n[k].dirty
  BY <1>1 DEF VaoType
<1>3. va2 = [va EXCEPT ![b] = n]
  BY <1>1 DEF Told
<1> HIDE DEF n
<1>4. va2 \in [Buffers -> VaoType] /\ va2[b] = n /\ \A a \in Buffers : a # b => va2[a] = va[a]
  BY <1>1, <1>2, <1>3
<1>5. VaoOK(im2[b], gs2[b], va2[b])
  BY <1>2, <1>4 DEF VaoOK, Kinds
<1>6. ASSUME NEW a \in Buffers, a # b PROVE VaoOK(im2[a], gs2[a], va2[a])
  <2>1. VaoOK(im[a], gs[a], va[a])
    BY DEF VaosOK
  <2>2. va2[a] = va[a] /\ gs2[a] = gs[a] /\ SameStorages(im[a], im2[a])
    BY <1>4, <1>6 DEF OthersSame
  <2> QED
    BY <2>1, <2>2 DEF VaoOK, SameStorages
<1> QED
  BY <1>4, <1>5, <1>6 DEF VaosOK

\* The vertex arrays stay when the buffers keep their storages or are mapped.
LEMMA NotNotified ==
    ASSUME NEW im, NEW gs, NEW va, VaosOK(im, gs, va), NEW b \in Buffers,
           NEW im2, NEW gs2, OthersSame(im, gs, b, im2, gs2),
           gs2[b].access # "none" \/ (SameStorages(im[b], im2[b]) /\ gs2[b] = gs[b])
    PROVE  VaosOK(im2, gs2, va)
<1> SUFFICES ASSUME NEW a \in Buffers PROVE VaoOK(im2[a], gs2[a], va[a])
  BY DEF VaosOK
<1>1. VaoOK(im[a], gs[a], va[a])
  BY DEF VaosOK
<1>2. gs2[a].access # "none" \/ (SameStorages(im[a], im2[a]) /\ gs2[a] = gs[a])
  BY DEF OthersSame
<1> QED
  BY <1>1, <1>2 DEF VaoOK, SameStorages

LEMMA ClientFacts ==
    ASSUME NEW c \in Clients
    PROVE  /\ c.buffers \subseteq Buffers /\ c.usages \subseteq {"static", "dynamic"}
           /\ \A cells \in c.ranges : cells \in SUBSET Cells /\ cells # {}
           /\ c.accesses \subseteq Accesses
           /\ Sizes \subseteq Cells \cup {0}
<1>1. c \in ClientType
  BY BufferAssumption
<1>2. c.buffers \in SUBSET Buffers /\ c.usages \in SUBSET {"static", "dynamic"}
      /\ c.ranges \in SUBSET ((SUBSET Cells) \ {{}})
      /\ c.accesses \in SUBSET {"read", "write", "invalidate", "unsync"}
  BY <1>1 DEF ClientType
<1>3. Sizes \subseteq Cells \cup {0}
  BY BufferAssumption
<1>4. ASSUME NEW cells \in c.ranges PROVE cells \in SUBSET Cells /\ cells # {}
  <2>1. cells \in (SUBSET Cells) \ {{}}
    BY <1>2
  <2>2. cells \in SUBSET Cells /\ cells \notin {{}}
    BY <2>1, Zenon
  <2> QED
    BY <2>2
<1> QED
  BY <1>2, <1>3, <1>4 DEF Accesses

LEMMA CoreFacts ==
    ASSUME NEW c, NEW w, NEW im, NEW gs, CoreOK(c, w, im, gs), NEW b \in Buffers
    PROVE  /\ c \in Clients /\ WorldOK(w) /\ Built(w, im[b], gs[b]) /\ Allowed(c, im[b], gs[b])
           /\ im \in [Buffers -> ImplType] /\ gs \in [Buffers -> GLType]
           /\ im[b] \in ImplType /\ gs[b] \in GLType
           /\ w.mem.made \in Nat
  BY WorldFacts DEF CoreOK, Standing

\* What the client writes.
LEMMA NewBytesType ==
    ASSUME BufferInv, NEW b \in Buffers
    PROVE  NewBytes(b) \in Bytes
<1>1. gl[b] \in GLType
  BY CoreFacts DEF BufferInv
<1>2. gl[b].data \in Bytes
  BY <1>1 DEF GLType
<1> DEFINE d == gl[b].data
<1>3. \A c \in Cells : d[c] \in Nat
  BY <1>2, ConstantTypes DEF Bytes
<1>4. NumValues \in Nat /\ NumValues > 0
  BY ConstantTypes
<1>5. \A x \in Nat : (x % NumValues) + 1 \in 0..NumValues
  BY <1>4
<1> HIDE DEF d
<1>6. [c \in Cells |-> (d[c] % NumValues) + 1] \in [Cells -> 0..NumValues]
  BY <1>3, <1>5
<1> QED
  BY <1>6 DEF NewBytes, Bytes, d

\* A call on the buffer b that tells the vertex arrays.
LEMMA CallNotifies ==
    ASSUME BufferInv, client' = client, NEW b \in Buffers,
           NEW v, NEW j, NEW h, Step(world, impl[b], gl[b], v, j, h), Allowed(client, j, h),
           world' = v, impl' = [impl EXCEPT ![b] = j], gl' = [gl EXCEPT ![b] = h],
           NotifyVertexArrays(b)
    PROVE  BufferInv'
<1>1. CoreOK(client, world, impl, gl) /\ VaosOK(impl, gl, vao)
  BY DEF BufferInv
<1>2. CoreOK(client, world', impl', gl')
  <2>1. Becomes(impl, b, j, impl') /\ Becomes(gl, b, h, gl')
    BY DEF Becomes
  <2> QED
    BY <1>1, <2>1, CoreStep
<1>3. impl \in [Buffers -> ImplType] /\ gl \in [Buffers -> GLType]
  BY <1>1 DEF CoreOK
<1>4. OthersSame(impl, gl, b, impl', gl') /\ Told(vao, b, vao')
  BY <1>3 DEF SameStorages, OthersSame, Told, NotifyVertexArrays
<1>5. VaosOK(impl', gl', vao')
  BY <1>1, <1>4, Notified
<1> QED
  BY <1>2, <1>5 DEF BufferInv

\* A call on the buffer b that maps it, or leaves its storages alone.
LEMMA CallQuiet ==
    ASSUME BufferInv, client' = client, NEW b \in Buffers,
           NEW v, NEW j, NEW h, Step(world, impl[b], gl[b], v, j, h), Allowed(client, j, h),
           world' = v, impl' = [impl EXCEPT ![b] = j], gl' = [gl EXCEPT ![b] = h],
           h.access # "none", vao' = vao
    PROVE  BufferInv'
<1>1. CoreOK(client, world, impl, gl) /\ VaosOK(impl, gl, vao)
  BY DEF BufferInv
<1>2. CoreOK(client, world', impl', gl')
  <2>1. Becomes(impl, b, j, impl') /\ Becomes(gl, b, h, gl')
    BY DEF Becomes
  <2> QED
    BY <1>1, <2>1, CoreStep
<1>3. impl \in [Buffers -> ImplType] /\ gl \in [Buffers -> GLType]
  BY <1>1 DEF CoreOK
<1>4. OthersSame(impl, gl, b, impl', gl') /\ gl'[b].access # "none"
  BY <1>3 DEF SameStorages, OthersSame
<1>5. VaosOK(impl', gl', vao)
  BY <1>1, <1>4, NotNotified
<1> QED
  BY <1>2, <1>5 DEF BufferInv

LEMMA BufferDataInv ==
    ASSUME BufferInv, client' = client, NEW b \in Buffers, NEW n \in Sizes,
           NEW usage \in client.usages, NEW data \in Bytes \cup {Null}, BufferData(b, n, usage, data)
    PROVE  BufferInv'
<1> DEFINE i == impl[b]
           g == gl[b]
           y == SetDataImpl(world, i, g, n, usage, data)
           h == [g EXCEPT !.size = n, !.usage = usage, !.data = DataOf(n, data)]
<1>1. /\ client \in Clients /\ WorldOK(world) /\ Built(world, i, g) /\ Allowed(client, i, g)
      /\ impl \in [Buffers -> ImplType] /\ gl \in [Buffers -> GLType] /\ g \in GLType
  BY CoreFacts DEF BufferInv
<1>2. n \in Cells \cup {0} /\ usage \in {"static", "dynamic"}
  BY <1>1, ClientFacts
<1>3. ResetRoom(world, i.pool) /\ g.access = "none"
  BY DEF BufferData, RoomToReset, ResetRoom, Enabled
<1>4. world' = y.w /\ impl' = [impl EXCEPT ![b] = y.i] /\ NotifyVertexArrays(b)
  BY DEF BufferData, Become
<1>5. gl' = [gl EXCEPT ![b] = h]
  BY <1>1 DEF BufferData, DataOf
<1>6. DataOf(n, data) \in Bytes
  <2>1. Blank \in Bytes
    BY ConstantTypes DEF Blank, Bytes, Undef
  <2>2. data # Null => Merge(Blank, Extent(n), data) \in Bytes
    BY <2>1, MergeBytes
  <2> QED
    BY <2>1, <2>2 DEF DataOf
<1>7. /\ h \in GLType /\ h.size = n /\ h.usage = usage /\ h.data = DataOf(n, data)
      /\ h.access = "none"
  BY <1>1, <1>2, <1>3, <1>6 DEF GLType
<1>8. y = SetDataImpl(world, i, g, n, usage, data)
  OBVIOUS
<1> HIDE DEF y, h
<1>9. Step(world, i, g, y.w, y.i, h) /\ y.i.conv.dirty
  BY <1>1, <1>2, <1>3, <1>7, <1>8, BufferDataStep
<1>10. Allowed(client, y.i, h)
  BY <1>7, <1>9 DEF Allowed
<1> QED
  BY <1>4, <1>5, <1>9, <1>10, CallNotifies

LEMMA BufferSubDataInv ==
    ASSUME BufferInv, client' = client, NEW b \in Buffers, NEW cells \in client.ranges,
           NEW bytes \in Bytes, BufferSubData(b, cells, bytes)
    PROVE  BufferInv'
<1> DEFINE i == impl[b]
           g == gl[b]
           y == SetSubDataImpl(world, i, g, cells, bytes)
           h == WrittenTo(g, cells, bytes)
<1>1. /\ client \in Clients /\ WorldOK(world) /\ Built(world, i, g) /\ Allowed(client, i, g)
      /\ impl \in [Buffers -> ImplType] /\ gl \in [Buffers -> GLType] /\ g \in GLType
      /\ world.mem.made \in Nat
  BY CoreFacts DEF BufferInv
<1>2. cells \in SUBSET Cells /\ cells # {}
  BY <1>1, ClientFacts
<1>3. world.mem.made + 1 <= MaxStorages /\ g.access = "none" /\ cells \subseteq Extent(g.size)
  BY <1>1, StoragesAre DEF BufferSubData, Room, Enabled
<1>4. world' = y.w /\ impl' = [impl EXCEPT ![b] = y.i] /\ NotifyVertexArrays(b)
  BY DEF BufferSubData, Become
<1>5. gl' = [gl EXCEPT ![b] = h]
  BY <1>1 DEF BufferSubData, WrittenTo
<1>6. bytes \in Data /\ Agrees(bytes, bytes)
  BY BytesData DEF Agrees
<1>7. y = SetSubDataImpl(world, i, g, cells, bytes) /\ h = WrittenTo(g, cells, bytes)
  OBVIOUS
<1> HIDE DEF y, h
<1>8. /\ Keeps(world, i, g, y.w, y.i, h) /\ y.i.conv.dirty
      /\ Whole(world, i, g) /\ Agrees(bytes, bytes) => Whole(y.w, y.i, h)
  BY <1>1, <1>2, <1>3, <1>6, <1>7, BufferSubDataStep
<1>9. Step(world, i, g, y.w, y.i, h)
  BY <1>6, <1>8 DEF Step
<1>10. h.size = g.size /\ h.usage = g.usage /\ h.access = g.access
  BY <1>1, <1>2, <1>3, <1>7, WrittenShape
<1>11. Allowed(client, y.i, h)
  BY <1>1, <1>8, <1>10 DEF Allowed
<1> QED
  BY <1>4, <1>5, <1>9, <1>11, CallNotifies

LEMMA ReadPixelsInv ==
    ASSUME BufferInv, client' = client, NEW b \in Buffers, NEW cells \in client.ranges,
           NEW bytes \in Bytes, ReadPixels(b, cells, bytes)
    PROVE  BufferInv'
<1> DEFINE i == impl[b]
           g == gl[b]
           v == Record(world, Command("fill", NoBuffer, i.buf, cells, bytes))
           k == MarkConversionBuffersDirty(i)
           h == WrittenTo(g, cells, bytes)
<1>1. /\ client \in Clients /\ WorldOK(world) /\ Built(world, i, g) /\ Allowed(client, i, g)
      /\ impl \in [Buffers -> ImplType] /\ gl \in [Buffers -> GLType] /\ g \in GLType /\ i \in ImplType
  BY CoreFacts DEF BufferInv
<1>2. cells \in SUBSET Cells /\ cells # {}
  BY <1>1, ClientFacts
<1>3. g.access = "none" /\ cells \subseteq Extent(g.size)
  BY DEF ReadPixels, Enabled
<1>4. world' = v /\ impl' = [impl EXCEPT ![b] = k] /\ NotifyVertexArrays(b)
  BY DEF ReadPixels, Become
<1>5. gl' = [gl EXCEPT ![b] = h]
  BY <1>1 DEF ReadPixels, WrittenTo
<1>6. /\ v = Record(world, Command("fill", NoBuffer, i.buf, cells, bytes))
      /\ k = MarkConversionBuffersDirty(i) /\ h = WrittenTo(g, cells, bytes)
  OBVIOUS
<1> HIDE DEF v, k, h
<1>7. Step(world, i, g, v, k, h)
  BY <1>1, <1>2, <1>3, <1>6, ReadPixelsStep
<1>8. h.size = g.size /\ h.usage = g.usage /\ h.access = g.access
  BY <1>1, <1>2, <1>3, <1>6, WrittenShape
<1>9. k.conv.dirty
  BY <1>1, <1>6, MarkIs
<1>10. Allowed(client, k, h)
  BY <1>1, <1>8, <1>9 DEF Allowed
<1> QED
  BY <1>4, <1>5, <1>7, <1>10, CallNotifies

\* glCopyBufferSubData by the GPU.
LEMMA CopyByBlitInv ==
    ASSUME BufferInv, client' = client, NEW a \in Buffers, NEW b \in Buffers, NEW cells \in client.ranges,
           CopyBufferSubData(a, b, cells), CopyByBlit(a, b)
    PROVE  BufferInv'
<1> DEFINE v == Record(world, Command("copy", impl[a].buf, impl[b].buf, cells, Blank))
           gs2 == [gl EXCEPT ![b] = WrittenTo(gl[b], cells, gl[a].data)]
<1>1. /\ client \in Clients /\ CoreOK(client, world, impl, gl) /\ VaosOK(impl, gl, vao)
      /\ impl \in [Buffers -> ImplType] /\ gl \in [Buffers -> GLType]
  BY CoreFacts DEF BufferInv
<1>2. cells \in SUBSET Cells /\ cells # {}
  BY <1>1, ClientFacts
<1>3. /\ a # b /\ gl[a].access = "none" /\ gl[b].access = "none" /\ "CopyBufferSubData" \in client.calls
      /\ cells \subseteq Extent(gl[a].size) /\ cells \subseteq Extent(gl[b].size)
  BY DEF CopyBufferSubData, Enabled
<1>4. world' = v /\ impl' = impl /\ NotifyVertexArrays(b)
  BY <1>1 DEF CopyBufferSubData, Become
<1>5. gl' = gs2
  BY <1>1 DEF CopyBufferSubData, WrittenTo
<1>6. v = Record(world, Command("copy", impl[a].buf, impl[b].buf, cells, Blank))
      /\ gs2 = [gl EXCEPT ![b] = WrittenTo(gl[b], cells, gl[a].data)]
  OBVIOUS
<1>7. OthersSame(impl, gl, b, impl, gs2) /\ Told(vao, b, vao')
  BY <1>1, <1>4 DEF OthersSame, SameStorages, Told, NotifyVertexArrays
<1> HIDE DEF v, gs2
<1>8. CoreOK(client, v, impl, gs2)
  BY <1>1, <1>2, <1>3, <1>6, CoreBlits
<1>9. VaosOK(impl, gs2, vao')
  BY <1>1, <1>7, Notified
<1> QED
  BY <1>4, <1>5, <1>8, <1>9 DEF BufferInv

\* A buffer is read by the CPU, which changes nothing of its GL state.
LEMMA CoreReads ==
    ASSUME NEW c, NEW w, NEW im, NEW gs, CoreOK(c, w, im, gs), NEW a \in Buffers,
           gs[a].access = "none", gs[a].size > 0,
           NEW y, y = GetClientShadowCopyData(w, im[a], gs[a]),
           NEW im2, Becomes(im, a, y.i, im2)
    PROVE  /\ CoreOK(c, y.w, im2, gs) /\ SameStorages(im[a], y.i) /\ y.w.mem.made = w.mem.made
           /\ y.bytes \in Data /\ (Waits(c) => Agrees(y.bytes, gs[a].data))
<1>1. /\ WorldOK(w) /\ Built(w, im[a], gs[a]) /\ Allowed(c, im[a], gs[a]) /\ gs \in [Buffers -> GLType]
      /\ Waits(c) => Whole(w, im[a], gs[a])
  BY CoreFacts DEF CoreOK, AllWhole
<1>2. /\ Step(w, im[a], gs[a], y.w, y.i, gs[a])
      /\ y.bytes \in Data /\ (Whole(w, im[a], gs[a]) => Agrees(y.bytes, gs[a].data))
      /\ y.i.buf = im[a].buf /\ y.i.conv = im[a].conv /\ y.w.mem.made = w.mem.made
  BY <1>1, ReadStep
<1>3. Allowed(c, y.i, gs[a]) /\ gs = [gs EXCEPT ![a] = gs[a]]
  BY <1>1, <1>2 DEF Allowed
<1>4. CoreOK(c, y.w, im2, gs)
  <2>1. Becomes(im, a, y.i, im2) /\ Becomes(gs, a, gs[a], gs)
    BY <1>3 DEF Becomes
  <2> QED
    BY <1>2, <1>3, <2>1, CoreStep
<1> QED
  BY <1>1, <1>2, <1>3, <1>4 DEF SameStorages

\* Then it is written to b.
LEMMA CoreCopies ==
    ASSUME NEW c, NEW w, NEW im, NEW gs, CoreOK(c, w, im, gs), NEW b \in Buffers,
           gs[b].access = "none", w.mem.made + 1 <= MaxStorages,
           NEW cells \in SUBSET Cells, cells # {}, cells \subseteq Extent(gs[b].size),
           NEW bytes \in Data, NEW want \in Bytes, Waits(c) => Agrees(bytes, want),
           NEW y, y = SetSubDataImpl(w, im[b], gs[b], cells, bytes),
           NEW im2, Becomes(im, b, y.i, im2), NEW gs2, Becomes(gs, b, WrittenTo(gs[b], cells, want), gs2)
    PROVE  CoreOK(c, y.w, im2, gs2)
<1> DEFINE i == im[b]
           g == gs[b]
           h == WrittenTo(g, cells, want)
<1>1. /\ WorldOK(w) /\ Built(w, i, g) /\ Allowed(c, i, g)
      /\ Waits(c) => Whole(w, i, g)
  BY CoreFacts DEF CoreOK, AllWhole
<1>2. h = WrittenTo(g, cells, want) /\ y = SetSubDataImpl(w, i, g, cells, bytes)
      /\ g.access = "none" /\ cells \subseteq Extent(g.size)
  OBVIOUS
<1>3. i = im[b] /\ Becomes(gs, b, h, gs2) /\ g = gs[b]
  OBVIOUS
<1> HIDE DEF h, g, i
<1>4. /\ Keeps(w, i, g, y.w, y.i, h) /\ y.i.conv.dirty
      /\ Whole(w, i, g) /\ Agrees(bytes, want) => Whole(y.w, y.i, h)
  BY <1>1, <1>2, BufferSubDataStep
<1>5. h.size = g.size /\ h.usage = g.usage /\ h.access = g.access
  BY <1>1, <1>2, WrittenShape
<1>6. Allowed(c, y.i, h)
  BY <1>1, <1>4, <1>5 DEF Allowed
<1>7. Waits(c) => Whole(y.w, y.i, h)
  BY <1>1, <1>4
<1>8. Keeps(w, im[b], gs[b], y.w, y.i, h)
  BY <1>3, <1>4
<1> QED
  BY <1>3, <1>6, <1>7, <1>8, CoreKept

\* glCopyBufferSubData by the CPU.
LEMMA CopyByCpuInv ==
    ASSUME BufferInv, client' = client, NEW a \in Buffers, NEW b \in Buffers, NEW cells \in client.ranges,
           CopyBufferSubData(a, b, cells), ~CopyByBlit(a, b)
    PROVE  BufferInv'
<1> DEFINE y == GetClientShadowCopyData(world, impl[a], gl[a])
           z == SetSubDataImpl(y.w, impl[b], gl[b], cells, y.bytes)
           im1 == [impl EXCEPT ![a] = y.i]
           im2 == [im1 EXCEPT ![b] = z.i]
           gs2 == [gl EXCEPT ![b] = WrittenTo(gl[b], cells, gl[a].data)]
<1>1. /\ client \in Clients /\ CoreOK(client, world, impl, gl) /\ VaosOK(impl, gl, vao)
      /\ impl \in [Buffers -> ImplType] /\ gl \in [Buffers -> GLType] /\ world.mem.made \in Nat
      /\ Built(world, impl[a], gl[a]) /\ WorldOK(world)
  BY CoreFacts DEF BufferInv
<1>2. cells \in SUBSET Cells /\ cells # {} /\ gl[a].size \in Nat /\ gl[a].data \in Bytes
  BY <1>1, ClientFacts, BuiltFacts
<1>3. /\ a # b /\ gl[a].access = "none" /\ gl[b].access = "none" /\ world.mem.made + 1 <= MaxStorages
      /\ cells \subseteq Extent(gl[a].size) /\ cells \subseteq Extent(gl[b].size)
  BY <1>1, StoragesAre DEF CopyBufferSubData, Enabled, Room
<1>4. gl[a].size > 0
  <2> DEFINE n == gl[a].size
  <2>1. n \in Nat /\ cells \subseteq 1..n
    BY <1>2, <1>3 DEF Extent
  <2> HIDE DEF n
  <2>2. PICK x \in cells : TRUE
    BY <1>2
  <2>3. n > 0
    BY <2>1, <2>2
  <2> QED
    BY <2>3 DEF n
<1>5. world' = z.w /\ impl' = [impl EXCEPT ![a] = y.i, ![b] = z.i] /\ NotifyVertexArrays(b)
  BY DEF CopyBufferSubData, CopyInto
<1>6. impl' = im2 /\ im1[b] = impl[b] /\ im1 \in [Buffers -> ImplType \cup {y.i}]
  BY <1>1, <1>3, <1>5
<1>7. gl' = gs2
  BY <1>1 DEF CopyBufferSubData, WrittenTo
<1>8. /\ y = GetClientShadowCopyData(world, impl[a], gl[a])
      /\ z = SetSubDataImpl(y.w, im1[b], gl[b], cells, y.bytes)
      /\ Becomes(impl, a, y.i, im1) /\ Becomes(im1, b, z.i, im2)
      /\ Becomes(gl, b, WrittenTo(gl[b], cells, gl[a].data), gs2)
  BY <1>6 DEF Becomes
<1> HIDE DEF y, z, im1, im2, gs2
<1>9. /\ CoreOK(client, y.w, im1, gl) /\ SameStorages(impl[a], y.i) /\ y.w.mem.made = world.mem.made
      /\ y.bytes \in Data /\ (Waits(client) => Agrees(y.bytes, gl[a].data))
  <2>1. CoreOK(client, world, impl, gl) /\ gl[a].access = "none"
    BY <1>1, <1>3
  <2> QED
    BY <2>1, <1>4, <1>8, CoreReads
<1>10. y.w.mem.made + 1 <= MaxStorages
  BY <1>3, <1>9
<1>11. CoreOK(client, z.w, im2, gs2)
  <2>1. CoreOK(client, y.w, im1, gl) /\ gl[b].access = "none" /\ cells \subseteq Extent(gl[b].size)
    BY <1>3, <1>9
  <2>2. y.bytes \in Data /\ (Waits(client) => Agrees(y.bytes, gl[a].data))
    BY <1>9
  <2> QED
    BY <1>2, <2>1, <2>2, <1>8, <1>10, CoreCopies
<1>12. \A d \in Buffers : d # b => im2[d] = im1[d] /\ gs2[d] = gl[d]
  BY <1>1, <1>6, <1>8 DEF Becomes
<1>13. \A d \in Buffers : d # b => SameStorages(impl[d], im1[d])
  BY <1>1, <1>8, <1>9 DEF SameStorages, Becomes
<1>14. OthersSame(impl, gl, b, im2, gs2) /\ Told(vao, b, vao')
  BY <1>5, <1>12, <1>13 DEF OthersSame, Told, NotifyVertexArrays
<1>15. VaosOK(im2, gs2, vao')
  BY <1>1, <1>14, Notified
<1> QED
  BY <1>5, <1>6, <1>7, <1>11, <1>15 DEF BufferInv

LEMMA CopyBufferSubDataInv ==
    ASSUME BufferInv, client' = client, NEW a \in Buffers, NEW b \in Buffers, NEW cells \in client.ranges,
           CopyBufferSubData(a, b, cells)
    PROVE  BufferInv'
BY CopyByBlitInv, CopyByCpuInv

LEMMA MapBufferRangeInv ==
    ASSUME BufferInv, client' = client, NEW b \in Buffers, NEW access \in client.accesses,
           NEW cells \in client.ranges, MapBufferRange(b, access, cells)
    PROVE  BufferInv'
<1> DEFINE i == impl[b]
           g == gl[b]
           y == MapRangeImpl(world, i, g, access)
           h == MappedFor(g, access, cells)
<1>1. /\ client \in Clients /\ WorldOK(world) /\ Built(world, i, g) /\ Allowed(client, i, g)
      /\ impl \in [Buffers -> ImplType] /\ gl \in [Buffers -> GLType] /\ g \in GLType
  BY CoreFacts DEF BufferInv
<1>2. cells \in SUBSET Cells /\ cells # {} /\ access \in Accesses
  BY <1>1, ClientFacts
<1>3. /\ g.access = "none" /\ g.size > 0 /\ cells \subseteq Extent(g.size)
      /\ access = "unsync" => world.queue = <<>>
      /\ access = "invalidate" => ResetRoom(world, i.pool)
  BY DEF MapBufferRange, Enabled, Specified, RoomToReset, ResetRoom
<1>4. world' = y.w /\ impl' = [impl EXCEPT ![b] = y.i] /\ vao' = vao
  BY DEF MapBufferRange, Become
<1>5. gl' = [gl EXCEPT ![b] = h]
  BY <1>1 DEF MapBufferRange, MappedFor
<1>6. /\ h.access = access /\ h.size = g.size /\ h.usage = g.usage /\ access # "none"
  BY <1>1, <1>2 DEF MappedFor, GLType, Accesses
<1>7. y = MapRangeImpl(world, i, g, access) /\ h = MappedFor(g, access, cells)
  OBVIOUS
<1> HIDE DEF y, h
<1>8. Step(world, i, g, y.w, y.i, h) /\ (i.conv.dirty => y.i.conv.dirty)
  BY <1>1, <1>2, <1>3, <1>7, MapBufferRangeStep
<1>9. Allowed(client, y.i, h)
  BY <1>1, <1>6, <1>8 DEF Allowed
<1> QED
  BY <1>4, <1>5, <1>6, <1>8, <1>9, CallQuiet

LEMMA WriteMappedInv ==
    ASSUME BufferInv, client' = client, NEW b \in Buffers, NEW bytes \in Bytes, WriteMapped(b, bytes)
    PROVE  BufferInv'
<1> DEFINE i == impl[b]
           g == gl[b]
           h == WrittenTo(g, g.range, bytes)
<1>1. /\ client \in Clients /\ WorldOK(world) /\ Built(world, i, g) /\ Allowed(client, i, g)
      /\ impl \in [Buffers -> ImplType] /\ gl \in [Buffers -> GLType] /\ g \in GLType
  BY CoreFacts DEF BufferInv
<1>2. g.access \in {"write", "invalidate", "unsync"}
  BY DEF WriteMapped
<1>3. g.access # "none" /\ g.access # "read"
  BY <1>2
<1>4. gl' = [gl EXCEPT ![b] = h] /\ vao' = vao
  BY <1>1 DEF WriteMapped, WrittenTo
<1>5. g.range \in SUBSET Cells /\ g.range \subseteq Extent(g.size)
  BY <1>1, <1>3 DEF Built, Fits, GLType
<1>6. h = WrittenTo(g, g.range, bytes)
  OBVIOUS
<1>7. h.size = g.size /\ h.usage = g.usage /\ h.access = g.access
  BY <1>1, <1>5, <1>6, WrittenShape
<1>8. h.access # "none"
  BY <1>3, <1>7
<1>9. CASE Single(i)
  <2> DEFINE v == CpuWrite(world, i.buf, g.range, bytes)
  <2>1. world' = v /\ impl' = [impl EXCEPT ![b] = i] /\ v = CpuWrite(world, i.buf, g.range, bytes)
    BY <1>9 DEF WriteMapped, Become
  <2> HIDE DEF v, h
  <2>2. Step(world, i, g, v, i, h)
    BY <1>1, <1>3, <1>6, <1>9, <2>1, StorageWritten
  <2>3. Allowed(client, i, h)
    BY <1>1, <1>7 DEF Allowed
  <2> QED
    BY <1>4, <1>8, <2>1, <2>2, <2>3, CallQuiet
<1>10. CASE ~Single(i)
  <2> DEFINE j == [i EXCEPT !.shadow = Merge(@, g.range, bytes)]
  <2>1. world' = world /\ impl' = [impl EXCEPT ![b] = j] /\ j = [i EXCEPT !.shadow = Merge(@, g.range, bytes)]
    BY <1>10 DEF WriteMapped, Become
  <2>2. j.conv = i.conv
    BY <1>1 DEF Built, ImplType
  <2> HIDE DEF j, h
  <2>3. Step(world, i, g, world, j, h)
    BY <1>1, <1>3, <1>6, <1>10, <2>1, ShadowWritten
  <2>4. Allowed(client, j, h)
    BY <1>1, <1>7, <2>2 DEF Allowed
  <2> QED
    BY <1>4, <1>8, <2>1, <2>3, <2>4, CallQuiet
<1> QED
  BY <1>9, <1>10

LEMMA UnmapBufferInv ==
    ASSUME BufferInv, client' = client, NEW b \in Buffers, UnmapBuffer(b)
    PROVE  BufferInv'
<1> DEFINE i == impl[b]
           g == gl[b]
           y == UnmapImpl([w |-> world, i |-> MarkConversionBuffersDirty(i)], g)
           h == [g EXCEPT !.access = "none", !.range = {}]
<1>1. /\ client \in Clients /\ WorldOK(world) /\ Built(world, i, g) /\ Allowed(client, i, g)
      /\ impl \in [Buffers -> ImplType] /\ gl \in [Buffers -> GLType] /\ g \in GLType
      /\ world.mem.made \in Nat
  BY CoreFacts DEF BufferInv
<1>2. g.access # "none" /\ world.mem.made + 1 <= MaxStorages
  BY <1>1, StoragesAre DEF UnmapBuffer, Room
<1>3. world' = y.w /\ impl' = [impl EXCEPT ![b] = y.i] /\ NotifyVertexArrays(b)
  BY DEF UnmapBuffer, Become
<1>4. gl' = [gl EXCEPT ![b] = h]
  BY <1>1 DEF UnmapBuffer
<1>5. h.size = g.size /\ h.usage = g.usage /\ h.access = "none"
  BY <1>1 DEF GLType
<1>6. /\ y = UnmapImpl([w |-> world, i |-> MarkConversionBuffersDirty(i)], g)
      /\ h = [g EXCEPT !.access = "none", !.range = {}]
  OBVIOUS
<1> HIDE DEF y, h
<1>7. Step(world, i, g, y.w, y.i, h) /\ y.i.conv.dirty
  BY <1>1, <1>2, <1>6, UnmapBufferStep
<1>8. Allowed(client, y.i, h)
  BY <1>1, <1>5, <1>7 DEF Allowed
<1> QED
  BY <1>3, <1>4, <1>7, <1>8, CallNotifies

LEMMA DeleteBufferInv ==
    ASSUME BufferInv, client' = client, NEW b \in Buffers, DeleteBuffer(b)
    PROVE  BufferInv'
<1>1. /\ WorldOK(world) /\ Built(world, impl[b], gl[b]) /\ world.mem \in MemoryType
  BY CoreFacts, WorldFacts DEF BufferInv
<1>2. Step(world, impl[b], gl[b], world, NewImpl, NewGL)
  BY <1>1, DeleteStep
<1>3. Allowed(client, NewImpl, NewGL)
  BY <1>1, NewImplType DEF Allowed
<1> QED
  BY <1>2, <1>3, CallNotifies DEF DeleteBuffer

\* The GPU or the command buffers move on, and the buffers stay.
LEMMA MovesInv ==
    ASSUME BufferInv, client' = client, NEW v, Moves(world, v, {}), world' = v,
           impl' = impl, gl' = gl, vao' = vao
    PROVE  BufferInv'
<1>1. CoreOK(client, world, impl, gl) /\ VaosOK(impl, gl, vao)
  BY DEF BufferInv
<1>2. CoreOK(client, v, impl, gl)
  BY <1>1, CoreMoves
<1> QED
  BY <1>1, <1>2 DEF BufferInv

LEMMA GlFlushInv ==
    ASSUME BufferInv, client' = client, GlFlush
    PROVE  BufferInv'
<1>1. WorldOK(world)
  BY DEF BufferInv, CoreOK, Standing
<1>2. Moves(world, Flush(world), {})
  BY <1>1, FlushMoves
<1> QED
  BY <1>2, MovesInv DEF GlFlush

LEMMA GpuStepInv ==
    ASSUME BufferInv, client' = client, GpuStep
    PROVE  BufferInv'
<1>1. WorldOK(world)
  BY DEF BufferInv, CoreOK, Standing
<1>2. world.queue # <<>> /\ Head(world.queue).serial < world.now
  BY DEF GpuStep
<1>3. Moves(world, [Execute(world, Head(world.queue)) EXCEPT !.queue = Tail(@)], {})
  BY <1>1, <1>2, GpuStepMoves
<1> QED
  BY <1>3, MovesInv DEF GpuStep

LEMMA CompleteInv ==
    ASSUME BufferInv, client' = client, NEW s \in 1..MaxSerial, Complete(s)
    PROVE  BufferInv'
<1>1. WorldOK(world) /\ s \in Nat /\ world.done \in Nat /\ world.now \in Nat
  <2>1. WorldOK(world)
    BY DEF BufferInv, CoreOK, Standing
  <2> QED
    BY <2>1, WorldFacts, BufferAssumption
<1>2. world.done < s /\ s < world.now /\ \A i \in DOMAIN world.queue : world.queue[i].serial > s
  BY <1>1 DEF Complete
<1>3. Moves(world, [world EXCEPT !.done = s], {})
  BY <1>1, <1>2, CompleteMoves
<1> QED
  BY <1>3, MovesInv DEF Complete

\* What a draw must fetch from the buffer with the GL state g.
WantedOf(g, kind) == IF kind = "direct" THEN g.data ELSE ConvertedData(g.data)

LEMMA WantedIs ==
    ASSUME BufferInv, NEW b \in Buffers, NEW kind \in Kinds
    PROVE  Wanted(b, kind) = WantedOf(gl[b], kind) /\ WantedOf(gl[b], kind) \in Data
<1>1. gl[b].data \in Bytes /\ gl[b].data \in Data
  <2>1. gl[b] \in GLType
    BY CoreFacts DEF BufferInv
  <2> QED
    BY <2>1, BytesData DEF GLType
<1>2. kind \in {"direct", "converted"}
  BY DEF Kinds
<1>3. CASE kind = "direct"
  <2>1. Wanted(b, kind) = [c \in Cells |-> gl[b].data[c]]
    BY <1>3 DEF Wanted
  <2>2. gl[b].data = [c \in Cells |-> gl[b].data[c]]
    BY <1>1 DEF Data
  <2> QED
    BY <1>1, <1>3, <2>1, <2>2 DEF WantedOf
<1>4. CASE kind = "converted"
  <2>1. Wanted(b, kind) = ConvertedData(gl[b].data)
    BY <1>4 DEF Wanted, ConvertedData
  <2>2. Converted(gl[b].data) \in Data
    BY <1>1, ConvertedType
  <2>3. ConvertedData(gl[b].data) \in Data
    BY <2>2, BlankType DEF Data, ConvertedData
  <2> QED
    BY <1>4, <2>1, <2>3 DEF WantedOf
<1> QED
  BY <1>2, <1>3, <1>4

\* The storage s of the buffer i is the one that a draw is to fetch from.
Fetches(i, kind, s) ==
    /\ kind = "direct" => s = i.buf /\ s # NoBuffer
    /\ kind = "converted" => s = i.conv.buf /\ ~i.conv.dirty

LEMMA FetchFacts ==
    ASSUME NEW w, WorldOK(w), NEW i, NEW g, Built(w, i, g), g.access = "none", g.size > 0,
           NEW kind \in Kinds, NEW s, Fetches(i, kind, s)
    PROVE  /\ s \in Own(i) /\ s \in Storages
           /\ Whole(w, i, g) /\ Turned(w, i, g) => Agrees(LastGPU(w, s), WantedOf(g, kind))
<1>1. kind \in {"direct", "converted"}
  BY DEF Kinds
<1>2. CASE kind = "direct"
  <2>1. s = i.buf /\ s # NoBuffer
    BY <1>2 DEF Fetches
  <2>2. s \in Own(i) /\ s \in Storages
    BY <2>1, BuiltFacts
  <2>3. ASSUME Whole(w, i, g) PROVE Agrees(LastGPU(w, s), g.data)
    BY <2>1, <2>3 DEF Whole, UnmappedOK, HasOn, Agrees
  <2> QED
    BY <1>2, <2>2, <2>3 DEF WantedOf
<1>3. CASE kind = "converted"
  <2>1. s = i.conv.buf /\ ~i.conv.dirty
    BY <1>3 DEF Fetches
  <2>2. s \in Own(i) /\ s \in Storages
    BY <2>1, BuiltFacts
  <2>3. ASSUME Turned(w, i, g) PROVE Agrees(LastGPU(w, s), ConvertedData(g.data))
    BY <2>1, <2>3 DEF Turned
  <2>4. WantedOf(g, kind) = ConvertedData(g.data)
    BY <1>3 DEF WantedOf
  <2> QED
    BY <2>2, <2>3, <2>4
<1> QED
  BY <1>1, <1>2, <1>3

\* The attribute of kind k of b is bound to the storage s.
Bound(va, b, k, s, va2) == va2 = [va EXCEPT ![b][k] = [dirty |-> FALSE, bound |-> s]]

LEMMA VaoBound ==
    ASSUME NEW im, NEW gs, NEW va, VaosOK(im, gs, va), NEW b \in Buffers, NEW k \in Kinds,
           NEW s \in Storages, NEW j, Fetches(j, k, s), k = "direct" => SameStorages(im[b], j),
           j.buf = im[b].buf,
           NEW im2, Changed(im, b, j, im2), NEW va2, Bound(va, b, k, s, va2)
    PROVE  VaosOK(im2, gs, va2)
<1>1. va \in [Buffers -> VaoType] /\ \A a \in Buffers : VaoOK(im[a], gs[a], va[a])
  BY DEF VaosOK
<1>2. va[b] \in VaoType
  BY <1>1
<1>3. /\ va2 \in [Buffers -> VaoType] /\ \A a \in Buffers : a # b => va2[a] = va[a]
      /\ va2[b] = [va[b] EXCEPT ![k] = [dirty |-> FALSE, bound |-> s]]
  BY <1>1, <1>2 DEF Bound, VaoType
<1>4. /\ va2[b] \in VaoType /\ va2[b][k].dirty = FALSE /\ va2[b][k].bound = s
      /\ \A l \in Kinds : l # k => va2[b][l] = va[b][l]
  BY <1>2, <1>3 DEF VaoType
<1>5. \A a \in Buffers : a # b => VaoOK(im2[a], gs[a], va2[a])
  BY <1>1, <1>3 DEF Changed
<1>6. VaoOK(j, gs[b], va2[b])
  <2>1. VaoOK(im[b], gs[b], va[b])
    BY <1>1
  <2>2. \A l \in Kinds : ~va2[b][l].dirty => va2[b][l].bound \in Storages
    BY <1>4, <2>1 DEF VaoOK
  <2>3. ASSUME gs[b].access = "none", gs[b].size > 0
        PROVE  /\ va2[b]["direct"].dirty \/ va2[b]["direct"].bound = j.buf
               /\ va2[b]["converted"].dirty \/ va2[b]["converted"].bound = j.conv.buf
    <3>1. /\ va[b]["direct"].dirty \/ va[b]["direct"].bound = im[b].buf
          /\ va[b]["converted"].dirty \/ va[b]["converted"].bound = im[b].conv.buf
      BY <2>1, <2>3 DEF VaoOK
    <3>2. CASE k = "direct"
      <4>1. s = j.buf /\ j.conv.buf = im[b].conv.buf /\ va2[b]["converted"] = va[b]["converted"]
        BY <1>4, <3>2 DEF Fetches, SameStorages, Kinds
      <4> QED
        BY <1>4, <3>1, <3>2, <4>1
    <3>3. CASE k = "converted"
      <4>1. s = j.conv.buf /\ va2[b]["direct"] = va[b]["direct"]
        BY <1>4, <3>3 DEF Fetches, Kinds
      <4> QED
        BY <1>4, <3>1, <3>3, <4>1
    <3> QED
      BY <3>2, <3>3 DEF Kinds
  <2> QED
    BY <1>4, <2>2, <2>3 DEF VaoOK
<1> QED
  BY <1>3, <1>5, <1>6 DEF VaosOK, Changed

\* A draw fetches from the storage s of the buffer b, which is j by then.
LEMMA DrawFromInv ==
    ASSUME BufferInv, client' = client, NEW b \in Buffers, NEW kind \in Kinds,
           gl[b].access = "none", gl[b].size > 0,
           NEW x, NEW im2, Becomes(impl, b, x.i, im2), CoreOK(client, x.w, im2, gl),
           x.i.buf = impl[b].buf, kind = "direct" => x.i = impl[b],
           NEW s, Fetches(x.i, kind, s), DrawFrom(b, kind, x, s), gl' = gl
    PROVE  BufferInv'
<1> DEFINE bytes == Wanted(b, kind)
           v == Record(x.w, Command("draw", s, NoBuffer, Cells, bytes))
<1>1. impl \in [Buffers -> ImplType] /\ VaosOK(impl, gl, vao)
  BY DEF BufferInv, CoreOK
<1>2. im2[b] = x.i /\ Changed(impl, b, x.i, im2)
  BY <1>1 DEF Becomes, Changed
<1>3. WorldOK(x.w) /\ Built(x.w, x.i, gl[b])
  BY <1>2, CoreFacts
<1>4. bytes = WantedOf(gl[b], kind) /\ bytes \in Data
  BY WantedIs
<1>5. /\ s \in Own(x.i) /\ s \in Storages
      /\ Whole(x.w, x.i, gl[b]) /\ Turned(x.w, x.i, gl[b]) => Agrees(LastGPU(x.w, s), bytes)
  BY <1>3, <1>4, FetchFacts
<1>6. Waits(client) /\ Marks(client) => Agrees(LastGPU(x.w, s), bytes)
  BY <1>2, <1>5 DEF CoreOK, AllWhole, AllTurned
<1>7. world' = v /\ impl' = [impl EXCEPT ![b] = x.i]
  BY DEF DrawFrom, Become
<1>8. Bound(vao, b, kind, s, vao')
  BY DEF DrawFrom, Bound
<1>9. impl' = im2 /\ v = Record(x.w, Command("draw", s, NoBuffer, Cells, bytes)) /\ s \in Own(im2[b])
  BY <1>2, <1>5, <1>7 DEF Becomes
<1> HIDE DEF v, bytes
<1>10. CoreOK(client, v, im2, gl)
  BY <1>4, <1>6, <1>9, CoreDraws
<1>11. VaosOK(im2, gl, vao')
  BY <1>1, <1>2, <1>5, <1>8, VaoBound DEF SameStorages
<1> QED
  BY <1>7, <1>9, <1>10, <1>11 DEF BufferInv

\* The attribute is bound to what it must fetch from.
LEMMA BoundDrawInv ==
    ASSUME BufferInv, client' = client, NEW b \in Buffers, NEW kind \in Kinds,
           gl[b].access = "none", gl[b].size > 0,
           NEW x, x.w = world, x.i = impl[b],
           NEW s, Fetches(impl[b], kind, s), DrawFrom(b, kind, x, s), gl' = gl
    PROVE  BufferInv'
<1>1. CoreOK(client, world, impl, gl) /\ impl \in [Buffers -> ImplType]
  BY DEF BufferInv, CoreOK
<1>2. Becomes(impl, b, x.i, impl)
  BY <1>1 DEF Becomes
<1> QED
  BY <1>1, <1>2, DrawFromInv

\* A vertex array that is not marked has what the buffer has.
LEMMA BoundFetches ==
    ASSUME BufferInv, NEW b \in Buffers, NEW kind \in Kinds, gl[b].access = "none", gl[b].size > 0,
           ~vao[b][kind].dirty
    PROVE  Fetches(impl[b], kind, vao[b][kind].bound)
<1>1. /\ VaoOK(impl[b], gl[b], vao[b]) /\ Built(world, impl[b], gl[b]) /\ WorldOK(world)
  BY CoreFacts DEF BufferInv, VaosOK
<1>2. vao[b][kind].bound \in Storages
  BY <1>1 DEF VaoOK
<1>3. vao[b][kind].bound # NoBuffer
  BY <1>2, StoragesAre
<1>4. kind = "direct" => vao[b][kind].bound = impl[b].buf
  BY <1>1 DEF VaoOK
<1>5. kind = "converted" => vao[b][kind].bound = impl[b].conv.buf
  BY <1>1 DEF VaoOK
<1>6. impl[b].conv.buf # NoBuffer => ~impl[b].conv.dirty
  BY <1>1 DEF Built, PoolsFit
<1> QED
  BY <1>3, <1>4, <1>5, <1>6 DEF Fetches

\* The attribute is marked, and converted before it is drawn.
LEMMA ConvertedDrawInv ==
    ASSUME BufferInv, client' = client, NEW b \in Buffers, NEW kind \in Kinds, kind = "converted",
           gl[b].access = "none", gl[b].size > 0, world.mem.made + 1 <= MaxStorages,
           "DrawConverted" \in client.calls, NEW onGPU,
           NEW x, x = ConvertVertexBuffer(world, impl[b], gl[b], onGPU),
           DrawFrom(b, kind, x, x.i.conv.buf), gl' = gl
    PROVE  BufferInv'
<1>1. /\ CoreOK(client, world, impl, gl) /\ WorldOK(world) /\ Built(world, impl[b], gl[b])
      /\ Allowed(client, impl[b], gl[b]) /\ gl \in [Buffers -> GLType]
  BY CoreFacts DEF BufferInv
<1>2. /\ Step(world, impl[b], gl[b], x.w, x.i, gl[b]) /\ ~x.i.conv.dirty /\ x.i.buf = impl[b].buf
  BY <1>1, ConvertVertexBufferStep
<1>3. Allowed(client, x.i, gl[b])
  BY <1>1 DEF Allowed
<1> DEFINE im2 == [impl EXCEPT ![b] = x.i]
<1>4. Becomes(impl, b, x.i, im2) /\ Becomes(gl, b, gl[b], gl)
  BY <1>1 DEF Becomes
<1> HIDE DEF im2
<1>5. CoreOK(client, x.w, im2, gl)
  BY <1>1, <1>2, <1>3, <1>4, CoreStep
<1>6. Fetches(x.i, kind, x.i.conv.buf) /\ kind # "direct"
  BY <1>2 DEF Fetches
<1> DEFINE s == x.i.conv.buf
<1>7. Fetches(x.i, kind, s) /\ DrawFrom(b, kind, x, s)
  BY <1>6
<1> HIDE DEF s
<1> QED
  BY <1>2, <1>4, <1>5, <1>6, <1>7, DrawFromInv

LEMMA DrawInv ==
    ASSUME BufferInv, client' = client, NEW b \in Buffers, NEW kind \in Kinds, NEW onGPU \in BOOLEAN,
           Draw(b, kind, onGPU)
    PROVE  BufferInv'
<1>1. /\ WorldOK(world) /\ Built(world, impl[b], gl[b]) /\ world.mem.made \in Nat
  BY CoreFacts DEF BufferInv
<1>2. /\ gl[b].access = "none" /\ gl[b].size > 0 /\ world.mem.made + 1 <= MaxStorages /\ gl' = gl
      /\ kind # "direct" => "DrawConverted" \in client.calls
  BY <1>1, StoragesAre DEF Draw, Enabled, Specified, Room
<1> DEFINE x == [w |-> world, i |-> impl[b]]
<1>3. x.w = world /\ x.i = impl[b]
  OBVIOUS
<1>4. CASE ~vao[b][kind].dirty
  <2> DEFINE s == vao[b][kind].bound
  <2>1. DrawFrom(b, kind, x, s)
    BY <1>4 DEF Draw
  <2>2. Fetches(impl[b], kind, s)
    BY <1>2, <1>4, BoundFetches
  <2> HIDE DEF x, s
  <2> QED
    BY <1>2, <1>3, <2>1, <2>2, BoundDrawInv
<1>5. CASE vao[b][kind].dirty /\ kind = "direct"
  <2> DEFINE s == impl[b].buf
  <2>1. DrawFrom(b, kind, x, s)
    BY <1>5 DEF Draw
  <2>2. Fetches(impl[b], kind, s)
    BY <1>1, <1>2, <1>5, BuiltFacts DEF Fetches
  <2> HIDE DEF x, s
  <2> QED
    BY <1>2, <1>3, <2>1, <2>2, BoundDrawInv
<1>6. CASE vao[b][kind].dirty /\ kind # "direct"
  <2>1. kind = "converted"
    BY <1>6 DEF Kinds
  <2> DEFINE y == ConvertVertexBuffer(world, impl[b], gl[b], onGPU)
  <2>2. DrawFrom(b, kind, y, y.i.conv.buf) /\ y = ConvertVertexBuffer(world, impl[b], gl[b], onGPU)
    BY <1>6, <2>1 DEF Draw
  <2> HIDE DEF y
  <2> QED
    BY <1>2, <1>6, <2>1, <2>2, ConvertedDrawInv
<1> QED
  BY <1>4, <1>5, <1>6

-----------------------------------------------------------------------------
(* The invariant. *)

LEMMA NewWorldOK == WorldOK(NewWorld) /\ NewWorld.mem.made = 0 /\ NewWorld.mem \in MemoryType
<1>1. NewWorld.queue = <<>> /\ Len(NewWorld.queue) = 0 /\ NewWorld.now = 1 /\ NewWorld.done = 0
  BY DEF NewWorld
<1>2. /\ NewMemory \in MemoryType /\ NewMemory.made = 0
      /\ \A s \in Storages : NewMemory.usage[s] = 0
  BY StoragesAre DEF NewMemory, MemoryType
<1>3. NewWorld.mem = NewMemory
  BY DEF NewWorld
<1>4. NewWorld \in WorldType
  BY <1>2, BlankType DEF NewWorld, WorldType
<1>5. Ordered(NewWorld)
  BY <1>1, <1>2, <1>3 DEF Ordered
<1>6. Coherent(NewWorld)
  BY DEF Coherent, NewWorld
<1> QED
  BY <1>2, <1>3, <1>4, <1>5, <1>6 DEF WorldOK

LEMMA InitInv == Init => BufferInv
<1> SUFFICES ASSUME Init PROVE BufferInv
  OBVIOUS
<1>1. /\ client \in Clients /\ world = NewWorld
      /\ impl = [b \in Buffers |-> NewImpl] /\ gl = [b \in Buffers |-> NewGL]
  BY DEF Init
<1>2. WorldOK(world) /\ world.mem \in MemoryType /\ Len(world.queue) = 0
  BY <1>1, NewWorldOK DEF NewWorld
<1>3. /\ NewImpl \in ImplType /\ NewGL \in GLType /\ Own(NewImpl) = {} /\ PoolsFit(NewImpl, world.mem)
      /\ Fits(NewImpl, NewGL) /\ NewImpl.conv.dirty /\ NewGL.size = 0 /\ NewGL.access = "none"
  BY <1>2, NewImplType
<1>4. \A b \in Buffers : impl[b] = NewImpl /\ gl[b] = NewGL
  BY <1>1
<1>5. impl \in [Buffers -> ImplType] /\ gl \in [Buffers -> GLType]
  BY <1>1, <1>3
<1>6. \A b \in Buffers : Built(world, impl[b], gl[b])
  BY <1>3, <1>4 DEF Built, Ready
<1>7. Apart(impl)
  BY <1>3, <1>4 DEF Apart
<1>8. \A b \in Buffers : Allowed(client, impl[b], gl[b])
  BY <1>3, <1>4 DEF Allowed
<1>9. AllWhole(world, impl, gl) /\ AllTurned(world, impl, gl)
  BY <1>3, <1>4 DEF AllWhole, AllTurned, Whole, Turned
<1>10. DrawsRight(world)
  BY <1>2 DEF DrawsRight
<1>11. CoreOK(client, world, impl, gl)
  BY <1>1, <1>2, <1>5, <1>6, <1>7, <1>8, <1>9, <1>10 DEF CoreOK, Standing
<1>12. VaosOK(impl, gl, vao)
  <2>1. vao = [b \in Buffers |-> [k \in Kinds |-> [dirty |-> TRUE, bound |-> NoBuffer]]]
    BY DEF Init
  <2>2. [k \in Kinds |-> [dirty |-> TRUE, bound |-> NoBuffer]] \in VaoType
    BY DEF VaoType
  <2>3. /\ vao \in [Buffers -> VaoType]
        /\ \A b \in Buffers : \A k \in Kinds : vao[b][k].dirty = TRUE
    BY <2>1, <2>2
  <2> QED
    BY <2>3 DEF VaosOK, VaoOK, Kinds
<1> QED
  BY <1>11, <1>12 DEF BufferInv

\* Every step of every client keeps the invariant.
LEMMA NextInv == BufferInv /\ [Next]_vars => BufferInv'
<1> SUFFICES ASSUME BufferInv, [Next]_vars PROVE BufferInv'
  OBVIOUS
<1>1. CASE UNCHANGED vars
  BY <1>1 DEF vars, BufferInv
<1>2. CASE Next
  <2>1. client' = client
    BY <1>2 DEF Next
  <2>2. client \in Clients
    BY DEF BufferInv, CoreOK
  <2>3. \A b \in client.buffers : b \in Buffers
    BY <2>2, ClientFacts
  <2>4. \A b \in Buffers : NewBytes(b) \in Bytes
    BY NewBytesType
  <2>5. ASSUME NEW b \in client.buffers, NEW n \in Sizes, NEW usage \in client.usages,
               BufferData(b, n, usage, NewBytes(b)) \/ BufferData(b, n, usage, Null)
        PROVE  BufferInv'
    <3>1. b \in Buffers
      BY <2>3
    <3>2. CASE BufferData(b, n, usage, NewBytes(b))
      <4> DEFINE data == NewBytes(b)
      <4>1. data \in Bytes \cup {Null} /\ BufferData(b, n, usage, data)
        BY <2>4, <3>1, <3>2
      <4> HIDE DEF data
      <4> QED
        BY <2>1, <3>1, <4>1, BufferDataInv
    <3>3. CASE BufferData(b, n, usage, Null)
      <4>1. Null \in Bytes \cup {Null}
        OBVIOUS
      <4> QED
        BY <2>1, <3>1, <3>3, <4>1, BufferDataInv
    <3> QED
      BY <2>5, <3>2, <3>3
  <2>6. ASSUME NEW b \in client.buffers, NEW cells \in client.ranges,
               BufferSubData(b, cells, NewBytes(b)) \/ ReadPixels(b, cells, NewBytes(b))
        PROVE  BufferInv'
    <3>1. b \in Buffers
      BY <2>3
    <3> DEFINE data == NewBytes(b)
    <3>2. data \in Bytes /\ (BufferSubData(b, cells, data) \/ ReadPixels(b, cells, data))
      BY <2>4, <2>6, <3>1
    <3> HIDE DEF data
    <3> QED
      BY <2>1, <3>1, <3>2, BufferSubDataInv, ReadPixelsInv
  <2>7. ASSUME NEW b \in client.buffers, WriteMapped(b, NewBytes(b))
        PROVE  BufferInv'
    <3>1. b \in Buffers
      BY <2>3
    <3> DEFINE data == NewBytes(b)
    <3>2. data \in Bytes /\ WriteMapped(b, data)
      BY <2>4, <2>7, <3>1
    <3> HIDE DEF data
    <3> QED
      BY <2>1, <3>1, <3>2, WriteMappedInv
  <2>8. ASSUME NEW a \in client.buffers, NEW b \in client.buffers, NEW cells \in client.ranges,
               CopyBufferSubData(a, b, cells)
        PROVE  BufferInv'
    BY <2>1, <2>3, <2>8, CopyBufferSubDataInv
  <2>9. ASSUME NEW b \in client.buffers, NEW access \in client.accesses, NEW cells \in client.ranges,
               MapBufferRange(b, access, cells)
        PROVE  BufferInv'
    BY <2>1, <2>3, <2>9, MapBufferRangeInv
  <2>10. ASSUME NEW b \in client.buffers, NEW kind \in Kinds, NEW onGPU \in BOOLEAN, Draw(b, kind, onGPU)
         PROVE  BufferInv'
    BY <2>1, <2>3, <2>10, DrawInv
  <2>11. ASSUME NEW b \in client.buffers, UnmapBuffer(b) \/ DeleteBuffer(b)
         PROVE  BufferInv'
    BY <2>1, <2>3, <2>11, UnmapBufferInv, DeleteBufferInv
  <2>12. ASSUME GlFlush \/ GpuStep \/ \E s \in 1..MaxSerial : Complete(s)
         PROVE  BufferInv'
    BY <2>1, <2>12, GlFlushInv, GpuStepInv, CompleteInv
  <2> QED
    BY <1>2, <2>5, <2>6, <2>7, <2>8, <2>9, <2>10, <2>11, <2>12 DEF Next
<1> QED
  BY <1>1, <1>2

\* The inductive invariant, for every repertoire of a client: the world is in
\* order, no two buffers share a storage, the contents of every buffer are
\* where they will be looked for unless the client maps a static buffer without
\* synchronization, and vertex arrays are marked when storages are replaced.
THEOREM ContentsInvariant == Spec => []BufferInv
<1>1. Init => BufferInv
  BY InitInv
<1>2. BufferInv /\ [Next]_vars => BufferInv'
  BY NextInv
<1> QED
  BY <1>1, <1>2, PTL DEF Spec

LEMMA InvTyped == BufferInv => TypeOK
<1> SUFFICES ASSUME BufferInv PROVE TypeOK
  OBVIOUS
<1>1. client \in Clients /\ CoreOK(client, world, impl, gl)
  BY DEF BufferInv, CoreOK
<1>2. WorldOK(world)
  BY <1>1 DEF CoreOK, Standing
<1>3. /\ world.now \in Nat /\ world.done \in Nat /\ world.done < world.now
      /\ world.mem.made \in Nat /\ world.mem.made <= MaxStorages
  BY <1>2, WorldFacts
<1>4. world.mem.made \in 0..MaxStorages
  BY <1>3, StoragesAre
<1>5. \A b \in Buffers : impl[b] \in ImplType /\ gl[b] \in GLType
  BY <1>1 DEF CoreOK
<1>6. ASSUME NEW b \in Buffers
      PROVE  /\ impl[b].buf \in Storages \cup {NoBuffer} /\ impl[b].shadowSize \in Nat
             /\ impl[b].conv.buf \in Storages \cup {NoBuffer}
             /\ gl[b].data \in Bytes /\ gl[b].access \in {"none", "read", "write", "invalidate", "unsync"}
  BY <1>5 DEF ImplType, GLType
<1> QED
  BY <1>1, <1>3, <1>4, <1>6 DEF TypeOK

\* The type invariant.
THEOREM BufferMtlTyped == Spec => []TypeOK
BY ContentsInvariant, InvTyped, PTL

LEMMA InvBound == BufferInv => BoundIsCurrent
<1> SUFFICES ASSUME BufferInv PROVE BoundIsCurrent
  OBVIOUS
<1>1. \A b \in Buffers : VaoOK(impl[b], gl[b], vao[b])
  BY DEF BufferInv, VaosOK
<1> QED
  BY <1>1 DEF VaoOK, BoundIsCurrent, Specified

\* A vertex array that is not marked draws the current storages of its buffer:
\* gl::Buffer tells its observers of every call that replaces one.
THEOREM BoundCurrent == Spec => []BoundIsCurrent
BY ContentsInvariant, InvBound, PTL

LEMMA InvReads == BufferInv => (Waits(client) => ReadsAreCurrent)
<1> SUFFICES ASSUME BufferInv, Waits(client), NEW b \in Buffers, gl[b].size > 0, gl[b].access = "none"
             PROVE  Agrees(GetClientShadowCopyData(world, impl[b], gl[b]).bytes, gl[b].data)
  BY DEF ReadsAreCurrent, Specified
<1>1. CoreOK(client, world, impl, gl)
  BY DEF BufferInv
<1> DEFINE y == GetClientShadowCopyData(world, impl[b], gl[b])
           im2 == [impl EXCEPT ![b] = y.i]
<1>2. y = GetClientShadowCopyData(world, impl[b], gl[b]) /\ Becomes(impl, b, y.i, im2)
  BY DEF Becomes
<1> HIDE DEF y, im2
<1>3. Agrees(y.bytes, gl[b].data)
  BY <1>1, <1>2, CoreReads
<1> QED
  BY <1>3 DEF y

\* What a client reads is what it or the GPU last wrote, if it does not map a
\* static buffer without synchronization.
THEOREM ReadsCurrent == Spec => [](Waits(client) => ReadsAreCurrent)
BY ContentsInvariant, InvReads, PTL

LEMMA InvDraws == BufferInv => (Waits(client) /\ Marks(client) => DrawsSeeTheirData)
<1> SUFFICES ASSUME BufferInv, Waits(client), Marks(client) PROVE DrawsSeeTheirData
  OBVIOUS
<1>1. DrawsRight(world) /\ WorldOK(world)
  BY DEF BufferInv, CoreOK, Standing
<1>2. DOMAIN world.queue = 1..Len(world.queue)
  BY <1>1, QueueFacts DEF WorldOK
<1> QED
  BY <1>1, <1>2 DEF DrawsRight, DrawsSeeTheirData, View, Ran

\* Every draw fetches the contents its buffer had when it was called, if the
\* client waits for the GPU where it must, and does not both copy buffers on
\* the GPU, which marks no conversion, and draw converted ones.
THEOREM DrawsSee == Spec => [](Waits(client) /\ Marks(client) => DrawsSeeTheirData)
BY ContentsInvariant, InvDraws, PTL
=============================================================================
