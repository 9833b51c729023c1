--------------------------- MODULE ShareGroupProofs ---------------------------
(***************************************************************************)
(* Proofs about the fences of a share group (SharedSyncs), and about what  *)
(* the group leaves when its contexts are destroyed, over the invariants   *)
(* of its buffers, programs, compilations and fences.                      *)
(***************************************************************************)
EXTENDS CompilationProofs

-----------------------------------------------------------------------------
(* Counting the work in a list of recorded or committed commands.           *)

IsWork(item, c) == item.kind = "work" /\ item.c = c

\* How much work of c the first n commands of q have.
WorkUpTo(q, n, c) == Cardinality({i \in 1..n : IsWork(q[i], c)})

\* A nonempty set of natural numbers has a least element.
LEMMA LeastNat ==
    ASSUME NEW S, S \subseteq Nat, S # {}
    PROVE  \E n \in S : \A m \in S : n <= m
<1>1. \E x \in S : \A y \in S : ~ (<<y, x>> \in OpToRel(<, Nat))
  BY NatLessThanWellFounded, WFMin
<1>2. PICK x \in S : \A y \in S : ~ (<<y, x>> \in OpToRel(<, Nat))
  BY <1>1
<1>3. \A y \in S : ~(y < x)
  BY <1>2 DEF OpToRel
<1>4. ASSUME NEW y \in S PROVE x <= y
  <2>1. x \in Nat /\ y \in Nat
    OBVIOUS
  <2>2. ~(y < x)
    BY <1>3
  <2> QED
    BY <2>1, <2>2
<1> QED
  BY <1>4

LEMMA WorkSteps ==
    ASSUME NEW q, NEW n \in Nat, NEW c
    PROVE  /\ WorkUpTo(q, 0, c) = 0 /\ WorkUpTo(q, n, c) \in Nat
           /\ WorkUpTo(q, n + 1, c) = WorkUpTo(q, n, c) + (IF IsWork(q[n + 1], c) THEN 1 ELSE 0)
<1> DEFINE W(k) == {i \in 1..k : IsWork(q[i], c)}
<1>1. WorkUpTo(q, 0, c) = 0
  <2>1. W(0) = {}
    OBVIOUS
  <2> QED
    BY <2>1, FS_EmptySet DEF WorkUpTo
<1>2. IsFiniteSet(W(n)) /\ Cardinality(W(n)) \in Nat
  <2>1. W(n) \in SUBSET (1..n) /\ IsFiniteSet(1..n)
    BY FS_Interval
  <2> QED
    BY <2>1, FS_Subset, FS_CardinalityType
<1>3. n + 1 \notin W(n)
  OBVIOUS
<1>4. CASE IsWork(q[n + 1], c)
  <2>1. W(n + 1) = W(n) \cup {n + 1}
    BY <1>4
  <2>2. Cardinality(W(n) \cup {n + 1}) = Cardinality(W(n)) + 1
    BY <1>2, <1>3, FS_AddElement
  <2> QED
    BY <1>1, <1>2, <1>4, <2>1, <2>2 DEF WorkUpTo
<1>5. CASE ~IsWork(q[n + 1], c)
  <2>1. W(n + 1) = W(n)
    BY <1>5
  <2>2. Cardinality(W(n)) = Cardinality(W(n)) + 0
    BY <1>2
  <2> QED
    BY <1>1, <1>2, <1>5, <2>1, <2>2 DEF WorkUpTo
<1> QED
  BY <1>4, <1>5

LEMMA EqualWork ==
    ASSUME NEW q, NEW r, NEW n \in Nat, NEW c, \A i \in 1..n : q[i] = r[i]
    PROVE  WorkUpTo(q, n, c) = WorkUpTo(r, n, c)
<1>1. {i \in 1..n : IsWork(q[i], c)} = {i \in 1..n : IsWork(r[i], c)}
  OBVIOUS
<1> QED
  BY <1>1 DEF WorkUpTo

LEMMA NoWork ==
    ASSUME NEW q, NEW n \in Nat, NEW c, \A i \in 1..n : ~IsWork(q[i], c)
    PROVE  WorkUpTo(q, n, c) = 0
<1>1. {i \in 1..n : IsWork(q[i], c)} = {}
  OBVIOUS
<1> QED
  BY <1>1, FS_EmptySet DEF WorkUpTo

\* r has the commands of q, k places further.
LEMMA WorkShifted ==
    ASSUME NEW q, NEW r, NEW k \in Nat, NEW n \in Nat, NEW c, \A i \in 1..n : r[k + i] = q[i]
    PROVE  WorkUpTo(r, k + n, c) = WorkUpTo(r, k, c) + WorkUpTo(q, n, c)
<1> DEFINE Adds(m) == WorkUpTo(r, k + m, c) = WorkUpTo(r, k, c) + WorkUpTo(q, m, c)
           S == {m \in 0..n : ~Adds(m)}
<1>1. Adds(0)
  BY WorkSteps
<1>2. ASSUME NEW m \in 0..n, m + 1 <= n, Adds(m) PROVE Adds(m + 1)
  <2>1. m \in Nat /\ k + m \in Nat /\ k + (m + 1) = (k + m) + 1 /\ m + 1 \in 1..n
    BY <1>2
  <2>2. r[(k + m) + 1] = q[m + 1]
    BY <2>1
  <2>3. /\ WorkUpTo(r, (k + m) + 1, c) = WorkUpTo(r, k + m, c) + (IF IsWork(q[m + 1], c) THEN 1 ELSE 0)
        /\ WorkUpTo(q, m + 1, c) = WorkUpTo(q, m, c) + (IF IsWork(q[m + 1], c) THEN 1 ELSE 0)
        /\ WorkUpTo(q, m, c) \in Nat /\ WorkUpTo(r, k, c) \in Nat
    BY <2>1, <2>2, WorkSteps
  <2> QED
    BY <1>2, <2>1, <2>3
<1> HIDE DEF Adds
<1>3. S = {}
  <2>1. SUFFICES ASSUME S # {} PROVE FALSE
    OBVIOUS
  <2>2. PICK m \in S : \A l \in S : m <= l
    <3>1. S \subseteq Nat
      OBVIOUS
    <3> HIDE DEF S
    <3> QED
      BY <2>1, <3>1, LeastNat
  <2>3. m # 0
    BY <1>1, <2>2
  <2>4. m - 1 \in 0..n /\ (m - 1) + 1 = m /\ m - 1 \notin S
    BY <2>2, <2>3
  <2>5. Adds(m - 1)
    BY <2>4
  <2>6. Adds((m - 1) + 1)
    BY <1>2, <2>2, <2>4, <2>5
  <2> QED
    BY <2>2, <2>4, <2>6
<1>4. n \in 0..n
  OBVIOUS
<1>5. Adds(n)
  BY <1>3, <1>4
<1> QED
  BY <1>5 DEF Adds

-----------------------------------------------------------------------------
(* The invariant. *)

ItemType ==
    {i \in [kind : {"work", "signal", "wait"}, c : Contexts, event : 0..MaxEvents, value : Nat] :
       (i.kind = "work") <=> (i.event = 0)}

SyncType ==
    [exists : BOOLEAN, event : 0..MaxEvents, counter : Nat, by : Contexts \cup {"none"}, before : Nat]

SyncState ==
    [sync : [Syncs -> SyncType], value : [Events -> Nat], cb : [Contexts -> Seq(ItemType)],
     gpu : Seq(ItemType), work : [Contexts -> Nat],
     listeners : SUBSET [event : Events, value : Nat],
     pc : {"running", "armed", "checked", "asleep"}, notified : BOOLEAN]

\* The commands of a context are its own.
Owned(cb) == \A c \in Contexts : \A i \in 1..Len(cb[c]) : cb[c][i].c = c

\* Syncs that exist have events of their own, the others nothing.  Only a
\* context sets its FenceNV.
EventsApart(sync) ==
    /\ \A s \in Syncs : IF sync[s].exists
                        THEN sync[s].event \in Events /\ sync[s].by \in Contexts
                        ELSE sync[s] = NoSync
    /\ \A c \in Contexts : sync[c].exists => sync[c].by = c
    /\ \A s, t \in Syncs : sync[s].exists /\ sync[t].exists /\ sync[s].event = sync[t].event => s = t

Signals(item, e) == item.kind = "signal" /\ item.event = e

\* The signals of a sync are still to come, come from one context and count up.
Ordered(x, v, cb, gpu) ==
    /\ v <= x.counter
    /\ \A i \in 1..Len(gpu) : Signals(gpu[i], x.event) =>
         gpu[i].c = x.by /\ v < gpu[i].value /\ gpu[i].value <= x.counter
    /\ \A c \in Contexts : \A i \in 1..Len(cb[c]) : Signals(cb[c][i], x.event) =>
         c = x.by /\ v < cb[c][i].value /\ cb[c][i].value <= x.counter
    /\ \A i, j \in 1..Len(gpu) : i < j /\ Signals(gpu[i], x.event) /\ Signals(gpu[j], x.event) =>
         gpu[i].value < gpu[j].value
    /\ \A c \in Contexts : \A i, j \in 1..Len(cb[c]) :
         i < j /\ Signals(cb[c][i], x.event) /\ Signals(cb[c][j], x.event) => cb[c][i].value < cb[c][j].value
    /\ \A c \in Contexts : \A i \in 1..Len(gpu), j \in 1..Len(cb[c]) :
         Signals(gpu[i], x.event) /\ Signals(cb[c][j], x.event) => gpu[i].value < cb[c][j].value

\* The last signal of a sync comes after the work recorded before it.
Behind(x, cb, gpu) ==
    /\ \A i \in 1..Len(gpu) : Signals(gpu[i], x.event) /\ gpu[i].value = x.counter =>
         x.before <= WorkUpTo(gpu, i, x.by)
    /\ \A i \in 1..Len(cb[x.by]) : Signals(cb[x.by][i], x.event) /\ cb[x.by][i].value = x.counter =>
         x.before <= WorkUpTo(gpu, Len(gpu), x.by) + WorkUpTo(cb[x.by], i, x.by)

\* mWork counts what is recorded and what is committed.
WorkExact(work, cb, gpu) ==
    \A c \in Contexts :
        work[c] = WorkUpTo(gpu, Len(gpu), c) + WorkUpTo(cb[c], Len(cb[c]), c)

\* Events nobody refers to start again.
FreeAreNew(y) == \A e \in FreeEvents(y) : y.value[e] = 0

\* A sync whose value was reached has no work before it left.
Reached(x, v) == v >= x.counter => x.before = 0

SyncSound(x, v, cb, gpu) == Ordered(x, v, cb, gpu) /\ Behind(x, cb, gpu) /\ Reached(x, v)

AllSound(sync, value, cb, gpu) ==
    \A s \in Syncs : sync[s].exists => SyncSound(sync[s], value[sync[s].event], cb, gpu)

SyncsSound(y) ==
    /\ y \in SyncState /\ FreeAreNew(y)
    /\ Owned(y.cb) /\ EventsApart(y.sync) /\ WorkExact(y.work, y.cb, y.gpu)
    /\ AllSound(y.sync, y.value, y.cb, y.gpu)

\* The listener that the waiting thread has registered.
Own(y, s) == [event |-> y.sync[s].event, value |-> y.sync[s].counter]

\* The thread that waits for s will be told, or need not wait.
Told(y, s) ==
    /\ y.pc = "armed" => Own(y, s) \in y.listeners \/ Signalled(y, s)
    /\ y.pc = "checked" => Own(y, s) \in y.listeners
    /\ y.pc = "asleep" => Own(y, s) \in y.listeners \/ (y.notified /\ Signalled(y, s))

SyncInv ==
    /\ alive \subseteq Contexts
    /\ SyncsSound(syncs)
    /\ Waiting <=> syncs.pc # "running"
    /\ Waiting => lock.x \in Syncs /\ syncs.sync[lock.x].exists /\ Told(syncs, lock.x)

-----------------------------------------------------------------------------
(* The operations keep the invariant. *)

LEMMA StateParts ==
    ASSUME NEW y, y \in SyncState
    PROVE  /\ MaxEvents \in Nat
           /\ \A s \in Syncs : y.sync[s] \in SyncType
           /\ \A e \in Events : y.value[e] \in Nat
           /\ y.gpu \in Seq(ItemType) /\ Len(y.gpu) \in Nat
           /\ \A i \in 1..Len(y.gpu) : y.gpu[i] \in ItemType
           /\ \A c \in Contexts : /\ y.cb[c] \in Seq(ItemType) /\ Len(y.cb[c]) \in Nat
                                  /\ \A i \in 1..Len(y.cb[c]) : y.cb[c][i] \in ItemType
                                  /\ y.work[c] \in Nat
<1>1. /\ \A s \in Syncs : y.sync[s] \in SyncType
      /\ \A e \in Events : y.value[e] \in Nat
      /\ y.gpu \in Seq(ItemType)
      /\ \A c \in Contexts : y.cb[c] \in Seq(ItemType) /\ y.work[c] \in Nat
  BY DEF SyncState
<1>2. /\ Len(y.gpu) \in Nat
      /\ \A i \in 1..Len(y.gpu) : y.gpu[i] \in ItemType
  BY <1>1, LenProperties, ElementOfSeq
<1>3. ASSUME NEW c \in Contexts
      PROVE  Len(y.cb[c]) \in Nat /\ \A i \in 1..Len(y.cb[c]) : y.cb[c][i] \in ItemType
  BY <1>1, LenProperties, ElementOfSeq
<1> QED
  BY <1>1, <1>2, <1>3, SyncAssumption

\* Every field of an item.
LEMMA ItemParts ==
    ASSUME NEW i \in ItemType
    PROVE  /\ i.c \in Contexts /\ i.event \in 0..MaxEvents /\ i.value \in Nat
           /\ i.kind \in {"work", "signal", "wait"}
           /\ i.kind = "work" <=> i.event = 0
BY DEF ItemType

\* A list with one more command.
LEMMA Appended ==
    ASSUME NEW q \in Seq(ItemType), NEW item \in ItemType
    PROVE  /\ Append(q, item) \in Seq(ItemType) /\ Len(q) \in Nat
           /\ Len(Append(q, item)) = Len(q) + 1
           /\ \A i \in 1..Len(q) : Append(q, item)[i] = q[i]
           /\ Append(q, item)[Len(q) + 1] = item
           /\ \A c : \A i \in 0..Len(q) : WorkUpTo(Append(q, item), i, c) = WorkUpTo(q, i, c)
           /\ \A c : WorkUpTo(Append(q, item), Len(q) + 1, c)
                       = WorkUpTo(q, Len(q), c) + (IF IsWork(item, c) THEN 1 ELSE 0)
<1> DEFINE r == Append(q, item)
<1>1. /\ r \in Seq(ItemType) /\ Len(r) = Len(q) + 1 /\ r[Len(q) + 1] = item
      /\ \A i \in 1..Len(q) : r[i] = q[i]
  BY AppendProperties
<1>2. Len(q) \in Nat
  BY LenProperties
<1> HIDE DEF r
<1>3. ASSUME NEW c, NEW i \in 0..Len(q) PROVE WorkUpTo(r, i, c) = WorkUpTo(q, i, c)
  <2>1. i \in Nat /\ \A j \in 1..i : r[j] = q[j]
    BY <1>1, <1>2
  <2> QED
    BY <2>1, EqualWork
<1>4. ASSUME NEW c
      PROVE  WorkUpTo(r, Len(q) + 1, c) = WorkUpTo(q, Len(q), c) + (IF IsWork(item, c) THEN 1 ELSE 0)
  <2>1. Len(q) \in 0..Len(q)
    BY <1>2
  <2>2. WorkUpTo(r, Len(q), c) = WorkUpTo(q, Len(q), c)
    BY <2>1, <1>3
  <2>3. WorkUpTo(r, Len(q) + 1, c)
          = WorkUpTo(r, Len(q), c) + (IF IsWork(r[Len(q) + 1], c) THEN 1 ELSE 0)
    BY <1>2, WorkSteps
  <2> QED
    BY <1>1, <2>2, <2>3
<1> QED
  BY <1>1, <1>2, <1>3, <1>4 DEF r

\* A command that does not signal the sync x is recorded.
LEMMA AppendOther ==
    ASSUME NEW x \in SyncType, NEW v \in Nat, NEW cb \in [Contexts -> Seq(ItemType)],
           NEW gpu \in Seq(ItemType), SyncSound(x, v, cb, gpu), x.by \in Contexts,
           NEW c \in Contexts, NEW item \in ItemType, ~Signals(item, x.event)
    PROVE  SyncSound(x, v, [cb EXCEPT ![c] = Append(@, item)], gpu)
<1> DEFINE new == [cb EXCEPT ![c] = Append(@, item)]
<1>1. /\ new[c] = Append(cb[c], item) /\ cb[c] \in Seq(ItemType)
      /\ \A d \in Contexts : d # c => new[d] = cb[d]
  OBVIOUS
<1>2. \A d \in Contexts : Len(cb[d]) \in Nat
  BY LenProperties
<1> HIDE DEF new
<1>3. \A d \in Contexts : \A i \in 1..Len(new[d]) :
        /\ Signals(new[d][i], x.event) => i \in 1..Len(cb[d])
        /\ i \in 1..Len(cb[d]) => new[d][i] = cb[d][i]
  <2>1. SUFFICES ASSUME NEW i \in 1..Len(new[c])
                 PROVE  /\ Signals(new[c][i], x.event) => i \in 1..Len(cb[c])
                        /\ i \in 1..Len(cb[c]) => new[c][i] = cb[c][i]
    BY <1>1
  <2>2. /\ Len(new[c]) = Len(cb[c]) + 1 /\ new[c][Len(cb[c]) + 1] = item
        /\ \A j \in 1..Len(cb[c]) : new[c][j] = cb[c][j]
    BY <1>1, Appended
  <2> QED
    BY <1>2, <2>2
<1>4. Ordered(x, v, new, gpu)
  <2>1. Ordered(x, v, cb, gpu)
    BY DEF SyncSound
  <2>2. \A d \in Contexts : \A i \in 1..Len(new[d]) : Signals(new[d][i], x.event) =>
          d = x.by /\ v < new[d][i].value /\ new[d][i].value <= x.counter
    BY <1>3, <2>1 DEF Ordered
  <2>3. \A d \in Contexts : \A i, j \in 1..Len(new[d]) :
          i < j /\ Signals(new[d][i], x.event) /\ Signals(new[d][j], x.event)
            => new[d][i].value < new[d][j].value
    <3>1. SUFFICES ASSUME NEW d \in Contexts, NEW i \in 1..Len(new[d]), NEW j \in 1..Len(new[d]), i < j,
                          Signals(new[d][i], x.event), Signals(new[d][j], x.event)
                   PROVE  new[d][i].value < new[d][j].value
      OBVIOUS
    <3>2. /\ i \in 1..Len(cb[d]) /\ new[d][i] = cb[d][i]
          /\ j \in 1..Len(cb[d]) /\ new[d][j] = cb[d][j]
      BY <1>3, <3>1
    <3> QED
      BY <2>1, <3>1, <3>2 DEF Ordered
  <2>4. \A d \in Contexts : \A i \in 1..Len(gpu), j \in 1..Len(new[d]) :
          Signals(gpu[i], x.event) /\ Signals(new[d][j], x.event) => gpu[i].value < new[d][j].value
    BY <1>3, <2>1, SMTT(40) DEF Ordered
  <2> QED
    BY <2>1, <2>2, <2>3, <2>4 DEF Ordered
<1>5. Behind(x, new, gpu)
  <2>1. Behind(x, cb, gpu)
    BY DEF SyncSound
  <2>2. ASSUME NEW i \in 1..Len(new[x.by]), Signals(new[x.by][i], x.event), new[x.by][i].value = x.counter
        PROVE  x.before <= WorkUpTo(gpu, Len(gpu), x.by) + WorkUpTo(new[x.by], i, x.by)
    <3>1. i \in 1..Len(cb[x.by]) /\ new[x.by][i] = cb[x.by][i]
      BY <1>3, <2>2
    <3>2. WorkUpTo(new[x.by], i, x.by) = WorkUpTo(cb[x.by], i, x.by)
      <4>1. i \in Nat /\ \A j \in 1..i : j \in 1..Len(cb[x.by]) /\ j \in 1..Len(new[x.by])
        BY <1>2, <3>1
      <4>2. \A j \in 1..i : new[x.by][j] = cb[x.by][j]
        BY <1>3, <4>1
      <4> DEFINE a == new[x.by]
                 b == cb[x.by]
      <4>3. i \in Nat /\ \A j \in 1..i : a[j] = b[j]
        BY <4>1, <4>2
      <4> HIDE DEF a, b
      <4>4. WorkUpTo(a, i, x.by) = WorkUpTo(b, i, x.by)
        BY <4>3, EqualWork
      <4> QED
        BY <4>4 DEF a, b
    <3> QED
      BY <2>1, <2>2, <3>1, <3>2 DEF Behind
  <2> QED
    BY <2>1, <2>2 DEF Behind
<1> QED
  BY <1>4, <1>5 DEF SyncSound, new

\* A sync is set (again): its signal comes last, after all the work so far.
LEMMA SignalRecorded ==
    ASSUME NEW x \in SyncType, x.event \in Events, x.by \in Contexts, NEW v \in Nat,
           NEW cb \in [Contexts -> Seq(ItemType)], NEW gpu \in Seq(ItemType), Ordered(x, v, cb, gpu),
           NEW w \in Nat,
           w = WorkUpTo(gpu, Len(gpu), x.by) + WorkUpTo(cb[x.by], Len(cb[x.by]), x.by)
    PROVE  SyncSound([exists |-> TRUE, event |-> x.event, counter |-> x.counter + 1,
                      by |-> x.by, before |-> w],
                     v, [cb EXCEPT ![x.by] = Append(@, Item("signal", x.by, x.event, x.counter + 1))],
                     gpu)
<1> DEFINE item == Item("signal", x.by, x.event, x.counter + 1)
           z == [exists |-> TRUE, event |-> x.event, counter |-> x.counter + 1,
                 by |-> x.by, before |-> w]
           new == [cb EXCEPT ![x.by] = Append(@, item)]
           n == Len(cb[x.by])
<1>1. x.counter \in Nat /\ x.event \in 1..MaxEvents /\ MaxEvents \in Nat
  BY SyncAssumption DEF SyncType, Events
<1>2. /\ item \in ItemType /\ Signals(item, x.event) /\ item.value = x.counter + 1
      /\ ~IsWork(item, x.by)
  BY <1>1, SMTT(40) DEF ItemType, Item, Signals, IsWork
<1>3. /\ z.event = x.event /\ z.counter = x.counter + 1 /\ z.by = x.by /\ z.before = w
  OBVIOUS
<1>4. /\ new[x.by] = Append(cb[x.by], item) /\ cb[x.by] \in Seq(ItemType)
      /\ \A d \in Contexts : d # x.by => new[d] = cb[d]
  OBVIOUS
<1> HIDE DEF item, z, new
<1>5. /\ n \in Nat /\ Len(new[x.by]) = n + 1 /\ new[x.by][n + 1] = item
      /\ \A i \in 1..n : new[x.by][i] = cb[x.by][i]
      /\ WorkUpTo(new[x.by], n + 1, x.by) = WorkUpTo(cb[x.by], n, x.by)
  <2>1. WorkUpTo(cb[x.by], n, x.by) \in Nat
    BY <1>4, LenProperties, WorkSteps
  <2>2. WorkUpTo(Append(cb[x.by], item), n + 1, x.by) = WorkUpTo(cb[x.by], n, x.by) + 0
    BY <1>2, <1>4, Appended
  <2> QED
    BY <1>2, <1>4, <2>1, <2>2, Appended
<1>6. \A i \in 1..Len(gpu) : gpu[i].value \in Nat
  BY ElementOfSeq, ItemParts
<1>7. \A d \in Contexts : \A i \in 1..Len(cb[d]) : cb[d][i].value \in Nat
  BY ElementOfSeq, ItemParts
<1>8. \A d \in Contexts : \A i \in 1..Len(new[d]) :
        \/ i \in 1..Len(cb[d]) /\ new[d][i] = cb[d][i]
        \/ d = x.by /\ i = n + 1 /\ new[d][i] = item
  <2>1. \A i \in 1..Len(new[x.by]) : i \in 1..n \/ i = n + 1
    BY <1>5
  <2> QED
    BY <1>4, <1>5, <2>1
<1>9. Ordered(z, v, new, gpu)
  <2>1. v <= z.counter
    BY <1>1, <1>3 DEF Ordered
  <2>2. \A i \in 1..Len(gpu) : Signals(gpu[i], x.event) =>
          gpu[i].c = x.by /\ v < gpu[i].value /\ gpu[i].value <= x.counter /\ gpu[i].value < x.counter + 1
    BY <1>1, <1>6 DEF Ordered
  <2>3. \A d \in Contexts : \A i \in 1..Len(cb[d]) : Signals(cb[d][i], x.event) =>
          d = x.by /\ v < cb[d][i].value /\ cb[d][i].value <= x.counter /\ cb[d][i].value < x.counter + 1
    BY <1>1, <1>7 DEF Ordered
  <2>4. \A i \in 1..Len(gpu) : Signals(gpu[i], x.event) =>
          gpu[i].c = x.by /\ v < gpu[i].value /\ gpu[i].value <= x.counter + 1
    BY <1>1, <1>6, <2>2, SMTT(40)
  <2>5. \A d \in Contexts : \A i \in 1..Len(new[d]) : Signals(new[d][i], x.event) =>
          d = x.by /\ v < new[d][i].value /\ new[d][i].value <= x.counter + 1
    <3>1. v < x.counter + 1 /\ x.counter + 1 <= x.counter + 1
      BY <1>1 DEF Ordered
    <3>2. \A d \in Contexts : \A i \in 1..Len(cb[d]) : Signals(cb[d][i], x.event) =>
            cb[d][i].value <= x.counter + 1
      BY <1>1, <1>7, <2>3
    <3> QED
      BY <1>2, <1>8, <2>3, <3>1, <3>2
  <2>6. \A d \in Contexts : \A i, j \in 1..Len(new[d]) :
          i < j /\ Signals(new[d][i], x.event) /\ Signals(new[d][j], x.event)
            => new[d][i].value < new[d][j].value
    <3>1. SUFFICES ASSUME NEW d \in Contexts, NEW i \in 1..Len(new[d]), NEW j \in 1..Len(new[d]),
                          i < j, Signals(new[d][i], x.event), Signals(new[d][j], x.event)
                   PROVE  new[d][i].value < new[d][j].value
      OBVIOUS
    <3>2. CASE j \in 1..Len(cb[d]) /\ new[d][j] = cb[d][j]
      <4>1. i \in 1..Len(cb[d])
        BY <3>1, <3>2
      <4>2. new[d][i] = cb[d][i]
        <5>1. ~(i = n + 1 /\ d = x.by)
          BY <4>1, <1>5
        <5> QED
          BY <1>8, <5>1
      <4> QED
        BY <3>1, <3>2, <4>1, <4>2 DEF Ordered
    <3>3. CASE d = x.by /\ j = n + 1 /\ new[d][j] = item
      <4>1. i # n + 1
        BY <3>1, <3>3
      <4>2. i \in 1..Len(cb[d]) /\ new[d][i] = cb[d][i]
        BY <1>8, <4>1
      <4> QED
        BY <1>2, <2>3, <3>1, <3>3, <4>2
    <3> QED
      BY <1>8, <3>2, <3>3
  <2>7. \A d \in Contexts : \A i \in 1..Len(gpu), j \in 1..Len(new[d]) :
          Signals(gpu[i], x.event) /\ Signals(new[d][j], x.event) => gpu[i].value < new[d][j].value
    <3>1. \A d \in Contexts : \A i \in 1..Len(gpu), j \in 1..Len(cb[d]) :
          Signals(gpu[i], x.event) /\ Signals(cb[d][j], x.event) => gpu[i].value < cb[d][j].value
      BY DEF Ordered
    <3> QED
      BY <1>2, <1>8, <2>2, <3>1, ZenonT(60)
  <2>8. \A i, j \in 1..Len(gpu) : i < j /\ Signals(gpu[i], x.event) /\ Signals(gpu[j], x.event) =>
          gpu[i].value < gpu[j].value
    BY DEF Ordered
  <2> QED
    BY <1>3, <2>1, <2>4, <2>5, <2>6, <2>7, <2>8 DEF Ordered
<1>10. Behind(z, new, gpu)
  <2>1. \A i \in 1..Len(gpu) : Signals(gpu[i], x.event) => gpu[i].value # x.counter + 1
    <3>1. \A i \in 1..Len(gpu) : Signals(gpu[i], x.event) => gpu[i].value <= x.counter
      BY DEF Ordered
    <3> QED
      BY <1>1, <1>6, <3>1
  <2>2. ASSUME NEW i \in 1..Len(new[x.by]), Signals(new[x.by][i], x.event), new[x.by][i].value = x.counter + 1
        PROVE  w <= WorkUpTo(gpu, Len(gpu), x.by) + WorkUpTo(new[x.by], i, x.by)
    <3>1. \A j \in 1..Len(cb[x.by]) : Signals(cb[x.by][j], x.event) => cb[x.by][j].value <= x.counter
      BY DEF Ordered
    <3>2. i = n + 1
      <4>1. SUFFICES ASSUME i \in 1..Len(cb[x.by]), new[x.by][i] = cb[x.by][i] PROVE FALSE
        BY <1>8
      <4>2. cb[x.by][i].value <= x.counter /\ cb[x.by][i].value = x.counter + 1
        BY <2>2, <3>1, <4>1
      <4> QED
        BY <1>1, <4>2
    <3>3. WorkUpTo(new[x.by], i, x.by) = WorkUpTo(cb[x.by], n, x.by)
      BY <1>5, <3>2
    <3>4. w <= w
      OBVIOUS
    <3> QED
      BY <3>3, <3>4
  <2> QED
    BY <1>3, <2>1, <2>2 DEF Behind
<1>11. Reached(z, v)
  <2>1. v <= x.counter
    BY DEF Ordered
  <2>2. ~(v >= x.counter + 1)
    BY <1>1, <2>1
  <2> QED
    BY <1>3, <2>2 DEF Reached
<1>12. SyncSound(z, v, new, gpu)
  BY <1>9, <1>10, <1>11 DEF SyncSound
<1> QED
  BY <1>12 DEF z, new, item

LEMMA Concatenated ==
    ASSUME NEW q \in Seq(ItemType), NEW r \in Seq(ItemType)
    PROVE  /\ q \o r \in Seq(ItemType) /\ Len(q) \in Nat /\ Len(r) \in Nat
           /\ Len(q \o r) = Len(q) + Len(r)
           /\ \A i \in 1..Len(q \o r) :
                \/ i \in 1..Len(q) /\ (q \o r)[i] = q[i]
                \/ i > Len(q) /\ i - Len(q) \in 1..Len(r) /\ (q \o r)[i] = r[i - Len(q)]
           /\ \A c : \A i \in 0..Len(q) : WorkUpTo(q \o r, i, c) = WorkUpTo(q, i, c)
           /\ \A c : \A i \in 0..Len(r) :
                WorkUpTo(q \o r, Len(q) + i, c) = WorkUpTo(q, Len(q), c) + WorkUpTo(r, i, c)
<1> DEFINE s == q \o r
           m == Len(q)
           n == Len(r)
<1>1. /\ s \in Seq(ItemType) /\ Len(s) = m + n
      /\ \A i \in 1..m + n : s[i] = IF i <= m THEN q[i] ELSE r[i - m]
  BY ConcatProperties
<1>2. m \in Nat /\ n \in Nat
  BY LenProperties
<1> HIDE DEF s, m, n
<1>3. \A i \in 1..Len(s) : \/ i \in 1..m /\ s[i] = q[i]
                           \/ i > m /\ i - m \in 1..n /\ s[i] = r[i - m]
  BY <1>1, <1>2
<1>4. ASSUME NEW c, NEW i \in 0..m PROVE WorkUpTo(s, i, c) = WorkUpTo(q, i, c)
  <2>1. i \in Nat /\ \A j \in 1..i : s[j] = q[j]
    BY <1>1, <1>2
  <2> QED
    BY <2>1, EqualWork
<1>5. ASSUME NEW c, NEW i \in 0..n
      PROVE  WorkUpTo(s, m + i, c) = WorkUpTo(q, m, c) + WorkUpTo(r, i, c)
  <2>1. i \in Nat /\ \A j \in 1..i : m + j \in 1..m + n /\ ~(m + j <= m) /\ (m + j) - m = j
    BY <1>2
  <2>2. \A j \in 1..i : s[m + j] = r[j]
    BY <1>1, <2>1
  <2>3. WorkUpTo(s, m + i, c) = WorkUpTo(s, m, c) + WorkUpTo(r, i, c)
    BY <1>2, <2>1, <2>2, WorkShifted
  <2>4. m \in 0..m
    BY <1>2
  <2> QED
    BY <1>4, <2>3, <2>4
<1> QED
  BY <1>1, <1>2, <1>3, <1>4, <1>5 DEF s, m, n

\* What a context has recorded goes to the GPU.
LEMMA CommitKeeps ==
    ASSUME NEW x \in SyncType, NEW v \in Nat, NEW cb \in [Contexts -> Seq(ItemType)],
           NEW gpu \in Seq(ItemType), Owned(cb), SyncSound(x, v, cb, gpu), x.by \in Contexts,
           NEW c \in Contexts
    PROVE  SyncSound(x, v, [cb EXCEPT ![c] = <<>>], gpu \o cb[c])
<1> DEFINE new == [cb EXCEPT ![c] = <<>>]
           g == gpu \o cb[c]
           m == Len(gpu)
           n == Len(cb[c])
<1>1. /\ new[c] = <<>> /\ cb[c] \in Seq(ItemType) /\ cb \in [Contexts -> Seq(ItemType)]
      /\ \A d \in Contexts : d # c => new[d] = cb[d]
  OBVIOUS
<1>2. /\ Len(g) = m + n /\ m \in Nat /\ n \in Nat
      /\ \A i \in 1..Len(g) : \/ i \in 1..m /\ g[i] = gpu[i]
                              \/ i > m /\ i - m \in 1..n /\ g[i] = cb[c][i - m]
      /\ \A d : \A i \in 0..m : WorkUpTo(g, i, d) = WorkUpTo(gpu, i, d)
      /\ \A d : \A i \in 0..n : WorkUpTo(g, m + i, d) = WorkUpTo(gpu, m, d) + WorkUpTo(cb[c], i, d)
  BY <1>1, Concatenated
<1>3. Len(new[c]) = 0
  BY <1>1
<1>4. \A d \in Contexts : Len(cb[d]) \in Nat
  BY LenProperties
<1> HIDE DEF new, g, m, n
<1>5. \A d \in Contexts : \A i \in 1..Len(new[d]) : d # c /\ new[d] = cb[d]
  BY <1>1, <1>3
<1>6. Ordered(x, v, new, g)
  <2>0. /\ Ordered(x, v, cb, gpu)
    BY DEF SyncSound
  <2>1. v <= x.counter
    BY <2>0 DEF Ordered
  <2>2. \A i \in 1..Len(g) : Signals(g[i], x.event) =>
          g[i].c = x.by /\ v < g[i].value /\ g[i].value <= x.counter
    <3>1. SUFFICES ASSUME NEW i \in 1..Len(g), Signals(g[i], x.event)
                   PROVE  g[i].c = x.by /\ v < g[i].value /\ g[i].value <= x.counter
      OBVIOUS
    <3>2. CASE i \in 1..m /\ g[i] = gpu[i]
      BY <2>0, <3>1, <3>2 DEF Ordered, m
    <3>3. CASE i > m /\ i - m \in 1..n /\ g[i] = cb[c][i - m]
      <4>1. cb[c][i - m].c = c
        BY <3>3 DEF Owned, n
      <4> QED
        BY <2>0, <3>1, <3>3, <4>1 DEF Ordered, n
    <3> QED
      BY <1>2, <3>2, <3>3
  <2>3. \A d \in Contexts : \A i \in 1..Len(new[d]) : Signals(new[d][i], x.event) =>
          d = x.by /\ v < new[d][i].value /\ new[d][i].value <= x.counter
    BY <1>5, <2>0 DEF Ordered
  <2>4. \A i, j \in 1..Len(g) : i < j /\ Signals(g[i], x.event) /\ Signals(g[j], x.event) =>
          g[i].value < g[j].value
    <3>1. SUFFICES ASSUME NEW i \in 1..Len(g), NEW j \in 1..Len(g), i < j,
                          Signals(g[i], x.event), Signals(g[j], x.event)
                   PROVE  g[i].value < g[j].value
      OBVIOUS
    <3>2. CASE i \in 1..m /\ g[i] = gpu[i] /\ j \in 1..m /\ g[j] = gpu[j]
      BY <2>0, <3>1, <3>2 DEF Ordered, m
    <3>3. CASE i \in 1..m /\ g[i] = gpu[i] /\ j > m /\ j - m \in 1..n /\ g[j] = cb[c][j - m]
      BY <2>0, <3>1, <3>3 DEF Ordered, m, n
    <3>4. CASE i > m /\ i - m \in 1..n /\ g[i] = cb[c][i - m] /\ j - m \in 1..n /\ g[j] = cb[c][j - m]
      <4>1. i - m < j - m
        BY <1>2, <3>1
      <4> QED
        BY <2>0, <3>1, <3>4, <4>1 DEF Ordered, n
    <3>5. ~(i > m /\ j \in 1..m)
      BY <1>2, <3>1
    <3> QED
      BY <1>2, <3>2, <3>3, <3>4, <3>5
  <2>5. \A d \in Contexts : \A i, j \in 1..Len(new[d]) :
         i < j /\ Signals(new[d][i], x.event) /\ Signals(new[d][j], x.event)
           => new[d][i].value < new[d][j].value
    BY <1>5, <2>0 DEF Ordered
  <2>6. \A d \in Contexts : \A i \in 1..Len(g), j \in 1..Len(new[d]) :
         Signals(g[i], x.event) /\ Signals(new[d][j], x.event) => g[i].value < new[d][j].value
    <3>1. SUFFICES ASSUME NEW d \in Contexts, NEW i \in 1..Len(g), NEW j \in 1..Len(new[d]),
                          Signals(g[i], x.event), Signals(new[d][j], x.event)
                   PROVE  g[i].value < new[d][j].value
      OBVIOUS
    <3>2. d # c /\ new[d] = cb[d]
      BY <1>5
    <3>3. CASE i \in 1..m /\ g[i] = gpu[i]
      BY <2>0, <3>1, <3>2, <3>3 DEF Ordered, m
    <3>4. CASE i > m /\ i - m \in 1..n /\ g[i] = cb[c][i - m]
      <4>1. c = x.by
        BY <2>0, <3>1, <3>4 DEF Ordered, n
      <4>2. d = x.by
        BY <2>0, <3>1, <3>2 DEF Ordered
      <4> QED
        BY <3>2, <4>1, <4>2
    <3> QED
      BY <1>2, <3>3, <3>4
  <2> QED
    BY <2>1, <2>2, <2>3, <2>4, <2>5, <2>6 DEF Ordered
<1>7. Behind(x, new, g)
  <2>0. Behind(x, cb, gpu)
    BY DEF SyncSound
  <2>1. ASSUME NEW i \in 1..Len(g), Signals(g[i], x.event), g[i].value = x.counter
        PROVE  x.before <= WorkUpTo(g, i, x.by)
    <3>1. CASE i \in 1..m /\ g[i] = gpu[i]
      <4>1. x.before <= WorkUpTo(gpu, i, x.by)
        BY <2>0, <2>1, <3>1 DEF Behind, m
      <4>2. i \in 0..m
        BY <3>1
      <4> QED
        BY <1>2, <4>1, <4>2
    <3>2. CASE i > m /\ i - m \in 1..n /\ g[i] = cb[c][i - m]
      <4>1. c = x.by
        BY <2>1, <3>2 DEF SyncSound, Ordered, n
      <4>2. x.before <= WorkUpTo(gpu, m, x.by) + WorkUpTo(cb[c], i - m, x.by)
        BY <2>0, <2>1, <3>2, <4>1 DEF Behind, m, n
      <4>3. i - m \in 0..n /\ i = m + (i - m)
        BY <1>2, <3>2
      <4>4. WorkUpTo(g, m + (i - m), x.by) = WorkUpTo(gpu, m, x.by) + WorkUpTo(cb[c], i - m, x.by)
        BY <1>2, <4>3
      <4> QED
        BY <4>2, <4>3, <4>4
    <3> QED
      BY <1>2, <3>1, <3>2
  <2>2. ASSUME NEW i \in 1..Len(new[x.by]), Signals(new[x.by][i], x.event), new[x.by][i].value = x.counter
        PROVE  x.before <= WorkUpTo(g, Len(g), x.by) + WorkUpTo(new[x.by], i, x.by)
    <3>1. x.by # c /\ new[x.by] = cb[x.by]
      BY <1>5
    <3>2. x.before <= WorkUpTo(gpu, m, x.by) + WorkUpTo(cb[x.by], i, x.by)
      BY <2>0, <2>2, <3>1 DEF Behind, m
    <3>3. WorkUpTo(cb[c], n, x.by) = 0
      <4>1. \A j \in 1..n : cb[c][j].c = c
        BY DEF Owned, n
      <4> QED
        BY <1>2, <3>1, <4>1, NoWork, SMTT(40) DEF IsWork
    <3>4. n \in 0..n /\ WorkUpTo(gpu, m, x.by) \in Nat
      BY <1>2, WorkSteps
    <3>5. WorkUpTo(g, m + n, x.by) = WorkUpTo(gpu, m, x.by)
      BY <1>2, <3>3, <3>4
    <3> QED
      BY <1>2, <3>1, <3>2, <3>5
  <2> QED
    BY <2>1, <2>2 DEF Behind
<1> QED
  BY <1>6, <1>7 DEF SyncSound, new, g

LEMMA CommitCounts ==
    ASSUME NEW cb \in [Contexts -> Seq(ItemType)], NEW gpu \in Seq(ItemType), Owned(cb),
           NEW c \in Contexts, NEW work, WorkExact(work, cb, gpu)
    PROVE  WorkExact(work, [cb EXCEPT ![c] = <<>>], gpu \o cb[c])
<1> DEFINE new == [cb EXCEPT ![c] = <<>>]
           g == gpu \o cb[c]
           m == Len(gpu)
           n == Len(cb[c])
<1>1. /\ new[c] = <<>> /\ cb[c] \in Seq(ItemType)
      /\ \A d \in Contexts : d # c => new[d] = cb[d]
  OBVIOUS
<1>2. /\ Len(g) = m + n /\ m \in Nat /\ n \in Nat
      /\ \A d : \A i \in 0..n : WorkUpTo(g, m + i, d) = WorkUpTo(gpu, m, d) + WorkUpTo(cb[c], i, d)
  BY <1>1, Concatenated
<1>3. Len(new[c]) = 0
  BY <1>1
<1> HIDE DEF new, g
<1>4. ASSUME NEW d \in Contexts
      PROVE  work[d] = WorkUpTo(g, Len(g), d) + WorkUpTo(new[d], Len(new[d]), d)
  <2>1. n \in 0..n
    BY <1>2
  <2>2. WorkUpTo(g, Len(g), d) = WorkUpTo(gpu, m, d) + WorkUpTo(cb[c], n, d)
    BY <1>2, <2>1
  <2>3. work[d] = WorkUpTo(gpu, m, d) + WorkUpTo(cb[d], Len(cb[d]), d)
    BY DEF WorkExact
  <2>4. /\ WorkUpTo(gpu, m, d) \in Nat /\ WorkUpTo(cb[c], n, d) \in Nat
    BY <1>2, WorkSteps
  <2>5. CASE d = c
    <3>1. WorkUpTo(new[d], Len(new[d]), d) = 0
      BY <1>3, <2>5, WorkSteps
    <3> QED
      BY <2>2, <2>3, <2>4, <2>5, <3>1
  <2>6. CASE d # c
    <3>1. WorkUpTo(cb[c], n, d) = 0
      <4>1. \A i \in 1..n : ~IsWork(cb[c][i], d)
        BY <2>6 DEF Owned, IsWork
      <4> QED
        BY <1>2, <4>1, NoWork
    <3> QED
      BY <1>1, <2>2, <2>3, <2>4, <2>6, <3>1
  <2> QED
    BY <2>5, <2>6
<1> QED
  BY <1>4 DEF WorkExact, new, g

LEMMA Popped ==
    ASSUME NEW q \in Seq(ItemType), q # <<>>
    PROVE  /\ Head(q) \in ItemType /\ Head(q) = q[1] /\ Tail(q) \in Seq(ItemType)
           /\ Len(Tail(q)) \in Nat /\ Len(q) = Len(Tail(q)) + 1
           /\ \A i \in 1..Len(Tail(q)) : i + 1 \in 1..Len(q) /\ Tail(q)[i] = q[i + 1]
           /\ \A c : \A i \in 0..Len(Tail(q)) :
                WorkUpTo(q, i + 1, c) = WorkUpTo(Tail(q), i, c) + (IF IsWork(Head(q), c) THEN 1 ELSE 0)
<1> DEFINE t == Tail(q)
           n == Len(t)
<1>1. /\ Head(q) \in ItemType /\ Head(q) = q[1] /\ t \in Seq(ItemType)
      /\ n = Len(q) - 1 /\ \A i \in 1..n : t[i] = q[i + 1]
  BY HeadTailProperties
<1>2. n \in Nat /\ Len(q) \in Nat /\ Len(q) = n + 1
  BY <1>1, LenProperties
<1> HIDE DEF t, n
<1>3. ASSUME NEW c, NEW i \in 0..n
      PROVE  WorkUpTo(q, i + 1, c) = WorkUpTo(t, i, c) + (IF IsWork(Head(q), c) THEN 1 ELSE 0)
  <2>1. i \in Nat /\ 1 \in Nat /\ i + 1 = 1 + i /\ \A j \in 1..i : j \in 1..n /\ 1 + j = j + 1
    BY <1>2
  <2>2. \A j \in 1..i : q[1 + j] = t[j]
    BY <1>1, <2>1
  <2>3. WorkUpTo(q, 1 + i, c) = WorkUpTo(q, 1, c) + WorkUpTo(t, i, c)
    BY <2>1, <2>2, WorkShifted
  <2>4. 0 \in Nat /\ 0 + 1 = 1
    OBVIOUS
  <2>5. WorkUpTo(q, 0 + 1, c) = 0 + (IF IsWork(q[0 + 1], c) THEN 1 ELSE 0)
    BY <2>4, WorkSteps
  <2>6. WorkUpTo(t, i, c) \in Nat
    BY <2>1, WorkSteps
  <2> QED
    BY <1>1, <2>1, <2>3, <2>4, <2>5, <2>6
<1>4. \A i \in 1..n : i + 1 \in 1..Len(q)
  BY <1>2
<1> QED
  BY <1>1, <1>2, <1>3, <1>4 DEF t, n

\* The order that is left when the GPU has executed a command.
LEMMA PopOrdered ==
    ASSUME NEW x \in SyncType, NEW v \in Nat, NEW cb \in [Contexts -> Seq(ItemType)],
           NEW gpu \in Seq(ItemType), Ordered(x, v, cb, gpu), gpu # <<>>
    PROVE  /\ Ordered(x, v, cb, Tail(gpu))
           /\ Signals(Head(gpu), x.event) => Ordered(x, Head(gpu).value, cb, Tail(gpu))
<1> DEFINE t == Tail(gpu)
<1>1. /\ Head(gpu) = gpu[1] /\ Len(t) \in Nat /\ Len(gpu) = Len(t) + 1
      /\ \A i \in 1..Len(t) : i + 1 \in 1..Len(gpu) /\ t[i] = gpu[i + 1]
  BY Popped
<1> HIDE DEF t
<1>2. \A i, j \in 1..Len(t) : i < j /\ Signals(t[i], x.event) /\ Signals(t[j], x.event) =>
        t[i].value < t[j].value
  <2>1. SUFFICES ASSUME NEW i \in 1..Len(t), NEW j \in 1..Len(t), i < j,
                        Signals(t[i], x.event), Signals(t[j], x.event)
                 PROVE  t[i].value < t[j].value
    OBVIOUS
  <2>2. i + 1 < j + 1
    BY <1>1, <2>1
  <2> QED
    BY <1>1, <2>1, <2>2 DEF Ordered
<1>3. \A c \in Contexts : \A i \in 1..Len(t), j \in 1..Len(cb[c]) :
         Signals(t[i], x.event) /\ Signals(cb[c][j], x.event) => t[i].value < cb[c][j].value
  BY <1>1 DEF Ordered
<1>4. \A i \in 1..Len(t) : Signals(t[i], x.event) =>
        t[i].c = x.by /\ v < t[i].value /\ t[i].value <= x.counter
  BY <1>1 DEF Ordered
<1>5. Ordered(x, v, cb, t)
  BY <1>2, <1>3, <1>4 DEF Ordered
<1>6. ASSUME Signals(Head(gpu), x.event)
      PROVE  Ordered(x, Head(gpu).value, cb, t)
  <2>1. 1 \in 1..Len(gpu) /\ Signals(gpu[1], x.event)
    BY <1>1, <1>6
  <2>2. gpu[1].value <= x.counter
    BY <2>1 DEF Ordered
  <2>3. \A i \in 1..Len(t) : Signals(t[i], x.event) => gpu[1].value < t[i].value
    <3>1. \A i \in 1..Len(t) : 1 < i + 1
      BY <1>1
    <3> QED
      BY <1>1, <2>1, <3>1 DEF Ordered
  <2>4. \A c \in Contexts : \A i \in 1..Len(cb[c]) : Signals(cb[c][i], x.event) =>
          gpu[1].value < cb[c][i].value
    BY <2>1 DEF Ordered
  <2> QED
    BY <1>1, <1>5, <2>2, <2>3, <2>4 DEF Ordered
<1> QED
  BY <1>5, <1>6 DEF t

\* The GPU executes a command that does not signal x.
LEMMA PopKeeps ==
    ASSUME NEW x \in SyncType, NEW v \in Nat, NEW cb \in [Contexts -> Seq(ItemType)],
           NEW gpu \in Seq(ItemType), SyncSound(x, v, cb, gpu), x.by \in Contexts, gpu # <<>>,
           NEW b \in Nat,
           b = x.before - (IF IsWork(Head(gpu), x.by) /\ x.before > 0 THEN 1 ELSE 0)
    PROVE  SyncSound([x EXCEPT !.before = b], v, cb, Tail(gpu))
<1> DEFINE z == [x EXCEPT !.before = b]
           t == Tail(gpu)
<1>1. /\ Head(gpu) = gpu[1] /\ t \in Seq(ItemType) /\ Len(t) \in Nat /\ Len(gpu) = Len(t) + 1
      /\ \A i \in 1..Len(t) : i + 1 \in 1..Len(gpu) /\ t[i] = gpu[i + 1]
      /\ \A i \in 0..Len(t) :
           WorkUpTo(gpu, i + 1, x.by) = WorkUpTo(t, i, x.by) + (IF IsWork(Head(gpu), x.by) THEN 1 ELSE 0)
  BY Popped
<1>2. z.event = x.event /\ z.counter = x.counter /\ z.by = x.by /\ z.before = b /\ x.before \in Nat
  BY DEF SyncType
<1>3. Ordered(x, v, cb, t)
  BY PopOrdered DEF SyncSound
<1>4. cb[x.by] \in Seq(ItemType) /\ Len(cb[x.by]) \in Nat
  BY LenProperties
<1> HIDE DEF z, t
<1>5. Ordered(z, v, cb, t)
  BY <1>2, <1>3 DEF Ordered
<1>6. Reached(z, v)
  <2>1. v >= x.counter => x.before = 0
    BY DEF SyncSound, Reached
  <2>2. x.before = 0 => b = 0
    BY <1>2
  <2> QED
    BY <1>2, <2>1, <2>2 DEF Reached
<1>7. ASSUME NEW w \in Nat, NEW u \in Nat, w = u + (IF IsWork(Head(gpu), x.by) THEN 1 ELSE 0),
             x.before <= w
      PROVE  b <= u
  <2>1. CASE IsWork(Head(gpu), x.by)
    BY <1>2, <1>7, <2>1
  <2>2. CASE ~IsWork(Head(gpu), x.by)
    BY <1>2, <1>7, <2>2
  <2> QED
    BY <2>1, <2>2
<1>8. Behind(z, cb, t)
  <2>0. Behind(x, cb, gpu)
    BY DEF SyncSound
  <2>1. ASSUME NEW i \in 1..Len(t), Signals(t[i], x.event), t[i].value = x.counter
        PROVE  b <= WorkUpTo(t, i, x.by)
    <3>1. i \in Nat /\ i + 1 \in Nat /\ i \in 0..Len(t)
      BY <1>1
    <3>2. x.before <= WorkUpTo(gpu, i + 1, x.by)
      BY <1>1, <2>0, <2>1 DEF Behind
    <3>3. WorkUpTo(gpu, i + 1, x.by) = WorkUpTo(t, i, x.by) + (IF IsWork(Head(gpu), x.by) THEN 1 ELSE 0)
      BY <1>1, <3>1
    <3>4. WorkUpTo(gpu, i + 1, x.by) \in Nat /\ WorkUpTo(t, i, x.by) \in Nat
      BY <3>1, WorkSteps
    <3> QED
      BY <1>7, <3>2, <3>3, <3>4
  <2>2. ASSUME NEW i \in 1..Len(cb[x.by]), Signals(cb[x.by][i], x.event), cb[x.by][i].value = x.counter
        PROVE  b <= WorkUpTo(t, Len(t), x.by) + WorkUpTo(cb[x.by], i, x.by)
    <3> DEFINE w == WorkUpTo(gpu, Len(gpu), x.by) + WorkUpTo(cb[x.by], i, x.by)
               u == WorkUpTo(t, Len(t), x.by) + WorkUpTo(cb[x.by], i, x.by)
    <3>1. i \in Nat /\ Len(t) \in Nat /\ Len(t) \in 0..Len(t) /\ Len(gpu) \in Nat
      BY <1>1, <1>4
    <3>2. x.before <= w
      BY <2>0, <2>2 DEF Behind
    <3>3. WorkUpTo(gpu, Len(gpu), x.by)
            = WorkUpTo(t, Len(t), x.by) + (IF IsWork(Head(gpu), x.by) THEN 1 ELSE 0)
      BY <1>1, <3>1
    <3>4. WorkUpTo(gpu, Len(gpu), x.by) \in Nat /\ WorkUpTo(t, Len(t), x.by) \in Nat
          /\ WorkUpTo(cb[x.by], i, x.by) \in Nat
      BY <3>1, WorkSteps
    <3>5. w \in Nat /\ u \in Nat /\ w = u + (IF IsWork(Head(gpu), x.by) THEN 1 ELSE 0)
      BY <3>3, <3>4, SMTT(40)
    <3> HIDE DEF w, u
    <3>6. b <= u
      BY <1>7, <3>2, <3>5
    <3> QED
      BY <3>6 DEF u
  <2> QED
    BY <1>2, <2>1, <2>2 DEF Behind
<1> QED
  BY <1>5, <1>6, <1>8 DEF SyncSound, z, t

\* The GPU signals x.
LEMMA SignalKeeps ==
    ASSUME NEW x \in SyncType, NEW v \in Nat, NEW cb \in [Contexts -> Seq(ItemType)],
           NEW gpu \in Seq(ItemType), SyncSound(x, v, cb, gpu), x.by \in Contexts, gpu # <<>>,
           Signals(Head(gpu), x.event)
    PROVE  SyncSound(x, Head(gpu).value, cb, Tail(gpu))
<1>1. /\ Head(gpu) = gpu[1] /\ Head(gpu) \in ItemType /\ Len(Tail(gpu)) \in Nat
      /\ Len(gpu) = Len(Tail(gpu)) + 1
  BY Popped
<1>2. x.before \in Nat /\ x.counter \in Nat /\ Head(gpu).value \in Nat
  BY <1>1, ItemParts DEF SyncType
<1>3. ~IsWork(Head(gpu), x.by)
  BY DEF Signals, IsWork
<1>4. Ordered(x, Head(gpu).value, cb, Tail(gpu))
  BY PopOrdered DEF SyncSound
<1>5. Behind(x, cb, Tail(gpu))
  <2>1. x.before = x.before - (IF IsWork(Head(gpu), x.by) /\ x.before > 0 THEN 1 ELSE 0)
    BY <1>2, <1>3
  <2>2. SyncSound([x EXCEPT !.before = x.before], v, cb, Tail(gpu))
    BY <1>2, <2>1, PopKeeps
  <2>3. [x EXCEPT !.before = x.before] = x
    BY DEF SyncType
  <2> QED
    BY <2>2, <2>3 DEF SyncSound
<1>6. Reached(x, Head(gpu).value)
  <2>1. SUFFICES ASSUME Head(gpu).value >= x.counter PROVE x.before = 0
    BY DEF Reached
  <2>2. 1 \in 1..Len(gpu)
    BY <1>1
  <2>3. Head(gpu).value <= x.counter
    BY <1>1, <2>2 DEF SyncSound, Ordered
  <2>4. x.before <= WorkUpTo(gpu, 1, x.by)
    <3>1. gpu[1].value = x.counter
      BY <1>1, <1>2, <2>1, <2>3
    <3> QED
      BY <1>1, <2>2, <3>1 DEF SyncSound, Behind
  <2>5. WorkUpTo(gpu, 1, x.by) = 0
    <3>1. 1 \in Nat /\ \A i \in 1..1 : ~IsWork(gpu[i], x.by)
      BY <1>1, <1>3
    <3> QED
      BY <3>1, NoWork
  <2> QED
    BY <1>2, <2>4, <2>5
<1> QED
  BY <1>4, <1>5, <1>6 DEF SyncSound

LEMMA PopCounts ==
    ASSUME NEW cb \in [Contexts -> Seq(ItemType)], NEW gpu \in Seq(ItemType), gpu # <<>>,
           NEW work \in [Contexts -> Nat], WorkExact(work, cb, gpu)
    PROVE  /\ Head(gpu).kind = "work" =>
                /\ [work EXCEPT ![Head(gpu).c] = @ - 1] \in [Contexts -> Nat]
                /\ WorkExact([work EXCEPT ![Head(gpu).c] = @ - 1], cb, Tail(gpu))
           /\ Head(gpu).kind # "work" => WorkExact(work, cb, Tail(gpu))
<1> DEFINE t == Tail(gpu)
           h == Head(gpu)
<1>1. /\ h \in ItemType /\ Len(t) \in Nat /\ Len(gpu) = Len(t) + 1
      /\ \A c : \A i \in 0..Len(t) :
           WorkUpTo(gpu, i + 1, c) = WorkUpTo(t, i, c) + (IF IsWork(h, c) THEN 1 ELSE 0)
  BY Popped
<1>2. \A c \in Contexts : cb[c] \in Seq(ItemType) /\ Len(cb[c]) \in Nat
  BY LenProperties
<1>3. h.c \in Contexts
  BY <1>1, ItemParts
<1> HIDE DEF t, h
<1>4. ASSUME NEW c \in Contexts
      PROVE  /\ work[c] = WorkUpTo(t, Len(t), c) + (IF IsWork(h, c) THEN 1 ELSE 0)
                            + WorkUpTo(cb[c], Len(cb[c]), c)
             /\ WorkUpTo(t, Len(t), c) \in Nat /\ WorkUpTo(cb[c], Len(cb[c]), c) \in Nat
  <2>1. Len(t) \in 0..Len(t)
    BY <1>1
  <2>2. WorkUpTo(gpu, Len(gpu), c) = WorkUpTo(t, Len(t), c) + (IF IsWork(h, c) THEN 1 ELSE 0)
    BY <1>1, <2>1
  <2> QED
    BY <1>1, <1>2, <2>2, WorkSteps DEF WorkExact
<1>5. ASSUME h.kind # "work" PROVE WorkExact(work, cb, t)
  <2>1. ASSUME NEW c \in Contexts
        PROVE  work[c] = WorkUpTo(t, Len(t), c) + WorkUpTo(cb[c], Len(cb[c]), c)
    <3>1. ~IsWork(h, c)
      BY <1>5 DEF IsWork
    <3> QED
      BY <1>4, <3>1
  <2> QED
    BY <2>1 DEF WorkExact
<1>6. ASSUME h.kind = "work"
      PROVE  /\ [work EXCEPT ![h.c] = @ - 1] \in [Contexts -> Nat]
             /\ WorkExact([work EXCEPT ![h.c] = @ - 1], cb, t)
  <2> DEFINE new == [work EXCEPT ![h.c] = @ - 1]
  <2>1. IsWork(h, h.c) /\ \A c \in Contexts : c # h.c => ~IsWork(h, c)
    BY <1>6 DEF IsWork
  <2>2. ASSUME NEW c \in Contexts
        PROVE  /\ new[c] \in Nat
               /\ new[c] = WorkUpTo(t, Len(t), c) + WorkUpTo(cb[c], Len(cb[c]), c)
    <3>1. CASE c = h.c
      <4>1. new[c] = work[c] - 1 /\ IsWork(h, c)
        BY <2>1, <3>1
      <4> QED
        BY <1>4, <4>1
    <3>2. CASE c # h.c
      <4>1. new[c] = work[c] /\ ~IsWork(h, c)
        BY <2>1, <3>2
      <4> QED
        BY <1>4, <4>1
    <3> QED
      BY <3>1, <3>2
  <2>3. new = [c \in Contexts |-> new[c]]
    OBVIOUS
  <2> HIDE DEF new
  <2>4. new \in [Contexts -> Nat]
    BY <2>2, <2>3
  <2>5. WorkExact(new, cb, t)
    BY <2>2 DEF WorkExact
  <2> QED
    BY <2>4, <2>5 DEF new
<1> QED
  BY <1>5, <1>6 DEF t, h

(* The whole state. *)

Core(y) ==
    /\ y \in SyncState
    /\ Owned(y.cb) /\ EventsApart(y.sync) /\ WorkExact(y.work, y.cb, y.gpu)
    /\ AllSound(y.sync, y.value, y.cb, y.gpu)

Refers(y, e) ==
    \/ \E s \in Syncs : y.sync[s].event = e
    \/ \E c \in Contexts : \E i \in 1..Len(y.cb[c]) : y.cb[c][i].event = e
    \/ \E i \in 1..Len(y.gpu) : y.gpu[i].event = e
    \/ \E l \in y.listeners : l.event = e

LEMMA FreeAre ==
    ASSUME NEW y, y \in SyncState
    PROVE  FreeEvents(y) = {e \in Events : ~Refers(y, e)}
<1>1. /\ DOMAIN y.gpu = 1..Len(y.gpu)
      /\ \A c \in Contexts : DOMAIN y.cb[c] = 1..Len(y.cb[c])
  BY StateParts, LenProperties
<1> DEFINE A(c) == {y.cb[c][i] : i \in DOMAIN y.cb[c]}
           G == {y.gpu[i] : i \in DOMAIN y.gpu}
           U == UNION {A(c) : c \in Contexts}
<1>2. \A item : item \in Items(y) <=>
        \/ \E c \in Contexts : \E i \in 1..Len(y.cb[c]) : item = y.cb[c][i]
        \/ \E i \in 1..Len(y.gpu) : item = y.gpu[i]
  <2>1. Items(y) = U \cup G
    BY DEF Items
  <2>2. \A item : item \in G <=> \E i \in 1..Len(y.gpu) : item = y.gpu[i]
    BY <1>1
  <2>3. ASSUME NEW c \in Contexts, NEW item
        PROVE  item \in A(c) <=> \E i \in 1..Len(y.cb[c]) : item = y.cb[c][i]
    BY <1>1
  <2> HIDE DEF A, G
  <2>4. \A item : item \in U <=> \E c \in Contexts : item \in A(c)
    OBVIOUS
  <2> HIDE DEF U
  <2> QED
    BY <2>1, <2>2, <2>3, <2>4
<1>3. ASSUME NEW e
      PROVE  ~Refers(y, e) <=>
               /\ \A s \in Syncs : y.sync[s].event # e
               /\ \A item \in Items(y) \cup y.listeners : item.event # e
  <2>1. (\A item \in Items(y) : item.event # e) <=>
          /\ \A c \in Contexts : \A i \in 1..Len(y.cb[c]) : y.cb[c][i].event # e
          /\ \A i \in 1..Len(y.gpu) : y.gpu[i].event # e
    <3>1. ASSUME \A item \in Items(y) : item.event # e
          PROVE  /\ \A c \in Contexts : \A i \in 1..Len(y.cb[c]) : y.cb[c][i].event # e
                 /\ \A i \in 1..Len(y.gpu) : y.gpu[i].event # e
      <4>1. \A c \in Contexts : \A i \in 1..Len(y.cb[c]) : y.cb[c][i] \in Items(y)
        BY <1>2
      <4>2. \A i \in 1..Len(y.gpu) : y.gpu[i] \in Items(y)
        BY <1>2
      <4> QED
        BY <3>1, <4>1, <4>2
    <3>2. \A item \in Items(y) :
            \/ \E c \in Contexts : \E i \in 1..Len(y.cb[c]) : item = y.cb[c][i]
            \/ \E i \in 1..Len(y.gpu) : item = y.gpu[i]
      BY <1>2
    <3> QED
      BY <3>1, <3>2
  <2> QED
    BY <2>1 DEF Refers
<1> QED
  BY <1>3 DEF FreeEvents

\* Events stay new as long as none becomes free.
LEMMA StillNew ==
    ASSUME NEW y, NEW z, y \in SyncState, z \in SyncState, FreeAreNew(y), z.value = y.value,
           \A e \in Events : Refers(y, e) => Refers(z, e)
    PROVE  FreeAreNew(z)
BY FreeAre DEF FreeAreNew

\* Forget makes the free events new, and changes no other.
LEMMA ForgetSound ==
    ASSUME NEW y, Core(y)
    PROVE  LET z == Forget(y) IN
           /\ SyncsSound(z) /\ z.sync = y.sync /\ z.listeners = y.listeners
           /\ z.pc = y.pc /\ z.notified = y.notified
           /\ \A s \in Syncs : y.sync[s].exists => z.value[y.sync[s].event] = y.value[y.sync[s].event]
<1> DEFINE new == [e \in Events |-> IF e \in FreeEvents(y) THEN 0 ELSE y.value[e]]
           z == Forget(y)
<1>1. y \in SyncState
  BY DEF Core
<1>2. z = [y EXCEPT !.value = new]
  BY DEF Forget
<1>3. new \in [Events -> Nat]
  BY <1>1, StateParts
<1>4. /\ z \in SyncState /\ z.value = new
      /\ z.sync = y.sync /\ z.cb = y.cb /\ z.gpu = y.gpu /\ z.work = y.work
      /\ z.listeners = y.listeners /\ z.pc = y.pc /\ z.notified = y.notified
  <2> HIDE DEF new, z
  <2> QED
    BY <1>1, <1>2, <1>3 DEF SyncState
<1>5. \A s \in Syncs : y.sync[s].exists => new[y.sync[s].event] = y.value[y.sync[s].event]
  <2>1. SUFFICES ASSUME NEW s \in Syncs, y.sync[s].exists
                 PROVE  y.sync[s].event \in Events /\ y.sync[s].event \notin FreeEvents(y)
    OBVIOUS
  <2>2. y.sync[s].event \in Events
    BY <2>1 DEF Core, EventsApart
  <2> QED
    BY <1>1, <2>2, FreeAre DEF Refers
<1>6. \A e : Refers(z, e) <=> Refers(y, e)
  <2> HIDE DEF z
  <2> QED
    BY <1>4 DEF Refers
<1>7. FreeAreNew(z)
  <2>1. FreeEvents(z) = FreeEvents(y) /\ FreeEvents(y) \subseteq Events
    <3> HIDE DEF z
    <3> QED
      BY <1>1, <1>4, <1>6, FreeAre
  <2> QED
    BY <1>4, <2>1 DEF FreeAreNew
<1>8. AllSound(z.sync, z.value, z.cb, z.gpu)
  <2>1. AllSound(y.sync, y.value, y.cb, y.gpu)
    BY DEF Core
  <2> HIDE DEF z, new
  <2> QED
    BY <1>4, <1>5, <2>1 DEF AllSound
<1> HIDE DEF z
<1>9. SyncsSound(z)
  BY <1>4, <1>7, <1>8 DEF Core, SyncsSound
<1> QED
  BY <1>4, <1>5, <1>9 DEF z

LEMMA SoundCore == ASSUME NEW y, SyncsSound(y) PROVE Core(y) /\ y \in SyncState
BY DEF SyncsSound, Core

\* Only the waiting thread's own state and listeners change.
LEMMA OnlyThread ==
    ASSUME NEW y, NEW z, Core(y), z \in SyncState,
           z.sync = y.sync, z.value = y.value, z.cb = y.cb, z.gpu = y.gpu, z.work = y.work
    PROVE  Core(z)
BY DEF Core

LEMMA OnlyThreadSound ==
    ASSUME NEW y, NEW z, SyncsSound(y), z \in SyncState, y.listeners \subseteq z.listeners,
           z.sync = y.sync, z.value = y.value, z.cb = y.cb, z.gpu = y.gpu, z.work = y.work
    PROVE  SyncsSound(z)
<1>1. \A e \in Events : Refers(y, e) => Refers(z, e)
  BY DEF Refers
<1>2. FreeAreNew(z)
  BY <1>1, StillNew DEF SyncsSound
<1> QED
  BY <1>2 DEF SyncsSound

\* Syncs are deleted.
LEMMA DeleteKeeps ==
    ASSUME NEW y, NEW z, NEW K, Core(y), z \in SyncState,
           z.sync = [s \in Syncs |-> IF s \in K THEN NoSync ELSE y.sync[s]],
           z.value = y.value, z.cb = y.cb, z.gpu = y.gpu, z.work = y.work
    PROVE  Core(z)
<1>1. \A s \in Syncs : /\ z.sync[s].exists => z.sync[s] = y.sync[s] /\ y.sync[s].exists
                       /\ ~z.sync[s].exists => z.sync[s] = NoSync
  BY DEF NoSync, Core, EventsApart
<1>2. EventsApart(z.sync)
  <2>1. EventsApart(y.sync)
    BY DEF Core
  <2>2. \A c \in Contexts : c \in Syncs
    BY DEF Syncs
  <2> QED
    BY <1>1, <2>1, <2>2 DEF EventsApart
<1>3. AllSound(z.sync, z.value, z.cb, z.gpu)
  BY <1>1 DEF Core, AllSound
<1> QED
  BY <1>2, <1>3 DEF Core

\* A context records a command that is no signal; work is counted.
LEMMA RecordKeeps ==
    ASSUME NEW y, NEW z, SyncsSound(y), NEW c \in Contexts, NEW item \in ItemType, item.c = c,
           item.kind # "signal", z \in SyncState, z.cb = [y.cb EXCEPT ![c] = Append(@, item)],
           z.work = [y.work EXCEPT ![c] = @ + (IF IsWork(item, c) THEN 1 ELSE 0)],
           z.sync = y.sync, z.value = y.value, z.gpu = y.gpu, z.listeners = y.listeners
    PROVE  SyncsSound(z)
<1>1. /\ y \in SyncState /\ z \in SyncState /\ y.cb \in [Contexts -> Seq(ItemType)]
      /\ y.gpu \in Seq(ItemType) /\ y.work \in [Contexts -> Nat]
  BY DEF SyncsSound, SyncState
<1>2. /\ z.cb[c] = Append(y.cb[c], item) /\ y.cb[c] \in Seq(ItemType)
      /\ \A d \in Contexts : d # c => z.cb[d] = y.cb[d]
  BY <1>1
<1>3. /\ Len(y.cb[c]) \in Nat /\ Len(z.cb[c]) = Len(y.cb[c]) + 1
      /\ \A i \in 1..Len(y.cb[c]) : z.cb[c][i] = y.cb[c][i]
      /\ z.cb[c][Len(y.cb[c]) + 1] = item
      /\ \A d : WorkUpTo(z.cb[c], Len(y.cb[c]) + 1, d)
                  = WorkUpTo(y.cb[c], Len(y.cb[c]), d) + (IF IsWork(item, d) THEN 1 ELSE 0)
  BY <1>2, Appended
<1>4. FreeAreNew(z)
  <2>1. \A i \in 1..Len(y.cb[c]) : i \in 1..Len(z.cb[c])
    BY <1>3
  <2>2. \A e \in Events : Refers(y, e) => Refers(z, e)
    BY <1>2, <1>3, <2>1 DEF Refers
  <2> QED
    BY <1>1, <2>2, StillNew DEF SyncsSound
<1>5. Owned(z.cb)
  <2>1. \A i \in 1..Len(z.cb[c]) : i \in 1..Len(y.cb[c]) \/ i = Len(y.cb[c]) + 1
    BY <1>3
  <2>2. Owned(y.cb)
    BY DEF SyncsSound
  <2> QED
    BY <1>2, <1>3, <2>1, <2>2 DEF Owned
<1>6. WorkExact(z.work, z.cb, z.gpu)
  <2>1. WorkExact(y.work, y.cb, y.gpu)
    BY DEF SyncsSound
  <2>2. ASSUME NEW d \in Contexts
        PROVE  z.work[d] = WorkUpTo(z.gpu, Len(z.gpu), d) + WorkUpTo(z.cb[d], Len(z.cb[d]), d)
    <3>1. CASE d # c
      BY <1>1, <1>2, <2>1, <3>1 DEF WorkExact
    <3>2. CASE d = c
      <4>1. y.work[c] = WorkUpTo(y.gpu, Len(y.gpu), c) + WorkUpTo(y.cb[c], Len(y.cb[c]), c)
        BY <2>1 DEF WorkExact
      <4>2. z.work[c] = y.work[c] + (IF IsWork(item, c) THEN 1 ELSE 0)
        BY <1>1
      <4>3. WorkUpTo(y.gpu, Len(y.gpu), c) \in Nat /\ WorkUpTo(y.cb[c], Len(y.cb[c]), c) \in Nat
        BY <1>1, <1>3, LenProperties, WorkSteps
      <4>4. WorkUpTo(z.cb[c], Len(z.cb[c]), c)
              = WorkUpTo(y.cb[c], Len(y.cb[c]), c) + (IF IsWork(item, c) THEN 1 ELSE 0)
        BY <1>3
      <4> QED
        BY <3>2, <4>1, <4>2, <4>3, <4>4
    <3> QED
      BY <3>1, <3>2
  <2> QED
    BY <2>2 DEF WorkExact
<1>7. AllSound(z.sync, z.value, z.cb, z.gpu)
  <2>1. SUFFICES ASSUME NEW s \in Syncs, y.sync[s].exists
                 PROVE  SyncSound(y.sync[s], y.value[y.sync[s].event], z.cb, y.gpu)
    BY DEF AllSound
  <2>2. /\ y.sync[s] \in SyncType /\ y.sync[s].by \in Contexts /\ y.sync[s].event \in Events
    BY <1>1, <2>1, StateParts DEF SyncsSound, EventsApart
  <2>3. y.value[y.sync[s].event] \in Nat
    BY <1>1, <2>2, StateParts
  <2>4. SyncSound(y.sync[s], y.value[y.sync[s].event], y.cb, y.gpu)
    BY <2>1 DEF SyncsSound, AllSound
  <2>5. ~Signals(item, y.sync[s].event)
    BY DEF Signals
  <2>6. SyncSound(y.sync[s], y.value[y.sync[s].event], [y.cb EXCEPT ![c] = Append(@, item)], y.gpu)
    <3> DEFINE x == y.sync[s]
               v == y.value[y.sync[s].event]
    <3>1. x \in SyncType /\ x.by \in Contexts /\ v \in Nat /\ SyncSound(x, v, y.cb, y.gpu)
          /\ ~Signals(item, x.event)
      BY <2>2, <2>3, <2>4, <2>5
    <3> HIDE DEF x, v
    <3>2. SyncSound(x, v, [y.cb EXCEPT ![c] = Append(@, item)], y.gpu)
      BY <1>1, <3>1, AppendOther
    <3> QED
      BY <3>2 DEF x, v
  <2> QED
    BY <2>6
<1> QED
  BY <1>4, <1>5, <1>6, <1>7 DEF SyncsSound

\* A sync is set, for the first time with a free event.
LEMMA SetKeeps ==
    ASSUME NEW y, SyncsSound(y), NEW c \in Contexts, NEW s \in Syncs, NEW e \in Events,
           IF y.sync[s].exists THEN e = y.sync[s].event /\ c = y.sync[s].by
           ELSE e \in FreeEvents(y) /\ (s \in Contexts => s = c)
    PROVE  SyncsSound(Set(y, c, s, e)) /\ Set(y, c, s, e).pc = y.pc
<1> DEFINE k == y.sync[s].counter
           item == Item("signal", c, e, k + 1)
           x == [exists |-> TRUE, event |-> e, counter |-> k + 1, by |-> c, before |-> y.work[c]]
           old == [exists |-> TRUE, event |-> e, counter |-> k, by |-> c, before |-> y.sync[s].before]
           z == Set(y, c, s, e)
<1>1. /\ y \in SyncState /\ y.cb \in [Contexts -> Seq(ItemType)] /\ y.cb[c] \in Seq(ItemType)
      /\ y.gpu \in Seq(ItemType) /\ y.work \in [Contexts -> Nat] /\ y.work[c] \in Nat
      /\ y.sync \in [Syncs -> SyncType] /\ y.value \in [Events -> Nat]
      /\ y.sync[s] \in SyncType
  BY DEF SyncsSound, SyncState
<1>2. k \in Nat /\ y.sync[s].before \in Nat /\ e \in 1..MaxEvents /\ MaxEvents \in Nat
  BY <1>1, SyncAssumption DEF SyncType, Events
<1>3. /\ item \in ItemType /\ item.c = c /\ item.kind = "signal" /\ item.event = e /\ item.value = k + 1
      /\ x \in SyncType /\ old \in SyncType
  BY <1>1, <1>2, SMTT(40) DEF Item, ItemType, SyncType
<1>4. z = [y EXCEPT !.sync = [y.sync EXCEPT ![s] = x], !.cb = [y.cb EXCEPT ![c] = Append(@, item)]]
  BY <1>1 DEF Set, Record, SyncState
<1>5. x.event = e /\ x.by = c /\ old.event = e /\ old.counter = k /\ old.by = c /\ x.exists
  OBVIOUS
<1>6. [y.sync EXCEPT ![s] = x] \in [Syncs -> SyncType]
      /\ [y.cb EXCEPT ![c] = Append(@, item)] \in [Contexts -> Seq(ItemType)]
  <2>1. Append(y.cb[c], item) \in Seq(ItemType)
    BY <1>1, <1>3, Appended
  <2> HIDE DEF x, item
  <2> QED
    BY <1>1, <1>3, <2>1
<1>7. /\ z.sync = [y.sync EXCEPT ![s] = x] /\ z.cb = [y.cb EXCEPT ![c] = Append(@, item)]
      /\ z.value = y.value /\ z.gpu = y.gpu /\ z.work = y.work /\ z.listeners = y.listeners
      /\ z.pc = y.pc /\ z.notified = y.notified /\ z \in SyncState
  <2> HIDE DEF x, item, z
  <2> QED
    BY <1>1, <1>4, <1>6 DEF SyncState
<1>8. SyncSound(x, y.value[e], z.cb, z.gpu)
  <2>1. Ordered(old, y.value[e], y.cb, y.gpu)
    <3>1. CASE y.sync[s].exists
      <4>1. Ordered(y.sync[s], y.value[e], y.cb, y.gpu)
        BY <3>1 DEF SyncsSound, AllSound, SyncSound
      <4>2. old.event = y.sync[s].event /\ old.counter = y.sync[s].counter /\ old.by = y.sync[s].by
        BY <3>1
      <4> HIDE DEF old
      <4> QED
        BY <4>1, <4>2 DEF Ordered
    <3>2. CASE ~y.sync[s].exists
      <4>1. e \in FreeEvents(y) /\ ~Refers(y, e)
        BY <1>1, <3>2, FreeAre
      <4>2. y.value[e] = 0
        BY <4>1 DEF SyncsSound, FreeAreNew
      <4>3. /\ \A i \in 1..Len(y.gpu) : ~Signals(y.gpu[i], e)
            /\ \A d \in Contexts : \A i \in 1..Len(y.cb[d]) : ~Signals(y.cb[d][i], e)
        BY <4>1 DEF Refers, Signals
      <4>4. y.value[e] <= old.counter
        BY <1>2, <1>5, <4>2
      <4> HIDE DEF old
      <4> QED
        BY <1>5, <4>3, <4>4 DEF Ordered
    <3> QED
      BY <3>1, <3>2
  <2>2. y.work[c] = WorkUpTo(y.gpu, Len(y.gpu), c) + WorkUpTo(y.cb[c], Len(y.cb[c]), c)
    BY DEF SyncsSound, WorkExact
  <2>3. y.value[e] \in Nat
    BY <1>1
  <2>4. SyncSound([exists |-> TRUE, event |-> old.event, counter |-> old.counter + 1,
                   by |-> old.by, before |-> y.work[c]], y.value[e],
                  [y.cb EXCEPT ![old.by] = Append(@, Item("signal", old.by, old.event, old.counter + 1))],
                  y.gpu)
    <3> HIDE DEF old, x, item, z
    <3> QED
      BY <1>1, <1>3, <1>5, <2>1, <2>2, <2>3, SignalRecorded, ZenonT(60)
  <2> HIDE DEF z
  <2> QED
    BY <1>5, <1>7, <2>4
<1>9. \A t \in Syncs : t # s /\ y.sync[t].exists => y.sync[t].event # e
  <2>1. CASE y.sync[s].exists
    BY <2>1 DEF SyncsSound, EventsApart
  <2>2. CASE ~y.sync[s].exists
    BY <1>1, <2>2, FreeAre DEF Refers
  <2> QED
    BY <2>1, <2>2
<1> HIDE DEF x, item, z, old, k
<1>10. AllSound(z.sync, z.value, z.cb, z.gpu)
  <2>1. SUFFICES ASSUME NEW t \in Syncs, z.sync[t].exists
                 PROVE  SyncSound(z.sync[t], z.value[z.sync[t].event], z.cb, z.gpu)
    BY DEF AllSound
  <2>2. CASE t = s
    BY <1>1, <1>5, <1>7, <1>8, <2>2
  <2>3. CASE t # s
    <3>1. z.sync[t] = y.sync[t] /\ y.sync[t].exists
      BY <1>1, <1>7, <2>1, <2>3
    <3>2. y.sync[t] \in SyncType /\ y.sync[t].by \in Contexts /\ y.sync[t].event \in Events
      BY <1>1, <3>1 DEF SyncsSound, EventsApart
    <3>3. y.value[y.sync[t].event] \in Nat
      BY <1>1, <3>2
    <3>4. SyncSound(y.sync[t], y.value[y.sync[t].event], y.cb, y.gpu)
      BY <3>1 DEF SyncsSound, AllSound
    <3>5. ~Signals(item, y.sync[t].event)
      BY <1>3, <1>9, <2>3, <3>1 DEF Signals
    <3>6. SyncSound(y.sync[t], y.value[y.sync[t].event], [y.cb EXCEPT ![c] = Append(@, item)], y.gpu)
      BY <1>1, <1>3, <3>2, <3>3, <3>4, <3>5, AppendOther
    <3> QED
      BY <1>7, <3>1, <3>6
  <2> QED
    BY <2>2, <2>3
<1>11. EventsApart(z.sync)
  <2>1. EventsApart(y.sync)
    BY DEF SyncsSound
  <2>2. z.sync[s] = x /\ \A t \in Syncs : t # s => z.sync[t] = y.sync[t]
    BY <1>1, <1>7
  <2>3. \A d \in Contexts : d \in Syncs
    BY DEF Syncs
  <2>4. s \in Contexts => s = c
    BY <2>1 DEF EventsApart
  <2>5. \A d \in Contexts : z.sync[d].exists => z.sync[d].by = d
    BY <1>5, <2>1, <2>2, <2>3, <2>4 DEF EventsApart
  <2>6. \A t, u \in Syncs : z.sync[t].exists /\ z.sync[u].exists /\ z.sync[t].event = z.sync[u].event => t = u
    BY <1>5, <1>9, <2>1, <2>2 DEF EventsApart
  <2>7. \A t \in Syncs : IF z.sync[t].exists
                         THEN z.sync[t].event \in Events /\ z.sync[t].by \in Contexts
                         ELSE z.sync[t] = NoSync
    BY <1>5, <2>1, <2>2 DEF EventsApart
  <2> QED
    BY <2>5, <2>6, <2>7 DEF EventsApart
<1>12. /\ z.cb[c] = Append(y.cb[c], item) /\ y.cb[c] \in Seq(ItemType)
       /\ \A d \in Contexts : d # c => z.cb[d] = y.cb[d]
  BY <1>1, <1>7
<1>13. /\ Len(y.cb[c]) \in Nat /\ Len(z.cb[c]) = Len(y.cb[c]) + 1
       /\ \A i \in 1..Len(y.cb[c]) : z.cb[c][i] = y.cb[c][i]
       /\ z.cb[c][Len(y.cb[c]) + 1] = item
       /\ \A d : WorkUpTo(z.cb[c], Len(y.cb[c]) + 1, d)
                   = WorkUpTo(y.cb[c], Len(y.cb[c]), d) + (IF IsWork(item, d) THEN 1 ELSE 0)
  BY <1>3, <1>12, Appended
<1>14. Owned(z.cb)
  <2>1. \A i \in 1..Len(z.cb[c]) : i \in 1..Len(y.cb[c]) \/ i = Len(y.cb[c]) + 1
    BY <1>13
  <2>2. \A d \in Contexts : \A i \in 1..Len(y.cb[d]) : y.cb[d][i].c = d
    BY DEF SyncsSound, Owned
  <2>3. \A i \in 1..Len(z.cb[c]) : z.cb[c][i].c = c
    <3>1. item.c = c
      BY <1>3
    <3>2. ASSUME NEW i \in 1..Len(z.cb[c]) PROVE z.cb[c][i].c = c
      <4>1. CASE i \in 1..Len(y.cb[c])
        BY <1>13, <2>2, <4>1
      <4>2. CASE i = Len(y.cb[c]) + 1
        BY <1>13, <3>1, <4>2
      <4> QED
        BY <2>1, <4>1, <4>2
    <3> QED
      BY <3>2
  <2> QED
    BY <1>12, <2>2, <2>3 DEF Owned
<1>15. WorkExact(z.work, z.cb, z.gpu)
  <2>1. ~IsWork(item, c)
    BY <1>3 DEF IsWork
  <2>2. WorkUpTo(y.cb[c], Len(y.cb[c]), c) \in Nat
    BY <1>13, WorkSteps
  <2>3. WorkUpTo(z.cb[c], Len(z.cb[c]), c) = WorkUpTo(y.cb[c], Len(y.cb[c]), c)
    BY <1>13, <2>1, <2>2
  <2> QED
    BY <1>7, <1>12, <2>3 DEF SyncsSound, WorkExact
<1>16. FreeAreNew(z)
  <2>1. \A i \in 1..Len(y.cb[c]) : i \in 1..Len(z.cb[c])
    BY <1>13
  <2>2. ASSUME NEW f \in Events, Refers(y, f) PROVE Refers(z, f)
    <3>1. CASE \E t \in Syncs : y.sync[t].event = f
      <4>1. PICK t \in Syncs : y.sync[t].event = f
        BY <3>1
      <4>2. CASE t = s /\ ~y.sync[s].exists
        <5>1. y.sync[s] = NoSync
          BY <4>2 DEF SyncsSound, EventsApart
        <5>2. f = 0
          BY <4>1, <4>2, <5>1 DEF NoSync
        <5> QED
          BY <5>2 DEF Events
      <4>3. CASE ~(t = s /\ ~y.sync[s].exists)
        <5>1. z.sync[t].event = y.sync[t].event
          BY <1>1, <1>5, <1>7, <4>3
        <5> QED
          BY <4>1, <5>1 DEF Refers
      <4> QED
        BY <4>2, <4>3
    <3>2. CASE ~\E t \in Syncs : y.sync[t].event = f
      BY <1>7, <1>12, <1>13, <2>1, <2>2, <3>2 DEF Refers
    <3> QED
      BY <3>1, <3>2
  <2> QED
    BY <1>1, <1>7, <2>2, StillNew DEF SyncsSound
<1> QED
  BY <1>7, <1>10, <1>11, <1>14, <1>15, <1>16 DEF SyncsSound, z

LEMMA CommitSound ==
    ASSUME NEW y, SyncsSound(y), NEW c \in Contexts
    PROVE  LET z == Commit(y, c) IN
           /\ SyncsSound(z) /\ z.sync = y.sync /\ z.value = y.value /\ z.listeners = y.listeners
           /\ z.pc = y.pc /\ z.notified = y.notified
<1> DEFINE z == Commit(y, c)
           new == [y.cb EXCEPT ![c] = <<>>]
           g == y.gpu \o y.cb[c]
<1>1. /\ y \in SyncState /\ y.cb \in [Contexts -> Seq(ItemType)] /\ y.cb[c] \in Seq(ItemType)
      /\ y.gpu \in Seq(ItemType)
  BY DEF SyncsSound, SyncState
<1>2. z = [y EXCEPT !.gpu = g, !.cb = new]
  BY <1>1 DEF Commit, SyncState
<1>3. new \in [Contexts -> Seq(ItemType)] /\ new[c] = <<>> /\ \A d \in Contexts : d # c => new[d] = y.cb[d]
  <2>1. <<>> \in Seq(ItemType)
    BY EmptySeq
  <2> QED
    BY <1>1, <2>1
<1>4. /\ g \in Seq(ItemType) /\ Len(g) = Len(y.gpu) + Len(y.cb[c])
      /\ Len(y.gpu) \in Nat /\ Len(y.cb[c]) \in Nat
      /\ \A i \in 1..Len(y.gpu) + Len(y.cb[c]) :
           g[i] = IF i <= Len(y.gpu) THEN y.gpu[i] ELSE y.cb[c][i - Len(y.gpu)]
  BY <1>1, ConcatProperties, LenProperties
<1>5. /\ z.sync = y.sync /\ z.value = y.value /\ z.listeners = y.listeners /\ z.work = y.work
      /\ z.pc = y.pc /\ z.notified = y.notified /\ z.cb = new /\ z.gpu = g /\ z \in SyncState
  <2> HIDE DEF z, new, g
  <2> QED
    BY <1>1, <1>2, <1>3, <1>4 DEF SyncState
<1>6. Owned(y.cb) /\ WorkExact(y.work, y.cb, y.gpu)
  BY DEF SyncsSound
<1>7. WorkExact(z.work, z.cb, z.gpu)
  <2> DEFINE w == y.work
             cb == y.cb
             gpu == y.gpu
  <2>1. cb \in [Contexts -> Seq(ItemType)] /\ gpu \in Seq(ItemType) /\ Owned(cb) /\ WorkExact(w, cb, gpu)
    BY <1>1, <1>6
  <2> HIDE DEF w, cb, gpu
  <2>2. WorkExact(w, [cb EXCEPT ![c] = <<>>], gpu \o cb[c])
    BY <2>1, CommitCounts
  <2>3. WorkExact(y.work, new, g)
    BY <2>2 DEF w, cb, gpu
  <2> HIDE DEF z, new, g
  <2> QED
    BY <1>5, <2>3
<1>8. AllSound(z.sync, z.value, z.cb, z.gpu)
  <2>1. SUFFICES ASSUME NEW s \in Syncs, y.sync[s].exists
                 PROVE  SyncSound(y.sync[s], y.value[y.sync[s].event], new, g)
    <3> HIDE DEF z, new, g
    <3> QED
      BY <1>5 DEF AllSound
  <2>2. /\ y.sync[s] \in SyncType /\ y.sync[s].by \in Contexts /\ y.sync[s].event \in Events
    BY <1>1, <2>1, StateParts DEF SyncsSound, EventsApart
  <2>3. y.value[y.sync[s].event] \in Nat
    BY <1>1, <2>2, StateParts
  <2>4. SyncSound(y.sync[s], y.value[y.sync[s].event], y.cb, y.gpu)
    BY <2>1 DEF SyncsSound, AllSound
  <2> DEFINE x == y.sync[s]
             v == y.value[y.sync[s].event]
  <2>5. x \in SyncType /\ x.by \in Contexts /\ v \in Nat /\ SyncSound(x, v, y.cb, y.gpu)
    BY <2>2, <2>3, <2>4
  <2> HIDE DEF x, v
  <2>6. SyncSound(x, v, new, g)
    BY <1>1, <1>6, <2>5, CommitKeeps
  <2> QED
    BY <2>6 DEF x, v
<1>9. FreeAreNew(z)
  <2> DEFINE m == Len(y.gpu)
             n == Len(y.cb[c])
  <2>0. /\ m \in Nat /\ n \in Nat /\ Len(g) = m + n
        /\ \A i \in 1..m + n : g[i] = IF i <= m THEN y.gpu[i] ELSE y.cb[c][i - m]
    BY <1>4
  <2> HIDE DEF g, m, n
  <2>1. \A i \in 1..m : i \in 1..Len(g) /\ g[i] = y.gpu[i]
    <3>1. \A i \in 1..m : i \in 1..m + n /\ i <= m
      BY <2>0
    <3> QED
      BY <2>0, <3>1
  <2>2. \A i \in 1..n : m + i \in 1..Len(g) /\ g[m + i] = y.cb[c][i]
    <3>1. \A i \in 1..n : m + i \in 1..m + n /\ ~(m + i <= m) /\ (m + i) - m = i
      BY <2>0
    <3> QED
      BY <2>0, <3>1
  <2> USE DEF m, n
  <2> HIDE DEF z, new, g
  <2>3. ASSUME NEW e, Refers(y, e) PROVE Refers(z, e)
    <3>1. CASE \E d \in Contexts : \E i \in 1..Len(y.cb[d]) : y.cb[d][i].event = e
      <4>1. PICK d \in Contexts : \E i \in 1..Len(y.cb[d]) : y.cb[d][i].event = e
        BY <3>1
      <4>2. CASE d = c
        BY <1>5, <2>2, <4>1, <4>2 DEF Refers
      <4>3. CASE d # c
        BY <1>3, <1>5, <4>1, <4>3 DEF Refers
      <4> QED
        BY <4>2, <4>3
    <3>2. CASE ~\E d \in Contexts : \E i \in 1..Len(y.cb[d]) : y.cb[d][i].event = e
      BY <1>5, <2>1, <2>3, <3>2 DEF Refers
    <3> QED
      BY <3>1, <3>2
  <2> QED
    BY <1>1, <1>5, <2>3, StillNew DEF SyncsSound
<1> HIDE DEF z, new, g
<1>10. Owned(z.cb)
  <2>1. Len(new[c]) = 0
    BY <1>3, EmptySeq
  <2>2. \A i \in 1..Len(new[c]) : FALSE
    BY <2>1
  <2> QED
    BY <1>3, <1>5, <1>6, <2>2 DEF Owned
<1>11. SyncsSound(z)
  BY <1>5, <1>7, <1>8, <1>9, <1>10, SMTT(40) DEF SyncsSound
<1> QED
  BY <1>5, <1>11 DEF z

\* The GPU has executed work.
LEMMA ExecutedSound ==
    ASSUME NEW y, SyncsSound(y), y.gpu # <<>>, Head(y.gpu).kind = "work"
    PROVE  LET z == Executed([y EXCEPT !.gpu = Tail(@)], Head(y.gpu).c) IN
           /\ SyncsSound(z) /\ z.listeners = y.listeners /\ z.pc = y.pc /\ z.notified = y.notified
           /\ z.value = y.value
           /\ \A s \in Syncs : /\ z.sync[s].exists = y.sync[s].exists
                               /\ z.sync[s].event = y.sync[s].event /\ z.sync[s].counter = y.sync[s].counter
<1> DEFINE h == Head(y.gpu)
           g == Tail(y.gpu)
           b(s) == y.sync[s].before - (IF IsWork(h, y.sync[s].by) /\ y.sync[s].before > 0 THEN 1 ELSE 0)
           sync == [s \in Syncs |-> IF y.sync[s].by = h.c /\ y.sync[s].before > 0
                                    THEN [y.sync[s] EXCEPT !.before = @ - 1] ELSE y.sync[s]]
           work == [y.work EXCEPT ![h.c] = @ - 1]
           z == Executed([y EXCEPT !.gpu = Tail(@)], h.c)
<1>1. /\ y \in SyncState /\ y.cb \in [Contexts -> Seq(ItemType)] /\ y.gpu \in Seq(ItemType)
      /\ y.work \in [Contexts -> Nat] /\ y.sync \in [Syncs -> SyncType]
  BY DEF SyncsSound, SyncState
<1>2. /\ h \in ItemType /\ h = y.gpu[1] /\ g \in Seq(ItemType) /\ Len(g) \in Nat /\ Len(y.gpu) = Len(g) + 1
      /\ \A i \in 1..Len(g) : i + 1 \in 1..Len(y.gpu) /\ g[i] = y.gpu[i + 1]
  BY <1>1, Popped
<1>3. z = [y EXCEPT !.gpu = g, !.work = work, !.sync = sync]
  <2> DEFINE y1 == [y EXCEPT !.gpu = Tail(@)]
  <2>1. y1 = [y EXCEPT !.gpu = g] /\ y1.work = y.work /\ y1.sync = y.sync
    BY <1>1 DEF SyncState
  <2>2. z = [y1 EXCEPT !.work = work, !.sync = sync]
    <3> HIDE DEF y1, h
    <3>1. Executed(y1, h.c) = [y1 EXCEPT !.work = [y1.work EXCEPT ![h.c] = @ - 1],
                                         !.sync = [s \in Syncs |-> OneLess(y1.sync[s], h.c)]]
      BY <2>1 DEF Executed
    <3>2. sync = [s \in Syncs |-> OneLess(y.sync[s], h.c)]
      BY DEF OneLess
    <3> HIDE DEF sync
    <3> QED
      BY <2>1, <3>1, <3>2 DEF y1
  <2> HIDE DEF work, sync, z, g, h
  <2> QED
    BY <1>1, <2>1, <2>2 DEF SyncState
<1>4. \A s \in Syncs : IsWork(h, y.sync[s].by) <=> y.sync[s].by = h.c
  BY DEF IsWork
<1> HIDE DEF h
<1>5. ASSUME NEW s \in Syncs
      PROVE  b(s) \in Nat /\ sync[s] = [y.sync[s] EXCEPT !.before = b(s)] /\ sync[s] \in SyncType
  <2>1. y.sync[s] \in SyncType /\ y.sync[s].before \in Nat
    BY <1>1 DEF SyncType
  <2>2. CASE y.sync[s].by = h.c /\ y.sync[s].before > 0
    <3>1. b(s) = y.sync[s].before - 1 /\ b(s) \in Nat
      BY <1>4, <2>1, <2>2
    <3>2. sync[s] = [y.sync[s] EXCEPT !.before = y.sync[s].before - 1]
      BY <2>2
    <3> HIDE DEF sync, b
    <3> QED
      BY <2>1, <3>1, <3>2 DEF SyncType
  <2>3. CASE ~(y.sync[s].by = h.c /\ y.sync[s].before > 0)
    <3>1. b(s) = y.sync[s].before
      BY <1>4, <2>1, <2>3
    <3>2. sync[s] = y.sync[s]
      BY <2>3
    <3> HIDE DEF sync, b
    <3> QED
      BY <2>1, <3>1, <3>2 DEF SyncType
  <2> QED
    BY <2>2, <2>3
<1>6. /\ work \in [Contexts -> Nat] /\ WorkExact(work, y.cb, g)
  <2>1. WorkExact(y.work, y.cb, y.gpu) /\ h.kind = "work"
    BY DEF SyncsSound, h
  <2> QED
    BY <1>1, <2>1, PopCounts DEF h
<1>7. sync \in [Syncs -> SyncType]
  BY <1>5
<1>8. \A s \in Syncs : /\ sync[s].exists = y.sync[s].exists /\ sync[s].event = y.sync[s].event
                       /\ sync[s].counter = y.sync[s].counter /\ sync[s].by = y.sync[s].by
  <2>1. SUFFICES ASSUME NEW s \in Syncs
                 PROVE  /\ sync[s].exists = y.sync[s].exists /\ sync[s].event = y.sync[s].event
                        /\ sync[s].counter = y.sync[s].counter /\ sync[s].by = y.sync[s].by
    OBVIOUS
  <2>2. sync[s] = [y.sync[s] EXCEPT !.before = b(s)] /\ y.sync[s] \in SyncType
    BY <1>1, <1>5
  <2> HIDE DEF sync, b
  <2> QED
    BY <2>2 DEF SyncType
<1> HIDE DEF g, sync, work, z
<1>9. /\ z \in SyncState /\ z.gpu = g /\ z.work = work /\ z.sync = sync
      /\ z.cb = y.cb /\ z.value = y.value /\ z.listeners = y.listeners /\ z.pc = y.pc
      /\ z.notified = y.notified
  BY <1>1, <1>2, <1>3, <1>6, <1>7 DEF SyncState
<1>10. AllSound(sync, y.value, y.cb, g)
  <2>1. SUFFICES ASSUME NEW s \in Syncs, y.sync[s].exists
                 PROVE  SyncSound(sync[s], y.value[y.sync[s].event], y.cb, g)
    BY <1>8 DEF AllSound
  <2>2. /\ y.sync[s] \in SyncType /\ y.sync[s].by \in Contexts /\ y.sync[s].event \in Events
    BY <1>1, <2>1, StateParts DEF SyncsSound, EventsApart
  <2>3. y.value[y.sync[s].event] \in Nat
    BY <1>1, <2>2, StateParts
  <2>4. SyncSound(y.sync[s], y.value[y.sync[s].event], y.cb, y.gpu)
    BY <2>1 DEF SyncsSound, AllSound
  <2> DEFINE x == y.sync[s]
             v == y.value[y.sync[s].event]
             bb == b(s)
  <2>5. /\ x \in SyncType /\ x.by \in Contexts /\ v \in Nat /\ SyncSound(x, v, y.cb, y.gpu)
        /\ bb \in Nat /\ bb = x.before - (IF IsWork(h, x.by) /\ x.before > 0 THEN 1 ELSE 0)
        /\ sync[s] = [x EXCEPT !.before = bb]
    BY <1>5, <2>2, <2>3, <2>4
  <2> HIDE DEF x, v, bb
  <2>6. SyncSound([x EXCEPT !.before = bb], v, y.cb, g)
    BY <1>1, <2>5, PopKeeps DEF h, g
  <2> QED
    BY <2>5, <2>6 DEF v
<1>11. EventsApart(sync)
  <2>1. EventsApart(y.sync)
    BY DEF SyncsSound
  <2>2. ASSUME NEW s \in Syncs, ~sync[s].exists PROVE sync[s] = NoSync
    <3>1. y.sync[s] = NoSync
      BY <1>8, <2>1, <2>2 DEF EventsApart
    <3>2. y.sync[s].before = 0
      BY <3>1 DEF NoSync
    <3>3. sync[s] = y.sync[s]
      BY <3>2 DEF sync
    <3> QED
      BY <3>1, <3>3
  <2>3. \A c \in Contexts : c \in Syncs
    BY DEF Syncs
  <2>4. \A s \in Syncs : sync[s].exists => sync[s].event \in Events /\ sync[s].by \in Contexts
    BY <1>8, <2>1 DEF EventsApart
  <2>5. \A s, t \in Syncs : sync[s].exists /\ sync[t].exists /\ sync[s].event = sync[t].event => s = t
    BY <1>8, <2>1 DEF EventsApart
  <2>6. \A c \in Contexts : sync[c].exists => sync[c].by = c
    BY <1>8, <2>1, <2>3 DEF EventsApart
  <2> QED
    BY <2>2, <2>4, <2>5, <2>6 DEF EventsApart
<1>12. FreeAreNew(z)
  <2>1. h.event = 0
    BY <1>2, ItemParts DEF h
  <2>2. \A i \in 1..Len(y.gpu) : i = 1 \/ (i - 1 \in 1..Len(g) /\ g[i - 1] = y.gpu[i])
    <3>1. \A i \in 1..Len(y.gpu) : i # 1 => i - 1 \in 1..Len(g) /\ (i - 1) + 1 = i
      BY <1>2
    <3> QED
      BY <1>2, <3>1
  <2>3. ASSUME NEW e \in Events, Refers(y, e) PROVE Refers(z, e)
    <3>1. \A i \in 1..Len(y.gpu) : y.gpu[i].event = e => \E j \in 1..Len(g) : g[j].event = e
      <4>1. e # 0
        BY DEF Events
      <4> QED
        BY <1>2, <2>1, <2>2, <4>1
    <3> QED
      BY <1>8, <1>9, <2>3, <3>1 DEF Refers
  <2> QED
    BY <1>1, <1>9, <2>3, StillNew DEF SyncsSound
<1>13. SyncsSound(z)
  BY <1>6, <1>9, <1>10, <1>11, <1>12 DEF SyncsSound
<1> QED
  BY <1>8, <1>9, <1>13 DEF z, h

\* The GPU has gone past an event.
LEMMA PoppedCore ==
    ASSUME NEW y, NEW z, SyncsSound(y), y.gpu # <<>>, Head(y.gpu).kind # "work", z \in SyncState,
           z.gpu = Tail(y.gpu),
           z.value = IF Head(y.gpu).kind = "signal"
                     THEN [y.value EXCEPT ![Head(y.gpu).event] = Head(y.gpu).value] ELSE y.value,
           z.sync = y.sync, z.cb = y.cb, z.work = y.work
    PROVE  /\ Core(z)
           /\ \A s \in Syncs : y.sync[s].exists => y.value[y.sync[s].event] <= z.value[y.sync[s].event]
<1> DEFINE h == Head(y.gpu)
           g == Tail(y.gpu)
<1>1. /\ y \in SyncState /\ y.cb \in [Contexts -> Seq(ItemType)] /\ y.gpu \in Seq(ItemType)
      /\ y.work \in [Contexts -> Nat] /\ y.value \in [Events -> Nat]
  BY DEF SyncsSound, SyncState
<1>2. h \in ItemType /\ h.event \in Events /\ h.value \in Nat /\ h = y.gpu[1] /\ 1 \in 1..Len(y.gpu)
  <2>1. h \in ItemType /\ h = y.gpu[1] /\ Len(y.gpu) = Len(g) + 1 /\ Len(g) \in Nat
    BY <1>1, Popped
  <2>2. h.event \in 1..MaxEvents
    BY <2>1, ItemParts, SyncAssumption
  <2>3. 1 \in 1..Len(y.gpu)
    BY <2>1
  <2> QED
    BY <2>1, <2>2, <2>3, ItemParts DEF Events
<1>3. WorkExact(z.work, z.cb, z.gpu)
  <2> DEFINE w == y.work
             cb == y.cb
             gpu == y.gpu
  <2>1. /\ w \in [Contexts -> Nat] /\ cb \in [Contexts -> Seq(ItemType)] /\ gpu \in Seq(ItemType)
        /\ gpu # <<>> /\ WorkExact(w, cb, gpu) /\ Head(gpu).kind # "work"
    BY <1>1 DEF SyncsSound
  <2> HIDE DEF w, cb, gpu
  <2>2. WorkExact(w, cb, Tail(gpu))
    BY <2>1, PopCounts
  <2> QED
    BY <2>2 DEF w, cb, gpu
<1>4. ASSUME NEW s \in Syncs, y.sync[s].exists
      PROVE  /\ SyncSound(y.sync[s], z.value[y.sync[s].event], y.cb, g)
             /\ y.value[y.sync[s].event] <= z.value[y.sync[s].event]
  <2>1. /\ y.sync[s] \in SyncType /\ y.sync[s].by \in Contexts /\ y.sync[s].event \in Events
    BY <1>1, <1>4, StateParts DEF SyncsSound, EventsApart
  <2>2. y.value[y.sync[s].event] \in Nat
    BY <1>1, <2>1, StateParts
  <2>3. SyncSound(y.sync[s], y.value[y.sync[s].event], y.cb, y.gpu)
    BY <1>4 DEF SyncsSound, AllSound
  <2> DEFINE x == y.sync[s]
             v == y.value[y.sync[s].event]
             cb == y.cb
             gpu == y.gpu
             w == z.value[y.sync[s].event]
  <2>4. /\ x \in SyncType /\ x.by \in Contexts /\ v \in Nat /\ SyncSound(x, v, cb, gpu) /\ gpu # <<>>
        /\ cb \in [Contexts -> Seq(ItemType)] /\ gpu \in Seq(ItemType) /\ x.before \in Nat
        /\ h = Head(gpu) /\ h = gpu[1] /\ g = Tail(gpu) /\ 1 \in 1..Len(gpu)
    BY <1>1, <1>2, <2>1, <2>2, <2>3 DEF SyncType
  <2>5. w = IF Signals(h, x.event) THEN h.value ELSE v
    BY <1>1, <1>2, <2>1 DEF Signals
  <2> HIDE DEF x, v, w, h, g, cb, gpu
  <2>6. CASE Signals(h, x.event)
    <3>1. SyncSound(x, h.value, cb, g)
      BY <2>4, <2>6, SignalKeeps
    <3>2. v < h.value
      BY <2>4, <2>6 DEF SyncSound, Ordered
    <3>3. v <= w
      BY <1>2, <2>4, <2>5, <2>6, <3>2
    <3> QED
      BY <2>5, <2>6, <3>1, <3>3 DEF x, v, w, cb
  <2>7. CASE ~Signals(h, x.event)
    <3>1. ~IsWork(h, x.by)
      BY DEF IsWork, h
    <3>2. SyncSound([x EXCEPT !.before = x.before], v, cb, g)
      <4> DEFINE b == x.before
      <4>1. b \in Nat /\ b = x.before - (IF IsWork(Head(gpu), x.by) /\ x.before > 0 THEN 1 ELSE 0)
        BY <2>4, <3>1
      <4> HIDE DEF b
      <4>2. SyncSound([x EXCEPT !.before = b], v, cb, Tail(gpu))
        BY <2>4, <4>1, PopKeeps
      <4> QED
        BY <2>4, <4>2 DEF b
    <3>3. [x EXCEPT !.before = x.before] = x
      BY <2>4 DEF SyncType
    <3>4. v <= w
      BY <2>4, <2>5, <2>7
    <3>5. SyncSound(x, w, cb, g)
      BY <2>5, <2>7, <3>2, <3>3
    <3> QED
      BY <3>4, <3>5 DEF x, v, w, cb
  <2> QED
    BY <2>6, <2>7
<1>5. AllSound(z.sync, z.value, z.cb, z.gpu)
  BY <1>4 DEF AllSound
<1> QED
  BY <1>3, <1>4, <1>5 DEF SyncsSound, Core

\* The thread that waits for s is still told when only these change.
LEMMA StillTold ==
    ASSUME NEW y, NEW z, SyncsSound(y), NEW s \in Syncs, y.sync[s].exists, Told(y, s),
           z.value[y.sync[s].event] \in Nat,
           z.sync[s].event = y.sync[s].event, z.sync[s].counter = y.sync[s].counter,
           y.value[y.sync[s].event] <= z.value[y.sync[s].event],
           y.listeners \subseteq z.listeners, z.pc = y.pc, z.notified = y.notified
    PROVE  Told(z, s)
<1>1. y.sync[s].counter \in Nat /\ y.value[y.sync[s].event] \in Nat
  <2>1. y \in SyncState /\ y.sync[s].event \in Events /\ y.sync[s] \in SyncType
    BY DEF SyncsSound, EventsApart, SyncState
  <2> QED
    BY <2>1, StateParts DEF SyncType
<1>2. Signalled(y, s) => Signalled(z, s)
  BY <1>1 DEF Signalled
<1>3. Own(z, s) = Own(y, s)
  BY DEF Own
<1> QED
  BY <1>2, <1>3 DEF Told

\* The states of GpuStep: the invariant of the fences is kept, and the waiting
\* thread is told.
LEMMA GpuKeeps == SyncInv /\ GpuStep => SyncInv'
<1> SUFFICES ASSUME SyncInv, GpuStep PROVE SyncInv'
  OBVIOUS
<1> DEFINE h == Head(syncs.gpu)
           y == [syncs EXCEPT !.gpu = Tail(@)]
<1>1. /\ SyncsSound(syncs) /\ syncs \in SyncState /\ syncs.gpu # <<>> /\ syncs.gpu \in Seq(ItemType)
      /\ UNCHANGED <<alive, lock>> /\ syncs.value \in [Events -> Nat]
  BY DEF SyncInv, SyncsSound, SyncState, GpuStep, entryVars
<1>2. ASSUME SyncsSound(syncs'), syncs'.listeners = syncs.listeners, syncs'.pc = syncs.pc,
                      syncs'.notified = syncs.notified,
                      \A s \in Syncs : syncs.sync[s].exists =>
                        /\ syncs'.sync[s].exists
                        /\ syncs'.sync[s].event = syncs.sync[s].event
                        /\ syncs'.sync[s].counter = syncs.sync[s].counter
                        /\ syncs.value[syncs.sync[s].event] <= syncs'.value[syncs.sync[s].event]
      PROVE  SyncInv'
  <2>1. Waiting' <=> Waiting
    BY <1>1 DEF Waiting
  <2>2. ASSUME Waiting
        PROVE  lock'.x \in Syncs /\ syncs'.sync[lock'.x].exists /\ Told(syncs', lock'.x)
    <3>1. lock' = lock /\ lock.x \in Syncs /\ syncs.sync[lock.x].exists /\ Told(syncs, lock.x)
      BY <1>1, <2>2 DEF SyncInv
    <3>2. syncs.sync[lock.x].event \in Events
      BY <1>1, <3>1 DEF SyncsSound, EventsApart
    <3>3. syncs'.value[syncs.sync[lock.x].event] \in Nat
      <4>1. syncs' \in SyncState
        BY <1>2 DEF SyncsSound
      <4> QED
        BY <3>2, <4>1, StateParts
    <3> DEFINE a == syncs
               b == syncs'
               s == lock.x
    <3>4. Told(b, s)
      <4>1. /\ SyncsSound(a) /\ s \in Syncs /\ a.sync[s].exists /\ Told(a, s) /\ b.value[a.sync[s].event] \in Nat
            /\ b.sync[s].event = a.sync[s].event /\ b.sync[s].counter = a.sync[s].counter
            /\ a.value[a.sync[s].event] <= b.value[a.sync[s].event]
            /\ a.listeners \subseteq b.listeners /\ b.pc = a.pc /\ b.notified = a.notified
        BY <1>1, <1>2, <3>1, <3>3
      <4> HIDE DEF a, b, s
      <4> QED
        BY <4>1, StillTold
    <3> QED
      BY <1>2, <3>1, <3>4
  <2> QED
    BY <1>1, <1>2, <2>1, <2>2 DEF SyncInv
<1>3. CASE h.kind = "work" /\ syncs' = Executed(y, h.c)
  <2> DEFINE p == syncs
             q == Executed([p EXCEPT !.gpu = Tail(@)], Head(p.gpu).c)
  <2>1. SyncsSound(p) /\ p.gpu # <<>> /\ Head(p.gpu).kind = "work" /\ syncs' = q
    BY <1>1, <1>3
  <2> HIDE DEF p
  <2>2. /\ SyncsSound(q) /\ q.listeners = p.listeners /\ q.pc = p.pc /\ q.notified = p.notified
        /\ q.value = p.value
        /\ \A s \in Syncs : /\ q.sync[s].exists = p.sync[s].exists
                            /\ q.sync[s].event = p.sync[s].event /\ q.sync[s].counter = p.sync[s].counter
    BY <2>1, ExecutedSound
  <2>3. ASSUME NEW s \in Syncs, p.sync[s].exists PROVE p.value[p.sync[s].event] \in Nat
    <3>1. p \in SyncState /\ p.sync[s].event \in Events
      BY <2>1, <2>3 DEF SyncsSound, EventsApart
    <3> QED
      BY <3>1, StateParts
  <2> HIDE DEF q
  <2>4. \A s \in Syncs : p.sync[s].exists => p.value[p.sync[s].event] <= q.value[p.sync[s].event]
    BY <2>2, <2>3
  <2> QED
    BY <1>2, <2>1, <2>2, <2>4 DEF p
<1>4. ASSUME NEW w, w \in SyncState, syncs' = Forget(w), h.kind # "work",
             w.gpu = Tail(syncs.gpu),
             w.value = IF h.kind = "signal" THEN [syncs.value EXCEPT ![h.event] = h.value] ELSE syncs.value,
             w.sync = syncs.sync, w.cb = syncs.cb, w.work = syncs.work,
             w.listeners = syncs.listeners, w.pc = syncs.pc, w.notified = syncs.notified
      PROVE  SyncInv'
  <2> DEFINE p == syncs
             q == Forget(w)
  <2>1. SyncsSound(p) /\ p.gpu # <<>> /\ syncs' = q
    BY <1>1, <1>4
  <2>2. /\ Core(w)
        /\ \A s \in Syncs : p.sync[s].exists => p.value[p.sync[s].event] <= w.value[p.sync[s].event]
    <3>1. /\ Head(p.gpu).kind # "work" /\ w.gpu = Tail(p.gpu)
          /\ w.value = IF Head(p.gpu).kind = "signal"
                       THEN [p.value EXCEPT ![Head(p.gpu).event] = Head(p.gpu).value] ELSE p.value
          /\ w.sync = p.sync /\ w.cb = p.cb /\ w.work = p.work
      BY <1>4
    <3> HIDE DEF p, q
    <3> QED
      BY <1>4, <2>1, <3>1, PoppedCore
  <2>3. /\ SyncsSound(q) /\ q.sync = w.sync /\ q.listeners = w.listeners
        /\ q.pc = w.pc /\ q.notified = w.notified
        /\ \A s \in Syncs : w.sync[s].exists => q.value[w.sync[s].event] = w.value[w.sync[s].event]
    BY <2>2, ForgetSound
  <2> HIDE DEF q
  <2> QED
    BY <1>2, <1>4, <2>1, <2>2, <2>3
<1>5. /\ y \in SyncState /\ y.gpu = Tail(syncs.gpu) /\ y.value = syncs.value
      /\ y.sync = syncs.sync /\ y.cb = syncs.cb /\ y.work = syncs.work
      /\ y.listeners = syncs.listeners /\ y.pc = syncs.pc /\ y.notified = syncs.notified
  <2> DEFINE t == Tail(syncs.gpu)
  <2>1. t \in Seq(ItemType)
    BY <1>1, Popped
  <2>2. y = [syncs EXCEPT !.gpu = t]
    OBVIOUS
  <2> HIDE DEF t
  <2>3. y \in SyncState /\ y.gpu = t
    BY <1>1, <2>1, <2>2 DEF SyncState
  <2>4. /\ y.value = syncs.value /\ y.sync = syncs.sync /\ y.cb = syncs.cb /\ y.work = syncs.work
        /\ y.listeners = syncs.listeners /\ y.pc = syncs.pc /\ y.notified = syncs.notified
    BY <1>1, <2>2 DEF SyncState
  <2> QED
    BY <2>3, <2>4 DEF t
<1>6. CASE h.kind = "signal" /\ syncs' = Forget([y EXCEPT !.value[h.event] = h.value])
  <2> DEFINE new == [syncs.value EXCEPT ![h.event] = h.value]
             w == [y EXCEPT !.value = new]
  <2> HIDE DEF y, h
  <2>1. syncs' = Forget(w)
    BY <1>5, <1>6
  <2>2. h \in ItemType /\ h.value \in Nat /\ new \in [Events -> Nat]
    <3>1. h \in ItemType
      BY <1>1, Popped DEF h
    <3>2. h.value \in Nat
      BY <3>1, ItemParts
    <3> QED
      BY <1>1, <3>1, <3>2
  <2> HIDE DEF new
  <2>3. /\ w \in SyncState /\ w.value = new /\ w.gpu = y.gpu
        /\ w.sync = y.sync /\ w.cb = y.cb /\ w.work = y.work
        /\ w.listeners = y.listeners /\ w.pc = y.pc /\ w.notified = y.notified
    BY <1>5, <2>2 DEF SyncState
  <2> HIDE DEF w
  <2> QED
    BY <1>4, <1>5, <1>6, <2>1, <2>3 DEF new
<1>7. CASE h.kind = "wait" /\ syncs' = Forget(y)
  <2> HIDE DEF y, h
  <2> QED
    BY <1>4, <1>5, <1>7
<1> QED
  BY <1>3, <1>6, <1>7 DEF GpuStep

\* A listener is called.
LEMMA FireKeeps == ASSUME NEW l \in syncs.listeners, SyncInv, Fire(l) PROVE SyncInv'
<1> DEFINE L == syncs.listeners \ {l}
           n == syncs.notified \/ (Waiting /\ syncs.pc = "asleep" /\ syncs.sync[lock.x].event = l.event)
           y == [syncs EXCEPT !.listeners = L, !.pc = syncs.pc, !.notified = n]
           z == Forget(y)
<1>1. /\ SyncsSound(syncs) /\ syncs \in SyncState /\ syncs.listeners \in SUBSET [event : Events, value : Nat]
      /\ syncs.pc \in {"running", "armed", "checked", "asleep"} /\ syncs.notified \in BOOLEAN
      /\ UNCHANGED <<alive, lock>> /\ syncs.value[l.event] >= l.value /\ ~MutexHeld(l.event)
  BY DEF SyncInv, SyncsSound, SyncState, Fire, entryVars
<1>2. syncs' = z
  <2>1. Notify(l) = [syncs EXCEPT !.listeners = L, !.notified = n]
    BY Zenon DEF Notify
  <2>2. y = [syncs EXCEPT !.listeners = L, !.notified = n]
    <3> HIDE DEF L, n
    <3> QED
      BY <1>1 DEF SyncState
  <2>3. syncs' = Forget(Notify(l))
    BY DEF Fire
  <2> HIDE DEF y, L, n
  <2> QED
    BY <2>1, <2>2, <2>3
<1>3. L \in SUBSET [event : Events, value : Nat] /\ n \in BOOLEAN
  BY <1>1
<1>4. syncs.notified => n
  OBVIOUS
<1>5. Waiting /\ syncs.pc = "asleep" /\ syncs.sync[lock.x].event = l.event => n
  OBVIOUS
<1> HIDE DEF n, L
<1>6. /\ y \in SyncState /\ y.listeners = L /\ y.pc = syncs.pc /\ y.notified = n
      /\ y.sync = syncs.sync /\ y.value = syncs.value /\ y.cb = syncs.cb /\ y.gpu = syncs.gpu
      /\ y.work = syncs.work
  <2> DEFINE a == syncs
             pc == syncs.pc
  <2>1. /\ a \in SyncState /\ pc \in {"running", "armed", "checked", "asleep"}
        /\ y = [a EXCEPT !.listeners = L, !.pc = pc, !.notified = n]
    BY <1>1
  <2> HIDE DEF a, pc, y
  <2>2. /\ y \in SyncState /\ y.listeners = L /\ y.pc = pc /\ y.notified = n
        /\ y.sync = a.sync /\ y.value = a.value /\ y.cb = a.cb /\ y.gpu = a.gpu /\ y.work = a.work
    BY <1>1, <1>3, <2>1 DEF SyncState
  <2> QED
    BY <2>2 DEF a, pc
<1> HIDE DEF y
<1>7. Core(y)
  <2> DEFINE a == syncs
  <2>1. SyncsSound(a) /\ y.sync = a.sync /\ y.value = a.value /\ y.cb = a.cb /\ y.gpu = a.gpu /\ y.work = a.work
    BY <1>1, <1>6
  <2> HIDE DEF a
  <2> QED
    BY <1>6, <2>1, SoundCore, OnlyThread
<1>8. /\ SyncsSound(z) /\ z.sync = y.sync /\ z.listeners = L /\ z.pc = syncs.pc /\ z.notified = n
      /\ \A s \in Syncs : y.sync[s].exists => z.value[y.sync[s].event] = y.value[y.sync[s].event]
  BY <1>6, <1>7, ForgetSound
<1> HIDE DEF z
<1>9. ASSUME Waiting PROVE Told(z, lock.x) /\ lock.x \in Syncs /\ z.sync[lock.x].exists
  <2>1. /\ Told(syncs, lock.x) /\ lock.x \in Syncs /\ syncs.sync[lock.x].exists
    BY <1>9 DEF SyncInv
  <2>2. /\ Own(z, lock.x) = Own(syncs, lock.x)
        /\ Signalled(z, lock.x) <=> Signalled(syncs, lock.x)
    BY <1>6, <1>8, <2>1 DEF Own, Signalled
  <2>3. Own(syncs, lock.x) \in syncs.listeners => Own(z, lock.x) \in z.listeners \/ l = Own(syncs, lock.x)
    BY <1>8, <2>2 DEF L
  <2>4. CASE l = Own(syncs, lock.x)
    <3>1. l.event = syncs.sync[lock.x].event /\ l.value = syncs.sync[lock.x].counter
      BY <2>4 DEF Own
    <3>2. Signalled(syncs, lock.x)
      BY <1>1, <3>1 DEF Signalled
    <3>3. syncs.pc \notin {"armed", "checked"}
      BY <1>1, <1>9, <3>1 DEF MutexHeld
    <3>4. syncs.pc = "asleep" => n
      BY <1>5, <1>9, <3>1
    <3> QED
      BY <1>6, <1>8, <2>1, <2>2, <3>2, <3>3, <3>4 DEF Told
  <2>5. CASE l # Own(syncs, lock.x)
    BY <1>4, <1>6, <1>8, <2>1, <2>2, <2>3, <2>5 DEF Told
  <2> QED
    BY <1>6, <1>8, <2>1, <2>4, <2>5
<1>10. /\ alive \subseteq Contexts
       /\ Waiting <=> syncs.pc # "running"
  BY DEF SyncInv
<1> QED
  BY <1>1, <1>2, <1>8, <1>9, <1>10 DEF SyncInv, Waiting

\* The waiting thread evaluates, sleeps, wakes, gives up or waits again.
LEMMA ThreadKeeps == SyncInv /\ ThreadStep => SyncInv'
<1> SUFFICES ASSUME SyncInv, ThreadStep PROVE SyncInv'
  OBVIOUS
<1> DEFINE s == lock.x
<1>1. /\ SyncsSound(syncs) /\ syncs \in SyncState /\ syncs.listeners \in SUBSET [event : Events, value : Nat]
      /\ syncs.pc \in {"running", "armed", "checked", "asleep"} /\ syncs.notified \in BOOLEAN
      /\ alive \subseteq Contexts /\ alive' = alive
      /\ Waiting /\ syncs.pc # "running" /\ s \in Syncs /\ syncs.sync[s].exists /\ Told(syncs, s)
  BY DEF SyncInv, SyncsSound, SyncState, ThreadStep, Evaluate, FallAsleep, Wake, TimeOut
\* The state after a step that changes the thread's own state and adds listeners.
<1>2. ASSUME NEW L \in SUBSET [event : Events, value : Nat], syncs.listeners \subseteq L,
             NEW pc \in {"running", "armed", "checked", "asleep"}, NEW n \in BOOLEAN,
             syncs' = [syncs EXCEPT !.listeners = L, !.pc = pc, !.notified = n]
      PROVE  /\ SyncsSound(syncs') /\ syncs'.listeners = L /\ syncs'.pc = pc /\ syncs'.notified = n
             /\ syncs'.sync = syncs.sync
             /\ (Signalled(syncs', s) <=> Signalled(syncs, s)) /\ Own(syncs', s) = Own(syncs, s)
  <2> DEFINE a == syncs
             z == [a EXCEPT !.listeners = L, !.pc = pc, !.notified = n]
  <2>1. /\ SyncsSound(a) /\ a \in SyncState /\ a.listeners \subseteq L /\ syncs' = z
        /\ z = [a EXCEPT !.listeners = L, !.pc = pc, !.notified = n]
    BY <1>1, <1>2
  <2> HIDE DEF a, z
  <2>2. /\ z \in SyncState /\ z.listeners = L /\ z.pc = pc /\ z.notified = n
        /\ z.sync = a.sync /\ z.value = a.value /\ z.cb = a.cb /\ z.gpu = a.gpu /\ z.work = a.work
    BY <1>1, <2>1 DEF SyncState
  <2>3. SyncsSound(z)
    BY <2>1, <2>2, OnlyThreadSound
  <2>4. (Signalled(z, s) <=> Signalled(a, s)) /\ Own(z, s) = Own(a, s)
    BY <2>2 DEF Signalled, Own
  <2> QED
    BY <2>1, <2>2, <2>3, <2>4 DEF a
<1>3. /\ syncs = [syncs EXCEPT !.listeners = syncs.listeners]
      /\ syncs = [syncs EXCEPT !.pc = syncs.pc]
      /\ syncs = [syncs EXCEPT !.notified = syncs.notified]
  BY <1>1 DEF SyncState
<1>4. CASE Return
  <2>1. syncs' = [syncs EXCEPT !.listeners = syncs.listeners, !.pc = "running", !.notified = FALSE]
        /\ lock' = NoCall
    BY <1>1, <1>3, <1>4 DEF Return, SyncState
  <2>2. SyncsSound(syncs') /\ syncs'.pc = "running"
    BY <1>1, <1>2, <2>1
  <2>3. ~Waiting'
    BY <2>1 DEF Waiting, NoCall, Call
  <2> QED
    BY <1>1, <2>2, <2>3 DEF SyncInv
<1>5. ASSUME NEW L \in SUBSET [event : Events, value : Nat], syncs.listeners \subseteq L,
             NEW pc \in {"armed", "checked", "asleep"}, NEW n \in BOOLEAN, lock' = lock,
             syncs' = [syncs EXCEPT !.listeners = L, !.pc = pc, !.notified = n],
             /\ pc = "armed" => Own(syncs, s) \in L \/ Signalled(syncs, s)
             /\ pc = "checked" => Own(syncs, s) \in L
             /\ pc = "asleep" => Own(syncs, s) \in L \/ (n /\ Signalled(syncs, s))
      PROVE  SyncInv'
  <2>1. pc \in {"running", "armed", "checked", "asleep"} /\ pc # "running"
    OBVIOUS
  <2>2. /\ SyncsSound(syncs') /\ syncs'.listeners = L /\ syncs'.pc = pc /\ syncs'.notified = n
        /\ syncs'.sync = syncs.sync
        /\ (Signalled(syncs', s) <=> Signalled(syncs, s)) /\ Own(syncs', s) = Own(syncs, s)
    BY <1>2, <1>5, <2>1
  <2>3. Told(syncs', s)
    BY <1>5, <2>2 DEF Told
  <2>4. Waiting' /\ lock'.x = s
    BY <1>1, <1>5 DEF Waiting
  <2> QED
    BY <1>1, <2>1, <2>2, <2>3, <2>4 DEF SyncInv
<1>6. CASE Evaluate /\ ~Return
  <2>1. /\ syncs.pc = "armed" /\ ~Signalled(syncs, s) /\ lock' = lock
        /\ syncs' = [syncs EXCEPT !.pc = "checked"]
    BY <1>6 DEF Evaluate
  <2>2. syncs' = [syncs EXCEPT !.listeners = syncs.listeners, !.pc = "checked", !.notified = syncs.notified]
    BY <1>1, <2>1 DEF SyncState
  <2>3. Own(syncs, s) \in syncs.listeners
    BY <1>1, <2>1 DEF Told
  <2> HIDE DEF s
  <2> QED
    BY <1>1, <1>5, <2>1, <2>2, <2>3
<1>7. CASE FallAsleep
  <2>1. syncs.pc = "checked" /\ lock' = lock /\ syncs' = [syncs EXCEPT !.pc = "asleep"]
    BY <1>7 DEF FallAsleep
  <2>2. syncs' = [syncs EXCEPT !.listeners = syncs.listeners, !.pc = "asleep", !.notified = syncs.notified]
    BY <1>1, <2>1 DEF SyncState
  <2>3. Own(syncs, s) \in syncs.listeners
    BY <1>1, <2>1 DEF Told
  <2> HIDE DEF s
  <2> QED
    BY <1>1, <1>5, <2>1, <2>2, <2>3
<1>8. CASE Wake
  <2>1. /\ syncs.pc = "asleep" /\ lock' = lock
        /\ syncs' = [syncs EXCEPT !.pc = "armed", !.notified = FALSE]
    BY <1>8 DEF Wake
  <2>2. syncs' = [syncs EXCEPT !.listeners = syncs.listeners, !.pc = "armed", !.notified = FALSE]
    BY <1>1, <2>1 DEF SyncState
  <2>3. Own(syncs, s) \in syncs.listeners \/ Signalled(syncs, s)
    BY <1>1, <2>1 DEF Told
  <2> HIDE DEF s
  <2> QED
    BY <1>1, <1>5, <2>1, <2>2, <2>3
<1>9. CASE TimeOut /\ ~Return
  <2> DEFINE own == [event |-> syncs.sync[s].event, value |-> syncs.sync[s].counter]
             L == syncs.listeners \cup {own}
  <2>1. lock' = lock /\ syncs' = [StartWait(syncs, s) EXCEPT !.notified = FALSE]
    BY <1>9 DEF TimeOut
  <2>2. own \in [event : Events, value : Nat]
    <3>1. syncs.sync[s] \in SyncType /\ syncs.sync[s].event \in Events
      BY <1>1, StateParts DEF SyncsSound, EventsApart
    <3> QED
      BY <3>1 DEF SyncType
  <2>3. syncs' = [syncs EXCEPT !.listeners = L, !.pc = "armed", !.notified = FALSE]
    <3>1. StartWait(syncs, s) = [syncs EXCEPT !.listeners = L, !.pc = "armed"]
      BY DEF StartWait
    <3> HIDE DEF L
    <3> QED
      BY <1>1, <2>1, <3>1 DEF SyncState
  <2>4. L \in SUBSET [event : Events, value : Nat] /\ syncs.listeners \subseteq L /\ Own(syncs, s) \in L
    BY <1>1, <2>2 DEF Own
  <2> HIDE DEF L, s
  <2> QED
    BY <1>5, <2>1, <2>3, <2>4
<1> QED
  BY <1>4, <1>6, <1>7, <1>8, <1>9 DEF ThreadStep

(* The entry points. *)

LEMMA DrawSound ==
    ASSUME NEW y, SyncsSound(y), NEW c \in Contexts
    PROVE  LET z == Record([y EXCEPT !.work[c] = @ + 1], c, Item("work", c, 0, 0)) IN
           SyncsSound(z) /\ z.pc = y.pc
<1> DEFINE item == Item("work", c, 0, 0)
           work == [y.work EXCEPT ![c] = @ + 1]
           cb == [y.cb EXCEPT ![c] = Append(@, item)]
           z == Record([y EXCEPT !.work[c] = @ + 1], c, item)
<1>1. /\ y \in SyncState /\ y.work \in [Contexts -> Nat] /\ y.cb \in [Contexts -> Seq(ItemType)]
      /\ y.cb[c] \in Seq(ItemType)
  BY DEF SyncsSound, SyncState
<1>2. item \in ItemType /\ item.c = c /\ item.kind # "signal" /\ IsWork(item, c)
  BY SyncAssumption DEF Item, ItemType, IsWork
<1>3. work \in [Contexts -> Nat] /\ work = [y.work EXCEPT ![c] = @ + (IF IsWork(item, c) THEN 1 ELSE 0)]
  BY <1>1, <1>2
<1> HIDE DEF item
<1>4. cb \in [Contexts -> Seq(ItemType)]
  BY <1>1, <1>2, Appended
<1>5. z = [y EXCEPT !.work = work, !.cb = cb]
  <2> DEFINE y1 == [y EXCEPT !.work[c] = @ + 1]
  <2>1. y1 = [y EXCEPT !.work = work] /\ y1.cb = y.cb
    BY <1>1 DEF SyncState
  <2> HIDE DEF y1, work
  <2>2. z = [y1 EXCEPT !.cb = cb]
    BY <2>1 DEF Record, y1
  <2> HIDE DEF z, cb
  <2> QED
    BY <1>1, <2>1, <2>2 DEF SyncState
<1> HIDE DEF work, cb, z
<1>6. /\ z \in SyncState /\ z.cb = cb /\ z.work = work
      /\ z.sync = y.sync /\ z.value = y.value /\ z.gpu = y.gpu /\ z.listeners = y.listeners
      /\ z.pc = y.pc
  BY <1>1, <1>3, <1>4, <1>5 DEF SyncState
<1>7. SyncsSound(z)
  BY <1>2, <1>3, <1>6, RecordKeeps DEF cb
<1> QED
  BY <1>6, <1>7 DEF z, item

LEMMA WaitSound ==
    ASSUME NEW y, SyncsSound(y), NEW c \in Contexts, NEW s \in Syncs, y.sync[s].exists
    PROVE  LET z == Record(y, c, Item("wait", c, y.sync[s].event, y.sync[s].counter)) IN
           SyncsSound(z) /\ z.pc = y.pc
<1> DEFINE item == Item("wait", c, y.sync[s].event, y.sync[s].counter)
           cb == [y.cb EXCEPT ![c] = Append(@, item)]
           z == Record(y, c, item)
<1>1. /\ y \in SyncState /\ y.work \in [Contexts -> Nat] /\ y.cb \in [Contexts -> Seq(ItemType)]
      /\ y.cb[c] \in Seq(ItemType) /\ y.sync[s] \in SyncType /\ y.sync[s].event \in Events
  BY DEF SyncsSound, SyncState, EventsApart
<1>2. item \in ItemType /\ item.c = c /\ item.kind # "signal" /\ ~IsWork(item, c)
  BY <1>1, SyncAssumption DEF Item, ItemType, IsWork, SyncType, Events
<1>3. y.work = [y.work EXCEPT ![c] = @ + (IF IsWork(item, c) THEN 1 ELSE 0)]
  <2> DEFINE n == y.work[c] + (IF IsWork(item, c) THEN 1 ELSE 0)
  <2>1. n = y.work[c]
    BY <1>1, <1>2
  <2> HIDE DEF n, item
  <2>2. y.work = [y.work EXCEPT ![c] = n]
    BY <1>1, <2>1
  <2> QED
    BY <2>2 DEF n
<1> HIDE DEF item
<1>4. cb \in [Contexts -> Seq(ItemType)]
  BY <1>1, <1>2, Appended
<1>5. z = [y EXCEPT !.cb = cb]
  BY <1>1 DEF Record, SyncState
<1> HIDE DEF cb, z
<1>6. /\ z \in SyncState /\ z.cb = cb /\ z.work = y.work
      /\ z.sync = y.sync /\ z.value = y.value /\ z.gpu = y.gpu /\ z.listeners = y.listeners
      /\ z.pc = y.pc
  BY <1>1, <1>4, <1>5 DEF SyncState
<1>7. SyncsSound(z)
  BY <1>2, <1>3, <1>6, RecordKeeps DEF cb
<1> QED
  BY <1>6, <1>7 DEF z, item

\* The syncs of K go.
LEMMA DropSound ==
    ASSUME NEW y, SyncsSound(y), NEW K, NEW f, f = [s \in Syncs |-> IF s \in K THEN NoSync ELSE y.sync[s]]
    PROVE  LET z == Forget([y EXCEPT !.sync = f]) IN
           SyncsSound(z) /\ z.pc = y.pc
<1> DEFINE w == [y EXCEPT !.sync = f]
<1>1. y \in SyncState /\ y.sync \in [Syncs -> SyncType]
  BY DEF SyncsSound, SyncState
<1>2. NoSync \in SyncType
  BY SyncAssumption DEF NoSync, SyncType
<1>3. f \in [Syncs -> SyncType]
  BY <1>1, <1>2
<1>4. /\ w \in SyncState /\ w.sync = f /\ w.pc = y.pc
      /\ w.value = y.value /\ w.cb = y.cb /\ w.gpu = y.gpu /\ w.work = y.work
  BY <1>1, <1>3 DEF SyncState
<1> HIDE DEF w
<1>5. Core(w)
  BY <1>4, SoundCore, DeleteKeeps
<1>6. SyncsSound(Forget(w)) /\ Forget(w).pc = w.pc
  BY <1>5, ForgetSound
<1> QED
  BY <1>4, <1>6 DEF w

\* The thread begins to wait for s.
LEMMA StartSound ==
    ASSUME NEW y, SyncsSound(y), NEW s \in Syncs, y.sync[s].exists
    PROVE  LET z == StartWait(y, s) IN
           SyncsSound(z) /\ z.pc = "armed" /\ z.sync = y.sync /\ Own(z, s) \in z.listeners
<1> DEFINE own == [event |-> y.sync[s].event, value |-> y.sync[s].counter]
           L == y.listeners \cup {own}
           z == StartWait(y, s)
<1>1. y \in SyncState /\ y.sync[s] \in SyncType /\ y.sync[s].event \in Events
      /\ y.listeners \in SUBSET [event : Events, value : Nat]
  BY DEF SyncsSound, SyncState, EventsApart
<1>2. L \in SUBSET [event : Events, value : Nat]
  BY <1>1 DEF SyncType
<1>3. z = [y EXCEPT !.listeners = L, !.pc = "armed"]
  BY DEF StartWait
<1>4. y.listeners \subseteq L /\ Own(y, s) \in L
  BY DEF Own
<1> HIDE DEF L, z
<1>5. /\ z \in SyncState /\ z.listeners = L /\ z.pc = "armed"
      /\ z.sync = y.sync /\ z.value = y.value /\ z.cb = y.cb /\ z.gpu = y.gpu /\ z.work = y.work
  BY <1>1, <1>2, <1>3 DEF SyncState
<1>6. SyncsSound(z)
  BY <1>4, <1>5, OnlyThreadSound
<1> QED
  BY <1>4, <1>5, <1>6 DEF Own, z

\* What a step of a thread that does not wait for a fence has to keep.
LEMMA RunningKeeps ==
    ASSUME alive \subseteq Contexts, alive' \subseteq alive, SyncsSound(syncs'), syncs'.pc = "running", ~Waiting'
    PROVE  SyncInv'
BY DEF SyncInv

LEMMA CallsDoNotWait ==
    /\ lock = NoCall => ~Waiting
    /\ \A call : CallReturns(call) => lock = NoCall /\ lock' = NoCall /\ alive' = alive
BY DEF Waiting, NoCall, Call, CallReturns, MayCall, entryVars

\* The calls of a context for its fences and its work.
LEMMA SyncCallKeeps == ASSUME SyncInv, NEW c \in alive, SyncCall(c) \/ Finish(c) PROVE SyncInv'
<1> DEFINE p == syncs
<1>1. c \in Contexts /\ alive \subseteq Contexts /\ SyncsSound(p) /\ (~Waiting => p.pc = "running")
  BY DEF SyncInv
<1>2. \A s \in SyncIds : s \in Syncs /\ s \notin Contexts
  BY SyncAssumption DEF Syncs
<1>3. c \in Syncs
  BY <1>1 DEF Syncs
\* The call returns at once.
<1>4. ASSUME NEW call, CallReturns(call) PROVE p.pc = "running" /\ ~Waiting' /\ alive' = alive
  <2>1. lock = NoCall /\ lock' = NoCall /\ alive' = alive
    BY <1>4, CallsDoNotWait
  <2> QED
    BY <1>1, <2>1, CallsDoNotWait DEF Waiting, NoCall, Call
<1>5. ASSUME NEW call, CallReturns(call), SyncsSound(syncs'), syncs'.pc = p.pc PROVE SyncInv'
  BY <1>1, <1>4, <1>5, RunningKeeps
<1>6. CASE Draw(c)
  <2>1. syncs' = Record([p EXCEPT !.work[c] = @ + 1], c, Item("work", c, 0, 0))
    BY <1>6 DEF Draw
  <2> HIDE DEF p
  <2>2. SyncsSound(syncs') /\ syncs'.pc = p.pc
    BY <1>1, <2>1, DrawSound
  <2> QED
    BY <1>5, <1>6, <2>2 DEF Draw
<1>7. CASE Flush(c)
  <2>1. syncs' = Commit(p, c)
    BY <1>7 DEF Flush
  <2> HIDE DEF p
  <2>2. SyncsSound(syncs') /\ syncs'.pc = p.pc
    BY <1>1, <2>1, CommitSound
  <2> QED
    BY <1>5, <1>7, <2>2 DEF Flush
<1>8. ASSUME NEW s \in SyncIds, FenceSync(c, s) PROVE SyncInv'
  <2> DEFINE e == CHOOSE e \in FreeEvents(p) : TRUE
  <2>1. syncs' = Set(p, c, s, e) /\ ~p.sync[s].exists /\ e \in FreeEvents(p)
    BY <1>8 DEF FenceSync
  <2>2. e \in Events
    BY <2>1 DEF FreeEvents
  <2> HIDE DEF p, e
  <2>3. SyncsSound(syncs') /\ syncs'.pc = p.pc
    BY <1>1, <1>2, <2>1, <2>2, SetKeeps
  <2> QED
    BY <1>5, <1>8, <2>3 DEF FenceSync
<1>9. ASSUME NEW s \in SyncIds, DeleteSync(c, s) PROVE SyncInv'
  <2> DEFINE f == [p.sync EXCEPT ![s] = NoSync]
             w == [p EXCEPT !.sync = f]
  <2>1. p.sync \in [Syncs -> SyncType]
    BY <1>1 DEF SyncsSound, SyncState
  <2>2. syncs' = Forget(w)
    <3>1. syncs' = Forget([p EXCEPT !.sync[s] = NoSync])
      BY <1>9 DEF DeleteSync
    <3>2. [p EXCEPT !.sync[s] = NoSync] = w
      OBVIOUS
    <3> HIDE DEF p, w
    <3> QED
      BY <3>1, <3>2
  <2> HIDE DEF p
  <2>3. f = [t \in Syncs |-> IF t \in {s} THEN NoSync ELSE p.sync[t]]
    BY <1>2, <2>1
  <2> HIDE DEF f
  <2>4. SyncsSound(Forget(w)) /\ Forget(w).pc = p.pc
    BY <1>1, <2>3, DropSound
  <2> HIDE DEF w
  <2> QED
    BY <1>5, <1>9, <2>2, <2>4 DEF DeleteSync
<1>10. CASE SetFenceNV(c)
  <2> DEFINE new == CHOOSE e \in FreeEvents(p) : TRUE
             e == IF p.sync[c].exists THEN p.sync[c].event ELSE new
  <2>1. /\ syncs' = Set(p, c, c, e)
        /\ ~p.sync[c].exists => FreeEvents(p) # {}
    BY <1>10 DEF SetFenceNV
  <2>2. ~p.sync[c].exists => e \in FreeEvents(p)
    BY <2>1
  <2>3. p.sync[c].exists => e = p.sync[c].event /\ e \in Events /\ c = p.sync[c].by
    BY <1>1, <1>3 DEF SyncsSound, EventsApart
  <2>4. e \in Events
    BY <2>2, <2>3 DEF FreeEvents
  <2> HIDE DEF p, e
  <2>5. SyncsSound(syncs') /\ syncs'.pc = p.pc
    BY <1>1, <1>3, <2>1, <2>2, <2>3, <2>4, SetKeeps
  <2> QED
    BY <1>5, <1>10, <2>5 DEF SetFenceNV
<1>11. ASSUME NEW s \in SyncIds, WaitSync(c, s) PROVE SyncInv'
  <2>1. /\ syncs' = Record(p, c, Item("wait", c, p.sync[s].event, p.sync[s].counter))
        /\ p.sync[s].exists
    BY <1>11 DEF WaitSync
  <2> HIDE DEF p
  <2>2. SyncsSound(syncs') /\ syncs'.pc = p.pc
    BY <1>1, <1>2, <2>1, WaitSound
  <2> QED
    BY <1>5, <1>11, <2>2 DEF WaitSync
<1>12. ASSUME NEW s \in SyncIds, NEW flush \in BOOLEAN, PollSync(c, s, flush) PROVE SyncInv'
  <2>1. syncs' = p \/ syncs' = Commit(p, c)
    BY <1>12 DEF PollSync
  <2> HIDE DEF p
  <2>2. SyncsSound(syncs') /\ syncs'.pc = p.pc
    BY <1>1, <2>1, CommitSound
  <2> QED
    BY <1>5, <1>12, <2>2 DEF PollSync
<1>13. ASSUME NEW op \in {"ClientWaitSync", "FinishFenceNV"}, NEW s \in Syncs, NEW flush \in BOOLEAN,
              ClientWait(Call(op, c, s, 1), s, flush)
       PROVE  SyncInv'
  <2> DEFINE call == Call(op, c, s, 1)
             q == IF flush THEN Commit(p, c) ELSE p
  <2>1. call.op = op /\ call.c = c /\ call.x = s
    BY DEF Call
  <2>2. lock = NoCall /\ p.sync[s].exists /\ alive' = alive
    BY <1>13 DEF ClientWait, MayCall
  <2>3. p.pc = "running" /\ ~Waiting
    BY <1>1, <2>2, CallsDoNotWait
  <2>4. CASE syncs' = p /\ lock' = lock
    <3>1. ~Waiting'
      BY <2>2, <2>4 DEF Waiting, NoCall, Call
    <3> QED
      BY <1>1, <2>2, <2>3, <2>4, <3>1, RunningKeeps
  <2>5. CASE syncs' = StartWait(q, s) /\ lock' = call
    <3>1. SyncsSound(q) /\ q.sync = p.sync
      <4> HIDE DEF p
      <4> QED
        BY <1>1, CommitSound
    <3> HIDE DEF q
    <3>2. q.sync[s].exists
      BY <2>2, <3>1
    <3>3. /\ SyncsSound(syncs') /\ syncs'.pc = "armed" /\ syncs'.sync = q.sync
          /\ Own(syncs', s) \in syncs'.listeners
      BY <2>5, <3>1, <3>2, StartSound
    <3>4. Waiting' /\ lock'.x = s
      BY <2>1, <2>5 DEF Waiting
    <3>5. Told(syncs', s)
      BY <3>3 DEF Told
    <3> QED
      BY <1>1, <2>2, <3>2, <3>3, <3>4, <3>5 DEF SyncInv
  <2>6. \/ syncs' = p /\ lock' = lock
        \/ syncs' = StartWait(q, s) /\ lock' = call
    BY <1>13, <2>1 DEF ClientWait
  <2> QED
    BY <2>4, <2>5, <2>6
<1>14. ASSUME NEW s \in SyncIds, NEW flush \in BOOLEAN, ClientWaitSync(c, s, flush) PROVE SyncInv'
  BY <1>2, <1>13, <1>14 DEF ClientWaitSync
<1>15. CASE FinishFenceNV(c)
  BY <1>3, <1>13, <1>15 DEF FinishFenceNV
<1>16. CASE Finish(c)
  <2> DEFINE call == Call("Finish", c, 0, 0)
             q == IF lock = NoCall THEN Commit(p, c) ELSE p
  <2>1. syncs' = q /\ (MayCall(call) \/ Holds(call)) /\ lock' \in {call, NoCall} /\ alive' = alive
    BY <1>16 DEF Finish
  <2>2. ~Waiting /\ ~Waiting'
    BY <2>1 DEF Waiting, NoCall, Call, MayCall, Holds
  <2>3. SyncsSound(q) /\ q.pc = p.pc
    <3> HIDE DEF p
    <3> QED
      BY <1>1, CommitSound
  <2> HIDE DEF q
  <2> QED
    BY <1>1, <2>1, <2>2, <2>3, RunningKeeps
<1> QED
  BY <1>6, <1>7, <1>8, <1>9, <1>10, <1>11, <1>12, <1>14, <1>15, <1>16 DEF SyncCall

\* The calls for buffers and for shaders and programs leave the fences alone.
LEMMA OthersKeepSyncs ==
    ASSUME SyncInv, NEW c \in alive, BufferCall(c) \/ ProgramCall(c), syncs' = syncs
    PROVE  SyncInv'
<1> DEFINE ops == {"ClientWaitSync", "FinishFenceNV"}
<1>1. ASSUME NEW call, CallReturns(call) PROVE ~Waiting /\ ~Waiting' /\ alive' = alive
  BY <1>1, CallsDoNotWait DEF Waiting, NoCall, Call
<1>2. ASSUME NEW op, op \notin ops, NEW x, NEW y, NEW r, Perform(Call(op, c, x, y), r)
      PROVE  ~Waiting /\ ~Waiting' /\ alive' = alive
  BY <1>2 DEF Perform, Waiting, NoCall, Call, MayCall, Holds
<1>3. ASSUME NEW call, NEW r, Returns(call, r) PROVE ~Waiting /\ ~Waiting' /\ alive' = alive
  BY <1>1, <1>3 DEF Returns
<1>4. BufferCall(c) => ~Waiting /\ ~Waiting' /\ alive' = alive
  BY <1>1 DEF BufferCall, GenBuffer, UnbindBuffer, BindBuffer, DeleteBuffers
<1>5. ASSUME NEW n, CompileShader(c, n) \/ GetShader(c, n) \/ DeleteShader(c, n) \/ DeleteProgram(c, n)
      PROVE  ~Waiting /\ ~Waiting' /\ alive' = alive
  BY <1>2, <1>5 DEF CompileShader, GetShader, DeleteShader, DeleteProgram
<1>6. ASSUME NEW n, LinkProgram(c, n) \/ UseProgram(c, n) \/ \E s \in Names : DetachShader(c, n, s)
      PROVE  ~Waiting /\ ~Waiting' /\ alive' = alive
  BY <1>2, <1>6 DEF LinkProgram, UseProgram, DetachShader
<1>7. ASSUME NEW n, NEW s, CreateShader(c, n, s) \/ ShaderSource(c, n, s) \/ AttachShader(c, n, s)
                           \/ CreateProgram(c) \/ ReleaseShaderCompiler(c) \/ MaxShaderCompilerThreads(c, n)
      PROVE  ~Waiting /\ ~Waiting' /\ alive' = alive
  BY <1>3, <1>7 DEF CreateShader, ShaderSource, AttachShader, CreateProgram, ReleaseShaderCompiler,
                    MaxShaderCompilerThreads
<1>8. ProgramCall(c) => ~Waiting /\ ~Waiting' /\ alive' = alive
  BY <1>5, <1>6, <1>7 DEF ProgramCall
<1>9. ~Waiting /\ ~Waiting' /\ alive' = alive
  BY <1>4, <1>8
<1> QED
  BY <1>9 DEF SyncInv

\* A context is destroyed.
LEMMA DestroySyncs == ASSUME SyncInv, NEW c \in alive, DestroyContext(c) PROVE SyncInv'
<1> DEFINE call == Call("DestroyContext", c, 0, 0)
           last == alive = {c}
           p == syncs
<1>1. c \in Contexts /\ alive \subseteq Contexts /\ SyncsSound(p) /\ (~Waiting => p.pc = "running")
  BY DEF SyncInv
<1>2. /\ lock = NoCall \/ Holds(call)
      /\ lock' \in {NoCall, call} /\ (alive' = alive \/ alive' = alive \ {c})
      /\ syncs' = p \/ syncs' = ReleaseSyncs(p, c, last)
  BY DEF DestroyContext
<1>3. ~Waiting /\ ~Waiting'
  BY <1>2 DEF Waiting, NoCall, Call, Holds
<1>4. SyncsSound(ReleaseSyncs(p, c, last)) /\ ReleaseSyncs(p, c, last).pc = p.pc
  <2> DEFINE q == Commit(p, c)
             K == {s \in Syncs : s = c \/ last}
             f == [s \in Syncs |-> IF s \in K THEN NoSync ELSE q.sync[s]]
  <2>1. SyncsSound(q) /\ q.pc = p.pc
    <3> HIDE DEF p
    <3> QED
      BY <1>1, CommitSound
  <2> HIDE DEF p, q
  <2>2. ReleaseSyncs(p, c, last) = Forget([q EXCEPT !.sync = f])
    BY DEF ReleaseSyncs, q
  <2>3. SyncsSound(Forget([q EXCEPT !.sync = f])) /\ Forget([q EXCEPT !.sync = f]).pc = q.pc
    <3> HIDE DEF f, K
    <3>1. f = [s \in Syncs |-> IF s \in K THEN NoSync ELSE q.sync[s]]
      BY DEF f
    <3> QED
      BY <2>1, <3>1, DropSound
  <2> HIDE DEF f
  <2> QED
    BY <2>1, <2>2, <2>3
<1>5. SyncsSound(syncs') /\ syncs'.pc = "running" /\ alive' \subseteq alive
  BY <1>1, <1>2, <1>3, <1>4
<1> QED
  BY <1>1, <1>3, <1>5, RunningKeeps

(* The theorems. *)

LEMMA InitSound == Init => SyncInv
<1> SUFFICES ASSUME Init PROVE SyncInv
  OBVIOUS
<1> DEFINE y == NewSyncs
<1>1. syncs = y /\ lock = NoCall /\ alive \subseteq Contexts
  BY ClientsAssumption DEF Init, EntryInit
<1>2. NoSync \in SyncType /\ NoSync.event = 0 /\ ~NoSync.exists
  BY SyncAssumption DEF NoSync, SyncType
<1>3. <<>> \in Seq(ItemType) /\ Len(<<>>) = 0
  BY EmptySeq
<1>4. /\ y.sync = [s \in Syncs |-> NoSync] /\ y.value = [e \in Events |-> 0]
      /\ y.cb = [c \in Contexts |-> <<>>] /\ y.gpu = <<>> /\ y.work = [c \in Contexts |-> 0]
      /\ y.listeners = {} /\ y.pc = "running" /\ y.notified = FALSE
  BY DEF NewSyncs
<1>5. y \in SyncState
  BY <1>2, <1>3 DEF NewSyncs, SyncState
<1> HIDE DEF y
<1>6. FreeAreNew(y)
  BY <1>4 DEF FreeAreNew, FreeEvents
<1>7. \A c \in Contexts : y.cb[c] = <<>> /\ \A i \in 1..Len(y.cb[c]) : FALSE
  BY <1>3, <1>4
<1>8. Owned(y.cb)
  BY <1>7 DEF Owned
<1>9. \A s \in Syncs : y.sync[s] = NoSync
  BY <1>4
<1>10. \A c \in Contexts : c \in Syncs
  BY DEF Syncs
<1>11. EventsApart(y.sync)
  BY <1>2, <1>9, <1>10 DEF EventsApart
<1>12. WorkExact(y.work, y.cb, y.gpu)
  <2>1. \A c : WorkUpTo(<<>>, 0, c) = 0
    BY WorkSteps
  <2> QED
    BY <1>3, <1>4, <1>7, <2>1 DEF WorkExact
<1>13. AllSound(y.sync, y.value, y.cb, y.gpu)
  BY <1>2, <1>9 DEF AllSound
<1>14. SyncsSound(y)
  BY <1>5, <1>6, <1>8, <1>11, <1>12, <1>13 DEF SyncsSound
<1> QED
  BY <1>1, <1>4, <1>14 DEF SyncInv, Waiting, NoCall, Call

LEMMA StepSound == SyncInv /\ [Next]_vars => SyncInv'
<1> SUFFICES ASSUME SyncInv, [Next]_vars PROVE SyncInv'
  OBVIOUS
\* Told names the state; with the same syncs and lock nothing changes.
<1>1. ASSUME syncs' = syncs, lock' = lock, alive' = alive PROVE SyncInv'
  BY <1>1 DEF SyncInv, Waiting
<1>2. ASSUME NEW c \in alive, ContextStep(c) PROVE SyncInv'
  BY <1>2, SyncCallKeeps, OthersKeepSyncs, DestroySyncs DEF ContextStep
<1>3. CASE Workers
  BY <1>1, <1>3 DEF Workers, WorkerStep, entryVars
<1>4. CASE Gpu
  BY <1>4, GpuKeeps, FireKeeps DEF Gpu, Listeners
<1>5. CASE WaitingThread
  BY <1>5, ThreadKeeps DEF WaitingThread
<1>6. CASE UNCHANGED vars
  BY <1>1, <1>6 DEF vars
<1> QED
  BY <1>2, <1>3, <1>4, <1>5, <1>6 DEF Next, Ended

\* The fences of a share group, the commands that signal them, the listeners
\* and the thread that waits are consistent with each other in every reachable
\* state (SyncMtl.mm, Sync::set, clientWait, the listener's block).
THEOREM SyncInvariant == Spec => []SyncInv
<1>1. Init => SyncInv
  BY InitSound
<1>2. SyncInv /\ [Next]_vars => SyncInv'
  BY StepSound
<1> QED
  BY <1>1, <1>2, PTL DEF Spec

\* A fence that answers "signalled" has no work before it that is not executed,
\* in every share group, with any number of contexts, fences and shared events
\* (Sync::clientWait, Sync::getStatus).
THEOREM SignalsAreTrueAlways == Spec => []SignalsAreTrue
<1>1. SyncInv => SignalsAreTrue
  BY DEF SyncInv, SyncsSound, AllSound, SyncSound, Reached, SignalsAreTrue, Signalled
<1> QED
  BY <1>1, SyncInvariant, PTL

\* The thread that sleeps in clientWait while its fence is signalled was
\* notified or its listener is still to be called, whatever the order of the
\* signal, the registration, the predicate and the sleep (Sync::clientWait).
THEOREM NoLostWakeupEver == Spec => []NoLostWakeup
<1>1. SyncInv => NoLostWakeup
  <2>1. SUFFICES ASSUME SyncInv, Waiting, syncs.pc = "asleep", Signalled(syncs, lock.x), ~syncs.notified
                 PROVE  \E l \in syncs.listeners : l.event = syncs.sync[lock.x].event
                                                     /\ l.value <= syncs.value[l.event]
    BY Zenon DEF NoLostWakeup
  <2> DEFINE l == Own(syncs, lock.x)
  <2>2. l \in syncs.listeners
    BY <2>1 DEF SyncInv, Told
  <2>3. l.event = syncs.sync[lock.x].event /\ l.value = syncs.sync[lock.x].counter
    BY DEF Own
  <2>4. l.value <= syncs.value[l.event]
    <3>1. /\ syncs \in SyncState /\ lock.x \in Syncs /\ syncs.sync[lock.x].event \in Events
          /\ syncs.sync[lock.x] \in SyncType
      BY <2>1, StateParts DEF SyncInv, SyncsSound, EventsApart
    <3>2. syncs.value[syncs.sync[lock.x].event] \in Nat /\ syncs.sync[lock.x].counter \in Nat
      BY <3>1, StateParts DEF SyncType
    <3> QED
      BY <2>1, <2>3, <3>2 DEF Signalled
  <2> QED
    BY <2>2, <2>3, <2>4
<1> QED
  BY <1>1, SyncInvariant, PTL

-----------------------------------------------------------------------------
(* What the calls of a context leave of the others.                        *)

RecordOf(x) == x = [maker |-> x.maker, holds |-> x.holds]

Tracked(p) ==
    /\ Fields(p)
    /\ p.current = [d \in Contexts |-> p.current[d]]
    /\ p.compilerOf = [d \in Contexts |-> p.compilerOf[d]]
    /\ p.translator = [i \in Translators |-> p.translator[i]]
    /\ \A i \in Translators : RecordOf(p.translator[i])

\* A translator that was deleted leaves no result.
Unmade(p) == \A i \in Translators : p.translator[i].maker = 0 => p.translator[i] = NoTranslator

\* No context uses another program or another compiler.
Stays(p, q) ==
    Tracked(p) => /\ Tracked(q) /\ q.current = p.current /\ q.compilerOf = p.compilerOf
                  /\ Unmade(p) => Unmade(q)

\* No context but c does.
StaysBut(p, q, c) ==
    Tracked(p) => /\ Tracked(q) /\ (Unmade(p) => Unmade(q))
                  /\ \A d \in Contexts \ {c} : /\ q.current[d] = p.current[d]
                                               /\ q.compilerOf[d] = p.compilerOf[d]

LEMMA StaysTrans ==
    ASSUME NEW p, NEW q, NEW r, Stays(p, q), Stays(q, r)
    PROVE  Stays(p, r)
  BY DEF Stays

LEMMA StaysSame == \A p : Stays(p, p)
  BY DEF Stays

LEMMA StaysAnyway ==
    ASSUME NEW p, NEW q, NEW c, Stays(p, q)
    PROVE  StaysBut(p, q, c)
  BY DEF Stays, StaysBut

LEMMA StaysButTrans ==
    ASSUME NEW p, NEW q, NEW r, NEW c, StaysBut(p, q, c), StaysBut(q, r, c)
    PROVE  StaysBut(p, r, c)
  BY DEF StaysBut

\* A step that changes none of the three.
LEMMA FieldStays ==
    ASSUME NEW p, NEW q,
           Fields(p) => /\ Fields(q) /\ q.current = p.current /\ q.compilerOf = p.compilerOf
                        /\ q.translator = p.translator
    PROVE  Stays(p, q)
  BY DEF Stays, Tracked, Unmade

LEMMA DropStays == \A p : Stays(p, DropCompilers(p))
<1> SUFFICES ASSUME NEW p, Tracked(p)
             PROVE  LET q == DropCompilers(p)
                    IN  /\ Tracked(q) /\ q.current = p.current /\ q.compilerOf = p.compilerOf
                        /\ Unmade(p) => Unmade(q)
  BY DEF Stays
<1> DEFINE q == DropCompilers(p)
<1>1. PICK gone : /\ Fields(q) /\ q.current = p.current /\ q.compilerOf = p.compilerOf
                  /\ q.translator = [i \in Translators |-> IF i \in gone THEN NoTranslator ELSE p.translator[i]]
  BY DEF DropCompilers, Tracked, Fields
<1> HIDE DEF q
<1>2. Tracked(q)
  <2>1. RecordOf(NoTranslator)
    BY DEF RecordOf, NoTranslator
  <2> QED
    BY <1>1, <2>1 DEF Tracked
<1>3. Unmade(p) => Unmade(q)
  BY <1>1 DEF Unmade
<1> QED
  BY <1>1, <1>2, <1>3 DEF q

LEMMA PutStays == \A p, n : Stays(p, PutInstance(p, n))
<1> SUFFICES ASSUME NEW p, NEW n, Tracked(p)
             PROVE  LET q == PutInstance(p, n)
                    IN  /\ Tracked(q) /\ q.current = p.current /\ q.compilerOf = p.compilerOf
                        /\ Unmade(p) => Unmade(q)
  BY DEF Stays
<1> DEFINE q == PutInstance(p, n)
           i == p.shader[n].translator
           f == [p.translator EXCEPT ![i].holds = "nothing"]
           g == [p.translator EXCEPT ![i] = NoTranslator]
<1>1. /\ Fields(q) /\ q.current = p.current /\ q.compilerOf = p.compilerOf
      /\ q.translator = f \/ q.translator = g
  BY DEF PutInstance, Tracked, Fields
<1> HIDE DEF q, i
<1>2. ASSUME NEW h, h = f \/ h = g
      PROVE  /\ h = [j \in Translators |-> h[j]]
             /\ \A j \in Translators : p.translator[j] = NoTranslator => h[j] = NoTranslator
             /\ \A j \in Translators : RecordOf(h[j])
             /\ \A j \in Translators : h[j] = NoTranslator \/ h[j].maker = p.translator[j].maker
  <2>1. \A j \in Translators : p.translator[j] = [maker |-> p.translator[j].maker, holds |-> p.translator[j].holds]
    BY DEF Tracked, RecordOf
  <2>2. p.translator = [j \in Translators |-> p.translator[j]]
    BY DEF Tracked
  <2>3. CASE h = f
    <3>1. h = [j \in Translators |-> h[j]]
      BY <2>2, <2>3
    <3>2. \A j \in Translators : h[j] = IF j = i THEN [p.translator[j] EXCEPT !.holds = "nothing"] ELSE p.translator[j]
      BY <2>2, <2>3
    <3>3. \A x : x = [maker |-> x.maker, holds |-> x.holds] =>
            [x EXCEPT !.holds = "nothing"] = [maker |-> x.maker, holds |-> "nothing"]
      OBVIOUS
    <3>4. ASSUME NEW j \in Translators
          PROVE  /\ RecordOf(h[j]) /\ h[j].maker = p.translator[j].maker
                 /\ p.translator[j] = NoTranslator => h[j] = NoTranslator
      <4>1. CASE j = i
        <5>1. h[j] = [maker |-> p.translator[j].maker, holds |-> "nothing"]
          BY <2>1, <3>2, <3>3, <4>1
        <5> QED
          BY <5>1 DEF NoTranslator, RecordOf
      <4>2. CASE j # i
        BY <2>1, <3>2, <4>2 DEF RecordOf
      <4> QED
        BY <4>1, <4>2
    <3> QED
      BY <3>1, <3>4
  <2>4. CASE h = g
    BY <2>1, <2>2, <2>4 DEF NoTranslator, RecordOf
  <2> QED
    BY <1>2, <2>3, <2>4
<1>3. Tracked(q)
  BY <1>1, <1>2 DEF Tracked
<1>4. Unmade(p) => Unmade(q)
  BY <1>1, <1>2 DEF Unmade
<1> QED
  BY <1>1, <1>3, <1>4 DEF q

LEMMA ResolveStays == \A p, n : Stays(p, ResolveCompile(p, n))
<1> SUFFICES ASSUME NEW p, NEW n PROVE Stays(p, ResolveCompile(p, n))
  OBVIOUS
<1> DEFINE r == PutInstance(p, n)
           out == p.translator[p.shader[n].translator].holds
           q == [r EXCEPT
                  !.waits = @ \cup {n},
                  !.workers.tasks[n] = NoTask, !.job[n] = NoJob,
                  !.shader[n].translated = out,
                  !.shader[n].status = IF out \in Correct THEN "compiled" ELSE "not compiled"]
<1>1. ResolveCompile(p, n) = IF ~CompilePending(p, n) THEN p ELSE q
  BY DEF ResolveCompile
<1>2. Stays(p, r)
  BY PutStays
<1> HIDE DEF r
<1>3. Stays(r, q)
  <2>1. Fields(r) => /\ Fields(q) /\ q.current = r.current /\ q.compilerOf = r.compilerOf
                     /\ q.translator = r.translator
    BY DEF Fields
  <2> HIDE DEF q
  <2> QED
    BY <2>1, FieldStays
<1> HIDE DEF q
<1> QED
  BY <1>1, <1>2, <1>3, StaysTrans, StaysSame

\* The name of an object is given back and the object is gone.
LEMMA EraseStays ==
    ASSUME NEW p, NEW n
    PROVE  /\ Stays(p, [p EXCEPT !.shader[n] = NoShader, !.alloc = ReleaseName(@, n)])
           /\ Stays(p, [p EXCEPT !.program[n] = NoProgram, !.alloc = ReleaseName(@, n)])
           /\ \A x : Stays(p, [p EXCEPT !.shader[n].refs = x]) /\ Stays(p, [p EXCEPT !.shader[n].flagged = x])
           /\ \A x : Stays(p, [p EXCEPT !.program[n].refs = x]) /\ Stays(p, [p EXCEPT !.program[n].flagged = x])
<1>1. ASSUME NEW q, NEW x,
             \/ q = [p EXCEPT !.shader[n] = NoShader, !.alloc = ReleaseName(@, n)]
             \/ q = [p EXCEPT !.program[n] = NoProgram, !.alloc = ReleaseName(@, n)]
             \/ q = [p EXCEPT !.shader[n].refs = x] \/ q = [p EXCEPT !.shader[n].flagged = x]
             \/ q = [p EXCEPT !.program[n].refs = x] \/ q = [p EXCEPT !.program[n].flagged = x]
      PROVE  Stays(p, q)
  <2>1. Fields(p) => /\ Fields(q) /\ q.current = p.current /\ q.compilerOf = p.compilerOf
                     /\ q.translator = p.translator
    BY <1>1 DEF Fields
  <2> QED
    BY <2>1, FieldStays
<1> QED
  BY <1>1

LEMMA DestroyShaderStays == \A p, n : Stays(p, DestroyShader(p, n))
<1> SUFFICES ASSUME NEW p, NEW n PROVE Stays(p, DestroyShader(p, n))
  OBVIOUS
<1> DEFINE r == ResolveCompile(p, n)
           q == [r EXCEPT !.shader[n] = NoShader, !.alloc = ReleaseName(@, n)]
<1>1. Stays(p, r)
  BY ResolveStays
<1>2. DestroyShader(p, n) = DropCompilers(q)
  BY DEF DestroyShader
<1> HIDE DEF r
<1>3. Stays(r, q)
  BY EraseStays
<1> HIDE DEF q
<1> QED
  BY <1>1, <1>2, <1>3, DropStays, StaysTrans

LEMMA DeleteShaderStays == \A p, n : Stays(p, DeleteShaderObject(p, n))
  BY DestroyShaderStays, EraseStays DEF DeleteShaderObject

LEMMA ReleaseShaderStays == \A p, n : Stays(p, ReleaseShader(p, n))
<1> SUFFICES ASSUME NEW p, NEW n PROVE Stays(p, ReleaseShader(p, n))
  OBVIOUS
<1>1. CASE p.shader[n].refs = 1 /\ p.shader[n].flagged
  <2> DEFINE q == [p EXCEPT !.shader[n].refs = 0]
  <2>1. ReleaseShader(p, n) = DestroyShader(q, n)
    BY <1>1 DEF ReleaseShader
  <2>2. Stays(p, q)
    BY EraseStays
  <2> HIDE DEF q
  <2> QED
    BY <2>1, <2>2, DestroyShaderStays, StaysTrans
<1>2. CASE ~(p.shader[n].refs = 1 /\ p.shader[n].flagged)
  <2>1. PICK x : x = p.shader[n].refs - 1
    OBVIOUS
  <2>2. ReleaseShader(p, n) = [p EXCEPT !.shader[n].refs = p.shader[n].refs - 1]
    BY <1>2 DEF ReleaseShader
  <2>3. Stays(p, [p EXCEPT !.shader[n].refs = x])
    BY EraseStays
  <2>4. Stays(p, [p EXCEPT !.shader[n].refs = p.shader[n].refs - 1])
    BY <2>1, <2>3
  <2> QED
    BY <2>2, <2>4
<1> QED
  BY <1>1, <1>2

LEMMA ResolveLinkStays == \A p, n : Stays(p, ResolveLink(p, n))
<1> SUFFICES ASSUME NEW p, NEW n PROVE Stays(p, ResolveLink(p, n))
  OBVIOUS
<1> DEFINE q == ResolveLink(p, n)
<1>1. Fields(p) => /\ Fields(q) /\ q.current = p.current /\ q.compilerOf = p.compilerOf
                   /\ q.translator = p.translator
  BY DEF ResolveLink, Fields
<1> HIDE DEF q
<1> QED
  BY <1>1, FieldStays DEF q

LEMMA ResolveShadersStays == \A p, n : Stays(p, ResolveShaders(p, n))
<1> SUFFICES ASSUME NEW p, NEW n PROVE Stays(p, ResolveShaders(p, n))
  OBVIOUS
<1> DEFINE s == ShadersToLink(p, n)
           q == ResolveCompile(p, s[1])
<1>1. ResolveShaders(p, n) = IF IsCompiled(q, s[1]) THEN ResolveCompile(q, Last(s)) ELSE q
  BY DEF ResolveShaders
<1>2. Stays(p, q)
  BY ResolveStays
<1> HIDE DEF q
<1> QED
  BY <1>1, <1>2, ResolveStays, StaysTrans

LEMMA LinkStays == \A p, n, outcome : Stays(p, Link(p, n, outcome))
<1> SUFFICES ASSUME NEW p, NEW n, NEW outcome PROVE Stays(p, Link(p, n, outcome))
  OBVIOUS
<1> DEFINE r == ResolveLink(p, n)
           start == [r EXCEPT !.program[n].linked = FALSE]
           q == ResolveShaders(start, n)
           l == [q EXCEPT !.program[n].resolved = FALSE, !.program[n].outcome = outcome]
           k == LinkProgramObject(p, n, outcome)
<1>1. k = start \/ k = l \/ k = q
  BY DEF LinkProgramObject
<1>2. Stays(p, r)
  BY ResolveLinkStays
<1> HIDE DEF r, k
<1>3. Stays(r, start)
  <2>1. Fields(r) => /\ Fields(start) /\ start.current = r.current /\ start.compilerOf = r.compilerOf
                     /\ start.translator = r.translator
    BY DEF Fields
  <2> HIDE DEF start
  <2> QED
    BY <2>1, FieldStays
<1> HIDE DEF start
<1>4. Stays(start, q)
  BY ResolveShadersStays
<1> HIDE DEF q
<1>5. Stays(q, l)
  <2>1. Fields(q) => /\ Fields(l) /\ l.current = q.current /\ l.compilerOf = q.compilerOf
                     /\ l.translator = q.translator
    BY DEF Fields
  <2> HIDE DEF l
  <2> QED
    BY <2>1, FieldStays
<1> HIDE DEF l
<1>6. Stays(p, start)
  BY <1>2, <1>3, StaysTrans
<1>7. Stays(p, q)
  BY <1>4, <1>6, StaysTrans
<1>8. Stays(p, k)
  BY <1>1, <1>5, <1>6, <1>7, StaysTrans
<1>9. Link(p, n, outcome) = k \/ Link(p, n, outcome) = ResolveLink(k, n)
  BY DEF Link, k
<1> QED
  BY <1>8, <1>9, ResolveLinkStays, StaysTrans

LEMMA ReleaseAttachedStays == \A p, n, type : Stays(p, ReleaseAttached(p, n, type))
  BY ReleaseShaderStays, StaysSame DEF ReleaseAttached

LEMMA DestroyProgramStays == \A p, n : Stays(p, DestroyProgram(p, n))
<1> SUFFICES ASSUME NEW p, NEW n PROVE Stays(p, DestroyProgram(p, n))
  OBVIOUS
<1> DEFINE r == ResolveLink(p, n)
           a == ReleaseAttached(r, n, "vertex")
           b == ReleaseAttached(a, n, "fragment")
           c == ReleaseAttached(b, n, "compute")
<1>1. DestroyProgram(p, n) = [c EXCEPT !.program[n] = NoProgram, !.alloc = ReleaseName(@, n)]
  BY DEF DestroyProgram
<1>2. Stays(p, r) /\ Stays(r, a) /\ Stays(a, b) /\ Stays(b, c)
  BY ResolveLinkStays, ReleaseAttachedStays
<1> HIDE DEF r, a, b, c
<1>3. Stays(p, a)
  BY <1>2, StaysTrans
<1>4. Stays(p, b)
  BY <1>2, <1>3, StaysTrans
<1>5. Stays(p, c)
  BY <1>2, <1>4, StaysTrans
<1>6. Stays(c, DestroyProgram(p, n))
  <2>1. Stays(c, [c EXCEPT !.program[n] = NoProgram, !.alloc = ReleaseName(@, n)])
    BY EraseStays
  <2> QED
    BY <1>1, <2>1
<1> QED
  BY <1>5, <1>6, StaysTrans

LEMMA DeleteProgramStays == \A p, n : Stays(p, DeleteProgramObject(p, n))
<1> SUFFICES ASSUME NEW p, NEW n PROVE Stays(p, DeleteProgramObject(p, n))
  OBVIOUS
<1>1. CASE p.program[n].refs = 0
  BY <1>1, DestroyProgramStays DEF DeleteProgramObject
<1>2. CASE p.program[n].refs # 0
  <2> DEFINE r == ResolveLink(p, n)
  <2>1. DeleteProgramObject(p, n) = [r EXCEPT !.program[n].flagged = TRUE]
    BY <1>2 DEF DeleteProgramObject
  <2>2. Stays(p, r)
    BY ResolveLinkStays
  <2> HIDE DEF r
  <2>3. Stays(r, [r EXCEPT !.program[n].flagged = TRUE])
    BY EraseStays
  <2> QED
    BY <2>1, <2>2, <2>3, StaysTrans
<1> QED
  BY <1>1, <1>2

LEMMA ReleaseProgramStays == \A p, n : Stays(p, ReleaseProgram(p, n))
<1> SUFFICES ASSUME NEW p, NEW n PROVE Stays(p, ReleaseProgram(p, n))
  OBVIOUS
<1>1. CASE p.program[n].refs = 1 /\ p.program[n].flagged
  <2> DEFINE q == [p EXCEPT !.program[n].refs = 0]
  <2>1. ReleaseProgram(p, n) = DestroyProgram(q, n)
    BY <1>1 DEF ReleaseProgram
  <2>2. Stays(p, q)
    BY EraseStays
  <2> HIDE DEF q
  <2> QED
    BY <2>1, <2>2, DestroyProgramStays, StaysTrans
<1>2. CASE ~(p.program[n].refs = 1 /\ p.program[n].flagged)
  <2>1. PICK x : x = p.program[n].refs - 1
    OBVIOUS
  <2>2. ReleaseProgram(p, n) = [p EXCEPT !.program[n].refs = p.program[n].refs - 1]
    BY <1>2 DEF ReleaseProgram
  <2>3. Stays(p, [p EXCEPT !.program[n].refs = x])
    BY EraseStays
  <2>4. Stays(p, [p EXCEPT !.program[n].refs = p.program[n].refs - 1])
    BY <2>1, <2>3
  <2> QED
    BY <2>2, <2>4
<1> QED
  BY <1>1, <1>2

-----------------------------------------------------------------------------
(* A context uses another program or another compiler.                     *)

LEMMA OwnStays ==
    ASSUME NEW p, NEW c
    PROVE  \A x : StaysBut(p, [p EXCEPT !.current[c] = x], c) /\ StaysBut(p, [p EXCEPT !.compilerOf[c] = x], c)
<1>1. ASSUME NEW q, NEW x, q = [p EXCEPT !.current[c] = x] \/ q = [p EXCEPT !.compilerOf[c] = x], Tracked(p)
      PROVE  /\ Tracked(q) /\ (Unmade(p) => Unmade(q))
             /\ \A d \in Contexts \ {c} : q.current[d] = p.current[d] /\ q.compilerOf[d] = p.compilerOf[d]
  <2>1. /\ Fields(q) /\ q.translator = p.translator
        /\ q.current = p.current \/ q.current = [p.current EXCEPT ![c] = x]
        /\ q.compilerOf = p.compilerOf \/ q.compilerOf = [p.compilerOf EXCEPT ![c] = x]
    BY <1>1 DEF Tracked, Fields
  <2>2. ASSUME NEW f, NEW g, f = [d \in Contexts |-> f[d]], g = f \/ g = [f EXCEPT ![c] = x]
        PROVE  g = [d \in Contexts |-> g[d]] /\ \A d \in Contexts \ {c} : g[d] = f[d]
    BY <2>2
  <2>3. p.current = [d \in Contexts |-> p.current[d]] /\ p.compilerOf = [d \in Contexts |-> p.compilerOf[d]]
    BY <1>1 DEF Tracked
  <2>4. /\ q.current = [d \in Contexts |-> q.current[d]]
        /\ \A d \in Contexts \ {c} : q.current[d] = p.current[d]
    BY <2>1, <2>2, <2>3
  <2>5. /\ q.compilerOf = [d \in Contexts |-> q.compilerOf[d]]
        /\ \A d \in Contexts \ {c} : q.compilerOf[d] = p.compilerOf[d]
    BY <2>1, <2>2, <2>3
  <2>6. Tracked(q)
    BY <1>1, <2>1, <2>4, <2>5 DEF Tracked
  <2> QED
    BY <2>1, <2>4, <2>5, <2>6 DEF Unmade
<1> QED
  BY <1>1 DEF StaysBut

LEMMA LeaveStays == \A p, c : StaysBut(p, LeaveProgram(p, c), c)
<1> SUFFICES ASSUME NEW p, NEW c PROVE StaysBut(p, LeaveProgram(p, c), c)
  OBVIOUS
<1>1. CASE p.current[c] = 0
  <2>1. LeaveProgram(p, c) = p
    BY <1>1 DEF LeaveProgram
  <2> QED
    BY <2>1, StaysSame, StaysAnyway
<1>2. CASE p.current[c] # 0
  <2> DEFINE q == [p EXCEPT !.current[c] = 0]
  <2>1. LeaveProgram(p, c) = ReleaseProgram(q, p.current[c])
    BY <1>2 DEF LeaveProgram
  <2>2. StaysBut(p, q, c)
    BY OwnStays
  <2> HIDE DEF q
  <2>3. StaysBut(q, LeaveProgram(p, c), c)
    BY <2>1, ReleaseProgramStays, StaysAnyway
  <2> QED
    BY <2>2, <2>3, StaysButTrans
<1> QED
  BY <1>1, <1>2

LEMMA SetProgramStays == \A p, c, n : StaysBut(p, SetProgram(p, c, n), c)
<1> SUFFICES ASSUME NEW p, NEW c, NEW n PROVE StaysBut(p, SetProgram(p, c, n), c)
  OBVIOUS
<1> DEFINE q == LeaveProgram(p, c)
           r == [q EXCEPT !.current[c] = n]
           z == [r EXCEPT !.program[n].refs = @ + 1]
<1>1. SetProgram(p, c, n) = p \/ SetProgram(p, c, n) = q \/ SetProgram(p, c, n) = z
  BY DEF SetProgram
<1>2. StaysBut(p, q, c)
  BY LeaveStays
<1> HIDE DEF q
<1>3. StaysBut(q, r, c)
  BY OwnStays
<1>4. Stays(r, z)
  <2>1. Fields(r) => /\ Fields(z) /\ z.current = r.current /\ z.compilerOf = r.compilerOf
                     /\ z.translator = r.translator
    <3> HIDE DEF r
    <3> QED
      BY DEF Fields
  <2> HIDE DEF r, z
  <2> QED
    BY <2>1, FieldStays
<1> HIDE DEF r, z
<1>5. StaysBut(p, z, c)
  <2>1. StaysBut(r, z, c)
    BY <1>4, StaysAnyway
  <2>2. StaysBut(p, r, c)
    BY <1>2, <1>3, StaysButTrans
  <2> QED
    BY <2>1, <2>2, StaysButTrans
<1> QED
  BY <1>1, <1>2, <1>5, StaysSame, StaysAnyway

LEMMA BindStays == \A p, c, n : StaysBut(p, BindCompiler(p, c, n), c)
<1> SUFFICES ASSUME NEW p, NEW c, NEW n PROVE StaysBut(p, BindCompiler(p, c, n), c)
  OBVIOUS
<1>1. PICK k : BindCompiler(p, c, n) = DropCompilers([p EXCEPT !.compilerOf[c] = k, !.shader[n].compiler = k])
  BY DEF BindCompiler
<1> DEFINE q == [p EXCEPT !.compilerOf[c] = k]
           r == [p EXCEPT !.compilerOf[c] = k, !.shader[n].compiler = k]
<1>2. StaysBut(p, q, c)
  BY OwnStays
<1>3. Stays(q, r)
  <2>1. Fields(q) => /\ Fields(r) /\ r.current = q.current /\ r.compilerOf = q.compilerOf
                     /\ r.translator = q.translator
    BY DEF Fields
  <2> HIDE DEF q, r
  <2> QED
    BY <2>1, FieldStays
<1>4. Stays(r, BindCompiler(p, c, n))
  <2> HIDE DEF r
  <2>1. BindCompiler(p, c, n) = DropCompilers(r)
    BY <1>1 DEF r
  <2> QED
    BY <2>1, DropStays
<1> HIDE DEF q, r
<1>5. Stays(q, BindCompiler(p, c, n))
  BY <1>3, <1>4, StaysTrans
<1>6. StaysBut(q, BindCompiler(p, c, n), c)
  BY <1>5, StaysAnyway
<1> QED
  BY <1>2, <1>6, StaysButTrans

LEMMA GetStays == \A p, n : Stays(p, GetInstance(p, n))
<1> SUFFICES ASSUME NEW p, NEW n, Tracked(p)
             PROVE  LET q == GetInstance(p, n)
                    IN  /\ Tracked(q) /\ q.current = p.current /\ q.compilerOf = p.compilerOf
                        /\ Unmade(p) => Unmade(q)
  BY DEF Stays
<1> DEFINE q == GetInstance(p, n)
           k == p.shader[n].compiler
           i == InstanceFor(p, n)
           h == [p.translator EXCEPT ![i].maker = IF @ = 0 THEN k ELSE @]
<1>1. /\ Fields(q) /\ q.current = p.current /\ q.compilerOf = p.compilerOf /\ q.translator = h
  BY DEF GetInstance, Tracked, Fields
<1> HIDE DEF q, i, k
<1>2. p.translator = [j \in Translators |-> p.translator[j]]
  BY DEF Tracked
<1>3. h = [j \in Translators |-> h[j]]
  BY <1>2
<1>4. ASSUME NEW j \in Translators
      PROVE  RecordOf(h[j]) /\ (h[j].maker = 0 /\ p.translator[j] = NoTranslator => h[j] = NoTranslator)
             /\ (h[j].maker = 0 => p.translator[j].maker = 0)
  <2> DEFINE x == p.translator[j]
  <2>1. x = [maker |-> x.maker, holds |-> x.holds]
    BY DEF Tracked, RecordOf
  <2>2. h[j] = IF j = i THEN [x EXCEPT !.maker = IF @ = 0 THEN k ELSE @] ELSE x
    BY <1>2
  <2> HIDE DEF x, h
  <2>3. [x EXCEPT !.maker = IF @ = 0 THEN k ELSE @] = [maker |-> IF x.maker = 0 THEN k ELSE x.maker, holds |-> x.holds]
    BY <2>1
  <2>4. h[j] = [maker |-> IF j = i /\ x.maker = 0 THEN k ELSE x.maker, holds |-> x.holds]
    BY <2>1, <2>2, <2>3
  <2>5. RecordOf(h[j])
    BY <2>4 DEF RecordOf
  <2>6. h[j].maker = 0 => x.maker = 0
    BY <2>4
  <2>7. h[j].maker = 0 /\ x = NoTranslator => h[j] = NoTranslator
    BY <2>4 DEF NoTranslator
  <2> QED
    BY <2>5, <2>6, <2>7 DEF x
<1> HIDE DEF h
<1>5. Tracked(q)
  BY <1>1, <1>3, <1>4 DEF Tracked
<1>6. Unmade(p) => Unmade(q)
  BY <1>1, <1>4 DEF Unmade
<1> QED
  BY <1>1, <1>5, <1>6 DEF q

\* The translator whose task was posted exists.
LEMMA PostStays ==
    ASSUME NEW p, NEW B, NEW n, Ready(p, B, n), NEW c, PostedTo(p, PostTranslation(p, c, n), B, n)
    PROVE  Stays(p, PostTranslation(p, c, n))
<1> SUFFICES ASSUME Tracked(p)
             PROVE  LET q == PostTranslation(p, c, n)
                    IN  /\ Tracked(q) /\ q.current = p.current /\ q.compilerOf = p.compilerOf
                        /\ Unmade(p) => Unmade(q)
  BY DEF Stays
<1> DEFINE q == PostTranslation(p, c, n)
           i == p.shader[n].translator
<1>1. Fields(q) /\ q.current = p.current
  <2>1. PICK g, v, e : \/ q = [p EXCEPT !.job[n] = g, !.workers = v]
                       \/ q = [[p EXCEPT !.job[n] = g, !.workers = v] EXCEPT !.translator = e]
    BY DEF PostTranslation, RunTranslation
  <2> HIDE DEF q
  <2> QED
    BY <2>1 DEF Tracked, Fields
<1>2. /\ CompShape(q) /\ q.compilerOf = p.compilerOf /\ SameMakers(p, q)
      /\ \A j \in Translators : j # i => q.translator[j] = p.translator[j]
  BY DEF PostedTo
<1>3. p.translator[i].maker # 0
  <2>1. p.translator[i].maker = p.shader[n].compiler /\ p.shader[n].compiler \in Compilers
    BY DEF Ready, Lending, LentMade
  <2> QED
    BY <2>1 DEF Compilers
<1> HIDE DEF q, i
<1>4. Tracked(q)
  <2>1. \A j \in Translators : q.translator[j] \in [maker : CompilerIds, holds : {q.translator[j].holds}]
    BY <1>2 DEF CompShape, Made
  <2>2. \A j \in Translators : RecordOf(q.translator[j])
    BY <2>1 DEF RecordOf
  <2>3. q.translator = [j \in Translators |-> q.translator[j]]
    BY <1>2 DEF CompShape
  <2> QED
    BY <1>1, <1>2, <2>2, <2>3 DEF Tracked
<1>5. Unmade(p) => Unmade(q)
  BY <1>2, <1>3 DEF Unmade, SameMakers
<1> QED
  BY <1>1, <1>2, <1>4, <1>5 DEF q

\* Shader::compile
LEMMA CompileStays ==
    ASSUME NEW p, NEW D, Good(p, D), NEW n, IsShader(p, n), NEW c \in Contexts, p.poolOf[c] \in Pools,
           FreeTranslators(p) # {}, Compile(p, c, n).waits \subseteq D
    PROVE  StaysBut(p, Compile(p, c, n), c)
<1> DEFINE r == ResolveCompile(p, n)
           a == Ask(r, n)
           b == BindCompiler(a, c, n)
           g == GetInstance(b, n)
           q == PostTranslation(g, c, n)
           B == Pending(r)
<1>1. q = Compile(p, c, n)
  BY DEF Compile
<1>2. Ready(g, B, n) /\ PostedTo(g, q, B, n)
  BY <1>1, CompilePosts
<1>3. Stays(p, r)
  BY ResolveStays
<1> HIDE DEF r, B
<1>4. Stays(r, a)
  <2>1. Fields(r) => /\ Fields(a) /\ a.current = r.current /\ a.compilerOf = r.compilerOf
                     /\ a.translator = r.translator
    BY DEF Ask, Fields
  <2> HIDE DEF a
  <2> QED
    BY <2>1, FieldStays
<1> HIDE DEF a
<1>5. StaysBut(a, b, c)
  BY BindStays
<1> HIDE DEF b
<1>6. Stays(b, g)
  BY GetStays
<1> HIDE DEF g
<1>7. Stays(g, q)
  BY <1>2, PostStays
<1> HIDE DEF q
<1>8. Stays(p, a)
  BY <1>3, <1>4, StaysTrans
<1>9. Stays(b, q)
  BY <1>6, <1>7, StaysTrans
<1>10. StaysBut(p, a, c) /\ StaysBut(b, q, c)
  BY <1>8, <1>9, StaysAnyway
<1>11. StaysBut(p, b, c)
  BY <1>5, <1>10, StaysButTrans
<1> QED
  BY <1>1, <1>10, <1>11, StaysButTrans

-----------------------------------------------------------------------------
(* The loops of ShaderProgramManager::reset, when no context uses a        *)
(* program: they leave nothing.                                            *)

NoneInUse(p) == \A c \in Contexts : p.current[c] = 0

LEMMA ProgramDeleted ==
    ASSUME NEW p, ObjOK(p), NoneInUse(p), NEW n, IsProgram(p, n)
    PROVE  LET z == DeleteProgramObject(p, n)
           IN  /\ ObjOK(z) /\ ~IsProgram(z, n)
               /\ \A m \in Names \ {n} : z.program[m] = p.program[m]
<1> DEFINE C == p.current
           U == Attached(p)
           z == DeleteProgramObject(p, n)
<1>1. ObjInv(p, U, C, {}) /\ ProperRefs(p.program[n], C, n)
  BY OKInv DEF IsProgram
<1>2. \A c \in Contexts : C[c] # n
  BY SetsFinite DEF NoneInUse, IsProgram
<1>3. p.program[n].refs = 0
  <2> HIDE DEF C
  <2> QED
    BY <1>1, <1>2, CountNat, SetsFinite DEF ProperRefs
<1>4. z = DestroyProgram(p, n)
  BY <1>3 DEF DeleteProgramObject
<1>5. ObjInv(p, U, C, {n})
  BY <1>1 DEF ObjInv, ProgramsCounted
<1> HIDE DEF z, C
<1>6. /\ ObjInv(z, Attached(z), C, {}) /\ z.current = p.current /\ ~IsProgram(z, n)
      /\ \A m \in Names \ {n} : z.program[m] = p.program[m]
  BY <1>2, <1>4, <1>5, DestroyProgramKeeps
<1> QED
  BY <1>6 DEF ObjOK, z, C

\* The programs up to k have been deleted.
ProgramsGone(p, r, k) == ObjOK(r) /\ Stays(p, r) /\ \A n \in 1..k : ~IsProgram(r, n)

LEMMA ProgramGoes ==
    ASSUME NEW p, Tracked(p), NoneInUse(p), NEW r, NEW k \in Names, ProgramsGone(p, r, k - 1)
    PROVE  ProgramsGone(p, ProgramCleared(r, k), k)
<1> DEFINE z == ProgramCleared(r, k)
<1>1. ObjOK(r) /\ Stays(p, r) /\ NoneInUse(r) /\ \A n \in 1..(k - 1) : ~IsProgram(r, n)
  BY DEF ProgramsGone, Stays, NoneInUse
<1>2. k \in Nat \ {0} /\ \A n \in 1..k : n \in Names /\ (n = k \/ n \in 1..(k - 1))
  BY NameAssumption DEF Names
<1>3. Stays(r, z)
  BY DeleteProgramStays, StaysSame DEF ProgramCleared
<1>4. Stays(p, z)
  BY <1>1, <1>3, StaysTrans
<1>5. CASE IsProgram(r, k)
  <2>1. z = DeleteProgramObject(r, k)
    BY <1>5 DEF ProgramCleared
  <2> HIDE DEF z
  <2>2. ObjOK(z) /\ ~IsProgram(z, k) /\ \A m \in Names \ {k} : z.program[m] = r.program[m]
    BY <1>1, <1>5, <2>1, ProgramDeleted
  <2>3. \A n \in 1..k : ~IsProgram(z, n)
    BY <1>1, <1>2, <2>2 DEF IsProgram
  <2> QED
    BY <1>4, <2>2, <2>3 DEF ProgramsGone, z
<1>6. CASE ~IsProgram(r, k)
  <2>1. z = r
    BY <1>6 DEF ProgramCleared
  <2> QED
    BY <1>1, <1>2, <1>6, <2>1 DEF ProgramsGone
<1> QED
  BY <1>5, <1>6

LEMMA ProgramLoopEmpties ==
    ASSUME NEW p, ObjOK(p), Tracked(p), NoneInUse(p), NEW f, ProgramLoop(f, p, MaxName)
    PROVE  ProgramsGone(p, f[MaxName], MaxName)
<1>1. MaxName \in Nat /\ MaxName \in 0..MaxName
  BY NameAssumption
<1>2. \A n \in 0..MaxName : f[n] = IF n = 0 THEN p ELSE ProgramCleared(f[n - 1], n)
  BY DEF ProgramLoop
<1> DEFINE Bad == {k \in 0..MaxName : ~ProgramsGone(p, f[k], k)}
<1>3. SUFFICES ASSUME Bad # {} PROVE FALSE
  BY <1>1
<1> DEFINE k == Lowest(Bad)
<1>4. k \in Bad /\ \A m \in Bad : k <= m
  <2>1. Bad \subseteq Nat
    BY <1>1
  <2> HIDE DEF Bad
  <2> QED
    BY <1>3, <2>1, LowestName
<1> HIDE DEF k
<1>5. k \in 0..MaxName /\ ~ProgramsGone(p, f[k], k)
  BY <1>4
<1>6. k # 0
  <2>1. ProgramsGone(p, p, 0)
    BY StaysSame DEF ProgramsGone
  <2> QED
    BY <1>2, <1>5, <2>1
<1>7. k - 1 \in 0..MaxName /\ ~(k <= k - 1) /\ k \in Names
  BY <1>1, <1>5, <1>6 DEF Names
<1>8. ProgramsGone(p, f[k - 1], k - 1)
  BY <1>4, <1>7
<1> DEFINE r == f[k - 1]
<1>9. f[k] = ProgramCleared(r, k)
  BY <1>2, <1>5, <1>6
<1>10. ProgramsGone(p, r, k - 1)
  BY <1>8
<1> HIDE DEF r
<1>11. ProgramsGone(p, ProgramCleared(r, k), k)
  BY <1>7, <1>10, ProgramGoes
<1> QED
  BY <1>5, <1>9, <1>11

LEMMA ClearProgramsEmpties ==
    ASSUME NEW p, ObjOK(p), Tracked(p), NoneInUse(p)
    PROVE  LET q == ClearPrograms(p) IN ObjOK(q) /\ Stays(p, q) /\ \A n : ~IsProgram(q, n)
<1> DEFINE f == CHOOSE g : ProgramLoop(g, p, MaxName)
<1>1. MaxName \in Nat
  BY NameAssumption
<1>2. ProgramLoop(f, p, MaxName)
  BY <1>1, ProgramLoopExists
<1>3. ClearPrograms(p) = f[MaxName]
  BY ClearProgramsIsLoop
<1> HIDE DEF f
<1>4. ProgramsGone(p, f[MaxName], MaxName)
  BY <1>2, ProgramLoopEmpties
<1> QED
  BY <1>3, <1>4 DEF ProgramsGone, Names, IsProgram

LEMMA ShaderDeleted ==
    ASSUME NEW p, ObjOK(p), \A n : ~IsProgram(p, n), NEW s, IsShader(p, s)
    PROVE  LET z == DeleteShaderObject(p, s)
           IN  /\ ObjOK(z) /\ ~IsShader(z, s) /\ z.program = p.program
               /\ \A m \in Names \ {s} : IsShader(z, m) => IsShader(p, m)
<1> DEFINE z == DeleteShaderObject(p, s)
           U == Attached(p)
           t == p.shader[s].type
<1>1. ObjInv(p, U, p.current, {}) /\ s \in Names
  BY DEF ObjOK, IsShader
<1>2. \A u \in Types, m \in Names : U[u][m] = 0
  BY DEF Attached, IsProgram
<1>3. p.shader[s].refs = 0
  <2> DEFINE C == p.current
  <2> HIDE DEF U, C
  <2>1. t \in Types /\ ShaderRefs(p.shader[s], U[t], s)
    BY <1>1, ShaderInv DEF C
  <2>2. \A m \in Names : U[t][m] # s
    BY <1>1, <1>2, <2>1, SetsFinite
  <2> QED
    BY <2>1, <2>2, CountNat, SetsFinite DEF ShaderRefs
<1>4. z = DestroyShader(p, s)
  BY <1>3 DEF DeleteShaderObject
<1>5. Shaped(p)
  BY <1>1 DEF ObjInv, Named
<1>6. ObjOK(z)
  BY DeleteShaderKeeps
<1> HIDE DEF z
<1>7. DestroyedShader(p, z, s)
  BY <1>4, <1>5, DestroyShaderEffect
<1>8. ~IsShader(z, s) /\ z.program = p.program
  BY <1>7 DEF DestroyedShader, IsShader, NoShader
<1>9. \A m \in Names \ {s} : IsShader(z, m) => IsShader(p, m)
  BY <1>7 DEF DestroyedShader, IsShader, SameShader
<1> QED
  BY <1>6, <1>8, <1>9 DEF z

ShadersGone(p, r, k) ==
    /\ ObjOK(r) /\ Stays(p, r) /\ (\A n : ~IsProgram(r, n)) /\ \A n \in 1..k : ~IsShader(r, n)

LEMMA ShaderGoes ==
    ASSUME NEW p, NEW r, NEW k \in Names, ShadersGone(p, r, k - 1)
    PROVE  ShadersGone(p, ShaderCleared(r, k), k)
<1> DEFINE z == ShaderCleared(r, k)
<1>1. ObjOK(r) /\ Stays(p, r) /\ (\A n : ~IsProgram(r, n)) /\ \A n \in 1..(k - 1) : ~IsShader(r, n)
  BY DEF ShadersGone
<1>2. k \in Nat \ {0} /\ \A n \in 1..k : n \in Names /\ (n = k \/ n \in 1..(k - 1))
  BY NameAssumption DEF Names
<1>3. Stays(r, z)
  BY DeleteShaderStays, StaysSame DEF ShaderCleared
<1>4. Stays(p, z)
  BY <1>1, <1>3, StaysTrans
<1>5. CASE IsShader(r, k)
  <2>1. z = DeleteShaderObject(r, k)
    BY <1>5 DEF ShaderCleared
  <2> HIDE DEF z
  <2>2. /\ ObjOK(z) /\ ~IsShader(z, k) /\ z.program = r.program
        /\ \A m \in Names \ {k} : IsShader(z, m) => IsShader(r, m)
    BY <1>1, <1>5, <2>1, ShaderDeleted
  <2>3. \A n \in 1..k : ~IsShader(z, n)
    BY <1>1, <1>2, <2>2
  <2>4. \A n : ~IsProgram(z, n)
    BY <1>1, <2>2 DEF IsProgram
  <2> QED
    BY <1>4, <2>2, <2>3, <2>4 DEF ShadersGone, z
<1>6. CASE ~IsShader(r, k)
  <2>1. z = r
    BY <1>6 DEF ShaderCleared
  <2> QED
    BY <1>1, <1>2, <1>6, <2>1 DEF ShadersGone
<1> QED
  BY <1>5, <1>6

LEMMA ShaderLoopEmpties ==
    ASSUME NEW p, ObjOK(p), \A n : ~IsProgram(p, n), NEW f, ShaderLoop(f, p, MaxName)
    PROVE  ShadersGone(p, f[MaxName], MaxName)
<1>1. MaxName \in Nat /\ MaxName \in 0..MaxName
  BY NameAssumption
<1>2. \A n \in 0..MaxName : f[n] = IF n = 0 THEN p ELSE ShaderCleared(f[n - 1], n)
  BY DEF ShaderLoop
<1> DEFINE Bad == {k \in 0..MaxName : ~ShadersGone(p, f[k], k)}
<1>3. SUFFICES ASSUME Bad # {} PROVE FALSE
  BY <1>1
<1> DEFINE k == Lowest(Bad)
<1>4. k \in Bad /\ \A m \in Bad : k <= m
  <2>1. Bad \subseteq Nat
    BY <1>1
  <2> HIDE DEF Bad
  <2> QED
    BY <1>3, <2>1, LowestName
<1> HIDE DEF k
<1>5. k \in 0..MaxName /\ ~ShadersGone(p, f[k], k)
  BY <1>4
<1>6. k # 0
  <2>1. ShadersGone(p, p, 0)
    BY StaysSame DEF ShadersGone
  <2> QED
    BY <1>2, <1>5, <2>1
<1>7. k - 1 \in 0..MaxName /\ ~(k <= k - 1) /\ k \in Names
  BY <1>1, <1>5, <1>6 DEF Names
<1>8. ShadersGone(p, f[k - 1], k - 1)
  BY <1>4, <1>7
<1> DEFINE r == f[k - 1]
<1>9. f[k] = ShaderCleared(r, k)
  BY <1>2, <1>5, <1>6
<1>10. ShadersGone(p, r, k - 1)
  BY <1>8
<1> HIDE DEF r
<1>11. ShadersGone(p, ShaderCleared(r, k), k)
  BY <1>7, <1>10, ShaderGoes
<1> QED
  BY <1>5, <1>9, <1>11

LEMMA ClearShadersEmpties ==
    ASSUME NEW p, ObjOK(p), \A n : ~IsProgram(p, n)
    PROVE  LET q == ClearShaders(p)
           IN  ObjOK(q) /\ Stays(p, q) /\ \A n : ~IsProgram(q, n) /\ ~IsShader(q, n)
<1> DEFINE f == CHOOSE g : ShaderLoop(g, p, MaxName)
<1>1. MaxName \in Nat
  BY NameAssumption
<1>2. ShaderLoop(f, p, MaxName)
  BY <1>1, ShaderLoopExists
<1>3. ClearShaders(p) = f[MaxName]
  BY ClearShadersIsLoop
<1> HIDE DEF f
<1>4. ShadersGone(p, f[MaxName], MaxName)
  BY <1>2, ShaderLoopEmpties
<1> QED
  BY <1>3, <1>4 DEF ShadersGone, Names, IsShader

\* Both loops end, with nothing left.
LEMMA ResetEmpties ==
    ASSUME NEW p, ObjOK(p), Tracked(p), NoneInUse(p)
    PROVE  LET q == ResetPrograms(p) IN Stays(p, q) /\ \A n : ~IsProgram(q, n) /\ ~IsShader(q, n)
<1> DEFINE r == ClearPrograms(p)
           q == ClearShaders(r)
<1>1. ObjOK(r) /\ Stays(p, r) /\ \A n : ~IsProgram(r, n)
  BY ClearProgramsEmpties
<1>2. ResetPrograms(p) = q
  BY <1>1 DEF ResetPrograms
<1> HIDE DEF r
<1>3. Stays(r, q) /\ \A n : ~IsProgram(q, n) /\ ~IsShader(q, n)
  BY <1>1, ClearShadersEmpties
<1> HIDE DEF q
<1> QED
  BY <1>1, <1>2, <1>3, StaysTrans

-----------------------------------------------------------------------------
(* The steps of the programs.                                              *)

\* A context that is gone uses no program and no compiler.
LeftUnused(p, A) == \A d \in Contexts \ A : p.current[d] = 0 /\ p.compilerOf[d] = 0

GoneInv == Tracked(progs) /\ Unmade(progs) /\ LeftUnused(progs, alive)

LEMMA PoolsStay == \A p : Stays(p, DropPools(p)) /\ Stays(p, DropPools([p EXCEPT !.waits = {}]))
<1> SUFFICES ASSUME NEW p PROVE Stays(p, DropPools(p)) /\ Stays(p, DropPools([p EXCEPT !.waits = {}]))
  OBVIOUS
<1>1. \A q : Stays(q, DropPools(q))
  <2> TAKE q
  <2>1. PICK x : DropPools(q) = [q EXCEPT !.workers = x]
    BY DEF DropPools
  <2>2. Fields(q) => /\ Fields(DropPools(q)) /\ DropPools(q).current = q.current
                     /\ DropPools(q).compilerOf = q.compilerOf /\ DropPools(q).translator = q.translator
    BY <2>1 DEF Fields
  <2> QED
    BY <2>2, FieldStays
<1> DEFINE q == [p EXCEPT !.waits = {}]
<1>2. Stays(p, q)
  <2>1. Fields(p) => /\ Fields(q) /\ q.current = p.current /\ q.compilerOf = p.compilerOf
                     /\ q.translator = p.translator
    BY DEF Fields
  <2> HIDE DEF q
  <2> QED
    BY <2>1, FieldStays
<1> HIDE DEF q
<1>3. Stays(p, DropPools(q))
  BY <1>1, <1>2, StaysTrans
<1> QED
  BY <1>1, <1>3 DEF q

LEMMA GoneKeeps ==
    ASSUME GoneInv, NEW c \in alive, StaysBut(progs, progs', c), alive' = alive
    PROVE  GoneInv'
  BY DEF GoneInv, StaysBut, LeftUnused

LEMMA GonePerforms ==
    ASSUME GoneInv, NEW c \in alive, NEW call, NEW r, Perform(call, r), Finished(r) => StaysBut(progs, r, c)
    PROVE  GoneInv'
<1>1. alive' = alive
  BY DEF Perform
<1>2. CASE Finished(r)
  <2> DEFINE z == DropPools([r EXCEPT !.waits = {}])
  <2>1. progs' = z
    BY <1>2 DEF Perform
  <2>2. Stays(r, z)
    BY PoolsStay
  <2> HIDE DEF z
  <2>3. StaysBut(r, z, c)
    BY <2>2, StaysAnyway
  <2>4. StaysBut(progs, progs', c)
    BY <1>2, <2>1, <2>3, StaysButTrans
  <2> QED
    BY <1>1, <2>4, GoneKeeps
<1>3. CASE ~Finished(r)
  <2>1. progs' = progs
    BY <1>3 DEF Perform
  <2> QED
    BY <1>1, <2>1 DEF GoneInv
<1> QED
  BY <1>2, <1>3

LEMMA GoneReturns ==
    ASSUME GoneInv, NEW c \in alive, NEW call, NEW r, Returns(call, r), StaysBut(progs, r, c)
    PROVE  GoneInv'
<1>1. alive' = alive /\ progs' = DropPools(r)
  BY DEF Returns, CallReturns, entryVars
<1>2. StaysBut(r, progs', c)
  BY <1>1, PoolsStay, StaysAnyway
<1>3. StaysBut(progs, progs', c)
  BY <1>2, StaysButTrans
<1> QED
  BY <1>1, <1>3, GoneKeeps

\* The calls that resolve compilations.
LEMMA GonePerformed ==
    ASSUME GoneInv, CompInv, NEW c \in alive, NEW n,
           \/ CompileShader(c, n) \/ GetShader(c, n) \/ DeleteShader(c, n) \/ DeleteProgram(c, n)
           \/ LinkProgram(c, n) \/ UseProgram(c, n) \/ \E s \in Names : DetachShader(c, n, s)
    PROVE  GoneInv'
<1> DEFINE p == progs
<1>1. c \in Contexts /\ p.poolOf[c] \in Pools
  BY DEF CompInv
<1>2. ASSUME NEW call, NEW r, Perform(call, r), Stays(p, r) PROVE GoneInv'
  BY <1>2, StaysAnyway, GonePerforms
<1>3. CASE CompileShader(c, n)
  <2> DEFINE r == Compile(p, c, n)
  <2>1. IsShader(p, n) /\ FreeTranslators(p) # {} /\ Perform(Call("CompileShader", c, n, 0), r)
    <3>1. Cardinality({}) = 0
      BY FS_EmptySet
    <3> QED
      BY <1>3, <3>1 DEF CompileShader
  <2>2. ASSUME Finished(r) PROVE StaysBut(p, r, c)
    <3>1. Good(p, r.waits)
      BY <2>2, WaitedDone
    <3> QED
      BY <1>1, <2>1, <3>1, CompileStays
  <2> HIDE DEF r
  <2> QED
    BY <2>1, <2>2, GonePerforms
<1>4. CASE GetShader(c, n)
  BY <1>2, <1>4, ResolveStays DEF GetShader
<1>5. CASE DeleteShader(c, n)
  BY <1>2, <1>5, DeleteShaderStays DEF DeleteShader
<1>6. CASE DeleteProgram(c, n)
  BY <1>2, <1>6, DeleteProgramStays DEF DeleteProgram
<1>7. CASE LinkProgram(c, n)
  BY <1>2, <1>7, LinkStays DEF LinkProgram
<1>8. CASE UseProgram(c, n)
  <2>1. PICK q : (q = p \/ q = ResolveLink(p, n)) /\ Perform(Call("UseProgram", c, n, 0), SetProgram(q, c, n))
    BY <1>8 DEF UseProgram
  <2>2. Stays(p, q)
    BY <2>1, ResolveLinkStays, StaysSame
  <2> HIDE DEF p
  <2>3. StaysBut(p, SetProgram(q, c, n), c)
    BY <2>2, StaysAnyway, StaysButTrans, SetProgramStays
  <2> QED
    BY <2>1, <2>3, GonePerforms DEF p
<1>9. ASSUME NEW s \in Names, DetachShader(c, n, s) PROVE GoneInv'
  <2> DEFINE q == ResolveLink(p, n)
             r == ReleaseShader(q, s)
  <2>1. PICK t : Perform(Call("DetachShader", c, n, s), [r EXCEPT !.program[n].shaders[t] = 0])
    BY <1>9 DEF DetachShader
  <2>2. Stays(p, q) /\ Stays(q, r)
    BY ResolveLinkStays, ReleaseShaderStays
  <2> HIDE DEF q, r, p
  <2> DEFINE z == [r EXCEPT !.program[n].shaders[t] = 0]
  <2>3. Stays(r, z)
    <3>1. Fields(r) => /\ Fields(z) /\ z.current = r.current /\ z.compilerOf = r.compilerOf
                       /\ z.translator = r.translator
      BY DEF Fields
    <3> HIDE DEF z
    <3> QED
      BY <3>1, FieldStays
  <2> HIDE DEF z
  <2>4. Stays(p, r)
    BY <2>2, StaysTrans
  <2>5. Stays(p, z)
    BY <2>3, <2>4, StaysTrans
  <2> QED
    BY <1>2, <2>1, <2>5 DEF z
<1> QED
  BY <1>3, <1>4, <1>5, <1>6, <1>7, <1>8, <1>9

\* The calls that do not.
LEMMA GoneReturned ==
    ASSUME GoneInv, NEW c \in alive, NEW n, NEW s,
           \/ CreateShader(c, n, s) \/ CreateProgram(c) \/ ShaderSource(c, n, s) \/ AttachShader(c, n, s)
           \/ ReleaseShaderCompiler(c) \/ MaxShaderCompilerThreads(c, n)
    PROVE  GoneInv'
<1> DEFINE p == progs
<1>1. ASSUME NEW call, NEW r, Returns(call, r),
             Fields(p) => /\ Fields(r) /\ r.current = p.current /\ r.compilerOf = p.compilerOf
                          /\ r.translator = p.translator
      PROVE  GoneInv'
  <2>1. Stays(p, r)
    BY <1>1, FieldStays
  <2> QED
    BY <1>1, <2>1, StaysAnyway, GoneReturns
<1>2. CASE CreateShader(c, n, s)
  <2> DEFINE r == [p EXCEPT !.alloc = TakeName(@), !.shader[NextName(p.alloc)] = NewShader(n, s)]
  <2>1. Returns(Call("CreateShader", c, n, s), r)
    BY <1>2 DEF CreateShader
  <2>2. Fields(p) => /\ Fields(r) /\ r.current = p.current /\ r.compilerOf = p.compilerOf
                     /\ r.translator = p.translator
    BY DEF Fields
  <2> HIDE DEF r
  <2> QED
    BY <1>1, <2>1, <2>2
<1>3. CASE CreateProgram(c)
  <2> DEFINE r == [p EXCEPT !.alloc = TakeName(@), !.program[NextName(p.alloc)] = NewProgram]
  <2>1. Returns(Call("CreateProgram", c, 0, 0), r)
    BY <1>3 DEF CreateProgram
  <2>2. Fields(p) => /\ Fields(r) /\ r.current = p.current /\ r.compilerOf = p.compilerOf
                     /\ r.translator = p.translator
    BY DEF Fields
  <2> HIDE DEF r
  <2> QED
    BY <1>1, <2>1, <2>2
<1>4. CASE ShaderSource(c, n, s)
  <2> DEFINE r == [p EXCEPT !.shader[n].source = s]
  <2>1. Returns(Call("ShaderSource", c, n, s), r)
    BY <1>4 DEF ShaderSource
  <2>2. Fields(p) => /\ Fields(r) /\ r.current = p.current /\ r.compilerOf = p.compilerOf
                     /\ r.translator = p.translator
    BY DEF Fields
  <2> HIDE DEF r
  <2> QED
    BY <1>1, <2>1, <2>2
<1>5. CASE AttachShader(c, n, s)
  <2> DEFINE q == ResolveLink(p, n)
             t == p.shader[s].type
             r == [q EXCEPT !.program[n].shaders[t] = s, !.shader[s].refs = @ + 1]
  <2>1. Returns(Call("AttachShader", c, n, s), r)
    BY <1>5 DEF AttachShader
  <2>2. Stays(p, q)
    BY ResolveLinkStays
  <2> HIDE DEF q, t
  <2>3. Stays(q, r)
    <3>1. Fields(q) => /\ Fields(r) /\ r.current = q.current /\ r.compilerOf = q.compilerOf
                       /\ r.translator = q.translator
      BY DEF Fields
    <3> HIDE DEF r
    <3> QED
      BY <3>1, FieldStays
  <2> HIDE DEF r
  <2>4. Stays(p, r)
    BY <2>2, <2>3, StaysTrans
  <2> QED
    BY <2>1, <2>4, StaysAnyway, GoneReturns
<1>6. CASE ReleaseShaderCompiler(c)
  <2> DEFINE q == [p EXCEPT !.compilerOf[c] = 0]
             r == DropCompilers(q)
  <2>1. Returns(Call("ReleaseShaderCompiler", c, 0, 0), r)
    BY <1>6 DEF ReleaseShaderCompiler
  <2>2. StaysBut(p, q, c)
    BY OwnStays
  <2> HIDE DEF q
  <2>3. StaysBut(q, r, c)
    BY DropStays, StaysAnyway
  <2> HIDE DEF r
  <2>4. StaysBut(p, r, c)
    BY <2>2, <2>3, StaysButTrans
  <2> QED
    BY <2>1, <2>4, GoneReturns
<1>7. CASE MaxShaderCompilerThreads(c, n)
  <2>1. PICK v, w : \/ Returns(Call("MaxShaderCompilerThreads", c, n, 0), [p EXCEPT !.workers = v])
                    \/ Returns(Call("MaxShaderCompilerThreads", c, n, 0), [p EXCEPT !.poolOf[c] = w, !.workers = v])
    BY <1>7 DEF MaxShaderCompilerThreads
  <2> DEFINE r == [p EXCEPT !.workers = v]
             z == [p EXCEPT !.poolOf[c] = w, !.workers = v]
  <2>2. Fields(p) => /\ Fields(r) /\ r.current = p.current /\ r.compilerOf = p.compilerOf
                     /\ r.translator = p.translator
    BY DEF Fields
  <2>3. Fields(p) => /\ Fields(z) /\ z.current = p.current /\ z.compilerOf = p.compilerOf
                     /\ z.translator = p.translator
    BY DEF Fields
  <2> HIDE DEF p, r, z
  <2>4. \E call : Returns(call, r) \/ Returns(call, z)
    BY <2>1 DEF r, z
  <2> QED
    BY <1>1, <2>2, <2>3, <2>4
<1> QED
  BY <1>2, <1>3, <1>4, <1>5, <1>6, <1>7

\* The worker threads.
LEMMA WorksStay ==
    ASSUME GoneInv, CompInv, WorkerStep
    PROVE  GoneInv' /\ progs'.shader = progs.shader /\ progs'.program = progs.program
<1> DEFINE p == progs
           q == progs'
<1>1. PICK i \in Tasks : RunTask(i) \/ FinishTask(i)
  BY DEF WorkerStep
<1>2. alive' = alive
  BY DEF WorkerStep, entryVars
<1>3. CompShape(q) /\ CompShape(p)
  <2>1. CompInv'
    BY CompWorks
  <2> QED
    BY <2>1 DEF CompInv, Good, Sound
<1>4. CASE RunTask(i)
  <2> DEFINE n == p.job[i].translator
             e == [p.translator EXCEPT ![n].holds = p.job[i].source]
  <2>1. p.workers.tasks[i].state = "running" /\ \E v : q = [p EXCEPT !.translator = e, !.workers = v]
    BY <1>3, <1>4 DEF RunTask, RunTranslation, CompShape, Fields
  <2>2. p.translator[n].maker # 0
    <3>1. TasksAre(p, Pending(p)) /\ JobsAre(p, Pending(p)) /\ LentMade(p, Pending(p))
      BY DEF CompInv, Good, Sound, Working, Lending
    <3>2. i \in Pending(p)
      BY <2>1, <3>1 DEF TasksAre
    <3>3. n = p.shader[i].translator
      <4>1. p.job[i] = [translator |-> p.shader[i].translator, source |-> p.shader[i].asked]
        BY <3>1, <3>2 DEF JobsAre
      <4> QED
        BY <4>1
    <3>4. p.translator[n].maker \in Compilers
      BY <3>1, <3>2, <3>3 DEF LentMade
    <3> QED
      BY <3>4 DEF Compilers
  <2>3. /\ Fields(q) /\ q.current = p.current /\ q.compilerOf = p.compilerOf /\ q.translator = e
        /\ q.shader = p.shader /\ q.program = p.program
    BY <1>3, <2>1 DEF CompShape, Fields
  <2>4. p.translator = [j \in Translators |-> p.translator[j]]
    BY <1>3 DEF CompShape
  <2>5. \A j \in Translators : j # n => e[j] = p.translator[j]
    BY <2>4
  <2>6. n \in Translators => e[n].maker = p.translator[n].maker
    <3>1. n \in Translators => p.translator[n] \in [maker : CompilerIds, holds : {p.translator[n].holds}]
      BY <1>3 DEF CompShape, Made
    <3>2. n \in Translators => e[n] = [p.translator[n] EXCEPT !.holds = p.job[i].source]
      BY <2>4
    <3> HIDE DEF n, e
    <3> QED
      BY <3>1, <3>2
  <2> HIDE DEF n, e
  <2>7. Tracked(q)
    <3>1. \A j \in Translators : q.translator[j] \in [maker : CompilerIds, holds : {q.translator[j].holds}]
      BY <1>3 DEF CompShape, Made
    <3>2. \A j \in Translators : RecordOf(q.translator[j])
      BY <3>1 DEF RecordOf
    <3>3. q.translator = [j \in Translators |-> q.translator[j]]
      BY <1>3 DEF CompShape
    <3> QED
      BY <2>3, <3>2, <3>3 DEF Tracked, GoneInv
  <2>8. Unmade(q)
    BY <2>2, <2>3, <2>5, <2>6 DEF Unmade, GoneInv
  <2> QED
    BY <1>2, <2>3, <2>7, <2>8 DEF GoneInv, LeftUnused
<1>5. CASE FinishTask(i)
  <2>1. PICK v : q = [p EXCEPT !.workers = v]
    BY <1>5 DEF FinishTask
  <2>2. /\ Fields(q) /\ q.current = p.current /\ q.compilerOf = p.compilerOf /\ q.translator = p.translator
        /\ q.shader = p.shader /\ q.program = p.program
    BY <1>3, <2>1 DEF CompShape, Fields
  <2> QED
    BY <1>2, <2>2 DEF GoneInv, Tracked, Unmade, LeftUnused
<1> QED
  BY <1>1, <1>4, <1>5

\* Leaving a program is no concern of the compiler.
LEMMA LeaveCompiler ==
    ASSUME NEW p, Tracked(p), NEW c
    PROVE  LeaveProgram(p, c).compilerOf = p.compilerOf
<1>1. CASE p.current[c] = 0
  BY <1>1 DEF LeaveProgram
<1>2. CASE p.current[c] # 0
  <2> DEFINE q == [p EXCEPT !.current[c] = 0]
  <2>1. LeaveProgram(p, c) = ReleaseProgram(q, p.current[c])
    BY <1>2 DEF LeaveProgram
  <2>2. Tracked(q) /\ q.compilerOf = p.compilerOf
    <3>1. StaysBut(p, q, c)
      BY OwnStays
    <3>2. q.compilerOf = p.compilerOf
      BY DEF Tracked, Fields
    <3> QED
      BY <3>1, <3>2 DEF StaysBut
  <2> HIDE DEF q
  <2>3. Stays(q, ReleaseProgram(q, p.current[c]))
    BY ReleaseProgramStays
  <2> QED
    BY <2>1, <2>2, <2>3 DEF Stays
<1> QED
  BY <1>1, <1>2

\* The part of Context::onDestroy: the context uses nothing any more, and the
\* last one leaves no objects.
LEMMA ReleaseStays ==
    ASSUME NEW p, ObjOK(p), Tracked(p), NEW c \in Contexts, NEW last,
           last => \A d \in Contexts \ {c} : p.current[d] = 0
    PROVE  LET z == ReleasePrograms(p, c, last)
           IN  /\ StaysBut(p, z, c) /\ z.current[c] = 0 /\ z.compilerOf[c] = 0
               /\ last => \A n : ~IsProgram(z, n) /\ ~IsShader(z, n)
<1> DEFINE o == [p EXCEPT !.compilerOf[c] = 0]
           d == DropCompilers(o)
           q == LeaveProgram(d, c)
           r == IF last THEN ResetPrograms(q) ELSE q
           z == [r EXCEPT !.poolOf[c] = 0]
<1>1. ReleasePrograms(p, c, last) = z
  BY DEF ReleasePrograms
<1>2. ObjOK(o) /\ StaysBut(p, o, c) /\ o.compilerOf[c] = 0
  <2>1. PICK x : o = [p EXCEPT !.compilerOf = x]
    OBVIOUS
  <2>2. o.compilerOf[c] = 0
    BY DEF Tracked, Fields
  <2>3. StaysBut(p, o, c)
    BY OwnStays
  <2> HIDE DEF o
  <2>4. \A w : ObjOK([p EXCEPT !.compilerOf = x])
    BY WaitsKeep
  <2> QED
    BY <2>1, <2>2, <2>3, <2>4
<1> HIDE DEF o
<1>3. ObjOK(d) /\ Stays(o, d)
  BY <1>2, DroppedKeeps, DropStays
<1>4. Tracked(o) /\ Tracked(d) /\ d.compilerOf[c] = 0
  BY <1>2, <1>3 DEF StaysBut, Stays
<1> HIDE DEF d
<1>5. /\ ObjOK(q) /\ StaysBut(d, q, c) /\ q.compilerOf[c] = 0 /\ q.current[c] = 0
  <2>1. ObjOK(q) /\ IsUpdate(q.current, d.current, c, 0)
    BY <1>3, LeaveKeeps
  <2>2. q.compilerOf = d.compilerOf /\ StaysBut(d, q, c)
    BY <1>4, LeaveCompiler, LeaveStays
  <2>3. q.current[c] = 0
    <3> HIDE DEF q
    <3> QED
      BY <1>4, <2>1 DEF IsUpdate, Tracked
  <2> QED
    BY <1>4, <2>1, <2>2, <2>3
<1> HIDE DEF q
<1>6. StaysBut(p, d, c)
  BY <1>2, <1>3, StaysAnyway, StaysButTrans
<1>7. StaysBut(p, q, c)
  BY <1>5, <1>6, StaysButTrans
<1>8. Tracked(q)
  BY <1>7 DEF StaysBut
<1>9. Stays(q, r) /\ (last => \A n : ~IsProgram(r, n) /\ ~IsShader(r, n))
  <2>1. CASE last
    <3>1. NoneInUse(q)
      BY <1>5, <1>7, <2>1 DEF NoneInUse, StaysBut
    <3> QED
      BY <1>5, <1>8, <2>1, <3>1, ResetEmpties
  <2>2. CASE ~last
    BY <2>2, StaysSame
  <2> QED
    BY <2>1, <2>2
<1> HIDE DEF r
<1>10. Tracked(r) /\ r.current[c] = 0 /\ r.compilerOf[c] = 0
  BY <1>5, <1>8, <1>9 DEF Stays
<1>11. /\ Fields(z) /\ z.current = r.current /\ z.compilerOf = r.compilerOf /\ z.translator = r.translator
       /\ z.program = r.program /\ z.shader = r.shader
  BY <1>10 DEF Tracked, Fields
<1> HIDE DEF z
<1>12. Stays(r, z)
  BY <1>11, FieldStays
<1>13. Stays(q, z)
  BY <1>9, <1>12, StaysTrans
<1>14. StaysBut(p, z, c)
  BY <1>7, <1>13, StaysAnyway, StaysButTrans
<1>15. last => \A n : ~IsProgram(z, n) /\ ~IsShader(z, n)
  BY <1>9, <1>11 DEF IsProgram, IsShader
<1> QED
  BY <1>1, <1>10, <1>11, <1>14, <1>15 DEF z

-----------------------------------------------------------------------------
(* The whole group.                                                        *)

\* Nothing is left of the objects and fences.
Empty ==
    /\ \A n \in Names : ~IsShader(progs, n) /\ ~IsProgram(progs, n) /\ bufs.map[n] = Absent
    /\ \A s \in Syncs : ~syncs.sync[s].exists

Operations == client.calls \cup {"none", "DestroyContext"}

GroupInv ==
    /\ GoneInv
    /\ lock.op \in Operations
    /\ alive = {} => Empty

\* The calls of contexts that are there.
LEMMA OpsKept ==
    /\ \A call : CallReturns(call) => lock'.op \in Operations'
    /\ \A call, r : Returns(call, r) => lock'.op \in Operations'
    /\ \A call, r : Perform(call, r) => lock'.op \in Operations'
<1>1. NoCall.op = "none" /\ NoCall.op \in Operations
  BY DEF NoCall, Call, Operations
<1>2. ASSUME NEW call, CallReturns(call) PROVE lock'.op \in Operations'
  BY <1>1, <1>2 DEF CallReturns, MayCall, entryVars, Operations
<1>3. ASSUME NEW call, NEW r, Perform(call, r) PROVE lock'.op \in Operations'
  BY <1>1, <1>3 DEF Perform, MayCall, Operations
<1> QED
  BY <1>2, <1>3 DEF Returns

LEMMA CallOps ==
    ASSUME NEW c, BufferCall(c) \/ ProgramCall(c) \/ SyncCall(c) \/ Finish(c), lock.op \in Operations
    PROVE  lock'.op \in Operations'
<1>1. NoCall.op \in Operations
  BY DEF NoCall, Call, Operations
<1>2. BufferCall(c) => lock'.op \in Operations'
  BY OpsKept DEF BufferCall, GenBuffer, UnbindBuffer, BindBuffer, DeleteBuffers
<1>3. ASSUME NEW n, CompileShader(c, n) \/ GetShader(c, n) \/ DeleteShader(c, n) \/ DeleteProgram(c, n)
      PROVE  lock'.op \in Operations'
  BY <1>3, OpsKept DEF CompileShader, GetShader, DeleteShader, DeleteProgram
<1>4. ASSUME NEW n, LinkProgram(c, n) \/ UseProgram(c, n) \/ \E s \in Names : DetachShader(c, n, s)
      PROVE  lock'.op \in Operations'
  BY <1>4, OpsKept DEF LinkProgram, UseProgram, DetachShader
<1>5. ASSUME NEW n, NEW s, CreateShader(c, n, s) \/ ShaderSource(c, n, s) \/ AttachShader(c, n, s)
                           \/ CreateProgram(c) \/ ReleaseShaderCompiler(c) \/ MaxShaderCompilerThreads(c, n)
      PROVE  lock'.op \in Operations'
  BY <1>5, OpsKept DEF CreateShader, ShaderSource, AttachShader, CreateProgram, ReleaseShaderCompiler,
                       MaxShaderCompilerThreads
<1>6. ProgramCall(c) => lock'.op \in Operations'
  BY <1>3, <1>4, <1>5 DEF ProgramCall
<1>7. ASSUME NEW call, NEW s, NEW flush, ClientWait(call, s, flush) PROVE lock'.op \in Operations'
  BY <1>1, <1>7 DEF ClientWait, MayCall, Operations
<1>8. SyncCall(c) => lock'.op \in Operations'
  BY <1>7, OpsKept DEF SyncCall, Draw, Flush, FenceSync, DeleteSync, SetFenceNV, WaitSync, PollSync,
                       ClientWaitSync, FinishFenceNV
<1>9. Finish(c) => lock'.op \in Operations'
  BY <1>1 DEF Finish, MayCall, Operations
<1> QED
  BY <1>2, <1>6, <1>8, <1>9

LEMMA ForgetSyncs ==
    ASSUME NEW y, y \in SyncState
    PROVE  Forget(y).sync = y.sync
<1> DEFINE v == [e \in Events |-> IF e \in FreeEvents(y) THEN 0 ELSE y.value[e]]
<1>1. Forget(y) = [y EXCEPT !.value = v]
  BY DEF Forget
<1> HIDE DEF v
<1> QED
  BY <1>1 DEF SyncState

LEMMA GroupDestroys ==
    ASSUME GroupInv, ProgInv, SyncInv, NEW c \in alive, DestroyContext(c)
    PROVE  GroupInv'
<1> DEFINE last == alive = {c}
           p == ReleasePrograms(progs, c, last)
           q == [p EXCEPT !.waits = {}]
           call == Call("DestroyContext", c, 0, 0)
<1>1. c \in Contexts /\ alive \subseteq Contexts /\ ObjOK(progs) /\ GoneInv
  BY DEF ProgInv, GroupInv
<1>2. /\ StaysBut(progs, p, c) /\ p.current[c] = 0 /\ p.compilerOf[c] = 0
      /\ last => \A n : ~IsProgram(p, n) /\ ~IsShader(p, n)
  <2>1. last => \A d \in Contexts \ {c} : progs.current[d] = 0
    BY <1>1 DEF GoneInv, LeftUnused
  <2> HIDE DEF last
  <2> QED
    BY <1>1, <2>1, ReleaseStays DEF GoneInv
<1>3. lock'.op \in Operations'
  <2>1. client' = client /\ (lock' = call \/ lock' = NoCall)
    BY DEF DestroyContext
  <2> QED
    BY <2>1 DEF NoCall, Call, Operations
<1>4. CASE Finished(p)
  <2>1. /\ progs' = DropPools(q) /\ alive' = alive \ {c}
        /\ bufs' = ReleaseBuffers(bufs, c, last) /\ syncs' = ReleaseSyncs(syncs, c, last)
    BY <1>4 DEF DestroyContext
  <2> HIDE DEF last, p
  <2>2. Stays(p, progs')
    BY <2>1, PoolsStay
  <2>3. Tracked(p)
    BY <1>1, <1>2 DEF StaysBut, GoneInv
  <2>4. StaysBut(progs, progs', c) /\ progs'.current[c] = 0 /\ progs'.compilerOf[c] = 0
    BY <1>2, <2>2, <2>3, StaysAnyway, StaysButTrans DEF Stays
  <2>5. GoneInv'
    BY <1>1, <2>1, <2>4 DEF GoneInv, StaysBut, LeftUnused
  <2>6. ASSUME alive' = {} PROVE Empty'
    <3>1. last
      BY <2>1, <2>6 DEF last
    <3>2. \A n : ~IsProgram(progs', n) /\ ~IsShader(progs', n)
      <4>1. PICK x : progs' = [q EXCEPT !.workers = x]
        BY <2>1 DEF DropPools
      <4>2. progs'.program = p.program /\ progs'.shader = p.shader
        BY <2>3, <4>1 DEF Tracked, Fields
      <4> QED
        BY <1>2, <3>1, <4>2 DEF IsProgram, IsShader
    <3>3. bufs'.map = [n \in Names |-> Absent]
      <4>1. bufs' = ResetBuffers(SetBinding(bufs, c, 0))
        BY <2>1, <3>1 DEF ReleaseBuffers
      <4> DEFINE b == SetBinding(bufs, c, 0)
      <4> HIDE DEF b
      <4>2. bufs' = ResetBuffers(b)
        BY <4>1 DEF b
      <4> QED
        BY <4>2 DEF ResetBuffers
    <3>4. \A s \in Syncs : ~syncs'.sync[s].exists
      <4> DEFINE d == Commit(syncs, c)
                 f == [s \in Syncs |-> IF s = c \/ last THEN NoSync ELSE d.sync[s]]
                 y == [d EXCEPT !.sync = f]
      <4>1. syncs' = Forget(y)
        BY <2>1 DEF ReleaseSyncs
      <4>2. SyncsSound(d)
        BY <1>1, CommitSound DEF SyncInv
      <4> HIDE DEF d
      <4>3. f = [s \in Syncs |-> NoSync] /\ NoSync \in SyncType /\ NoSync.exists = FALSE
        BY <3>1, SyncAssumption DEF NoSync, SyncType
      <4>4. f \in [Syncs -> SyncType] /\ \A s \in Syncs : f[s] = NoSync
        BY <4>3
      <4> HIDE DEF f
      <4>5. y \in SyncState /\ y.sync = f
        BY <4>2, <4>4 DEF SyncsSound, SyncState
      <4> HIDE DEF y
      <4>6. syncs'.sync = f
        BY <4>1, <4>5, ForgetSyncs
      <4> QED
        BY <4>3, <4>4, <4>6
    <3> QED
      BY <3>2, <3>3, <3>4 DEF Empty
  <2> QED
    BY <1>3, <2>5, <2>6 DEF GroupInv
<1>5. CASE ~Finished(p)
  <2>1. progs' = progs /\ alive' = alive /\ alive # {}
    BY <1>5 DEF DestroyContext
  <2> QED
    BY <1>1, <1>3, <2>1 DEF GroupInv, GoneInv, LeftUnused
<1> QED
  BY <1>4, <1>5

\* The GPU, the listeners and the waiting thread make no fence.
LEMMA NoSyncs ==
    ASSUME SyncInv, \A s \in Syncs : ~syncs.sync[s].exists, GpuStep \/ Listeners \/ ThreadStep
    PROVE  \A s \in Syncs : ~syncs'.sync[s].exists
<1>1. syncs \in SyncState /\ \A s \in Syncs : syncs.sync[s] = NoSync
  BY DEF SyncInv, SyncsSound, EventsApart
<1>2. ~ThreadStep
  BY DEF SyncInv, ThreadStep, Evaluate, FallAsleep, Wake, TimeOut
<1>3. ASSUME NEW y, y.sync = syncs.sync, y = [y EXCEPT !.value = y.value], "sync" \in DOMAIN y,
             syncs' = Forget(y)
      PROVE  syncs'.sync = syncs.sync
  <2>1. PICK v : syncs' = [y EXCEPT !.value = v]
    BY <1>3 DEF Forget
  <2> QED
    BY <1>3, <2>1
<1>4. CASE GpuStep
  <2> DEFINE item == Head(syncs.gpu)
             y == [syncs EXCEPT !.gpu = Tail(@)]
             z == [y EXCEPT !.value[item.event] = item.value]
  <2>1. \/ syncs' = Executed(y, item.c) \/ syncs' = Forget(z) \/ syncs' = Forget(y)
    BY <1>4 DEF GpuStep
  <2>2. /\ y.sync = syncs.sync /\ y = [y EXCEPT !.value = y.value] /\ "sync" \in DOMAIN y
        /\ z.sync = syncs.sync /\ z = [z EXCEPT !.value = z.value] /\ "sync" \in DOMAIN z
    BY <1>1 DEF SyncState
  <2> HIDE DEF item, y, z
  <2>3. CASE syncs' = Executed(y, item.c)
    <3>1. syncs'.sync = [s \in Syncs |-> OneLess(y.sync[s], item.c)]
      <4> DEFINE f == [s \in Syncs |-> OneLess(y.sync[s], item.c)]
      <4>1. syncs' = [[y EXCEPT !.work[item.c] = @ - 1] EXCEPT !.sync = f]
        BY <2>3 DEF Executed
      <4> HIDE DEF f
      <4>2. syncs'.sync = f
        BY <2>2, <4>1
      <4> QED
        BY <4>2 DEF f
    <3>2. OneLess(NoSync, item.c) = NoSync /\ NoSync.exists = FALSE
      BY DEF OneLess, NoSync
    <3> QED
      BY <1>1, <2>2, <3>1, <3>2
  <2> QED
    BY <1>3, <2>1, <2>2, <2>3
<1>5. CASE Listeners
  <2>1. PICK l : syncs' = Forget(Notify(l))
    BY <1>5 DEF Listeners, Fire
  <2>2. PICK L, b : Notify(l) = [syncs EXCEPT !.listeners = L, !.notified = b]
    BY DEF Notify
  <2> DEFINE y == Notify(l)
  <2>3. y.sync = syncs.sync /\ y = [y EXCEPT !.value = y.value] /\ "sync" \in DOMAIN y
    BY <1>1, <2>2 DEF SyncState
  <2> HIDE DEF y
  <2>4. syncs'.sync = syncs.sync
    BY <1>3, <2>1, <2>3 DEF y
  <2> QED
    BY <2>4
<1> QED
  BY <1>2, <1>4, <1>5

LEMMA InitGroup == Init => GroupInv
<1> SUFFICES ASSUME Init PROVE GroupInv
  OBVIOUS
<1> DEFINE z == NewPrograms
<1>1. PICK y, h : progs = [z EXCEPT !.poolOf = y, !.workers.pools = h]
  BY DEF Init, ProgramsInit
<1>2. /\ Fields(z) /\ z.current = [c \in Contexts |-> 0] /\ z.compilerOf = [c \in Contexts |-> 0]
      /\ z.translator = [i \in Translators |-> NoTranslator]
      /\ z.shader = [n \in Names |-> NoShader] /\ z.program = [n \in Names |-> NoProgram]
  BY DEF NewPrograms, Fields
<1> HIDE DEF z
<1>3. /\ Fields(progs) /\ progs.current = z.current /\ progs.compilerOf = z.compilerOf
      /\ progs.translator = z.translator /\ progs.shader = z.shader /\ progs.program = z.program
  BY <1>1, <1>2 DEF Fields
<1>4. RecordOf(NoTranslator)
  BY DEF RecordOf, NoTranslator
<1>5. Tracked(progs) /\ Unmade(progs) /\ LeftUnused(progs, alive)
  BY <1>2, <1>3, <1>4 DEF Tracked, Unmade, LeftUnused
<1>6. lock.op \in Operations
  BY DEF Init, EntryInit, NoCall, Call, Operations
<1>7. Empty
  <2>1. \A n \in Names : ~IsShader(progs, n) /\ ~IsProgram(progs, n)
    BY <1>2, <1>3 DEF IsShader, IsProgram, NoShader, NoProgram
  <2>2. \A n \in Names : bufs.map[n] = Absent
    BY DEF Init, NewBuffers
  <2>3. \A s \in Syncs : ~syncs.sync[s].exists
    BY DEF Init, NewSyncs, NoSync
  <2> QED
    BY <2>1, <2>2, <2>3 DEF Empty
<1> QED
  BY <1>5, <1>6, <1>7 DEF GroupInv, GoneInv

LEMMA StepGroup == ProgInv /\ CompInv /\ SyncInv /\ GroupInv /\ [Next]_vars => GroupInv'
<1> SUFFICES ASSUME ProgInv, CompInv, SyncInv, GroupInv, [Next]_vars PROVE GroupInv'
  OBVIOUS
<1>1. GoneInv /\ lock.op \in Operations /\ (alive = {} => Empty)
  BY DEF GroupInv
<1>2. ASSUME progs' = progs, alive' = alive PROVE GoneInv'
  BY <1>1, <1>2 DEF GoneInv, Tracked, Unmade, LeftUnused
\* A call, which its context survives.
<1>3. ASSUME NEW c \in alive, alive' = alive, GoneInv', lock'.op \in Operations' PROVE GroupInv'
  BY <1>3 DEF GroupInv
<1>4. ASSUME NEW c \in alive, ContextStep(c) PROVE GroupInv'
  <2>1. CASE BufferCall(c) /\ UNCHANGED <<progs, syncs>>
    <3>1. alive' = alive
      BY <2>1 DEF BufferCall, GenBuffer, UnbindBuffer, BindBuffer, DeleteBuffers, CallReturns, entryVars
    <3> QED
      BY <1>1, <1>2, <1>3, <2>1, <3>1, CallOps
  <2>2. CASE ProgramCall(c)
    <3>1. alive' = alive /\ lock'.op \in Operations'
      BY <1>1, <2>2, CallOps, OthersKeepBuffers
    <3>2. GoneInv'
      BY <1>1, <2>2, GonePerformed, GoneReturned DEF ProgramCall
    <3> QED
      BY <1>3, <3>1, <3>2
  <2>3. CASE (SyncCall(c) \/ Finish(c)) /\ UNCHANGED <<bufs, progs>>
    BY <1>1, <1>2, <1>3, <2>3, CallOps, OthersKeepBuffers
  <2>4. CASE DestroyContext(c)
    BY <2>4, GroupDestroys
  <2> QED
    BY <1>4, <2>1, <2>2, <2>3, <2>4 DEF ContextStep
\* Steps that go on without contexts.
<1>5. ASSUME GoneInv', alive' = alive, lock'.op \in Operations', bufs' = bufs,
             progs'.shader = progs.shader, progs'.program = progs.program,
             (\A s \in Syncs : ~syncs.sync[s].exists) => \A s \in Syncs : ~syncs'.sync[s].exists
      PROVE  GroupInv'
  <2>1. Empty => Empty'
    BY <1>5 DEF Empty, IsShader, IsProgram
  <2> QED
    BY <1>1, <1>5, <2>1 DEF GroupInv
<1>6. ASSUME lock' = lock, client' = client PROVE lock'.op \in Operations'
  BY <1>1, <1>6 DEF Operations
<1>7. CASE Workers
  <2>1. WorkerStep /\ bufs' = bufs /\ syncs' = syncs /\ UNCHANGED entryVars
    BY <1>7 DEF Workers, WorkerStep
  <2>2. GoneInv' /\ progs'.shader = progs.shader /\ progs'.program = progs.program
    BY <1>1, <2>1, WorksStay
  <2> QED
    BY <1>5, <1>6, <2>1, <2>2 DEF entryVars
<1>8. CASE Gpu
  <2>1. (GpuStep \/ Listeners) /\ bufs' = bufs /\ progs' = progs /\ UNCHANGED entryVars
    BY <1>8 DEF Gpu, GpuStep, Listeners, Fire
  <2> QED
    BY <1>2, <1>5, <1>6, <2>1, NoSyncs DEF entryVars
<1>9. CASE WaitingThread
  <2>1. ThreadStep /\ bufs' = bufs /\ progs' = progs /\ client' = client /\ alive' = alive
    BY <1>9 DEF WaitingThread, ThreadStep
  <2>2. lock' = lock \/ lock' = NoCall
    BY <2>1 DEF ThreadStep, Evaluate, FallAsleep, Wake, TimeOut, Return
  <2>3. lock'.op \in Operations'
    BY <1>6, <2>1, <2>2 DEF NoCall, Call, Operations
  <2> QED
    BY <1>2, <1>5, <2>1, <2>3, NoSyncs
<1>10. CASE UNCHANGED vars
  BY <1>2, <1>5, <1>6, <1>10 DEF vars
<1> QED
  BY <1>4, <1>7, <1>8, <1>9, <1>10 DEF Next, Ended

-----------------------------------------------------------------------------
(* The theorems.                                                           *)

\* A context that was destroyed uses no program and no compiler, and when the
\* last one was, the objects and fences of the group are gone, however the
\* destruction falls between compilations, flagged objects and fences that are
\* waited for (Context::onDestroy, ShaderProgramManager::reset).
THEOREM GroupInvariant == Spec => []GroupInv
<1>1. Init => ProgInv /\ CompInv /\ SyncInv /\ GroupInv
  BY InitPrograms, CompInit, InitSound, InitGroup
<1>2. ProgInv /\ CompInv /\ SyncInv /\ GroupInv /\ [Next]_vars
        => (ProgInv /\ CompInv /\ SyncInv /\ GroupInv)'
  BY StepPrograms, CompStep, StepSound, StepGroup
<1> QED
  BY <1>1, <1>2, PTL DEF Spec

\* When the last context is destroyed nothing is left: neither shaders and
\* programs, which only the loops of ShaderProgramManager::reset delete, nor
\* translators, tasks, buffers and fences, whatever the contexts had attached,
\* bound, lent and flagged (Context::onDestroy).
THEOREM NothingLeftAlways == Spec => []NothingLeft
<1>1. BufInv /\ CompInv /\ GroupInv => NothingLeft
  <2> SUFFICES ASSUME BufInv, CompInv, GroupInv, alive = {} PROVE NothingLeft
    BY DEF NothingLeft
  <2>1. Empty /\ GoneInv
    BY DEF GroupInv
  <2>2. Sound(progs) /\ TasksAre(progs, Pending(progs))
    BY DEF CompInv, Good, Working
  <2>3. CompilersInUse(progs) \subseteq {0}
    <3>1. \A c \in Contexts : progs.compilerOf[c] = 0
      BY <2>1 DEF GoneInv, LeftUnused
    <3> QED
      BY <2>1, <3>1 DEF Empty, CompilersInUse
  <2>4. \A i \in Translators : progs.translator[i] = NoTranslator
    <3>1. ASSUME NEW i \in Translators PROVE progs.translator[i].maker = 0
      BY <2>2, <2>3, OwnedOnce
    <3> QED
      BY <2>1, <3>1 DEF GoneInv, Unmade
  <2>5. \A i \in Tasks : progs.workers.tasks[i].state = "none"
    <3>1. Pending(progs) = {}
      BY <2>1 DEF Empty, Pending, CompilePending
    <3> QED
      BY <2>2, <3>1 DEF TasksAre
  <2>6. \A o \in BufferIds : bufs.refs[o] = 0
    <3>1. SUFFICES ASSUME NEW o \in BufferIds PROVE bufs.refs[o] = 0
      OBVIOUS
    <3>2. Count(Names, bufs.map, o) = 0
      BY <2>1, BufDomains, CountNat DEF Empty
    <3>3. Count(Contexts, bufs.bound, o) = 0
      <4>1. \A c \in Contexts : bufs.bound[c] # o
        BY BufDomains DEF BufInv
      <4> QED
        BY <4>1, BufDomains, CountNat
    <3> QED
      BY <3>2, <3>3 DEF BufInv, BufOK, Counted
  <2> QED
    BY <2>1, <2>4, <2>5, <2>6 DEF NothingLeft, Empty
<1> QED
  BY <1>1, BufferInvariant, CompilationInvariant, GroupInvariant, PTL

\* The parts of the group have their types, no call leaves tasks to wait for,
\* and the thread that waits for a fence is marked as waiting exactly while its
\* call holds the mutex (EntryPoints, Sync::clientWait).
THEOREM ShareGroupTyped == Spec => []TypeOK
<1>1. BufInv /\ CompInv /\ SyncInv /\ GroupInv => TypeOK
  <2> SUFFICES ASSUME BufInv, CompInv, SyncInv, GroupInv PROVE TypeOK
    OBVIOUS
  <2>1. alive \subseteq Contexts /\ lock.op \in client.calls \cup {"none", "DestroyContext"}
    BY DEF CompInv, GroupInv, Operations
  <2>2. \A n \in Names : bufs.map[n] \in BufferIds \cup {Absent, Reserved}
    BY DEF BufInv, BufOK, BufTypes
  <2>3. \A k \in Pools : progs.workers.pools[k].running \in Nat
    BY DEF CompInv, Good, Working, WorkersOK, WorkersTyped, PoolType
  <2>4. (\A c \in Contexts : progs.poolOf[c] \in Pools \cup {0}) /\ progs.waits = {}
    BY DEF CompInv, Good, Sound, CompShape
  <2>5. syncs.pc \in {"running", "armed", "checked", "asleep"} /\ (Waiting <=> syncs.pc # "running")
    BY DEF SyncInv, SyncsSound, SyncState
  <2> QED
    BY <2>1, <2>2, <2>3, <2>4, <2>5 DEF TypeOK
<1> QED
  BY <1>1, BufferInvariant, CompilationInvariant, SyncInvariant, GroupInvariant, PTL
=============================================================================
