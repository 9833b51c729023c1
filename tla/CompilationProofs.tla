-------------------------- MODULE CompilationProofs --------------------------
(***************************************************************************)
(* Proofs about the compilations of a share group (SharedPrograms), the    *)
(* translators they are lent and the threads that do them (WorkerPool), in *)
(* the whole system ShareGroup.                                            *)
(***************************************************************************)
EXTENDS SharedObjectsProofs, SequenceTheorems

-----------------------------------------------------------------------------
(* The pools of worker threads.                                             *)

TaskType == [state : {"none", "queued", "running", "left", "done"}, pool : Pools \cup {0}]

PoolType == [async : BOOLEAN, max : Int, running : Nat, queue : Seq(Tasks)]

WorkersTyped(w) ==
    /\ w \in [tasks : [Tasks -> TaskType], pools : [Pools -> PoolType]]
    /\ \A i \in Tasks : w.tasks[i].state # "none" => w.tasks[i].pool \in Pools

\* The queue of a pool is that of its tasks that have not been started.
QueueExact(w, k) ==
    /\ \A i, j \in 1..Len(w.pools[k].queue) : w.pools[k].queue[i] = w.pools[k].queue[j] => i = j
    /\ \A i \in Tasks : (w.tasks[i].state = "queued" /\ w.tasks[i].pool = k)
                          <=> \E j \in 1..Len(w.pools[k].queue) : w.pools[k].queue[j] = i

PoolExact(w, k) == QueueExact(w, k) /\ RunningExact(w, k)

WorkersOK(w) ==
    WorkersTyped(w) /\ \A k \in Pools : PoolExact(w, k) /\ NoIdleThread(w, k)

\* Tasks may have been started.
Advanced(w, v) ==
    \A i \in Tasks : /\ v.tasks[i].pool = w.tasks[i].pool
                     /\ \/ v.tasks[i].state = w.tasks[i].state
                        \/ w.tasks[i].state = "queued" /\ v.tasks[i].state = "running"

RunningIn(w, k) == {i \in TasksOf(w, k) : w.tasks[i].state = "running"}

LEMMA TasksFinite == IsFiniteSet(Tasks)
<1>1. MaxTasks \in Nat
  BY WorkerAssumption
<1> QED
  BY <1>1, FS_Interval DEF Tasks

\* The first n entries of a sequence without repetition.
LEMMA FirstOnes ==
    ASSUME NEW S, NEW s \in Seq(S), \A i, j \in 1..Len(s) : s[i] = s[j] => i = j, NEW n \in 0..Len(s),
           NEW T, T = {s[i] : i \in 1..n}
    PROVE  IsFiniteSet(T) /\ Cardinality(T) = n
<1> DEFINE f == [i \in 1..n |-> s[i]]
<1>1. n \in Nat /\ 1..n \subseteq 1..Len(s)
  OBVIOUS
<1>2. \A i, j \in 1..n : f[i] = f[j] => i = j
  BY <1>1
<1>3. f \in Bijection(1..n, T)
  <2>1. f \in [1..n -> T] /\ \A t \in T : \E i \in 1..n : f[i] = t
    OBVIOUS
  <2> QED
    BY <1>2, <2>1 DEF Bijection, Injection, Surjection, IsInjective
<1>4. ExistsBijection(1..n, T)
  BY <1>3 DEF ExistsBijection
<1>5. IsFiniteSet(1..n) /\ Cardinality(1..n) = n
  BY <1>1, FS_Interval
<1> QED
  BY <1>4, <1>5, FS_Bijection

\* A sequence with one entry more.
LEMMA AppendParts ==
    ASSUME NEW S, NEW s \in Seq(S), NEW x \in S
    PROVE  /\ Len(s) \in Nat /\ Len(Append(s, x)) = Len(s) + 1 /\ Append(s, x)[Len(s) + 1] = x
           /\ \A j \in 1..Len(s) : Append(s, x)[j] = s[j]
  OBVIOUS

LEMMA PoolParts ==
    ASSUME NEW w, WorkersTyped(w), NEW k \in Pools
    PROVE  LET q == w.pools[k].queue IN
           /\ w.pools[k].max \in Int /\ w.pools[k].running \in Nat /\ q \in Seq(Tasks) /\ Len(q) \in Nat
           /\ \A j \in 1..Len(q) : q[j] \in Tasks
           /\ Startable(w.pools[k]) \in 0..Len(q)
           /\ Startable(w.pools[k]) < Len(q) => w.pools[k].running + Startable(w.pools[k]) >= w.pools[k].max
<1>1. w.pools[k] \in PoolType
  BY DEF WorkersTyped
<1> DEFINE q == w.pools[k].queue
           m == w.pools[k].max
           r == w.pools[k].running
<1>2. m \in Int /\ r \in Nat /\ q \in Seq(Tasks)
  BY <1>1 DEF PoolType
<1>3. Len(q) \in Nat /\ \A j \in 1..Len(q) : q[j] \in Tasks
  BY <1>2
<1>4. Startable(w.pools[k]) = IF m - r < 0 THEN 0 ELSE IF m - r < Len(q) THEN m - r ELSE Len(q)
  BY DEF Startable
<1> HIDE DEF q, m, r
<1>5. /\ Startable(w.pools[k]) \in 0..Len(q)
      /\ Startable(w.pools[k]) < Len(q) => r + Startable(w.pools[k]) >= m
  BY <1>2, <1>3, <1>4
<1> QED
  BY <1>2, <1>3, <1>5 DEF q, m, r

\* What checkToRunPendingTasks does: the first n tasks of the queue start.
Starts(w, v, k, n) ==
    LET q == w.pools[k].queue
        S == {q[i] : i \in 1..n}
    IN  /\ WorkersTyped(v)
        /\ v.pools[k].queue = SubSeq(q, n + 1, Len(q))
        /\ v.pools[k].running = w.pools[k].running + n
        /\ v.pools[k].max = w.pools[k].max
        /\ \A l \in Pools \ {k} : v.pools[l] = w.pools[l]
        /\ \A i \in Tasks : /\ v.tasks[i].pool = w.tasks[i].pool
                            /\ v.tasks[i].state = IF i \in S THEN "running" ELSE w.tasks[i].state

LEMMA CheckStarts ==
    ASSUME NEW w, WorkersTyped(w), NEW k \in Pools, QueueExact(w, k)
    PROVE  Starts(w, CheckToRunPendingTasks(w, k), k, Startable(w.pools[k]))
<1> DEFINE n == Startable(w.pools[k])
           q == w.pools[k].queue
           S == {q[i] : i \in 1..n}
           v == CheckToRunPendingTasks(w, k)
           pools == [w.pools EXCEPT ![k].queue = SubSeq(q, n + 1, Len(q)), ![k].running = @ + n]
           tasks == [i \in Tasks |-> IF i \in S THEN [w.tasks[i] EXCEPT !.state = "running"] ELSE w.tasks[i]]
<1>1. w = [tasks |-> w.tasks, pools |-> w.pools] /\ w.tasks \in [Tasks -> TaskType] /\ w.pools \in [Pools -> PoolType]
  BY DEF WorkersTyped
<1>2. v = [w EXCEPT !.pools = pools, !.tasks = tasks]
  BY <1>1 DEF CheckToRunPendingTasks
<1>3. v = [tasks |-> tasks, pools |-> pools]
  BY <1>1, <1>2
<1>4. n \in 0..Len(q) /\ Len(q) \in Nat /\ q \in Seq(Tasks)
  BY PoolParts
<1>5. SubSeq(q, n + 1, Len(q)) \in Seq(Tasks)
  BY <1>4, SubSeqProperties
<1>6. w.pools[k] \in PoolType /\ w.pools[k].running + n \in Nat
  BY <1>1, <1>4 DEF PoolType
<1> DEFINE s == SubSeq(q, n + 1, Len(q))
           r == w.pools[k].running + n
<1>7. /\ pools \in [Pools -> PoolType] /\ pools[k].queue = s /\ pools[k].running = r
      /\ pools[k].max = w.pools[k].max /\ \A l \in Pools \ {k} : pools[l] = w.pools[l]
  <2>1. s \in Seq(Tasks) /\ r \in Nat /\ pools = [w.pools EXCEPT ![k].queue = s, ![k].running = r]
    BY <1>5, <1>6, <1>1 DEF PoolType
  <2> HIDE DEF s, r, pools
  <2>2. pools = [w.pools EXCEPT ![k] = [w.pools[k] EXCEPT !.queue = s, !.running = r]]
    BY <1>1, <2>1
  <2>3. [w.pools[k] EXCEPT !.queue = s, !.running = r] \in PoolType
    BY <1>6, <2>1 DEF PoolType
  <2> QED
    BY <1>1, <1>6, <2>2, <2>3 DEF PoolType
<1> HIDE DEF n, pools
<1>8. /\ tasks \in [Tasks -> TaskType]
      /\ \A i \in Tasks : /\ tasks[i].pool = w.tasks[i].pool
                          /\ tasks[i].state = IF i \in S THEN "running" ELSE w.tasks[i].state
  <2> HIDE DEF S
  <2>1. \A i \in Tasks : w.tasks[i] \in TaskType
    BY <1>1
  <2>2. \A i \in Tasks : tasks[i] \in TaskType /\ tasks[i].pool = w.tasks[i].pool
                         /\ tasks[i].state = IF i \in S THEN "running" ELSE w.tasks[i].state
    BY <2>1 DEF TaskType
  <2> QED
    BY <2>2
<1>9. \A i \in S : w.tasks[i].state = "queued"
  BY <1>4 DEF QueueExact
<1> HIDE DEF tasks, S
<1>10. \A i \in Tasks : tasks[i].state # "none" => tasks[i].pool \in Pools
  BY <1>8, <1>9 DEF WorkersTyped
<1> QED
  <2>1. v.tasks = tasks /\ v.pools = pools /\ v \in [tasks : [Tasks -> TaskType], pools : [Pools -> PoolType]]
    BY <1>3, <1>7, <1>8
  <2> HIDE DEF v
  <2>2. WorkersTyped(v)
    BY <2>1, <1>10 DEF WorkersTyped
  <2> QED
    BY <2>1, <2>2, <1>7, <1>8 DEF Starts, S, s, r, q, n, v

\* Tasks that were about to run in k run now.
LEMMA CheckRuns ==
    ASSUME NEW w, WorkersTyped(w), \A l \in Pools : PoolExact(w, l), NEW k \in Pools,
           \A l \in Pools \ {k} : NoIdleThread(w, l)
    PROVE  WorkersOK(CheckToRunPendingTasks(w, k)) /\ Advanced(w, CheckToRunPendingTasks(w, k))
<1> DEFINE n == Startable(w.pools[k])
           q == w.pools[k].queue
           v == CheckToRunPendingTasks(w, k)
           S == {q[i] : i \in 1..n}
<1>1. Starts(w, v, k, n)
  BY CheckStarts DEF PoolExact
<1> HIDE DEF v, n
<1>2. /\ n \in 0..Len(q) /\ Len(q) \in Nat /\ q \in Seq(Tasks) /\ w.pools[k].max \in Int /\ w.pools[k].running \in Nat
      /\ n < Len(q) => w.pools[k].running + n >= w.pools[k].max
  BY PoolParts DEF n
<1>3. \A i, j \in 1..Len(q) : q[i] = q[j] => i = j
  BY DEF PoolExact, QueueExact
<1>4. \A i \in Tasks : (w.tasks[i].state = "queued" /\ w.tasks[i].pool = k) <=> \E j \in 1..Len(q) : q[j] = i
  BY DEF PoolExact, QueueExact
<1>5. S \subseteq Tasks /\ \A i \in S : w.tasks[i].state = "queued" /\ w.tasks[i].pool = k
  BY <1>2, <1>4, SMTT(40)
<1>6. IsFiniteSet(S) /\ Cardinality(S) = n
  <2>1. S = {q[i] : i \in 1..n}
    OBVIOUS
  <2> HIDE DEF q, S
  <2> QED
    BY <1>2, <1>3, <2>1, FirstOnes, SMTT(40)
<1>7. \A i \in Tasks : /\ v.tasks[i].pool = w.tasks[i].pool
                       /\ v.tasks[i].state = IF i \in S THEN "running" ELSE w.tasks[i].state
  BY <1>1 DEF Starts
<1>8. /\ v.pools[k].queue = SubSeq(q, n + 1, Len(q)) /\ v.pools[k].running = w.pools[k].running + n
      /\ v.pools[k].max = w.pools[k].max /\ \A l \in Pools \ {k} : v.pools[l] = w.pools[l]
  BY <1>1 DEF Starts
<1>9. Advanced(w, v)
  BY <1>5, <1>7 DEF Advanced
<1>10. QueueExact(v, k)
  <2> DEFINE r == SubSeq(q, n + 1, Len(q))
  <2>1. Len(r) = Len(q) - n /\ \A j \in 1..Len(r) : r[j] = q[n + j] /\ n + j \in 1..Len(q)
    <3>1. n \in Nat /\ n + 1 \in 1..(Len(q) + 1) /\ Len(q) <= Len(q)
      BY <1>2
    <3> QED
      BY <1>2, <3>1, SubSeqProperties
  <2> HIDE DEF r
  <2>2. \A i, j \in 1..Len(r) : r[i] = r[j] => i = j
    BY <1>2, <1>3, <2>1
  <2>3. ASSUME NEW i \in Tasks, v.tasks[i].state = "queued", v.tasks[i].pool = k
        PROVE  \E j \in 1..Len(r) : r[j] = i
    <3>1. i \notin S /\ w.tasks[i].state = "queued" /\ w.tasks[i].pool = k
      BY <1>7, <2>3
    <3>2. PICK j \in 1..Len(q) : q[j] = i
      BY <1>4, <3>1
    <3>3. j > n
      BY <1>2, <3>1, <3>2
    <3>4. j - n \in 1..Len(r) /\ n + (j - n) = j
      BY <1>2, <2>1, <3>3
    <3> QED
      BY <2>1, <3>2, <3>4
  <2>4. ASSUME NEW i \in Tasks, NEW j \in 1..Len(r), r[j] = i
        PROVE  v.tasks[i].state = "queued" /\ v.tasks[i].pool = k
    <3>1. q[n + j] = i /\ n + j \in 1..Len(q)
      BY <2>1, <2>4
    <3>2. i \notin S
      BY <1>2, <1>3, <3>1, SMTT(40)
    <3> QED
      BY <1>4, <1>7, <3>1, <3>2
  <2>5. v.pools[k].queue = r
    BY <1>8 DEF r
  <2> QED
    BY <2>2, <2>3, <2>4, <2>5 DEF QueueExact
<1>11. RunningExact(v, k)
  <2> DEFINE A == RunningIn(w, k)
             B == RunningIn(v, k)
  <2>1. B = A \cup S /\ A \cap S = {}
    BY <1>5, <1>7 DEF RunningIn, TasksOf
  <2>2. IsFiniteSet(A) /\ w.pools[k].running = Cardinality(A)
    <3>1. A \subseteq Tasks
      BY DEF RunningIn, TasksOf
    <3> QED
      BY <3>1, TasksFinite, FS_Subset DEF PoolExact, RunningExact, RunningIn
  <2> HIDE DEF A, B, S
  <2>3. A \cap S = {} => Cardinality(A \cup S) = Cardinality(A) + Cardinality(S)
    <3>1. Cardinality(A \cup S) = Cardinality(A) + Cardinality(S) - Cardinality(A \cap S)
      BY <1>6, <2>2, FS_Union
    <3>2. A \cap S = {} => Cardinality(A \cap S) = 0
      BY FS_EmptySet
    <3>3. Cardinality(A) \in Nat /\ Cardinality(S) \in Nat
      BY <1>6, <2>2, FS_CardinalityType
    <3> QED
      BY <3>1, <3>2, <3>3
  <2>4. Cardinality(B) = w.pools[k].running + n
    BY <1>6, <2>1, <2>2, <2>3
  <2> QED
    BY <1>8, <2>4 DEF RunningExact, B, RunningIn
<1>12. ASSUME NEW l \in Pools, l # k
       PROVE  QueueExact(v, l) /\ RunningExact(v, l) /\ NoIdleThread(v, l)
  <2>1. v.pools[l] = w.pools[l]
    BY <1>8, <1>12
  <2>2. \A i \in Tasks : w.tasks[i].pool = l => v.tasks[i].state = w.tasks[i].state
    BY <1>5, <1>7, <1>12
  <2>3. QueueExact(v, l)
    <3>1. \A i \in Tasks : (w.tasks[i].state = "queued" /\ w.tasks[i].pool = l)
                             <=> (v.tasks[i].state = "queued" /\ v.tasks[i].pool = l)
      BY <1>7, <2>2
    <3> QED
      BY <2>1, <3>1 DEF PoolExact, QueueExact
  <2>4. TasksOf(v, l) = TasksOf(w, l) /\ RunningIn(v, l) = RunningIn(w, l)
    BY <1>7, <2>2 DEF RunningIn, TasksOf
  <2>5. RunningExact(v, l)
    BY <2>1, <2>4 DEF PoolExact, RunningExact, RunningIn
  <2>6. NoIdleThread(v, l)
    <3>1. \A i \in TasksOf(w, l) : v.tasks[i].state = w.tasks[i].state
      BY <2>2 DEF TasksOf
    <3>2. NoIdleThread(w, l)
      BY <1>12
    <3> QED
      BY <2>1, <2>4, <3>1, <3>2 DEF NoIdleThread
  <2> QED
    BY <2>3, <2>5, <2>6
<1>13. NoIdleThread(v, k)
  <2>1. v.pools[k].queue # <<>> => n < Len(q)
    <3> SUFFICES ASSUME ~(n < Len(q)) PROVE SubSeq(q, n + 1, Len(q)) = <<>>
      BY <1>8
    <3> QED
      BY <1>2, SubSeqProperties
  <2> QED
    BY <1>2, <1>8, <2>1 DEF NoIdleThread
<1>14. WorkersTyped(v)
  BY <1>1 DEF Starts
<1> QED
  BY <1>9, <1>10, <1>11, <1>12, <1>13, <1>14 DEF WorkersOK, PoolExact, v

\* The task i of pool l is in the state x.
In(w, i, l, x) == w.tasks[i].state = x /\ w.tasks[i].pool = l

\* The pool l has the same tasks, but for those that are done.
SamePool(w, v, l) ==
    /\ v.pools[l] = w.pools[l]
    /\ \A i \in Tasks, x \in {"queued", "running", "left"} : In(v, i, l, x) <=> In(w, i, l, x)

LEMMA SamePoolKeeps ==
    ASSUME NEW w, NEW v, NEW l, SamePool(w, v, l)
    PROVE  /\ PoolExact(w, l) => PoolExact(v, l)
           /\ NoIdleThread(w, l) => NoIdleThread(v, l)
<1>1. v.pools[l] = w.pools[l]
  BY DEF SamePool
<1>2. \A i \in Tasks : /\ In(v, i, l, "queued") <=> In(w, i, l, "queued")
                       /\ In(v, i, l, "running") <=> In(w, i, l, "running")
                       /\ In(v, i, l, "left") <=> In(w, i, l, "left")
  BY DEF SamePool
<1>3. QueueExact(w, l) => QueueExact(v, l)
  BY <1>1, <1>2 DEF QueueExact, In
<1>4. RunningIn(v, l) = RunningIn(w, l)
  BY <1>2 DEF RunningIn, TasksOf, In
<1>5. RunningExact(w, l) => RunningExact(v, l)
  BY <1>1, <1>4 DEF RunningExact, RunningIn
<1>6. NoIdleThread(w, l) => NoIdleThread(v, l)
  <2>1. \A i : i \in TasksOf(w, l) /\ w.tasks[i].state = "left"
                 => i \in TasksOf(v, l) /\ v.tasks[i].state = "left"
    BY <1>2 DEF TasksOf, In
  <2> QED
    BY <1>1, <2>1 DEF NoIdleThread
<1> QED
  BY <1>3, <1>5, <1>6 DEF PoolExact

TaskBecomes(w, v, i, r) == v = [w EXCEPT !.tasks[i] = r]

LEMMA TaskChanges ==
    ASSUME NEW w, WorkersTyped(w), NEW i \in Tasks, NEW r \in TaskType, r.state # "none" => r.pool \in Pools,
           NEW v, TaskBecomes(w, v, i, r)
    PROVE  /\ WorkersTyped(v) /\ v.pools = w.pools /\ v.tasks[i] = r
           /\ \A j \in Tasks \ {i} : v.tasks[j] = w.tasks[j]
<1>1. w \in [tasks : [Tasks -> TaskType], pools : [Pools -> PoolType]]
  BY DEF WorkersTyped
<1>2. /\ v \in [tasks : [Tasks -> TaskType], pools : [Pools -> PoolType]] /\ v.pools = w.pools
      /\ v.tasks = [w.tasks EXCEPT ![i] = r]
  BY <1>1 DEF TaskBecomes
<1>3. v.tasks[i] = r /\ \A j \in Tasks \ {i} : v.tasks[j] = w.tasks[j]
  BY <1>1, <1>2
<1>4. \A j \in Tasks : v.tasks[j].state # "none" => v.tasks[j].pool \in Pools
  BY <1>3 DEF WorkersTyped
<1> QED
  BY <1>2, <1>3, <1>4 DEF WorkersTyped

\* The task of a compilation that was resolved goes.
LEMMA ClearKeeps ==
    ASSUME NEW w, WorkersOK(w), NEW i \in Tasks, w.tasks[i].state \in {"none", "done"}
    PROVE  LET v == [w EXCEPT !.tasks[i] = NoTask]
           IN  /\ WorkersOK(v) /\ v.pools = w.pools /\ v.tasks[i] = NoTask
               /\ \A j \in Tasks \ {i} : v.tasks[j] = w.tasks[j]
<1> DEFINE v == [w EXCEPT !.tasks[i] = NoTask]
<1>1. NoTask \in TaskType /\ NoTask.state = "none"
  BY DEF NoTask, TaskType
<1>2. /\ WorkersTyped(v) /\ v.pools = w.pools /\ v.tasks[i] = NoTask
      /\ \A j \in Tasks \ {i} : v.tasks[j] = w.tasks[j]
  <2>1. TaskBecomes(w, v, i, NoTask) /\ WorkersTyped(w)
    BY DEF TaskBecomes, WorkersOK
  <2> HIDE DEF v
  <2> QED
    BY <1>1, <2>1, TaskChanges
<1> HIDE DEF v
<1>3. \A l \in Pools : SamePool(w, v, l)
  BY <1>1, <1>2 DEF SamePool, In
<1>4. WorkersOK(v)
  BY <1>2, <1>3, SamePoolKeeps DEF WorkersOK
<1> QED
  BY <1>2, <1>4 DEF v

\* Other tasks may have been started.
AdvancedBut(w, v, i) ==
    \A j \in Tasks \ {i} : /\ v.tasks[j].pool = w.tasks[j].pool
                           /\ \/ v.tasks[j].state = w.tasks[j].state
                              \/ w.tasks[j].state = "queued" /\ v.tasks[j].state = "running"

LEMMA PostKeeps ==
    ASSUME NEW w, WorkersOK(w), NEW i \in Tasks, w.tasks[i].state = "none", NEW k \in Pools
    PROVE  LET v == PostWorkerTask(w, k, i)
           IN  /\ WorkersOK(v) /\ AdvancedBut(w, v, i)
               /\ v.tasks[i].state \in IF w.pools[k].async THEN {"queued", "running"} ELSE {"done"}
<1> DEFINE v == PostWorkerTask(w, k, i)
<1>1. CASE ~w.pools[k].async
  <2> DEFINE r == [state |-> "done", pool |-> k]
  <2>1. r \in TaskType /\ r.state = "done" /\ r.pool = k
    BY DEF TaskType
  <2>2. v = [w EXCEPT !.tasks[i] = r]
    BY <1>1 DEF PostWorkerTask
  <2> HIDE DEF r
  <2>3. /\ WorkersTyped(v) /\ v.pools = w.pools /\ v.tasks[i] = r
        /\ \A j \in Tasks \ {i} : v.tasks[j] = w.tasks[j]
    <3>1. TaskBecomes(w, v, i, r) /\ WorkersTyped(w)
      BY <2>2 DEF TaskBecomes, WorkersOK
    <3> HIDE DEF v
    <3> QED
      BY <2>1, <3>1, TaskChanges
  <2> HIDE DEF v
  <2>4. \A l \in Pools : SamePool(w, v, l)
    BY <2>1, <2>3 DEF SamePool, In
  <2>5. WorkersOK(v) /\ AdvancedBut(w, v, i)
    BY <2>3, <2>4, SamePoolKeeps DEF WorkersOK, AdvancedBut
  <2> QED
    BY <1>1, <2>1, <2>3, <2>5 DEF v
<1>2. CASE w.pools[k].async
  <2> DEFINE r == [state |-> "queued", pool |-> k]
             t == [w EXCEPT !.tasks[i] = r]
             s == Append(w.pools[k].queue, i)
             u == [t EXCEPT !.pools[k].queue = s]
  <2>1. r \in TaskType /\ r.state = "queued" /\ r.pool = k
    BY DEF TaskType
  <2>2. v = CheckToRunPendingTasks(u, k)
    BY <1>2 DEF PostWorkerTask
  <2> HIDE DEF r
  <2>3. /\ WorkersTyped(t) /\ t.pools = w.pools /\ t.tasks[i] = r
        /\ \A j \in Tasks \ {i} : t.tasks[j] = w.tasks[j]
    <3>1. TaskBecomes(w, t, i, r) /\ WorkersTyped(w)
      BY DEF TaskBecomes, WorkersOK
    <3> HIDE DEF t
    <3> QED
      BY <2>1, <3>1, TaskChanges
  <2> HIDE DEF t
  <2> DEFINE q == w.pools[k].queue
  <2>4. /\ q \in Seq(Tasks) /\ Len(q) \in Nat /\ s \in Seq(Tasks) /\ Len(s) = Len(q) + 1 /\ s[Len(q) + 1] = i
        /\ \A j \in 1..Len(q) : s[j] = q[j]
    BY PoolParts, SMTT(40) DEF WorkersOK
  <2> HIDE DEF s
  <2>5. /\ WorkersTyped(u) /\ u.tasks = t.tasks /\ \A l \in Pools \ {k} : u.pools[l] = w.pools[l]
        /\ u.pools[k] = [w.pools[k] EXCEPT !.queue = s]
    <3>1. t \in [tasks : [Tasks -> TaskType], pools : [Pools -> PoolType]]
      BY <2>3 DEF WorkersTyped
    <3>2. /\ u.tasks = t.tasks /\ u.pools = [t.pools EXCEPT ![k] = [t.pools[k] EXCEPT !.queue = s]]
          /\ u = [tasks |-> u.tasks, pools |-> u.pools]
      BY <3>1
    <3>3. [t.pools[k] EXCEPT !.queue = s] \in PoolType
      BY <2>4, <3>1, ZenonT(60) DEF PoolType
    <3> HIDE DEF u
    <3>4. u.pools \in [Pools -> PoolType]
      BY <3>1, <3>2, <3>3
    <3> QED
      BY <2>3, <3>1, <3>2, <3>4 DEF WorkersTyped
  <2> HIDE DEF u
  <2>6. u.pools[k].queue = s /\ u.pools[k].running = w.pools[k].running
    <3>1. w.pools[k] \in PoolType
      BY DEF WorkersOK, WorkersTyped
    <3> QED
      BY <2>5, <3>1 DEF PoolType
  <2>7. \A j \in Tasks : u.tasks[j] = IF j = i THEN r ELSE w.tasks[j]
    BY <2>3, <2>5
  <2>8. \A l \in Pools \ {k} : SamePool(w, u, l)
    BY <2>1, <2>5, <2>7 DEF SamePool, In
  <2>9. QueueExact(u, k)
    <3>1. /\ \A a, b \in 1..Len(q) : q[a] = q[b] => a = b
          /\ \A j \in Tasks : (w.tasks[j].state = "queued" /\ w.tasks[j].pool = k)
                                <=> \E a \in 1..Len(q) : q[a] = j
      BY DEF WorkersOK, PoolExact, QueueExact
    <3>2. \A a \in 1..Len(q) : q[a] # i
      BY <3>1
    <3>3. ASSUME NEW a \in 1..Len(s), NEW b \in 1..Len(s), s[a] = s[b] PROVE a = b
      <4>1. \A x \in 1..Len(s) : x \in 1..Len(q) \/ x = Len(q) + 1
        BY <2>4
      <4> QED
        BY <2>4, <3>1, <3>2, <3>3, <4>1, SMTT(40)
    <3>4. ASSUME NEW j \in Tasks
          PROVE  (u.tasks[j].state = "queued" /\ u.tasks[j].pool = k) <=> \E a \in 1..Len(s) : s[a] = j
      <4>1. CASE j = i
        <5>1. Len(q) + 1 \in 1..Len(s)
          BY <2>4
        <5> QED
          BY <2>1, <2>4, <2>7, <4>1, <5>1
      <4>2. CASE j # i
        <5>1. (\E a \in 1..Len(s) : s[a] = j) <=> \E a \in 1..Len(q) : q[a] = j
          <6>1. \A a \in 1..Len(s) : s[a] = j => a \in 1..Len(q) /\ s[a] = q[a]
            BY <2>4, <4>2, SMTT(40)
          <6>2. \A a \in 1..Len(q) : a \in 1..Len(s) /\ s[a] = q[a]
            BY <2>4
          <6> QED
            BY <6>1, <6>2
        <5> QED
          BY <2>7, <3>1, <4>2, <5>1
      <4> QED
        BY <4>1, <4>2
    <3> QED
      BY <2>6, <3>3, <3>4 DEF QueueExact
  <2>10. RunningExact(u, k)
    <3>1. RunningIn(u, k) = RunningIn(w, k)
      BY <2>1, <2>7 DEF RunningIn, TasksOf
    <3> QED
      BY <2>6, <3>1 DEF RunningExact, RunningIn, WorkersOK, PoolExact
  <2>11. WorkersOK(v) /\ Advanced(u, v)
    <3>1. /\ \A l \in Pools : PoolExact(u, l)
          /\ \A l \in Pools \ {k} : NoIdleThread(u, l)
      BY <2>8, <2>9, <2>10, SamePoolKeeps DEF WorkersOK, PoolExact
    <3> QED
      BY <2>2, <2>5, <3>1, CheckRuns
  <2> HIDE DEF v
  <2>12. AdvancedBut(w, v, i)
    BY <2>7, <2>11 DEF Advanced, AdvancedBut
  <2>13. v.tasks[i].state \in {"queued", "running"}
    BY <2>1, <2>7, <2>11 DEF Advanced
  <2> QED
    BY <1>2, <2>11, <2>12, <2>13 DEF v
<1> QED
  BY <1>1, <1>2

\* One pool changes, and no task.
PoolBecomes(w, v, k, x) == v = [w EXCEPT !.pools[k] = x]

LEMMA PoolChanges ==
    ASSUME NEW w, WorkersTyped(w), NEW k \in Pools, NEW x \in PoolType, NEW v, PoolBecomes(w, v, k, x)
    PROVE  /\ WorkersTyped(v) /\ v.tasks = w.tasks /\ v.pools[k] = x
           /\ \A l \in Pools \ {k} : v.pools[l] = w.pools[l]
<1>1. w \in [tasks : [Tasks -> TaskType], pools : [Pools -> PoolType]]
  BY DEF WorkersTyped
<1>2. /\ v \in [tasks : [Tasks -> TaskType], pools : [Pools -> PoolType]] /\ v.tasks = w.tasks
      /\ v.pools = [w.pools EXCEPT ![k] = x]
  BY <1>1 DEF PoolBecomes
<1>3. v.pools[k] = x /\ \A l \in Pools \ {k} : v.pools[l] = w.pools[l]
  BY <1>1, <1>2
<1> QED
  BY <1>2, <1>3 DEF WorkersTyped

LEMMA SameQueue ==
    ASSUME NEW w, NEW v, NEW k, QueueExact(w, k), v.pools[k].queue = w.pools[k].queue,
           \A i \in Tasks : In(v, i, k, "queued") <=> In(w, i, k, "queued")
    PROVE  QueueExact(v, k)
<1> DEFINE q == w.pools[k].queue
<1>1. /\ \A i, j \in 1..Len(q) : q[i] = q[j] => i = j
      /\ \A i \in Tasks : In(w, i, k, "queued") <=> \E j \in 1..Len(q) : q[j] = i
  BY DEF QueueExact, In
<1>2. v.pools[k].queue = q
  OBVIOUS
<1> HIDE DEF q
<1>3. \A i \in Tasks : In(v, i, k, "queued") <=> \E j \in 1..Len(q) : q[j] = i
  BY <1>1
<1> QED
  BY <1>1, <1>2, <1>3 DEF QueueExact, In

\* A pool with the same tasks has another limit.
LEMMA LimitKeeps ==
    ASSUME NEW w, WorkersOK(w), NEW k \in Pools, NEW m \in Int
    PROVE  LET v == CheckToRunPendingTasks([w EXCEPT !.pools[k].max = m], k)
           IN  WorkersOK(v) /\ Advanced(w, v)
<1> DEFINE u == [w EXCEPT !.pools[k].max = m]
           x == [w.pools[k] EXCEPT !.max = m]
<1>1. w \in [tasks : [Tasks -> TaskType], pools : [Pools -> PoolType]] /\ WorkersTyped(w)
  BY DEF WorkersOK, WorkersTyped
<1>2. /\ x \in PoolType /\ x.queue = w.pools[k].queue /\ x.running = w.pools[k].running
      /\ PoolBecomes(w, u, k, x)
  BY <1>1 DEF PoolType, PoolBecomes
<1> HIDE DEF u, x
<1>3. /\ WorkersTyped(u) /\ u.tasks = w.tasks /\ u.pools[k] = x
      /\ \A l \in Pools \ {k} : u.pools[l] = w.pools[l]
  BY <1>1, <1>2, PoolChanges
<1>4. \A l \in Pools \ {k} : SamePool(w, u, l)
  BY <1>3 DEF SamePool, In
<1>5. PoolExact(u, k)
  <2>1. QueueExact(u, k)
    BY <1>2, <1>3, SameQueue DEF WorkersOK, PoolExact, In
  <2>2. TasksOf(u, k) = TasksOf(w, k)
    BY <1>3 DEF TasksOf
  <2>3. RunningExact(u, k)
    BY <1>2, <1>3, <2>2 DEF WorkersOK, PoolExact, RunningExact
  <2> QED
    BY <2>1, <2>3 DEF PoolExact
<1>6. (\A l \in Pools : PoolExact(u, l)) /\ \A l \in Pools \ {k} : NoIdleThread(u, l)
  BY <1>4, <1>5, SamePoolKeeps DEF WorkersOK
<1>7. WorkersOK(CheckToRunPendingTasks(u, k)) /\ Advanced(u, CheckToRunPendingTasks(u, k))
  BY <1>3, <1>6, CheckRuns
<1> QED
  BY <1>3, <1>7 DEF u, Advanced

LEMMA SetMaxKeeps ==
    ASSUME NEW w, WorkersOK(w), NEW k \in Pools, NEW n \in Int
    PROVE  WorkersOK(SetMaxThreads(w, k, n)) /\ Advanced(w, SetMaxThreads(w, k, n))
<1> DEFINE m == IF n = AllThreads THEN HardwareThreads ELSE n
<1>1. m \in Int
  BY WorkerAssumption
<1>2. CASE w.pools[k].async
  <2>1. SetMaxThreads(w, k, n) = CheckToRunPendingTasks([w EXCEPT !.pools[k].max = m], k)
    BY <1>2 DEF SetMaxThreads
  <2> HIDE DEF m
  <2> QED
    BY <1>1, <2>1, LimitKeeps
<1>3. CASE ~w.pools[k].async
  BY <1>3 DEF SetMaxThreads, Advanced
<1> QED
  BY <1>2, <1>3

\* The closure of the task i has run.
LEMMA LeftKeeps ==
    ASSUME NEW w, WorkersOK(w), NEW i \in Tasks, w.tasks[i].state = "running"
    PROVE  LET v == Left(w, i)
           IN  /\ WorkersOK(v) /\ v.tasks[i].state = "left" /\ v.tasks[i].pool = w.tasks[i].pool
               /\ \A j \in Tasks \ {i} : v.tasks[j] = w.tasks[j]
<1> DEFINE v == Left(w, i)
           r == [w.tasks[i] EXCEPT !.state = "left"]
           t == [w EXCEPT !.tasks[i] = r]
           k == w.tasks[i].pool
           x == [w.pools[k] EXCEPT !.running = @ - 1]
<1>1. /\ w \in [tasks : [Tasks -> TaskType], pools : [Pools -> PoolType]] /\ WorkersTyped(w)
      /\ k \in Pools
  BY DEF WorkersOK, WorkersTyped
<1>2. RunningIn(w, k) \subseteq Tasks /\ i \in RunningIn(w, k) /\ w.pools[k].running = Cardinality(RunningIn(w, k))
  BY <1>1 DEF RunningIn, TasksOf, WorkersOK, PoolExact, RunningExact
<1>3. Cardinality(RunningIn(w, k) \ {i}) = w.pools[k].running - 1 /\ w.pools[k].running - 1 \in Nat
  <2>1. IsFiniteSet(RunningIn(w, k))
    BY <1>2, TasksFinite, FS_Subset
  <2>2. Cardinality(RunningIn(w, k) \ {i}) = Cardinality(RunningIn(w, k)) - 1
    BY <1>2, <2>1, FS_RemoveElement
  <2>3. Cardinality(RunningIn(w, k) \ {i}) \in Nat
    BY <2>1, FS_RemoveElement, FS_CardinalityType
  <2> QED
    BY <1>2, <2>2, <2>3
<1>4. r \in TaskType /\ r.state = "left" /\ r.pool = k
  BY <1>1 DEF TaskType
<1>5. x \in PoolType /\ x.queue = w.pools[k].queue /\ x.running = w.pools[k].running - 1 /\ x.max = w.pools[k].max
  <2>1. w.pools[k] \in PoolType
    BY <1>1
  <2> QED
    BY <1>3, <2>1 DEF PoolType
<1>6. PoolBecomes(t, v, k, x)
  BY <1>1 DEF PoolBecomes, Left
<1>7. TaskBecomes(w, t, i, r)
  BY DEF TaskBecomes
<1> HIDE DEF v, t, r, x
<1>8. /\ WorkersTyped(t) /\ t.pools = w.pools /\ t.tasks[i] = r /\ \A j \in Tasks \ {i} : t.tasks[j] = w.tasks[j]
  BY <1>1, <1>4, <1>7, TaskChanges
<1>9. /\ WorkersTyped(v) /\ v.tasks = t.tasks /\ v.pools[k] = x
      /\ \A l \in Pools \ {k} : v.pools[l] = t.pools[l]
  BY <1>1, <1>5, <1>6, <1>8, PoolChanges
<1>10. \A j \in Tasks : v.tasks[j] = IF j = i THEN r ELSE w.tasks[j]
  BY <1>8, <1>9
<1>11. ASSUME NEW l \in Pools, l # k
       PROVE  PoolExact(v, l) /\ NoIdleThread(v, l)
  <2>1. SamePool(w, v, l)
    BY <1>4, <1>8, <1>9, <1>10, <1>11 DEF SamePool, In
  <2> QED
    BY <2>1, SamePoolKeeps DEF WorkersOK
<1>12. QueueExact(v, k)
  <2>1. \A j \in Tasks : In(v, j, k, "queued") <=> In(w, j, k, "queued")
    BY <1>4, <1>10 DEF In
  <2>2. v.pools[k].queue = w.pools[k].queue /\ QueueExact(w, k)
    BY <1>1, <1>5, <1>9 DEF WorkersOK, PoolExact
  <2> QED
    BY <2>1, <2>2, SameQueue
<1>13. RunningExact(v, k)
  <2>1. RunningIn(v, k) = RunningIn(w, k) \ {i}
    BY <1>4, <1>10 DEF RunningIn, TasksOf
  <2> QED
    BY <1>3, <1>5, <1>9, <2>1 DEF RunningExact, RunningIn
<1>14. NoIdleThread(v, k)
  BY <1>4, <1>10 DEF NoIdleThread, TasksOf
<1>15. WorkersOK(v)
  BY <1>9, <1>11, <1>12, <1>13, <1>14 DEF WorkersOK, PoolExact
<1> QED
  BY <1>4, <1>10, <1>15 DEF v

\* The thread of the task i has looked for pending tasks.
LEMMA DoneKeeps ==
    ASSUME NEW w, WorkersOK(w), NEW i \in Tasks, w.tasks[i].state = "left"
    PROVE  LET v == Done(w, i)
           IN  /\ WorkersOK(v) /\ v.tasks[i].state = "done" /\ v.tasks[i].pool = w.tasks[i].pool
               /\ AdvancedBut(w, v, i)
<1> DEFINE v == Done(w, i)
           r == [w.tasks[i] EXCEPT !.state = "done"]
           t == [w EXCEPT !.tasks[i] = r]
           k == w.tasks[i].pool
<1>1. /\ w \in [tasks : [Tasks -> TaskType], pools : [Pools -> PoolType]] /\ WorkersTyped(w)
      /\ k \in Pools
  BY DEF WorkersOK, WorkersTyped
<1>2. r \in TaskType /\ r.state = "done" /\ r.pool = k
  BY <1>1 DEF TaskType
<1>3. v = CheckToRunPendingTasks(t, k) /\ TaskBecomes(w, t, i, r)
  BY <1>1 DEF Done, TaskBecomes
<1> HIDE DEF v, t, r
<1>4. /\ WorkersTyped(t) /\ t.pools = w.pools /\ t.tasks[i] = r /\ \A j \in Tasks \ {i} : t.tasks[j] = w.tasks[j]
  BY <1>1, <1>2, <1>3, TaskChanges
<1>5. \A l \in Pools \ {k} : SamePool(w, t, l)
  BY <1>2, <1>4 DEF SamePool, In
<1>6. PoolExact(t, k)
  <2>1. QueueExact(t, k)
    <3>1. \A j \in Tasks : In(t, j, k, "queued") <=> In(w, j, k, "queued")
      BY <1>2, <1>4 DEF In
    <3>2. t.pools[k].queue = w.pools[k].queue /\ QueueExact(w, k)
      BY <1>1, <1>4 DEF WorkersOK, PoolExact
    <3> QED
      BY <3>1, <3>2, SameQueue
  <2>2. RunningIn(t, k) = RunningIn(w, k)
    BY <1>2, <1>4 DEF RunningIn, TasksOf
  <2>3. RunningExact(t, k)
    BY <1>1, <1>4, <2>2 DEF WorkersOK, PoolExact, RunningExact, RunningIn
  <2> QED
    BY <2>1, <2>3 DEF PoolExact
<1>7. (\A l \in Pools : PoolExact(t, l)) /\ \A l \in Pools \ {k} : NoIdleThread(t, l)
  BY <1>5, <1>6, SamePoolKeeps DEF WorkersOK
<1>8. WorkersOK(v) /\ Advanced(t, v)
  BY <1>1, <1>3, <1>4, <1>7, CheckRuns
<1>9. v.tasks[i].state = "done" /\ v.tasks[i].pool = k
  BY <1>2, <1>4, <1>8 DEF Advanced
<1>10. AdvancedBut(w, v, i)
  BY <1>4, <1>8 DEF Advanced, AdvancedBut
<1> QED
  BY <1>8, <1>9, <1>10 DEF v

\* Pools without tasks are replaced.
PoolsReset(w, v) ==
    /\ v = [tasks |-> w.tasks, pools |-> [k \in Pools |-> v.pools[k]]]
    /\ \A k \in Pools : \/ v.pools[k] = w.pools[k]
                        \/ TasksOf(w, k) = {} /\ v.pools[k] \in {NewPool(TRUE), NewPool(FALSE)}

LEMMA ResetKeeps ==
    ASSUME NEW w, WorkersOK(w), NEW v, PoolsReset(w, v)
    PROVE  WorkersOK(v) /\ v.tasks = w.tasks
<1>1. w \in [tasks : [Tasks -> TaskType], pools : [Pools -> PoolType]]
  BY DEF WorkersOK, WorkersTyped
<1>2. \A b \in {TRUE, FALSE} : /\ NewPool(b) \in PoolType /\ NewPool(b).queue = <<>> /\ NewPool(b).running = 0
  <2>1. HardwareThreads \in Int /\ <<>> \in Seq(Tasks)
    BY WorkerAssumption
  <2> QED
    BY <2>1 DEF NewPool, PoolType
<1>3. v.tasks = w.tasks /\ v.pools = [k \in Pools |-> v.pools[k]]
      /\ v = [tasks |-> w.tasks, pools |-> v.pools]
  BY DEF PoolsReset
<1>4. \A k \in Pools : v.pools[k] \in PoolType
  BY <1>1, <1>2 DEF PoolsReset
<1>5. v.pools \in [Pools -> PoolType]
  BY <1>3, <1>4
<1>6. WorkersTyped(v)
  BY <1>1, <1>3, <1>5 DEF WorkersOK, WorkersTyped
<1>7. ASSUME NEW k \in Pools
      PROVE  PoolExact(v, k) /\ NoIdleThread(v, k)
  <2>1. CASE v.pools[k] = w.pools[k]
    <3>1. SamePool(w, v, k)
      BY <1>3, <2>1 DEF SamePool, In
    <3> QED
      BY <3>1, SamePoolKeeps DEF WorkersOK
  <2>2. CASE TasksOf(w, k) = {} /\ v.pools[k] \in {NewPool(TRUE), NewPool(FALSE)}
    <3>1. v.pools[k].queue = <<>> /\ v.pools[k].running = 0 /\ TasksOf(v, k) = {}
      BY <1>2, <1>3, <2>2 DEF TasksOf
    <3>2. \A i \in Tasks : ~(v.tasks[i].state = "queued" /\ v.tasks[i].pool = k)
      BY <3>1 DEF TasksOf
    <3>3. Len(v.pools[k].queue) = 0
      BY <3>1
    <3>4. QueueExact(v, k)
      BY <3>2, <3>3 DEF QueueExact
    <3>5. RunningExact(v, k)
      <4>1. {i \in TasksOf(v, k) : v.tasks[i].state = "running"} = {}
        BY <3>1
      <4> QED
        BY <3>1, <4>1, FS_EmptySet DEF RunningExact
    <3> QED
      BY <3>1, <3>4, <3>5 DEF NoIdleThread, PoolExact
  <2> QED
    BY <2>1, <2>2 DEF PoolsReset
<1> QED
  BY <1>3, <1>6, <1>7 DEF WorkersOK

-----------------------------------------------------------------------------
(* The translators and what they are lent for.                             *)

CompilerIds == Compilers \cup {0}

Compilable(s) ==
    s \in [exists : {TRUE}, type : Types, source : {s.source}, refs : {s.refs}, flagged : {s.flagged},
           status : {s.status}, translator : {s.translator}, compiler : CompilerIds,
           asked : {s.asked}, translated : {s.translated}]

Made(x) == x \in [maker : CompilerIds, holds : {x.holds}]

CompShape(p) ==
    /\ Fields(p)
    /\ p.shader = [n \in Names |-> p.shader[n]]
    /\ \A n \in Names : p.shader[n] = NoShader \/ Compilable(p.shader[n])
    /\ p.compilerOf \in [Contexts -> CompilerIds] /\ p.poolOf \in [Contexts -> Pools \cup {0}]
    /\ p.idle \in [Compilers -> [Types -> Seq(Translators)]]
    /\ p.translator = [i \in Translators |-> p.translator[i]]
    /\ \A i \in Translators : Made(p.translator[i])
    /\ p.job = [i \in Tasks |-> p.job[i]]

Pending(p) == {n \in Names : CompilePending(p, n)}

Slots(p, k, t) == 1..Len(p.idle[k][t])

IdleMade(p) ==
    \A k \in Compilers, t \in Types : \A j \in Slots(p, k, t) : p.translator[p.idle[k][t][j]].maker = k

IdleOnce(p) ==
    \A k \in Compilers, t \in Types, u \in Types : \A i \in Slots(p, k, t), j \in Slots(p, k, u) :
        p.idle[k][t][i] = p.idle[k][u][j] => t = u /\ i = j

\* The shaders in B have a translator each.
LentMade(p, B) ==
    \A n \in B : /\ p.shader[n].translator \in Translators /\ p.shader[n].compiler \in Compilers
                 /\ p.translator[p.shader[n].translator].maker = p.shader[n].compiler

LentOnce(p, B) ==
    \A m, n \in B : p.shader[m].translator = p.shader[n].translator => m = n

IdleNotLent(p, B) ==
    \A n \in B, k \in Compilers, t \in Types : \A j \in Slots(p, k, t) :
        p.idle[k][t][j] # p.shader[n].translator

IdleAt(p, i, k) == \E t \in Types : \E j \in Slots(p, k, t) : p.idle[k][t][j] = i

NoneLost(p, B) ==
    \A i \in Translators : p.translator[i].maker # 0 =>
        (\E n \in B : p.shader[n].translator = i) \/ IdleAt(p, i, p.translator[i].maker)

Lending(p, B) ==
    /\ IdleMade(p) /\ IdleOnce(p) /\ LentMade(p, B) /\ LentOnce(p, B)
    /\ IdleNotLent(p, B) /\ NoneLost(p, B)

\* Compilers nobody refers to keep no translators.
UnusedEmpty(p) == \A k \in Compilers \ CompilersInUse(p) : \A t \in Types : p.idle[k][t] = <<>>

-----------------------------------------------------------------------------
(* DropCompilers. *)

IdleUnused(p, i) == \E k \in Compilers \ CompilersInUse(p) : IdleAt(p, i, k)

DroppedTo(p, q) ==
    /\ CompShape(q) /\ q.shader = p.shader /\ q.compilerOf = p.compilerOf /\ q.poolOf = p.poolOf
    /\ q.workers = p.workers /\ q.job = p.job /\ q.waits = p.waits
    /\ \A k \in Compilers, t \in Types :
         q.idle[k][t] = IF k \in CompilersInUse(p) THEN p.idle[k][t] ELSE <<>>
    /\ \A i \in Translators :
         q.translator[i] = IF IdleUnused(p, i) THEN NoTranslator ELSE p.translator[i]

LEMMA NoTranslatorMade == Made(NoTranslator) /\ NoTranslator.maker = 0
  BY DEF Made, NoTranslator, CompilerIds

LEMMA DropEffect ==
    ASSUME NEW p, CompShape(p)
    PROVE  DroppedTo(p, DropCompilers(p))
<1> DEFINE q == DropCompilers(p)
           dead == {k \in Compilers : k \notin CompilersInUse(p)}
           gone == {i \in Translators : \E k \in dead, t \in Types : i \in Range(p.idle[k][t])}
           d == [k \in Compilers |-> IF k \in dead THEN NoneIdle ELSE p.idle[k]]
           e == [i \in Translators |-> IF i \in gone THEN NoTranslator ELSE p.translator[i]]
<1>1. q = [p EXCEPT !.idle = d, !.translator = e]
  BY DEF DropCompilers, CompShape, Fields
<1>2. /\ p.idle \in [Compilers -> [Types -> Seq(Translators)]]
      /\ p.translator = [i \in Translators |-> p.translator[i]]
      /\ \A i \in Translators : Made(p.translator[i])
  BY DEF CompShape
<1>3. \A k \in Compilers, t \in Types : Range(p.idle[k][t]) = {p.idle[k][t][j] : j \in Slots(p, k, t)}
  BY <1>2 DEF Range, Slots
<1>4. \A i \in Translators : i \in gone <=> IdleUnused(p, i)
  BY <1>3 DEF IdleUnused, IdleAt
<1>5. NoneIdle \in [Types -> Seq(Translators)] /\ \A t \in Types : NoneIdle[t] = <<>>
  BY DEF NoneIdle
<1> HIDE DEF gone, NoneIdle
<1>6. /\ d \in [Compilers -> [Types -> Seq(Translators)]]
      /\ \A k \in Compilers, t \in Types :
           d[k][t] = IF k \in CompilersInUse(p) THEN p.idle[k][t] ELSE <<>>
  BY <1>2, <1>5
<1>7. /\ e = [i \in Translators |-> e[i]] /\ \A i \in Translators : Made(e[i])
      /\ \A i \in Translators : e[i] = IF IdleUnused(p, i) THEN NoTranslator ELSE p.translator[i]
  BY <1>2, <1>4, NoTranslatorMade
<1> HIDE DEF d, e, q
<1>8. /\ Fields(q) /\ q.idle = d /\ q.translator = e /\ q.shader = p.shader /\ q.compilerOf = p.compilerOf
      /\ q.poolOf = p.poolOf /\ q.workers = p.workers /\ q.job = p.job /\ q.waits = p.waits
  BY <1>1 DEF CompShape, Fields
<1>9. CompShape(q)
  BY <1>6, <1>7, <1>8 DEF CompShape
<1> QED
  BY <1>6, <1>7, <1>8, <1>9 DEF DroppedTo, q

LEMMA UsersSame ==
    ASSUME NEW p, NEW q, q.shader = p.shader, q.compilerOf = p.compilerOf
    PROVE  CompilersInUse(q) = CompilersInUse(p) /\ Pending(q) = Pending(p)
  BY DEF CompilersInUse, Pending, CompilePending, IsShader

LEMMA DropLends ==
    ASSUME NEW p, NEW B, CompShape(p), Lending(p, B), NEW q, DroppedTo(p, q)
    PROVE  /\ Lending(q, B) /\ UnusedEmpty(q)
           /\ \A n \in B : q.translator[p.shader[n].translator] = p.translator[p.shader[n].translator]
<1> DEFINE U == CompilersInUse(p)
<1>1. /\ q.shader = p.shader
      /\ \A k \in Compilers, t \in Types : q.idle[k][t] = IF k \in U THEN p.idle[k][t] ELSE <<>>
      /\ \A i \in Translators : q.translator[i] = IF IdleUnused(p, i) THEN NoTranslator ELSE p.translator[i]
  BY DEF DroppedTo
<1>2. \A k \in Compilers, t \in Types : /\ k \in U => q.idle[k][t] = p.idle[k][t] /\ Slots(q, k, t) = Slots(p, k, t)
                                        /\ k \notin U => q.idle[k][t] = <<>> /\ Slots(q, k, t) = {}
  BY <1>1 DEF Slots
<1>3. \A i \in Translators : IdleUnused(p, i) => p.translator[i].maker \in Compilers \ U
  BY DEF Lending, IdleMade, IdleUnused, IdleAt
<1>4. \A k \in Compilers, t \in Types : \A j \in Slots(p, k, t) : p.idle[k][t][j] \in Translators
  <2>1. p.idle \in [Compilers -> [Types -> Seq(Translators)]]
    BY DEF CompShape
  <2> QED
    BY <2>1 DEF Slots
<1>5. IdleMade(q)
  <2> SUFFICES ASSUME NEW k \in Compilers, NEW t \in Types, NEW j \in Slots(q, k, t)
               PROVE  q.translator[q.idle[k][t][j]].maker = k
    BY DEF IdleMade
  <2>1. k \in U /\ q.idle[k][t] = p.idle[k][t] /\ j \in Slots(p, k, t)
    BY <1>2
  <2>2. p.translator[p.idle[k][t][j]].maker = k /\ p.idle[k][t][j] \in Translators
    BY <1>4, <2>1 DEF Lending, IdleMade
  <2> QED
    BY <1>1, <1>3, <2>1, <2>2
<1>6. IdleOnce(q)
  BY <1>2 DEF Lending, IdleOnce
<1>7. \A n \in B : /\ p.shader[n].translator \in Translators
                   /\ q.translator[p.shader[n].translator] = p.translator[p.shader[n].translator]
  BY <1>1 DEF Lending, LentMade, IdleNotLent, IdleUnused, IdleAt
<1>8. LentMade(q, B) /\ LentOnce(q, B)
  BY <1>1, <1>7 DEF Lending, LentMade, LentOnce
<1>9. IdleNotLent(q, B)
  BY <1>1, <1>2 DEF Lending, IdleNotLent
<1>10. NoneLost(q, B)
  <2> SUFFICES ASSUME NEW i \in Translators, q.translator[i].maker # 0, ~\E n \in B : q.shader[n].translator = i
               PROVE  IdleAt(q, i, q.translator[i].maker)
    BY DEF NoneLost
  <2>1. ~IdleUnused(p, i) /\ q.translator[i] = p.translator[i]
    BY <1>1, NoTranslatorMade
  <2> DEFINE k == p.translator[i].maker
  <2>2. k \in Compilers
    BY <2>1 DEF CompShape, Made, CompilerIds
  <2>3. IdleAt(p, i, k)
    BY <1>1, <2>1 DEF Lending, NoneLost
  <2>4. k \in U
    BY <2>1, <2>2, <2>3 DEF IdleUnused
  <2> QED
    BY <1>2, <2>1, <2>2, <2>3, <2>4 DEF IdleAt
<1>11. UnusedEmpty(q)
  BY <1>1, UsersSame DEF UnusedEmpty, DroppedTo
<1> QED
  BY <1>5, <1>6, <1>7, <1>8, <1>9, <1>10, <1>11 DEF Lending

-----------------------------------------------------------------------------
(* A compilation is resolved.                                              *)

\* The translator i returns to the pool of the compiler k, or is destroyed.
PutBack(p, q, i, k, t) ==
    \/ /\ \A l \in Compilers, u \in Types :
            q.idle[l][u] = IF l = k /\ u = t THEN Append(p.idle[k][t], i) ELSE p.idle[l][u]
       /\ \A j \in Translators : /\ q.translator[j].maker = p.translator[j].maker
                                 /\ j # i => q.translator[j] = p.translator[j]
    \/ /\ q.idle = p.idle
       /\ \A j \in Translators : q.translator[j] = IF j = i THEN NoTranslator ELSE p.translator[j]

PutTo(p, q, n) ==
    /\ CompShape(q) /\ q.compilerOf = p.compilerOf /\ q.poolOf = p.poolOf /\ q.workers = p.workers
    /\ q.job = p.job /\ q.waits = p.waits /\ q.shader = [p.shader EXCEPT ![n].translator = 0]
    /\ PutBack(p, q, p.shader[n].translator, p.shader[n].compiler, p.shader[n].type)

LEMMA ShaderParts ==
    ASSUME NEW p, CompShape(p), NEW n, IsShader(p, n)
    PROVE  n \in Names /\ Compilable(p.shader[n])
  BY DEF IsShader, CompShape, NoShader

\* A state with another shader n.
LEMMA ShaderShapes ==
    ASSUME NEW p, CompShape(p), NEW n \in Names, NEW s, Compilable(s) \/ s = NoShader, NEW f,
           f = [p.shader EXCEPT ![n] = s]
    PROVE  /\ f = [m \in Names |-> f[m]] /\ \A m \in Names : f[m] = NoShader \/ Compilable(f[m])
           /\ f[n] = s /\ \A m \in Names \ {n} : f[m] = p.shader[m]
<1>1. p.shader = [m \in Names |-> p.shader[m]] /\ \A m \in Names : p.shader[m] = NoShader \/ Compilable(p.shader[m])
  BY DEF CompShape
<1>2. f[n] = s /\ \A m \in Names \ {n} : f[m] = p.shader[m]
  BY <1>1
<1>3. f = [m \in Names |-> f[m]]
  BY <1>1
<1> QED
  BY <1>1, <1>2, <1>3

LEMMA PutEffect ==
    ASSUME NEW p, CompShape(p), NEW n, IsShader(p, n),
           p.shader[n].translator \in Translators, p.shader[n].compiler \in Compilers
    PROVE  PutTo(p, PutInstance(p, n), n)
<1> DEFINE q == PutInstance(p, n)
           i == p.shader[n].translator
           k == p.shader[n].compiler
           t == p.shader[n].type
           s == [p.shader[n] EXCEPT !.translator = 0]
           f == [p.shader EXCEPT ![n] = s]
<1>1. n \in Names /\ Compilable(p.shader[n]) /\ t \in Types
  BY ShaderParts DEF Compilable
<1>2. Compilable(s)
  BY <1>1 DEF Compilable
<1>3. /\ p.shader = [m \in Names |-> p.shader[m]]
      /\ p.idle \in [Compilers -> [Types -> Seq(Translators)]]
      /\ p.translator = [j \in Translators |-> p.translator[j]]
      /\ \A j \in Translators : Made(p.translator[j])
  BY DEF CompShape
<1>4. f = [p.shader EXCEPT ![n].translator = 0]
  BY <1>1, <1>3
<1> HIDE DEF s
<1>5. f = [m \in Names |-> f[m]] /\ \A m \in Names : f[m] = NoShader \/ Compilable(f[m])
  BY <1>1, <1>2, ShaderShapes
<1> HIDE DEF f
<1>6. CASE Len(p.idle[k][t]) < MaxPoolSize
  <2> DEFINE a == Append(p.idle[k][t], i)
             d == [p.idle EXCEPT ![k][t] = a]
             e == [p.translator EXCEPT ![i].holds = "nothing"]
  <2>1. a \in Seq(Translators)
    BY <1>1, <1>3, SMTT(40)
  <2>2. q = [p EXCEPT !.idle = d, !.translator = e, !.shader = f]
    <3>1. q = [p EXCEPT !.idle[k][t] = Append(@, i), !.translator[i].holds = "nothing",
                        !.shader[n].translator = 0]
      BY <1>6 DEF PutInstance
    <3> QED
      BY <1>4, <3>1 DEF CompShape, Fields
  <2> HIDE DEF a, q
  <2>3. /\ d \in [Compilers -> [Types -> Seq(Translators)]]
        /\ \A l \in Compilers, u \in Types : d[l][u] = IF l = k /\ u = t THEN a ELSE p.idle[l][u]
    BY <1>1, <1>3, <2>1
  <2>4. Made(p.translator[i])
    BY <1>3
  <2>5. Made([p.translator[i] EXCEPT !.holds = "nothing"])
        /\ [p.translator[i] EXCEPT !.holds = "nothing"].maker = p.translator[i].maker
    BY <2>4, SMTT(40) DEF Made
  <2>6. /\ e = [j \in Translators |-> e[j]] /\ \A j \in Translators : Made(e[j])
        /\ \A j \in Translators : e[j].maker = p.translator[j].maker /\ (j # i => e[j] = p.translator[j])
    BY <1>3, <2>5
  <2> HIDE DEF d, e
  <2>7. /\ Fields(q) /\ q.idle = d /\ q.translator = e /\ q.shader = f /\ q.compilerOf = p.compilerOf
        /\ q.poolOf = p.poolOf /\ q.workers = p.workers /\ q.job = p.job /\ q.waits = p.waits
    BY <2>2 DEF CompShape, Fields
  <2>8. CompShape(q)
    BY <1>5, <2>3, <2>6, <2>7 DEF CompShape
  <2>9. PutBack(p, q, i, k, t)
    BY <2>3, <2>6, <2>7 DEF PutBack, a
  <2> QED
    BY <1>4, <2>7, <2>8, <2>9 DEF PutTo, q
<1>7. CASE ~(Len(p.idle[k][t]) < MaxPoolSize)
  <2> DEFINE e == [p.translator EXCEPT ![i] = NoTranslator]
  <2>1. q = [p EXCEPT !.translator = e, !.shader = f]
    BY <1>4, <1>7 DEF PutInstance, CompShape, Fields
  <2>2. /\ e = [j \in Translators |-> e[j]] /\ \A j \in Translators : Made(e[j])
        /\ \A j \in Translators : e[j] = IF j = i THEN NoTranslator ELSE p.translator[j]
    BY <1>3, NoTranslatorMade
  <2> HIDE DEF e, q
  <2>3. /\ Fields(q) /\ q.idle = p.idle /\ q.translator = e /\ q.shader = f /\ q.compilerOf = p.compilerOf
        /\ q.poolOf = p.poolOf /\ q.workers = p.workers /\ q.job = p.job /\ q.waits = p.waits
    BY <2>1 DEF CompShape, Fields
  <2>4. CompShape(q)
    BY <1>5, <2>2, <2>3 DEF CompShape
  <2>5. PutBack(p, q, i, k, t)
    BY <2>2, <2>3 DEF PutBack
  <2> QED
    BY <1>4, <2>3, <2>4, <2>5 DEF PutTo, q
<1> QED
  BY <1>6, <1>7

SameLent(p, q, A) == \A m \in A : q.shader[m] = p.shader[m]

\* The translator of n is put back.
LEMMA PutLends ==
    ASSUME NEW p, NEW B, CompShape(p), Lending(p, B), UnusedEmpty(p), NEW n \in B, IsShader(p, n), NEW q, CompShape(q),
           PutBack(p, q, p.shader[n].translator, p.shader[n].compiler, p.shader[n].type),
           CompilersInUse(q) = CompilersInUse(p),
           SameLent(p, q, B \ {n})
    PROVE  /\ Lending(q, B \ {n}) /\ UnusedEmpty(q)
           /\ \A m \in B \ {n} : q.translator[p.shader[m].translator] = p.translator[p.shader[m].translator]
<1> DEFINE i == p.shader[n].translator
           k == p.shader[n].compiler
           t == p.shader[n].type
           A == B \ {n}
<1>1. /\ i \in Translators /\ k \in Compilers /\ p.translator[i].maker = k
      /\ \A m \in A : p.shader[m].translator # i /\ p.shader[m].translator \in Translators
      /\ \A l \in Compilers, u \in Types : \A j \in Slots(p, l, u) : p.idle[l][u][j] # i
  BY DEF Lending, LentMade, LentOnce, IdleNotLent
<1>2. t \in Types /\ n \in Names /\ k \in CompilersInUse(p)
  <2>1. n \in Names /\ Compilable(p.shader[n])
    BY ShaderParts
  <2> QED
    BY <2>1 DEF Compilable, CompilersInUse
<1>3. \A l \in Compilers, u \in Types : p.idle[l][u] \in Seq(Translators) /\ Len(p.idle[l][u]) \in Nat
  <2>1. p.idle \in [Compilers -> [Types -> Seq(Translators)]]
    BY DEF CompShape
  <2> QED
    BY <2>1
<1>4. \A m \in A : q.shader[m] = p.shader[m]
  BY DEF SameLent
<1> HIDE DEF i, k, t
<1>5. CASE /\ \A l \in Compilers, u \in Types :
                q.idle[l][u] = IF l = k /\ u = t THEN Append(p.idle[k][t], i) ELSE p.idle[l][u]
           /\ \A j \in Translators : /\ q.translator[j].maker = p.translator[j].maker
                                     /\ j # i => q.translator[j] = p.translator[j]
  <2> DEFINE z == Len(p.idle[k][t]) + 1
  <2>1. z \in Nat \ {0} /\ Len(q.idle[k][t]) = z /\ q.idle[k][t][z] = i
        /\ \A j \in 1..(z - 1) : q.idle[k][t][j] = p.idle[k][t][j]
    <3>1. q.idle[k][t] = Append(p.idle[k][t], i)
      BY <1>1, <1>2, <1>5
    <3>2. p.idle[k][t] \in Seq(Translators) /\ Len(p.idle[k][t]) \in Nat /\ z = Len(p.idle[k][t]) + 1
      BY <1>1, <1>2, <1>3
    <3> HIDE DEF z
    <3> QED
      BY <1>1, <3>1, <3>2, AppendParts, SMTT(40)
  <2>2. Slots(p, k, t) = 1..(z - 1) /\ Slots(q, k, t) = 1..z
    BY <1>1, <1>2, <1>3, <2>1 DEF Slots
  <2>3. \A l \in Compilers, u \in Types : ~(l = k /\ u = t) => q.idle[l][u] = p.idle[l][u] /\ Slots(q, l, u) = Slots(p, l, u)
    BY <1>5 DEF Slots
  <2> HIDE DEF z
  <2>4. \A l \in Compilers, u \in Types : \A j \in Slots(q, l, u) :
           \/ j \in Slots(p, l, u) /\ q.idle[l][u][j] = p.idle[l][u][j]
           \/ l = k /\ u = t /\ j = z /\ q.idle[l][u][j] = i
    <3> TAKE l \in Compilers, u \in Types
    <3>1. CASE l = k /\ u = t
      BY <2>1, <2>2, <3>1
    <3>2. CASE ~(l = k /\ u = t)
      BY <2>3, <3>2
    <3> QED
      BY <3>1, <3>2
  <2>5. \A l \in Compilers, u \in Types : \A j \in Slots(p, l, u) :
           j \in Slots(q, l, u) /\ q.idle[l][u][j] = p.idle[l][u][j]
    <3> TAKE l \in Compilers, u \in Types
    <3>1. CASE l = k /\ u = t
      BY <2>1, <2>2, <3>1
    <3>2. CASE ~(l = k /\ u = t)
      BY <2>3, <3>2
    <3> QED
      BY <3>1, <3>2
  <2>6. \A l \in Compilers, u \in Types : \A j \in Slots(p, l, u) : p.idle[l][u][j] \in Translators
    BY <1>3 DEF Slots
  <2>7. IdleMade(q)
    BY <1>1, <1>5, <2>4, <2>6, SMTT(40) DEF Lending, IdleMade
  <2>8. IdleOnce(q)
    <3> SUFFICES ASSUME NEW l \in Compilers, NEW u \in Types, NEW v \in Types, NEW a \in Slots(q, l, u),
                        NEW b \in Slots(q, l, v), q.idle[l][u][a] = q.idle[l][v][b]
                 PROVE  u = v /\ a = b
      BY DEF IdleOnce
    <3>1. CASE a \in Slots(p, l, u) /\ q.idle[l][u][a] = p.idle[l][u][a]
               /\ b \in Slots(p, l, v) /\ q.idle[l][v][b] = p.idle[l][v][b]
      <4>1. IdleOnce(p) /\ p.idle[l][u][a] = p.idle[l][v][b]
        BY <3>1 DEF Lending
      <4> QED
        BY <3>1, <4>1 DEF IdleOnce
    <3> QED
      BY <1>1, <2>4, <3>1
  <2>9. LentMade(q, A) /\ LentOnce(q, A)
    BY <1>1, <1>4, <1>5, SMTT(40) DEF Lending, LentMade, LentOnce
  <2>10. IdleNotLent(q, A)
    BY <1>1, <1>4, <2>4 DEF Lending, IdleNotLent
  <2>11. NoneLost(q, A)
    <3> SUFFICES ASSUME NEW j \in Translators, q.translator[j].maker # 0, ~\E m \in A : q.shader[m].translator = j
                 PROVE  IdleAt(q, j, q.translator[j].maker)
      BY DEF NoneLost
    <3>1. q.translator[j].maker = p.translator[j].maker /\ p.translator[j].maker \in Compilers
      BY <1>5 DEF CompShape, Made, CompilerIds
    <3>2. CASE j = i
      <4>1. z \in Slots(q, k, t) /\ q.idle[k][t][z] = i
        BY <2>1, <2>2
      <4> QED
        BY <1>1, <1>2, <3>1, <3>2, <4>1 DEF IdleAt
    <3>3. CASE j # i
      <4>1. ~\E m \in B : p.shader[m].translator = j
        BY <1>4, <3>3 DEF i
      <4>2. IdleAt(p, j, p.translator[j].maker)
        BY <3>1, <4>1 DEF Lending, NoneLost
      <4> QED
        BY <2>5, <3>1, <4>2 DEF IdleAt
    <3> QED
      BY <3>2, <3>3
  <2>12. UnusedEmpty(q)
    BY <1>2, <2>3 DEF UnusedEmpty
  <2> QED
    BY <1>1, <1>5, <2>7, <2>8, <2>9, <2>10, <2>11, <2>12 DEF Lending
<1>6. CASE /\ q.idle = p.idle
           /\ \A j \in Translators : q.translator[j] = IF j = i THEN NoTranslator ELSE p.translator[j]
  <2>1. \A l \in Compilers, u \in Types : q.idle[l][u] = p.idle[l][u] /\ Slots(q, l, u) = Slots(p, l, u)
    BY <1>6 DEF Slots
  <2>2. \A l \in Compilers, u \in Types : \A j \in Slots(p, l, u) : p.idle[l][u][j] \in Translators
    BY <1>3 DEF Slots
  <2>3. IdleMade(q)
    BY <1>1, <1>6, <2>1, <2>2 DEF Lending, IdleMade
  <2>4. IdleOnce(q)
    BY <2>1 DEF Lending, IdleOnce
  <2>5. LentMade(q, A) /\ LentOnce(q, A)
    BY <1>1, <1>4, <1>6 DEF Lending, LentMade, LentOnce
  <2>6. IdleNotLent(q, A)
    BY <1>4, <2>1 DEF Lending, IdleNotLent
  <2>7. NoneLost(q, A)
    <3> SUFFICES ASSUME NEW j \in Translators, q.translator[j].maker # 0, ~\E m \in A : q.shader[m].translator = j
                 PROVE  IdleAt(q, j, q.translator[j].maker)
      BY DEF NoneLost
    <3>1. j # i /\ q.translator[j] = p.translator[j]
      BY <1>6, NoTranslatorMade
    <3>2. ~\E m \in B : p.shader[m].translator = j
      BY <1>4, <3>1 DEF i
    <3>3. IdleAt(p, j, p.translator[j].maker) /\ p.translator[j].maker \in Compilers
      BY <3>1, <3>2 DEF Lending, NoneLost, CompShape, Made, CompilerIds
    <3> QED
      BY <2>1, <3>1, <3>3 DEF IdleAt
  <2>8. UnusedEmpty(q)
    BY <2>1 DEF UnusedEmpty
  <2> QED
    BY <1>1, <1>6, <2>3, <2>4, <2>5, <2>6, <2>7, <2>8 DEF Lending
<1> QED
  BY <1>5, <1>6 DEF PutBack, i, k, t

\* The tasks are those of the shaders in B, and do what was asked.
TasksAre(p, B) == \A i \in Tasks : p.workers.tasks[i].state # "none" <=> i \in B

JobsAre(p, B) ==
    \A n \in B : p.job[n] = [translator |-> p.shader[n].translator, source |-> p.shader[n].asked]

Results(p, B) ==
    \A n \in B : p.workers.tasks[n].state \in {"left", "done"} =>
        p.translator[p.shader[n].translator].holds = p.shader[n].asked

Answered(p) ==
    \A n \in Names : IsShader(p, n) /\ p.shader[n].status # "pending" =>
        p.shader[n].translated = p.shader[n].asked

Working(p, B) ==
    WorkersOK(p.workers) /\ TasksAre(p, B) /\ JobsAre(p, B) /\ Results(p, B) /\ Answered(p)

\* The tasks in D are done or gone.
DoneIn(p, D) == \A i \in Tasks : i \in D => p.workers.tasks[i].state \in {"none", "done"}

Sound(p) == CompShape(p) /\ Lending(p, Pending(p)) /\ UnusedEmpty(p)

Good(p, D) == Sound(p) /\ Working(p, Pending(p)) /\ DoneIn(p, D)

\* A step that resolves compilations, and waits for them first.
Runs(p, q) ==
    /\ Sound(p) => Sound(q) /\ p.waits \subseteq q.waits /\ q.poolOf = p.poolOf
    /\ \A D : Good(p, D) /\ q.waits \subseteq D => Good(q, D)

LEMMA RunsTrans ==
    ASSUME NEW p, NEW q, NEW r, Runs(p, q), Runs(q, r)
    PROVE  Runs(p, r)
<1>1. ASSUME NEW D, Good(p, D), r.waits \subseteq D
      PROVE  Good(r, D)
  <2>1. Sound(p)
    BY <1>1 DEF Good
  <2>2. q.waits \subseteq D
    BY <1>1, <2>1 DEF Runs
  <2>3. Good(q, D)
    BY <1>1, <2>2 DEF Runs
  <2> QED
    BY <1>1, <2>3 DEF Runs
<1>2. Sound(p) => Sound(r) /\ p.waits \subseteq r.waits /\ r.poolOf = p.poolOf
  BY DEF Runs
<1> QED
  BY <1>1, <1>2 DEF Runs

LEMMA RunsSame == \A p : Runs(p, p)
  BY DEF Runs

LEMMA NamesAreTasks == Names \subseteq Tasks
  BY NameAssumption, WorkerAssumption, ProgramAssumption DEF Names, Tasks

ResolvedTo(p, q, n) ==
    LET s == p.shader[n] IN
    /\ CompShape(q) /\ q.compilerOf = p.compilerOf /\ q.poolOf = p.poolOf /\ q.waits = p.waits \cup {n}
    /\ q.workers = [p.workers EXCEPT !.tasks[n] = NoTask]
    /\ \A m \in Tasks \ {n} : q.job[m] = p.job[m]
    /\ \A m \in Names \ {n} : q.shader[m] = p.shader[m]
    /\ Compilable(q.shader[n]) /\ q.shader[n].status # "pending" /\ q.shader[n].compiler = s.compiler
    /\ q.shader[n].asked = s.asked /\ q.shader[n].translated = p.translator[s.translator].holds
    /\ PutBack(p, q, s.translator, s.compiler, s.type)

LEMMA ResolveEffect ==
    ASSUME NEW p, CompShape(p), NEW n, CompilePending(p, n),
           p.shader[n].translator \in Translators, p.shader[n].compiler \in Compilers
    PROVE  ResolvedTo(p, ResolveCompile(p, n), n)
<1> DEFINE q == ResolveCompile(p, n)
           r == PutInstance(p, n)
           s == p.shader[n]
           out == p.translator[s.translator].holds
           st == IF out \in Correct THEN "compiled" ELSE "not compiled"
           z == [r.shader[n] EXCEPT !.translated = out, !.status = st]
           f == [r.shader EXCEPT ![n] = z]
           g == [r.job EXCEPT ![n] = NoJob]
           w == [r.workers EXCEPT !.tasks[n] = NoTask]
<1>1. IsShader(p, n) /\ n \in Names /\ Compilable(s)
  BY ShaderParts DEF CompilePending
<1>2. PutTo(p, r, n)
  BY <1>1, PutEffect
<1>3. q = [r EXCEPT !.waits = @ \cup {n}, !.workers.tasks[n] = NoTask, !.job[n] = NoJob,
                    !.shader[n].translated = out, !.shader[n].status = st]
  BY DEF ResolveCompile
<1> HIDE DEF q, r, out
<1>4. st # "pending"
  OBVIOUS
<1> HIDE DEF st
<1>5. /\ Fields(r) /\ r.shader = [m \in Names |-> r.shader[m]] /\ CompShape(r)
      /\ r.shader = [p.shader EXCEPT ![n].translator = 0] /\ p.shader = [m \in Names |-> p.shader[m]]
      /\ r.job = [i \in Tasks |-> r.job[i]]
  BY <1>2 DEF PutTo, CompShape
<1>6. r.shader[n] = [s EXCEPT !.translator = 0] /\ \A m \in Names \ {n} : r.shader[m] = p.shader[m]
  BY <1>1, <1>5
<1>7. /\ Compilable(z) /\ z.status = st /\ z.translated = out /\ z.compiler = s.compiler /\ z.asked = s.asked
  <2>1. z = [s EXCEPT !.translator = 0, !.translated = out, !.status = st]
    BY <1>1, <1>6 DEF Compilable
  <2> HIDE DEF z
  <2> QED
    BY <1>1, <2>1 DEF Compilable
<1>8. /\ Fields(q) /\ q.idle = r.idle /\ q.translator = r.translator /\ q.shader = f
      /\ q.compilerOf = r.compilerOf /\ q.poolOf = r.poolOf /\ q.workers = w /\ q.job = g
      /\ q.waits = r.waits \cup {n}
  <2>1. PICK a : a = r.waits \cup {n}
    OBVIOUS
  <2>2. q = [r EXCEPT !.waits = a, !.workers = w, !.job = g,
                      !.shader[n].translated = out, !.shader[n].status = st]
    BY <1>3, <2>1
  <2> HIDE DEF w, g, f
  <2>3. Fields(q) /\ q.idle = r.idle /\ q.translator = r.translator /\ q.compilerOf = r.compilerOf
        /\ q.poolOf = r.poolOf /\ q.workers = w /\ q.job = g /\ q.waits = a
    BY <1>5, <2>2 DEF Fields
  <2>4. q.shader = f
    BY <1>1, <1>5, <2>2 DEF Fields, f
  <2> QED
    BY <2>1, <2>3, <2>4
<1> HIDE DEF z
<1>9. /\ f = [m \in Names |-> f[m]] /\ \A m \in Names : f[m] = NoShader \/ Compilable(f[m])
      /\ f[n] = z /\ \A m \in Names \ {n} : f[m] = r.shader[m]
  BY <1>1, <1>5, <1>7, ShaderShapes
<1>10. g = [i \in Tasks |-> g[i]] /\ \A m \in Tasks \ {n} : g[m] = p.job[m]
  BY <1>2, <1>5 DEF PutTo
<1> HIDE DEF f, g
<1>11. w = [p.workers EXCEPT !.tasks[n] = NoTask]
  BY <1>2 DEF PutTo
<1> HIDE DEF w
<1>12. /\ Fields(q) /\ q.idle = r.idle /\ q.translator = r.translator /\ q.shader = f
       /\ q.compilerOf = p.compilerOf /\ q.poolOf = p.poolOf /\ q.workers = w /\ q.job = g
       /\ q.waits = p.waits \cup {n}
  BY <1>2, <1>8 DEF PutTo
<1>13. CompShape(q)
  BY <1>5, <1>9, <1>10, <1>12, <1>2, SMTT(40) DEF CompShape, PutTo
<1>14. PutBack(p, q, s.translator, s.compiler, s.type)
  <2>1. PutBack(p, r, s.translator, s.compiler, s.type)
    BY <1>2 DEF PutTo
  <2> HIDE DEF s, q, r
  <2> QED
    BY <1>12, <2>1 DEF PutBack
<1> QED
  BY <1>4, <1>6, <1>7, <1>9, <1>10, <1>11, <1>12, <1>13, <1>14 DEF ResolvedTo, q, out

LEMMA ResolvedSound ==
    ASSUME NEW p, Sound(p), NEW n, CompilePending(p, n), NEW q, ResolvedTo(p, q, n)
    PROVE  /\ Sound(q) /\ Pending(q) = Pending(p) \ {n}
           /\ \A m \in Names \ {n} : q.shader[m] = p.shader[m]
           /\ \A m \in Pending(p) \ {n} : q.translator[p.shader[m].translator] = p.translator[p.shader[m].translator]
<1> DEFINE B == Pending(p)
           A == Pending(q)
           s == p.shader[n]
<1>1. n \in B /\ IsShader(p, n) /\ n \in Names /\ n \in Tasks /\ CompShape(p) /\ CompShape(q) /\ B \subseteq Names
  BY NamesAreTasks DEF Pending, CompilePending, IsShader, Sound, ResolvedTo
<1>2. /\ \A m \in Names \ {n} : q.shader[m] = p.shader[m]
      /\ q.shader[n].exists /\ q.shader[n].status # "pending" /\ q.shader[n].compiler = s.compiler
      /\ q.shader[n].asked = s.asked /\ q.shader[n].translated = p.translator[s.translator].holds
      /\ q.compilerOf = p.compilerOf
  BY DEF ResolvedTo, Compilable
<1>3. A = B \ {n}
  BY <1>1, <1>2 DEF Pending, CompilePending, IsShader
<1>4. CompilersInUse(q) = CompilersInUse(p)
  <2>1. \A m \in Names : (IsShader(q, m) <=> IsShader(p, m)) /\ (IsShader(p, m) => q.shader[m].compiler = p.shader[m].compiler)
    BY <1>1, <1>2 DEF IsShader
  <2> QED
    BY <1>2, <2>1 DEF CompilersInUse
<1>5. /\ Lending(q, B \ {n}) /\ UnusedEmpty(q)
      /\ \A m \in B \ {n} : q.translator[p.shader[m].translator] = p.translator[p.shader[m].translator]
  <2>1. SameLent(p, q, B \ {n})
    BY <1>1, <1>2 DEF SameLent
  <2>2. /\ Lending(p, B) /\ UnusedEmpty(p) /\ CompShape(p) /\ CompShape(q) /\ n \in B /\ IsShader(p, n)
        /\ PutBack(p, q, p.shader[n].translator, p.shader[n].compiler, p.shader[n].type)
    BY <1>1 DEF Sound, ResolvedTo
  <2> HIDE DEF B, s, A
  <2> QED
    BY <1>4, <2>1, <2>2, PutLends
<1> QED
  BY <1>1, <1>2, <1>3, <1>5 DEF Sound

LEMMA ResolvedGood ==
    ASSUME NEW p, NEW D, Good(p, D), NEW n, CompilePending(p, n), n \in D, NEW q, ResolvedTo(p, q, n)
    PROVE  Good(q, D)
<1> DEFINE B == Pending(p)
           A == Pending(q)
           s == p.shader[n]
<1>1. n \in B /\ IsShader(p, n) /\ n \in Names /\ n \in Tasks /\ B \subseteq Names
  BY NamesAreTasks DEF Pending, CompilePending, IsShader
<1>2. q.shader[n].asked = s.asked /\ q.shader[n].translated = p.translator[s.translator].holds
  BY DEF ResolvedTo
<1>3. /\ Sound(q) /\ A = B \ {n} /\ \A m \in Names \ {n} : q.shader[m] = p.shader[m]
      /\ \A m \in B \ {n} : q.translator[p.shader[m].translator] = p.translator[p.shader[m].translator]
  BY ResolvedSound DEF Good
<1>6. p.workers.tasks[n].state = "done"
  BY <1>1 DEF Good, Sound, Working, TasksAre, DoneIn
<1>7. /\ WorkersOK(q.workers) /\ q.workers.tasks[n] = NoTask
      /\ \A i \in Tasks \ {n} : q.workers.tasks[i] = p.workers.tasks[i]
  BY <1>1, <1>6, ClearKeeps DEF Good, Sound, Working, ResolvedTo
<1>8. NoTask.state = "none"
  BY DEF NoTask
<1>9. TasksAre(q, B \ {n})
  BY <1>7, <1>8 DEF Good, Sound, Working, TasksAre
<1>10. JobsAre(q, B \ {n})
  <2>1. \A m \in B \ {n} : q.job[m] = p.job[m] /\ q.shader[m] = p.shader[m]
    BY <1>1, <1>2, NamesAreTasks, <1>3 DEF ResolvedTo
  <2> QED
    BY <2>1 DEF Good, Sound, Working, JobsAre
<1>11. Results(q, B \ {n})
  <2>1. \A m \in B \ {n} : /\ q.shader[m] = p.shader[m] /\ q.workers.tasks[m] = p.workers.tasks[m]
                           /\ q.translator[p.shader[m].translator] = p.translator[p.shader[m].translator]
    BY <1>1, <1>3, <1>7, NamesAreTasks
  <2>2. Results(p, B)
    BY DEF Good, Sound, Working
  <2> QED
    BY <2>1, <2>2 DEF Results
<1>12. Answered(q)
  <2>1. p.translator[s.translator].holds = s.asked
    BY <1>1, <1>6 DEF Good, Sound, Working, Results
  <2>2. Answered(p)
    BY DEF Good, Sound, Working
  <2> QED
    BY <1>2, <1>3, <2>1, <2>2 DEF Answered, IsShader
<1>13. DoneIn(q, D)
  BY <1>7, <1>8 DEF Good, Sound, DoneIn
<1> QED
  BY <1>3, <1>7, <1>9, <1>10, <1>11, <1>12, <1>13 DEF Good, Working

LEMMA ResolveGood ==
    ASSUME NEW p, NEW n
    PROVE  LET q == ResolveCompile(p, n) IN
           /\ Runs(p, q)
           /\ Sound(p) => /\ ~CompilePending(q, n) /\ q.poolOf = p.poolOf
                          /\ FreeTranslators(p) \subseteq FreeTranslators(q)
                          /\ \A m : IsShader(q, m) <=> IsShader(p, m)
<1> DEFINE q == ResolveCompile(p, n)
<1>1. CASE ~CompilePending(p, n)
  BY <1>1, RunsSame DEF ResolveCompile
<1>2. CASE CompilePending(p, n)
  <2>1. n \in Pending(p) /\ n \in Names
    BY <1>2 DEF Pending, CompilePending, IsShader
  <2>2. Sound(p) => ResolvedTo(p, q, n)
    <3> SUFFICES ASSUME Sound(p) PROVE ResolvedTo(p, q, n)
      OBVIOUS
    <3>1. p.shader[n].translator \in Translators /\ p.shader[n].compiler \in Compilers /\ CompShape(p)
      BY <2>1 DEF Sound, Lending, LentMade
    <3> QED
      BY <1>2, <3>1, ResolveEffect
  <2> HIDE DEF q
  <2>3. ASSUME Sound(p)
        PROVE  /\ Sound(q) /\ Pending(q) = Pending(p) \ {n} /\ q.waits = p.waits \cup {n} /\ q.poolOf = p.poolOf
    <3>1. ResolvedTo(p, q, n)
      BY <2>2, <2>3
    <3> QED
      BY <1>2, <2>3, <3>1, ResolvedSound DEF ResolvedTo
  <2>4. ASSUME NEW D, Good(p, D), q.waits \subseteq D
        PROVE  Good(q, D)
    <3>1. Sound(p)
      BY <2>4 DEF Good
    <3>2. n \in D
      BY <2>3, <2>4, <3>1
    <3> QED
      BY <1>2, <2>2, <2>4, <3>1, <3>2, ResolvedGood
  <2>5. Runs(p, q)
    BY <2>3, <2>4 DEF Runs
  <2>6. ASSUME Sound(p)
        PROVE  /\ ~CompilePending(q, n) /\ FreeTranslators(p) \subseteq FreeTranslators(q)
               /\ \A m : IsShader(q, m) <=> IsShader(p, m)
    <3>1. ResolvedTo(p, q, n)
      BY <2>2, <2>6
    <3>2. IsShader(p, n) /\ q.shader[n].exists
      BY <1>2, <3>1 DEF CompilePending, ResolvedTo, Compilable
    <3>3. \A m : IsShader(q, m) <=> IsShader(p, m)
      BY <2>1, <3>1, <3>2 DEF ResolvedTo, IsShader
    <3>4. ~CompilePending(q, n)
      BY <2>1, <2>3, <2>6 DEF Pending, CompilePending, IsShader
    <3>5. FreeTranslators(p) \subseteq FreeTranslators(q)
      BY <3>1, NoTranslatorMade DEF ResolvedTo, PutBack, FreeTranslators
    <3> QED
      BY <3>3, <3>4, <3>5
  <2> QED
    BY <2>3, <2>5, <2>6 DEF q
<1> QED
  BY <1>1, <1>2

-----------------------------------------------------------------------------
(* A shader is compiled.                                                   *)

SameHolds(p, q, B) ==
    \A m \in B : q.translator[p.shader[m].translator].holds = p.translator[p.shader[m].translator].holds

LEMMA WorkSame ==
    ASSUME NEW p, NEW B, Working(p, B), NEW q, q.workers = p.workers, q.job = p.job,
           SameLent(p, q, B), SameHolds(p, q, B), Answered(q)
    PROVE  Working(q, B)
  BY DEF Working, TasksAre, JobsAre, Results, SameLent, SameHolds

\* One shader changes in what compilations use.
LEMMA CompShader ==
    ASSUME NEW p, CompShape(p), NEW n \in Names, NEW s, Compilable(s), NEW q, Fields(q),
           q.compilerOf \in [Contexts -> CompilerIds], q.poolOf = p.poolOf, q.idle = p.idle,
           q.translator = p.translator, q.job = p.job, q.shader = [p.shader EXCEPT ![n] = s]
    PROVE  CompShape(q) /\ q.shader[n] = s /\ \A m \in Names \ {n} : q.shader[m] = p.shader[m]
<1>1. /\ q.shader = [m \in Names |-> q.shader[m]] /\ \A m \in Names : q.shader[m] = NoShader \/ Compilable(q.shader[m])
      /\ q.shader[n] = s /\ \A m \in Names \ {n} : q.shader[m] = p.shader[m]
  BY ShaderShapes
<1> QED
  BY <1>1 DEF CompShape

LEMMA SameLends ==
    ASSUME NEW p, NEW B, Lending(p, B), NEW q, q.idle = p.idle, q.translator = p.translator, SameLent(p, q, B)
    PROVE  Lending(q, B) /\ SameHolds(p, q, B)
<1>1. \A k, t : Slots(q, k, t) = Slots(p, k, t)
  BY DEF Slots
<1>2. IdleMade(q) /\ IdleOnce(q)
  BY <1>1 DEF Lending, IdleMade, IdleOnce
<1>3. LentMade(q, B) /\ LentOnce(q, B)
  BY DEF Lending, LentMade, LentOnce, SameLent
<1>4. IdleNotLent(q, B)
  BY <1>1 DEF Lending, IdleNotLent, SameLent
<1>5. NoneLost(q, B)
  BY <1>1 DEF Lending, NoneLost, SameLent, IdleAt
<1> QED
  BY <1>2, <1>3, <1>4, <1>5 DEF Lending, SameHolds

\* The shader n is being compiled, the shaders in B are.
Asking(p, B, n) ==
    /\ CompShape(p) /\ CompilePending(p, n) /\ n \in Names \ B /\ B \subseteq Names
    /\ Pending(p) = B \cup {n} /\ Lending(p, B) /\ UnusedEmpty(p) /\ Working(p, B)
    /\ p.shader[n].asked = p.shader[n].source

LEMMA AskAsks ==
    ASSUME NEW p, NEW D, Good(p, D), NEW n, IsShader(p, n), ~CompilePending(p, n)
    PROVE  LET q == Ask(p, n) IN
           /\ Asking(q, Pending(p), n)
           /\ q.waits = p.waits /\ q.poolOf = p.poolOf /\ q.workers = p.workers
           /\ FreeTranslators(p) \subseteq FreeTranslators(q)
<1> DEFINE q == Ask(p, n)
           B == Pending(p)
           s == [p.shader[n] EXCEPT !.status = "pending", !.asked = p.shader[n].source, !.translated = "nothing"]
<1>1. n \in Names /\ Compilable(p.shader[n]) /\ CompShape(p)
  BY ShaderParts DEF Good, Sound
<1>2. /\ Compilable(s) /\ s.status = "pending" /\ s.asked = s.source /\ s.compiler = p.shader[n].compiler
      /\ s.exists
  BY <1>1 DEF Compilable
<1>3. /\ Fields(q) /\ q.idle = p.idle /\ q.translator = p.translator /\ q.compilerOf = p.compilerOf
      /\ q.poolOf = p.poolOf /\ q.workers = p.workers /\ q.job = p.job /\ q.waits = p.waits
      /\ q.shader = [p.shader EXCEPT ![n] = s]
  BY <1>1 DEF CompShape, Fields, Ask
<1> HIDE DEF s, q
<1>4. CompShape(q) /\ q.shader[n] = s /\ \A m \in Names \ {n} : q.shader[m] = p.shader[m]
  <2>1. q.compilerOf \in [Contexts -> CompilerIds]
    BY <1>1, <1>3 DEF CompShape
  <2> QED
    BY <1>1, <1>2, <1>3, <2>1, CompShader
<1>5. Pending(q) = B \cup {n} /\ n \notin B /\ B \subseteq Names /\ CompilePending(q, n)
  BY <1>1, <1>2, <1>4 DEF Pending, CompilePending, IsShader
<1>6. SameLent(p, q, B)
  BY <1>4, <1>5 DEF SameLent
<1>7. CompilersInUse(q) = CompilersInUse(p)
  <2>1. \A m \in Names : (IsShader(q, m) <=> IsShader(p, m)) /\ (IsShader(p, m) => q.shader[m].compiler = p.shader[m].compiler)
    BY <1>1, <1>2, <1>4 DEF IsShader
  <2> QED
    BY <1>3, <2>1 DEF CompilersInUse
<1>8. Lending(p, B) /\ UnusedEmpty(p) /\ Working(p, B)
  BY DEF Good, Sound
<1>9. Answered(q)
  <2>1. Answered(p)
    BY <1>8 DEF Working
  <2> QED
    BY <1>2, <1>4, <2>1 DEF Answered, IsShader
<1> HIDE DEF B
<1>10. Lending(q, B) /\ SameHolds(p, q, B)
  BY <1>3, <1>6, <1>8, SameLends
<1>11. Working(q, B)
  BY <1>3, <1>6, <1>8, <1>9, <1>10, WorkSame
<1>12. UnusedEmpty(q)
  BY <1>3, <1>7, <1>8 DEF UnusedEmpty
<1>13. Asking(q, B, n)
  BY <1>1, <1>2, <1>4, <1>5, <1>10, <1>11, <1>12 DEF Asking
<1>14. FreeTranslators(p) \subseteq FreeTranslators(q)
  BY <1>3 DEF FreeTranslators
<1> QED
  BY <1>3, <1>13, <1>14 DEF q, B

\* There are enough compilers for every context and every shader.
LEMMA CompilerLeft ==
    ASSUME NEW p, CompShape(p), NEW c \in Contexts, p.compilerOf[c] = 0
    PROVE  Unused(Compilers, CompilersInUse(p)) \in Compilers
<1> DEFINE S == {m \in Names : IsShader(p, m)}
           X == {p.compilerOf[d] : d \in Contexts}
           Y == {p.shader[n].compiler : n \in S}
           N == Cardinality(Contexts) + MaxName
           f == [d \in Contexts |-> p.compilerOf[d]]
           g == [n \in S |-> p.shader[n].compiler]
<1>1. IsFiniteSet(Names) /\ Cardinality(Names) = MaxName /\ MaxName \in Nat
  BY NameAssumption, FS_Interval DEF Names
<1>2. IsFiniteSet(S) /\ Cardinality(S) \in Nat /\ Cardinality(S) <= MaxName
  <2>1. S \in SUBSET Names
    OBVIOUS
  <2> HIDE DEF S
  <2> QED
    BY <1>1, <2>1, FS_Subset, FS_CardinalityType
<1>3. IsFiniteSet(Contexts) /\ Cardinality(Contexts) \in Nat
  BY ClientsAssumption, FS_CardinalityType
<1>4. f \in Surjection(Contexts, X) /\ g \in Surjection(S, Y)
  BY DEF Surjection
<1> HIDE DEF f, g
<1>5. IsFiniteSet(X) /\ Cardinality(X) <= Cardinality(Contexts) /\ Cardinality(X) \in Nat
  <2> HIDE DEF X
  <2> QED
    BY <1>3, <1>4, FS_Surjection, FS_CardinalityType
<1>6. IsFiniteSet(Y) /\ Cardinality(Y) <= Cardinality(S) /\ Cardinality(Y) \in Nat
  <2> HIDE DEF Y, S
  <2> QED
    BY <1>2, <1>4, FS_Surjection, FS_CardinalityType
<1>7. CompilersInUse(p) = X \cup Y
  BY DEF CompilersInUse
<1>8. 0 \in X
  OBVIOUS
<1> HIDE DEF X, Y, S
<1>9. IsFiniteSet(X \cup Y) /\ Cardinality(X \cup Y) <= N
  <2>1. IsFiniteSet(X \cap Y) /\ Cardinality(X \cap Y) \in Nat
    BY <1>5, FS_Intersection, FS_CardinalityType
  <2>2. IsFiniteSet(X \cup Y) /\ Cardinality(X \cup Y) = Cardinality(X) + Cardinality(Y) - Cardinality(X \cap Y)
    BY <1>5, <1>6, FS_Union
  <2> QED
    BY <1>1, <1>2, <1>3, <1>5, <1>6, <2>1, <2>2
<1>10. Compilers \ CompilersInUse(p) # {}
  <2> SUFFICES ASSUME Compilers \subseteq X \cup Y PROVE FALSE
    BY <1>7
  <2>1. N \in Nat /\ Compilers = 1..N
    BY <1>1, <1>3 DEF Compilers
  <2> HIDE DEF N
  <2>2. 0..N \in SUBSET (X \cup Y)
    BY <1>8, <2>1
  <2>3. Cardinality(0..N) = N + 1
    BY <2>1, FS_Interval
  <2>4. Cardinality(0..N) <= Cardinality(X \cup Y)
    BY <1>9, <2>2, FS_Subset
  <2>5. Cardinality(X \cup Y) \in Nat
    BY <1>9, FS_CardinalityType
  <2> QED
    BY <1>9, <2>1, <2>3, <2>4, <2>5
<1> DEFINE Z == Compilers \ CompilersInUse(p)
<1>11. Z \subseteq Nat /\ Z # {} /\ Z \subseteq Compilers
  BY <1>10 DEF Compilers
<1> HIDE DEF Z
<1>12. Lowest(Z) \in Compilers
  BY <1>11, LowestName
<1> QED
  BY <1>12 DEF Unused, Z

\* What a compilation has to know is the same.
SameRest(p, q) == q.waits = p.waits /\ q.poolOf = p.poolOf /\ q.workers = p.workers

LEMMA BindAsks ==
    ASSUME NEW p, NEW B, NEW n, Asking(p, B, n), NEW c \in Contexts
    PROVE  LET q == BindCompiler(p, c, n) IN
           /\ Asking(q, B, n) /\ SameRest(p, q) /\ q.shader[n].compiler \in Compilers
           /\ FreeTranslators(p) \subseteq FreeTranslators(q)
<1> DEFINE k == IF p.compilerOf[c] # 0 THEN p.compilerOf[c] ELSE Unused(Compilers, CompilersInUse(p))
           u == [p EXCEPT !.compilerOf[c] = k, !.shader[n].compiler = k]
           q == DropCompilers(u)
           s == [p.shader[n] EXCEPT !.compiler = k]
           o == [p.compilerOf EXCEPT ![c] = k]
<1>1. /\ CompShape(p) /\ n \in Names /\ Compilable(p.shader[n]) /\ p.shader[n].status = "pending"
      /\ p.shader[n].exists
  BY ShaderParts DEF Asking, CompilePending, IsShader
<1>2. k \in Compilers
  BY <1>1, CompilerLeft DEF CompShape, CompilerIds
<1> HIDE DEF k
<1>3. Compilable(s) /\ s = [p.shader[n] EXCEPT !.compiler = k]
  BY <1>1, <1>2 DEF Compilable, CompilerIds
<1>4. /\ s.compiler = k /\ s.status = "pending" /\ s.exists
      /\ s.asked = p.shader[n].asked /\ s.source = p.shader[n].source
  BY <1>1 DEF Compilable
<1>5. /\ Fields(u) /\ u.idle = p.idle /\ u.translator = p.translator /\ u.compilerOf = o
      /\ u.poolOf = p.poolOf /\ u.workers = p.workers /\ u.job = p.job /\ u.waits = p.waits
      /\ u.shader = [p.shader EXCEPT ![n] = s]
  BY <1>1 DEF CompShape, Fields
<1>6. o \in [Contexts -> CompilerIds]
  BY <1>1, <1>2 DEF CompShape, CompilerIds
<1> HIDE DEF s, u, o
<1>7. CompShape(u) /\ u.shader[n] = s /\ \A m \in Names \ {n} : u.shader[m] = p.shader[m]
  BY <1>1, <1>3, <1>5, <1>6, CompShader
<1>8. DroppedTo(u, q)
  BY <1>7, DropEffect
<1> HIDE DEF q
<1>9. SameLent(p, u, B) /\ n \notin B /\ B \subseteq Names
  BY <1>7 DEF SameLent, Asking
<1>10. Lending(u, B) /\ SameHolds(p, u, B)
  BY <1>5, <1>9, SameLends DEF Asking
<1>11. /\ Lending(q, B) /\ UnusedEmpty(q)
       /\ \A m \in B : q.translator[u.shader[m].translator] = u.translator[u.shader[m].translator]
  BY <1>7, <1>8, <1>10, DropLends
<1>12. /\ q.shader = u.shader /\ SameRest(p, q) /\ q.job = p.job
  BY <1>5, <1>8 DEF DroppedTo, SameRest
<1>13. SameLent(p, q, B) /\ SameHolds(p, q, B)
  BY <1>5, <1>9, <1>11, <1>12 DEF SameLent, SameHolds
<1>14. Answered(q)
  BY <1>1, <1>4, <1>7, <1>12 DEF Answered, Asking, Working, IsShader
<1>15. Working(q, B)
  <2>1. Working(p, B) /\ q.workers = p.workers
    BY <1>12 DEF Asking, SameRest
  <2> QED
    BY <1>12, <1>13, <1>14, <2>1, WorkSame
<1>16. CompilePending(q, n) /\ Pending(q) = B \cup {n}
  <2>1. Pending(p) = B \cup {n}
    BY DEF Asking
  <2>2. \A m \in Names : CompilePending(q, m) <=> CompilePending(p, m)
    BY <1>1, <1>4, <1>7, <1>12 DEF CompilePending, IsShader
  <2> QED
    BY <1>1, <2>1, <2>2 DEF Pending, CompilePending, IsShader
<1>17. CompShape(q) /\ q.shader[n] = s
  BY <1>7, <1>8, <1>12 DEF DroppedTo
<1>18. q.shader[n].asked = q.shader[n].source
  BY <1>4, <1>17 DEF Asking
<1>19. Asking(q, B, n)
  BY <1>1, <1>9, <1>11, <1>15, <1>16, <1>17, <1>18 DEF Asking
<1>20. FreeTranslators(p) \subseteq FreeTranslators(q)
  BY <1>5, <1>8, NoTranslatorMade DEF DroppedTo, FreeTranslators
<1> QED
  BY <1>2, <1>4, <1>12, <1>17, <1>19, <1>20 DEF BindCompiler, q, u, k

\* The shader n gets the translator i, new or the last one of those at rest.
Gets(p, q, n, i) ==
    LET k == p.shader[n].compiler
        t == p.shader[n].type
        z == Len(p.idle[k][t]) IN
    \/ /\ i \in FreeTranslators(p) /\ q.idle = p.idle
       /\ q.translator[i].maker = k
       /\ \A j \in Translators \ {i} : q.translator[j] = p.translator[j]
    \/ /\ z # 0 /\ i = p.idle[k][t][z] /\ q.translator = p.translator
       /\ \A l \in Compilers, u \in Types : ~(l = k /\ u = t) => q.idle[l][u] = p.idle[l][u]
       /\ Len(q.idle[k][t]) = z - 1 /\ \A j \in 1..(z - 1) : q.idle[k][t][j] = p.idle[k][t][j]

GotTo(p, q, n, i) ==
    /\ CompShape(q) /\ q.compilerOf = p.compilerOf /\ SameRest(p, q) /\ q.job = p.job
    /\ \A m \in Names \ {n} : q.shader[m] = p.shader[m]
    /\ q.shader[n] = [p.shader[n] EXCEPT !.translator = i]
    /\ i \in Translators /\ Gets(p, q, n, i)

LEMMA LastFront ==
    ASSUME NEW S, NEW s \in Seq(S), s # <<>>
    PROVE  /\ Last(s) = s[Len(s)] /\ Last(s) \in S /\ Front(s) \in Seq(S) /\ Len(s) # 0
           /\ Len(Front(s)) = Len(s) - 1 /\ \A j \in 1..(Len(s) - 1) : Front(s)[j] = s[j]
<1>1. Len(s) \in Nat \ {0}
  OBVIOUS
<1>2. Front(s) = SubSeq(s, 1, Len(s) - 1)
  BY DEF Front
<1>3. PICK z : z = Len(s) - 1
  OBVIOUS
<1>4. z \in Nat /\ z < Len(s) /\ Front(s) = SubSeq(s, 1, z)
  BY <1>1, <1>2, <1>3
<1>5. Front(s) \in Seq(S) /\ Len(Front(s)) = z /\ \A j \in 1..z : Front(s)[j] = s[j]
  BY <1>4
<1>6. Last(s) = s[Len(s)] /\ s[Len(s)] \in S
  BY <1>1 DEF Last
<1> QED
  BY <1>1, <1>3, <1>5, <1>6

LEMMA FreeLeft ==
    ASSUME NEW p, FreeTranslators(p) # {}
    PROVE  Lowest(FreeTranslators(p)) \in FreeTranslators(p)
<1> DEFINE Z == FreeTranslators(p)
<1>1. Z \subseteq Nat /\ Z # {}
  BY DEF FreeTranslators, Translators
<1> HIDE DEF Z
<1>2. Lowest(Z) \in Z
  BY <1>1, LowestName
<1> QED
  BY <1>2 DEF Z

LEMMA GetEffect ==
    ASSUME NEW p, CompShape(p), NEW n, IsShader(p, n), p.shader[n].compiler \in Compilers,
           FreeTranslators(p) # {}, IdleMade(p)
    PROVE  GotTo(p, GetInstance(p, n), n, InstanceFor(p, n))
<1> DEFINE q == GetInstance(p, n)
           i == InstanceFor(p, n)
           k == p.shader[n].compiler
           t == p.shader[n].type
           s == [p.shader[n] EXCEPT !.translator = i]
           x == p.idle[k][t]
           y == IF x = <<>> THEN x ELSE Front(x)
           m == IF p.translator[i].maker = 0 THEN k ELSE p.translator[i].maker
           r == [p.translator[i] EXCEPT !.maker = m]
           d == [p.idle EXCEPT ![k][t] = y]
           e == [p.translator EXCEPT ![i] = r]
           f == [p.shader EXCEPT ![n] = s]
<1>1. n \in Names /\ Compilable(p.shader[n]) /\ t \in Types
  BY ShaderParts DEF Compilable
<1>2. /\ p.shader = [a \in Names |-> p.shader[a]]
      /\ p.idle \in [Compilers -> [Types -> Seq(Translators)]]
      /\ p.translator = [j \in Translators |-> p.translator[j]]
      /\ \A j \in Translators : Made(p.translator[j])
  BY DEF CompShape
<1>3. x \in Seq(Translators)
  BY <1>1, <1>2
<1>4. \/ x = <<>> /\ i \in FreeTranslators(p)
      \/ x # <<>> /\ i = Last(x) /\ i \in Translators /\ p.translator[i].maker = k
  <2>1. CASE x = <<>>
    BY <2>1, FreeLeft, SMTT(40) DEF InstanceFor
  <2>2. CASE x # <<>>
    <3>1. i = Last(x)
      BY <2>2 DEF InstanceFor
    <3>2. i = x[Len(x)] /\ i \in Translators /\ Len(x) \in 1..Len(x)
      <4> HIDE DEF x, i
      <4> QED
        BY <1>3, <2>2, <3>1, LastFront, SMTT(40)
    <3>3. p.translator[i].maker = k
      <4>1. \A j \in Slots(p, k, t) : p.translator[p.idle[k][t][j]].maker = k
        BY <1>1 DEF IdleMade
      <4> HIDE DEF i
      <4> QED
        BY <3>2, <4>1, ZenonT(60) DEF Slots
    <3> QED
      BY <2>2, <3>1, <3>2, <3>3
  <2> QED
    BY <2>1, <2>2
<1>5. i \in Translators
  BY <1>4 DEF FreeTranslators
<1>6. q = [p EXCEPT !.shader[n].translator = i, !.translator[i].maker = m, !.idle[k][t] = y]
  <2>1. q = [p EXCEPT !.shader[n].translator = i, !.translator[i].maker = IF @ = 0 THEN k ELSE @,
                      !.idle[k][t] = IF @ = <<>> THEN @ ELSE Front(@)]
    BY DEF GetInstance
  <2> HIDE DEF q, i
  <2> QED
    BY <2>1
<1>7. m \in Compilers
  BY <1>2, <1>5 DEF Made, CompilerIds
<1> HIDE DEF i, m, q
<1>8. Compilable(s)
  BY <1>1 DEF Compilable
<1> HIDE DEF y
<1>9. /\ Fields(q) /\ q.compilerOf = p.compilerOf /\ SameRest(p, q) /\ q.job = p.job
      /\ q.shader = f /\ q.translator = e /\ q.idle = d
  <2>1. /\ Fields(q) /\ q.compilerOf = p.compilerOf /\ SameRest(p, q) /\ q.job = p.job
    BY <1>6 DEF CompShape, Fields, SameRest
  <2>2. q.shader = [p.shader EXCEPT ![n].translator = i] /\ q.translator = [p.translator EXCEPT ![i].maker = m]
        /\ q.idle = d
    BY <1>6 DEF CompShape, Fields
  <2> QED
    BY <1>1, <1>2, <1>5, <2>1, <2>2
<1> HIDE DEF s
<1>10. /\ f = [a \in Names |-> f[a]] /\ \A a \in Names : f[a] = NoShader \/ Compilable(f[a])
       /\ f[n] = s /\ \A a \in Names \ {n} : f[a] = p.shader[a]
  BY <1>1, <1>8, ShaderShapes
<1>11. Made(r) /\ r.maker = m /\ (p.translator[i].maker = m => r = p.translator[i])
  <2>1. Made(p.translator[i])
    BY <1>2, <1>5
  <2> QED
    BY <1>7, <2>1 DEF Made, CompilerIds
<1> HIDE DEF r
<1>12. /\ e = [j \in Translators |-> e[j]] /\ \A j \in Translators : Made(e[j])
       /\ e[i] = r /\ \A j \in Translators \ {i} : e[j] = p.translator[j]
  BY <1>2, <1>5, <1>11
<1>13. y \in Seq(Translators)
  <2>1. x # <<>> => Front(x) \in Seq(Translators)
    <3> HIDE DEF x
    <3> QED
      BY <1>3, LastFront
  <2> QED
    BY <1>3, <2>1 DEF y
<1>14. /\ d \in [Compilers -> [Types -> Seq(Translators)]]
       /\ \A l \in Compilers, u \in Types : d[l][u] = IF l = k /\ u = t THEN y ELSE p.idle[l][u]
  BY <1>1, <1>2, <1>13
<1> HIDE DEF d, e, f
<1>15. CompShape(q)
  BY <1>9, <1>10, <1>12, <1>14 DEF CompShape, SameRest
<1>16. Gets(p, q, n, i)
  <2>1. CASE x = <<>> /\ i \in FreeTranslators(p)
    <3>1. y = x /\ m = k
      BY <2>1 DEF y, m, FreeTranslators
    <3>2. d = p.idle
      BY <1>1, <1>2, <3>1 DEF d
    <3> QED
      BY <1>9, <1>11, <1>12, <2>1, <3>1, <3>2 DEF Gets
  <2>2. CASE x # <<>> /\ i = Last(x) /\ p.translator[i].maker = k
    <3>1. y = Front(x) /\ m = k
      BY <1>1, <2>2, ZenonT(60) DEF y, m, Compilers
    <3>2. r = p.translator[i]
      BY <1>11, <2>2, <3>1
    <3>3. e = p.translator
      BY <1>2, <1>12, <3>2
    <3>4. /\ Len(x) # 0 /\ i = x[Len(x)] /\ Len(y) = Len(x) - 1
          /\ \A j \in 1..(Len(x) - 1) : y[j] = x[j]
      <4> HIDE DEF x
      <4> QED
        BY <1>3, <2>2, <3>1, LastFront, SMTT(40)
    <3> QED
      BY <1>1, <1>9, <1>14, <3>3, <3>4, ZenonT(60) DEF Gets
  <2> QED
    BY <1>4, <2>1, <2>2
<1> QED
  BY <1>5, <1>9, <1>10, <1>15, <1>16 DEF GotTo, q, i, s

LEMMA GetLends ==
    ASSUME NEW p, NEW B, CompShape(p), Lending(p, B), UnusedEmpty(p), NEW n, n \notin B, NEW i, NEW q,
           GotTo(p, q, n, i), p.shader[n].compiler \in Compilers, p.shader[n].type \in Types,
           CompilersInUse(q) = CompilersInUse(p), SameLent(p, q, B),
           q.shader[n].translator = i, q.shader[n].compiler = p.shader[n].compiler
    PROVE  Lending(q, B \cup {n}) /\ UnusedEmpty(q) /\ SameHolds(p, q, B)
<1> DEFINE k == p.shader[n].compiler
           t == p.shader[n].type
           A == B \cup {n}
           z == Len(p.idle[k][t])
<1>1. /\ i \in Translators /\ k \in Compilers /\ t \in Types /\ Gets(p, q, n, i)
      /\ \A m \in B : q.shader[m] = p.shader[m]
      /\ \A m \in B : p.shader[m].translator \in Translators
  BY DEF GotTo, SameLent, Lending, LentMade
<1>2. /\ \A l \in Compilers, u \in Types : Len(p.idle[l][u]) \in Nat
      /\ \A l \in Compilers, u \in Types : \A j \in Slots(p, l, u) : p.idle[l][u][j] \in Translators
  <2>1. p.idle \in [Compilers -> [Types -> Seq(Translators)]]
    BY DEF CompShape
  <2> QED
    BY <2>1 DEF Slots
<1>3. /\ IdleMade(p) /\ IdleOnce(p) /\ LentMade(p, B) /\ LentOnce(p, B) /\ IdleNotLent(p, B) /\ NoneLost(p, B)
  BY DEF Lending
<1>4. q.shader[n].translator = i /\ q.shader[n].compiler = k
  OBVIOUS
<1>5. z \in Nat
  BY <1>1, <1>2
<1> HIDE DEF k, t
<1>6. CASE /\ i \in FreeTranslators(p) /\ q.idle = p.idle
           /\ q.translator[i].maker = k
           /\ \A j \in Translators \ {i} : q.translator[j] = p.translator[j]
  <2>1. \A l \in Compilers, u \in Types : q.idle[l][u] = p.idle[l][u] /\ Slots(q, l, u) = Slots(p, l, u)
    BY <1>6 DEF Slots
  <2>2. p.translator[i].maker = 0 /\ \A l \in Compilers : l # 0
    BY <1>6 DEF FreeTranslators, Compilers
  <2>3. \A l \in Compilers, u \in Types : \A j \in Slots(p, l, u) : p.idle[l][u][j] # i
    BY <1>3, <2>2 DEF IdleMade
  <2>4. \A m \in B : p.shader[m].translator # i
    BY <1>3, <2>2 DEF LentMade
  <2>5. IdleMade(q)
    BY <1>1, <1>2, <1>3, <1>6, <2>1, <2>3 DEF IdleMade
  <2>6. IdleOnce(q)
    BY <1>3, <2>1 DEF IdleOnce
  <2>7. LentMade(q, A)
    BY <1>1, <1>3, <1>4, <1>6, <2>4 DEF LentMade
  <2>8. LentOnce(q, A)
    BY <1>1, <1>3, <1>4, <2>4 DEF LentOnce
  <2>9. IdleNotLent(q, A)
    BY <1>1, <1>3, <1>4, <2>1, <2>3 DEF IdleNotLent
  <2>10. NoneLost(q, A)
    <3> SUFFICES ASSUME NEW j \in Translators, q.translator[j].maker # 0, ~\E m \in A : q.shader[m].translator = j
                 PROVE  IdleAt(q, j, q.translator[j].maker)
      BY DEF NoneLost
    <3>1. j # i /\ q.translator[j] = p.translator[j]
      BY <1>4, <1>6
    <3>2. ~\E m \in B : p.shader[m].translator = j
      BY <1>1
    <3>3. IdleAt(p, j, p.translator[j].maker) /\ p.translator[j].maker \in Compilers
      BY <1>3, <3>1, <3>2 DEF NoneLost, CompShape, Made, CompilerIds
    <3> QED
      BY <2>1, <3>1, <3>3 DEF IdleAt
  <2>11. UnusedEmpty(q)
    BY <2>1 DEF UnusedEmpty
  <2>12. SameHolds(p, q, B)
    BY <1>1, <1>6, <2>4 DEF SameHolds
  <2> QED
    BY <2>5, <2>6, <2>7, <2>8, <2>9, <2>10, <2>11, <2>12 DEF Lending
<1>7. CASE /\ z # 0 /\ i = p.idle[k][t][z] /\ q.translator = p.translator
           /\ \A l \in Compilers, u \in Types : ~(l = k /\ u = t) => q.idle[l][u] = p.idle[l][u]
           /\ Len(q.idle[k][t]) = z - 1 /\ \A j \in 1..(z - 1) : q.idle[k][t][j] = p.idle[k][t][j]
  <2>1. Slots(p, k, t) = 1..z /\ Slots(q, k, t) = 1..(z - 1) /\ z \in Slots(p, k, t)
    BY <1>5, <1>7 DEF Slots
  <2>2. \A l \in Compilers, u \in Types : ~(l = k /\ u = t) => q.idle[l][u] = p.idle[l][u] /\ Slots(q, l, u) = Slots(p, l, u)
    BY <1>7 DEF Slots
  <2>3. /\ \A j \in Slots(q, k, t) : j \in Slots(p, k, t) /\ q.idle[k][t][j] = p.idle[k][t][j] /\ j # z
        /\ \A j \in Slots(p, k, t) : j # z => j \in Slots(q, k, t) /\ q.idle[k][t][j] = p.idle[k][t][j]
    BY <1>5, <1>7, <2>1
  <2>4. \A l \in Compilers, u \in Types : \A j \in Slots(q, l, u) :
           /\ j \in Slots(p, l, u) /\ q.idle[l][u][j] = p.idle[l][u][j]
           /\ ~(l = k /\ u = t /\ j = z)
    <3> TAKE l \in Compilers, u \in Types
    <3>1. CASE l = k /\ u = t
      BY <2>3, <3>1
    <3>2. CASE ~(l = k /\ u = t)
      BY <2>2, <3>2
    <3> QED
      BY <3>1, <3>2
  <2>5. \A l \in Compilers, u \in Types : \A j \in Slots(p, l, u) :
           ~(l = k /\ u = t /\ j = z) => j \in Slots(q, l, u) /\ q.idle[l][u][j] = p.idle[l][u][j]
    <3> TAKE l \in Compilers, u \in Types
    <3>1. CASE l = k /\ u = t
      BY <2>3, <3>1
    <3>2. CASE ~(l = k /\ u = t)
      BY <2>2, <3>2, SMTT(40)
    <3> QED
      BY <3>1, <3>2
  <2>6. p.translator[i].maker = k
    <3>1. k \in Compilers /\ t \in Types /\ z \in Slots(p, k, t) /\ i = p.idle[k][t][z]
      BY <1>1, <1>7, <2>1
    <3>2. IdleMade(p)
      BY <1>3
    <3> QED
      BY <3>1, <3>2 DEF IdleMade
  <2>7. \A l \in Compilers, u \in Types : \A j \in Slots(q, l, u) : q.idle[l][u][j] # i
    <3> SUFFICES ASSUME NEW l \in Compilers, NEW u \in Types, NEW j \in Slots(q, l, u), q.idle[l][u][j] = i
                 PROVE  FALSE
      OBVIOUS
    <3>1. j \in Slots(p, l, u) /\ p.idle[l][u][j] = i /\ ~(l = k /\ u = t /\ j = z)
      BY <2>4
    <3>2. l = k
      BY <1>3, <2>6, <3>1 DEF IdleMade
    <3>3. u = t /\ j = z
      BY <1>1, <1>3, <1>7, <2>1, <3>1, <3>2 DEF IdleOnce
    <3> QED
      BY <3>1, <3>2, <3>3
  <2>8. \A m \in B : p.shader[m].translator # i
    BY <1>1, <1>3, <1>7, <2>1 DEF IdleNotLent
  <2>9. IdleMade(q)
    BY <1>3, <1>7, <2>4, SMTT(40) DEF IdleMade
  <2>10. IdleOnce(q)
    BY <1>3, <2>4 DEF IdleOnce
  <2>11. LentMade(q, A)
    BY <1>1, <1>3, <1>4, <1>7, <2>6 DEF LentMade
  <2>12. LentOnce(q, A)
    BY <1>1, <1>3, <1>4, <2>8 DEF LentOnce
  <2>13. IdleNotLent(q, A)
    BY <1>1, <1>3, <1>4, <2>4, <2>7 DEF IdleNotLent
  <2>14. NoneLost(q, A)
    <3> SUFFICES ASSUME NEW j \in Translators, p.translator[j].maker # 0, ~\E m \in A : q.shader[m].translator = j
                 PROVE  IdleAt(q, j, p.translator[j].maker)
      BY <1>7 DEF NoneLost
    <3>1. j # i /\ ~\E m \in B : p.shader[m].translator = j
      BY <1>1, <1>4
    <3>2. IdleAt(p, j, p.translator[j].maker) /\ p.translator[j].maker \in Compilers
      BY <1>3, <3>1 DEF NoneLost, CompShape, Made, CompilerIds
    <3>3. PICK u \in Types : \E a \in Slots(p, p.translator[j].maker, u) : p.idle[p.translator[j].maker][u][a] = j
      BY <3>2 DEF IdleAt
    <3>4. PICK a \in Slots(p, p.translator[j].maker, u) : p.idle[p.translator[j].maker][u][a] = j
      BY <3>3
    <3>5. ~(p.translator[j].maker = k /\ u = t /\ a = z)
      BY <1>7, <3>1, <3>4
    <3>6. a \in Slots(q, p.translator[j].maker, u) /\ q.idle[p.translator[j].maker][u][a] = j
      BY <2>5, <3>2, <3>4, <3>5
    <3> QED
      BY <3>6 DEF IdleAt
  <2>15. UnusedEmpty(q)
    <3> SUFFICES ASSUME NEW l \in Compilers \ CompilersInUse(q), NEW u \in Types PROVE q.idle[l][u] = <<>>
      BY DEF UnusedEmpty
    <3>1. p.idle[l][u] = <<>>
      BY DEF UnusedEmpty
    <3>2. Len(p.idle[l][u]) = 0
      BY <3>1
    <3>3. ~(l = k /\ u = t)
      BY <1>7, <3>2
    <3> QED
      BY <1>7, <3>1, <3>3
  <2>16. SameHolds(p, q, B)
    BY <1>7 DEF SameHolds
  <2> QED
    BY <2>9, <2>10, <2>11, <2>12, <2>13, <2>14, <2>15, <2>16 DEF Lending
<1> QED
  BY <1>1, <1>6, <1>7 DEF Gets, k, t

\* The shader n has a translator, but no task yet.
Ready(p, B, n) ==
    /\ CompShape(p) /\ CompilePending(p, n) /\ n \in Names \ B /\ B \subseteq Names
    /\ Pending(p) = B \cup {n} /\ Lending(p, B \cup {n}) /\ UnusedEmpty(p) /\ Working(p, B)
    /\ p.shader[n].asked = p.shader[n].source

LEMMA GetReadies ==
    ASSUME NEW p, NEW B, NEW n, Asking(p, B, n), p.shader[n].compiler \in Compilers, FreeTranslators(p) # {}
    PROVE  Ready(GetInstance(p, n), B, n) /\ SameRest(p, GetInstance(p, n))
<1> DEFINE q == GetInstance(p, n)
           i == InstanceFor(p, n)
           s == [p.shader[n] EXCEPT !.translator = i]
<1>1. /\ CompShape(p) /\ n \in Names /\ Compilable(p.shader[n]) /\ p.shader[n].status = "pending"
      /\ p.shader[n].exists /\ p.shader[n].type \in Types
  BY ShaderParts DEF Asking, CompilePending, IsShader, Compilable
<1>2. GotTo(p, q, n, i)
  BY <1>1, GetEffect DEF Asking, Lending, IsShader
<1> HIDE DEF q, i
<1>3. /\ s.exists /\ s.status = "pending" /\ s.compiler = p.shader[n].compiler /\ s.translator = i
      /\ s.asked = p.shader[n].asked /\ s.source = p.shader[n].source
  BY <1>1 DEF Compilable
<1> HIDE DEF s
<1>4. /\ q.shader[n] = s /\ CompShape(q) /\ SameRest(p, q) /\ q.job = p.job /\ q.compilerOf = p.compilerOf
      /\ \A m \in Names \ {n} : q.shader[m] = p.shader[m]
  BY <1>2 DEF GotTo, s
<1>5. SameLent(p, q, B) /\ n \notin B /\ B \subseteq Names /\ n \in Names \ B
  BY <1>4 DEF SameLent, Asking
<1>6. CompilersInUse(q) = CompilersInUse(p)
  <2>1. \A m \in Names : (IsShader(q, m) <=> IsShader(p, m)) /\ (IsShader(p, m) => q.shader[m].compiler = p.shader[m].compiler)
    BY <1>1, <1>3, <1>4 DEF IsShader
  <2> QED
    BY <1>4, <2>1 DEF CompilersInUse
<1>7. Lending(q, B \cup {n}) /\ UnusedEmpty(q) /\ SameHolds(p, q, B)
  <2>1. Lending(p, B) /\ UnusedEmpty(p)
    BY DEF Asking
  <2>2. q.shader[n].translator = i /\ q.shader[n].compiler = p.shader[n].compiler
    BY <1>3, <1>4
  <2> QED
    BY <1>1, <1>2, <1>5, <1>6, <2>1, <2>2, GetLends
<1>8. Answered(q)
  BY <1>1, <1>3, <1>4 DEF Answered, Asking, Working, IsShader
<1>9. Working(q, B)
  <2>1. Working(p, B) /\ q.workers = p.workers
    BY <1>4 DEF Asking, SameRest
  <2> QED
    BY <1>4, <1>5, <1>7, <1>8, <2>1, WorkSame
<1>10. CompilePending(q, n) /\ Pending(q) = B \cup {n}
  <2>1. Pending(p) = B \cup {n}
    BY DEF Asking
  <2>2. \A m \in Names : CompilePending(q, m) <=> CompilePending(p, m)
    BY <1>1, <1>3, <1>4 DEF CompilePending, IsShader
  <2> QED
    BY <1>1, <2>1, <2>2 DEF Pending, CompilePending, IsShader
<1>11. q.shader[n].asked = q.shader[n].source
  BY <1>3, <1>4 DEF Asking
<1> QED
  BY <1>4, <1>5, <1>7, <1>9, <1>10, <1>11 DEF Ready, q

SameMakers(p, q) == \A i \in Translators : q.translator[i].maker = p.translator[i].maker

\* What translators hold does not matter to who owns them.
LEMMA MakersLend ==
    ASSUME NEW p, NEW B, CompShape(p), Lending(p, B), NEW q, q.idle = p.idle, SameMakers(p, q), SameLent(p, q, B)
    PROVE  Lending(q, B)
<1>1. \A k \in Compilers, t \in Types : Slots(q, k, t) = Slots(p, k, t)
  BY DEF Slots
<1>2. \A k \in Compilers, t \in Types : \A j \in Slots(p, k, t) : p.idle[k][t][j] \in Translators
  <2>1. p.idle \in [Compilers -> [Types -> Seq(Translators)]]
    BY DEF CompShape
  <2> QED
    BY <2>1 DEF Slots
<1>3. \A i \in Translators : p.translator[i].maker \in CompilerIds
  BY DEF CompShape, Made
<1>4. IdleMade(q) /\ IdleOnce(q)
  BY <1>1, <1>2 DEF Lending, IdleMade, IdleOnce, SameMakers
<1>5. LentMade(q, B) /\ LentOnce(q, B)
  BY DEF Lending, LentMade, LentOnce, SameLent, SameMakers
<1>6. IdleNotLent(q, B)
  BY <1>1 DEF Lending, IdleNotLent, SameLent
<1>7. NoneLost(q, B)
  BY <1>1, <1>3 DEF Lending, NoneLost, SameLent, IdleAt, SameMakers, CompilerIds
<1> QED
  BY <1>4, <1>5, <1>6, <1>7 DEF Lending

\* A translator is given something to hold.
LEMMA HoldsShape ==
    ASSUME NEW p, CompShape(p), NEW i \in Translators, NEW x, NEW e, e = [p.translator EXCEPT ![i].holds = x]
    PROVE  /\ e = [j \in Translators |-> e[j]] /\ \A j \in Translators : Made(e[j])
           /\ \A j \in Translators : e[j].maker = p.translator[j].maker
           /\ e[i].holds = x /\ \A j \in Translators \ {i} : e[j] = p.translator[j]
<1>1. p.translator = [j \in Translators |-> p.translator[j]] /\ \A j \in Translators : Made(p.translator[j])
  BY DEF CompShape
<1> DEFINE r == [p.translator[i] EXCEPT !.holds = x]
<1>2. Made(r) /\ r.maker = p.translator[i].maker /\ r.holds = x
  <2>1. Made(p.translator[i])
    BY <1>1
  <2> QED
    BY <2>1 DEF Made
<1>3. e = [p.translator EXCEPT ![i] = r]
  BY <1>1
<1> HIDE DEF r
<1> QED
  BY <1>1, <1>2, <1>3

\* The state after a post: the task of n is new.
PostedTo(p, q, B, n) ==
    /\ CompShape(q) /\ q.idle = p.idle /\ q.shader = p.shader /\ q.compilerOf = p.compilerOf
    /\ q.poolOf = p.poolOf /\ q.waits = p.waits /\ SameMakers(p, q)
    /\ \A m \in Tasks \ {n} : q.job[m] = p.job[m]
    /\ q.job[n] = [translator |-> p.shader[n].translator, source |-> p.shader[n].asked]
    /\ \A j \in Translators : j # p.shader[n].translator => q.translator[j] = p.translator[j]
    /\ WorkersOK(q.workers) /\ AdvancedBut(p.workers, q.workers, n) /\ q.workers.tasks[n].state # "none"
    /\ q.workers.tasks[n].state \in {"left", "done"} =>
         q.translator[p.shader[n].translator].holds = p.shader[n].asked

LEMMA PostEffect ==
    ASSUME NEW p, NEW B, NEW n, Ready(p, B, n), NEW c \in Contexts, p.poolOf[c] \in Pools
    PROVE  PostedTo(p, PostTranslation(p, c, n), B, n)
<1> DEFINE s == p.shader[n]
           k == p.poolOf[c]
           v == PostWorkerTask(p.workers, k, n)
           o == [translator |-> s.translator, source |-> s.source]
           g == [p.job EXCEPT ![n] = o]
           u == [p EXCEPT !.job = g, !.workers = v]
           e == [p.translator EXCEPT ![s.translator].holds = s.source]
           q == PostTranslation(p, c, n)
<1>1. /\ CompShape(p) /\ n \in Names /\ n \in Tasks /\ n \notin B /\ s.asked = s.source
      /\ s.translator \in Translators /\ Working(p, B)
  BY NamesAreTasks DEF Ready, Lending, LentMade
<1>2. p.workers.tasks[n].state = "none" /\ WorkersOK(p.workers)
  BY <1>1 DEF Working, TasksAre
<1>3. /\ WorkersOK(v) /\ AdvancedBut(p.workers, v, n)
      /\ v.tasks[n].state \in IF p.workers.pools[k].async THEN {"queued", "running"} ELSE {"done"}
  BY <1>1, <1>2, PostKeeps
<1>4. g = [j \in Tasks |-> g[j]] /\ g[n] = o /\ \A m \in Tasks \ {n} : g[m] = p.job[m]
  BY <1>1 DEF CompShape
<1>5. /\ e = [j \in Translators |-> e[j]] /\ \A j \in Translators : Made(e[j])
      /\ \A j \in Translators : e[j].maker = p.translator[j].maker
      /\ e[s.translator].holds = s.source /\ \A j \in Translators \ {s.translator} : e[j] = p.translator[j]
  <2> HIDE DEF s
  <2> QED
    BY <1>1, HoldsShape, SMTT(40)
<1>6. q = IF p.workers.pools[k].async THEN u ELSE [u EXCEPT !.translator = e]
  <2>1. u = [p EXCEPT !.job[n] = o, !.workers = v]
    BY <1>1 DEF CompShape, Fields
  <2>2. u.job = g /\ u.translator = p.translator
    BY <1>1 DEF CompShape, Fields
  <2>3. q = IF p.workers.pools[k].async THEN u ELSE RunTranslation(u, n)
    <3> HIDE DEF u, v, k
    <3> QED
      BY <2>1 DEF PostTranslation, v, k
  <2>4. RunTranslation(u, n) = [u EXCEPT !.translator[o.translator].holds = o.source]
    <3> HIDE DEF u, g, o
    <3> QED
      BY <1>4, <2>2 DEF RunTranslation
  <2>5. RunTranslation(u, n) = [u EXCEPT !.translator = e]
    <3> HIDE DEF u
    <3> QED
      BY <2>2, <2>4
  <2> QED
    BY <2>3, <2>5
<1>7. o = [translator |-> s.translator, source |-> s.asked]
  BY <1>1
<1>8. /\ Fields(u) /\ u.idle = p.idle /\ u.translator = p.translator /\ u.shader = p.shader
      /\ u.compilerOf = p.compilerOf /\ u.poolOf = p.poolOf /\ u.waits = p.waits /\ u.workers = v /\ u.job = g
  <2> HIDE DEF v, g
  <2> QED
    BY <1>1 DEF CompShape, Fields
<1> HIDE DEF g, v, q, u, e, o, s
<1>9. CASE p.workers.pools[k].async
  <2>1. q = u /\ v.tasks[n].state \in {"queued", "running"}
    BY <1>3, <1>6, <1>9
  <2>2. CompShape(q)
    BY <1>1, <1>4, <1>8, <2>1 DEF CompShape
  <2> QED
    BY <1>3, <1>4, <1>7, <1>8, <2>1, <2>2 DEF PostedTo, SameMakers, q, s
<1>10. CASE ~p.workers.pools[k].async
  <2>1. q = [u EXCEPT !.translator = e] /\ v.tasks[n].state = "done"
    BY <1>3, <1>6, <1>10
  <2>2. /\ Fields(q) /\ q.idle = p.idle /\ q.translator = e /\ q.shader = p.shader /\ q.compilerOf = p.compilerOf
        /\ q.poolOf = p.poolOf /\ q.waits = p.waits /\ q.workers = v /\ q.job = g
    BY <1>8, <2>1 DEF Fields
  <2>3. CompShape(q)
    BY <1>1, <1>4, <1>5, <2>2 DEF CompShape
  <2> QED
    BY <1>1, <1>3, <1>4, <1>5, <1>7, <2>1, <2>2, <2>3 DEF PostedTo, SameMakers, q, s
<1> QED
  BY <1>9, <1>10

LEMMA PostGood ==
    ASSUME NEW p, NEW B, NEW n, Ready(p, B, n), NEW q, PostedTo(p, q, B, n)
    PROVE  Good(q, {})
<1> DEFINE A == B \cup {n}
<1>1. /\ CompShape(p) /\ n \in Names /\ n \in Tasks /\ n \notin B /\ A \subseteq Names /\ B \subseteq Tasks
      /\ Pending(p) = A /\ Lending(p, A) /\ UnusedEmpty(p) /\ Working(p, B)
  BY NamesAreTasks DEF Ready
<1>2. CompShape(q) /\ q.shader = p.shader /\ q.compilerOf = p.compilerOf /\ q.idle = p.idle /\ SameMakers(p, q)
  BY DEF PostedTo
<1>3. Pending(q) = A /\ CompilersInUse(q) = CompilersInUse(p)
  BY <1>1, <1>2, UsersSame
<1>4. SameLent(p, q, A)
  BY <1>2 DEF SameLent
<1>5. Lending(q, A)
  <2> HIDE DEF A
  <2> QED
    BY <1>1, <1>2, <1>4, MakersLend
<1>6. UnusedEmpty(q)
  BY <1>1, <1>2, <1>3 DEF UnusedEmpty
<1>7. /\ \A i \in Tasks \ {n} : \/ q.workers.tasks[i].state = p.workers.tasks[i].state
                                \/ p.workers.tasks[i].state = "queued" /\ q.workers.tasks[i].state = "running"
      /\ q.workers.tasks[n].state # "none"
  BY DEF PostedTo, AdvancedBut
<1>8. TasksAre(q, A)
  BY <1>1, <1>7 DEF Working, TasksAre
<1>9. JobsAre(q, A)
  <2>1. \A m \in B : q.job[m] = p.job[m] /\ q.shader[m] = p.shader[m]
    BY <1>1, <1>2 DEF PostedTo
  <2>2. q.job[n] = [translator |-> q.shader[n].translator, source |-> q.shader[n].asked]
    BY <1>2 DEF PostedTo
  <2> QED
    BY <1>1, <2>1, <2>2 DEF Working, JobsAre
<1>10. Results(q, A)
  <2>1. \A m \in B : p.shader[m].translator # p.shader[n].translator /\ p.shader[m].translator \in Translators
    BY <1>1 DEF Lending, LentOnce, LentMade
  <2>2. \A m \in B : q.translator[p.shader[m].translator] = p.translator[p.shader[m].translator]
    BY <2>1 DEF PostedTo
  <2>3. \A m \in B : q.workers.tasks[m].state \in {"left", "done"} => p.workers.tasks[m].state \in {"left", "done"}
    BY <1>1, <1>7
  <2>4. \A m \in B : p.workers.tasks[m].state \in {"left", "done"} =>
           p.translator[p.shader[m].translator].holds = p.shader[m].asked
    BY <1>1 DEF Working, Results
  <2>5. q.workers.tasks[n].state \in {"left", "done"} =>
          q.translator[p.shader[n].translator].holds = p.shader[n].asked
    BY DEF PostedTo
  <2> QED
    BY <1>2, <2>2, <2>3, <2>4, <2>5 DEF Results
<1>11. Answered(q)
  BY <1>1, <1>2 DEF Working, Answered, IsShader
<1>12. Working(q, A)
  BY <1>8, <1>9, <1>10, <1>11 DEF Working, PostedTo
<1>13. DoneIn(q, {})
  BY DEF DoneIn
<1> QED
  BY <1>2, <1>3, <1>5, <1>6, <1>12, <1>13 DEF Good, Sound


\* Nothing is waited for.
Waitless(p, q) == Fields(p) => Fields(q) /\ q.waits = p.waits

LEMMA CompileWaits ==
    ASSUME NEW p, NEW n, NEW c
    PROVE  /\ Waitless(p, Ask(p, n)) /\ Waitless(p, BindCompiler(p, c, n))
           /\ Waitless(p, GetInstance(p, n)) /\ Waitless(p, PostTranslation(p, c, n))
<1>1. Waitless(p, Ask(p, n))
  BY DEF Waitless, Ask, Fields
<1>2. \A u : Waitless(u, DropCompilers(u))
  <2> TAKE u
  <2>1. PICK d, e : DropCompilers(u) = [u EXCEPT !.idle = d, !.translator = e]
    BY DEF DropCompilers
  <2> QED
    BY <2>1 DEF Waitless, Fields
<1>3. Waitless(p, BindCompiler(p, c, n))
  <2>1. PICK k : BindCompiler(p, c, n) = DropCompilers([p EXCEPT !.compilerOf[c] = k, !.shader[n].compiler = k])
    BY DEF BindCompiler
  <2> DEFINE u == [p EXCEPT !.compilerOf[c] = k, !.shader[n].compiler = k]
  <2>2. Waitless(p, u)
    BY DEF Waitless, Fields
  <2> HIDE DEF u
  <2>3. Waitless(u, DropCompilers(u))
    BY <1>2
  <2> QED
    BY <2>1, <2>2, <2>3 DEF Waitless, u
<1>4. Waitless(p, GetInstance(p, n))
  <2>1. PICK d, e, f : GetInstance(p, n) = [p EXCEPT !.shader[n].translator = d, !.translator = e, !.idle = f]
    BY DEF GetInstance
  <2> QED
    BY <2>1 DEF Waitless, Fields
<1>5. Waitless(p, PostTranslation(p, c, n))
  <2>1. PICK g, v : \/ PostTranslation(p, c, n) = [p EXCEPT !.job[n] = g, !.workers = v]
                    \/ PostTranslation(p, c, n) = RunTranslation([p EXCEPT !.job[n] = g, !.workers = v], n)
    BY DEF PostTranslation
  <2> DEFINE u == [p EXCEPT !.job[n] = g, !.workers = v]
  <2>2. Waitless(p, u)
    BY DEF Waitless, Fields
  <2> HIDE DEF u
  <2>3. Waitless(u, RunTranslation(u, n))
    BY DEF Waitless, Fields, RunTranslation
  <2>4. PostTranslation(p, c, n) = u \/ PostTranslation(p, c, n) = RunTranslation(u, n)
    BY <2>1 DEF u
  <2> QED
    BY <2>2, <2>3, <2>4 DEF Waitless
<1> QED
  BY <1>1, <1>3, <1>4, <1>5

\* Shader::compile, up to the post and after it.
LEMMA CompilePosts ==
    ASSUME NEW p, NEW D, Good(p, D), NEW n, IsShader(p, n), NEW c \in Contexts, p.poolOf[c] \in Pools,
           FreeTranslators(p) # {}, Compile(p, c, n).waits \subseteq D
    PROVE  LET r == ResolveCompile(p, n)
               g == GetInstance(BindCompiler(Ask(r, n), c, n), n)
           IN  /\ Ready(g, Pending(r), n) /\ g.poolOf = p.poolOf
               /\ PostedTo(g, Compile(p, c, n), Pending(r), n)
<1> DEFINE r == ResolveCompile(p, n)
           a == Ask(r, n)
           b == BindCompiler(a, c, n)
           g == GetInstance(b, n)
           q == PostTranslation(g, c, n)
           B == Pending(r)
<1>1. q = Compile(p, c, n)
  BY DEF Compile
<1>2. /\ Runs(p, r) /\ ~CompilePending(r, n) /\ r.poolOf = p.poolOf /\ FreeTranslators(p) \subseteq FreeTranslators(r)
      /\ IsShader(r, n) /\ Sound(r)
  <2>1. Sound(p)
    BY DEF Good
  <2>2. Runs(p, r) /\ ~CompilePending(r, n) /\ r.poolOf = p.poolOf /\ FreeTranslators(p) \subseteq FreeTranslators(r)
        /\ IsShader(r, n)
    BY <2>1, ResolveGood
  <2> HIDE DEF r
  <2> QED
    BY <2>1, <2>2 DEF Runs
<1>3. Waitless(r, a) /\ Waitless(a, b) /\ Waitless(b, g) /\ Waitless(g, q)
  BY CompileWaits
<1> HIDE DEF r, a, b, g, q, B
<1>4. q.waits = r.waits
  BY <1>2, <1>3 DEF Waitless, Sound, CompShape
<1>5. Good(r, D)
  BY <1>1, <1>2, <1>4 DEF Runs
<1>6. Asking(a, B, n) /\ a.poolOf = r.poolOf /\ FreeTranslators(r) \subseteq FreeTranslators(a)
  BY <1>2, <1>5, AskAsks DEF a, B
<1>7. Asking(b, B, n) /\ SameRest(a, b) /\ b.shader[n].compiler \in Compilers /\ FreeTranslators(a) \subseteq FreeTranslators(b)
  BY <1>6, BindAsks DEF b
<1>8. Ready(g, B, n) /\ SameRest(b, g)
  <2>1. FreeTranslators(b) # {}
    BY <1>2, <1>6, <1>7
  <2> QED
    BY <1>7, <2>1, GetReadies DEF g
<1>9. g.poolOf = p.poolOf
  BY <1>2, <1>6, <1>7, <1>8 DEF SameRest
<1>10. PostedTo(g, q, B, n)
  BY <1>8, <1>9, PostEffect DEF q
<1> QED
  BY <1>1, <1>8, <1>9, <1>10 DEF r, a, b, g, B

LEMMA CompileGood ==
    ASSUME NEW p, NEW D, Good(p, D), NEW n, IsShader(p, n), NEW c \in Contexts, p.poolOf[c] \in Pools,
           FreeTranslators(p) # {}, Compile(p, c, n).waits \subseteq D
    PROVE  LET q == Compile(p, c, n) IN Good(q, {}) /\ q.poolOf = p.poolOf
<1> DEFINE r == ResolveCompile(p, n)
           g == GetInstance(BindCompiler(Ask(r, n), c, n), n)
           q == Compile(p, c, n)
           B == Pending(r)
<1>1. Ready(g, B, n) /\ g.poolOf = p.poolOf /\ PostedTo(g, q, B, n)
  BY CompilePosts
<1> HIDE DEF g, q, B
<1>2. Good(q, {}) /\ q.poolOf = p.poolOf
  BY <1>1, PostGood DEF PostedTo
<1> QED
  BY <1>2 DEF q

-----------------------------------------------------------------------------
(* What compilations do not see, and the end of shaders.                   *)

LEMMA RunsIdle ==
    ASSUME NEW p, ~Sound(p), NEW q
    PROVE  Runs(p, q)
  BY DEF Runs, Good

\* A step that resolves none.
Keeps(p, q) == Runs(p, q) /\ (Sound(p) => q.waits = p.waits)

LEMMA KeepsTrans ==
    ASSUME NEW p, NEW q, NEW r, Keeps(p, q), Keeps(q, r)
    PROVE  Keeps(p, r)
<1>1. Runs(p, r)
  BY RunsTrans DEF Keeps
<1> QED
  BY <1>1 DEF Keeps, Runs

SameView(s, r) ==
    /\ r.exists = s.exists
    /\ s.exists => /\ r.status = s.status /\ r.translator = s.translator /\ r.compiler = s.compiler
                   /\ r.asked = s.asked /\ r.translated = s.translated

SameWork(p, q) ==
    /\ CompShape(q) /\ q.idle = p.idle /\ q.translator = p.translator /\ q.compilerOf = p.compilerOf
    /\ q.workers = p.workers /\ q.job = p.job /\ q.waits = p.waits /\ q.poolOf = p.poolOf
    /\ \A n \in Names : SameView(p.shader[n], q.shader[n])

LEMMA ViewRuns ==
    ASSUME NEW p, NEW q, Sound(p) => SameWork(p, q)
    PROVE  Keeps(p, q)
<1> SUFFICES ASSUME Sound(p), SameWork(p, q) PROVE Keeps(p, q)
  BY RunsIdle DEF Keeps
<1> DEFINE B == Pending(p)
<1>1. /\ \A n \in Names : /\ IsShader(q, n) <=> IsShader(p, n)
                          /\ IsShader(p, n) => q.shader[n].compiler = p.shader[n].compiler
      /\ q.compilerOf = p.compilerOf
  BY DEF SameWork, SameView, IsShader
<1>2. CompilersInUse(q) = CompilersInUse(p)
  BY <1>1 DEF CompilersInUse
<1>3. Pending(q) = B
  BY DEF Pending, SameWork, SameView, CompilePending, IsShader
<1>4. \A n \in B : /\ n \in Names /\ q.shader[n].translator = p.shader[n].translator
                   /\ q.shader[n].compiler = p.shader[n].compiler /\ q.shader[n].asked = p.shader[n].asked
  BY DEF SameWork, SameView, Pending, CompilePending, IsShader
<1>5. /\ q.idle = p.idle /\ q.translator = p.translator /\ q.workers = p.workers /\ q.job = p.job
      /\ q.waits = p.waits /\ q.poolOf = p.poolOf /\ CompShape(q)
  BY DEF SameWork
<1>6. \A k, t : Slots(q, k, t) = Slots(p, k, t)
  BY <1>5 DEF Slots
<1> HIDE DEF B
<1>7. Lending(p, B) /\ UnusedEmpty(p)
  BY DEF Sound, B
<1>8. Lending(q, B)
  <2>1. IdleMade(q) /\ IdleOnce(q)
    BY <1>5, <1>6, <1>7 DEF Lending, IdleMade, IdleOnce
  <2>2. LentMade(q, B) /\ LentOnce(q, B)
    BY <1>4, <1>5, <1>7 DEF Lending, LentMade, LentOnce
  <2>3. IdleNotLent(q, B)
    BY <1>4, <1>5, <1>6, <1>7 DEF Lending, IdleNotLent
  <2>4. NoneLost(q, B)
    BY <1>4, <1>5, <1>6, <1>7 DEF Lending, NoneLost, IdleAt
  <2> QED
    BY <2>1, <2>2, <2>3, <2>4 DEF Lending
<1>9. Sound(q)
  BY <1>2, <1>3, <1>5, <1>7, <1>8 DEF Sound, UnusedEmpty
<1>10. ASSUME NEW D, Good(p, D) PROVE Good(q, D)
  <2>1. Working(p, B) /\ DoneIn(p, D)
    BY <1>10 DEF Good, B
  <2>2. TasksAre(q, B) /\ WorkersOK(q.workers) /\ DoneIn(q, D)
    BY <1>5, <2>1 DEF Working, TasksAre, DoneIn
  <2>3. JobsAre(q, B) /\ Results(q, B)
    BY <1>4, <1>5, <2>1 DEF Working, JobsAre, Results
  <2>4. Answered(q)
    BY <2>1 DEF Working, Answered, SameWork, SameView, IsShader
  <2> QED
    BY <1>3, <1>9, <2>2, <2>3, <2>4 DEF Good, Working
<1> QED
  BY <1>5, <1>9, <1>10 DEF Runs, Keeps

\* Names, programs and what contexts use do not matter.
LEMMA OtherRuns ==
    ASSUME NEW p, NEW x
    PROVE  /\ Keeps(p, [p EXCEPT !.alloc = x]) /\ Keeps(p, [p EXCEPT !.program = x])
           /\ Keeps(p, [p EXCEPT !.current = x])
<1>1. ASSUME NEW q \in {[p EXCEPT !.alloc = x], [p EXCEPT !.program = x], [p EXCEPT !.current = x]}, Sound(p)
      PROVE  SameWork(p, q)
  <2>1. CompShape(p)
    BY <1>1 DEF Sound
  <2>2. /\ Fields(q) /\ q.shader = p.shader
        /\ q.idle = p.idle /\ q.translator = p.translator /\ q.compilerOf = p.compilerOf
        /\ q.workers = p.workers /\ q.job = p.job /\ q.waits = p.waits /\ q.poolOf = p.poolOf
    BY <2>1 DEF CompShape, Fields
  <2>3. CompShape(q)
    BY <2>1, <2>2 DEF CompShape
  <2> QED
    BY <2>2, <2>3 DEF SameWork, SameView
<1> QED
  BY <1>1, ViewRuns

\* Nor do the source of a shader, its references and its flag.
LEMMA FieldRuns ==
    ASSUME NEW p, NEW n, NEW x
    PROVE  /\ Keeps(p, [p EXCEPT !.shader[n].refs = x]) /\ Keeps(p, [p EXCEPT !.shader[n].flagged = x])
           /\ Keeps(p, [p EXCEPT !.shader[n].source = x])
<1>1. ASSUME NEW q \in {[p EXCEPT !.shader[n].refs = x], [p EXCEPT !.shader[n].flagged = x],
                        [p EXCEPT !.shader[n].source = x]}, Sound(p)
      PROVE  SameWork(p, q)
  <2> DEFINE o == p.shader[n]
  <2>1. CompShape(p)
    BY <1>1 DEF Sound
  <2>2. PICK s \in {[o EXCEPT !.refs = x], [o EXCEPT !.flagged = x], [o EXCEPT !.source = x]} :
           q = [p EXCEPT !.shader = [p.shader EXCEPT ![n] = s]]
    BY <2>1 DEF CompShape, Fields
  <2>3. /\ Fields(q) /\ q.idle = p.idle /\ q.translator = p.translator /\ q.compilerOf = p.compilerOf
        /\ q.workers = p.workers /\ q.job = p.job /\ q.waits = p.waits /\ q.poolOf = p.poolOf
        /\ q.shader = [p.shader EXCEPT ![n] = s]
    BY <2>1, <2>2 DEF CompShape, Fields
  <2>4. CASE n \in Names
    <3>1. (Compilable(s) \/ s = NoShader) /\ SameView(o, s)
      <4>1. CASE Compilable(o)
        BY <2>2, <4>1 DEF Compilable, SameView
      <4>2. CASE o = NoShader
        <5>1. s = o
          BY <2>2, <4>2 DEF NoShader
        <5> QED
          BY <4>2, <5>1 DEF SameView
      <4> QED
        BY <2>1, <2>4, <4>1, <4>2 DEF CompShape
    <3>2. /\ q.shader = [m \in Names |-> q.shader[m]] /\ \A m \in Names : q.shader[m] = NoShader \/ Compilable(q.shader[m])
          /\ q.shader[n] = s /\ \A m \in Names \ {n} : q.shader[m] = p.shader[m]
      BY <2>1, <2>3, <2>4, <3>1, ShaderShapes
    <3>3. CompShape(q)
      BY <2>1, <2>3, <3>2 DEF CompShape
    <3>4. \A m \in Names : SameView(p.shader[m], q.shader[m])
      BY <3>1, <3>2 DEF SameView
    <3> QED
      BY <2>3, <3>3, <3>4 DEF SameWork
  <2>5. CASE n \notin Names
    <3>1. q.shader = p.shader
      BY <2>1, <2>3, <2>5 DEF CompShape
    <3>2. CompShape(q)
      BY <2>1, <2>3, <3>1 DEF CompShape
    <3> QED
      BY <2>3, <3>1, <3>2 DEF SameWork, SameView
  <2> QED
    BY <2>4, <2>5
<1> QED
  BY <1>1, ViewRuns

\* A shader that is not being compiled goes, with the compilers nobody needs then.
LEMMA EraseRuns ==
    ASSUME NEW p, NEW n, Sound(p) => ~CompilePending(p, n), NEW x
    PROVE  Runs(p, DropCompilers([p EXCEPT !.shader[n] = NoShader, !.alloc = x]))
<1> SUFFICES ASSUME Sound(p), ~CompilePending(p, n)
             PROVE  Runs(p, DropCompilers([p EXCEPT !.shader[n] = NoShader, !.alloc = x]))
  BY RunsIdle
<1> DEFINE u == [p EXCEPT !.shader[n] = NoShader, !.alloc = x]
           q == DropCompilers(u)
           B == Pending(p)
<1>1. CompShape(p)
  BY DEF Sound
<1>2. /\ Fields(u) /\ u.idle = p.idle /\ u.translator = p.translator /\ u.compilerOf = p.compilerOf
      /\ u.workers = p.workers /\ u.job = p.job /\ u.waits = p.waits /\ u.poolOf = p.poolOf
      /\ u.shader = [p.shader EXCEPT ![n] = NoShader]
  BY <1>1 DEF CompShape, Fields
<1> HIDE DEF u
<1>3. CompShape(u) /\ \A m \in Names : u.shader[m] = IF m = n THEN NoShader ELSE p.shader[m]
  <2>1. CASE n \in Names
    <3>1. /\ u.shader = [m \in Names |-> u.shader[m]] /\ \A m \in Names : u.shader[m] = NoShader \/ Compilable(u.shader[m])
          /\ u.shader[n] = NoShader /\ \A m \in Names \ {n} : u.shader[m] = p.shader[m]
      BY <1>1, <1>2, <2>1, ShaderShapes
    <3> QED
      BY <1>1, <1>2, <3>1 DEF CompShape
  <2>2. CASE n \notin Names
    <3>1. u.shader = p.shader
      BY <1>1, <1>2, <2>2 DEF CompShape
    <3> QED
      BY <1>1, <1>2, <2>2, <3>1 DEF CompShape
  <2> QED
    BY <2>1, <2>2
<1>4. Pending(u) = B /\ SameLent(p, u, B)
  <2>1. ~NoShader.exists
    BY DEF NoShader
  <2> QED
    BY <1>3, <2>1 DEF Pending, CompilePending, IsShader, SameLent
<1> HIDE DEF B
<1>5. Lending(u, B) /\ SameHolds(p, u, B)
  <2>1. Lending(p, B)
    BY DEF Sound, B
  <2> QED
    BY <1>2, <1>4, <2>1, SameLends
<1>6. DroppedTo(u, q)
  BY <1>3, DropEffect
<1> HIDE DEF q
<1>7. /\ Lending(q, B) /\ UnusedEmpty(q)
      /\ \A m \in B : q.translator[u.shader[m].translator] = u.translator[u.shader[m].translator]
  BY <1>3, <1>5, <1>6, DropLends
<1>8. CompShape(q) /\ q.shader = u.shader /\ q.compilerOf = u.compilerOf /\ q.workers = p.workers
      /\ q.job = p.job /\ q.waits = p.waits /\ q.poolOf = p.poolOf
  BY <1>2, <1>6 DEF DroppedTo
<1>9. Pending(q) = B
  BY <1>4, <1>8, UsersSame
<1>10. Sound(q)
  BY <1>7, <1>8, <1>9 DEF Sound
<1>11. ASSUME NEW D, Good(p, D) PROVE Good(q, D)
  <2>1. Working(p, B) /\ DoneIn(p, D)
    BY <1>11 DEF Good, B
  <2>2. SameLent(p, q, B) /\ SameHolds(p, q, B)
    BY <1>2, <1>4, <1>7, <1>8 DEF SameLent, SameHolds
  <2>3. Answered(q)
    <3>1. ~NoShader.exists
      BY DEF NoShader
    <3> QED
      BY <1>3, <1>8, <2>1, <3>1 DEF Answered, Working, IsShader
  <2>4. Working(q, B)
    BY <1>8, <2>1, <2>2, <2>3, WorkSame
  <2>5. DoneIn(q, D)
    BY <1>8, <2>1 DEF DoneIn
  <2> QED
    BY <1>9, <1>10, <2>4, <2>5 DEF Good
<1> QED
  BY <1>8, <1>10, <1>11 DEF Runs, q, u

LEMMA DestroyShaderRuns ==
    ASSUME NEW p, NEW n
    PROVE  Runs(p, DestroyShader(p, n))
<1> DEFINE r == ResolveCompile(p, n)
<1>1. Runs(p, r) /\ (Sound(p) => ~CompilePending(r, n))
  BY ResolveGood
<1>2. CASE Sound(p)
  <2> HIDE DEF r
  <2>1. ~CompilePending(r, n)
    BY <1>1, <1>2
  <2>2. \A x : Runs(r, DropCompilers([r EXCEPT !.shader[n] = NoShader, !.alloc = x]))
    BY <2>1, EraseRuns
  <2>3. PICK x : DestroyShader(p, n) = DropCompilers([r EXCEPT !.shader[n] = NoShader, !.alloc = x])
    BY DEF DestroyShader, r
  <2> DEFINE q == DropCompilers([r EXCEPT !.shader[n] = NoShader, !.alloc = x])
  <2>4. Runs(r, q)
    BY <2>2
  <2> HIDE DEF q
  <2>5. Runs(p, q)
    BY <1>1, <2>4, RunsTrans
  <2> QED
    BY <2>3, <2>5 DEF q
<1>3. CASE ~Sound(p)
  BY <1>3, RunsIdle
<1> QED
  BY <1>2, <1>3

LEMMA ReleaseShaderRuns ==
    ASSUME NEW p, NEW n
    PROVE  Runs(p, ReleaseShader(p, n)) /\ Runs(p, DeleteShaderObject(p, n))
<1> DEFINE y == p.shader[n].refs - 1
           u == [p EXCEPT !.shader[n].refs = 0]
           v == [p EXCEPT !.shader[n].refs = y]
           w == [p EXCEPT !.shader[n].flagged = TRUE]
<1>1. Runs(p, u) /\ Runs(p, v) /\ Runs(p, w)
  <2> HIDE DEF y
  <2> QED
    BY FieldRuns DEF Keeps
<1>2. ReleaseShader(p, n) = DestroyShader(u, n) \/ ReleaseShader(p, n) = v
  BY DEF ReleaseShader
<1>3. DeleteShaderObject(p, n) = DestroyShader(p, n) \/ DeleteShaderObject(p, n) = w
  BY DEF DeleteShaderObject
<1> HIDE DEF u, v, w
<1>4. Runs(p, DestroyShader(u, n))
  <2>1. Runs(u, DestroyShader(u, n))
    BY DestroyShaderRuns
  <2> QED
    BY <1>1, <2>1, RunsTrans
<1>5. Runs(p, DestroyShader(p, n))
  BY DestroyShaderRuns
<1> QED
  BY <1>1, <1>2, <1>3, <1>4, <1>5

-----------------------------------------------------------------------------
(* Programs.                                                               *)

LEMMA LinkResolvedKeeps ==
    ASSUME NEW p, NEW n
    PROVE  Keeps(p, ResolveLink(p, n))
<1>1. PICK x : ResolveLink(p, n) = p \/ ResolveLink(p, n) = [p EXCEPT !.program = x]
  BY DEF ResolveLink
<1> DEFINE u == [p EXCEPT !.program = x]
<1>2. Keeps(p, u)
  BY OtherRuns
<1>3. ResolveLink(p, n) = p \/ ResolveLink(p, n) = u
  BY <1>1
<1> HIDE DEF u
<1> QED
  BY <1>2, <1>3, RunsSame DEF Keeps

LEMMA ResolveLinkRuns == \A p, n : Runs(p, ResolveLink(p, n))
  BY LinkResolvedKeeps DEF Keeps

LEMMA ResolveShadersRuns ==
    ASSUME NEW p, NEW n
    PROVE  Runs(p, ResolveShaders(p, n))
<1> DEFINE s == ShadersToLink(p, n)
           q == ResolveCompile(p, s[1])
           r == ResolveCompile(q, Last(s))
<1>1. ResolveShaders(p, n) = q \/ ResolveShaders(p, n) = r
  BY DEF ResolveShaders
<1>2. Runs(p, q) /\ Runs(q, r)
  BY ResolveGood
<1> HIDE DEF q, r
<1> QED
  BY <1>1, <1>2, RunsTrans

LEMMA LinkRuns ==
    ASSUME NEW p, NEW n, NEW outcome
    PROVE  Runs(p, Link(p, n, outcome))
<1> DEFINE l == ResolveLink(p, n)
           a == [l EXCEPT !.program[n].linked = FALSE]
           q == ResolveShaders(a, n)
           b == [q EXCEPT !.program[n].resolved = FALSE, !.program[n].outcome = outcome]
           z == LinkProgramObject(p, n, outcome)
<1>1. Runs(p, l)
  BY ResolveLinkRuns
<1>2. z = a \/ z = b \/ z = q
  BY DEF LinkProgramObject
<1> HIDE DEF l
<1>3. Runs(l, a)
  <2>1. PICK x : a = [l EXCEPT !.program = x]
    OBVIOUS
  <2> HIDE DEF a
  <2>2. \A w : Runs(l, [l EXCEPT !.program = x])
    BY OtherRuns DEF Keeps
  <2> QED
    BY <2>1, <2>2
<1> HIDE DEF a
<1>4. Runs(a, q)
  BY ResolveShadersRuns
<1> HIDE DEF q
<1>5. Runs(q, b)
  <2>1. PICK x : b = [q EXCEPT !.program = x]
    OBVIOUS
  <2> HIDE DEF b
  <2>2. \A w : Runs(q, [q EXCEPT !.program = x])
    BY OtherRuns DEF Keeps
  <2> QED
    BY <2>1, <2>2
<1> HIDE DEF b, z
<1>6. Runs(p, a) /\ Runs(p, q) /\ Runs(p, b)
  <2>1. Runs(p, a)
    BY <1>1, <1>3, RunsTrans
  <2>2. Runs(p, q)
    BY <1>4, <2>1, RunsTrans
  <2>3. Runs(p, b)
    BY <1>5, <2>2, RunsTrans
  <2> QED
    BY <2>1, <2>2, <2>3
<1>7. Runs(p, z)
  BY <1>2, <1>6
<1>8. Runs(z, ResolveLink(z, n))
  BY ResolveLinkRuns
<1>9. Runs(p, ResolveLink(z, n))
  BY <1>7, <1>8, RunsTrans
<1>10. Link(p, n, outcome) = z \/ Link(p, n, outcome) = ResolveLink(z, n)
  BY DEF Link, z
<1> QED
  BY <1>7, <1>9, <1>10

LEMMA ReleaseAttachedRuns ==
    ASSUME NEW p, NEW n, NEW t
    PROVE  Runs(p, ReleaseAttached(p, n, t))
<1>1. Runs(p, ReleaseShader(p, p.program[n].shaders[t]))
  BY ReleaseShaderRuns
<1> QED
  BY <1>1, RunsSame DEF ReleaseAttached

LEMMA DestroyProgramRuns ==
    ASSUME NEW p, NEW n
    PROVE  Runs(p, DestroyProgram(p, n))
<1> DEFINE l == ResolveLink(p, n)
           v == ReleaseAttached(l, n, "vertex")
           f == ReleaseAttached(v, n, "fragment")
           g == ReleaseAttached(f, n, "compute")
<1>1. Runs(p, l) /\ Runs(l, v) /\ Runs(v, f) /\ Runs(f, g)
  BY ResolveLinkRuns, ReleaseAttachedRuns
<1>2. PICK x, y : DestroyProgram(p, n) = [g EXCEPT !.program = x, !.alloc = y]
  BY DEF DestroyProgram
<1> HIDE DEF l, v, f, g
<1>3. Runs(p, g)
  <2>1. Runs(p, v)
    BY <1>1, RunsTrans
  <2>2. Runs(p, f)
    BY <1>1, <2>1, RunsTrans
  <2> QED
    BY <1>1, <2>2, RunsTrans
<1> DEFINE u == [g EXCEPT !.program = x]
           z == [u EXCEPT !.alloc = y]
<1>4. Runs(g, u)
  BY OtherRuns DEF Keeps
<1>5. z = [g EXCEPT !.program = x, !.alloc = y]
  OBVIOUS
<1> HIDE DEF u
<1>6. Runs(u, z)
  BY OtherRuns DEF Keeps
<1> HIDE DEF z
<1>7. Runs(p, z)
  <2>1. Runs(p, u)
    BY <1>3, <1>4, RunsTrans
  <2> QED
    BY <1>6, <2>1, RunsTrans
<1> QED
  BY <1>2, <1>5, <1>7

LEMMA DeleteProgramRuns ==
    ASSUME NEW p, NEW n
    PROVE  Runs(p, DeleteProgramObject(p, n)) /\ Runs(p, ReleaseProgram(p, n))
<1> DEFINE l == ResolveLink(p, n)
           a == [l EXCEPT !.program[n].flagged = TRUE]
           u == [p EXCEPT !.program[n].refs = 0]
           b == [p EXCEPT !.program[n].refs = p.program[n].refs - 1]
<1>1. Runs(p, l)
  BY ResolveLinkRuns
<1>2. DeleteProgramObject(p, n) = DestroyProgram(p, n) \/ DeleteProgramObject(p, n) = a
  BY DEF DeleteProgramObject
<1>3. ReleaseProgram(p, n) = DestroyProgram(u, n) \/ ReleaseProgram(p, n) = b
  BY DEF ReleaseProgram
<1> HIDE DEF l
<1>4. PICK x, y, z : a = [l EXCEPT !.program = x] /\ u = [p EXCEPT !.program = y] /\ b = [p EXCEPT !.program = z]
  OBVIOUS
<1> HIDE DEF a, u, b
<1>5. Runs(l, a) /\ Runs(p, u) /\ Runs(p, b)
  <2>1. \A w : Runs(l, [l EXCEPT !.program = x]) /\ Runs(p, [p EXCEPT !.program = y])
               /\ Runs(p, [p EXCEPT !.program = z])
    BY OtherRuns DEF Keeps
  <2> QED
    BY <1>4, <2>1
<1>6. Runs(p, DestroyProgram(p, n)) /\ Runs(u, DestroyProgram(u, n))
  BY DestroyProgramRuns
<1>7. Runs(p, a) /\ Runs(p, DestroyProgram(u, n))
  BY <1>1, <1>5, <1>6, RunsTrans
<1> QED
  BY <1>2, <1>3, <1>5, <1>6, <1>7

LEMMA LeaveRuns ==
    ASSUME NEW p, NEW c
    PROVE  Runs(p, LeaveProgram(p, c))
<1> DEFINE u == [p EXCEPT !.current[c] = 0]
<1>1. LeaveProgram(p, c) = p \/ LeaveProgram(p, c) = ReleaseProgram(u, p.current[c])
  BY DEF LeaveProgram
<1>2. PICK x : u = [p EXCEPT !.current = x]
  OBVIOUS
<1> HIDE DEF u
<1>3. Runs(p, u)
  <2>1. \A w : Runs(p, [p EXCEPT !.current = x])
    BY OtherRuns DEF Keeps
  <2> QED
    BY <1>2, <2>1
<1>4. Runs(u, ReleaseProgram(u, p.current[c]))
  BY DeleteProgramRuns
<1>5. Runs(p, ReleaseProgram(u, p.current[c]))
  BY <1>3, <1>4, RunsTrans
<1> QED
  BY <1>1, <1>5, RunsSame

LEMMA SetProgramRuns ==
    ASSUME NEW p, NEW c, NEW n
    PROVE  Runs(p, SetProgram(p, c, n))
<1> DEFINE q == LeaveProgram(p, c)
           r == [q EXCEPT !.current[c] = n, !.program[n].refs = @ + 1]
<1>1. SetProgram(p, c, n) = p \/ SetProgram(p, c, n) = q \/ SetProgram(p, c, n) = r
  BY DEF SetProgram
<1>2. Runs(p, q)
  BY LeaveRuns
<1> HIDE DEF q
<1>3. PICK x, y : r = [q EXCEPT !.current = x, !.program = y]
  OBVIOUS
<1> DEFINE u == [q EXCEPT !.current = x]
           v == [u EXCEPT !.program = y]
<1>4. r = v
  BY <1>3
<1> HIDE DEF r
<1>5. Runs(q, u)
  BY OtherRuns DEF Keeps
<1> HIDE DEF u
<1>6. Runs(u, v)
  BY OtherRuns DEF Keeps
<1> HIDE DEF v
<1>7. Runs(p, v)
  <2>1. Runs(p, u)
    BY <1>2, <1>5, RunsTrans
  <2> QED
    BY <1>6, <2>1, RunsTrans
<1> QED
  BY <1>1, <1>2, <1>4, <1>7, RunsSame

LEMMA DetachRuns ==
    ASSUME NEW p, NEW n, NEW s, NEW t
    PROVE  Runs(p, [ReleaseShader(ResolveLink(p, n), s) EXCEPT !.program[n].shaders[t] = 0])
<1> DEFINE l == ResolveLink(p, n)
           r == ReleaseShader(l, s)
           z == [r EXCEPT !.program[n].shaders[t] = 0]
<1>1. Runs(p, l) /\ Runs(l, r)
  BY ResolveLinkRuns, ReleaseShaderRuns
<1> HIDE DEF l, r
<1>2. PICK x : z = [r EXCEPT !.program = x]
  OBVIOUS
<1>3. Runs(r, z)
  <2> HIDE DEF z
  <2>1. \A w : Runs(r, [r EXCEPT !.program = x])
    BY OtherRuns DEF Keeps
  <2> QED
    BY <1>2, <2>1
<1> HIDE DEF z
<1>4. Runs(p, z)
  <2>1. Runs(p, r)
    BY <1>1, RunsTrans
  <2> QED
    BY <1>3, <2>1, RunsTrans
<1> QED
  BY <1>4 DEF z, r, l

(* The reset of the managers.                                              *)

LEMMA ClearedRuns ==
    ASSUME NEW p, NEW n
    PROVE  Runs(p, ProgramCleared(p, n)) /\ Runs(p, ShaderCleared(p, n))
  BY DeleteProgramRuns, ReleaseShaderRuns, RunsSame DEF ProgramCleared, ShaderCleared

\* What every step of a loop runs, the loop runs.
LEMMA LoopRuns ==
    ASSUME NEW p, NEW f, f[0] = p, \A k \in 1..MaxName : Runs(f[k - 1], f[k])
    PROVE  Runs(p, f[MaxName])
<1>1. MaxName \in Nat /\ MaxName \in 0..MaxName
  BY NameAssumption
<1> DEFINE Bad == {k \in 0..MaxName : ~Runs(p, f[k])}
<1>2. SUFFICES ASSUME Bad # {} PROVE FALSE
  BY <1>1
<1> DEFINE k == Lowest(Bad)
<1>3. k \in Bad /\ \A m \in Bad : k <= m
  <2>1. Bad \subseteq Nat
    BY <1>1
  <2> HIDE DEF Bad
  <2> QED
    BY <1>2, <2>1, LowestName
<1> HIDE DEF k
<1>4. k \in 0..MaxName /\ ~Runs(p, f[k])
  BY <1>3
<1>5. k # 0
  BY <1>4, RunsSame
<1>6. k - 1 \in 0..MaxName /\ ~(k <= k - 1) /\ k \in 1..MaxName
  BY <1>1, <1>4, <1>5
<1>7. Runs(p, f[k - 1]) /\ Runs(f[k - 1], f[k])
  BY <1>3, <1>6
<1> QED
  BY <1>4, <1>7, RunsTrans

LEMMA ClearRuns ==
    ASSUME NEW p
    PROVE  Runs(p, ClearPrograms(p)) /\ Runs(p, ClearShaders(p))
<1>1. MaxName \in Nat
  BY NameAssumption
<1>2. Runs(p, ClearPrograms(p))
  <2> DEFINE f == CHOOSE g : ProgramLoop(g, p, MaxName)
  <2>1. ProgramLoop(f, p, MaxName) /\ ClearPrograms(p) = f[MaxName]
    BY <1>1, ProgramLoopExists, ClearProgramsIsLoop
  <2> HIDE DEF f
  <2>2. \A n \in 0..MaxName : f[n] = IF n = 0 THEN p ELSE ProgramCleared(f[n - 1], n)
    BY <2>1 DEF ProgramLoop
  <2>3. f[0] = p /\ \A n \in 1..MaxName : f[n] = ProgramCleared(f[n - 1], n)
    BY <1>1, <2>2
  <2>4. \A n \in 1..MaxName : Runs(f[n - 1], f[n])
    BY <2>3, ClearedRuns
  <2> QED
    BY <2>1, <2>3, <2>4, LoopRuns
<1>3. Runs(p, ClearShaders(p))
  <2> DEFINE f == CHOOSE g : ShaderLoop(g, p, MaxName)
  <2>1. ShaderLoop(f, p, MaxName) /\ ClearShaders(p) = f[MaxName]
    BY <1>1, ShaderLoopExists, ClearShadersIsLoop
  <2> HIDE DEF f
  <2>2. \A n \in 0..MaxName : f[n] = IF n = 0 THEN p ELSE ShaderCleared(f[n - 1], n)
    BY <2>1 DEF ShaderLoop
  <2>3. f[0] = p /\ \A n \in 1..MaxName : f[n] = ShaderCleared(f[n - 1], n)
    BY <1>1, <2>2
  <2>4. \A n \in 1..MaxName : Runs(f[n - 1], f[n])
    BY <2>3, ClearedRuns
  <2> QED
    BY <2>1, <2>3, <2>4, LoopRuns
<1> QED
  BY <1>2, <1>3

LEMMA ResetRuns ==
    ASSUME NEW p
    PROVE  Runs(p, ResetPrograms(p))
<1> DEFINE q == ClearPrograms(p)
<1>1. Runs(p, q) /\ Runs(q, ClearShaders(q))
  BY ClearRuns
<1>2. ResetPrograms(p) = q \/ ResetPrograms(p) = ClearShaders(q)
  BY DEF ResetPrograms
<1> HIDE DEF q
<1> QED
  BY <1>1, <1>2, RunsTrans

-----------------------------------------------------------------------------
(* What the entry points do besides.                                       *)

\* The compiler of a context goes.
LEMMA UnbindRuns ==
    ASSUME NEW p, NEW c
    PROVE  Keeps(p, DropCompilers([p EXCEPT !.compilerOf[c] = 0]))
<1> SUFFICES ASSUME Sound(p) PROVE Keeps(p, DropCompilers([p EXCEPT !.compilerOf[c] = 0]))
  BY RunsIdle DEF Keeps
<1> DEFINE u == [p EXCEPT !.compilerOf[c] = 0]
           q == DropCompilers(u)
           B == Pending(p)
<1>1. CompShape(p)
  BY DEF Sound
<1>2. /\ Fields(u) /\ u.idle = p.idle /\ u.translator = p.translator /\ u.compilerOf = [p.compilerOf EXCEPT ![c] = 0]
      /\ u.workers = p.workers /\ u.job = p.job /\ u.waits = p.waits /\ u.poolOf = p.poolOf
      /\ u.shader = p.shader
  BY <1>1 DEF CompShape, Fields
<1> HIDE DEF u
<1>3. u.compilerOf \in [Contexts -> CompilerIds]
  BY <1>1, <1>2 DEF CompShape, CompilerIds
<1>4. CompShape(u)
  BY <1>1, <1>2, <1>3 DEF CompShape
<1>5. Pending(u) = B /\ SameLent(p, u, B)
  BY <1>2 DEF Pending, CompilePending, IsShader, SameLent
<1> HIDE DEF B
<1>6. Lending(u, B) /\ SameHolds(p, u, B)
  <2>1. Lending(p, B)
    BY DEF Sound, B
  <2> QED
    BY <1>2, <1>5, <2>1, SameLends
<1>7. DroppedTo(u, q)
  BY <1>4, DropEffect
<1> HIDE DEF q
<1>8. /\ Lending(q, B) /\ UnusedEmpty(q)
      /\ \A m \in B : q.translator[u.shader[m].translator] = u.translator[u.shader[m].translator]
  BY <1>4, <1>6, <1>7, DropLends
<1>9. CompShape(q) /\ q.shader = p.shader /\ q.compilerOf = u.compilerOf /\ q.workers = p.workers
      /\ q.job = p.job /\ q.waits = p.waits /\ q.poolOf = p.poolOf
  BY <1>2, <1>7 DEF DroppedTo
<1>10. Pending(q) = B
  BY <1>5, <1>2, <1>9, UsersSame
<1>11. Sound(q)
  BY <1>8, <1>9, <1>10 DEF Sound
<1>12. ASSUME NEW D, Good(p, D) PROVE Good(q, D)
  <2>1. Working(p, B) /\ DoneIn(p, D)
    BY <1>12 DEF Good, B
  <2>2. SameLent(p, q, B) /\ SameHolds(p, q, B)
    BY <1>2, <1>6, <1>8, <1>9 DEF SameLent, SameHolds
  <2>3. Answered(q)
    BY <1>9, <2>1 DEF Answered, Working, IsShader
  <2>4. Working(q, B)
    BY <1>9, <2>1, <2>2, <2>3, WorkSame
  <2>5. DoneIn(q, D)
    BY <1>9, <2>1 DEF DoneIn
  <2> QED
    BY <1>10, <1>11, <2>4, <2>5 DEF Good
<1> QED
  BY <1>9, <1>11, <1>12 DEF Runs, Keeps, q, u

\* A shader is new.
LEMMA AddRuns ==
    ASSUME NEW p, NEW n \in Names, ~IsShader(p, n), NEW type \in Types, NEW source, NEW x
    PROVE  Keeps(p, [p EXCEPT !.alloc = x, !.shader[n] = NewShader(type, source)])
<1> SUFFICES ASSUME Sound(p) PROVE Keeps(p, [p EXCEPT !.alloc = x, !.shader[n] = NewShader(type, source)])
  BY RunsIdle DEF Keeps
<1> DEFINE s == NewShader(type, source)
           q == [p EXCEPT !.alloc = x, !.shader[n] = s]
           B == Pending(p)
<1>1. CompShape(p)
  BY DEF Sound
<1>2. Compilable(s) /\ s.exists /\ s.status = "not compiled" /\ s.asked = s.translated
  BY DEF Compilable, NewShader, CompilerIds
<1> HIDE DEF s
<1>3. /\ Fields(q) /\ q.idle = p.idle /\ q.translator = p.translator /\ q.compilerOf = p.compilerOf
      /\ q.workers = p.workers /\ q.job = p.job /\ q.waits = p.waits /\ q.poolOf = p.poolOf
      /\ q.shader = [p.shader EXCEPT ![n] = s]
  BY <1>1 DEF CompShape, Fields
<1> HIDE DEF q
<1>4. CompShape(q) /\ q.shader[n] = s /\ \A m \in Names \ {n} : q.shader[m] = p.shader[m]
  <2>1. PICK f : f = [p.shader EXCEPT ![n] = s] /\ (Compilable(s) \/ s = NoShader)
    BY <1>2
  <2>2. /\ f = [m \in Names |-> f[m]] /\ \A m \in Names : f[m] = NoShader \/ Compilable(f[m])
        /\ f[n] = s /\ \A m \in Names \ {n} : f[m] = p.shader[m]
    BY <1>1, <2>1, ShaderShapes
  <2>3. CompShape(q)
    BY <1>1, <1>3, <2>1, <2>2 DEF CompShape
  <2> QED
    BY <1>3, <2>1, <2>2, <2>3
<1>5. Pending(q) = B /\ n \notin B /\ B \subseteq Names
  BY <1>2, <1>4 DEF Pending, CompilePending, IsShader
<1>6. SameLent(p, q, B)
  BY <1>4, <1>5 DEF SameLent
<1>7. CompilersInUse(p) \subseteq CompilersInUse(q)
  <2>1. \A m \in Names : IsShader(p, m) => IsShader(q, m) /\ q.shader[m].compiler = p.shader[m].compiler
    BY <1>4 DEF IsShader
  <2> QED
    BY <1>3, <2>1 DEF CompilersInUse
<1> HIDE DEF B
<1>8. Lending(p, B) /\ UnusedEmpty(p)
  BY DEF Sound, B
<1>9. Lending(q, B) /\ SameHolds(p, q, B)
  BY <1>3, <1>6, <1>8, SameLends
<1>10. Sound(q)
  BY <1>3, <1>4, <1>5, <1>7, <1>8, <1>9 DEF Sound, UnusedEmpty
<1>11. ASSUME NEW D, Good(p, D) PROVE Good(q, D)
  <2>1. Working(p, B) /\ DoneIn(p, D)
    BY <1>11 DEF Good, B
  <2>2. Answered(q)
    BY <1>2, <1>4, <2>1 DEF Answered, Working, IsShader
  <2>3. Working(q, B)
    BY <1>3, <1>6, <1>9, <2>1, <2>2, WorkSame
  <2>4. DoneIn(q, D)
    BY <1>3, <2>1 DEF DoneIn
  <2> QED
    BY <1>5, <1>10, <2>3, <2>4 DEF Good
<1> QED
  BY <1>3, <1>10, <1>11 DEF Runs, Keeps, q, s

\* Workers, pools and waits change.
Rehoused(p, q) ==
    /\ Fields(q) /\ q.idle = p.idle /\ q.translator = p.translator /\ q.compilerOf = p.compilerOf
    /\ q.shader = p.shader /\ q.job = p.job /\ q.poolOf \in [Contexts -> Pools \cup {0}]

LEMMA RehousedGood ==
    ASSUME NEW p, Good(p, {}), NEW q, Rehoused(p, q), WorkersOK(q.workers), Advanced(p.workers, q.workers)
    PROVE  Good(q, {})
<1> DEFINE B == Pending(p)
<1>1. /\ CompShape(p) /\ Lending(p, B) /\ UnusedEmpty(p) /\ Working(p, B) /\ B \subseteq Names /\ B \subseteq Tasks
  BY NamesAreTasks DEF Good, Sound, Pending
<1>2. CompShape(q)
  BY <1>1 DEF CompShape, Rehoused
<1>3. Pending(q) = B /\ CompilersInUse(q) = CompilersInUse(p)
  BY UsersSame DEF Rehoused
<1> HIDE DEF B
<1>4. SameLent(p, q, B)
  BY DEF SameLent, Rehoused
<1>5. Lending(q, B) /\ SameHolds(p, q, B)
  BY <1>1, <1>4, SameLends DEF Rehoused
<1>6. UnusedEmpty(q)
  BY <1>1, <1>3 DEF UnusedEmpty, Rehoused
<1>7. TasksAre(q, B)
  BY <1>1 DEF Working, TasksAre, Advanced
<1>8. JobsAre(q, B)
  BY <1>1 DEF Working, JobsAre, Rehoused
<1>9. Results(q, B)
  <2>1. \A m \in B : q.workers.tasks[m].state \in {"left", "done"} => p.workers.tasks[m].state \in {"left", "done"}
    BY <1>1 DEF Advanced
  <2> QED
    BY <1>1, <2>1 DEF Working, Results, Rehoused
<1>10. Answered(q)
  BY <1>1 DEF Working, Answered, Rehoused, IsShader
<1>11. DoneIn(q, {})
  BY DEF DoneIn
<1> QED
  BY <1>2, <1>3, <1>5, <1>6, <1>7, <1>8, <1>9, <1>10, <1>11 DEF Good, Sound, Working

LEMMA SameAdvances ==
    ASSUME NEW w, NEW v, v.tasks = w.tasks
    PROVE  Advanced(w, v)
  BY DEF Advanced

\* The pools that nothing refers to go.
LEMMA DropPoolsGood ==
    ASSUME NEW p, Good(p, {})
    PROVE  LET q == DropPools(p) IN Good(q, {}) /\ q.poolOf = p.poolOf /\ q.waits = p.waits
<1> DEFINE w == p.workers
           g == [k \in Pools |-> IF k \in PoolsHeld(p) THEN w.pools[k] ELSE NewPool(FALSE)]
           v == [w EXCEPT !.pools = g]
           q == DropPools(p)
<1>1. CompShape(p) /\ WorkersOK(w) /\ TasksAre(p, Pending(p))
  BY DEF Good, Sound, Working
<1>2. w = [tasks |-> w.tasks, pools |-> w.pools]
  BY <1>1 DEF WorkersOK, WorkersTyped
<1>3. /\ Fields(q) /\ q.idle = p.idle /\ q.translator = p.translator /\ q.compilerOf = p.compilerOf
      /\ q.workers = v /\ q.job = p.job /\ q.waits = p.waits /\ q.poolOf = p.poolOf
      /\ q.shader = p.shader
  <2>1. q = [p EXCEPT !.workers = v]
    BY <1>1 DEF DropPools, CompShape, Fields
  <2> HIDE DEF v, q
  <2> QED
    BY <1>1, <2>1 DEF CompShape, Fields
<1>4. v = [tasks |-> w.tasks, pools |-> g]
  <2> HIDE DEF g, w
  <2> QED
    BY <1>2
<1>5. \A k \in Pools : k \notin PoolsHeld(p) => TasksOf(w, k) = {}
  BY <1>1 DEF TasksOf, TasksAre, Pending, PoolsHeld
<1>6. PoolsReset(w, v)
  <2>1. v.pools = g /\ v.tasks = w.tasks
    BY <1>4
  <2>2. \A k \in Pools : g[k] = IF k \in PoolsHeld(p) THEN w.pools[k] ELSE NewPool(FALSE)
    OBVIOUS
  <2>3. g = [k \in Pools |-> g[k]]
    OBVIOUS
  <2> HIDE DEF g, w, v
  <2> QED
    BY <1>4, <1>5, <2>1, <2>2, <2>3 DEF PoolsReset
<1> HIDE DEF v, q, w
<1>7. WorkersOK(v) /\ v.tasks = w.tasks
  BY <1>1, <1>6, ResetKeeps
<1>8. Rehoused(p, q)
  BY <1>1, <1>3 DEF Rehoused, CompShape
<1>9. Good(q, {})
  BY <1>3, <1>7, <1>8, SameAdvances, RehousedGood DEF w
<1> QED
  BY <1>3, <1>9 DEF q

LEMMA WaitedGood ==
    ASSUME NEW p, NEW D, Good(p, D), NEW x
    PROVE  LET q == [p EXCEPT !.waits = x] IN Good(q, {}) /\ q.poolOf = p.poolOf /\ q.waits = x
<1> DEFINE q == [p EXCEPT !.waits = x]
<1>1. CompShape(p) /\ WorkersOK(p.workers)
  BY DEF Good, Sound, Working
<1>2. /\ Fields(q) /\ q.idle = p.idle /\ q.translator = p.translator /\ q.compilerOf = p.compilerOf
      /\ q.workers = p.workers /\ q.job = p.job /\ q.waits = x /\ q.poolOf = p.poolOf
      /\ q.shader = p.shader
  BY <1>1 DEF CompShape, Fields
<1> HIDE DEF q
<1>3. Good(p, {})
  BY DEF Good, DoneIn
<1>4. Rehoused(p, q) /\ Advanced(p.workers, q.workers)
  BY <1>1, <1>2, SameAdvances DEF Rehoused, CompShape
<1>5. Good(q, {})
  BY <1>1, <1>2, <1>3, <1>4, RehousedGood
<1> QED
  BY <1>2, <1>5 DEF q

-----------------------------------------------------------------------------
(* The steps.                                                              *)

CompInv ==
    /\ client \in Clients /\ alive \subseteq Contexts /\ Good(progs, {}) /\ progs.waits = {}
    /\ \A c \in alive : progs.poolOf[c] \in Pools


LEMMA CompReturns ==
    ASSUME CompInv, NEW call, NEW r, Good(r, {}), r.waits = {}, \A c \in alive : r.poolOf[c] \in Pools,
           Returns(call, r)
    PROVE  CompInv'
<1>1. progs' = DropPools(r) /\ client' = client /\ alive' = alive
  BY DEF Returns, CallReturns, entryVars
<1>2. Good(progs', {}) /\ progs'.poolOf = r.poolOf /\ progs'.waits = r.waits
  BY <1>1, DropPoolsGood
<1> QED
  BY <1>1, <1>2 DEF CompInv

LEMMA KeepsReturns ==
    ASSUME CompInv, NEW call, NEW r, Keeps(progs, r), Returns(call, r)
    PROVE  CompInv'
<1>1. Sound(progs) /\ Good(progs, {}) /\ progs.waits = {} /\ \A c \in alive : progs.poolOf[c] \in Pools
  BY DEF CompInv, Good
<1>2. r.waits = {} /\ r.poolOf = progs.poolOf
  BY <1>1 DEF Runs, Keeps
<1>3. Good(r, {})
  BY <1>1, <1>2 DEF Runs, Keeps
<1> QED
  BY <1>1, <1>2, <1>3, CompReturns

\* Good once the compilations are finished that are waited for.
LEMMA CompPerforms ==
    ASSUME CompInv, NEW call, NEW r, Perform(call, r),
           Finished(r) => Good(r, {}) /\ r.poolOf = progs.poolOf
    PROVE  CompInv'
<1>1. client' = client /\ alive' = alive
  BY DEF Perform
<1>2. CASE Finished(r)
  <2> DEFINE q == [r EXCEPT !.waits = {}]
  <2>1. progs' = DropPools(q)
    BY <1>2 DEF Perform
  <2>2. Good(q, {}) /\ q.poolOf = r.poolOf /\ q.waits = {}
    BY <1>2, WaitedGood
  <2> HIDE DEF q
  <2>3. Good(progs', {}) /\ progs'.poolOf = q.poolOf /\ progs'.waits = q.waits
    BY <2>1, <2>2, DropPoolsGood
  <2> QED
    BY <1>1, <1>2, <2>2, <2>3 DEF CompInv
<1>3. CASE ~Finished(r)
  <2>1. progs' = progs
    BY <1>3 DEF Perform
  <2> QED
    BY <1>1, <2>1 DEF CompInv
<1> QED
  BY <1>2, <1>3

\* The tasks that are waited for are done.
LEMMA WaitedDone ==
    ASSUME CompInv, NEW r, Finished(r)
    PROVE  Good(progs, r.waits)
  BY DEF CompInv, Good, DoneIn, IsReady, Finished

LEMMA RunsPerforms ==
    ASSUME CompInv, NEW call, NEW r, Runs(progs, r), Perform(call, r)
    PROVE  CompInv'
<1>1. ASSUME Finished(r) PROVE Good(r, {}) /\ r.poolOf = progs.poolOf
  <2>1. Good(progs, r.waits) /\ Sound(progs)
    BY <1>1, WaitedDone DEF Good
  <2>2. Good(r, r.waits) /\ r.poolOf = progs.poolOf
    BY <2>1 DEF Runs
  <2> QED
    BY <2>2 DEF Good, DoneIn
<1> QED
  BY <1>1, CompPerforms

\* The calls that resolve compilations.
LEMMA CompPerformed ==
    ASSUME CompInv, NEW c \in alive, NEW n,
           \/ CompileShader(c, n) \/ GetShader(c, n) \/ DeleteShader(c, n) \/ DeleteProgram(c, n)
           \/ LinkProgram(c, n) \/ UseProgram(c, n) \/ \E s \in Names : DetachShader(c, n, s)
    PROVE  CompInv'
<1>1. Sound(progs) /\ c \in Contexts /\ progs.poolOf[c] \in Pools
  BY DEF CompInv, Good
<1>2. CASE CompileShader(c, n)
  <2> DEFINE r == Compile(progs, c, n)
  <2>1. IsShader(progs, n) /\ FreeTranslators(progs) # {} /\ Perform(Call("CompileShader", c, n, 0), r)
    <3>1. Cardinality({}) = 0
      BY FS_EmptySet
    <3> QED
      BY <1>2, <3>1 DEF CompileShader
  <2>2. ASSUME Finished(r) PROVE Good(r, {}) /\ r.poolOf = progs.poolOf
    <3>1. Good(progs, r.waits)
      BY <2>2, WaitedDone
    <3> QED
      BY <1>1, <2>1, <3>1, CompileGood
  <2> HIDE DEF r
  <2> QED
    BY <2>1, <2>2, CompPerforms
<1>3. CASE GetShader(c, n)
  <2>1. Runs(progs, ResolveCompile(progs, n))
    BY <1>1, ResolveGood
  <2> QED
    BY <1>3, <2>1, RunsPerforms DEF GetShader
<1>4. CASE DeleteShader(c, n)
  BY <1>4, ReleaseShaderRuns, RunsPerforms DEF DeleteShader
<1>5. CASE DeleteProgram(c, n)
  BY <1>5, DeleteProgramRuns, RunsPerforms DEF DeleteProgram
<1>6. CASE LinkProgram(c, n)
  BY <1>6, LinkRuns, RunsPerforms DEF LinkProgram
<1>7. CASE UseProgram(c, n)
  <2> DEFINE p == IF n = 0 THEN progs ELSE ResolveLink(progs, n)
  <2>1. Perform(Call("UseProgram", c, n, 0), SetProgram(p, c, n))
    BY <1>7 DEF UseProgram
  <2>2. Runs(progs, p)
    BY RunsSame, ResolveLinkRuns
  <2> HIDE DEF p
  <2>3. Runs(progs, SetProgram(p, c, n))
    BY <2>2, SetProgramRuns, RunsTrans
  <2> QED
    BY <2>1, <2>3, RunsPerforms
<1>8. ASSUME NEW s \in Names, DetachShader(c, n, s) PROVE CompInv'
  <2> DEFINE t == progs.shader[s].type
             z == [ReleaseShader(ResolveLink(progs, n), s) EXCEPT !.program[n].shaders[t] = 0]
  <2>1. Perform(Call("DetachShader", c, n, s), z)
    BY <1>8 DEF DetachShader
  <2>2. Runs(progs, z)
    <3> HIDE DEF t
    <3> QED
      BY DetachRuns
  <2> HIDE DEF z
  <2> QED
    BY <2>1, <2>2, RunsPerforms
<1> QED
  BY <1>2, <1>3, <1>4, <1>5, <1>6, <1>7, <1>8

\* A name that is given is not that of a shader.
LEMMA NewNames ==
    ASSUME ProgInv, HasName(progs.alloc)
    PROVE  NextName(progs.alloc) \in Names /\ ~IsShader(progs, NextName(progs.alloc))
<1> DEFINE a == progs.alloc
           F == FreeObjects(progs)
<1>1. AllocInv(a, F) /\ HasName(a)
  BY DEF ProgInv, ObjOK, ObjInv, Named
<1> HIDE DEF a, F
<1>2. NextName(a) \in F
  BY <1>1, TakeKeeps
<1> QED
  BY <1>2 DEF F, FreeObjects, a

\* The thread pool of a context is replaced, or its limit set.
LEMMA ThreadsGood ==
    ASSUME CompInv, NEW c \in alive, NEW n \in Int, MaxShaderCompilerThreads(c, n)
    PROVE  CompInv'
<1> DEFINE k == progs.poolOf[c]
           new == Unused(Pools, PoolsHeld(progs))
           b == n # 0
           w == progs.workers
           v == [w EXCEPT !.pools[new] = NewPool(b)]
           y == [progs.poolOf EXCEPT ![c] = new]
           call == Call("MaxShaderCompilerThreads", c, n, 0)
<1>1. /\ Good(progs, {}) /\ progs.waits = {} /\ k \in Pools /\ c \in Contexts
      /\ \A d \in alive : progs.poolOf[d] \in Pools /\ alive \subseteq Contexts
  BY DEF CompInv
<1>2. CompShape(progs) /\ WorkersOK(w) /\ TasksAre(progs, Pending(progs))
  BY <1>1 DEF Good, Sound, Working
<1> HIDE DEF w
<1>3. ASSUME NEW u, NEW z, NEW x, x \in [Contexts -> Pools \cup {0}], \A d \in alive : x[d] \in Pools,
             WorkersOK(u), Advanced(w, u), Returns(call, z), z = [progs EXCEPT !.poolOf = x, !.workers = u]
      PROVE  CompInv'
  <2>1. /\ Fields(z) /\ z.idle = progs.idle /\ z.translator = progs.translator /\ z.compilerOf = progs.compilerOf
        /\ z.workers = u /\ z.job = progs.job /\ z.waits = progs.waits /\ z.poolOf = x
        /\ z.shader = progs.shader
    BY <1>2, <1>3 DEF CompShape, Fields
  <2>2. Rehoused(progs, z)
    BY <1>3, <2>1 DEF Rehoused
  <2>3. Advanced(progs.workers, z.workers) /\ WorkersOK(z.workers)
    BY <1>3, <2>1 DEF w
  <2>4. Good(z, {})
    BY <1>1, <2>2, <2>3, RehousedGood
  <2> QED
    BY <1>1, <1>3, <2>1, <2>4, CompReturns
<1>4. CASE w.pools[k].async = b
  <2>1. Returns(call, [progs EXCEPT !.workers = SetMaxThreads(w, k, n)])
    BY <1>4 DEF MaxShaderCompilerThreads, w
  <2>2. WorkersOK(SetMaxThreads(w, k, n)) /\ Advanced(w, SetMaxThreads(w, k, n))
    BY <1>1, <1>2, SetMaxKeeps
  <2>3. PICK u : u = SetMaxThreads(w, k, n)
    OBVIOUS
  <2>4. [progs EXCEPT !.workers = u] = [progs EXCEPT !.poolOf = progs.poolOf, !.workers = u]
    BY <1>2 DEF CompShape, Fields
  <2>5. progs.poolOf \in [Contexts -> Pools \cup {0}]
    BY <1>2 DEF CompShape
  <2> HIDE DEF k, b, call
  <2> QED
    BY <1>1, <1>3, <2>1, <2>2, <2>3, <2>4, <2>5
<1>5. CASE w.pools[k].async # b
  <2>1. /\ Pools \ PoolsHeld(progs) # {}
        /\ Returns(call, [progs EXCEPT !.poolOf[c] = new, !.workers = SetMaxThreads(v, new, n)])
    BY <1>5 DEF MaxShaderCompilerThreads, w
  <2>2. new \in Pools /\ new \notin PoolsHeld(progs)
    <3>1. Pools \ PoolsHeld(progs) \subseteq Nat
      BY DEF Pools
    <3>2. Lowest(Pools \ PoolsHeld(progs)) \in Pools \ PoolsHeld(progs)
      BY <2>1, <3>1, LowestName
    <3> QED
      BY <3>2 DEF Unused
  <2> HIDE DEF new, k, call
  <2>3. TasksOf(w, new) = {}
    BY <1>2, <2>2 DEF TasksOf, TasksAre, Pending, PoolsHeld, w
  <2>4. PoolsReset(w, v)
    <3>1. w = [tasks |-> w.tasks, pools |-> w.pools] /\ w.pools = [l \in Pools |-> w.pools[l]]
      BY <1>2 DEF WorkersOK, WorkersTyped
    <3>2. b \in BOOLEAN
      OBVIOUS
    <3> HIDE DEF b
    <3>3. v = [tasks |-> w.tasks, pools |-> [w.pools EXCEPT ![new] = NewPool(b)]]
      BY <3>1
    <3>4. v.tasks = w.tasks /\ v.pools = [w.pools EXCEPT ![new] = NewPool(b)]
      BY <3>3
    <3> HIDE DEF v
    <3>5. v.pools = [l \in Pools |-> v.pools[l]] /\ v.pools[new] = NewPool(b)
          /\ \A l \in Pools \ {new} : v.pools[l] = w.pools[l]
      BY <2>2, <3>1, <3>4
    <3> QED
      BY <2>3, <3>2, <3>3, <3>4, <3>5 DEF PoolsReset
  <2> HIDE DEF v
  <2>5. WorkersOK(v) /\ v.tasks = w.tasks
    BY <1>2, <2>4, ResetKeeps
  <2>6. WorkersOK(SetMaxThreads(v, new, n)) /\ Advanced(v, SetMaxThreads(v, new, n))
    BY <2>2, <2>5, SetMaxKeeps
  <2>7. PICK u : u = SetMaxThreads(v, new, n)
    OBVIOUS
  <2>8. Advanced(w, u)
    BY <2>5, <2>6, <2>7 DEF Advanced
  <2>9. y \in [Contexts -> Pools \cup {0}] /\ \A d \in alive : y[d] \in Pools
    BY <1>1, <1>2, <2>2 DEF CompShape
  <2>10. PICK x : x = y
    OBVIOUS
  <2>11. Returns(call, [progs EXCEPT !.poolOf = x, !.workers = u])
    BY <1>2, <2>1, <2>7, <2>10 DEF CompShape, Fields
  <2> HIDE DEF y
  <2> QED
    BY <1>3, <2>6, <2>7, <2>8, <2>9, <2>10, <2>11
<1> QED
  BY <1>4, <1>5

\* Fields that compilations do not see, one after the other.
LEMMA ProgramFieldKeeps ==
    ASSUME NEW p, NEW n, NEW t, NEW x, NEW s
    PROVE  /\ Keeps(p, [p EXCEPT !.alloc = x, !.program[n] = s])
           /\ Keeps(p, [p EXCEPT !.program[n].shaders[t] = x, !.shader[s].refs = @ + 1])
<1>1. Keeps(p, [p EXCEPT !.alloc = x, !.program[n] = s])
  <2> DEFINE q == [p EXCEPT !.alloc = x]
             z == [q EXCEPT !.program[n] = s]
  <2>1. Keeps(p, q) /\ z = [p EXCEPT !.alloc = x, !.program[n] = s]
    BY OtherRuns
  <2>2. PICK y : z = [q EXCEPT !.program = y]
    OBVIOUS
  <2> HIDE DEF q
  <2>3. \A w : Keeps(q, [q EXCEPT !.program = y])
    BY OtherRuns
  <2> HIDE DEF z
  <2>4. Keeps(p, z)
    BY <2>1, <2>2, <2>3, KeepsTrans
  <2> QED
    BY <2>1, <2>4
<1>2. Keeps(p, [p EXCEPT !.program[n].shaders[t] = x, !.shader[s].refs = @ + 1])
  <2> DEFINE q == [p EXCEPT !.program[n].shaders[t] = x]
             z == [q EXCEPT !.shader[s].refs = p.shader[s].refs + 1]
  <2>1. z = [p EXCEPT !.program[n].shaders[t] = x, !.shader[s].refs = @ + 1]
    OBVIOUS
  <2>2. PICK y : q = [p EXCEPT !.program = y]
    OBVIOUS
  <2> HIDE DEF q
  <2>3. \A w : Keeps(p, [p EXCEPT !.program = y])
    BY OtherRuns
  <2>4. Keeps(q, z)
    BY FieldRuns
  <2> HIDE DEF z
  <2>5. Keeps(p, z)
    BY <2>2, <2>3, <2>4, KeepsTrans
  <2> QED
    BY <2>1, <2>5
<1> QED
  BY <1>1, <1>2

\* The calls that resolve none.
LEMMA CompReturned ==
    ASSUME ProgInv, CompInv, NEW c \in alive, NEW n,
           \/ \E type \in client.types, source \in client.sources : CreateShader(c, type, source)
           \/ CreateProgram(c) \/ ReleaseShaderCompiler(c)
           \/ \E count \in client.counts : MaxShaderCompilerThreads(c, count)
           \/ \E source \in client.sources : ShaderSource(c, n, source)
           \/ \E s \in Names : AttachShader(c, n, s)
    PROVE  CompInv'
<1>1. ASSUME NEW type \in client.types, NEW source, CreateShader(c, type, source) PROVE CompInv'
  <2>1. type \in Types
    BY ProgramAssumption DEF CompInv
  <2> DEFINE x == TakeName(progs.alloc)
             new == NextName(progs.alloc)
             q == [progs EXCEPT !.alloc = x, !.shader[new] = NewShader(type, source)]
  <2>2. new \in Names /\ ~IsShader(progs, new)
    BY <1>1, NewNames DEF CreateShader
  <2>3. Returns(Call("CreateShader", c, type, source), q)
    BY <1>1 DEF CreateShader
  <2> HIDE DEF x, new
  <2>4. Keeps(progs, q)
    BY <2>1, <2>2, AddRuns
  <2> HIDE DEF q
  <2> QED
    BY <2>3, <2>4, KeepsReturns
<1>2. CASE CreateProgram(c)
  <2> DEFINE x == TakeName(progs.alloc)
             new == NextName(progs.alloc)
             q == [progs EXCEPT !.alloc = x, !.program[new] = NewProgram]
  <2>1. Returns(Call("CreateProgram", c, 0, 0), q)
    BY <1>2, SMTT(40) DEF CreateProgram
  <2> HIDE DEF x, new
  <2>2. Keeps(progs, q)
    BY ProgramFieldKeeps
  <2> HIDE DEF q
  <2> QED
    BY <2>1, <2>2, KeepsReturns
<1>3. CASE ReleaseShaderCompiler(c)
  BY <1>3, UnbindRuns, KeepsReturns DEF ReleaseShaderCompiler
<1>4. ASSUME NEW count \in client.counts, MaxShaderCompilerThreads(c, count) PROVE CompInv'
  <2>1. count \in Int
    <3>1. client.counts \subseteq Nat \cup {-1}
      BY ProgramAssumption DEF CompInv, AllThreads
    <3> QED
      BY <3>1
  <2> QED
    BY <1>4, <2>1, ThreadsGood
<1>5. ASSUME NEW source, ShaderSource(c, n, source) PROVE CompInv'
  BY <1>5, FieldRuns, KeepsReturns DEF ShaderSource
<1>6. ASSUME NEW s \in Names, AttachShader(c, n, s) PROVE CompInv'
  <2> DEFINE q == ResolveLink(progs, n)
             t == progs.shader[s].type
             z == [q EXCEPT !.program[n].shaders[t] = s, !.shader[s].refs = @ + 1]
  <2>1. Returns(Call("AttachShader", c, n, s), z)
    BY <1>6 DEF AttachShader
  <2>2. Keeps(progs, q)
    BY LinkResolvedKeeps, SMTT(40)
  <2> HIDE DEF q, t
  <2>3. Keeps(q, z)
    BY ProgramFieldKeeps
  <2> HIDE DEF z
  <2> QED
    BY <2>1, <2>2, <2>3, KeepsTrans, KeepsReturns
<1> QED
  BY <1>1, <1>2, <1>3, <1>4, <1>5, <1>6

LEMMA CompCalls ==
    ASSUME ProgInv, CompInv, NEW c \in alive, ProgramCall(c)
    PROVE  CompInv'
<1>1. ASSUME NEW n, \/ CompileShader(c, n) \/ GetShader(c, n) \/ DeleteShader(c, n) \/ DeleteProgram(c, n)
                    \/ LinkProgram(c, n) \/ UseProgram(c, n) \/ \E s \in Names : DetachShader(c, n, s)
      PROVE  CompInv'
  BY <1>1, CompPerformed
<1>2. ASSUME NEW n, \/ \E type \in client.types, source \in client.sources : CreateShader(c, type, source)
                    \/ CreateProgram(c) \/ ReleaseShaderCompiler(c)
                    \/ \E count \in client.counts : MaxShaderCompilerThreads(c, count)
                    \/ \E source \in client.sources : ShaderSource(c, n, source)
                    \/ \E s \in Names : AttachShader(c, n, s)
      PROVE  CompInv'
  BY <1>2, CompReturned
<1>3. CASE \/ \E type \in client.types, source \in client.sources : CreateShader(c, type, source)
           \/ CreateProgram(c) \/ ReleaseShaderCompiler(c)
           \/ \E count \in client.counts : MaxShaderCompilerThreads(c, count)
  BY <1>2, <1>3
<1>4. CASE \E n \in Names \cup {0} : UseProgram(c, n)
  BY <1>1, <1>4
<1>5. ASSUME NEW n \in Names,
             \/ CompileShader(c, n) \/ GetShader(c, n) \/ DeleteShader(c, n) \/ DeleteProgram(c, n)
             \/ LinkProgram(c, n)
             \/ \E source \in client.sources : ShaderSource(c, n, source)
             \/ \E s \in Names : AttachShader(c, n, s) \/ DetachShader(c, n, s)
      PROVE  CompInv'
  BY <1>1, <1>2, <1>5
<1> QED
  BY <1>3, <1>4, <1>5 DEF ProgramCall

\* A context goes, with its compiler, its program and its thread pool.
LEMMA CompReleases ==
    ASSUME NEW p, NEW c \in Contexts, NEW last
    PROVE  \E r : Runs(p, r) /\ ReleasePrograms(p, c, last) = [r EXCEPT !.poolOf[c] = 0]
<1> DEFINE d == DropCompilers([p EXCEPT !.compilerOf[c] = 0])
           q == LeaveProgram(d, c)
           r == IF last THEN ResetPrograms(q) ELSE q
<1>1. ReleasePrograms(p, c, last) = [r EXCEPT !.poolOf[c] = 0]
  BY DEF ReleasePrograms
<1>2. Runs(p, d)
  BY UnbindRuns DEF Keeps
<1> HIDE DEF d
<1>3. Runs(p, q)
  BY <1>2, LeaveRuns, RunsTrans
<1> HIDE DEF q
<1>4. Runs(p, r)
  BY <1>3, ResetRuns, RunsTrans
<1> HIDE DEF r
<1> QED
  BY <1>1, <1>4

LEMMA CompDestroys ==
    ASSUME CompInv, NEW c \in alive, DestroyContext(c)
    PROVE  CompInv'
<1> DEFINE p == ReleasePrograms(progs, c, alive = {c})
<1>1. Sound(progs) /\ c \in Contexts /\ \A d \in alive : progs.poolOf[d] \in Pools
  BY DEF CompInv, Good
<1>2. PICK r : Runs(progs, r) /\ p = [r EXCEPT !.poolOf[c] = 0]
  <2> DEFINE last == alive = {c}
  <2> HIDE DEF last
  <2>1. \E r : Runs(progs, r) /\ ReleasePrograms(progs, c, last) = [r EXCEPT !.poolOf[c] = 0]
    BY <1>1, CompReleases
  <2> QED
    BY <2>1 DEF last
<1>3. IF Finished(p) THEN progs' = DropPools([p EXCEPT !.waits = {}]) /\ alive' = alive \ {c}
                     ELSE progs' = progs /\ alive' = alive
  BY DEF DestroyContext
<1>4. client' = client
  BY DEF DestroyContext
<1> HIDE DEF p
<1>5. Sound(r) /\ r.poolOf = progs.poolOf /\ CompShape(r)
  BY <1>1, <1>2 DEF Runs, Sound
<1>6. /\ Fields(p) /\ p.idle = r.idle /\ p.translator = r.translator /\ p.compilerOf = r.compilerOf
      /\ p.workers = r.workers /\ p.job = r.job /\ p.waits = r.waits /\ p.poolOf = [r.poolOf EXCEPT ![c] = 0]
      /\ p.shader = r.shader
  BY <1>2, <1>5 DEF CompShape, Fields
<1>7. CASE Finished(p)
  <2>1. Good(progs, r.waits)
    BY <1>6, <1>7, WaitedDone
  <2>2. Good(r, {}) /\ WorkersOK(r.workers)
    BY <1>2, <2>1 DEF Runs, Good, DoneIn, Working
  <2>3. p.poolOf \in [Contexts -> Pools \cup {0}] /\ \A d \in alive \ {c} : p.poolOf[d] \in Pools
    BY <1>1, <1>5, <1>6 DEF CompShape, CompInv
  <2>4. Rehoused(r, p) /\ Advanced(r.workers, p.workers)
    BY <1>6, <2>3, SameAdvances DEF Rehoused
  <2>5. Good(p, {})
    BY <1>6, <2>2, <2>4, RehousedGood
  <2> DEFINE z == [p EXCEPT !.waits = {}]
  <2>6. Good(z, {}) /\ z.poolOf = p.poolOf /\ z.waits = {}
    BY <2>5, WaitedGood
  <2>7. progs' = DropPools(z)
    BY <1>3, <1>7
  <2> HIDE DEF z
  <2>8. Good(progs', {}) /\ progs'.poolOf = z.poolOf /\ progs'.waits = z.waits
    BY <2>6, <2>7, DropPoolsGood
  <2>9. alive' = alive \ {c} /\ alive \subseteq Contexts
    BY <1>3, <1>7 DEF CompInv
  <2> QED
    BY <1>4, <2>3, <2>6, <2>8, <2>9 DEF CompInv
<1>8. CASE ~Finished(p)
  BY <1>3, <1>4, <1>8 DEF CompInv
<1> QED
  BY <1>7, <1>8

\* What a thread changes: its task, and what the translator of the task holds.
Ran(p, q, i) ==
    /\ CompShape(q) /\ q.idle = p.idle /\ q.compilerOf = p.compilerOf /\ q.shader = p.shader
    /\ q.job = p.job /\ q.waits = p.waits /\ q.poolOf = p.poolOf /\ SameMakers(p, q)
    /\ \A j \in Translators : j # p.shader[i].translator => q.translator[j] = p.translator[j]
    /\ WorkersOK(q.workers) /\ AdvancedBut(p.workers, q.workers, i) /\ q.workers.tasks[i].state # "none"
    /\ q.translator[p.shader[i].translator].holds = p.shader[i].asked

LEMMA RanGood ==
    ASSUME NEW p, Good(p, {}), NEW i \in Pending(p), NEW q, Ran(p, q, i)
    PROVE  Good(q, {})
<1> DEFINE B == Pending(p)
<1>1. /\ CompShape(p) /\ Lending(p, B) /\ UnusedEmpty(p) /\ Working(p, B) /\ B \subseteq Tasks /\ i \in B
  BY NamesAreTasks DEF Good, Sound, Pending
<1>2. Pending(q) = B /\ CompilersInUse(q) = CompilersInUse(p)
  BY UsersSame DEF Ran
<1> HIDE DEF B
<1>3. SameLent(p, q, B)
  BY DEF SameLent, Ran
<1>4. Lending(q, B)
  <2>1. q.idle = p.idle /\ SameMakers(p, q)
    BY DEF Ran
  <2> QED
    BY <1>1, <1>3, <2>1, MakersLend
<1>5. UnusedEmpty(q)
  BY <1>1, <1>2 DEF UnusedEmpty, Ran
<1>6. TasksAre(q, B)
  <2>1. \A j \in Tasks : j # i => (q.workers.tasks[j].state # "none" <=> p.workers.tasks[j].state # "none")
    BY DEF Ran, AdvancedBut
  <2> QED
    BY <1>1, <2>1 DEF Working, TasksAre, Ran
<1>7. JobsAre(q, B)
  BY <1>1 DEF Working, JobsAre, Ran
<1>8. Results(q, B)
  <2> SUFFICES ASSUME NEW n \in B, q.workers.tasks[n].state \in {"left", "done"}
               PROVE  q.translator[q.shader[n].translator].holds = q.shader[n].asked
    BY DEF Results
  <2>1. CASE n = i
    BY <2>1 DEF Ran
  <2>2. CASE n # i
    <3>1. p.workers.tasks[n].state \in {"left", "done"}
      BY <1>1, <2>2 DEF Ran, AdvancedBut
    <3>2. p.translator[p.shader[n].translator].holds = p.shader[n].asked
      BY <1>1, <3>1 DEF Working, Results
    <3>3. p.shader[n].translator \in Translators /\ p.shader[n].translator # p.shader[i].translator
      BY <1>1, <2>2 DEF Lending, LentMade, LentOnce
    <3> QED
      BY <3>2, <3>3 DEF Ran
  <2> QED
    BY <2>1, <2>2
<1>9. Answered(q)
  BY <1>1 DEF Working, Answered, Ran, IsShader
<1>10. DoneIn(q, {})
  BY DEF DoneIn
<1> QED
  BY <1>1, <1>2, <1>4, <1>5, <1>6, <1>7, <1>8, <1>9, <1>10 DEF Good, Sound, Working, Ran

LEMMA CompWorks ==
    ASSUME CompInv, WorkerStep
    PROVE  CompInv'
<1>1. PICK i \in Tasks : RunTask(i) \/ FinishTask(i)
  BY DEF WorkerStep
<1> DEFINE p == progs
           B == Pending(p)
           w == p.workers
           n == p.shader[i].translator
           asked == p.shader[i].asked
<1>2. /\ client' = client /\ alive' = alive /\ Good(p, {}) /\ p.waits = {}
      /\ \A c \in alive : p.poolOf[c] \in Pools
  BY DEF WorkerStep, entryVars, CompInv
<1>3. CompShape(p) /\ Lending(p, B) /\ WorkersOK(w) /\ TasksAre(p, B) /\ JobsAre(p, B) /\ Results(p, B)
  BY <1>2 DEF Good, Sound, Working
<1>4. SUFFICES ASSUME i \in B, Ran(p, progs', i) PROVE CompInv'
  <2>1. CASE RunTask(i)
    <3>1. w.tasks[i].state = "running"
      BY <2>1 DEF RunTask
    <3>2. i \in B
      BY <1>3, <3>1 DEF TasksAre
    <3>3. p.job[i].translator = n /\ p.job[i].source = asked /\ n \in Translators
      <4> HIDE DEF B
      <4>1. p.job[i] = [translator |-> n, source |-> asked]
        BY <1>3, <3>2 DEF JobsAre
      <4>2. n \in Translators
        BY <1>3, <3>2 DEF Lending, LentMade
      <4> QED
        BY <4>1, <4>2
    <3> DEFINE v == Left(w, i)
               e == [p.translator EXCEPT ![n].holds = asked]
               q == [p EXCEPT !.translator = e, !.workers = v]
    <3>4. progs' = q
      BY <1>3, <2>1, <3>3 DEF RunTask, RunTranslation, CompShape, Fields
    <3>5. /\ WorkersOK(v) /\ v.tasks[i].state = "left" /\ \A j \in Tasks \ {i} : v.tasks[j] = w.tasks[j]
      BY <1>3, <3>1, LeftKeeps
    <3>6. AdvancedBut(w, v, i)
      BY <3>5 DEF AdvancedBut
    <3>7. /\ e = [j \in Translators |-> e[j]] /\ \A j \in Translators : Made(e[j])
          /\ \A j \in Translators : e[j].maker = p.translator[j].maker
          /\ e[n].holds = asked /\ \A j \in Translators \ {n} : e[j] = p.translator[j]
      <4> HIDE DEF n, asked, p, B
      <4> QED
        BY <1>3, <3>3, HoldsShape
    <3> HIDE DEF e, v
    <3>8. /\ Fields(q) /\ q.idle = p.idle /\ q.translator = e /\ q.compilerOf = p.compilerOf
          /\ q.workers = v /\ q.job = p.job /\ q.waits = p.waits /\ q.poolOf = p.poolOf
          /\ q.shader = p.shader
      BY <1>3 DEF CompShape, Fields
    <3> HIDE DEF q
    <3>9. CompShape(q) /\ SameMakers(p, q)
      BY <1>3, <3>7, <3>8 DEF CompShape, SameMakers
    <3>10. Ran(p, q, i)
      BY <3>5, <3>6, <3>7, <3>8, <3>9 DEF Ran
    <3> QED
      BY <1>4, <3>2, <3>4, <3>10
  <2>2. CASE FinishTask(i)
    <3>1. w.tasks[i].state = "left"
      BY <2>2 DEF FinishTask
    <3>2. i \in B
      BY <1>3, <3>1 DEF TasksAre
    <3>3. p.translator[n].holds = asked
      BY <1>3, <3>1, <3>2 DEF Results
    <3> DEFINE v == Done(w, i)
               q == [p EXCEPT !.workers = v]
    <3>4. progs' = q
      BY <2>2 DEF FinishTask
    <3>5. WorkersOK(v) /\ v.tasks[i].state = "done" /\ AdvancedBut(w, v, i)
      BY <1>3, <3>1, DoneKeeps
    <3> HIDE DEF v
    <3>8. /\ Fields(q) /\ q.idle = p.idle /\ q.translator = p.translator /\ q.compilerOf = p.compilerOf
          /\ q.workers = v /\ q.job = p.job /\ q.waits = p.waits /\ q.poolOf = p.poolOf
          /\ q.shader = p.shader
      BY <1>3 DEF CompShape, Fields
    <3> HIDE DEF q
    <3>9. CompShape(q) /\ SameMakers(p, q)
      BY <1>3, <3>8 DEF CompShape, SameMakers
    <3>10. Ran(p, q, i)
      BY <3>3, <3>5, <3>8, <3>9 DEF Ran
    <3> QED
      BY <1>4, <3>2, <3>4, <3>10
  <2> QED
    BY <1>1, <2>1, <2>2
<1>5. Good(progs', {})
  BY <1>2, <1>4, RanGood
<1>6. progs'.waits = p.waits /\ progs'.poolOf = p.poolOf
  BY <1>4 DEF Ran
<1> QED
  BY <1>2, <1>5, <1>6 DEF CompInv

-----------------------------------------------------------------------------
LEMMA FreshGood ==
    ASSUME NEW p, CompShape(p), p.shader = [n \in Names |-> NoShader], p.idle = [k \in Compilers |-> NoneIdle],
           p.translator = [j \in Translators |-> NoTranslator], p.workers.tasks = [j \in Tasks |-> NoTask],
           WorkersOK(p.workers)
    PROVE  Good(p, {})
<1>1. \A n : ~IsShader(p, n)
  BY DEF IsShader, NoShader
<1>2. Pending(p) = {}
  BY <1>1 DEF Pending, CompilePending
<1>3. \A k \in Compilers, t \in Types : p.idle[k][t] = <<>> /\ Slots(p, k, t) = {}
  BY DEF NoneIdle, Slots
<1>4. Lending(p, {})
  <2>1. IdleMade(p) /\ IdleOnce(p) /\ IdleNotLent(p, {})
    BY <1>3 DEF IdleMade, IdleOnce, IdleNotLent
  <2>2. LentMade(p, {}) /\ LentOnce(p, {}) /\ NoneLost(p, {})
    BY DEF LentMade, LentOnce, NoneLost, NoTranslator
  <2> QED
    BY <2>1, <2>2 DEF Lending
<1>5. UnusedEmpty(p)
  BY <1>3 DEF UnusedEmpty
<1>6. Working(p, {})
  BY <1>1 DEF Working, TasksAre, JobsAre, Results, Answered, NoTask
<1> QED
  BY <1>2, <1>4, <1>5, <1>6 DEF Good, Sound, DoneIn

LEMMA FreshWorkers ==
    ASSUME NEW w, NEW g \in [Pools -> BOOLEAN],
           w = [tasks |-> [i \in Tasks |-> NoTask], pools |-> [k \in Pools |-> NewPool(g[k])]]
    PROVE  WorkersOK(w)
<1>1. \A b \in BOOLEAN : NewPool(b) \in PoolType /\ NewPool(b).queue = <<>> /\ NewPool(b).running = 0
  <2>1. HardwareThreads \in Int /\ <<>> \in Seq(Tasks)
    BY WorkerAssumption
  <2> QED
    BY <2>1 DEF NewPool, PoolType
<1>2. NoTask \in TaskType /\ NoTask.state = "none"
  BY DEF NoTask, TaskType
<1>3. /\ w.tasks = [i \in Tasks |-> NoTask] /\ w.tasks \in [Tasks -> TaskType]
      /\ \A k \in Pools : w.pools[k] \in PoolType /\ w.pools[k].queue = <<>> /\ w.pools[k].running = 0
      /\ w.pools \in [Pools -> PoolType]
  <2> HIDE DEF NewPool, NoTask
  <2> QED
    BY <1>1, <1>2
<1>4. WorkersTyped(w)
  BY <1>2, <1>3 DEF WorkersTyped
<1>5. ASSUME NEW k \in Pools PROVE PoolExact(w, k) /\ NoIdleThread(w, k)
  <2>1. QueueExact(w, k)
    BY <1>2, <1>3 DEF QueueExact
  <2>2. RunningExact(w, k)
    <3>1. {i \in TasksOf(w, k) : w.tasks[i].state = "running"} = {}
      BY <1>2, <1>3 DEF TasksOf
    <3> QED
      BY <1>3, <3>1, FS_EmptySet DEF RunningExact
  <2>3. NoIdleThread(w, k)
    BY <1>3 DEF NoIdleThread
  <2> QED
    BY <2>1, <2>2, <2>3 DEF PoolExact
<1> QED
  BY <1>4, <1>5 DEF WorkersOK

\* There are enough pools.
LEMMA PoolEach == \E f \in [Contexts -> Pools] : \A c, d \in Contexts : c # d => f[c] # f[d]
<1>1. Cardinality(Contexts) \in Nat /\ ExistsBijection(1..Cardinality(Contexts), Contexts)
  BY ClientsAssumption, FS_CardinalityType
<1> DEFINE m == Cardinality(Contexts)
<1>2. m <= MaxPools /\ MaxPools \in Nat
  BY ProgramAssumption, WorkerAssumption
<1>3. PICK f : f \in Bijection(1..m, Contexts)
  BY <1>1 DEF ExistsBijection
<1> HIDE DEF m
<1>4. f \in [1..m -> Contexts] /\ \A c \in Contexts : \E k \in 1..m : f[k] = c
  BY <1>3 DEF Bijection, Surjection, Injection
<1> DEFINE g == [c \in Contexts |-> CHOOSE k \in 1..m : f[k] = c]
<1>5. \A c \in Contexts : g[c] \in 1..m /\ f[g[c]] = c
  BY <1>4
<1>6. 1..m \subseteq Pools
  BY <1>1, <1>2 DEF Pools, m
<1>7. g \in [Contexts -> Pools]
  BY <1>5, <1>6
<1> HIDE DEF g
<1> QED
  BY <1>5, <1>7

LEMMA CompInit == Init => CompInv
<1> SUFFICES ASSUME Init PROVE CompInv
  OBVIOUS
<1> DEFINE pool == CHOOSE f \in [Contexts -> Pools] : \A c, d \in Contexts : c # d => f[c] # f[d]
           y == [c \in Contexts |-> IF c \in alive THEN pool[c] ELSE 0]
           b(k) == client.async /\ \E c \in alive : pool[c] = k
           g == [k \in Pools |-> b(k)]
           h == [k \in Pools |-> NewPool(b(k))]
           w == [tasks |-> [i \in Tasks |-> NoTask], pools |-> h]
           z == NewPrograms
<1>1. client \in Clients /\ alive \subseteq Contexts /\ client.async \in BOOLEAN
  BY ClientsAssumption, ProgramAssumption DEF Init, EntryInit
<1>2. pool \in [Contexts -> Pools]
  BY PoolEach
<1>3a. progs = [NewPrograms EXCEPT !.poolOf = y, !.workers.pools = h]
  BY DEF Init, ProgramsInit
<1>4. g \in [Pools -> BOOLEAN] /\ h = [k \in Pools |-> NewPool(g[k])]
  BY <1>1
<1>5. y \in [Contexts -> Pools \cup {0}] /\ \A c \in alive : y[c] \in Pools
  BY <1>1, <1>2
<1> HIDE DEF g, h, y
<1>3. progs = [z EXCEPT !.poolOf = y, !.workers = w]
  <2>1. z.workers = NewWorkers
    BY DEF NewPrograms
  <2>2. [NewWorkers EXCEPT !.pools = h] = w
    BY DEF NewWorkers
  <2> HIDE DEF z, w
  <2>3. progs = [z EXCEPT !.poolOf = y, !.workers = [z.workers EXCEPT !.pools = h]]
    BY <1>3a DEF z
  <2> QED
    BY <2>1, <2>2, <2>3
<1>6. WorkersOK(w) /\ w.tasks = [j \in Tasks |-> NoTask]
  BY <1>4, FreshWorkers
<1> HIDE DEF w
<1>7. /\ Fields(z) /\ z.shader = [n \in Names |-> NoShader] /\ z.compilerOf = [c \in Contexts |-> 0]
      /\ z.idle = [k \in Compilers |-> NoneIdle] /\ z.translator = [j \in Translators |-> NoTranslator]
      /\ z.job = [j \in Tasks |-> NoJob] /\ z.waits = {}
  BY DEF NewPrograms, Fields
<1> HIDE DEF z
<1>8. /\ Fields(progs) /\ progs.shader = z.shader /\ progs.compilerOf = z.compilerOf /\ progs.idle = z.idle
      /\ progs.translator = z.translator /\ progs.job = z.job /\ progs.waits = {} /\ progs.poolOf = y
      /\ progs.workers = w
  BY <1>3, <1>7 DEF Fields
<1>9. CompShape(progs)
  <2>1. progs.compilerOf \in [Contexts -> CompilerIds]
    BY <1>7, <1>8 DEF CompilerIds
  <2>2. progs.idle \in [Compilers -> [Types -> Seq(Translators)]]
    BY <1>7, <1>8 DEF NoneIdle
  <2>3. progs.translator = [j \in Translators |-> progs.translator[j]] /\ \A j \in Translators : Made(progs.translator[j])
    BY <1>7, <1>8, NoTranslatorMade
  <2>4. progs.job = [j \in Tasks |-> progs.job[j]]
    BY <1>7, <1>8
  <2>5. progs.shader = [n \in Names |-> progs.shader[n]] /\ \A n \in Names : progs.shader[n] = NoShader
    BY <1>7, <1>8
  <2> QED
    BY <1>5, <1>8, <2>1, <2>2, <2>3, <2>4, <2>5 DEF CompShape
<1>10. Good(progs, {})
  BY <1>6, <1>7, <1>8, <1>9, FreshGood
<1> QED
  BY <1>1, <1>5, <1>8, <1>10 DEF CompInv

LEMMA CompStep == ProgInv /\ CompInv /\ [Next]_vars => CompInv'
<1> SUFFICES ASSUME ProgInv, CompInv, [Next]_vars PROVE CompInv'
  OBVIOUS
<1>1. ASSUME progs' = progs, UNCHANGED <<client, alive>> PROVE CompInv'
  BY <1>1 DEF CompInv
<1>2. ASSUME NEW call, CallReturns(call) PROVE UNCHANGED <<client, alive>>
  BY <1>2 DEF CallReturns, entryVars
<1>3. ASSUME NEW c \in alive, ContextStep(c) PROVE CompInv'
  <2>1. CASE BufferCall(c) /\ UNCHANGED <<progs, syncs>>
    <3>1. UNCHANGED <<client, alive>>
      BY <1>2, <2>1 DEF BufferCall, GenBuffer, UnbindBuffer, BindBuffer, DeleteBuffers
    <3> QED
      BY <1>1, <2>1, <3>1
  <2>2. CASE ProgramCall(c)
    BY <2>2, CompCalls
  <2>3. CASE (SyncCall(c) \/ Finish(c)) /\ UNCHANGED <<bufs, progs>>
    <3>1. SyncCall(c) => UNCHANGED <<client, alive>>
      BY <1>2 DEF SyncCall, Draw, Flush, FenceSync, DeleteSync, SetFenceNV, WaitSync, PollSync,
                  ClientWaitSync, FinishFenceNV, ClientWait
    <3>2. Finish(c) => UNCHANGED <<client, alive>>
      BY DEF Finish
    <3> QED
      BY <1>1, <2>3, <3>1, <3>2
  <2>4. CASE DestroyContext(c)
    BY <2>4, CompDestroys
  <2> QED
    BY <1>3, <2>1, <2>2, <2>3, <2>4 DEF ContextStep
<1>4. CASE Workers
  BY <1>4, CompWorks DEF Workers
<1>5. CASE Gpu
  BY <1>1, <1>5 DEF Gpu, GpuStep, Listeners, Fire, entryVars
<1>6. CASE WaitingThread
  BY <1>1, <1>6 DEF WaitingThread, ThreadStep
<1>7. CASE UNCHANGED vars
  BY <1>1, <1>7 DEF vars
<1> QED
  BY <1>3, <1>4, <1>5, <1>6, <1>7 DEF Next, Ended

-----------------------------------------------------------------------------
(* The theorems.                                                           *)

\* Translators, tasks and the threads of pools are consistent in every
\* reachable state, for any number of contexts, shaders, translators and
\* threads (Compiler.cpp, Shader.cpp, ShaderImpl.cpp, WorkerThread.cpp).
THEOREM CompilationInvariant == Spec => []CompInv
<1>1. Init => ProgInv /\ CompInv
  BY InitPrograms, CompInit
<1>2. ProgInv /\ CompInv /\ [Next]_vars => (ProgInv /\ CompInv)'
  BY StepPrograms, CompStep
<1> QED
  BY <1>1, <1>2, PTL DEF Spec

\* No compilation waits in a pool that has a thread to spare, and the count of
\* running threads is right, whatever limits contexts set and in whatever order
\* tasks are posted and end (AsyncWorkerPool).
THEOREM NoIdleWorkerEver == Spec => []NoIdleWorker
<1>1. CompInv => NoIdleWorker
  BY DEF CompInv, Good, Working, WorkersOK, PoolExact, NoIdleWorker
<1> QED
  BY <1>1, CompilationInvariant, PTL

\* A shader whose compilation is not pending shows the result for the source it
\* had at its last glCompileShader, however many threads translate at a time
\* and wherever the sources have been changed meanwhile (Shader.cpp).
THEOREM ResultIsOfItsSourceAlways == Spec => []ResultIsOfItsSource
<1>1. CompInv => ResultIsOfItsSource
  BY DEF CompInv, Good, Working, Answered, ResultIsOfItsSource
<1> QED
  BY <1>1, CompilationInvariant, PTL

LEMMA OwnedOnce ==
    ASSUME NEW p, Sound(p), NEW i \in Translators, p.translator[i].maker # 0
    PROVE  LET k == p.translator[i].maker
               borrowers == {n \in Names : CompilePending(p, n) /\ p.shader[n].translator = i}
           IN  /\ k \in CompilersInUse(p)
               /\ Cardinality(borrowers)
                    + Cardinality({t \in Types : i \in Range(p.idle[k][t])}) = 1
               /\ \A n \in borrowers : p.shader[n].compiler = k
<1> DEFINE B == Pending(p)
           k == p.translator[i].maker
           L == {n \in Names : CompilePending(p, n) /\ p.shader[n].translator = i}
           T == {t \in Types : i \in Range(p.idle[k][t])}
<1>1. CompShape(p) /\ Lending(p, B) /\ UnusedEmpty(p)
  BY DEF Sound
<1>2. k \in Compilers
  BY <1>1 DEF CompShape, Made, CompilerIds
<1>3. \A t \in Types : Range(p.idle[k][t]) = {p.idle[k][t][j] : j \in Slots(p, k, t)}
  <2>1. p.idle[k] \in [Types -> Seq(Translators)]
    BY <1>1, <1>2 DEF CompShape
  <2> QED
    BY <2>1 DEF Range, Slots
<1> HIDE DEF k
<1>4. T = {t \in Types : \E j \in Slots(p, k, t) : p.idle[k][t][j] = i}
  BY <1>3
<1>5. L = {n \in B : p.shader[n].translator = i}
  BY DEF Pending, CompilePending, IsShader
<1> HIDE DEF B, L, T
<1>6. \A n \in L : p.shader[n].compiler = k /\ k \in CompilersInUse(p)
  <2>1. \A n \in L : p.shader[n].compiler = k
    BY <1>1, <1>5 DEF Lending, LentMade, k
  <2>2. \A n \in L : n \in Names /\ IsShader(p, n)
    BY <1>5 DEF B, Pending, CompilePending, IsShader
  <2> QED
    BY <2>1, <2>2 DEF CompilersInUse
<1>7. \A m, n \in L : m = n
  BY <1>1, <1>5 DEF Lending, LentOnce
<1>8. \A s, t \in T : s = t
  BY <1>1, <1>2, <1>4 DEF Lending, IdleOnce
<1>9. L = {} \/ T = {}
  BY <1>1, <1>2, <1>4, <1>5 DEF Lending, IdleNotLent
<1>10. L # {} \/ T # {}
  BY <1>1, <1>4, <1>5 DEF Lending, NoneLost, IdleAt, k
<1>11. T # {} => k \in CompilersInUse(p)
  <2>1. ASSUME k \notin CompilersInUse(p), NEW t \in Types PROVE Slots(p, k, t) = {}
    BY <1>1, <1>2, <2>1 DEF UnusedEmpty, Slots
  <2> QED
    BY <1>4, <2>1
<1>12. Cardinality(L) + Cardinality(T) = 1
  <2>1. Cardinality({}) = 0 /\ \A x : Cardinality({x}) = 1
    BY FS_EmptySet, FS_Singleton
  <2>2. CASE L = {}
    <3>1. PICK x : T = {x}
      BY <1>8, <1>10, <2>2
    <3> QED
      BY <2>1, <2>2, <3>1
  <2>3. CASE L # {}
    <3>1. T = {}
      BY <1>9, <2>3
    <3>2. PICK x : L = {x}
      BY <1>7, <2>3
    <3> QED
      BY <2>1, <3>1, <3>2
  <2> QED
    BY <2>2, <2>3
<1>13. k \in CompilersInUse(p)
  BY <1>6, <1>10, <1>11
<1> QED
  BY <1>6, <1>12, <1>13 DEF L, T, k

\* A translator is lent to one pending shader or rests in the pool of the
\* compiler that made it, and a task belongs to a pending shader and uses its
\* translator, for any number of compilers, shaders and threads
\* (Compiler::getInstance and putInstance, TranslateTask).
THEOREM TranslatorsOwnedAlways == Spec => []TranslatorsOwned
<1>1. CompInv => TranslatorsOwned
  <2> SUFFICES ASSUME CompInv PROVE TranslatorsOwned
    OBVIOUS
  <2>1. Sound(progs) /\ TasksAre(progs, Pending(progs)) /\ JobsAre(progs, Pending(progs))
    BY DEF CompInv, Good, Working
  <2>2. ASSUME NEW i \in Tasks, progs.workers.tasks[i].state # "none"
        PROVE  CompilePending(progs, i) /\ progs.job[i].translator = progs.shader[i].translator
    <3>1. i \in Pending(progs)
      BY <2>1, <2>2 DEF TasksAre
    <3>2. progs.job[i] = [translator |-> progs.shader[i].translator, source |-> progs.shader[i].asked]
      BY <2>1, <3>1 DEF JobsAre
    <3> QED
      BY <3>1, <3>2 DEF Pending
  <2> QED
    BY <2>1, <2>2, OwnedOnce DEF TranslatorsOwned
<1> QED
  BY <1>1, CompilationInvariant, PTL
=============================================================================
