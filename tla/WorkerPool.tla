----------------------------- MODULE WorkerPool -----------------------------
(***************************************************************************)
(* angle::WorkerThreadPool (WorkerThread.cpp): pools of threads that run   *)
(* closures, one pool per context until the context replaces it.           *)
(*                                                                         *)
(* A task is a closure with the event to wait for it.  Its thread runs     *)
(* the closure and leaves the count of running threads, and then looks for *)
(* pending tasks in a critical section of its own; only then is the future *)
(* of the event ready.                                                     *)
(***************************************************************************)
EXTENDS Integers, Sequences, FiniteSets

CONSTANTS
    MaxTasks,       \* bound: tasks that exist at a time
    MaxPools,       \* bound: pools that exist at a time
    HardwareThreads \* std::thread::hardware_concurrency()

ASSUME WorkerAssumption ==
    /\ MaxTasks \in Nat /\ MaxPools \in Nat
    /\ HardwareThreads \in Nat \ {0}   \* the standard allows 0: "not computable"

Tasks == 1..MaxTasks
Pools == 1..MaxPools
AllThreads == -1    \* 0xFFFFFFFF

NoTask == [state |-> "none", pool |-> 0]

\* AsyncWorkerPool and SingleThreadedWorkerPool
NewPool(async) ==
    [async |-> async, max |-> HardwareThreads, running |-> 0, queue |-> <<>>]

NewWorkers == [tasks |-> [i \in Tasks |-> NoTask], pools |-> [k \in Pools |-> NewPool(FALSE)]]

\* How many threads the loop of checkToRunPendingTasks starts.
Startable(p) ==
    LET free == p.max - p.running
    IN  IF free < 0 THEN 0 ELSE IF free < Len(p.queue) THEN free ELSE Len(p.queue)

\* checkToRunPendingTasks
CheckToRunPendingTasks(w, k) ==
    LET n == Startable(w.pools[k])
        started == {w.pools[k].queue[i] : i \in 1..n} IN
    [w EXCEPT !.pools[k].queue = SubSeq(@, n + 1, Len(@)),
              !.pools[k].running = @ + n,
              !.tasks = [i \in Tasks |-> IF i \in started THEN [@[i] EXCEPT !.state = "running"]
                                                         ELSE @[i]]]

\* postWorkerTask.  A single-threaded pool runs the closure at once, which is
\* the caller's concern.  The two critical sections of an asynchronous pool are
\* one step: whoever checks first starts the task.
PostWorkerTask(w, k, i) ==
    IF w.pools[k].async
    THEN CheckToRunPendingTasks([w EXCEPT !.tasks[i] = [state |-> "queued", pool |-> k],
                                          !.pools[k].queue = Append(@, i)], k)
    ELSE [w EXCEPT !.tasks[i] = [state |-> "done", pool |-> k]]

\* Mutant: a larger limit is noticed when the next task is posted.
SetMaxThreadsOnly(w, k, n) ==
    [w EXCEPT !.pools[k].max = IF n = AllThreads THEN HardwareThreads ELSE n]

\* setMaxThreads
SetMaxThreads(w, k, n) ==
    IF w.pools[k].async
    THEN CheckToRunPendingTasks(
           [w EXCEPT !.pools[k].max = IF n = AllThreads THEN HardwareThreads ELSE n], k)
    ELSE w

\* The steps of the thread of task i: the closure has run and the count is
\* decremented; pending tasks are started and the future becomes ready.
Left(w, i) == [w EXCEPT !.tasks[i].state = "left", !.pools[w.tasks[i].pool].running = @ - 1]

\* Mutant: a thread that ends starts no other task.
DoneOnly(w, i) == [w EXCEPT !.tasks[i].state = "done"]

Done(w, i) == CheckToRunPendingTasks([w EXCEPT !.tasks[i].state = "done"], w.tasks[i].pool)

\* AsyncWaitableEvent::isReady and wait: the task was started and is done.
IsReady(w, i) == w.tasks[i].state = "done"

TasksOf(w, k) == {i \in Tasks : w.tasks[i].pool = k /\ w.tasks[i].state # "none"}

\* No thread is idle while a task waits: a pool with pending tasks runs as many
\* threads as it may, or a thread is about to look for pending tasks.
NoIdleThread(w, k) ==
    w.pools[k].queue # <<>> =>
        \/ w.pools[k].running >= w.pools[k].max
        \/ \E i \in TasksOf(w, k) : w.tasks[i].state = "left"

\* The count is that of the threads that have started and not left.
RunningExact(w, k) ==
    w.pools[k].running = Cardinality({i \in TasksOf(w, k) : w.tasks[i].state = "running"})
=============================================================================
