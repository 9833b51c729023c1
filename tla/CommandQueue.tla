---------------------------- MODULE CommandQueue ----------------------------
(***************************************************************************)
(* The queue of Metal command buffers that all contexts of one display     *)
(* share (mtl_command_buffer.mm 54-209, DisplayMtl::mCmdQueue), with       *)
(*   - the part of mtl::CommandBuffer that talks to it (restart, commit,   *)
(*     finish, destructor), one per context,                               *)
(*   - the usage serial of a resource (mtl_resources.mm 66-100),           *)
(*   - the calls of the GL threads that reach it (ContextMtl.mm),          *)
(*   - and, external, the Metal command queue: buffers execute in the      *)
(*     order they were enqueued, none before it was committed; completed   *)
(*     handlers run later, on a thread of Metal, in any order.             *)
(* Every critical section of CommandQueue::mLock is one action; what a     *)
(* thread does between two critical sections is a step of its own.         *)
(***************************************************************************)
EXTENDS Integers, Sequences, FiniteSets

CONSTANTS
    Threads,          \* threads making GL and EGL calls
    Contexts,         \* gl contexts of the display
    NoContext,        \* a thread without a current context
    Resources,        \* mtl::Buffer and mtl::Texture objects
    SharedContexts,   \* contexts whose Context::isShared() is true
    Uses,             \* Uses[c]: the resources that commands of c refer to
    MaxSerial         \* bound: number of command buffers ever made

ASSUME ContextsAssumption == NoContext \notin Contexts /\ SharedContexts \subseteq Contexts

ASSUME MaxSerialAssumption == MaxSerial \in Nat

ASSUME ResourcesAssumption == Resources # {}

\* Only contexts of a share group may refer to the same resource.
ASSUME UsesAssumption ==
    /\ Uses \in [Contexts -> SUBSET Resources]
    /\ \A c, d \in Contexts :
         c # d /\ Uses[c] \cap Uses[d] # {} => {c, d} \subseteq SharedContexts

VARIABLES
    \* CommandQueue
    queue,              \* mMetalCmdBuffers, as serials
    tmp,                \* mMetalCmdBuffersTmp, as serials
    counter,            \* mQueueSerialCounter
    committedSerial,    \* mCommittedBufferSerial
    completedSerial,    \* mCompletedBufferSerial
    \* CommandBuffer of each context, and the resources
    cb,                 \* [serial |-> mQueueSerial, committed |-> mCommitted]
    resSerial,          \* UsageRef::cmdBufferQueueSerial
    uses,               \* history, <<s, r>>: commands of buffer s, whose handler
                        \* has not run, refer to resource r
    \* threads
    current,            \* the current context of a thread
    op,                 \* the call a thread is in
    pc,                 \* where in the call it is
    res,                \* the resource the call is about
    waitOn,             \* the popped entry it waits for
    \* Metal (external)
    gpuQueue,           \* enqueued command buffers, not yet executed
    hwCommitted,        \* buffers that received [commit]
    executed,           \* buffers whose commands the GPU has finished
    handled             \* buffers whose completed handlers have run

queueVars  == <<queue, tmp, counter, committedSerial, completedSerial>>
bufferVars == <<cb, resSerial, uses>>
threadVars == <<current, op, pc, res, waitOn>>
metalVars  == <<gpuQueue, hwCommitted, executed, handled>>
vars       == <<queueVars, bufferVars, threadVars, metalVars>>

Ops == {"none", "flush", "finish", "map", "query", "release", "destroy", "terminate"}
PCs == {"idle", "notify", "commit", "ensure", "wait", "ready", "answer", "waitOwn", "drain"}

Serials    == 1..MaxSerial
NoBuffer   == [serial |-> 0, committed |-> FALSE]

\* res of a thread that is in no call
IdleResource == CHOOSE r \in Resources : TRUE

Larger(a, b) == IF a < b THEN b ELSE a
Entries(q) == {q[i] : i \in 1..Len(q)}

Init ==
    /\ queue = <<>> /\ tmp = <<>>
    /\ counter = 1 /\ committedSerial = 0 /\ completedSerial = 0
    /\ cb = [c \in Contexts |-> NoBuffer]
    /\ resSerial = [r \in Resources |-> 0]
    /\ uses = {}
    /\ current = [t \in Threads |-> NoContext]
    /\ op = [t \in Threads |-> "none"]
    /\ pc = [t \in Threads |-> "idle"]
    /\ res = [t \in Threads |-> IdleResource]
    /\ waitOn = [t \in Threads |-> 0]
    /\ gpuQueue = <<>> /\ hwCommitted = {} /\ executed = {} /\ handled = {}

-----------------------------------------------------------------------------
(* Helpers of the calls. *)

\* CommandBuffer::validImpl
Valid(c) == cb[c].serial # 0 /\ ~cb[c].committed

\* CommandQueue::isResourceBeingUsedByGPU
IsResourceBeingUsedByGPU(r) == completedSerial < resSerial[r]

\* CommandQueue::resourceHasPendingWorks
ResourceHasPendingWorks(r) == committedSerial < resSerial[r]

\* egl::GetGlobalMutex: EGL calls hold it, and GL calls of a shared context.
HoldsGlobalMutex(t) ==
    /\ pc[t] # "idle"
    /\ op[t] \in {"release", "destroy", "terminate"} \/ current[t] \in SharedContexts

\* A call that takes the mutex can start only when no other call holds it.
CanEnter(t, o) ==
    /\ pc[t] = "idle"
    /\ (o \in {"release", "destroy", "terminate"} \/ current[t] \in SharedContexts)
         => \A u \in Threads : ~HoldsGlobalMutex(u)

Begin(t, o, r, next) ==
    /\ CanEnter(t, o)
    /\ op' = [op EXCEPT ![t] = o]
    /\ res' = [res EXCEPT ![t] = r]
    /\ pc' = [pc EXCEPT ![t] = next]
    /\ UNCHANGED <<current, waitOn>>

Goto(t, next) ==
    /\ pc' = [pc EXCEPT ![t] = next]
    /\ IF next = "idle"
       THEN /\ op' = [op EXCEPT ![t] = "none"]
            /\ res' = [res EXCEPT ![t] = IdleResource]
       ELSE UNCHANGED <<op, res>>

\* Mutant: [enqueue] after the unlock, another thread's buffer may get before.
MakeEnqueueUnlocked(c) ==
    /\ counter <= MaxSerial
    /\ queue' = Append(queue, counter)
    /\ \/ gpuQueue' = Append(gpuQueue, counter)
       \/ gpuQueue' = <<counter>> \o gpuQueue
    /\ counter' = counter + 1
    /\ cb' = [cb EXCEPT ![c] = [serial |-> counter, committed |-> FALSE]]

\* CommandQueue::makeMetalCommandBuffer, CommandBuffer::restart: one critical
\* section takes the serial, appends the entry and enqueues the Metal buffer.
MakeMetalCommandBuffer(c) ==
    /\ counter <= MaxSerial
    /\ queue' = Append(queue, counter)
    /\ gpuQueue' = Append(gpuQueue, counter)
    /\ counter' = counter + 1
    /\ cb' = [cb EXCEPT ![c] = [serial |-> counter, committed |-> FALSE]]

EnsureCommandBufferValid(c) ==
    IF Valid(c)
    THEN UNCHANGED <<queue, gpuQueue, counter, cb>>
    ELSE MakeMetalCommandBuffer(c)

\* Resource::setUsedByCommandBufferWithQueueSerial
SetUsedBy(s, r) ==
    /\ resSerial' = [resSerial EXCEPT ![r] = Larger(@, s)]
    /\ uses' = uses \cup {<<s, r>>}

\* Drop the leading entries of q up to serial s (onCommandBufferCompleted).
PopUpTo(q, s) ==
    LET n == CHOOSE n \in 0..Len(q) :
               /\ \A i \in 1..n : q[i] <= s
               /\ n = Len(q) \/ q[n + 1] > s
    IN SubSeq(q, n + 1, Len(q))

-----------------------------------------------------------------------------
(* Calls that do not wait. *)

\* eglMakeCurrent on a thread without a current context.
Bind(t, c) ==
    /\ CanEnter(t, "release") /\ current[t] = NoContext
    /\ \A u \in Threads : current[u] # c
    /\ current' = [current EXCEPT ![t] = c]
    /\ UNCHANGED <<op, pc, res, waitOn, queueVars, bufferVars, metalVars>>

\* A draw, blit, clear or dispatch that refers to r.
Encode(t, r) ==
    /\ CanEnter(t, "none") /\ current[t] # NoContext
    /\ LET c == current[t] IN
         /\ r \in Uses[c]
         /\ EnsureCommandBufferValid(c)
         /\ SetUsedBy(IF Valid(c) THEN cb[c].serial ELSE counter, r)
    /\ UNCHANGED <<tmp, committedSerial, completedSerial, threadVars,
                   hwCommitted, executed, handled>>

\* Buffer::reset: the object gets a new Metal buffer that no commands use.
ResetResource(t, r) ==
    /\ CanEnter(t, "none") /\ current[t] # NoContext /\ r \in Uses[current[t]]
    /\ resSerial' = [resSerial EXCEPT ![r] = 0]
    /\ uses' = {u \in uses : u[2] # r}
    /\ UNCHANGED <<cb, queueVars, threadVars, metalVars>>

-----------------------------------------------------------------------------
(* Calls that start with ContextMtl::flushCommandBufer, or may. *)

FlushFirst(c, otherwise) == IF Valid(c) THEN "notify" ELSE otherwise

\* glFlush and the internal flushes
Flush(t) ==
    /\ current[t] # NoContext /\ Valid(current[t])
    /\ Begin(t, "flush", res[t], "notify")
    /\ UNCHANGED <<queueVars, bufferVars, metalVars>>

\* glFinish
Finish(t) ==
    /\ current[t] # NoContext
    /\ Begin(t, "finish", res[t], FlushFirst(current[t], "waitOwn"))
    /\ UNCHANGED <<queueVars, bufferVars, metalVars>>

\* Mutant: the own commands are not flushed before the wait.
MapWithoutFlush(t, r) ==
    /\ current[t] # NoContext /\ r \in Uses[current[t]]
    /\ Begin(t, "map", r, "ensure")
    /\ UNCHANGED <<queueVars, bufferVars, metalVars>>

\* Buffer::map, Texture::replaceRegion, Texture::getBytes
Map(t, r) ==
    /\ current[t] # NoContext /\ r \in Uses[current[t]]
    /\ Begin(t, "map", r, IF IsResourceBeingUsedByGPU(r)
                          THEN FlushFirst(current[t], "ensure") ELSE "ensure")
    /\ UNCHANGED <<queueVars, bufferVars, metalVars>>

\* QueryMtl::isResultAvailable on the visibility result buffer r
IsResultAvailable(t, r) ==
    /\ current[t] # NoContext /\ r \in Uses[current[t]]
    /\ Begin(t, "query", r, IF ResourceHasPendingWorks(r)
                            THEN FlushFirst(current[t], "answer") ELSE "answer")
    /\ UNCHANGED <<queueVars, bufferVars, metalVars>>

\* Mutant: onUnMakeCurrent does not flush.
ReleaseWithoutFlush(t) ==
    /\ current[t] # NoContext /\ CanEnter(t, "release")
    /\ current' = [current EXCEPT ![t] = NoContext]
    /\ UNCHANGED <<op, pc, res, waitOn, queueVars, bufferVars, metalVars>>

\* eglMakeCurrent to another context: ContextMtl::onUnMakeCurrent
Release(t) ==
    /\ current[t] # NoContext
    /\ IF Valid(current[t])
       THEN Begin(t, "release", res[t], "notify")
       ELSE /\ CanEnter(t, "release")
            /\ current' = [current EXCEPT ![t] = NoContext]
            /\ UNCHANGED <<op, pc, res, waitOn>>
    /\ UNCHANGED <<queueVars, bufferVars, metalVars>>

\* eglDestroyContext of the current context: unMakeCurrent, ~CommandBuffer
Destroy(t) ==
    /\ current[t] # NoContext
    /\ Begin(t, "destroy", res[t], FlushFirst(current[t], "waitOwn"))
    /\ UNCHANGED <<queueVars, bufferVars, metalVars>>

\* CommandBuffer::commitImpl: onCommandBufferCommitted ...
NotifyCommitted(t) ==
    /\ pc[t] = "notify"
    /\ committedSerial' = Larger(committedSerial, cb[current[t]].serial)
    /\ Goto(t, "commit")
    /\ UNCHANGED <<current, waitOn, queue, tmp, counter, completedSerial,
                   bufferVars, metalVars>>

AfterFlush(o) ==
    CASE o = "map"                   -> "ensure"
      [] o = "query"                 -> "answer"
      [] o \in {"finish", "destroy"} -> "waitOwn"
      [] OTHER                       -> "idle"

\* ... then [commit] and mCommitted = true.
Commit(t) ==
    /\ pc[t] = "commit"
    /\ LET c == current[t] IN
         /\ hwCommitted' = hwCommitted \cup {cb[c].serial}
         /\ cb' = [cb EXCEPT ![c].committed = TRUE]
         /\ current' = IF op[t] = "release" THEN [current EXCEPT ![t] = NoContext] ELSE current
    /\ Goto(t, AfterFlush(op[t]))
    /\ UNCHANGED <<waitOn, queueVars, resSerial, uses, gpuQueue, executed, handled>>

-----------------------------------------------------------------------------
(* Waiting for the GPU. *)

\* Mutant: ~CommandBuffer commits but does not wait.
FinishWithoutWait(t) ==
    /\ pc[t] = "waitOwn"
    /\ IF op[t] = "destroy"
       THEN /\ cb' = [cb EXCEPT ![current[t]] = NoBuffer]
            /\ current' = [current EXCEPT ![t] = NoContext]
       ELSE UNCHANGED <<cb, current>>
    /\ Goto(t, "idle")
    /\ UNCHANGED <<waitOn, queueVars, resSerial, uses, metalVars>>

\* CommandBuffer::finish: [waitUntilCompleted] of the own buffer, if there is
\* one; ~CommandBuffer then lets go of it and the context is gone.
FinishWait(t) ==
    /\ pc[t] = "waitOwn"
    /\ cb[current[t]].serial \in handled \cup {0}
    /\ IF op[t] = "destroy"
       THEN /\ cb' = [cb EXCEPT ![current[t]] = NoBuffer]
            /\ current' = [current EXCEPT ![t] = NoContext]
       ELSE UNCHANGED <<cb, current>>
    /\ Goto(t, "idle")
    /\ UNCHANGED <<waitOn, queueVars, resSerial, uses, metalVars>>

\* CommandQueue::ensureResourceReadyForCPU, head of the loop (under mLock):
\* take the oldest entry, or leave.
EnsureReady(t) ==
    /\ pc[t] = "ensure"
    /\ IF IsResourceBeingUsedByGPU(res[t]) /\ queue # <<>>
       THEN /\ queue' = Tail(queue)
            /\ waitOn' = [waitOn EXCEPT ![t] = Head(queue)]
            /\ Goto(t, "wait")
       ELSE /\ Goto(t, "ready")
            /\ UNCHANGED <<queue, waitOn>>
    /\ UNCHANGED <<current, tmp, counter, committedSerial, completedSerial,
                   bufferVars, metalVars>>

\* Mutant: an if where the code has a while, one entry is waited for.
EnsureWaitOnce(t) ==
    /\ pc[t] = "wait"
    /\ waitOn[t] \in handled
    /\ Goto(t, "ready")
    /\ waitOn' = [waitOn EXCEPT ![t] = 0]
    /\ UNCHANGED <<current, queueVars, bufferVars, metalVars>>

\* Mutant: entries are popped but not waited for.
EnsureWithoutWait(t) ==
    /\ pc[t] = "wait"
    /\ Goto(t, "ensure")
    /\ waitOn' = [waitOn EXCEPT ![t] = 0]
    /\ UNCHANGED <<current, queueVars, bufferVars, metalVars>>

\* body of the loop (without mLock): [waitUntilCompleted] of that entry, which
\* returns after its completed handlers.
EnsureWait(t) ==
    /\ pc[t] = "wait"
    /\ waitOn[t] \in handled
    /\ Goto(t, "ensure")
    /\ waitOn' = [waitOn EXCEPT ![t] = 0]
    /\ UNCHANGED <<current, queueVars, bufferVars, metalVars>>

\* The CPU has accessed the resource, or has its answer: the call returns.
Return(t) ==
    /\ pc[t] \in {"ready", "answer"}
    /\ Goto(t, "idle")
    /\ UNCHANGED <<current, waitOn, queueVars, bufferVars, metalVars>>

\* DisplayMtl::terminate, CommandQueue::reset: finishAllCommands moves all
\* entries under mLock ...
Terminate(t) ==
    /\ \A u \in Threads : pc[u] = "idle" /\ current[u] = NoContext
    /\ \A c \in Contexts : cb[c] = NoBuffer
    /\ Begin(t, "terminate", res[t], "drain")
    /\ tmp' = tmp \o queue
    /\ queue' = <<>>
    /\ UNCHANGED <<counter, committedSerial, completedSerial, bufferVars, metalVars>>

\* ... and waits for them without it.
FinishAllCommands(t) ==
    /\ pc[t] = "drain"
    /\ Entries(tmp) \subseteq handled
    /\ tmp' = <<>>
    /\ Goto(t, "idle")
    /\ UNCHANGED <<current, waitOn, queue, counter, committedSerial, completedSerial,
                   bufferVars, metalVars>>

-----------------------------------------------------------------------------
(* Metal (external), and the handler it calls back. *)

\* The GPU finishes the oldest enqueued buffer, once it was committed.
Execute ==
    /\ gpuQueue # <<>> /\ Head(gpuQueue) \in hwCommitted
    /\ gpuQueue' = Tail(gpuQueue)
    /\ executed' = executed \cup {Head(gpuQueue)}
    /\ UNCHANGED <<hwCommitted, handled, queueVars, bufferVars, threadVars>>

\* Mutant: no check for a late handler, no maximum.
CompletedInAnyOrder(s) ==
    /\ s \in executed \ handled
    /\ handled' = handled \cup {s}
    /\ uses' = {u \in uses : u[1] # s}
    /\ queue' = PopUpTo(queue, s)
    /\ completedSerial' = s
    /\ UNCHANGED <<tmp, counter, committedSerial, cb, resSerial, threadVars,
                   gpuQueue, hwCommitted, executed>>

\* CommandQueue::onCommandBufferCompleted, the handler of buffer s
OnCommandBufferCompleted(s) ==
    /\ s \in executed \ handled
    /\ handled' = handled \cup {s}
    /\ uses' = {u \in uses : u[1] # s}
    /\ IF completedSerial >= s
       THEN UNCHANGED <<queue, completedSerial>>
       ELSE /\ queue' = PopUpTo(queue, s)
            /\ completedSerial' = Larger(completedSerial, s)
    /\ UNCHANGED <<tmp, counter, committedSerial, cb, resSerial, threadVars,
                   gpuQueue, hwCommitted, executed>>

-----------------------------------------------------------------------------

\* The steps a thread takes once a call has begun.
Proceed(t) ==
    \/ NotifyCommitted(t) \/ Commit(t)
    \/ FinishWait(t) \/ EnsureReady(t) \/ EnsureWait(t)
    \/ Return(t) \/ FinishAllCommands(t)

Call(t) ==
    \/ \E c \in Contexts : Bind(t, c)
    \/ \E r \in Resources : Encode(t, r) \/ ResetResource(t, r) \/ Map(t, r)
                             \/ IsResultAvailable(t, r)
    \/ Flush(t) \/ Finish(t) \/ Release(t) \/ Destroy(t) \/ Terminate(t)

Metal ==
    \/ Execute
    \/ \E s \in Serials : OnCommandBufferCompleted(s)

Next ==
    \/ \E t \in Threads : Call(t) \/ Proceed(t)
    \/ Metal

Spec == Init /\ [][Next]_vars

\* A thread in a call is scheduled, the GPU makes progress on what it was
\* given and Metal calls the handlers.  Whether a thread calls is its choice.
Fairness ==
    /\ \A t \in Threads : WF_vars(Proceed(t))
    /\ WF_vars(Execute)
    /\ \A s \in Serials : WF_vars(OnCommandBufferCompleted(s))

FairSpec == Spec /\ Fairness

-----------------------------------------------------------------------------
(* Properties. *)

\* Type invariant.
TypeOK ==
    /\ queue \in Seq(Nat) /\ tmp \in Seq(Nat)
    /\ counter \in Nat /\ committedSerial \in Nat /\ completedSerial \in Nat
    /\ cb \in [Contexts -> [serial : Nat, committed : BOOLEAN]]
    /\ resSerial \in [Resources -> Nat]
    /\ uses \subseteq Nat \X Resources
    /\ current \in [Threads -> Contexts \cup {NoContext}]
    /\ op \in [Threads -> Ops]
    /\ pc \in [Threads -> PCs]
    /\ res \in [Threads -> Resources]
    /\ waitOn \in [Threads -> Nat]
    /\ gpuQueue \in Seq(Nat)
    /\ hwCommitted \subseteq Nat /\ executed \subseteq Nat /\ handled \subseteq Nat

\* mCompletedBufferSerial is a fence: when it has reached s, the GPU is done
\* with every buffer up to s, although handlers run late and out of order and
\* threads make and commit their buffers in different orders.
CompletedIsDone == 1..completedSerial \subseteq executed

\* Popping entries (in the handler, by a waiting thread, at terminate) loses
\* none: a buffer made and not known to be complete is in the queue, or some
\* thread has taken it and is waiting for it.
NoEntryLost ==
    \A s \in (completedSerial + 1)..(counter - 1) :
        \/ s \in Entries(queue) \cup Entries(tmp)
        \/ \E t \in Threads : pc[t] = "wait" /\ waitOn[t] = s

\* The GPU executes in serial order: what it has finished is a prefix of the
\* serials issued, what it still has is the rest.
GpuInOrder ==
    LET n == counter - 1 - Len(gpuQueue) IN
      /\ n >= 0
      /\ executed = 1..n
      /\ \A i \in 1..Len(gpuQueue) : gpuQueue[i] = n + i

\* The completed serial is the largest serial whose handler has run.
HandledAcknowledged ==
    /\ handled \subseteq executed
    /\ \A s \in handled : s <= completedSerial
    /\ completedSerial \in handled \cup {0}

\* Only issued buffers are committed and only committed ones are executed; a
\* context is current in one thread, and a thread that flushes has a buffer.
BuffersAccounted ==
    /\ executed \subseteq hwCommitted /\ hwCommitted \subseteq 1..(counter - 1)
    /\ \A c \in Contexts : cb[c].serial < counter
    /\ \A t, u \in Threads : current[t] = current[u] /\ current[t] # NoContext => t = u
    /\ \A t \in Threads : pc[t] \in {"notify", "commit"} =>
                            current[t] # NoContext /\ cb[current[t]].serial > 0

\* The inductive invariant of the queue.
QueueInv ==
    TypeOK /\ GpuInOrder /\ HandledAcknowledged /\ NoEntryLost /\ BuffersAccounted

\* When ensureResourceReadyForCPU returns, "every GPU command buffer using this
\* resource" has finished (mtl_command_buffer.h 48), also the uncommitted ones
\* of other contexts; except that the loop does not wait for an entry that
\* another thread has popped (line 107) and is still waiting for.
EnsureMeansReady ==
    \A t \in Threads : pc[t] = "ready" =>
        \A u \in uses : u[2] = res[t] =>
            \/ u[1] \in executed
            \/ \E v \in Threads \ {t} : pc[v] = "wait" /\ waitOn[v] = u[1]

\* ASSERT(!isResourceBeingUsedByGPU(resource)) at its end (line 120).
EnsureAssertion ==
    \A t \in Threads : pc[t] = "ready" => ~IsResourceBeingUsedByGPU(res[t])

\* The command buffers in progress in the contexts current in other threads.
OpenElsewhere(t) ==
    {cb[current[u]].serial :
        u \in {v \in Threads \ {t} : current[v] # NoContext /\ Valid(current[v])}}

\* The callers' duty that mtl_command_buffer.h 49-51 states: a thread in
\* [waitUntilCompleted] waits for a buffer that was committed or that another
\* thread can still commit, never for its own buffer in progress, nor for one
\* left open in a context that is current nowhere.
NeverWaitsForItself ==
    \A t \in Threads :
        /\ pc[t] = "wait" => waitOn[t] \in hwCommitted \cup OpenElsewhere(t)
        /\ pc[t] = "waitOwn" => cb[current[t]].serial \in hwCommitted \cup {0}

\* "glGetQueryObjectuiv implicitly flush any pending works related to the query"
\* (QueryMtl.mm 126): isResultAvailable answers when every command buffer that
\* refers to the result was committed, so that polling it comes to an end.
AnswerIsFlushed ==
    \A t \in Threads : pc[t] = "answer" =>
        \A u \in uses : u[2] = res[t] => u[1] \in hwCommitted

\* Once no context holds a command buffer, nothing is left in the queue or on
\* the GPU: ~CommandBuffer waited for all of it, and terminate finds nothing.
DestroyedMeansDrained ==
    (\A c \in Contexts : cb[c] = NoBuffer)
        => /\ queue = <<>> /\ tmp = <<>> /\ gpuQueue = <<>>
           /\ executed = 1..(counter - 1)

\* A call returns unless, from some time on, contexts of other threads always
\* have a command buffer open: glFinish, a map, eglMakeCurrent and the destructors
\* wait for nothing else.  A thread that waits with the global mutex for the
\* buffer of another context of its share group makes that happen: neither goes
\* on (line 111).
CallsReturn ==
    \A t \in Threads :
        []<>(OpenElsewhere(t) = {}) => (pc[t] # "idle" ~> pc[t] = "idle")

\* The queue implements the submission timeline: the completed serial is its
\* fence, [commit] its submission.
Timeline == INSTANCE SubmissionTimeline WITH
    issued <- counter - 1, submitted <- hwCommitted, retired <- completedSerial

ImplementsTimeline == Timeline!Spec
=============================================================================
