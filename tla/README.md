# TLA+ specifications of MetalANGLE

This directory models the parts of this repository (MetalANGLE, a version of
ANGLE) in which the order of events matters. First the part that the repository
adds to ANGLE, the Metal renderer in `src/libANGLE/renderer/metal`: GL threads
record commands, the GPU executes them later, completed handlers come back on
a thread of Metal, and CPU-visible memory is recycled under all of it. Then the
front end's share groups, in which contexts on several threads name, use and
delete the same objects while worker threads compile for them. And the command
graph of the Vulkan back end, which reorders what a context records. Paths are
relative to `src/libANGLE/renderer/metal/` unless they name another directory.
`PROJECT.json` maps every definition to the lines it translates, lists the
hazards of the code at the lines where they bite, and names a mutant for every
property: a plausible bug in the code that makes the property fail.

1. Inventory of the system
2. The modules and how they correspond to the code
3. What TLC checks: runs, bounds, fairness
4. What is proved, and how
5. Where code and documentation disagree
6. What is not modelled
7. Plan

## 1. Inventory

### Command queue and submission (`mtl_command_buffer.mm` 54-453)

*State.* The queue of Metal command buffers not known to be complete, a
temporary list at shutdown, the serial counter, the committed and the completed
serial, one command buffer per context, a usage serial per resource. One queue
is shared by all contexts of a display.
*Operations.* Make a buffer (serial, entry and `[enqueue]` under the lock),
commit it, finish it, destroy it, the completed handler, wait until a resource
is ready for the CPU, ask whether it is in use or pending, drain at terminate.
*Interaction.* Called by every GL thread, with the global mutex only for
contexts of a share group (`src/libGLESv2/global_state.h` 30-63) and for EGL
calls; called back by Metal on a thread of its own.
*Hard.* The wait loop pops an entry and waits for it without the lock; handlers
run late and out of order and pop entries as well; the committed serial is one
for all contexts.
*Correct means.* The completed serial is a fence; no entry is lost; a CPU access
waits for all commands that use the resource and never for a buffer that only its
own thread could commit; calls return if other contexts commit what they record; at
shutdown nothing is left.

### Streaming buffer pool (`mtl_buffer_pool.mm`)

*State.* The current buffer and its fill level, the buffers in flight, the free
list, their number and limit, size, alignment, memory policy.
*Operations.* Initialize, allocate, commit and release what is in flight, reset,
change of alignment, destroy.
*Interaction.* `allocate` maps without waiting: it relies on the usage serial of
the buffers it recycles. Owners are the context, the vertex arrays, the buffers
and the render utilities.
*Hard.* Growth with buffers of the old size in three lists, the limit, failure
of an allocation halfway, recycling against a GPU that lags behind.
*Correct means.* No byte belongs to two regions that somebody may still access;
a region has storage; the count is exact and within the limit.

### GL buffers (`BufferMtl.mm`, `VertexArrayMtl.mm`, `mtl_resources.mm`)

*State.* The current Metal buffer, the pool it comes from, the shadow copy of a
dynamic buffer, conversion caches with their dirty flags; the vertex array's
dirty attributes and bound buffers; for managed memory one copy on each side.
*Operations.* Data, sub-data, copy, map and unmap with all access modes, writes
by the GPU, draws direct and converted, delete.
*Hard.* Five places hold the contents for a while, and each operation starts
from one and invalidates others.
*Correct means.* A draw fetches the contents its buffer had when it was called;
a read returns the last contents; a vertex array follows every replacement.

### Command encoding and events (`mtl_command_buffer.mm` 453-2240, `ContextMtl.mm`)

*State.* Active encoder, deferred event signals, render, blit and compute
encoder; the Metal render encoder is created late.
*Operations.* Start and end each encoder, commit, queue a signal, wait for an
event, set a visibility slot, draw, dispatch, copy.
*Hard.* Any call may need another encoder than the active one; signals wait for
the end of a pass; a flush may happen deep inside a draw.
*Correct means.* One open encoder, events between encoders, nothing after the
commit; each signal encoded once, in order, and never behind a wait for it.

### Occlusion queries (`QueryMtl.mm`, `mtl_occlusion_query_pool.mm`, `ContextMtl.mm` 1700-1822)

*State.* The active query, the slots of the pass and who owns them, a result
buffer per query.
*Operations.* Begin, end, delete, result, availability; pause and resume by
clears; continue in the next pass; resolve at the end of a pass.
*Hard.* A query spans any number of passes and slots; Metal forbids to use a
slot twice in a pass and leaves a slot alone that no draw writes; the result is
written by commands encoded after the query has ended.
*Correct means.* The result is what GL says, however the query was cut up.

### Share groups: names, buffers, programs (`src/libANGLE/`)

*State.* `HandleAllocator` keeps the names that are free as ranges and those
given back in a heap. The resource managers map names to objects, which contexts,
programs and the map itself reference (`ResourceManager`, `RefCountObject`,
`Shader`, `Program`). A context has a compiler that keeps a pool of translators
(`Compiler.cpp`), and a pool of worker threads (`WorkerThread.cpp`).
*Operations.* Generate, bind and delete names; create, change, compile and query
shaders; attach, link, use and delete programs; change the number of threads;
destroy a context.
*Interaction.* Entry points of shared contexts hold one mutex for their whole
length, also while they wait for a compilation; the workers take their own.
*Hard.* A shader is compiled in the background with a translator on loan, while
its source changes, its program is linked, its name is deleted or the context
that lent the translator goes away. Deletion is deferred by attachments and use.
*Correct means.* Results belong to the source that was compiled; a translator has
one borrower; a task never waits beside an idle thread; objects live exactly as
long as they are referenced, and the last context leaves nothing behind.

### Client fences (`SyncMtl.mm`, `src/libANGLE/Fence.cpp`)

*State.* A shared event with a counter per fence, its listeners, the waiting
thread with its condition variable.
*Operations.* Set, poll, wait with a time-out, wait on the GPU, finish, delete.
*Hard.* The event is signalled by the GPU on a thread of Metal between the test,
the registration of the listener and the sleep; events are used again.
*Correct means.* A fence that answers "signalled" was passed by the GPU; a sleeping
thread is woken; calls that wait with the mutex return.

### Vulkan command graph (`src/libANGLE/renderer/vulkan/`)

*State.* Nodes with edges and, per resource, the node that writes it and the
nodes that read it; the render pass the context keeps open; serials and the
lists of garbage.
*Operations.* Draw, clear, invalidate, copy, read, attach, update, replace and
map a buffer, fence, flush, finish.
*Hard.* Submission executes the nodes in any order that the edges admit; each
resource contributes edges from what it remembers, which may be from a graph
that no longer exists; state is recycled by serials and use counts.
*Correct means.* Commands that conflict run in the order of the calls; no cycle,
no pointer into a graph that was submitted; nothing is recycled too soon.

### The rest

Semaphores (`SemaphoreMtl.mm`), textures, index caches of the context,
framebuffers and pass descriptors, surfaces, transform feedback, shader
translation and pipeline caches, formats, render utilities, the display; of the
front end state and observers, program binaries and validation; EGL objects, the
shader translator, the rest of the Vulkan back end and the other back ends,
capture, MGLKit, samples and tests. `PROJECT.json` lists each with its sources
and why it is not modelled; section 6 summarizes the reasons.

### How they interact

    GL threads --(mutex if shared)--> EntryPoints --> names, buffers, programs, fences
      programs --post, wait--> WorkerPool;  shaders <--translators-- Compiler
      fences --signal, wait--> GPU;  listener --notify--> waiting thread
    GL threads --(mutex if shared)--> ContextMtl
      ContextMtl --encoders--> CommandEncoding --commit--> CommandQueue --> Metal/GPU
      BufferMtl, QueryMtl --map, hasPendingWorks--> CommandQueue
      BufferMtl, VertexArrayMtl, ContextMtl --allocate--> BufferPool --usage serial--> CommandQueue
      Metal --completed handler--> CommandQueue
    GL threads --> ContextVk --> CommandGraph --submit--> Vulkan queue --serials--> garbage

## 2. Modules

| module | models | state | lines of TLA+ |
|---|---|---|---|
| `SubmissionTimeline` | what the queue promises: serials, submission, a fence | 3 variables | 45 |
| `CommandQueue` | the queue with its lock, threads, contexts, Metal | 19 variables | 542 |
| `CommandQueueProofs` | lemmas, inductive invariants, theorems about `CommandQueue` | - | 2305 |
| `MCCommandQueue` | instances for TLC | - | 13 |
| `BufferPoolOps` | the operations of a pool, and its memory, as operators | none | 231 |
| `BufferPool` | a pool with its owner, the GPU and failing allocations | 6 variables | 182 |
| `BufferPoolLemmas` | what the operations of a pool keep | - | 1931 |
| `BufferPoolProofs` | inductive invariant, theorems about `BufferPool` | - | 701 |
| `MCBufferPool` | the owners of pools | - | 18 |
| `BufferMtl` | GL buffers, vertex arrays and the GPU; holds several pools | 5 variables | 521 |
| `BufferMtlProofs` | the invariant of GL buffers, over `BufferPoolLemmas` | - | 6934 |
| `MCBufferMtl` | what clients do with buffers | - | 32 |
| `CommandEncoding` | command buffer and encoders of a context, as operators | none | 146 |
| `OcclusionQuery` | context, slot pool, queries, fences | 2 variables | 460 |
| `OcclusionQueryProofs` | the invariant of a context that encodes | - | 3060 |
| `MCOcclusionQuery` | instances for TLC | - | 14 |
| `EntryPoints` | contexts on threads, entry points, the mutex | 3 variables | 44 |
| `HandleAllocator` | names, as operators | none | 54 |
| `SharedBuffers` | names, objects and bindings of buffers | 1 variable | 109 |
| `WorkerPool` | pools of worker threads, as operators | none | 92 |
| `SharedPrograms` | shaders, programs, translators, compilation | 1 variable | 409 |
| `SharedObjectsProofs` | lemmas about names, the invariants of buffers and of shaders and programs | - | 4634 |
| `CompilationProofs` | the invariant of translators, tasks and worker threads | - | 4151 |
| `SharedSyncs` | fences, the GPU, listeners, the waiting thread | 1 variable | 238 |
| `ShareGroup` | composes entry points, names, buffers, programs, workers and fences, destruction of contexts, properties | - | 138 |
| `ShareGroupProofs` | the invariant of fences, what destroyed contexts leave | - | 4352 |
| `MCShareGroup` | nine clients | - | 50 |
| `CommandGraph` | the Vulkan command graph and its resources, as operators | none | 197 |
| `ContextVk` | a Vulkan context that records, submits and recycles | 2 variables | 336 |
| `MCContextVk` | six clients | - | 34 |

Composition: `CommandQueue` implements `SubmissionTimeline` (INSTANCE with a
refinement mapping). `BufferPool` and `BufferMtl` extend `BufferPoolOps`, so the
pool that is checked alone is the pool the buffers use. `OcclusionQuery` extends
`CommandEncoding`. `ShareGroup` extends `SharedBuffers`, `SharedPrograms` (over
`WorkerPool`) and `SharedSyncs`, which share `EntryPoints`; `ContextVk` extends
`CommandGraph`. The three upper modules of the Metal back end see the queue through what
`CommandQueue` establishes for one context: serials complete in order, and the
completed serial is a fence.

`CommandQueue`: one action per critical section of `mLock`. A call is an action
that begins it (`Map`, `Flush`, `Finish`, ...), then `Proceed` steps named after
the code (`NotifyCommitted`, `Commit`, `EnsureReady`, `EnsureWait`,
`FinishWait`). `pc[t]` is the place between two critical sections, `waitOn[t]`
the entry a thread has popped and waits for. `Execute` and
`OnCommandBufferCompleted` are Metal: execution in the order of `[enqueue]` once
committed, handlers in any order. `HoldsGlobalMutex` and `CanEnter` are the entry
points' lock. `uses` is history: the commands that refer to a resource, until the
handler of their buffer has run.

`BufferPoolOps`: a pool is a record, memory another; operators return records
with the new pool, the new memory, whether the caller flushed and whether the
call succeeded. A Metal buffer is named by a number; replacing its storage gives
it a new one. Fixed parameters of a device (macOS, unified memory, the features)
are constants. `BufferPool` keeps, in `regions`, what was handed out and may
still be accessed by the owner or the GPU.

`BufferMtl`: contents are a value per *cell*, a range of bytes that calls write
as a whole. `world` holds memory (both copies of managed buffers) and the commands
the GPU has not executed; a draw command carries the contents GL says it must
find. The loop that waits for a resource is one step, `AdvanceTo`.

`CommandEncoding` and `OcclusionQuery`: the context is one record `w` that
operators take and return, one operator per method of the source, composed in
the order of the calls. `w.failed` collects the names of assertions of the code,
and of Metal's rules, that did not hold. An action is a GL call; its operator is
the whole handler. Stale slots read as TRUE, the value that would be mistaken for
a result. The GPU executes commands in the order of encoding, so their effect on
a result is computed at once (`encoded`) and reaches `memory`, what the client
reads, when the GPU has finished the command buffer.

`EntryPoints` and `ShareGroup`: a call of a shared context is one step, since it
holds the mutex from beginning to end, unless it waits. Then `lock` is the call
that holds the mutex. `Perform` computes what a call does as if the compilations
it resolves were finished, collects them in `waits`, and either returns or keeps
the mutex until they are; `Returns` is for calls that resolve none. What nobody
refers to (compilers, translators, thread pools, events) is freed in the same
step. The loops of `ShaderProgramManager::reset` run until a map is empty; if they
would not end, the model leaves the objects, which `NothingLeft` forbids.

`WorkerPool`: a thread runs the closure and leaves the count in one critical
section (`Left`), and looks for pending tasks in the next (`Done`); other calls fall
between.

`SharedSyncs`: `pc` is the place of the one thread that can wait, since it holds
the mutex: the listener is registered, the predicate tested, the thread asleep.
The listener's block needs the mutex of the fence, which the thread gives up when
it falls asleep. `before` is history: work recorded before a fence that the GPU
has not executed.

`CommandGraph` and `ContextVk`: graph, resources and context are one record `w`;
the operators are the functions of the source, `ExecutionOrder` is the depth-first
walk of `submitCommands`. `trace` is history: each command of the graph with its
node, its place in the node (before the pass, load, in the pass, store) and what it
reads and writes. `running` is history too: what a submission that the GPU has not
finished refers to. `failed` collects assertions that did not hold. An action is a
GL call together with the state it synchronizes first.

## 3. What TLC checks

Times are for two workers. Only `queue_threads` switches deadlock checking off, because
there the code can deadlock (below).

| run | question | properties | distinct states |
|---|---|---|---|
| `queue_threads` | two threads; two contexts of a share group with one resource, one context with its own | `CompletedIsDone`, `EnsureMeansReady`, `NeverWaitsForItself`, `NoEntryLost`, `QueueInv`, `DestroyedMeansDrained`, `CallsReturn`, `ImplementsTimeline` | 0.9 M, 140 s |
| `queue_answer` | a query whose result is pending | `AnswerIsFlushed` (violated) | |
| `queue_assert` | the assertion at the end of the wait loop | `EnsureAssertion` (violated) | |
| `pool_owners` | an unlimited pool that appends, grows, recycles, realigns; a limited one with a buffer per allocation and two policies | `TypeOK`, `RegionsDisjoint`, `RegionsBacked`, `CountExact`, `SizesUniform`, `LimitRespected`, `FreeWhenAtLimit` | 1.0 M, 74 s |
| `pool_nil` | Metal runs out of memory | `RegionsBacked` (violated) | |
| `buffer_clients` | one buffer and every call but copies; two buffers copied to one another; unsynchronized maps; managed memory | `TypeOK`, `DrawsSeeTheirData`, `ReadsAreCurrent`, `BoundIsCurrent` | 2.2 M, 114 s |
| `buffer_stale` | copies and converted draws | `DrawsSeeTheirData` (violated) | |
| `query_passes` | queries, fences and waits on three kinds of device | `TypeOK`, `CountedResults`, `EncodingRules`, `FencesAreSignalled`, `WaitsFollowSignals` | 0.5 M, 90 s |
| `query_stale` | result of a query that counted nothing | `QueryResults` (violated) | |
| `query_uniforms` | draws that convert uniforms | `EncoderCreated` (violated) | |
| `share_group` | shared contexts, workers, the GPU and fences; nine clients | `TypeOK`, `RefCountsExact`, `ResultIsOfItsSource`, `TranslatorsOwned`, `NoIdleWorker`, `InUseIsResolved`, `NothingLeft`, `NamesExact`, `SignalsAreTrue`, `NoLostWakeup`, `CallsReturn` | 0.5 M, 123 s |
| `vulkan_graph` | one Vulkan context, six clients | `CallOrderKept`, `AssertionsHold`, `PassIsOpen`, `NothingReusedEarly` | 1.2 M, 125 s |

What the passing runs show:

- `queue_threads`: what holds when two threads wait, pop entries, commit and switch
  contexts, with the global mutex (`c1`, `c2`) and without it (`c3`). The completed
  serial is a fence, no entry is lost, and a CPU access returns when every command that
  refers to its resource was executed, with the one exception that another thread has
  taken the entry along and still waits for it (the cause of `queue_assert`).
  A thread may wait for a buffer that nobody has committed: the loop pops whatever is
  first, also the buffer that another context has in progress. `NeverWaitsForItself`
  says that this is the only such case: it never waits for its own buffer, nor for one
  left open in a context that is current nowhere, because each wait and each change of
  context is preceded by a flush. `CallsReturn` says what follows: a call
  returns unless, from some time on, contexts of other threads always have a buffer open.
  That includes the deadlock of the code: with `c1` in progress on one thread, the
  other maps their resource from `c2` and waits with the mutex for a commit that needs
  the mutex (TLC reaches it in five calls and steps, which is why this run does not check
  for deadlock). `mtl_command_buffer.h` 48-51 makes flushing the caller's own command buffer
  its duty and says nothing of others, so this is recorded here and as a hazard, not as a
  finding.
- `pool_owners`: recycling without waiting is sound because a
  buffer reaches the free list, and leaves it, only by its usage serial.
- `buffer_clients`: the shadow copy, the pool and the conversion
  cache stay consistent through every interleaving of calls and GPU progress, but
  for the blit copy of `buffer_stale`.
- `query_passes`: a query cut up by flushes, uploads, dispatches, clears and ends
  of passes adds up, on Macs with managed memory, on unified memory, and on GPUs
  whose shaders cannot read and write one buffer (which need one slot more).
- `share_group`: background compilation needs no mutex of its own around
  translators because a shader keeps its translator, its compiler and its event
  until the compilation is resolved, whoever deletes what meanwhile; deferred
  deletion is exact; `clientWait` does not miss a signal wherever it falls; and a
  call that waits with the mutex waits only for threads that do not need it.
- `vulkan_graph`: the edges that resources contribute are enough, and never a
  cycle, for draws, clears, copies, reads and buffer updates of one context; of the
  assertions of the graph only one fails, in one call (section 5); the
  pass that the context keeps is given up by every dependency on it; and serials
  with use counts protect storage and framebuffers until the GPU is done.

Bounds, and why they are enough.

- `CommandQueue`: `MaxSerial` = 3 command buffers: an entry before, at and behind the
  one a thread waits for. Two threads, since one that waits and one that interferes suffice for
  every exception that the properties name; three contexts, so that the mutex is taken
  by both threads, one or none.
  The theorems do not depend on any bound but that serials are finite in number.
- `BufferPool`: 2 or 3 storages; one can be current, one in flight and one free
  or used by the GPU. Sizes 1 to 4 against `SharedLimit` 2 (the code's hint in
  kilobytes) reach both memory modes and growth over several doublings. 3 serials:
  recorded, committed, complete.
- `BufferMtl`: 2 cells, so that an update can be partial; 2 values, always
  different from the one that is there; 2 serials and 2 queued commands, so that
  the GPU lags behind both within and across command buffers; 3 storages. The pool
  of a dynamic buffer holds 2 buffers instead of 10: the limit is reached sooner.
- `OcclusionQuery`: 2 queries (symmetric), 3 slots instead of 8191, 2 command
  buffers, 2 fences, 1 wait, together at most `MaxWork` = 3: interactions are
  between two of them, and an exhausted slot pool takes one query and two clears.
- `ShareGroup`: two contexts, each with a thread, and nine clients that each make
  some of the calls: compiling with changing sources, sharing shaders, changing
  the number of threads, linking, linking what is still compiled, validation,
  naming, and the two kinds of fences. The calls of one client interact; those of
  different clients share nothing but the mutex. 3 names, so that one can be taken
  from the middle of a range, and given back; 3 tasks against 2 hardware threads,
  so that one waits; 3 translators against a pool of 1, so that one overflows; 4
  thread pools, so that a replaced pool still runs; 2 events and 2 settings of a
  fence, so that an event is used again.
- `ContextVk`: 2 images and 2 framebuffers (symmetric), so that a framebuffer
  renders to what the other samples; 5 objects. Each client has a bound on the
  nodes (2 to 5) and commands (3 to 6) of a graph before its last call, and on
  submissions (1 or 2, with the GPU lagging behind both): the first graph leaves
  pointers that the second must not follow. `Mixing` makes every call, for three
  nodes.

Fairness is used by the property `CallsReturn` of `CommandQueue` and that of
`ShareGroup`. For `CommandQueue`, `FairSpec` states weak fairness
of a thread inside a call (the system schedules it; every wait has the condition
that Metal signals), of the GPU on committed work, and of each completed handler
(Metal calls them). Whether a thread makes a call is left open: nothing in the
code or its clients forces a thread to make a further call; in particular none forces the
owner of an open command buffer to commit it, so `CallsReturn` of `CommandQueue` has
that as its condition. For `ShareGroup` it is
weak fairness of the worker threads, of the waiting thread, of the GPU on what is
committed and of the listeners' thread, all of which the system schedules, and of
the call that holds the mutex once what it waits for is done (`Resume`). A thread
may time out at any time; `FenceNVMtl::finish` then waits again. A client that
waits on the GPU for a fence of another context has flushed it, as OpenGL ES
requires; otherwise the GPU itself would stop.

## 4. What is proved

Eight modules hold lemmas and theorems. Each theorem is about the specification that
TLC runs and holds for all values of its constants: any number of threads,
contexts, resources, buffers, names, syncs, queries, slots and clients, any limit
and any size. Where the code breaks a property for some values of a constant (section
5), the theorem says which values it excludes.

| module | theorem | statement |
|---|---|---|
| `CommandQueueProofs` | `QueueInvariant` | `Spec => []QueueInv` |
| | `TypeCorrect` | `Spec => []TypeOK` |
| | `CompletedIsDoneAlways` | `Spec => []CompletedIsDone`: the completed serial is a fence |
| | `NoEntryLostAlways` | `Spec => []NoEntryLost` |
| | `DestroyedMeansDrainedAlways` | `Spec => []DestroyedMeansDrained` |
| | `QueueImplementsTimeline` | `Spec => ImplementsTimeline` |
| | `EnsureMeansReadyAlways` | `Spec => []EnsureMeansReady` |
| | `NeverWaitsForItselfAlways` | `Spec => []NeverWaitsForItself` |
| | `EnsureAssertionSerialised` | calls exclude each other (one thread, or all contexts in share groups): `Spec => []EnsureAssertion` |
| `BufferPoolProofs` | `PoolInvariant` | no failing allocations: `Spec => []PoolInv` |
| | `PoolTypes`, `RegionsAreDisjoint`, `RegionsAreBacked`, `CountIsExact`, `SizesAreUniform`, `LimitIsRespected`, `FreeBufferAtLimit` | the same: `Spec => []P` for `P` each of the invariants of `pool_owners` |
| `BufferMtlProofs` | `ContentsInvariant` | `Spec => []BufferInv` |
| | `BufferMtlTyped` | `Spec => []TypeOK` |
| | `BoundCurrent` | `Spec => []BoundIsCurrent` |
| | `ReadsCurrent` | `Spec => [](Waits(client) => ReadsAreCurrent)` |
| | `DrawsSee` | `Spec => [](Waits(client) /\ Marks(client) => DrawsSeeTheirData)` |
| `SharedObjectsProofs` | `BufferInvariant` | `Spec => []BufInv` |
| | `NamesExactAlways` | `Spec => []NamesExact` |
| | `ProgramInvariant` | `Spec => []ProgInv` |
| | `RefCountsExactAlways` | `Spec => []RefCountsExact` |
| | `InUseIsResolvedAlways` | `Spec => []InUseIsResolved` |
| `CompilationProofs` | `CompilationInvariant` | `Spec => []CompInv` |
| | `NoIdleWorkerEver` | `Spec => []NoIdleWorker` |
| | `ResultIsOfItsSourceAlways` | `Spec => []ResultIsOfItsSource` |
| | `TranslatorsOwnedAlways` | `Spec => []TranslatorsOwned` |
| `ShareGroupProofs` | `SyncInvariant` | `Spec => []SyncInv` |
| | `SignalsAreTrueAlways` | `Spec => []SignalsAreTrue` |
| | `NoLostWakeupEver` | `Spec => []NoLostWakeup` |
| | `GroupInvariant` | `Spec => []GroupInv` |
| | `NothingLeftAlways` | `Spec => []NothingLeft` |
| | `ShareGroupTyped` | `Spec => []TypeOK` |
| `OcclusionQueryProofs` | `ContextsAreReady` | `"unaligned" \notin UniformOffsets`, `~FullPoolRestart`: `Spec => []QueryInv` |
| | `TypesOfContexts` | the same: `Spec => []TypeOK` |
| | `RulesAreKept` | the same: `Spec => []EncodingRules` |
| | `EveryFenceIsSignalled` | the same: `Spec => []FencesAreSignalled` |
| | `NoWaitBeforeItsSignal` | the same: `Spec => []WaitsFollowSignals` |

The lemmas on names are in `SharedObjectsProofs`, for buffers and for shaders and
programs. What the operations of a pool keep is in `BufferPoolLemmas`; the pool alone
and the GL buffers with their pools both rest on it.

### The queue

`CompletedIsDone` is not inductive: a handler raises the completed
serial to its own, so one has to know that the GPU finished the smaller serials
first. That is `GpuInOrder`: the executed serials are a prefix and the Metal queue
is the rest, in order, which holds because `makeMetalCommandBuffer` takes the
serial and enqueues in one critical section. `HandledAcknowledged` ties handlers
to the serial. `NoEntryLost` needs both: an entry may leave the queue when its
serial is at most the completed one, or when a thread takes it along.
`BuffersAccounted` says that only issued buffers are committed, and carries the
type of `cb` through a commit. `QueueInv` is their conjunction; the step lemmas
treat each conjunct on its own, first reducing `Next` to the few actions that
touch its variables (`GpuStep`, `HandledStep`).

The refinement maps `issued` to `counter - 1`, `submitted` to the buffers that
received `[commit]` and `retired` to the completed serial. A handler maps to
`Retire`, which needs that every buffer up to its serial was committed: that is
`GpuInOrder` and `BuffersAccounted` again. All steps of the lock, loops and waits
map to stuttering.

`DestroyedMeansDrained` needs `DrainInv`: the queue is sorted and holds nothing
that is complete but what a handler is about to pop (`QueueOrdered`), and the newest
command buffer is complete or still held by its context, because `~CommandBuffer`
waits for it (`NewestHeld`). So when no context holds one, every serial is complete,
and then the queue must be empty.

`EnsureMeansReadyAlways` holds for any number of threads. `ReadySound` says of a thread that
has left the loop that each buffer which refers to its resource is complete, or its
entry was taken by another thread that still waits (`DoneOrTaken`). When the loop
ends because the queue is empty, `NoEntryLost` gives just that. Afterwards it
stays true: a thread stops waiting only when the handler has run (`WaitingStep`), and no one
adds commands that refer to the resource. The latter is where the mutex comes in
(`MappedUntouched`): only a context that may use the resource could record such commands; two
contexts that may are in a share group (`UsesAssumption`), and the call that maps, being
about a resource of its own context (`MapsOwn`), then holds the mutex.

`NeverWaitsForItselfAlways` rests on two invariants. `Held`: a buffer that is not committed is
in progress in a context that is current in some thread, because a context is flushed before it
is left and `~CommandBuffer` waits. `FlushedFirst`: a call that waits has committed
the buffer of its own context, unless the resource is not in use at all, and then the loop
does not wait; that it remains so while other threads step is again `MappedUntouched`.

`EnsureAssertionSerialised` is about the assertion that `queue_assert` refutes, for calls
that exclude each other. It adds `OneCall` (at most one thread is in a call),
`UsesCovered` (a resource's usage serial covers the commands that refer to it) and
`LoopOutcome`: who leaves the loop has seen the completed serial reach the
resource, since with no other thread waiting `NoEntryLost` leaves an entry nowhere else. So the
two threads of the counterexample, and their being outside the mutex, are both necessary.

### The pool

`PoolInv` has three parts. `Sound` is about the members of the pool: entries are
buffers that were made, one buffer is in one place of one list (`Distinct`), sizes
are right (`Sized`), the count is the length of the lists (`Counted`). `RegionsSound`
ties each live region to its buffer: it ends at or below the next offset if the
buffer is the current one, inside the buffer in any case, and its usage serial is
covered by the buffer's. `Apart` is `RegionsDisjoint`. Recycling preserves them
because a buffer leaves the free list only when its usage serial is complete: then no
region in it is live (`RegionsKept`), although nothing waits or looks at regions.
A new buffer gets a `Storage` that is nobody's; where `reset` replaces the storage of
all free buffers in use at once, ranks give each its own (`RankSteps`). The count of buffers
is kept modulo `Word`, as in `size_t`; the proof shows that it never goes below zero.

All theorems of this module assume `MayFail = FALSE`. That is not for convenience:
with failing allocations `RegionsBacked` is false, which is what the run `pool_nil`
shows.

### GL buffers

The state of memory says little while commands are queued, so the invariant speaks
of what each storage *will* hold. `Final(w)` is the world after the GPU has
executed all of `w.queue`, a fold over that sequence. The library defines the fold by a function
that satisfies its equations; that there is one is shown by induction over the length
(`Induction`, over a set of numbers; `FoldsExist`), and with it the fold of the first `k + 1`
commands is the fold of `k`, and one more step (`RanSteps`).
`LastGPU(w, s)` and `LastCPU(w, s)` are the two copies of a storage in it. A draw
in the queue must find its bytes where it will be executed (`DrawsRight`), which a
later command cannot change.

`BufferInv` is a conjunction. `WorldOK`: the serials in the queue increase, are above the completed one and covered by
the usage serials of what the commands touch (`Ordered`), and the two copies of a shared storage
are equal (`Coherent`).
`Built`, for each buffer: its two pools satisfy what `BufferPoolLemmas` needs, and their
storages are its own (`Apart`: no two buffers share one). `Whole`: the contents of the
buffer are where the next user looks. For an unmapped buffer that is the GPU's copy when
everything has run, and also the CPU's if memory is shared or a synchronization is
recorded, and the shadow copy unless the GPU has written since
(`UnmappedOK`); for a mapped one the same but for the cells that the client may be writing
(`MappedOK`). `Turned`: a conversion that is not dirty will hold the converted contents.
`VaosOK`: a vertex array that is not marked has the current storages.

The lemmas relate two states. `Spares(w, v, X)` and `Moves(w, v, X)` say that a step leaves alone
every storage outside `X`, and also what queued draws will find. They compose, so each operator of the
module has a short lemma; a call is then one `Keeps` for the buffer it is about, and `Apart` carries the
invariant over to the others. That a write by the CPU disturbs no queued draw is where
the waits, the recycling of the pool (only storages the GPU is done with) and the
shadow copy come in. No bound of the model is used but that there are finitely many storages.

Two hypotheses on the client appear in the statements. `Waits` excludes maps of a
`static` buffer with `GL_MAP_UNSYNCHRONIZED_BIT` (section 5: in managed memory they upload what
the CPU's copy happened to hold). `Marks` excludes clients that both copy buffers on the GPU and
draw converted ones (the finding `buffer_stale`). Each client of `buffer_clients`
satisfies both; the types and `BoundIsCurrent` need neither. Of the constants the module assumes
that cells are an initial segment of the positive numbers and that a client's calls address at least one
cell: the front end drops calls of size 0 (`src/libANGLE/Context.cpp` 3872, 5282, 5307;
`src/libANGLE/validationES.cpp` 3756).

### Names, buffers and programs

`AllocInv` describes `HandleAllocator`: the free ranges are sorted and do not touch,
the released names are in no range and not twice in the heap, and together they are
exactly the names that the owner's map does not have. Its lemmas say that `Allocate`
returns such a name and takes it, `Release` gives one back, and `Reserve` takes a
given one; the last also shows that `reserve` finds the range it asserts
(`HandleAllocator.cpp`, `boundIt != end`). `BufInv` adds that `refs` of a buffer is
the number of its names and bindings, that it exists while that is positive, and
that a destroyed context has nothing bound.

`ProgInv` says the same of shaders and programs, which take names from one
allocator: no name is both. The references of a shader are the programs it is
attached to, those of a program the contexts in which it is current; what is flagged
for deletion still has references; a program in use has its link resolved. The
counts are stated over a parameter (`ShadersCounted(p, U)`, `ProgramsCounted(p, C, X)`)
and not over the fields of the programs, because the statement must also hold inside
`deleteProgram`, which releases the shaders of a program one by one while the program
still names them, and a release may free a shader. In these proofs compilation,
translators and workers are set aside by one notion, `SameObjects`: whatever `compile`, `resolveCompile` or
a worker does to a state, names, types, counts and flags stay. The loops of
`reset` are recursive functions over the names; a minimal counterexample shows that
each keeps the invariant.

### Compilations, translators and workers

`CompInv` says that the state `progs` is `Good`. `Lending` is about translators: each
that exists rests in exactly one place of the pool of its maker, or is lent to exactly
one shader whose compilation is pending; `UnusedEmpty` says that a compiler nobody
refers to keeps none. `Working` is about tasks: they are those of the pending shaders,
each was given the translator of its shader and the source of `glCompileShader`, and
once its closure has run the translator holds the result, because nobody else has it.
`WorkersOK` is about pools: the queue is that of the tasks not started, the count of
running threads is exact, and no task waits while a thread is to spare, unless a thread
has left the count and is about to look (`NoIdleThread`). That a pool is never dropped
with tasks in it follows from `Working`: the event of a pending shader refers to it.

A call computes the state it leaves as if the compilations it waits for were finished,
and waits for them before. So what an operator preserves is not an invariant of a state
alone: `Good(p, D)` says that the tasks in `D` are done, and `Runs(p, q)` that a step
from `p` to `q` leads from `Good(p, D)` to `Good(q, D)` if the tasks it waits for are in
`D`. `Runs` composes (`RunsTrans`), so that linking, detaching, deleting a program with
its shaders, and the loops of `reset` follow from `resolveCompile`; only `glCompileShader`
is treated on its own (`CompileGood`), by the states after each of its calls: asked,
bound to a compiler, lent a translator, posted. Without the wait before `resolveCompile`
the lemma `ResolvedGood` is false: the translator would be read before it is written.

The modules over `SharedPrograms` assume of the constants that there is a pool for each context, a bound of
the model (`MaxPools`).

### Fences

`SyncInv` follows the signals. For each event the signals that are recorded or
committed come from one context, carry values above the value reached and at most the
counter, and increase in the order of execution, across the command buffer and the
GPU's queue (`Ordered`). The last signal is behind the work that was recorded before
it (`Behind`), which needs the exact account of that work (`WorkExact`). An event
belongs to one sync (`EventsApart`) and an event without one starts again at 0
(`FreeAreNew`), so that a recycled event cannot be signalled by its past. `Told` says
of the waiting thread, at each of its places, that its listener is registered or that
the value was reached; asleep, that it was also notified. Together with the mutex,
which keeps the sync alive, this is `NoLostWakeup`.

The theorems on names, programs, compilations and fences are about the specification of
`ShareGroup`: every action of the others is part of the step.

### What destroyed contexts leave

`NothingLeft` speaks only of the state after the last destruction, but the worker
threads, the GPU and the listeners go on. `GroupInv` adds to the invariants of the
parts what holds of contexts that are gone while others live: they use no program and
no compiler (`LeftUnused`). So when `Context::onDestroy` of the last one reaches the
managers, no program is in use. `ClearPrograms` then deletes each program it meets,
since by `ProgInv` a program without users has no references, and a program deleted
earlier does not come back; when the programs are gone no shader is attached, and
`ClearShaders` deletes those in the same way (`ResetEmpties`, over the two loops as
functions of the names, by the least name at which they fail). Without the first of these facts the
program would only be flagged and the loop of `reset` would run for ever.

The rest follows from the parts: a translator that exists belongs to a compiler in use
(`CompInv`), and there is none; a task belongs to a shader whose compilation is pending, and there is
none; the references of a buffer are its names and bindings (`BufInv`). Afterwards no step
can bring anything back: a listener may still be called, and the GPU may still execute what
was committed, but no fence exists that they could change.

That a call leaves the other contexts alone is one relation, `StaysBut(p, q, c)`, and
`Stays(p, q)` where it changes no context at all; like `Runs` they compose, so that each
operator of `SharedPrograms` has one short lemma.

### Encoders, slots and events of a context

`EncodingRules` says that `failed` is empty: no assertion of the code and no rule of
Metal was broken in any call so far. Each of these checks sits in the middle of a call,
behind several others that may end an encoder, flush or start a new pass, so the
invariant has two strengths. `Steady(w, n)` holds at every point of a call at which an
encoder may be started or ended, where `n` is the number of fences: the flags of the
encoders agree with the encoder that the command buffer has to end (`EncodersAgree`);
the fences up to some `s` are signalled once and in order, no wait is ahead of its signal,
and those behind `s` are exactly the pending ones, which only an open render pass has
(`FencesKept`); the slots of each query are the entries of the pass, without gaps
(`Taken`); draws have written only slots that were taken (`SlotsUsed`); nothing refers
to a command buffer that is yet to come (`Past`). `Ready(w, n)` holds between calls and
adds that the active query has the *last* slots of the pass, which is what
`allocateQueryOffset` asserts when a clear resumes the query. `QueryInv` is `Ready` of
the context with the number of fences issued.

The lemmas follow the layers of the code: one on each field, then the methods of
`CommandBuffer` and of the encoders, resolving at the end of a pass, `endEncoding`, flush and
the three `get...CommandEncoder`, the slot pool, the calls. The loop that resolves slots is a
function over their indices (`Resolved`). That each of its steps keeps the invariant is
induction over a concrete set of indices, by the least index that fails (`LeastNat`,
`Induction`), which needs no operator as a parameter.

The two hypotheses exclude what the code gets wrong: a draw whose uniforms are at an
offset that must be converted (the finding `query_uniforms`), and a clear that pauses
the query when all slots are taken (`QueryStartsInPass`, section 5). The constants of
`query_passes` satisfy both.

### Only model-checked

- The liveness properties `CallsReturn`, since liveness under fairness is outside what
  TLAPS handles.
- The properties of `ContextVk` (`CallOrderKept`, `AssertionsHold`, `PassIsOpen`,
  `NothingReusedEarly`). `CallOrderKept` is about the depth-first walk over the whole graph,
  of which an inductive invariant would have to say that it has no cycle and contains every
  dependency of two commands on a path.
- Of `OcclusionQuery`: `CountedResults`, which needs an invariant on what every slot
  of a pass holds for the query it belongs to.

## 5. Where code and documentation disagree

Each is a run that TLC ends with a counterexample; `PROJECT.json` quotes both sides.

- `queue_assert`: `ensureResourceReadyForCPU` waits for a popped entry without the
  lock. A second thread finds the queue empty and returns although its resource is
  in use, against the assertion at line 120.
- `queue_answer`: `isResultAvailable` asks whether the query has pending work by comparing with
  one committed serial for all contexts. When another context has published a later serial, it
  does not flush, and a client that polls may do so for ever, against the
  comment at `QueryMtl.mm` 126. It takes no shared objects.
- `pool_nil`: after a failed allocation the pool keeps the `Buffer` without Metal
  storage and serves smaller requests from it.
- `buffer_stale`: the blit path of `copySubData` does not mark conversions dirty.
- `query_stale`: `fillBuffer` records no write dependency, so in memory that is not
  managed nobody waits for the reset of a query that then counts nothing.
- `query_uniforms`: the conversion of uniforms maps a buffer in the middle of
  `setupDraw`; if that flushes, the draw is recorded in a committed command buffer.

Observations without a run of their own, because nothing in the repository claims
otherwise, because they only cost time, or because a passing run names them as exceptions:

- the waiting thread with the global mutex, described in section 3;
- in managed memory (Macs without unified memory), `glMapBufferRange` with
  `GL_MAP_UNSYNCHRONIZED_BIT` on a buffer that keeps no shadow copy does not update the CPU's
  copy, and `BufferMtl::unmap` sends the whole mapped range of it to the GPU (`BufferMtl.mm`
  178 and 205, `mtl_resources.mm` 927): bytes that only the GPU had written, and the
  client did not write, are lost. With a client that makes such maps TLC finds
  `ReadsAreCurrent` violated. GL leaves it to the client to wait, but not to write every byte;
- in the Vulkan back end `CommandGraph::onResourceUse` asserts that the graph is not empty
  (`CommandGraph.h` 720), and `FramebufferVk::invalidate` calls it in any case
  (`FramebufferVk.cpp` 199): a draw, `glFlush` and `glInvalidateFramebuffer` fail the assertion.
  Nothing else depends on it; `AssertionsHold` in `ContextVk` names this call as its exception
  and shows that no other call finds the graph empty;
- a clear that resumes a query when all 8191 slots are taken ends the pass, and
  `startOcclusionQueryInRenderPass` asserts one: `QueryStartsInPass` in
  `OcclusionQuery` fails with `FullPoolRestart` set to TRUE; it takes more than
  eight thousand clears in one pass;
- when Metal fails to allocate, the pool keeps the `Buffer` as its current one but
  `mBuffersAllocated` does not count it: it is one short until it is set anew;
- `reset()` keeps free buffers that are smaller than a new initial size or were
  made under another memory policy, and the pool waits for the front of the free
  list, which need not be the buffer the GPU finishes first;
- `State::detachBuffer` (`src/libANGLE/State.cpp` 1696) compares names, so deleting
  a new buffer also unbinds an object that had its name before;
- `EGL_FOREVER` and `GL_TIMEOUT_IGNORED` reach `Sync::clientWait` as -1 nanoseconds,
  a time-out that expires at once;
- a pool made where `hardware_concurrency()` is 0 would never run a task;
- in the Vulkan back end, the second of two dispatches does not register its reads
  again when a barrier or a copy has given the dispatcher a new node, because
  `mComputeDirtyBits` are set only at a submission (`ContextVk.cpp` 1209); an image
  that one dispatch samples and stores to makes its node its own ancestor, against
  `CommandGraph.cpp` 472; a blit asks for the image to write before the node of
  its framebuffer exists (`FramebufferVk.cpp` 571 and 592), against
  `CommandGraph.cpp` 314; and pointers of a resource are cleared only when no graph
  at all uses it, so with two contexts they may outlive the graph they point into.
  These operations are not in the model.

## 6. Not modelled

- Abstracted in modelled parts: in `BufferPool`, `mLastFlushOffset` for managed
  storage and the width of offsets (32 bits; no caller that was read comes near);
  the branch of `reset` for an error that cannot occur there; in `BufferMtl`, index
  conversion, client arrays and inline constants; in `CommandEncoding`, state
  caching, load and store actions, debug groups and the discard simulation; in
  `OcclusionQuery`, result values beyond zero and non-zero (the code converts them
  to a boolean) and transform feedback queries, which count on the CPU.
- In share groups: separable programs and pipelines, binaries, reflection (a link
  has an outcome), objects that are not shared, the range allocator of paths, and a
  context that becomes shared while another thread is inside one of its entry
  points without the mutex (listed as a hazard).
- In the Vulkan back end: compute, blits, queries and transform feedback (barrier
  nodes and reads like those that are modelled), staged uploads, depth and stencil,
  scissors smaller than the framebuffer, several contexts, host-visible buffers that
  shaders write, the limit of batches in flight, lost devices.
- External: Metal, the Vulkan queue and the GPU, modelled from how the code relies
  on them.
- Left out: components whose behaviour is a pure function (translator, formats,
  validation), thin wrappers (surfaces, samplers, MGLKit), code inherited from
  upstream ANGLE without state of this kind (other back ends, most of the front
  end), generated code. The parts of these that hold state worth
  checking are in the plan.

## 7. Plan

Done: 1. `CommandQueue` with proofs, 2. `BufferPool`, 3. `BufferMtl`,
4. `CommandEncoding` and `OcclusionQuery`, 5. `ShareGroup` with names, programs,
workers and fences, 6. `CommandGraph` and `ContextVk`.

Next, in order of importance:

7. Theorems (below).
8. `IndexCache`: the cached triangle fan and line loop indices
   (`ContextMtl.mm` 264-400) over `BufferPoolOps`, with draws that refer to them.
   Property: a draw finds its indices although the pool recycles.
9. Compute dispatches and blits in `ContextVk`, and a second context.
10. `Texture`: uploads and reads (`mtl_resources.mm` 450-520) with the flushes they
   cause, and load and store actions of passes: what a pass discards is not read.
11. Observers and dirty bits of the front end, image siblings.

The modules have no RECURSIVE operator, parameters with assumptions, and invariants
as conjunctions of named parts, so that they can be proved about. Still to do:

- for `OcclusionQuery`: what the slots of a pass hold, hence `CountedResults`;
- for `CommandGraph`: dependencies never point to a later node of the same chain,
  so that the graph has no cycle.
