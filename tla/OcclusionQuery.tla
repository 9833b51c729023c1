--------------------------- MODULE OcclusionQuery ---------------------------
(***************************************************************************)
(* What a context encodes: draws, clears, fences and occlusion queries     *)
(* (ContextMtl.mm, QueryMtl.mm, mtl_occlusion_query_pool.mm).              *)
(*                                                                         *)
(* A query counts in slots of a buffer that Metal writes while a render    *)
(* pass runs.  Passes end for many reasons; at each end the slots of the   *)
(* pass are combined into the result buffers of their queries, and a query *)
(* that is still active goes on in the next pass.  gl.expected is what GL  *)
(* says a query must return: some sample passed since glBeginQuery.        *)
(*                                                                         *)
(* The GPU executes commands in the order of encoding, so their effect is  *)
(* computed when they are encoded (query[q].encoded); the client finds it  *)
(* in memory (query[q].memory) when the GPU is that far.                   *)
(***************************************************************************)
EXTENDS CommandEncoding

CONSTANTS
    Queries,         \* occlusion queries
    NoQuery,         \* nullptr
    Devices,         \* [managed, readWrite]: result buffers in managed memory,
                     \* the feature allowBufferReadWrite
    UniformOffsets,  \* how draws use the uniform buffer: subset of {"unused", "aligned", "unaligned"}
    FullPoolRestart, \* BOOLEAN: may a clear pause a query when all slots are taken
    MaxSerial,       \* bound: command buffers
    MaxFences,       \* bound: glFenceSync calls
    MaxWaits,        \* bound: glWaitSync calls
    MaxWork          \* bound: these calls and the queries in use together

ASSUME QueryAssumption ==
    /\ NoQuery \notin Queries
    /\ Devices \subseteq [managed : BOOLEAN, readWrite : BOOLEAN]
    /\ UniformOffsets \subseteq {"unused", "aligned", "unaligned"}
    /\ FullPoolRestart \in BOOLEAN
    /\ MaxSerial \in Nat /\ MaxFences \in Nat /\ MaxWaits \in Nat
    /\ MaxWork \in Nat

VARIABLES
    ctx,  \* the context: encoding state, query pool, query objects
    gl    \* what the client did: expected results, calls of glWaitSync

vars == <<ctx, gl>>

\* A query without result buffer; a new buffer is cleared.
NewQuery ==
    [first |-> 0, count |-> 0, usage |-> 0, lastWrite |-> 0, encoded |-> FALSE, memory |-> FALSE]

NewContext(device) ==
    [cb |-> NewCommandBuffer, enc |-> NewEncoders,
     slots |-> [s \in Slots |-> TRUE], written |-> {}, events |-> <<>>, failed |-> {},
     device |-> device,
     made |-> FALSE, allocated |-> <<>>, resetFirst |-> FALSE,   \* OcclusionQueryPool
     query |-> [q \in Queries |-> NewQuery],
     active |-> NoQuery, drawn |-> FALSE,   \* mOcclusionQuery, draws since it was started
     uniforms |-> [usage |-> 0, dirty |-> TRUE],   \* a static buffer, its unaligned conversion
     done |-> 0]                            \* command buffers the GPU has executed

-----------------------------------------------------------------------------
(* Result buffers. *)

\* The GPU has executed the command buffers up to serial.
AdvanceTo(w, serial) ==
    IF serial <= w.done THEN w
    ELSE [w EXCEPT !.done = serial,
                   !.query = [q \in Queries |->
                                IF w.query[q].lastWrite <= serial
                                THEN [w.query[q] EXCEPT !.memory = w.query[q].encoded]
                                ELSE w.query[q]]]

\* A command writes the result of q.
WriteResult(w, q, value) ==
    [w EXCEPT !.query[q].encoded = value, !.query[q].lastWrite = w.cb.serial,
              !.query[q].usage = w.cb.serial]

\* resetVisibilityResult.  A fill does not mark its buffer as used; for managed
\* memory the synchronization that follows does.
ResetVisibilityResult(w, q) ==
    [w EXCEPT !.query[q].encoded = FALSE, !.query[q].lastWrite = w.cb.serial,
              !.query[q].usage = IF w.device.managed THEN w.cb.serial ELSE @]

Committed(w) == IF w.cb.open THEN w.cb.serial - 1 ELSE w.cb.serial

HasPendingWorks(w, q) == w.query[q].usage > Committed(w)
IsBeingUsed(w, q) == w.query[q].usage > w.done

-----------------------------------------------------------------------------
(* Encoders of the context.  Outside a pass, ending the encoders is ending  *)
(* the blit and the compute encoder; resolving the queries of a pass uses   *)
(* these when the render encoder has been ended.                            *)

EndOutsidePass(w) == EndCompute(EndBlit(w))

BlitAfterPass(w) ==
    IF w.enc.blit THEN w ELSE RestartBlit(EnsureCommandBufferValid(EndOutsidePass(w)))

ComputeAfterPass(w) ==
    IF w.enc.compute THEN w ELSE RestartCompute(EnsureCommandBufferValid(EndOutsidePass(w)))

-----------------------------------------------------------------------------
(* OcclusionQueryPool *)

CanAllocateQueryOffset(w) == w.made /\ Len(w.allocated) < MaxSlots

OffsetBack(query) == query.first + query.count - 1
Offsets(query) == query.first..OffsetBack(query)

DeallocateQueryOffset(w, q) ==
    IF w.query[q].count = 0 THEN w
    ELSE [w EXCEPT !.allocated[w.query[q].first] = NoQuery,
                   !.query[q].first = 0, !.query[q].count = 0]

\* The next slot goes to q.
PushOffset(w, q) ==
    IF w.query[q].count = 0
    THEN [w EXCEPT !.allocated = Append(@, q),
                   !.query[q].first = Len(w.allocated) + 1, !.query[q].count = 1]
    ELSE [Check(w, Len(w.allocated) = OffsetBack(w.query[q]), "contiguous offsets")
            EXCEPT !.allocated = Append(@, NoQuery), !.query[q].count = @ + 1]

CheckAllocation(w, q, clear) ==
    Check(Check(w, clear \/ w.allocated = <<>> \/ w.query[q].count > 0, "old value kept"),
          CanAllocateQueryOffset(w), "can allocate")

\* The first slot of the pass keeps the old value of the query in a slot of
\* its own where a shader cannot read and write one buffer.
AfterFirstOffset(w, q, clear) ==
    IF Len(w.allocated) > 1 THEN w
    ELSE IF clear \/ w.device.readWrite THEN [w EXCEPT !.resetFirst = clear]
    ELSE PushOffset(CheckAllocation([w EXCEPT !.resetFirst = FALSE], q, FALSE), q)

\* allocateQueryOffset
AllocateQueryOffset(w, q, clear) ==
    AfterFirstOffset(PushOffset(
        IF clear THEN DeallocateQueryOffset(CheckAllocation(w, q, clear), q)
        ELSE CheckAllocation(w, q, clear), q), q, clear)

\* combineVisibilityResult: a copy, or a compute shader for several values.
Combined(w, q, keepOldValue) ==
    (\E s \in Offsets(w.query[q]) : w.slots[s]) \/ (keepOldValue /\ w.query[q].encoded)

CombineVisibilityResult(w, q, keepOldValue) ==
    WriteResult(IF w.query[q].count = 1 /\ ~keepOldValue THEN BlitAfterPass(w)
                ELSE ComputeAfterPass(w),
                q, Combined(w, q, keepOldValue))

CopyOldValue(w, q) == [BlitAfterPass(w) EXCEPT !.slots[w.query[q].first] = w.query[q].encoded]

\* Mutant: the first query of a pass always starts from zero.
ForgetOldValue(w, q) == CombineVisibilityResult(w, q, FALSE)

\* The query of the first slot may go on from an earlier pass.
ResolveFirst(w, q) ==
    IF w.resetFirst THEN CombineVisibilityResult(w, q, FALSE)
    ELSE IF w.device.readWrite THEN CombineVisibilityResult(w, q, TRUE)
    ELSE CombineVisibilityResult(CopyOldValue(w, q), q, FALSE)

ResolveEntry(w, i) ==
    IF w.allocated[i] = NoQuery THEN w
    ELSE IF i = 1 THEN ResolveFirst(w, w.allocated[i])
    ELSE CombineVisibilityResult(w, w.allocated[i], FALSE)

\* The entries are cleared.  A later pass that reads a slot without writing it
\* finds what is there, and TRUE is what would be mistaken for a result.
ClearAllocated(w) ==
    [w EXCEPT !.allocated = <<>>, !.slots = [s \in Slots |-> TRUE],
              !.query = [q \in Queries |->
                           IF \E i \in DOMAIN w.allocated : w.allocated[i] = q
                           THEN [w.query[q] EXCEPT !.first = 0, !.count = 0]
                           ELSE w.query[q]]]

\* The slots of a pass are resolved in the order in which they were taken.
Resolved(w) ==
    LET resolved[i \in 0..Len(w.allocated)] ==
          IF i = 0 THEN w ELSE ResolveEntry(resolved[i - 1], i)
    IN  resolved[Len(w.allocated)]

\* resolveVisibilityResults
ResolveVisibilityResults(w) ==
    IF w.allocated = <<>> THEN w ELSE ClearAllocated(BlitAfterPass(Resolved(w)))

-----------------------------------------------------------------------------
(* ContextMtl: ending and starting passes, flushing, queries. *)

\* The active query counts in this pass.
Counting(w) == w.active # NoQuery /\ w.query[w.active].count > 0

\* Mutant: no draw to make Metal write the slot.
NoDummyDraw(w) == w

\* drawInvisibleFragments, if nothing was drawn since the query was started.
DummyDraw(w) == IF w.drawn THEN w ELSE EncodeDraw(w, FALSE)

\* disableActiveOcclusionQueryInRenderPass
DisableActiveOcclusionQuery(w) ==
    IF ~Counting(w) THEN w
    ELSE SetVisibilityResultMode(DummyDraw(Check(w, w.enc.recording, "render pass to stop query")), 0)

\* endEncoding(encoder)
EndRenderPass(w) ==
    IF ~w.enc.recording THEN w
    ELSE ResolveVisibilityResults(EndRender(DisableActiveOcclusionQuery(w)))

\* endEncoding(forceSaveRenderPassContent)
EndEncoding(w) == EndOutsidePass(EndRenderPass(w))

\* flushCommandBufer
FlushCommandBuffer(w) == IF w.cb.open THEN Commit(EndEncoding(w)) ELSE w

GetRenderCommandEncoder(w) ==
    IF w.enc.recording THEN w ELSE RestartRender(EnsureCommandBufferValid(EndEncoding(w)))

GetBlitCommandEncoder(w) ==
    IF w.enc.blit THEN w ELSE RestartBlit(EnsureCommandBufferValid(EndEncoding(w)))

\* Mutant: the other encoders stay open.
ComputeBesideOthers(w) ==
    IF w.enc.compute THEN w ELSE RestartCompute(EnsureCommandBufferValid(w))

GetComputeCommandEncoder(w) ==
    IF w.enc.compute THEN w ELSE RestartCompute(EnsureCommandBufferValid(EndEncoding(w)))

\* ensureOcclusionQueryPoolCapacity
EnsureOcclusionQueryPoolCapacity(w) ==
    IF CanAllocateQueryOffset(w) THEN w ELSE [EndEncoding(w) EXCEPT !.made = TRUE]

\* Mutant: the result buffer is marked only when the pass ends.
StartWithoutDependency(w, q, clear) ==
    [SetVisibilityResultMode(w, OffsetBack(w.query[q])) EXCEPT !.drawn = FALSE]

\* The slot is allocated: it is enabled, and the result buffer marked as
\* written by this command buffer.
StartInOffset(w, q, clear) ==
    [SetVisibilityResultMode(w, OffsetBack(w.query[q]))
       EXCEPT !.drawn = FALSE, !.query[q].usage = IF w.cb.open THEN w.cb.serial ELSE @]

\* startOcclusionQueryInRenderPass
StartOcclusionQuery(w, q, clear) ==
    StartInOffset(AllocateQueryOffset(Check(w, w.enc.recording, "render pass for query"), q, clear),
                  q, clear)

\* restartActiveOcclusionQueryInRenderPass
RestartActiveOcclusionQuery(w) ==
    IF ~Counting(w) THEN w
    ELSE StartOcclusionQuery(EnsureOcclusionQueryPoolCapacity(w), w.active, FALSE)

\* onOcclusionQueryBegan: in the pass, or the result is reset to zero.
BeginInPassOrReset(w, q) ==
    IF w.enc.recording THEN StartOcclusionQuery(w, q, TRUE)
    ELSE ResetVisibilityResult(GetBlitCommandEncoder(w), q)

OnOcclusionQueryBegan(w, q) ==
    BeginInPassOrReset(EnsureOcclusionQueryPoolCapacity(
                         [Check(w, w.active = NoQuery, "one active query") EXCEPT !.active = q]), q)

\* onOcclusionQueryEnded
OnOcclusionQueryEnded(w) ==
    [IF w.enc.recording THEN DisableActiveOcclusionQuery(w) ELSE w EXCEPT !.active = NoQuery]

\* An active query goes on in a pass that has no slot yet.
ContinueQuery(w) ==
    IF w.active # NoQuery /\ w.allocated = <<>> THEN StartOcclusionQuery(w, w.active, FALSE) ELSE w

\* Buffer::map of the uniform buffer: flush and wait if the GPU still uses it.
MapUniforms(w) ==
    AdvanceTo(IF w.uniforms.usage > w.done THEN FlushCommandBuffer(w) ELSE w, w.uniforms.usage)

\* legalizeUniformBufferOffsets and the binding: a range at an offset that
\* Metal does not take is drawn from a copy, which the CPU makes.
SetupUniformBuffers(w, offset) ==
    CASE offset = "unused" -> w
      [] offset = "aligned" -> [w EXCEPT !.uniforms.usage = IF w.cb.open THEN w.cb.serial ELSE @]
      [] offset = "unaligned" ->
           IF w.uniforms.dirty THEN [MapUniforms(w) EXCEPT !.uniforms.dirty = FALSE] ELSE w

\* setupDraw
SetupDraw(w, offset) ==
    [SetupUniformBuffers(ContinueQuery(GetRenderCommandEncoder(w)), offset) EXCEPT !.drawn = TRUE]

\* clearWithDraw: the query is paused (ScopedDisableOcclusionQuery).
ClearWithDraw(w) ==
    RestartActiveOcclusionQuery(
        EncodeDraw(DisableActiveOcclusionQuery(GetRenderCommandEncoder(w)), TRUE))

\* ensureResourceReadyForCPU of the result buffer, after Buffer::map's flush.
MapResult(w, q) ==
    AdvanceTo(IF IsBeingUsed(w, q) THEN FlushCommandBuffer(w) ELSE w, w.query[q].usage)

\* waitAndGetResult
WaitAndGetResult(w, q) ==
    MapResult(IF HasPendingWorks(w, q) THEN FlushCommandBuffer(w) ELSE w, q)

-----------------------------------------------------------------------------
(* The GL calls. *)

Init ==
    /\ \E device \in Devices : ctx = NewContext(device)
    /\ gl = [expected |-> [q \in Queries |-> "never begun"], fences |-> 0, waits |-> 0]

Become(w) == w.cb.serial <= MaxSerial /\ ctx' = w

\* What GL expects of a query: "reset" if nothing was counted yet.
Expected == {"never begun", "reset", "none", "samples"}

Seen(expected, visible) ==
    IF visible THEN "samples" ELSE IF expected = "reset" THEN "none" ELSE expected

\* Bound.
Begun(q) == gl.expected[q] # "never begun"
RoomForWork == Cardinality({q \in Queries : Begun(q)}) + gl.fences + gl.waits < MaxWork

\* glBeginQuery.  The front end allows one active occlusion query.
BeginQuery(q) ==
    /\ ctx.active = NoQuery /\ (Begun(q) \/ RoomForWork)
    /\ Become(OnOcclusionQueryBegan(ctx, q))
    /\ gl' = [gl EXCEPT !.expected[q] = IF ctx'.query[q].count > 0 THEN "none" ELSE "reset"]

\* glEndQuery
EndQuery ==
    /\ ctx.active # NoQuery
    /\ Become(OnOcclusionQueryEnded(ctx))
    /\ UNCHANGED gl

\* glDeleteQueries: QueryMtl::onDestroy.  The front end keeps an active query.
DeleteQuery(q) ==
    /\ q # ctx.active
    /\ Become([DeallocateQueryOffset(ctx, q) EXCEPT !.query[q] = NewQuery])
    /\ gl' = [gl EXCEPT !.expected[q] = "never begun"]

\* glGetQueryObject: QueryMtl::getResult.
Readable(q) == q # ctx.active /\ Begun(q)

GetQueryResult(q) ==
    /\ Readable(q)
    /\ Become(WaitAndGetResult(ctx, q))
    /\ UNCHANGED gl

\* QueryMtl::isResultAvailable
IsResultAvailable(q) ==
    /\ Readable(q) /\ HasPendingWorks(ctx, q)
    /\ Become(FlushCommandBuffer(ctx))
    /\ UNCHANGED gl

\* A draw call some of whose samples are visible, or none.
Draw(visible, offset) ==
    /\ Become(EncodeDraw(SetupDraw(ctx, offset), visible))
    /\ gl' = IF ctx.active = NoQuery THEN gl
             ELSE [gl EXCEPT !.expected[ctx.active] = Seen(@, visible)]

\* glClear of part of the framebuffer.
Clear ==
    /\ FullPoolRestart \/ ~Counting(ctx) \/ CanAllocateQueryOffset(ctx)
    /\ Become(ClearWithDraw(ctx))
    /\ UNCHANGED gl

\* Calls that end or start an encoder and do nothing else here: a change of
\* framebuffer, a clear by load action, an upload, a dispatch.
EndPass == Become(EndEncoding(ctx)) /\ UNCHANGED gl
StartPass == Become(GetRenderCommandEncoder(ctx)) /\ UNCHANGED gl
Upload == Become(GetBlitCommandEncoder(ctx)) /\ UNCHANGED gl
Dispatch == Become(GetComputeCommandEncoder(ctx)) /\ UNCHANGED gl

\* glFlush
GlFlush == Become(FlushCommandBuffer(ctx)) /\ UNCHANGED gl

\* ContextMtl::present
Present == Become(Commit(EndEncoding(EnsureCommandBufferValid(ctx)))) /\ UNCHANGED gl

\* glFenceSync: the fences of the context have the values 1, 2, ...
FenceSync ==
    /\ gl.fences < MaxFences /\ RoomForWork
    /\ Become(QueueEventSignal(EnsureCommandBufferValid(ctx), gl.fences + 1))
    /\ gl' = [gl EXCEPT !.fences = @ + 1]

\* glWaitSync on a fence of this context.
WaitSync(fence) ==
    /\ gl.waits < MaxWaits /\ RoomForWork /\ fence <= gl.fences
    /\ Become(ServerWaitEvent(EndEncoding(EnsureCommandBufferValid(ctx)), fence))
    /\ gl' = [gl EXCEPT !.waits = @ + 1]

\* The GPU finishes a command buffer.
Complete ==
    /\ ctx.done < Committed(ctx)
    /\ Become(AdvanceTo(ctx, ctx.done + 1))
    /\ UNCHANGED gl

Next ==
    \/ \E q \in Queries : BeginQuery(q) \/ DeleteQuery(q) \/ GetQueryResult(q) \/ IsResultAvailable(q)
    \/ EndQuery
    \/ \E visible \in BOOLEAN, offset \in UniformOffsets : Draw(visible, offset)
    \/ Clear \/ EndPass \/ StartPass \/ Upload \/ Dispatch \/ GlFlush \/ Present
    \/ FenceSync \/ \E fence \in 1..MaxFences : WaitSync(fence)
    \/ Complete

Spec == Init /\ [][Next]_vars

-----------------------------------------------------------------------------
(* Properties. *)

\* Type invariant, with what ties the flags of the encoders together: the
\* encoder that commands go to is the one the command buffer has to end.
TypeOK ==
    /\ ctx.cb.serial \in Nat /\ ctx.done \in 0..ctx.cb.serial
    /\ ctx.enc.mode \in 0..MaxSlots /\ Len(ctx.allocated) <= MaxSlots
    /\ ctx.active \in Queries \cup {NoQuery} /\ gl.expected \in [Queries -> Expected]
    /\ ctx.enc.recording = (ctx.cb.active = "render")
    /\ ctx.enc.blit = (ctx.cb.active = "blit") /\ ctx.enc.compute = (ctx.cb.active = "compute")
    /\ ctx.enc.native => ctx.enc.recording

\* What glGetQueryObject would return for q.
Right(q) == WaitAndGetResult(ctx, q).query[q].memory = (gl.expected[q] = "samples")

\* A query that has ended returns whether a sample passed while it was active,
\* in how many passes and slots it counted and whatever else was encoded or
\* flushed since.  In memory that is not managed this is claimed of queries
\* during which something was drawn, or that were begun in a render pass.
CountedResults ==
    \A q \in Queries :
        Readable(q) /\ (ctx.device.managed \/ gl.expected[q] # "reset") => Right(q)

\* "map() will wait for the pending GPU works to finish" (QueryMtl.mm:103): a
\* result is read after every command that writes it, the reset of glBeginQuery
\* included.
QueryResults == \A q \in Queries : Readable(q) => Right(q)

\* The assertions of the code about encoders and slots hold, and so do Metal's
\* rules: one open encoder, events between encoders, a slot used once a pass.
EncodingRules == ctx.failed = {}

\* "Verify that it was created successfully" (mtl_command_buffer.mm:835): the
\* Metal encoder of a render pass is created while the command buffer is open.
EncoderCreated == "encoder created" \notin ctx.failed

\* ASSERT(mRenderEncoder.valid()) in startOcclusionQueryInRenderPass: a query
\* is started in a render pass.
QueryStartsInPass == "render pass for query" \notin ctx.failed

\* Every fence is signalled once, in the order of the calls: the events hold the
\* signals of the first fences, and the others wait for the end of a pass, in an
\* open command buffer whose pass is active, so that the flush of
\* glClientWaitSync makes the GPU signal them.
Signals(events) == {i \in DOMAIN events : events[i].kind = "signal"}

SignalledOnce(events, fences) ==
    /\ {events[i].value : i \in Signals(events)} = 1..fences
    /\ \A i, j \in Signals(events) : i < j => events[i].value < events[j].value

FencesAreSignalled ==
    LET signalled == gl.fences - Len(ctx.cb.pending) IN
    /\ SignalledOnce(ctx.events, signalled)
    /\ ctx.cb.pending = [i \in 1..Len(ctx.cb.pending) |-> signalled + i]
    /\ ctx.cb.pending # <<>> => ctx.cb.open /\ ctx.cb.active = "render"

\* The GPU never waits for a fence that is signalled behind the wait, which
\* would stop it for good.
WaitsFollowSignals ==
    \A i \in DOMAIN ctx.events :
        ctx.events[i].kind = "wait" =>
          \E j \in 1..(i - 1) : /\ ctx.events[j].kind = "signal"
                                /\ ctx.events[j].value = ctx.events[i].value
=============================================================================
