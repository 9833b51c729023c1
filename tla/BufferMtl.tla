----------------------------- MODULE BufferMtl -----------------------------
(***************************************************************************)
(* GL buffers on Metal: BufferMtl.mm with the vertex array that draws them *)
(* (VertexArrayMtl.mm) and the GPU that reads and writes them later.       *)
(*                                                                         *)
(* The contents of a GL buffer live in several places: the current Metal   *)
(* buffer of its pool, the shadow copy of a dynamic buffer, the converted  *)
(* copy for vertex formats Metal lacks, and, for managed memory, one copy  *)
(* on each side of the bus.  Commands read them when the GPU gets to them. *)
(* The clauses about what a draw must see compare them with gl[b].data,    *)
(* the contents the GL calls define.                                       *)
(*                                                                         *)
(* One context; the loop of CommandQueue that waits for a resource is one  *)
(* step here.  Contents are one value per cell, a cell being a range of    *)
(* bytes that calls write as a whole.                                      *)
(***************************************************************************)
EXTENDS BufferPoolOps, SequencesExt

CONSTANTS
    Buffers,     \* GL buffers
    Cells,       \* 1..n
    NumValues,   \* a cell holds 1..NumValues, or is undefined
    Sizes,       \* sizes given to glBufferData, in cells
    Clients,     \* the repertoires a client may have, see ClientType
    PoolLimit,   \* buffers in the pool of a dynamic buffer (10 in the code)
    MaxSerial,   \* bound: number of command buffers
    MaxQueue     \* bound: commands the GPU has not executed

ClientType ==
    [buffers : SUBSET Buffers,
     calls : SUBSET STRING,      \* the GL calls it makes
     usages : SUBSET {"static", "dynamic"},
     ranges : SUBSET ((SUBSET Cells) \ {{}}), \* sets of cells that its calls address;
                                             \* the front end drops calls that address none
     accesses : SUBSET {"read", "write", "invalidate", "unsync"}]

Undef == 0   \* contents GL leaves undefined

ASSUME BufferAssumption ==
    /\ Cells \subseteq Nat \ {0} /\ \A n \in Cells : 1..n \subseteq Cells
    /\ NumValues \in Nat \ {0, 1}
    /\ Sizes \subseteq Cells \cup {0}
    /\ \A c \in Clients : c \in ClientType
    /\ PoolLimit \in Nat \ {0, 1} /\ MaxSerial \in Nat /\ MaxQueue \in Nat

Bytes  == [Cells -> 0..NumValues]
Null   == <<>>   \* glBufferData without data
Blank  == [c \in Cells |-> Undef]
Kinds  == {"direct", "converted"}

VARIABLES
    client, \* what the client does; never changes
    world,  \* memory, command buffers and the GPU
    impl,   \* BufferMtl objects
    gl,     \* gl::Buffer objects and the contents the calls define
    vao     \* a vertex array per buffer and kind of attribute

vars == <<client, world, impl, gl, vao>>

Merge(old, cells, new) == [c \in Cells |-> IF c \in cells THEN new[c] ELSE old[c]]

\* What the vertex conversion makes of a value.
Converted(bytes) == [c \in Cells |-> bytes[c] + NumValues + 1]

-----------------------------------------------------------------------------
(* Memory and the GPU.  A command has the serial of its command buffer.     *)

NewWorld ==
    [mem |-> NewMemory, now |-> 1, done |-> 0, queue |-> <<>>,
     cpu |-> [s \in Storages |-> Blank], gpu |-> [s \in Storages |-> Blank],
     dirty |-> [s \in Storages |-> FALSE]]   \* cpuReadMemDirty

Managed(w, s) == ~w.mem.shared[s]

\* The GPU writes bytes to the storage s.
GpuWrite(w, s, bytes) ==
    [w EXCEPT !.gpu[s] = bytes, !.cpu[s] = IF Managed(w, s) THEN @ ELSE bytes]

\* The CPU writes cells of s; [didModifyRange:] sends managed memory to the GPU.
CpuWrite(w, s, cells, bytes) ==
    LET new == Merge(w.cpu[s], cells, bytes) IN
      [w EXCEPT !.cpu[s] = new, !.gpu[s] = IF Managed(w, s) THEN @ ELSE new]

DidModifyRange(w, s, cells) == [w EXCEPT !.gpu[s] = Merge(@, cells, w.cpu[s])]

Command(kind, src, dst, cells, bytes) ==
    [kind |-> kind, src |-> src, dst |-> dst, cells |-> cells, bytes |-> bytes,
     serial |-> 0]

\* The effect of a command.  A draw must see the defined ones of its bytes.
Execute(w, cmd) ==
    CASE cmd.kind = "draw" -> w
      [] cmd.kind = "copy" ->
           GpuWrite(w, cmd.dst, Merge(w.gpu[cmd.dst], cmd.cells, w.gpu[cmd.src]))
      [] cmd.kind = "fill" ->
           GpuWrite(w, cmd.dst, Merge(w.gpu[cmd.dst], cmd.cells, cmd.bytes))
      [] cmd.kind = "convert" -> GpuWrite(w, cmd.dst, Converted(w.gpu[cmd.src]))
      [] cmd.kind = "synchronize" -> [w EXCEPT !.cpu[cmd.src] = w.gpu[cmd.src]]

\* The first n commands have been executed.
ExecuteFirst(w, n) ==
    [FoldLeft(Execute, w, SubSeq(w.queue, 1, n)) EXCEPT !.queue = SubSeq(@, n + 1, Len(@))]

\* The commands up to a serial have been executed and are known to be.
AdvanceTo(w, serial) ==
    [ExecuteFirst(w, Cardinality({i \in DOMAIN w.queue : w.queue[i].serial <= serial}))
       EXCEPT !.done = IF serial > @ THEN serial ELSE @]

\* Mutant: the command buffer is waited for before it is committed.
FlushNothing(w) == w

\* ContextMtl::flushCommandBufer: nothing happens without a command buffer.
Flush(w) ==
    IF \E i \in DOMAIN w.queue : w.queue[i].serial = w.now
    THEN [w EXCEPT !.now = @ + 1] ELSE w

\* Mutant: the CPU is not told that the GPU writes.
RecordReadsOnly(w, cmd) ==
    [w EXCEPT
       !.queue = Append(@, [cmd EXCEPT !.serial = w.now]),
       !.mem.usage = [s \in Storages |-> IF s \in {cmd.src, cmd.dst} THEN w.now ELSE @[s]]]

\* A command is encoded: setReadDependency, setWriteDependency.
Record(w, cmd) ==
    [w EXCEPT
       !.queue = Append(@, [cmd EXCEPT !.serial = w.now]),
       !.mem.usage = [s \in Storages |-> IF s \in {cmd.src, cmd.dst} THEN w.now ELSE @[s]],
       !.mem.needSync = [s \in Storages |-> s = cmd.dst \/ @[s]],
       !.dirty = [s \in Storages |-> s = cmd.dst \/ @[s]]]

\* EnsureContentSynced
EnsureContentSynced(w, s) ==
    IF Managed(w, s) /\ w.mem.needSync[s]
    THEN [Record(w, Command("synchronize", s, NoBuffer, {}, Blank))
            EXCEPT !.mem.needSync[s] = FALSE]
    ELSE w

\* Mutant: no waiting.
MapWithoutWait(w, s, noSync) == EnsureContentSynced(w, s)

FlushIfUsed(w, s) == IF InUse(w.mem, s, w.done) THEN Flush(w) ELSE w

\* CommandQueue::ensureResourceReadyForCPU
EnsureResourceReadyForCPU(w, s) == AdvanceTo(w, w.mem.usage[s])

\* Buffer::map: flush and wait for the GPU, unless noSync.
Map(w, s, noSync) ==
    IF noSync THEN w
    ELSE EnsureResourceReadyForCPU(FlushIfUsed(EnsureContentSynced(w, s), s), s)

-----------------------------------------------------------------------------
(* BufferMtl.  An operation on a buffer i (its implementation) and g (its   *)
(* GL state) results in [w, i].                                             *)

NewConversion == [exists |-> FALSE, dirty |-> TRUE, buf |-> NoBuffer, pool |-> NewPool(FALSE, "auto")]

NewImpl ==
    [buf |-> NoBuffer, shadow |-> Blank, shadowSize |-> 0,
     pool |-> NewPool(TRUE, "auto"), conv |-> NewConversion]

NewGL == [size |-> 0, usage |-> "static", data |-> Blank, access |-> "none", range |-> {}]

Single(i) == i.pool.max = 1
Extent(n) == 1..n
\* std::max<size_t>(1, intendedSize)
AdjustedSize(n) == IF n = 0 THEN 1 ELSE n

\* The world after allocate(), with the result r.
AfterAllocate(w, r) ==
    [pool |-> r.p,
     w |-> [IF r.flush THEN AdvanceTo(Flush(w), r.done) ELSE w EXCEPT !.mem = r.m]]

\* allocate() on a pool of the world.
PoolAllocate(w, pool, n) == AfterAllocate(w, Allocate(pool, w.mem, w.done, n, TRUE))

\* BufferMtl allocates its current buffer.
AllocateCurrent(i, r) == [w |-> r.w, i |-> [i EXCEPT !.pool = r.pool, !.buf = r.pool.cur]]

MarkConversionBuffersDirty(i) ==
    [i EXCEPT !.conv.dirty = TRUE, !.conv.buf = NoBuffer]

ClearConversionBuffers(i) == [i EXCEPT !.conv = NewConversion]

ReadBack(w, i, g) ==
    [w |-> [w EXCEPT !.dirty[i.buf] = FALSE],
     i |-> [i EXCEPT !.shadow = Merge(@, Extent(g.size), w.cpu[i.buf])]]

\* ensureShadowCopySyncedFromGPU
EnsureShadowCopySynced(w, i, g) ==
    IF w.dirty[i.buf] THEN ReadBack(Map(w, i.buf, FALSE), i, g) ELSE [w |-> w, i |-> i]

\* The CPU writes the current storage and unmaps it.
WriteCurrent(x, cells, bytes) ==
    [x EXCEPT !.w = DidModifyRange(CpuWrite(@, x.i.buf, cells, bytes), x.i.buf, cells)]

\* commitShadowCopy(context, n)
CommitShadowCopy(w, i, n) ==
    IF n = 0
    THEN AllocateCurrent(i, PoolAllocate(w, i.pool, i.shadowSize))
    ELSE WriteCurrent(AllocateCurrent(i, PoolAllocate(w, ReleaseInFlightBuffers(i.pool, w.mem),
                                                      i.shadowSize)),
                      Extent(n), i.shadow)

UpdateShadow(x, g, cells, bytes) ==
    CommitShadowCopy(x.w, [x.i EXCEPT !.shadow = Merge(@, cells, bytes)], g.size)

\* setSubDataImpl, the conversions being marked.
WriteData(w, i, g, cells, bytes) ==
    IF Single(i)
    THEN WriteCurrent([w |-> Map(w, i.buf, FALSE), i |-> i], cells, bytes)
    ELSE UpdateShadow(EnsureShadowCopySynced(w, i, g), g, cells, bytes)

SetSubDataImpl(w, i, g, cells, bytes) ==
    WriteData(w, MarkConversionBuffersDirty(i), g, cells, bytes)

\* The pool is reset for n cells and a usage.
ResetPool(w, pool, n, usage) ==
    IF usage = "dynamic"
    THEN Reset([pool EXCEPT !.policy = "shared"], w.mem, w.done, TRUE, n, 1, PoolLimit)
    ELSE Reset([pool EXCEPT !.policy = "gpu"], w.mem, w.done, TRUE, n, 1, 1)

AfterReset(w, i, r) == [w |-> [w EXCEPT !.mem = r.m], i |-> [i EXCEPT !.pool = r.p]]

\* The shadow copy of n cells keeps what it held, where no data is given.
ResizeShadow(i, n, data) ==
    [i EXCEPT !.shadowSize = AdjustedSize(n),
              !.shadow = Merge(Merge(Blank, Extent(i.shadowSize), @), Extent(n),
                               IF data = Null THEN @ ELSE data)]

DropShadow(i) == [i EXCEPT !.shadowSize = 0, !.shadow = Blank]

FillSingle(x, g, n, data) ==
    IF data = Null THEN x ELSE SetSubDataImpl(x.w, x.i, g, Extent(n), data)

\* The new storage is allocated and filled.
Fill(x, g, n, usage, data) ==
    IF usage = "dynamic"
    THEN CommitShadowCopy(x.w, ResizeShadow(x.i, n, data),
                          IF data = Null THEN 0 ELSE AdjustedSize(n))
    ELSE FillSingle(AllocateCurrent(DropShadow(x.i), PoolAllocate(x.w, x.i.pool, AdjustedSize(n))),
                    g, n, data)

\* setDataImpl; data is Null or the bytes.
SetDataImpl(w, i, g, n, usage, data) ==
    Fill(AfterReset(w, IF g.size = n THEN MarkConversionBuffersDirty(i)
                       ELSE ClearConversionBuffers(i),
                    ResetPool(w, i.pool, AdjustedSize(n), usage)),
         g, n, usage, data)

Reading(x, bytes) == [w |-> x.w, i |-> x.i, bytes |-> bytes]
ReadingStorage(x) == Reading(x, x.w.cpu[x.i.buf])
ReadingShadow(x) == Reading(x, x.i.shadow)

\* getClientShadowCopyData; the bytes are those the caller then reads.
GetClientShadowCopyData(w, i, g) ==
    IF Single(i) THEN ReadingStorage([w |-> Map(w, i.buf, FALSE), i |-> i])
    ELSE ReadingShadow(EnsureShadowCopySynced(w, i, g))

\* mapRange: the buffer is ready for what the client reads or writes.
MakeAccessible(x, g, access) ==
    IF Single(x.i) THEN [x EXCEPT !.w = Map(@, x.i.buf, access = "unsync")]
    ELSE EnsureShadowCopySynced(x.w, x.i, g)

MapRangeImpl(w, i, g, access) ==
    MakeAccessible(IF access = "invalidate" THEN SetDataImpl(w, i, g, g.size, g.usage, Null)
                   ELSE [w |-> w, i |-> i], g, access)

\* unmap
UnmapImpl(x, g) ==
    IF Single(x.i)
    THEN IF g.access = "read" THEN x
         ELSE [x EXCEPT !.w = DidModifyRange(@, x.i.buf, g.range)]
    ELSE IF g.access = "unsync"
    THEN WriteCurrent(x, g.range, x.i.shadow)
    ELSE CommitShadowCopy(x.w, x.i, g.size)

\* The conversion is in the region r of its pool, and valid.
SetConversion(i, r) ==
    [i EXCEPT !.conv = [exists |-> TRUE, dirty |-> FALSE, buf |-> r.pool.cur, pool |-> r.pool]]

\* convertVertexBufferGPU
ConvertByCompute(i, r) ==
    [w |-> Record(r.w, Command("convert", i.buf, r.pool.cur, Cells, Blank)),
     i |-> SetConversion(i, r)]

\* convertVertexBufferCPU
StreamVertexData(x, r) ==
    [w |-> DidModifyRange(CpuWrite(r.w, r.pool.cur, Cells, Converted(x.bytes)), r.pool.cur, Cells),
     i |-> SetConversion(x.i, r)]

ConvertOnCPU(x, g) ==
    StreamVertexData(x, PoolAllocate(x.w, ReleaseInFlightBuffers(x.i.conv.pool, x.w.mem), g.size))

\* convertVertexBuffer: on the GPU, or on the CPU in a render pass that is
\* expensive to break.
ConvertVertexBuffer(w, i, g, onGPU) ==
    IF i.conv.exists /\ ~i.conv.dirty THEN [w |-> w, i |-> i]
    ELSE IF onGPU
    THEN ConvertByCompute(i, PoolAllocate(w, ReleaseInFlightBuffers(i.conv.pool, w.mem), g.size))
    ELSE ConvertOnCPU(GetClientShadowCopyData(w, i, g), g)

-----------------------------------------------------------------------------
(* The GL calls (gl::Buffer, gl::VertexArray). *)

Init ==
    /\ client \in Clients
    /\ world = NewWorld
    /\ impl = [b \in Buffers |-> NewImpl]
    /\ gl = [b \in Buffers |-> NewGL]
    /\ vao = [b \in Buffers |-> [k \in Kinds |-> [dirty |-> TRUE, bound |-> NoBuffer]]]

\* Bounds: a call allocates at most one Metal buffer; reset() may also replace
\* each of the pool's.
Room == world.mem.made < MaxStorages
RoomToReset(b) ==
    world.mem.made + Len(impl[b].pool.free) + Len(impl[b].pool.inflight) + 1 < MaxStorages

Bounded(w) == w.now <= MaxSerial /\ Len(w.queue) <= MaxQueue

Enabled(call, b) == call \in client.calls /\ gl[b].access = "none"
Specified(b) == gl[b].size > 0

\* What the client writes next: in every cell something else than is there.
NewBytes(b) == [c \in Cells |-> (gl[b].data[c] % NumValues) + 1]

\* Mutant: attributes that are converted are forgotten.
NotifyDirectOnly(b) == vao' = [vao EXCEPT ![b]["direct"].dirty = TRUE]

\* The observers of the buffer: VertexArray::onSubjectStateChange.
NotifyVertexArrays(b) ==
    vao' = [vao EXCEPT ![b] = [k \in Kinds |-> [@[k] EXCEPT !.dirty = TRUE]]]

Become(b, r) ==
    /\ Bounded(r.w)
    /\ world' = r.w
    /\ impl' = [impl EXCEPT ![b] = r.i]

\* glBufferData
BufferData(b, n, usage, data) ==
    /\ Enabled("BufferData", b) /\ RoomToReset(b)
    /\ Become(b, SetDataImpl(world, impl[b], gl[b], n, usage, data))
    /\ gl' = [gl EXCEPT ![b].size = n, ![b].usage = usage,
                        ![b].data = IF data = Null THEN Blank ELSE Merge(Blank, Extent(n), data)]
    /\ NotifyVertexArrays(b)

\* glBufferSubData
BufferSubData(b, cells, bytes) ==
    /\ Enabled("BufferSubData", b) /\ Room /\ cells \subseteq Extent(gl[b].size)
    /\ Become(b, SetSubDataImpl(world, impl[b], gl[b], cells, bytes))
    /\ gl' = [gl EXCEPT ![b].data = Merge(@, cells, bytes)]
    /\ NotifyVertexArrays(b)

\* glCopyBufferSubData from a to b: BufferMtl::copySubData
CopyByBlit(a, b) == world.dirty[impl[a].buf] \/ InUse(world.mem, impl[b].buf, world.done)

CopyInto(a, b, read, written) ==
    /\ Bounded(written.w)
    /\ world' = written.w
    /\ impl' = [impl EXCEPT ![a] = read.i, ![b] = written.i]

CopyBufferSubData(a, b, cells) ==
    /\ a # b /\ Enabled("CopyBufferSubData", a) /\ gl[b].access = "none" /\ Room
    /\ cells \subseteq Extent(gl[a].size) \cap Extent(gl[b].size)
    /\ IF CopyByBlit(a, b)
       THEN Become(b, [w |-> Record(world, Command("copy", impl[a].buf, impl[b].buf, cells, Blank)),
                       i |-> impl[b]])
       ELSE \E read \in {GetClientShadowCopyData(world, impl[a], gl[a])} :
              CopyInto(a, b, read, SetSubDataImpl(read.w, impl[b], gl[b], cells, read.bytes))
    /\ gl' = [gl EXCEPT ![b].data = Merge(@, cells, gl[a].data)]
    /\ NotifyVertexArrays(b)

\* glReadPixels into a pixel pack buffer, then Buffer::onDataChanged.
ReadPixels(b, cells, bytes) ==
    /\ Enabled("ReadPixels", b) /\ cells \subseteq Extent(gl[b].size)
    /\ Become(b, [w |-> Record(world, Command("fill", NoBuffer, impl[b].buf, cells, bytes)),
                  i |-> MarkConversionBuffersDirty(impl[b])])
    /\ gl' = [gl EXCEPT ![b].data = Merge(@, cells, bytes)]
    /\ NotifyVertexArrays(b)

\* glMapBufferRange.  A client that maps without synchronization has waited
\* for the GPU itself.
MapBufferRange(b, access, cells) ==
    /\ Enabled("MapBufferRange", b) /\ Specified(b) /\ Room
    /\ access = "invalidate" => RoomToReset(b)
    /\ cells \subseteq Extent(gl[b].size)
    /\ access = "unsync" => world.queue = <<>>
    /\ Become(b, MapRangeImpl(world, impl[b], gl[b], access))
    /\ gl' = [gl EXCEPT ![b].access = access, ![b].range = cells,
                        ![b].data = IF access = "invalidate" THEN Blank ELSE @]
    /\ UNCHANGED vao

\* The client writes through the pointer.
WriteMapped(b, bytes) ==
    LET cells == gl[b].range IN
    /\ gl[b].access \in {"write", "invalidate", "unsync"}
    /\ Become(b, IF Single(impl[b])
                 THEN [w |-> CpuWrite(world, impl[b].buf, cells, bytes), i |-> impl[b]]
                 ELSE [w |-> world, i |-> [impl[b] EXCEPT !.shadow = Merge(@, cells, bytes)]])
    /\ gl' = [gl EXCEPT ![b].data = Merge(@, cells, bytes)]
    /\ UNCHANGED vao

\* glUnmapBuffer
UnmapBuffer(b) ==
    /\ gl[b].access # "none" /\ Room
    /\ Become(b, UnmapImpl([w |-> world, i |-> MarkConversionBuffersDirty(impl[b])], gl[b]))
    /\ gl' = [gl EXCEPT ![b].access = "none", ![b].range = {}]
    /\ NotifyVertexArrays(b)

\* The contents a draw must fetch, where they are defined.
Wanted(b, kind) ==
    [c \in Cells |-> IF gl[b].data[c] = Undef \/ kind = "direct"
                     THEN gl[b].data[c] ELSE Converted(gl[b].data)[c]]

DrawFrom(b, kind, x, storage) ==
    /\ Become(b, [x EXCEPT !.w = Record(@, Command("draw", storage, NoBuffer, Cells, Wanted(b, kind)))])
    /\ vao' = [vao EXCEPT ![b][kind] = [dirty |-> FALSE, bound |-> storage]]

\* A draw call that fetches from b: VertexArrayMtl::syncDirtyAttrib if the
\* attribute is dirty, then the draw reads the buffer bound to the encoder.
Draw(b, kind, onGPU) ==
    /\ Enabled(IF kind = "direct" THEN "Draw" ELSE "DrawConverted", b)
    /\ Specified(b) /\ Room
    /\ IF ~vao[b][kind].dirty
       THEN DrawFrom(b, kind, [w |-> world, i |-> impl[b]], vao[b][kind].bound)
       ELSE IF kind = "direct"
       THEN DrawFrom(b, kind, [w |-> world, i |-> impl[b]], impl[b].buf)
       ELSE \E x \in {ConvertVertexBuffer(world, impl[b], gl[b], onGPU)} :
              DrawFrom(b, kind, x, x.i.conv.buf)
    /\ UNCHANGED gl

\* glDeleteBuffers: BufferMtl::destroy
DeleteBuffer(b) ==
    /\ "DeleteBuffer" \in client.calls
    /\ impl' = [impl EXCEPT ![b] = NewImpl]
    /\ gl' = [gl EXCEPT ![b] = NewGL]
    /\ NotifyVertexArrays(b)
    /\ UNCHANGED world

GlFlush ==
    /\ Bounded(Flush(world)) /\ Flush(world) # world
    /\ world' = Flush(world)
    /\ UNCHANGED <<impl, gl, vao>>

\* The GPU executes the next command of a committed command buffer.
GpuStep ==
    /\ world.queue # <<>> /\ Head(world.queue).serial < world.now
    /\ world' = [Execute(world, Head(world.queue)) EXCEPT !.queue = Tail(@)]
    /\ UNCHANGED <<impl, gl, vao>>

\* The completed handler of the last command buffer that was executed.
Complete(s) ==
    /\ s > world.done /\ s < world.now
    /\ \A i \in DOMAIN world.queue : world.queue[i].serial > s
    /\ world' = [world EXCEPT !.done = s]
    /\ UNCHANGED <<impl, gl, vao>>

Next ==
    /\ \/ \E b \in client.buffers :
            \/ \E n \in Sizes, usage \in client.usages :
                 BufferData(b, n, usage, NewBytes(b)) \/ BufferData(b, n, usage, Null)
            \/ \E cells \in client.ranges :
                 BufferSubData(b, cells, NewBytes(b)) \/ ReadPixels(b, cells, NewBytes(b))
            \/ WriteMapped(b, NewBytes(b))
       \/ \E a, b \in client.buffers, cells \in client.ranges : CopyBufferSubData(a, b, cells)
       \/ \E b \in client.buffers :
            \/ \E access \in client.accesses, cells \in client.ranges :
                 MapBufferRange(b, access, cells)
            \/ \E kind \in Kinds, onGPU \in BOOLEAN : Draw(b, kind, onGPU)
            \/ UnmapBuffer(b)
            \/ DeleteBuffer(b)
       \/ GlFlush \/ GpuStep
       \/ \E s \in 1..MaxSerial : Complete(s)
    /\ UNCHANGED client

Spec == Init /\ [][Next]_vars

-----------------------------------------------------------------------------
(* Properties. *)

\* The defined ones among the bytes of want.
Agrees(bytes, want) == \A c \in Cells : want[c] = Undef \/ bytes[c] = want[c]

\* The memory a command finds when the GPU gets to it, if the CPU writes
\* nothing more.
View(i) == FoldLeft(Execute, world, SubSeq(world.queue, 1, i - 1))

\* Type invariant.
TypeOK ==
    /\ client \in Clients
    /\ world.now \in Nat /\ world.done \in Nat /\ world.done < world.now
    /\ world.mem.made \in 0..MaxStorages
    /\ \A b \in Buffers :
         /\ impl[b].buf \in Storages \cup {NoBuffer}
         /\ impl[b].shadowSize \in Nat
         /\ impl[b].conv.buf \in Storages \cup {NoBuffer}
         /\ gl[b].data \in Bytes
         /\ gl[b].access \in {"none", "read", "write", "invalidate", "unsync"}

\* Every draw call sees the contents its buffer had when the call was made,
\* however late the GPU executes it and whatever the client does to the buffer
\* meanwhile: "in order to let GPU use the most recent modified content"
\* (BufferMtl.h 76).
DrawsSeeTheirData ==
    \A i \in DOMAIN world.queue :
        world.queue[i].kind = "draw" =>
          Agrees(View(i).gpu[world.queue[i].src], world.queue[i].bytes)

\* What the client reads from a buffer is what it or the GPU last wrote.
ReadsAreCurrent ==
    \A b \in Buffers :
        Specified(b) /\ gl[b].access = "none" =>
          Agrees(GetClientShadowCopyData(world, impl[b], gl[b]).bytes, gl[b].data)

\* A vertex array that is not marked dirty draws the buffer's current storage,
\* so the notifications of gl::Buffer miss no replacement of the storage.
BoundIsCurrent ==
    \A b \in Buffers :
        gl[b].access = "none" /\ Specified(b) =>
          /\ vao[b]["direct"].dirty \/ vao[b]["direct"].bound = impl[b].buf
          /\ vao[b]["converted"].dirty \/ vao[b]["converted"].bound = impl[b].conv.buf
=============================================================================
