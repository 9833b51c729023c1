------------------------------- MODULE ContextVk -------------------------------
(***************************************************************************)
(* A context of the Vulkan back end that records into a command graph,     *)
(* submits it, and recycles what the GPU has finished with                 *)
(* (ContextVk.cpp, FramebufferVk.cpp, TextureVk.cpp, BufferVk.cpp).        *)
(* An action is a GL call with the state it synchronises first.            *)
(*                                                                         *)
(* Resources are images, framebuffers and one vertex buffer.  The storage  *)
(* of the buffer and the VkFramebuffers are objects, numbered as they are  *)
(* created, that can be destroyed.  Beyond the graph, w holds              *)
(*   layout, attach        per image, per framebuffer                      *)
(*   changed               framebuffers with dirty bits                    *)
(*   fb, sampled, vertex   what is bound for draws                         *)
(*   dirty                 the dirty bits of mGraphicsDirtyBits            *)
(*   object, objects       current VkFramebuffers; objects created so far  *)
(*   submitted, done, known  serials: submitted, finished by the GPU, and  *)
(*                         mLastCompletedQueueSerial                       *)
(*   running               history: what each submission refers to         *)
(*   shared, current, queued  the three lists of garbage                   *)
(***************************************************************************)
EXTENDS CommandGraph

CONSTANTS Images, Framebuffers, Buffer,
          NoFramebuffer,
          Clients,   \* what a client calls, a workaround of its device, bounds
          MaxObjects

VARIABLES w, client
vars == <<w, client>>

Resources == Images \cup Framebuffers \cup {Buffer}
Uses == Images \cup Framebuffers \cup (1 .. MaxObjects)

----------------------------------------------------------------------------
(* Serials *)

\* History: a command of the graph, or of a submission that the GPU has not
\* finished, refers to the object.
Busy(v, object) ==
    \/ \E i \in DOMAIN v.trace : object \in v.trace[i].reads \cup v.trace[i].writes
    \/ \E s \in v.done + 1 .. v.submitted : object \in v.running[s]

\* The CPU writes to an object, or destroys it.
Reuse(v, objects) ==
    IF \E o \in objects : Busy(v, o) THEN Fail(v, "object reused early") ELSE v

\* Mutant: commands that are not submitted yet are forgotten.
IsInUseByGpu(v, r) == v.serial[v.res[r].use] > v.known

isResourceInUse(v, r) == isCurrentlyInGraph(v, r) \/ v.serial[v.res[r].use] > v.known

\* destroyIfComplete
Complete(v) == {o \in v.shared : o \notin v.uses /\ v.serial[o] <= v.known}

cleanupGarbage(v) == [Reuse(v, Complete(v)) EXCEPT !.shared = @ \ Complete(v)]

\* The fences of all batches that the GPU has finished are signalled.
checkCompletedCommands(v) ==
    LET w1   == [v EXCEPT !.known = v.done,
                          !.running = [s \in DOMAIN @ |-> IF s <= v.done THEN {} ELSE @[s]]]
        free == {g \in w1.queued : g.serial < w1.known}
    IN  [Reuse(w1, {g.object : g \in free}) EXCEPT !.queued = @ \ free]

\* finishToSerialOrTimeout: the first batch in flight that is not before serial.
finishToSerial(v, serial) ==
    IF v.known = v.submitted THEN v
    ELSE checkCompletedCommands([v EXCEPT !.done = Max({@, serial, v.known + 1})])

flushImpl(v) ==
    IF v.nodes = <<>> THEN v
    ELSE LET serial == v.submitted + 1
             refers == UNION {c.reads \cup c.writes : c \in Range(v.trace)}
             w1 == submitCommands(CloseGraph(v), serial)
             w2 == cleanupGarbage([w1 EXCEPT !.submitted = serial, !.running = Append(@, refers)])
             w3 == [w2 EXCEPT !.queued = @ \cup [object : w2.current, serial : {serial}],
                              !.current = {}]
         IN  [checkCompletedCommands(w3) EXCEPT !.pass = NoNode]

\* clearAllGarbage, which takes the CPU to have waited for everything.
clearAllGarbage(v) ==
    [Reuse(v, v.current \cup {g.object : g \in v.queued}) EXCEPT
        !.current = {}, !.queued = {},
        !.failed = IF v.known # v.submitted THEN @ \cup {"commands in flight"} ELSE @]

finishImpl(v) == LET w1 == flushImpl(v) IN clearAllGarbage(finishToSerial(w1, w1.submitted))

----------------------------------------------------------------------------
(* Images and framebuffers *)

\* isLayoutChangeNecessary: of the layouts here, only a transfer to an image
\* that is already its destination needs a barrier of its own.
NeedsLayout(v, image, layout) == v.layout[image] # layout \/ layout = "TransferDst"

changeLayout(v, image, layout, n) ==
    IF NeedsLayout(v, image, layout)
    THEN [Record(v, n, Outside, {}, {image}) EXCEPT !.layout[image] = layout]
    ELSE v

\* The layout change of an image that is read, in a node of its own.
ChangeLayoutForRead(v, image, layout) ==
    IF NeedsLayout(v, image, layout)
    THEN LET w1 == recordCommands(v, image)
         IN  changeLayout(w1, image, layout, w1.res[image].writer)
    ELSE v

\* getFramebuffer
getFramebuffer(v, f) ==
    IF v.object[f] # 0 THEN v
    ELSE [v EXCEPT !.object[f] = v.objects + 1, !.objects = @ + 1]

onColorDraw(v, f) ==
    addWriteDependency(changeLayout(v, v.attach[f], "ColorAttachment", v.res[f].writer), v.attach[f], f)

startNewRenderPass(v, f) ==
    beginRenderPass(onColorDraw(recordCommands(getFramebuffer(v, f), f), f), f)

\* FramebufferVk::syncState: the VkFramebuffer is released, and the node that
\* renders to the former attachments gets a successor.
SyncFramebuffer(v, f) ==
    IF f \notin v.changed THEN v
    ELSE LET w1 == [v EXCEPT !.changed = @ \ {f}, !.object[f] = 0,
                             !.current = @ \cup ({v.object[f]} \ {0})]
         IN  startNewCommands(w1, f)

SyncDrawFramebuffer(v, f) ==
    LET w1 == SyncFramebuffer(v, f)
    IN  IF w1.fb = f THEN w1 ELSE [w1 EXCEPT !.fb = f, !.pass = NoNode]

\* A command of the render pass of node n.
RecordInPass(v, f, n, phase, reads) ==
    Record(v, n, phase, reads \cup {v.object[f]}, {v.attach[f]})

----------------------------------------------------------------------------
(* Draws *)

\* updateActiveTextures
TexturesHandler(v, f) ==
    FoldLeft(LAMBDA u, image : addReadDependency(ChangeLayoutForRead(u, image, "ShaderReadOnly"), image, f),
             v, SetToSeq(v.sampled))

VertexBuffersHandler(v, f) == IF v.vertex THEN addReadDependency(v, Buffer, f) ELSE v

\* The render pass that a draw continues or starts; a new command buffer sets
\* all dirty bits.
WithRenderPass(v, f) ==
    IF v.pass # NoNode THEN v
    ELSE LET w1 == updateCurrentAccessNodes(v, f)
             w2 == IF hasStartedRenderPass(w1, f) THEN onResourceUse(w1, f)
                   ELSE startNewRenderPass(w1, f)
         IN  [w2 EXCEPT !.pass = w2.res[f].writer, !.dirty = {"textures", "buffers"}]

\* setupDraw: the command buffer is kept while the handlers run.
setupDraw(v, f) ==
    LET w1 == IF "textures" \in v.dirty THEN TexturesHandler(v, f) ELSE v
        w2 == IF "buffers" \in v.dirty THEN VertexBuffersHandler(w1, f) ELSE w1
    IN  [w2 EXCEPT !.dirty = {}]

\* A draw to f that samples some images, with or without the vertex buffer.
DrawArrays(f, sampled, vertex) ==
    /\ w.attach[f] \notin sampled
    /\ LET w1 == SyncDrawFramebuffer(w, f)
           w2 == [w1 EXCEPT !.sampled = sampled, !.vertex = vertex,
                            !.dirty = @ \cup (IF sampled # w.sampled THEN {"textures"} ELSE {})
                                        \cup (IF vertex # w.vertex THEN {"buffers"} ELSE {})]
           w3 == WithRenderPass(w2, f)
           n  == w3.pass
           w4 == setupDraw(w3, f)
           fetched == IF vertex THEN {w.res[Buffer].use} ELSE {}
       IN  w' = [RecordInPass(w4, f, n, Inside, sampled \cup fetched) EXCEPT !.nodes[n].drawn = TRUE]

----------------------------------------------------------------------------
(* Clears, copies, reads *)

\* clearWithRenderPassOp: the load operation of a pass that has no commands yet.
Clear(f) ==
    LET w1 == updateCurrentAccessNodes(SyncDrawFramebuffer(w, f), f)
        empty == /\ w1.object[f] # 0 /\ hasStartedRenderPass(w1, f)
                 /\ ~w1.nodes[w1.res[f].writer].drawn
        w2 == IF empty THEN w1 ELSE startNewRenderPass(w1, f)
        w3 == RecordInPass(w2, f, w2.res[f].writer, LoadOp, {})
    IN  w' = IF client.restartRenderPassAfterLoadOpClear THEN startNewCommands(w3, f) ELSE w3

\* glInvalidateFramebuffer: the pass need not store, and ends.
InvalidateFramebuffer(f) ==
    LET w1 == onGraphAccess(SyncFramebuffer(w, f), f)
    IN  w' = IF w1.object[f] # 0 /\ hasStartedRenderPass(w1, f)
             THEN startNewCommands(RecordInPass(w1, f, w1.res[f].writer, StoreOp, {}), f)
             ELSE w1

\* glCopyTexSubImage2D from f to an image, as a transfer.
CopyTexSubImage(f, image) ==
    /\ w.attach[f] # image
    /\ LET source == w.attach[f]
           w1 == ChangeLayoutForRead(SyncFramebuffer(w, f), source, "TransferSrc")
           w2 == recordCommands(w1, image)
           w3 == changeLayout(w2, image, "TransferDst", w2.res[image].writer)
           w4 == addReadDependency(w3, source, image)
       IN  w' = Record(w4, w4.res[image].writer, Outside, {source}, {image})

\* readPixelsImpl; getImageForRead takes the image as if it were written.
ReadPixels(f) ==
    LET source == w.attach[f]
        w1 == recordCommands(SyncFramebuffer(w, f), f)
        n  == w1.res[f].writer
        w2 == changeLayout(addWriteDependency(w1, source, f), source, "TransferSrc", n)
    IN  w' = finishImpl(Record(w2, n, Outside, {source}, {}))

\* glFramebufferTexture2D, also of the same image; the framebuffer is synchronised
\* at its next use.
FramebufferTexture(f, image) ==
    w' = [w EXCEPT !.attach[f] = image, !.changed = @ \cup {f}]

----------------------------------------------------------------------------
(* The vertex buffer *)

\* setDataImpl: written by the CPU, or by a copy if anything still uses it.
setDataImpl(v) ==
    LET object == v.res[Buffer].use
    IN  IF isResourceInUse(v, Buffer)
        THEN LET w1 == recordCommands(v, Buffer)
             IN  Record(w1, w1.res[Buffer].writer, Outside, {}, {object})
        ELSE Reuse(v, {object})

BufferSubData == w' = setDataImpl(w)

\* glBufferData of a larger size: new storage, and the former one is garbage.
BufferData ==
    LET new == w.objects + 1
        w1  == [w EXCEPT !.shared = @ \cup {w.res[Buffer].use},
                         !.res[Buffer].use = new, !.objects = new,
                         !.dirty = IF w.vertex THEN @ \cup {"buffers"} ELSE @]
    IN  w' = setDataImpl(w1)

\* glMapBufferRange: flush what uses the buffer, and wait for it.
MapBuffer ==
    LET w1 == IF isResourceInUse(w, Buffer) THEN flushImpl(w) ELSE w
        w2 == finishToSerial(w1, w1.serial[w1.res[Buffer].use])
    IN  w' = Reuse(w2, {w2.res[Buffer].use})

----------------------------------------------------------------------------
(* Submission *)

\* glFenceSync: a barrier node; all that was recorded comes before it.
FenceSync ==
    LET w1 == allocateBarrierNode(w)
    IN  w' = Record(w1, w1.barrier, Barrier, {}, {})

Flush == w' = flushImpl(w)
Finish == w' = finishImpl(w)

\* The GPU finishes a submission.
Execute == w.done < w.submitted /\ w' = [w EXCEPT !.done = @ + 1]

----------------------------------------------------------------------------
Init ==
    /\ client \in Clients
    /\ \E attach \in [Framebuffers -> Images] :
      w = [nodes |-> <<>>, barrier |-> NoNode, uses |-> {}, pass |-> NoNode, trace |-> <<>>,
           failed |-> {}, serial |-> [u \in Uses |-> 0],
           res |-> [r \in Resources |-> Unused(IF r = Buffer THEN 1 ELSE r)],
           layout |-> [i \in Images |-> "Undefined"], attach |-> attach, changed |-> {},
           fb |-> NoFramebuffer, sampled |-> {}, vertex |-> FALSE, dirty |-> {"textures", "buffers"},
           object |-> [f \in Framebuffers |-> 0], objects |-> 1,
           submitted |-> 0, done |-> 0, known |-> 0, running |-> <<>>,
           shared |-> {}, current |-> {}, queued |-> {}]

\* Bounds: a call needs room for its nodes, commands and objects; a submission
\* is always possible until the last serial.
Room == /\ Len(w.nodes) < client.maxNodes /\ Len(w.trace) < client.maxCommands
        /\ w.submitted < client.maxSerial /\ w.objects < MaxObjects

Calls(name) == name \in client.calls /\ UNCHANGED client

Next ==
    \/ /\ Room
       /\ \/ /\ Calls("DrawArrays")
             /\ \E f \in Framebuffers, sampled \in client.samples, vertex \in client.vertex :
                  DrawArrays(f, sampled, vertex)
          \/ Calls("Clear") /\ \E f \in Framebuffers : Clear(f)
          \/ Calls("InvalidateFramebuffer") /\ \E f \in Framebuffers : InvalidateFramebuffer(f)
          \/ Calls("ReadPixels") /\ \E f \in Framebuffers : ReadPixels(f)
          \/ /\ Calls("CopyTexSubImage")
             /\ \E f \in Framebuffers, image \in Images : CopyTexSubImage(f, image)
          \/ /\ Calls("FramebufferTexture")
             /\ \E f \in Framebuffers, image \in Images : FramebufferTexture(f, image)
          \/ Calls("BufferSubData") /\ BufferSubData
          \/ Calls("BufferData") /\ BufferData
          \/ Calls("MapBuffer") /\ MapBuffer
          \/ Calls("FenceSync") /\ FenceSync
    \/ UNCHANGED client /\ (Flush \/ Finish \/ Execute)

Spec == Init /\ [][Next]_vars

----------------------------------------------------------------------------
(* Properties. *)

\* Accesses that have to keep the order of the calls.
Conflict(c, d) ==
    \/ Barrier \in {c.phase, d.phase}
    \/ c.writes \cap (d.reads \cup d.writes) # {}
    \/ c.reads \cap d.writes # {}

\* If the graph were submitted now, every command of it would be executed, and
\* two commands of which one writes what the other accesses would be executed
\* in the order of their calls, however the graph has reordered the rest.
CallOrderKept ==
    LET order == ExecutionOrder(CloseGraph(w).nodes)
        place == [n \in DOMAIN w.nodes |-> CHOOSE i \in DOMAIN order : order[i] = n]
        Before(c, d) == \/ place[c.node] < place[d.node]
                        \/ c.node = d.node /\ c.phase <= d.phase
    IN  /\ Range(order) = DOMAIN w.nodes
        /\ \A i, j \in DOMAIN w.trace :
              i < j /\ Conflict(w.trace[i], w.trace[j]) => Before(w.trace[i], w.trace[j])

\* The assertions of the graph: no cycle ("isChildOf"), a writing node where one
\* is needed, one owner per pass, no use recorded in an empty graph; and no
\* pointer into a submitted graph is used.  One call breaks one of them: between
\* a submission and the next command, glInvalidateFramebuffer finds the graph
\* empty (FramebufferVk.cpp 199, CommandGraph.h 720).
AssertionsHold ==
    [][LET failed == (w'.failed \ w.failed) \ {"object reused early"}
       IN  \/ failed = {}
           \/ /\ failed = {"the graph is empty"} /\ w.nodes = <<>>
              /\ \E f \in Framebuffers : InvalidateFramebuffer(f)]_vars

\* The command buffer that the context keeps for its next draw is that of an open
\* render pass of the framebuffer it draws to.
PassIsOpen ==
    w.pass # NoNode =>
      /\ w.fb \in Framebuffers /\ hasStartedRenderPass(w, w.fb)
      /\ w.res[w.fb].writer = w.pass

\* Nothing is destroyed, or written by the CPU, while a recorded command or the
\* GPU still refers to it.
NothingReusedEarly == "object reused early" \notin w.failed
=============================================================================
