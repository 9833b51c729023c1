-------------------------- MODULE CommandEncoding --------------------------
(***************************************************************************)
(* A command buffer and the encoders of a context: CommandBuffer and       *)
(* CommandEncoder of mtl_command_buffer.mm, as operators on a record w     *)
(* that the modules extending this one keep in a variable.                 *)
(*                                                                         *)
(*   w.cb       the command buffer: serial, open (not committed), active   *)
(*              (mActiveCommandEncoder), pending (mPendingSignalEvents)     *)
(*   w.enc      recording (the render encoder's mRecording), native (its   *)
(*              Metal encoder), blit, compute (encoders that have their    *)
(*              Metal encoder), mode (the visibility result slot, or 0)     *)
(*   w.slots    the visibility result buffer, written by draws of a pass    *)
(*   w.written  the slots that draws of this pass have written              *)
(*   w.events   the signals and waits encoded so far, in order              *)
(*   w.failed   the assertions, and rules of Metal, that did not hold       *)
(*                                                                         *)
(* The Metal encoder of a render pass is created late, by the first draw   *)
(* or at the end of the pass.  Metal allows one open encoder in a command  *)
(* buffer, none where an event is encoded, and none after the commit.      *)
(***************************************************************************)
EXTENDS Integers, Sequences, FiniteSets

CONSTANT MaxSlots   \* slots in the visibility result buffer (8191 or more)

ASSUME SlotsAssumption == MaxSlots \in Nat \ {0, 1}

Slots == 1..MaxSlots
Encoders == {"render", "blit", "compute"}

NewCommandBuffer == [serial |-> 0, open |-> FALSE, active |-> "none", pending |-> <<>>]

NewEncoders ==
    [recording |-> FALSE, native |-> FALSE, blit |-> FALSE, compute |-> FALSE, mode |-> 0]

Check(w, holds, name) == IF holds THEN w ELSE [w EXCEPT !.failed = @ \cup {name}]

\* No Metal encoder is open.
NoneOpen(w) == ~w.enc.native /\ ~w.enc.blit /\ ~w.enc.compute

\* Events are encoded in the command buffer, one for each value.
Encode(w, kind, values) ==
    IF values = <<>> THEN w
    ELSE [Check(w, NoneOpen(w) /\ w.cb.open, "event outside encoders")
            EXCEPT !.events = @ \o [i \in DOMAIN values |-> [kind |-> kind, value |-> values[i]]]]

EncodeSignals(w, values) ==
    Encode(Check(w, values = <<>> \/ w.cb.active # "render", "event in render pass"),
           "signal", values)

\* Mutant: the signals wait for something else.
KeepPendingEvents(w) == w

\* setPendingEvents; there is no active encoder wherever it is called.
SetPendingEvents(w) == [EncodeSignals(w, w.cb.pending) EXCEPT !.cb.pending = <<>>]

\* Mutant: the command buffer keeps its encoder.
InvalidateNothing(w, kind) == w

\* invalidateActiveCommandEncoder
InvalidateActiveCommandEncoder(w, kind) ==
    IF w.cb.active = kind THEN SetPendingEvents([w EXCEPT !.cb.active = "none"]) ELSE w

\* A Metal encoder is created, if the command buffer can still have one.
CreateNative(w, kind) ==
    Check(Check(w, w.cb.open, "encoder created"), NoneOpen(w), "one encoder")

\* ensureMetalEncoderStarted: the Metal encoder of the render pass.  Metal has
\* none to give (nil) once the command buffer is committed.
EnsureMetalEncoderStarted(w) ==
    IF w.enc.native THEN w
    ELSE [CreateNative(w, "render")
            EXCEPT !.enc.native = w.cb.open, !.cb.active = "render"]

\* RenderCommandEncoder::reset of a recording encoder: the cached state goes
\* with the pass.
ResetRender(w) ==
    [InvalidateActiveCommandEncoder([w EXCEPT !.enc.native = FALSE], "render")
       EXCEPT !.enc.recording = FALSE, !.enc.mode = 0, !.written = {}]

\* RenderCommandEncoder::endEncoding
EndRender(w) == IF w.enc.recording THEN ResetRender(EnsureMetalEncoderStarted(w)) ELSE w

EndBlit(w) ==
    IF w.enc.blit THEN InvalidateActiveCommandEncoder([w EXCEPT !.enc.blit = FALSE], "blit") ELSE w

EndCompute(w) ==
    IF w.enc.compute
    THEN InvalidateActiveCommandEncoder([w EXCEPT !.enc.compute = FALSE], "compute") ELSE w

End(w, kind) ==
    CASE kind = "render" -> EndRender(w)
      [] kind = "blit" -> EndBlit(w)
      [] kind = "compute" -> EndCompute(w)
      [] kind = "none" -> w

\* forceEndingCurrentEncoder
ForceEndingCurrentEncoder(w) == [End(w, w.cb.active) EXCEPT !.cb.active = "none"]

\* RenderCommandEncoder::restart, outside a pass.
RestartRender(w) == [w EXCEPT !.enc.recording = TRUE, !.cb.active = "render"]

\* BlitCommandEncoder::restart, ComputeCommandEncoder::restart
RestartBlit(w) == [CreateNative(w, "blit") EXCEPT !.enc.blit = TRUE, !.cb.active = "blit"]
RestartCompute(w) ==
    [CreateNative(w, "compute") EXCEPT !.enc.compute = TRUE, !.cb.active = "compute"]

\* ensureCommandBufferValid: CommandBuffer::restart
EnsureCommandBufferValid(w) ==
    IF w.cb.open THEN w ELSE [w EXCEPT !.cb.open = TRUE, !.cb.serial = @ + 1]

\* commitImpl
Commit(w) ==
    IF ~w.cb.open THEN w
    ELSE [SetPendingEvents(ForceEndingCurrentEncoder(w)) EXCEPT !.cb.open = FALSE]

\* Mutant: one deferred signal is remembered, the latest.
QueueLatestSignal(w, value) ==
    IF w.cb.active = "render" THEN [w EXCEPT !.cb.pending = <<value>>]
    ELSE EncodeSignals(ForceEndingCurrentEncoder(w), <<value>>)

\* queueEventSignal
QueueEventSignal(w, value) ==
    IF w.cb.active = "render" THEN [w EXCEPT !.cb.pending = Append(@, value)]
    ELSE EncodeSignals(ForceEndingCurrentEncoder(w), <<value>>)

\* waitEventImpl
ServerWaitEvent(w, value) ==
    Encode(SetPendingEvents(ForceEndingCurrentEncoder(
             Check(w, w.cb.active # "render", "event in render pass"))),
           "wait", <<value>>)

\* setVisibilityResultMode: counting in a slot, or in none.  Metal does not
\* allow a slot to be used twice in a render pass.
SetVisibilityResultMode(w, slot) ==
    [Check(w, slot = 0 \/ slot = w.enc.mode \/ slot \notin w.written, "slot used once")
       EXCEPT !.enc.mode = slot]

\* The Metal encoder draws; a message to nil does nothing.
NativeDraw(w, visible) ==
    IF ~w.enc.native \/ w.enc.mode = 0 THEN w
    ELSE [w EXCEPT !.slots[w.enc.mode] = visible \/ (w.enc.mode \in w.written /\ @),
                   !.written = @ \cup {w.enc.mode}]

\* RenderCommandEncoder::draw
EncodeDraw(w, visible) == NativeDraw(EnsureMetalEncoderStarted(w), visible)
=============================================================================
