------------------------------ MODULE MCContextVk ------------------------------
(* Instances of ContextVk: what its clients do. *)
EXTENDS ContextVk

Client(calls, samples, vertex, restart, maxNodes, maxCommands, maxSerial) ==
    [calls |-> calls, samples |-> samples, vertex |-> vertex,
     restartRenderPassAfterLoadOpClear |-> restart,
     maxNodes |-> maxNodes, maxCommands |-> maxCommands, maxSerial |-> maxSerial]

OneOrNone == {{}} \cup {{i} : i \in Images}

\* Passes that are continued, cleared, ended and moved to other attachments, in
\* one graph and over two.
RenderCalls == {"DrawArrays", "Clear", "InvalidateFramebuffer", "FramebufferTexture"}
Rendering(restart) == Client(RenderCalls, OneOrNone, {FALSE}, restart, 4, 5, 1)
Resuming == Client(RenderCalls, OneOrNone, {FALSE}, FALSE, 2, 3, 2)

\* Rendered images that are sampled, copied and read, between fences.
Copying == Client({"DrawArrays", "CopyTexSubImage", "ReadPixels", "FenceSync"},
                  SUBSET Images, {FALSE}, FALSE, 5, 6, 2)

\* A vertex buffer that is drawn from while its client changes it.
Buffering == Client({"DrawArrays", "BufferSubData", "BufferData", "MapBuffer"},
                    {{}}, BOOLEAN, FALSE, 4, 5, 2)

\* Everything, in short.
Mixing == Client(RenderCalls \cup Copying.calls \cup Buffering.calls,
                 OneOrNone, BOOLEAN, FALSE, 3, 4, 1)

AllClients == {Rendering(TRUE), Rendering(FALSE), Resuming, Copying, Buffering, Mixing}

\* Images and framebuffers are interchangeable.
Symmetry == Permutations(Images) \cup Permutations(Framebuffers)
=============================================================================
