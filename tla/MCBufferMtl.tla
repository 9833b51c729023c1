---------------------------- MODULE MCBufferMtl ----------------------------
(* Instances of BufferMtl for TLC: what clients do with their buffers. *)
EXTENDS BufferMtl

Usages == {"static", "dynamic"}

\* One buffer is updated, mapped, written by the GPU and drawn.
Updater ==
    [buffers |-> {"b1"}, usages |-> Usages, ranges |-> {{1}, {2}},
     accesses |-> {"read", "write", "invalidate"},
     calls |-> {"BufferData", "BufferSubData", "MapBufferRange", "DeleteBuffer",
                "Draw", "DrawConverted", "ReadPixels"}]

\* Two buffers are copied to one another and drawn.
Copier ==
    [buffers |-> {"b1", "b2"}, usages |-> Usages, ranges |-> {{1}}, accesses |-> {},
     calls |-> {"BufferData", "CopyBufferSubData", "Draw", "DeleteBuffer"}]

\* Copies into streamed buffers, which are also written without synchronization.
Streamer ==
    [buffers |-> {"b1", "b2"}, usages |-> {"dynamic"}, ranges |-> {{1}},
     accesses |-> {"unsync"},
     calls |-> {"BufferData", "CopyBufferSubData", "MapBufferRange", "Draw", "DeleteBuffer"}]

\* Copies into buffers whose vertices are converted.
Converter ==
    [buffers |-> {"b1", "b2"}, usages |-> Usages, ranges |-> {{1}}, accesses |-> {},
     calls |-> {"BufferData", "CopyBufferSubData", "DrawConverted", "DeleteBuffer"}]

AllClients == {Updater, Copier, Streamer}
ConverterOnly == {Converter}
=============================================================================
