---------------------------- MODULE MCBufferPool ----------------------------
(* Instances of BufferPool for TLC. *)
EXTENDS BufferPool

\* The pools of a context and of a vertex array: no limit, they append.
Stream ==
    [always |-> FALSE, flushReleases |-> TRUE, sizes |-> {1, 2}, initials |-> {4},
     alignments |-> {1, 2}, limits |-> {0}, policies |-> {"auto"}, storages |-> 2, serials |-> 3]

\* The pool of a GL buffer: one buffer per allocation, a limit, a policy.
OfBuffer ==
    [always |-> TRUE, flushReleases |-> FALSE, sizes |-> {3}, initials |-> {2},
     alignments |-> {1}, limits |-> {1, 2}, policies |-> {"gpu", "shared"},
     storages |-> 3, serials |-> 2]

AllOwners == {Stream, OfBuffer}
StreamOnly == {Stream}
=============================================================================
