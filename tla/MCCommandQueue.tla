--------------------------- MODULE MCCommandQueue ---------------------------
(* Instances of CommandQueue for TLC. *)
EXTENDS CommandQueue

CONSTANTS c1, c2, c3, r1, r2, t1, t2

\* c1 and c2 share r1 (and, being in a share group, the global mutex); c3 has a
\* resource of its own.
GroupUses == [c \in Contexts |-> IF c = c3 THEN {r2} ELSE {r1}]

\* Each context has a resource of its own.
PrivateUses == [c \in Contexts |-> IF c = c1 THEN {r1} ELSE {r2}]
=============================================================================
