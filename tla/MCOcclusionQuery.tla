-------------------------- MODULE MCOcclusionQuery --------------------------
(* Instances of OcclusionQuery for TLC. *)
EXTENDS OcclusionQuery, TLC

\* The queries are interchangeable.
Symmetry == Permutations(Queries)

Mac == [managed |-> TRUE, readWrite |-> TRUE]       \* with memory of its own
Apple == [managed |-> FALSE, readWrite |-> TRUE]    \* unified memory
Old == [managed |-> FALSE, readWrite |-> FALSE]     \* GPU family below 3

AllDevices == {Mac, Apple, Old}
AppleDevices == {Apple}
=============================================================================
