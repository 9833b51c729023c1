------------------------- MODULE SubmissionTimeline -------------------------
(***************************************************************************)
(* What a queue of GPU command buffers promises to the code above it       *)
(* (mtl::CommandQueue, mtl_command_buffer.h 36-88): serials are issued one *)
(* by one, a buffer is handed to the GPU at most once, and the retired     *)
(* serial is a fence - it only grows, and when it has reached s, every     *)
(* buffer up to s was handed to the GPU.  No queue, no threads, no locks,  *)
(* no callbacks: module CommandQueue has those and implements this.        *)
(***************************************************************************)
EXTENDS Integers

VARIABLES
    issued,      \* number of serials handed out so far
    submitted,   \* serials whose command buffer was handed to the GPU
    retired      \* every serial up to this one is known to be finished

tvars == <<issued, submitted, retired>>

Init ==
    /\ issued = 0
    /\ submitted = {}
    /\ retired = 0

Issue ==
    /\ issued' = issued + 1
    /\ UNCHANGED <<submitted, retired>>

Submit(s) ==
    /\ s \in (1..issued) \ submitted
    /\ submitted' = submitted \cup {s}
    /\ UNCHANGED <<issued, retired>>

\* The fence may skip serials, never one that is still being recorded.
Retire(n) ==
    /\ n > retired
    /\ 1..n \subseteq submitted
    /\ retired' = n
    /\ UNCHANGED <<issued, submitted>>

Next ==
    \/ Issue
    \/ \E s \in 1..issued : Submit(s) \/ Retire(s)

Spec == Init /\ [][Next]_tvars
=============================================================================
