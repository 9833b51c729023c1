---------------------------- MODULE EntryPoints ----------------------------
(***************************************************************************)
(* The contexts of a share group, one thread each, and their entry points. *)
(*                                                                         *)
(* An entry point of a shared context holds egl::GetGlobalMutex from its   *)
(* beginning to its end (global_state.h), so it is one step of the whole   *)
(* group, unless it waits for a worker, the GPU or a fence.  Then it is    *)
(* two or more steps, and `lock` is the call that holds the mutex.         *)
(***************************************************************************)
EXTENDS Integers, Sequences, FiniteSets

CONSTANTS
    Contexts,   \* the contexts of the share group
    Clients     \* what clients do: contexts, entry points, types and sources of shaders, thread
                \* counts; and how many shaders and programs they have at a time

ASSUME ClientsAssumption ==
    IsFiniteSet(Contexts) /\ \A k \in Clients : k.contexts \subseteq Contexts

\* An entry point called in context c with arguments x and y.
Call(op, c, x, y) == [op |-> op, c |-> c, x |-> x, y |-> y]
NoCall == Call("none", "none", 0, 0)

VARIABLES
    client,     \* what the client does; never changes
    alive,      \* contexts that have not been destroyed
    lock        \* the blocked call that holds the global mutex, or NoCall

entryVars == <<client, alive, lock>>

EntryInit ==
    /\ client \in Clients
    /\ alive = client.contexts
    /\ lock = NoCall

\* The call is the one that holds the mutex.  x and y are values of any kind.
Holds(call) == lock.op = call.op /\ lock.c = call.c /\ lock.x = call.x /\ lock.y = call.y

\* The call may be made: GetShareGroupLock returns at once.
MayCall(call) == call.op \in client.calls /\ call.c \in alive /\ lock = NoCall

\* The call is made and returns in this step.
CallReturns(call) == MayCall(call) /\ UNCHANGED entryVars
=============================================================================
