---------------------------- MODULE SharedSyncs ----------------------------
(***************************************************************************)
(* Fences that a client waits for (SyncMtl.mm, Fence.cpp): the sync        *)
(* objects of a share group and one FenceNV object of each context.        *)
(*                                                                         *)
(* A context records work and events in its command buffer; committed      *)
(* buffers go to the one queue of the display and are executed in order.   *)
(* When an event is signalled, its listeners are called on a thread of     *)
(* their own.  A client's wait holds the mutex of the share group and, but *)
(* while it sleeps, the mutex of the sync, which the listener takes too.   *)
(***************************************************************************)
EXTENDS EntryPoints

CONSTANTS
    SyncIds,    \* names of sync objects
    MaxEvents,  \* bound: shared events that exist at a time
    MaxWork,    \* bound: pieces of work of a context that are not executed
    MaxSets,    \* bound: how often a FenceNV is set
    MaxItems    \* bound: recorded and committed commands, for a context to record more

ASSUME SyncAssumption == MaxEvents \in Nat /\ SyncIds \cap Contexts = {}

VARIABLE syncs

Syncs == SyncIds \cup Contexts   \* the FenceNV of a context has its name
Events == 1..MaxEvents

NoSync == [exists |-> FALSE, event |-> 0, counter |-> 0, by |-> "none", before |-> 0]

NewSyncs ==
    [sync  |-> [s \in Syncs |-> NoSync],      \* before: work recorded before it, not executed
     value |-> [e \in Events |-> 0],          \* signaledValue
     cb    |-> [c \in Contexts |-> <<>>],     \* not committed
     gpu   |-> <<>>,                          \* committed
     work  |-> [c \in Contexts |-> 0],        \* recorded, not executed
     listeners |-> {},
     pc    |-> "running",                     \* of the waiting thread
     notified |-> FALSE]

Item(kind, c, event, value) == [kind |-> kind, c |-> c, event |-> event, value |-> value]
Room(c) == Len(syncs.cb[c]) + Len(syncs.gpu) < MaxItems
Record(y, c, item) == [y EXCEPT !.cb[c] = Append(@, item)]

\* ContextMtl::flushCommandBufer
Commit(y, c) == [y EXCEPT !.gpu = @ \o y.cb[c], !.cb[c] = <<>>]

Items(y) == (UNION {{y.cb[c][i] : i \in DOMAIN y.cb[c]} : c \in Contexts})
              \cup {y.gpu[i] : i \in DOMAIN y.gpu}

FreeEvents(y) ==
    {e \in Events : /\ \A s \in Syncs : y.sync[s].event # e
                    /\ \A item \in Items(y) \cup y.listeners : item.event # e}

\* Events nobody refers to are freed.
Forget(y) == [y EXCEPT !.value = [e \in Events |-> IF e \in FreeEvents(y) THEN 0 ELSE @[e]]]

\* Mutant: the counter keeps its value.
SetStale(y, c, s, e) ==
    Record([y EXCEPT !.sync[s] = [exists |-> TRUE, event |-> e, counter |-> @.counter,
                                  by |-> c, before |-> y.work[c]]],
           c, Item("signal", c, e, y.sync[s].counter))

\* Sync::set and queueEventSignal; e is new when the sync has no event yet.
Set(y, c, s, e) ==
    Record([y EXCEPT !.sync[s] = [exists |-> TRUE, event |-> e, counter |-> @.counter + 1,
                                  by |-> c, before |-> y.work[c]]],
           c, Item("signal", c, e, y.sync[s].counter + 1))

Signalled(y, s) == y.value[y.sync[s].event] >= y.sync[s].counter

\* Registration of the listener; the mutex of the sync is held.
StartWait(y, s) ==
    [y EXCEPT !.listeners = @ \cup {[event |-> y.sync[s].event, value |-> y.sync[s].counter]},
              !.pc = "armed"]

-----------------------------------------------------------------------------
(* The entry points.                                                        *)

Draw(c) ==
    /\ CallReturns(Call("DrawArrays", c, 0, 0)) /\ syncs.work[c] < MaxWork /\ Room(c)
    /\ syncs' = Record([syncs EXCEPT !.work[c] = @ + 1], c, Item("work", c, 0, 0))

Flush(c) ==
    /\ CallReturns(Call("Flush", c, 0, 0))
    /\ syncs' = Commit(syncs, c)

FenceSync(c, s) ==
    /\ CallReturns(Call("FenceSync", c, s, 0)) /\ ~syncs.sync[s].exists
    /\ Room(c) /\ FreeEvents(syncs) # {}
    /\ syncs' = Set(syncs, c, s, CHOOSE e \in FreeEvents(syncs) : TRUE)

DeleteSync(c, s) ==
    /\ CallReturns(Call("DeleteSync", c, s, 0)) /\ syncs.sync[s].exists
    /\ syncs' = Forget([syncs EXCEPT !.sync[s] = NoSync])

SetFenceNV(c) ==
    /\ CallReturns(Call("SetFenceNV", c, 0, 0)) /\ syncs.sync[c].counter < MaxSets /\ Room(c)
    /\ \/ /\ syncs.sync[c].exists
          /\ syncs' = Set(syncs, c, c, syncs.sync[c].event)
       \/ /\ ~syncs.sync[c].exists /\ FreeEvents(syncs) # {}
          /\ syncs' = Set(syncs, c, c, CHOOSE e \in FreeEvents(syncs) : TRUE)

\* The client has flushed the fence of another context, as OpenGL ES requires.
WaitSync(c, s) ==
    /\ CallReturns(Call("WaitSync", c, s, 0)) /\ syncs.sync[s].exists
    /\ \/ syncs.sync[s].by = c \/ Signalled(syncs, s)
       \/ \E i \in DOMAIN syncs.gpu : syncs.gpu[i].kind = "signal" /\ syncs.gpu[i].event = syncs.sync[s].event
    /\ Room(c)
    /\ syncs' = Record(syncs, c, Item("wait", c, syncs.sync[s].event, syncs.sync[s].counter))

\* Sync::clientWait up to its wait, with a time-out.  All are alike: none is
\* so long that it never expires, GL_TIMEOUT_IGNORED being -1 nanoseconds.
ClientWait(call, s, flush) ==
    /\ MayCall(call) /\ syncs.sync[s].exists
    /\ UNCHANGED <<client, alive>>
    /\ \/ Signalled(syncs, s) /\ UNCHANGED <<syncs, lock>>
       \/ /\ ~Signalled(syncs, s)
          /\ syncs' = StartWait(IF flush THEN Commit(syncs, call.c) ELSE syncs, s)
          /\ lock' = call

ClientWaitSync(c, s, flush) == ClientWait(Call("ClientWaitSync", c, s, 1), s, flush)

\* With a time-out of 0.
PollSync(c, s, flush) ==
    /\ CallReturns(Call("ClientWaitSync", c, s, 0)) /\ syncs.sync[s].exists
    /\ syncs' = IF ~Signalled(syncs, s) /\ flush THEN Commit(syncs, c) ELSE syncs

FinishFenceNV(c) == ClientWait(Call("FinishFenceNV", c, c, 1), c, TRUE)

\* glFinish: the last committed buffer has been executed.
Finish(c) ==
    LET call == Call("Finish", c, 0, 0)
        y == IF lock = NoCall THEN Commit(syncs, c) ELSE syncs IN
    /\ MayCall(call) \/ Holds(call)
    /\ IF \E i \in DOMAIN y.gpu : y.gpu[i].c = c
       THEN MayCall(call) /\ syncs' = y /\ lock' = call
       ELSE syncs' = y /\ lock' = NoCall
    /\ UNCHANGED <<client, alive>>

SyncCall(c) ==
    \/ Draw(c) \/ Flush(c) \/ SetFenceNV(c) \/ FinishFenceNV(c)
    \/ \E s \in SyncIds : FenceSync(c, s) \/ DeleteSync(c, s)
    \/ \E s \in SyncIds : WaitSync(c, s)
    \/ \E s \in SyncIds, flush \in BOOLEAN : ClientWaitSync(c, s, flush) \/ PollSync(c, s, flush)

-----------------------------------------------------------------------------
(* The waiting thread, in mCv->wait_for.                                    *)

Waiting == lock.op \in {"ClientWaitSync", "FinishFenceNV"}

\* Mutant: the thread is not marked as running.
ReturnOnly == UNCHANGED syncs /\ lock' = NoCall

Return == syncs' = [syncs EXCEPT !.pc = "running", !.notified = FALSE] /\ lock' = NoCall

\* The predicate is evaluated.
Evaluate ==
    /\ Waiting /\ syncs.pc = "armed"
    /\ IF Signalled(syncs, lock.x) THEN Return
       ELSE syncs' = [syncs EXCEPT !.pc = "checked"] /\ UNCHANGED lock

\* The mutex is released and the thread sleeps, in one step.
FallAsleep ==
    /\ Waiting /\ syncs.pc = "checked"
    /\ syncs' = [syncs EXCEPT !.pc = "asleep"] /\ UNCHANGED lock

Wake ==
    /\ Waiting /\ syncs.pc = "asleep" /\ syncs.notified
    /\ syncs' = [syncs EXCEPT !.pc = "armed", !.notified = FALSE] /\ UNCHANGED lock

\* FenceNVMtl::finish waits again.
TimeOut ==
    /\ Waiting /\ syncs.pc = "asleep"
    /\ IF lock.op = "FinishFenceNV" /\ ~Signalled(syncs, lock.x)
       THEN syncs' = [StartWait(syncs, lock.x) EXCEPT !.notified = FALSE] /\ UNCHANGED lock
       ELSE Return

ThreadStep == (Evaluate \/ FallAsleep \/ Wake \/ TimeOut) /\ UNCHANGED <<client, alive>>

-----------------------------------------------------------------------------
(* The GPU and the thread of the listeners.                                 *)

\* Work of c has been executed.
OneLess(x, c) == IF x.by = c /\ x.before > 0 THEN [x EXCEPT !.before = @ - 1] ELSE x

\* The oldest work of c has been executed.
Executed(y, c) ==
    [y EXCEPT !.work[c] = @ - 1, !.sync = [s \in Syncs |-> OneLess(@[s], c)]]

GpuStep ==
    /\ syncs.gpu # <<>>
    /\ LET item == Head(syncs.gpu)
           y == [syncs EXCEPT !.gpu = Tail(@)] IN
         \/ item.kind = "work" /\ syncs' = Executed(y, item.c)
         \/ item.kind = "signal" /\ syncs' = Forget([y EXCEPT !.value[item.event] = item.value])
         \/ item.kind = "wait" /\ syncs.value[item.event] >= item.value /\ syncs' = Forget(y)
    /\ UNCHANGED entryVars

MutexHeld(event) == Waiting /\ syncs.pc \in {"armed", "checked"} /\ syncs.sync[lock.x].event = event

\* The listener's block: notify_one.
Notify(l) ==
    [syncs EXCEPT !.listeners = @ \ {l},
                  !.notified = @ \/ (Waiting /\ syncs.pc = "asleep" /\ syncs.sync[lock.x].event = l.event)]

\* Mutant: the block does not take the mutex of the sync.
FireUnlocked(l) ==
    /\ syncs.value[l.event] >= l.value
    /\ syncs' = Forget(Notify(l))
    /\ UNCHANGED entryVars

Fire(l) ==
    /\ syncs.value[l.event] >= l.value /\ ~MutexHeld(l.event)
    /\ syncs' = Forget(Notify(l))
    /\ UNCHANGED entryVars

Listeners == \E l \in syncs.listeners : Fire(l)

\* The part of Context::onDestroy: unMakeCurrent commits, the fences go.
ReleaseSyncs(y, c, last) ==
    Forget([Commit(y, c) EXCEPT !.sync = [s \in Syncs |-> IF s = c \/ last THEN NoSync ELSE @[s]]])

-----------------------------------------------------------------------------
\* A fence answers "signalled" only when the work recorded before it has been
\* executed, although its event and counter are used again and other contexts
\* ask (Sync::set, clientWait, getStatus).
SignalsAreTrue ==
    \A s \in Syncs : syncs.sync[s].exists /\ Signalled(syncs, s) => syncs.sync[s].before = 0

\* A thread that sleeps in clientWait while its fence is signalled will be told,
\* wherever the signal falls between the first test, the registration of the
\* listener, the predicate and the sleep.
NoLostWakeup ==
    Waiting /\ syncs.pc = "asleep" /\ Signalled(syncs, lock.x) =>
        \/ syncs.notified
        \/ \E l \in syncs.listeners : l.event = syncs.sync[lock.x].event
                                        /\ l.value <= syncs.value[l.event]
=============================================================================
