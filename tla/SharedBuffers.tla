--------------------------- MODULE SharedBuffers ---------------------------
(***************************************************************************)
(* Buffer objects of a share group: names, objects and reference counts    *)
(* (ResourceManager.cpp, ResourceMap.h, RefCountObject.h and the calls of  *)
(* Context.cpp that use them).  Textures, renderbuffers and samplers are   *)
(* managed by the same code.  Each context has one binding point.          *)
(***************************************************************************)
EXTENDS EntryPoints, HandleAllocator

CONSTANT MaxBuffers   \* bound: Buffer objects that exist at a time
ASSUME BuffersAssumption == MaxBuffers \in Nat

VARIABLE bufs

BufferIds == 1..MaxBuffers
Absent   == -1    \* the map has no entry for a name
Reserved == 0     \* generated, no object yet: a null pointer in the map

NewBuffers ==
    [alloc |-> NewAllocator,
     map   |-> [n \in Names |-> Absent],
     refs  |-> [o \in BufferIds |-> 0],
     id    |-> [o \in BufferIds |-> 0],     \* the name it was made with; 0: no such object
     bound |-> [c \in Contexts |-> 0]]

\* The last reference deletes the object.
Release(b, o) == [b EXCEPT !.refs[o] = @ - 1, !.id[o] = IF b.refs[o] = 1 THEN 0 ELSE @]

\* UpdateNonTFBufferBinding: unlike BindingPointer::set, it releases first.
SetBinding(b, c, o) ==
    LET left == IF b.bound[c] = 0 THEN b ELSE Release(b, b.bound[c])
    IN  [(IF o = 0 THEN left ELSE [left EXCEPT !.refs[o] = @ + 1]) EXCEPT !.bound[c] = o]

\* checkObjectAllocation: the object of a name, which may be new and may have
\* a name nobody generated.
Existing(b, name) == b.map[name] \notin {Absent, Reserved}
MakeObject(b, name, o) ==
    [b EXCEPT !.alloc = IF b.map[name] = Absent THEN Reserve(@, name) ELSE @,
              !.map[name] = o, !.refs[o] = 1, !.id[o] = name]

NewObject(b) == Lowest({o \in BufferIds : b.refs[o] = 0})

Obtain(b, name) == IF Existing(b, name) THEN b ELSE MakeObject(b, name, NewObject(b))

IsBound(b, o) == \E c \in Contexts : b.bound[c] = o

\* detachBuffer: if the object is bound anywhere, the deleting context, and only
\* it, lets go of what it has bound under this name.
Detach(b, c, o) ==
    IF /\ o \in BufferIds /\ IsBound(b, o)
       /\ b.bound[c] # 0 /\ b.id[b.bound[c]] = b.id[o]
    THEN SetBinding(b, c, 0) ELSE b

\* Mutant: only names with an object are given back.
EraseObjects(b, name) ==
    IF Existing(b, name)
    THEN Release([b EXCEPT !.map[name] = Absent, !.alloc = ReleaseName(@, name)], b.map[name])
    ELSE [b EXCEPT !.map[name] = Absent]

\* TypedResourceManager::deleteObject
Erase(b, name) ==
    IF b.map[name] = Absent THEN b
    ELSE LET c == [b EXCEPT !.map[name] = Absent, !.alloc = ReleaseName(@, name)]
         IN  IF Existing(b, name) THEN Release(c, b.map[name]) ELSE c

\* How many names an object has.
NamesOf(b, o) == Cardinality({n \in Names : b.map[n] = o})

\* TypedResourceManager::reset: every name lets go of its object.
ResetBuffers(b) ==
    [b EXCEPT !.refs = [o \in BufferIds |-> @[o] - NamesOf(b, o)],
              !.id = [o \in BufferIds |-> IF b.refs[o] = NamesOf(b, o) THEN 0 ELSE @[o]],
              !.alloc = NewAllocator, !.map = [n \in Names |-> Absent]]

GenBuffer(c) ==
    /\ CallReturns(Call("GenBuffers", c, 0, 0)) /\ HasName(bufs.alloc)
    /\ bufs' = [bufs EXCEPT !.alloc = TakeName(@), !.map[NextName(bufs.alloc)] = Reserved]

BindBuffer(c, name) ==
    /\ CallReturns(Call("BindBuffer", c, name, 0))
    /\ Existing(bufs, name) \/ \E o \in BufferIds : bufs.refs[o] = 0
    /\ bufs' = SetBinding(Obtain(bufs, name), c, Obtain(bufs, name).map[name])

UnbindBuffer(c) ==
    /\ CallReturns(Call("BindBuffer", c, 0, 0))
    /\ bufs' = SetBinding(bufs, c, 0)

DeleteBuffers(c, name) ==
    /\ CallReturns(Call("DeleteBuffers", c, name, 0))
    /\ bufs' = Erase(Detach(bufs, c, bufs.map[name]), name)

BufferCall(c) ==
    \/ GenBuffer(c) \/ UnbindBuffer(c)
    \/ \E name \in Names : BindBuffer(c, name) \/ DeleteBuffers(c, name)

\* The part of Context::onDestroy; last: the managers are destroyed too.
ReleaseBuffers(b, c, last) ==
    IF last THEN ResetBuffers(SetBinding(b, c, 0)) ELSE SetBinding(b, c, 0)

\* A buffer lives exactly as long as a name or a binding refers to it, never to
\* be bound after its deletion, and a name can be handed out exactly when it is
\* neither generated nor in use, although a context deletes names that others
\* have bound and clients choose names themselves.
NamesExact ==
    /\ \A o \in BufferIds :
         /\ bufs.refs[o] = NamesOf(bufs, o) + Cardinality({c \in Contexts : bufs.bound[c] = o})
         /\ bufs.refs[o] > 0 <=> bufs.id[o] # 0
    /\ \A n \in Names : Copies(bufs.alloc, n) = IF bufs.map[n] = Absent THEN 1 ELSE 0
=============================================================================
