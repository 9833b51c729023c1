-------------------------- MODULE HandleAllocator --------------------------
(***************************************************************************)
(* gl::HandleAllocator (HandleAllocator.cpp): the names of GL objects.     *)
(*                                                                         *)
(* Names never used are kept as ranges, in the order of a vector; names    *)
(* given back are kept in a heap, which is a bag here.  A client may also  *)
(* reserve a name of its choice.                                           *)
(***************************************************************************)
EXTENDS Integers, SequencesExt

CONSTANT MaxName   \* the maximum handle value
ASSUME NameAssumption == MaxName \in Nat \ {0}

Names == 1..MaxName

NewAllocator == [free |-> <<[begin |-> 1, end |-> MaxName]>>, released |-> EmptyBag]

\* A client that runs out of names is not modelled.
HasName(a) == a.free # <<>> \/ a.released # EmptyBag

Lowest(S) == CHOOSE n \in S : \A m \in S : n <= m

\* The name that allocate() returns, and what is left.
NextName(a) == IF a.released # EmptyBag THEN Lowest(BagToSet(a.released)) ELSE a.free[1].begin

\* The range from begin to end, unless it is empty.
Part(begin, end) == IF begin <= end THEN <<[begin |-> begin, end |-> end]>> ELSE <<>>

TakeName(a) ==
    IF a.released # EmptyBag
    THEN [a EXCEPT !.released = @ (-) SetToBag({NextName(a)})]
    ELSE [a EXCEPT !.free = Part(a.free[1].begin + 1, a.free[1].end) \o Tail(a.free)]

\* release()
ReleaseName(a, name) == [a EXCEPT !.released = @ (+) SetToBag({name})]

\* The first range that does not end before the name.
LowerBound(free, name) == Lowest({i \in DOMAIN free : free[i].end >= name})

\* What is left of a range without a name.
Without(range, name) == Part(range.begin, name - 1) \o Part(name + 1, range.end)

\* reserve(): the name comes from the heap or from the range that has it.
Reserve(a, name) ==
    IF BagIn(name, a.released)
    THEN [a EXCEPT !.released = @ (-) SetToBag({name})]
    ELSE LET i == LowerBound(a.free, name) IN
         [a EXCEPT !.free = SubSeq(@, 1, i - 1) \o Without(a.free[i], name) \o SubSeq(@, i + 1, Len(@))]

\* How often a name may still be handed out.
Copies(a, name) ==
    (IF BagIn(name, a.released) THEN a.released[name] ELSE 0)
      + Cardinality({i \in DOMAIN a.free : a.free[i].begin <= name /\ name <= a.free[i].end})
=============================================================================
