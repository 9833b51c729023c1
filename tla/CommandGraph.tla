------------------------------ MODULE CommandGraph ------------------------------
(***************************************************************************)
(* The command graph of the Vulkan back end                                *)
(* (renderer/vulkan/CommandGraph.cpp and .h): GL calls record commands     *)
(* into nodes, resources remember the node that writes them and the nodes  *)
(* that read them, and a submission executes the nodes in an order that    *)
(* only the edges between them restrict.  Graph and resources are fields   *)
(* of one record w that every operator takes and returns:                  *)
(*   nodes, barrier   mNodes and mLastBarrierIndex                         *)
(*   uses             the resource uses that mResourceUses holds           *)
(*   res              per resource its writing node, its reading nodes and *)
(*                    its ResourceUse                                      *)
(*   serial           the serial of each ResourceUse                       *)
(*   pass             the node of the context's mRenderPassCommandBuffer   *)
(*   trace, failed    history: the commands of this graph in the order of  *)
(*                    the calls; names of assertions that did not hold     *)
(* A node is named by its index.  Pointers into a graph that was submitted *)
(* dangle; nothing but a new access of the resource removes them.          *)
(***************************************************************************)
EXTENDS Integers, SequencesExt

NoNode == 0
Dangling == -1

(* What a node holds besides its commands; a node with a render pass is     *)
(* owned by the context.                                                    *)
CommandGraphNode == [parents |-> <<>>, hasChildren |-> FALSE, inside |-> FALSE, drawn |-> FALSE]

Unused(use) == [writer |-> NoNode, readers |-> <<>>, use |-> use]

Fail(w, name) == [w EXCEPT !.failed = @ \cup {name}]

Indices(nodes) == [i \in DOMAIN nodes |-> i]

(* isChildOf: everything that must execute before node n. *)
Ancestors(nodes, n) ==
    FoldLeft(LAMBDA found, i : found \cup UNION {Range(nodes[m].parents) : m \in found},
             Range(nodes[n].parents), Indices(nodes))

(* The node was allocated from a graph that still exists. *)
IsCurrent(n) == n > NoNode

\* Mutant: the owner of a pass is not told that it is finished.
SetHappensBeforeOnly(w, before, after) ==
    [w EXCEPT !.nodes = <<>> \o [n \in DOMAIN w.nodes |->
                 [w.nodes[n] EXCEPT !.parents = IF n = after THEN @ \o before ELSE @,
                                    !.hasChildren = @ \/ n \in Range(before)]]]

(* SetHappensBeforeDependencies with setHasChildren: a render pass that gets *)
(* a child is finished, and its owner is told.                               *)
SetHappensBefore(w, before, after) ==
    IF \E n \in Range(before) \cup {after} : ~IsCurrent(n)
    THEN Fail(w, "pointer to a submitted node")
    ELSE [w EXCEPT
            !.nodes = <<>> \o [n \in DOMAIN w.nodes |->
                         [w.nodes[n] EXCEPT !.parents = IF n = after THEN @ \o before ELSE @,
                                      !.hasChildren = @ \/ n \in Range(before)]],
            !.pass = IF \E n \in Range(before) : w.nodes[n].inside THEN NoNode ELSE @,
            !.failed = IF \E n \in Range(before) : n = after \/ after \in Ancestors(w.nodes, n)
                       THEN @ \cup {"cycle"} ELSE @]

----------------------------------------------------------------------------
(* Resources *)

isCurrentlyInGraph(w, r) == w.res[r].use \in w.uses

\* Mutant: the nodes of an earlier graph are kept.
KeepAccessNodes(w, r) == w

updateCurrentAccessNodes(w, r) ==
    IF isCurrentlyInGraph(w, r) THEN w
    ELSE [w EXCEPT !.res[r].writer = NoNode, !.res[r].readers = <<>>]

onResourceUse(w, r) ==
    LET w1 == IF w.nodes = <<>> THEN Fail(w, "the graph is empty") ELSE w
    IN  [w1 EXCEPT !.uses = @ \cup {w.res[r].use}]

onGraphAccess(w, r) == onResourceUse(updateCurrentAccessNodes(w, r), r)

hasChildlessWritingNode(w, r) ==
    /\ IsCurrent(w.res[r].writer)
    /\ ~w.nodes[w.res[r].writer].hasChildren

hasStartedRenderPass(w, r) ==
    hasChildlessWritingNode(w, r) /\ w.nodes[w.res[r].writer].inside

(* The node comes after the nodes that read the resource, and after the one  *)
(* that wrote it.                                                            *)
AfterReaders(w, r, node) ==
    IF w.res[r].readers = <<>> THEN w
    ELSE [SetHappensBefore(w, w.res[r].readers, node) EXCEPT !.res[r].readers = <<>>]

AfterWriter(w, r, node) ==
    IF w.res[r].writer \in {NoNode, node} THEN w
    ELSE SetHappensBefore(w, <<w.res[r].writer>>, node)

onWriteImpl(w, r, node) ==
    [AfterWriter(AfterReaders(onGraphAccess(w, r), r, node), r, node) EXCEPT !.res[r].writer = node]

addWriteDependency(w, r, writing) ==
    LET node == w.res[writing].writer
    IN  IF IsCurrent(node) THEN onWriteImpl(w, r, node) ELSE Fail(w, "no writing node")

addReadDependency(w, r, reading) ==
    LET w1   == onGraphAccess(w, r)
        node == w1.res[reading].writer
        w2   == IF w1.res[r].writer = NoNode THEN w1
                ELSE SetHappensBefore(w1, <<w1.res[r].writer>>, node)
    IN  IF IsCurrent(node) THEN [w2 EXCEPT !.res[r].readers = Append(@, node)]
        ELSE Fail(w, "no reading node")

allocateNode(w) == [w EXCEPT !.nodes = Append(@, CommandGraphNode)]

startNewCommands(w, r) == onWriteImpl(allocateNode(w), r, Len(w.nodes) + 1)

\* Mutant: a pass that has started is not closed.
RecordBeforePass(w, r) ==
    LET w1 == updateCurrentAccessNodes(w, r)
    IN  IF hasChildlessWritingNode(w1, r) THEN onResourceUse(w1, r) ELSE startNewCommands(w1, r)

(* Commands outside a render pass precede the pass of their node, so a pass  *)
(* that has started must be closed by a new node.                            *)
recordCommands(w, r) ==
    LET w1 == updateCurrentAccessNodes(w, r)
    IN  IF ~hasChildlessWritingNode(w1, r) \/ hasStartedRenderPass(w1, r)
        THEN startNewCommands(w1, r)
        ELSE onResourceUse(w1, r)

OpenPass(w, n) ==
    [w EXCEPT !.nodes[n].inside = TRUE,
              !.failed = IF w.nodes[n].inside THEN @ \cup {"pass has an owner"} ELSE @]

beginRenderPass(w, r) ==
    LET w1 == IF hasChildlessWritingNode(w, r) THEN w ELSE startNewCommands(w, r)
    IN  OpenPass(w1, w1.res[r].writer)

----------------------------------------------------------------------------
(* The graph *)

(* allocateBarrierNode with setNewBarrier: everything between the last       *)
(* barrier and the new one comes after the one and before the other.         *)
allocateBarrierNode(w) ==
    LET w1   == allocateNode(w)
        new  == Len(w1.nodes)
        last == w1.barrier
        w2   == IF last = NoNode THEN w1
                ELSE FoldLeft(LAMBDA v, n : SetHappensBefore(v, <<last>>, n), w1,
                              [i \in 1 .. new - last - 1 |-> last + i])
        w3   == FoldLeft(LAMBDA v, n : IF v.nodes[n].hasChildren THEN v
                                       ELSE SetHappensBefore(v, <<n>>, new),
                         w2, [i \in 1 .. new - Max({last, 1}) |-> Max({last, 1}) + i - 1])
    IN  [w3 EXCEPT !.barrier = new]

(* submitCommands, first half: the last barrier precedes what follows it. *)
CloseGraph(w) ==
    IF w.barrier = NoNode THEN w
    ELSE FoldLeft(LAMBDA v, n : SetHappensBefore(v, <<w.barrier>>, n), w,
                  [i \in 1 .. Len(w.nodes) - w.barrier |-> w.barrier + i])

(* submitCommands, second half: a depth-first walk from the nodes without    *)
(* children.  A node is executed when the walk finds it for the second time, *)
(* after its parents.                                                        *)
ExecutionOrder(nodes) ==
    LET Walk == [stack : Seq(Nat), ready : SUBSET Nat, done : Seq(Nat)]
        walk[s \in Walk] ==
            IF s.stack = <<>> THEN s.done
            ELSE LET n == Last(s.stack)
                 IN  IF n \in Range(s.done) THEN walk[[s EXCEPT !.stack = Front(@)]]
                     ELSE IF n \in s.ready
                     THEN walk[[s EXCEPT !.stack = Front(@), !.done = Append(@, n)]]
                     ELSE walk[[s EXCEPT !.stack = @ \o nodes[n].parents,
                                         !.ready = @ \cup {n}]]
    IN  FoldLeft(LAMBDA done, n : IF nodes[n].hasChildren \/ n \in Range(done) THEN done
                                  ELSE walk[[stack |-> <<n>>, ready |-> {}, done |-> done]],
                 <<>>, Indices(nodes))

(* What a submission leaves: serials for everything used, an empty graph,    *)
(* and resources whose pointers refer to it.                                 *)
submitCommands(w, serial) ==
    [w EXCEPT !.nodes = <<>>, !.barrier = NoNode, !.uses = {}, !.trace = <<>>,
              !.serial = [u \in DOMAIN @ |-> IF u \in w.uses THEN serial ELSE @[u]],
              !.res = [r \in DOMAIN @ |->
                         [@[r] EXCEPT !.writer = IF @ = NoNode THEN NoNode ELSE Dangling,
                                      !.readers = IF @ = <<>> THEN @ ELSE <<Dangling>>]]]

(* History: a command of node n.  Within a node, what is outside the render  *)
(* pass comes first, then the pass loads its attachments, draws, and stores. *)
(* A command that repeats the last one adds nothing.                         *)
Outside == 0
LoadOp == 1
Inside == 2
StoreOp == 3
Barrier == 4    \* the node is a barrier
Record(w, n, phase, reads, writes) ==
    LET c == [node |-> n, phase |-> phase, reads |-> reads, writes |-> writes]
    IN  IF w.trace # <<>> /\ Last(w.trace) = c THEN w ELSE [w EXCEPT !.trace = Append(@, c)]
=============================================================================
