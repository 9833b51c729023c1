------------------------- MODULE CommandQueueProofs -------------------------
(***************************************************************************)
(* What holds of CommandQueue for any number of threads, contexts and      *)
(* resources.                                                              *)
(***************************************************************************)
EXTENDS CommandQueue, TLAPS, SequenceTheorems, WellFoundedInduction

-----------------------------------------------------------------------------
(* Lemmas about the helpers. *)

\* A nonempty set of natural numbers has a least element.
LEMMA LeastNat ==
    ASSUME NEW S, S \subseteq Nat, S # {}
    PROVE  \E n \in S : \A m \in S : n <= m
<1>1. \E x \in S : \A y \in S : ~ (<<y, x>> \in OpToRel(<, Nat))
  BY NatLessThanWellFounded, WFMin
<1>2. PICK x \in S : \A y \in S : ~ (<<y, x>> \in OpToRel(<, Nat))
  BY <1>1
<1>3. \A y \in S : ~(y < x)
  BY <1>2 DEF OpToRel
<1>4. ASSUME NEW y \in S PROVE x <= y
  <2>1. x \in Nat /\ y \in Nat
    OBVIOUS
  <2>2. ~(y < x)
    BY <1>3
  <2> QED
    BY <2>1, <2>2
<1> QED
  BY <1>4

\* PopUpTo (the loop of onCommandBufferCompleted) drops a prefix of the queue
\* whose entries are all at most s; the next entry is larger.
LEMMA PopUpToSuffix ==
    ASSUME NEW q \in Seq(Nat), NEW s \in Nat
    PROVE  \E n \in 0..Len(q) :
              /\ PopUpTo(q, s) = SubSeq(q, n + 1, Len(q))
              /\ \A i \in 1..n : q[i] <= s
              /\ n = Len(q) \/ q[n + 1] > s
<1> DEFINE P(n) == (\A i \in 1..n : q[i] <= s) /\ (n = Len(q) \/ q[n + 1] > s)
           D == {i \in 1..Len(q) : q[i] > s}
<1>1. \E n \in 0..Len(q) : P(n)
  <2>1. CASE D = {}
    <3>1. Len(q) \in Nat /\ \A i \in 1..Len(q) : q[i] \in Nat
      BY LenProperties, ElementOfSeq
    <3>2. \A i \in 1..Len(q) : ~(q[i] > s)
      BY <2>1
    <3>3. Len(q) \in 0..Len(q) /\ P(Len(q))
      BY <3>1, <3>2
    <3> QED
      BY <3>3
  <2>2. CASE D # {}
    <3>0. D \subseteq Nat
      OBVIOUS
    <3>1. PICK i \in D : \A j \in D : i <= j
      <4> HIDE DEF D
      <4> QED
        BY <2>2, <3>0, LeastNat
    <3>2. i - 1 \in 0..Len(q) /\ P(i - 1)
      BY <3>1
    <3> QED
      BY <3>2
  <2> QED
    BY <2>1, <2>2
<1> DEFINE n == CHOOSE n \in 0..Len(q) : P(n)
<1>2. n \in 0..Len(q) /\ P(n)
  BY <1>1
<1>3. PopUpTo(q, s) = SubSeq(q, n + 1, Len(q))
  BY DEF PopUpTo
<1> QED
  BY <1>2, <1>3

\* PopUpTo gives a queue, all of whose entries were in q, and drops only
\* entries that are at most s.
LEMMA PopUpToEntries ==
    ASSUME NEW q \in Seq(Nat), NEW s \in Nat
    PROVE  /\ PopUpTo(q, s) \in Seq(Nat)
           /\ Entries(PopUpTo(q, s)) \subseteq Entries(q)
           /\ \A e \in Entries(q) : e > s => e \in Entries(PopUpTo(q, s))
<1>1. PICK n \in 0..Len(q) :
         /\ PopUpTo(q, s) = SubSeq(q, n + 1, Len(q))
         /\ \A i \in 1..n : q[i] <= s
  BY PopUpToSuffix
<1> DEFINE p == SubSeq(q, n + 1, Len(q))
<1>2. /\ p \in Seq(Nat)
      /\ Len(p) = Len(q) - n
      /\ \A i \in 1..(Len(q) - n) : p[i] = q[n + i]
  BY SubSeqProperties
<1>3. Entries(p) \subseteq Entries(q)
  BY <1>2, SMTT(40) DEF Entries
<1>4. ASSUME NEW e \in Entries(q), e > s
      PROVE  e \in Entries(p)
  <2>1. PICK i \in 1..Len(q) : e = q[i]
    BY DEF Entries
  <2>2. i > n
    BY <1>1, <1>4, <2>1
  <2>3. i - n \in 1..Len(p) /\ p[i - n] = e
    BY <1>2, <2>1, <2>2
  <2> QED
    BY <2>3 DEF Entries
<1> QED
  BY <1>1, <1>2, <1>3, <1>4

LEMMA EntriesTail ==
    ASSUME NEW q \in Seq(Nat), q # <<>>
    PROVE  /\ Tail(q) \in Seq(Nat) /\ Head(q) \in Nat
           /\ Entries(q) = Entries(Tail(q)) \cup {Head(q)}
<1>1. /\ Len(q) > 0 /\ Tail(q) \in Seq(Nat) /\ Head(q) = q[1] /\ Head(q) \in Nat
      /\ Len(Tail(q)) = Len(q) - 1
      /\ \A i \in 1..(Len(q) - 1) : Tail(q)[i] = q[i + 1]
  BY HeadTailProperties
<1>2. Entries(q) \subseteq Entries(Tail(q)) \cup {Head(q)}
  <2> SUFFICES ASSUME NEW i \in 1..Len(q), i # 1
               PROVE  q[i] \in Entries(Tail(q))
    BY <1>1 DEF Entries
  <2>1. i - 1 \in 1..Len(Tail(q)) /\ Tail(q)[i - 1] = q[i]
    BY <1>1
  <2> QED
    BY <2>1 DEF Entries
<1>3. Entries(Tail(q)) \cup {Head(q)} \subseteq Entries(q)
  BY <1>1 DEF Entries
<1> QED
  BY <1>1, <1>2, <1>3

LEMMA EntriesAppend ==
    ASSUME NEW q \in Seq(Nat), NEW e \in Nat
    PROVE  /\ Append(q, e) \in Seq(Nat)
           /\ Entries(Append(q, e)) = Entries(q) \cup {e}
<1>1. /\ Append(q, e) \in Seq(Nat)
      /\ Len(Append(q, e)) = Len(q) + 1
      /\ \A i \in 1..Len(q) : Append(q, e)[i] = q[i]
      /\ Append(q, e)[Len(q) + 1] = e
  BY AppendProperties
<1> QED
  BY <1>1 DEF Entries

LEMMA EntriesConcat ==
    ASSUME NEW p \in Seq(Nat), NEW q \in Seq(Nat)
    PROVE  /\ p \o q \in Seq(Nat)
           /\ Entries(p \o q) = Entries(p) \cup Entries(q)
<1>1. /\ p \o q \in Seq(Nat)
      /\ Len(p \o q) = Len(p) + Len(q)
      /\ \A i \in 1..(Len(p) + Len(q)) :
           (p \o q)[i] = IF i <= Len(p) THEN p[i] ELSE q[i - Len(p)]
  BY ConcatProperties
<1>2. Entries(p \o q) \subseteq Entries(p) \cup Entries(q)
  BY <1>1 DEF Entries
<1>3. Entries(p) \subseteq Entries(p \o q)
  BY <1>1 DEF Entries
<1>4. Entries(q) \subseteq Entries(p \o q)
  <2> SUFFICES ASSUME NEW i \in 1..Len(q)
               PROVE  q[i] \in Entries(p \o q)
    BY DEF Entries
  <2>1. Len(p) + i \in 1..Len(p \o q) /\ (p \o q)[Len(p) + i] = q[i]
    BY <1>1
  <2> QED
    BY <2>1 DEF Entries
<1> QED
  BY <1>1, <1>2, <1>3, <1>4

-----------------------------------------------------------------------------
(* Type correctness. *)

LEMMA GotoType ==
    ASSUME TypeOK, NEW t \in Threads, NEW next \in PCs, Goto(t, next)
    PROVE  /\ op' \in [Threads -> Ops] /\ pc' \in [Threads -> PCs]
           /\ res' \in [Threads -> Resources]
BY ResourcesAssumption DEF Goto, TypeOK, Ops, IdleResource

LEMMA BeginType ==
    ASSUME TypeOK, NEW t \in Threads, NEW o \in Ops, NEW r \in Resources,
           NEW next \in PCs, Begin(t, o, r, next)
    PROVE  /\ op' \in [Threads -> Ops] /\ pc' \in [Threads -> PCs]
           /\ res' \in [Threads -> Resources]
           /\ UNCHANGED <<current, waitOn>>
BY DEF Begin, TypeOK

LEMMA AfterFlushType == ASSUME NEW o PROVE AfterFlush(o) \in PCs
BY DEF AfterFlush, PCs

LEMMA TypeInit == Init => TypeOK
BY ResourcesAssumption
   DEF Init, TypeOK, Ops, PCs, NoBuffer, IdleResource

LEMMA TypeCall ==
    ASSUME TypeOK, NEW t \in Threads, Call(t)
    PROVE  TypeOK'
<1> USE DEF queueVars, bufferVars, threadVars, metalVars
<1> res[t] \in Resources
  BY DEF TypeOK
<1>1. ASSUME NEW c \in Contexts, Bind(t, c) PROVE TypeOK'
  BY <1>1 DEF Bind, TypeOK
<1>2. ASSUME NEW r \in Resources, Encode(t, r) PROVE TypeOK'
  <2>1. current[t] \in Contexts
    BY <1>2 DEF Encode, TypeOK
  <2>2. /\ counter' \in Nat
        /\ cb' \in [Contexts -> [serial : Nat, committed : BOOLEAN]]
        /\ queue' \in Seq(Nat) /\ gpuQueue' \in Seq(Nat)
    <3>1. CASE Valid(current[t])
      BY <1>2, <3>1 DEF Encode, EnsureCommandBufferValid, TypeOK
    <3>2. CASE ~Valid(current[t])
      <4>1. MakeMetalCommandBuffer(current[t])
        BY <1>2, <3>2 DEF Encode, EnsureCommandBufferValid
      <4>2. queue' \in Seq(Nat) /\ gpuQueue' \in Seq(Nat)
        BY <4>1, EntriesAppend DEF MakeMetalCommandBuffer, TypeOK
      <4>3. counter' \in Nat /\ cb' \in [Contexts -> [serial : Nat, committed : BOOLEAN]]
        BY <4>1, <2>1 DEF MakeMetalCommandBuffer, TypeOK
      <4> QED
        BY <4>2, <4>3
    <3> QED
      BY <3>1, <3>2
  <2>3. PICK s \in Nat : SetUsedBy(s, r)
    BY <1>2, <2>1 DEF Encode, TypeOK
  <2>4. resSerial' \in [Resources -> Nat] /\ uses' \subseteq Nat \X Resources
    BY <2>3 DEF SetUsedBy, Larger, TypeOK
  <2> QED
    BY <1>2, <2>2, <2>4 DEF Encode, TypeOK
<1>3. ASSUME NEW r \in Resources, ResetResource(t, r) PROVE TypeOK'
  BY <1>3 DEF ResetResource, TypeOK
<1>4. ASSUME NEW r \in Resources, Map(t, r) PROVE TypeOK'
  <2>1. (IF IsResourceBeingUsedByGPU(r)
         THEN FlushFirst(current[t], "ensure") ELSE "ensure") \in PCs
    BY DEF FlushFirst, PCs
  <2> QED
    BY <1>4, <2>1, BeginType DEF Map, TypeOK, Ops
<1>5. ASSUME NEW r \in Resources, IsResultAvailable(t, r) PROVE TypeOK'
  <2>1. (IF ResourceHasPendingWorks(r)
         THEN FlushFirst(current[t], "answer") ELSE "answer") \in PCs
    BY DEF FlushFirst, PCs
  <2> QED
    BY <1>5, <2>1, BeginType DEF IsResultAvailable, TypeOK, Ops
<1>6. ASSUME Flush(t) PROVE TypeOK'
  BY <1>6, BeginType DEF Flush, TypeOK, Ops, PCs
<1>7. ASSUME Finish(t) PROVE TypeOK'
  BY <1>7, BeginType DEF Finish, FlushFirst, TypeOK, Ops, PCs
<1>8. ASSUME Release(t) PROVE TypeOK'
  BY <1>8, BeginType DEF Release, TypeOK, Ops, PCs
<1>9. ASSUME Destroy(t) PROVE TypeOK'
  BY <1>9, BeginType DEF Destroy, FlushFirst, TypeOK, Ops, PCs
<1>10. ASSUME Terminate(t) PROVE TypeOK'
  <2>1. tmp' \in Seq(Nat) /\ queue' \in Seq(Nat)
    BY <1>10, EntriesConcat DEF Terminate, TypeOK
  <2> QED
    BY <1>10, <2>1, BeginType DEF Terminate, TypeOK, Ops, PCs
<1> QED
  BY <1>1, <1>2, <1>3, <1>4, <1>5, <1>6, <1>7, <1>8, <1>9, <1>10 DEF Call

LEMMA TypeProceed ==
    ASSUME TypeOK, BuffersAccounted, NEW t \in Threads, Proceed(t)
    PROVE  TypeOK'
<1> USE DEF queueVars, bufferVars, threadVars, metalVars
<1>1. ASSUME NotifyCommitted(t) PROVE TypeOK'
  <2>1. committedSerial' \in Nat
    BY <1>1 DEF NotifyCommitted, Larger, TypeOK
  <2> QED
    BY <1>1, <2>1, GotoType DEF NotifyCommitted, TypeOK, PCs
<1>2. ASSUME Commit(t) PROVE TypeOK'
  <2>1. hwCommitted' \subseteq Nat
    BY <1>2 DEF Commit, TypeOK, BuffersAccounted
  <2> QED
    BY <1>2, <2>1, GotoType, AfterFlushType, ZenonT(60) DEF Commit, TypeOK
<1>3. ASSUME FinishWait(t) PROVE TypeOK'
  <2>1. cb' \in [Contexts -> [serial : Nat, committed : BOOLEAN]]
    <3>1. NoBuffer \in [serial : Nat, committed : BOOLEAN]
      BY DEF NoBuffer
    <3>2. cb' = [cb EXCEPT ![current[t]] = NoBuffer] \/ cb' = cb
      BY <1>3 DEF FinishWait
    <3> QED
      BY <3>1, <3>2 DEF TypeOK
  <2>2. current' \in [Threads -> Contexts \cup {NoContext}]
    BY <1>3 DEF FinishWait, TypeOK
  <2> QED
    BY <1>3, <2>1, <2>2, GotoType DEF FinishWait, TypeOK, PCs
<1>4. ASSUME EnsureReady(t) PROVE TypeOK'
  <2>1. queue' \in Seq(Nat) /\ waitOn' \in [Threads -> Nat]
    BY <1>4, EntriesTail DEF EnsureReady, TypeOK
  <2> QED
    BY <1>4, <2>1, GotoType DEF EnsureReady, TypeOK, PCs
<1>5. ASSUME EnsureWait(t) PROVE TypeOK'
  BY <1>5, GotoType DEF EnsureWait, TypeOK, PCs
<1>6. ASSUME Return(t) PROVE TypeOK'
  BY <1>6, GotoType DEF Return, TypeOK, PCs
<1>7. ASSUME FinishAllCommands(t) PROVE TypeOK'
  BY <1>7, GotoType, SMTT(40) DEF FinishAllCommands, TypeOK, PCs
<1> QED
  BY <1>1, <1>2, <1>3, <1>4, <1>5, <1>6, <1>7 DEF Proceed

LEMMA TypeMetal ==
    ASSUME TypeOK, Metal
    PROVE  TypeOK'
<1> USE DEF queueVars, bufferVars, threadVars, metalVars
<1>1. ASSUME Execute PROVE TypeOK'
  BY <1>1, EntriesTail DEF Execute, TypeOK
<1>2. ASSUME NEW s \in Serials, OnCommandBufferCompleted(s) PROVE TypeOK'
  <2>1. s \in Nat
    BY MaxSerialAssumption DEF Serials
  <2>2. queue' \in Seq(Nat) /\ completedSerial' \in Nat
    BY <1>2, <2>1, PopUpToEntries DEF OnCommandBufferCompleted, Larger, TypeOK
  <2> QED
    BY <1>2, <2>1, <2>2 DEF OnCommandBufferCompleted, TypeOK
<1> QED
  BY <1>1, <1>2 DEF Metal

LEMMA TypeNext == TypeOK /\ BuffersAccounted /\ [Next]_vars => TypeOK'
<1> SUFFICES ASSUME TypeOK, BuffersAccounted, [Next]_vars PROVE TypeOK'
  OBVIOUS
<1>1. CASE UNCHANGED vars
  BY <1>1 DEF vars, queueVars, bufferVars, threadVars, metalVars, TypeOK
<1>2. CASE Next
  BY <1>2, TypeCall, TypeProceed, TypeMetal DEF Next
<1> QED
  BY <1>1, <1>2

-----------------------------------------------------------------------------
(* The GPU executes in serial order. *)

\* What a step does to the serials and to the GPU's queue.
LEMMA GpuStep ==
    ASSUME TypeOK, [Next]_vars
    PROVE  \/ UNCHANGED <<counter, gpuQueue, executed>>
           \/ \E c \in Contexts : MakeMetalCommandBuffer(c) /\ UNCHANGED executed
           \/ Execute /\ UNCHANGED counter
<1> USE DEF queueVars, bufferVars, threadVars, metalVars
<1>1. CASE UNCHANGED vars
  BY <1>1 DEF vars
<1>2. ASSUME NEW t \in Threads, Call(t)
      PROVE  \/ UNCHANGED <<counter, gpuQueue, executed>>
             \/ \E c \in Contexts : MakeMetalCommandBuffer(c) /\ UNCHANGED executed
  <2>1. ASSUME NEW r \in Resources, Encode(t, r)
        PROVE  \/ UNCHANGED <<counter, gpuQueue, executed>>
               \/ \E c \in Contexts : MakeMetalCommandBuffer(c) /\ UNCHANGED executed
    BY <2>1 DEF Encode, EnsureCommandBufferValid, TypeOK
  <2> QED
    BY <1>2, <2>1 DEF Call, Bind, ResetResource, Map, IsResultAvailable, Flush, Finish,
                      Release, Destroy, Terminate
<1>3. ASSUME NEW t \in Threads, Proceed(t)
      PROVE  UNCHANGED <<counter, gpuQueue, executed>>
  BY <1>3 DEF Proceed, NotifyCommitted, Commit, FinishWait, EnsureReady, EnsureWait,
              Return, FinishAllCommands
<1>4. ASSUME NEW s \in Serials, OnCommandBufferCompleted(s)
      PROVE  UNCHANGED <<counter, gpuQueue, executed>>
  BY <1>4 DEF OnCommandBufferCompleted
<1>5. ASSUME Execute PROVE UNCHANGED counter
  BY <1>5 DEF Execute
<1> QED
  BY <1>1, <1>2, <1>3, <1>4, <1>5 DEF Next, Metal

LEMMA GpuInOrderNext ==
    ASSUME TypeOK, GpuInOrder, [Next]_vars
    PROVE  GpuInOrder'
<1>1. CASE UNCHANGED <<counter, gpuQueue, executed>>
  BY <1>1 DEF GpuInOrder
<1>2. ASSUME NEW c \in Contexts, MakeMetalCommandBuffer(c), UNCHANGED executed
      PROVE  GpuInOrder'
  <2>1. /\ Len(gpuQueue') = Len(gpuQueue) + 1 /\ counter' = counter + 1
        /\ \A i \in 1..Len(gpuQueue) : gpuQueue'[i] = gpuQueue[i]
        /\ gpuQueue'[Len(gpuQueue) + 1] = counter
    BY <1>2, AppendProperties DEF MakeMetalCommandBuffer, TypeOK
  <2>2. Len(gpuQueue) \in Nat /\ counter \in Nat
    BY DEF TypeOK
  <2> QED
    BY <1>2, <2>1, <2>2 DEF GpuInOrder
<1>3. ASSUME Execute, UNCHANGED counter
      PROVE  GpuInOrder'
  <2> DEFINE n == counter - 1 - Len(gpuQueue)
  <2>1. /\ gpuQueue # <<>> /\ gpuQueue \in Seq(Nat)
        /\ gpuQueue' = Tail(gpuQueue) /\ executed' = executed \cup {Head(gpuQueue)}
    BY <1>3 DEF Execute, TypeOK
  <2>2. /\ Len(gpuQueue) \in Nat \ {0} /\ counter \in Nat
        /\ Len(gpuQueue') = Len(gpuQueue) - 1
        /\ Head(gpuQueue) = gpuQueue[1]
        /\ \A i \in 1..(Len(gpuQueue) - 1) : gpuQueue'[i] = gpuQueue[i + 1]
    BY <2>1, HeadTailProperties DEF TypeOK
  <2>3. n >= 0 /\ executed = 1..n /\ \A i \in 1..Len(gpuQueue) : gpuQueue[i] = n + i
    BY DEF GpuInOrder
  <2>4. executed' = 1..(n + 1)
    BY <2>1, <2>2, <2>3
  <2>5. counter' - 1 - Len(gpuQueue') = n + 1
    BY <1>3, <2>2
  <2>6. \A i \in 1..Len(gpuQueue') : gpuQueue'[i] = (n + 1) + i
    BY <2>2, <2>3
  <2> HIDE DEF n
  <2>7. n + 1 >= 0
    BY <2>2, <2>3 DEF n
  <2> QED
    BY <2>4, <2>5, <2>6, <2>7 DEF GpuInOrder
<1> QED
  BY <1>1, <1>2, <1>3, GpuStep

-----------------------------------------------------------------------------
(* The completed serial. *)

LEMMA HandledStep ==
    ASSUME TypeOK, [Next]_vars
    PROVE  \/ UNCHANGED <<handled, completedSerial>> /\ executed \subseteq executed'
           \/ \E s \in Serials : OnCommandBufferCompleted(s)
<1> USE DEF queueVars, bufferVars, threadVars, metalVars
<1>1. CASE UNCHANGED vars
  BY <1>1 DEF vars
<1>2. ASSUME NEW t \in Threads, Call(t)
      PROVE  UNCHANGED <<handled, completedSerial, executed>>
  BY <1>2 DEF Call, Encode, Bind, ResetResource, Map, IsResultAvailable, Flush, Finish,
              Release, Destroy, Terminate
<1>3. ASSUME NEW t \in Threads, Proceed(t)
      PROVE  UNCHANGED <<handled, completedSerial, executed>>
  BY <1>3 DEF Proceed, NotifyCommitted, Commit, FinishWait, EnsureReady, EnsureWait,
              Return, FinishAllCommands
<1>4. ASSUME Execute
      PROVE  UNCHANGED <<handled, completedSerial>> /\ executed \subseteq executed'
  BY <1>4 DEF Execute
<1> QED
  BY <1>1, <1>2, <1>3, <1>4 DEF Next, Metal

LEMMA HandledNext ==
    ASSUME TypeOK, HandledAcknowledged, [Next]_vars
    PROVE  HandledAcknowledged'
<1>1. CASE UNCHANGED <<handled, completedSerial>> /\ executed \subseteq executed'
  BY <1>1 DEF HandledAcknowledged
<1>2. ASSUME NEW s \in Serials, OnCommandBufferCompleted(s)
      PROVE  HandledAcknowledged'
  <2>1. s \in Nat /\ handled \subseteq Nat /\ completedSerial \in Nat
    BY MaxSerialAssumption DEF Serials, TypeOK
  <2>2. CASE completedSerial >= s
    BY <1>2, <2>1, <2>2 DEF OnCommandBufferCompleted, HandledAcknowledged
  <2>3. CASE ~(completedSerial >= s)
    <3>1. completedSerial' = s
      BY <1>2, <2>1, <2>3 DEF OnCommandBufferCompleted, Larger
    <3>2. handled' = handled \cup {s} /\ s \in executed /\ executed' = executed
      BY <1>2 DEF OnCommandBufferCompleted
    <3>3. \A h \in handled' : h <= s
      BY <2>1, <2>3, <3>2 DEF HandledAcknowledged
    <3> QED
      BY <3>1, <3>2, <3>3 DEF HandledAcknowledged
  <2> QED
    BY <2>2, <2>3
<1> QED
  BY <1>1, <1>2, HandledStep
-----------------------------------------------------------------------------
(* No entry is lost. *)

\* A step that leaves the queue alone and ends no wait loses no entry.
LEMMA NoEntryLostFrame ==
    ASSUME TypeOK, NoEntryLost,
           UNCHANGED <<queue, tmp, counter, completedSerial, waitOn>>,
           \A u \in Threads : pc[u] = "wait" => pc'[u] = "wait"
    PROVE  NoEntryLost'
BY DEF NoEntryLost

LEMMA NoEntryLostCall ==
    ASSUME TypeOK, NoEntryLost, NEW t \in Threads, Call(t)
    PROVE  NoEntryLost'
<1> USE DEF queueVars, bufferVars, threadVars, metalVars
<1>1. ASSUME NEW r \in Resources, Encode(t, r) PROVE NoEntryLost'
  <2>1. CASE Valid(current[t])
    <3>1. UNCHANGED <<queue, tmp, counter, completedSerial, waitOn, pc>>
      BY <1>1, <2>1 DEF Encode, EnsureCommandBufferValid
    <3> QED
      BY <3>1, NoEntryLostFrame
  <2>2. CASE ~Valid(current[t])
    <3>1. /\ Entries(queue') = Entries(queue) \cup {counter} /\ counter' = counter + 1
          /\ UNCHANGED <<tmp, completedSerial, waitOn, pc>>
          /\ counter \in Nat /\ completedSerial \in Nat
      BY <1>1, <2>2, EntriesAppend
         DEF Encode, EnsureCommandBufferValid, MakeMetalCommandBuffer, TypeOK
    <3> SUFFICES ASSUME NEW s \in (completedSerial + 1)..counter
                 PROVE  \/ s \in Entries(queue') \cup Entries(tmp)
                        \/ \E u \in Threads : pc[u] = "wait" /\ waitOn[u] = s
      BY <3>1 DEF NoEntryLost
    <3>2. CASE s = counter
      BY <3>1, <3>2
    <3>3. CASE s # counter
      <4>1. s \in (completedSerial + 1)..(counter - 1)
        BY <3>1, <3>3
      <4> QED
        BY <3>1, <4>1 DEF NoEntryLost
    <3> QED
      BY <3>2, <3>3
  <2> QED
    BY <2>1, <2>2
<1>2. ASSUME Terminate(t) PROVE NoEntryLost'
  <2>1. queue' = <<>> /\ tmp' = tmp \o queue /\ UNCHANGED <<counter, completedSerial, waitOn>>
    BY <1>2 DEF Terminate, Begin
  <2>2. Entries(queue') \cup Entries(tmp') = Entries(queue) \cup Entries(tmp)
    <3>1. Entries(tmp') = Entries(tmp) \cup Entries(queue)
      BY <2>1, EntriesConcat DEF TypeOK
    <3>2. Entries(queue') = {}
      BY <2>1 DEF Entries
    <3> QED
      BY <3>1, <3>2
  <2>3. \A u \in Threads : pc[u] # "wait"
    BY <1>2 DEF Terminate
  <2> QED
    BY <2>1, <2>2, <2>3 DEF NoEntryLost
<1>3. ASSUME ~Terminate(t), \A r \in Resources : ~Encode(t, r) PROVE NoEntryLost'
  <2>1. UNCHANGED <<queue, tmp, counter, completedSerial, waitOn>>
    BY <1>3 DEF Call, Bind, ResetResource, Map, IsResultAvailable, Flush, Finish,
                Release, Destroy, Begin
  <2>2. \A u \in Threads : pc[u] = "wait" => pc'[u] = "wait"
    BY <1>3 DEF Call, Bind, ResetResource, Map, IsResultAvailable, Flush, Finish,
                Release, Destroy, Begin, CanEnter, TypeOK
  <2> QED
    BY <2>1, <2>2, NoEntryLostFrame
<1> QED
  BY <1>1, <1>2, <1>3

LEMMA NoEntryLostProceed ==
    ASSUME TypeOK, HandledAcknowledged, NoEntryLost, NEW t \in Threads, Proceed(t)
    PROVE  NoEntryLost'
<1> USE DEF queueVars, bufferVars, threadVars, metalVars
<1>1. ASSUME EnsureReady(t) PROVE NoEntryLost'
  <2>1. CASE IsResourceBeingUsedByGPU(res[t]) /\ queue # <<>>
    <3>1. /\ queue' = Tail(queue) /\ UNCHANGED <<tmp, counter, completedSerial>>
          /\ waitOn' = [waitOn EXCEPT ![t] = Head(queue)]
          /\ pc' = [pc EXCEPT ![t] = "wait"] /\ pc[t] = "ensure"
      BY <1>1, <2>1 DEF EnsureReady, Goto
    <3>2. Entries(queue) = Entries(queue') \cup {Head(queue)}
      BY <2>1, <3>1, EntriesTail DEF TypeOK
    <3>3. pc'[t] = "wait" /\ waitOn'[t] = Head(queue)
      BY <3>1 DEF TypeOK
    <3>4. \A u \in Threads : pc[u] = "wait" => pc'[u] = "wait" /\ waitOn'[u] = waitOn[u]
      BY <3>1 DEF TypeOK
    <3> QED
      BY <3>1, <3>2, <3>3, <3>4 DEF NoEntryLost
  <2>2. CASE ~(IsResourceBeingUsedByGPU(res[t]) /\ queue # <<>>)
    <3>1. UNCHANGED <<queue, tmp, counter, completedSerial, waitOn>>
      BY <1>1, <2>2 DEF EnsureReady
    <3>2. \A u \in Threads : pc[u] = "wait" => pc'[u] = "wait"
      BY <1>1, <2>2 DEF EnsureReady, Goto, TypeOK
    <3> QED
      BY <3>1, <3>2, NoEntryLostFrame
  <2> QED
    BY <2>1, <2>2
<1>2. ASSUME EnsureWait(t) PROVE NoEntryLost'
  <2>1. UNCHANGED <<queue, tmp, counter, completedSerial>>
    BY <1>2 DEF EnsureWait
  <2>2. waitOn[t] <= completedSerial
    BY <1>2 DEF EnsureWait, HandledAcknowledged
  <2>3. \A u \in Threads \ {t} : pc'[u] = pc[u] /\ waitOn'[u] = waitOn[u]
    BY <1>2 DEF EnsureWait, Goto, TypeOK
  <2>4. completedSerial \in Nat /\ waitOn[t] \in Nat
    BY DEF TypeOK
  <2> QED
    BY <2>1, <2>2, <2>3, <2>4 DEF NoEntryLost
<1>3. ASSUME FinishAllCommands(t) PROVE NoEntryLost'
  <2>1. /\ Entries(tmp) \subseteq handled
        /\ UNCHANGED <<queue, counter, completedSerial, waitOn>>
    BY <1>3 DEF FinishAllCommands
  <2>2. \A u \in Threads : pc[u] = "wait" => pc'[u] = "wait"
    BY <1>3 DEF FinishAllCommands, Goto, TypeOK
  <2>3. \A s \in Entries(tmp) : s <= completedSerial
    BY <2>1 DEF HandledAcknowledged
  <2>4. completedSerial \in Nat
    BY DEF TypeOK
  <2> QED
    BY <2>1, <2>2, <2>3, <2>4 DEF NoEntryLost
<1>4. ASSUME NotifyCommitted(t) \/ Commit(t) \/ FinishWait(t) \/ Return(t)
      PROVE  NoEntryLost'
  <2>1. UNCHANGED <<queue, tmp, counter, completedSerial, waitOn>>
    BY <1>4 DEF NotifyCommitted, Commit, FinishWait, Return
  <2>2. pc[t] # "wait" /\ \A u \in Threads \ {t} : pc'[u] = pc[u]
    BY <1>4 DEF NotifyCommitted, Commit, FinishWait, Return, Goto, TypeOK
  <2> QED
    BY <2>1, <2>2, NoEntryLostFrame
<1> QED
  BY <1>1, <1>2, <1>3, <1>4 DEF Proceed

LEMMA NoEntryLostMetal ==
    ASSUME TypeOK, NoEntryLost, Metal
    PROVE  NoEntryLost'
<1> USE DEF queueVars, bufferVars, threadVars, metalVars
<1>1. CASE Execute
  BY <1>1, NoEntryLostFrame DEF Execute
<1>2. ASSUME NEW s \in Serials, OnCommandBufferCompleted(s) PROVE NoEntryLost'
  <2>1. s \in Nat /\ completedSerial \in Nat /\ counter \in Nat
    BY MaxSerialAssumption DEF Serials, TypeOK
  <2>2. UNCHANGED <<tmp, counter, waitOn, pc>>
    BY <1>2 DEF OnCommandBufferCompleted
  <2>3. CASE completedSerial >= s
    BY <1>2, <2>2, <2>3, NoEntryLostFrame DEF OnCommandBufferCompleted
  <2>4. CASE ~(completedSerial >= s)
    <3>1. completedSerial' = s /\ queue' = PopUpTo(queue, s)
      BY <1>2, <2>1, <2>4 DEF OnCommandBufferCompleted, Larger
    <3>2. \A e \in Entries(queue) : e > s => e \in Entries(queue')
      BY <2>1, <3>1, PopUpToEntries DEF TypeOK
    <3> SUFFICES ASSUME NEW e \in (s + 1)..(counter - 1)
                 PROVE  \/ e \in Entries(queue') \cup Entries(tmp)
                        \/ \E u \in Threads : pc[u] = "wait" /\ waitOn[u] = e
      BY <2>2, <3>1 DEF NoEntryLost
    <3>3. e \in (completedSerial + 1)..(counter - 1) /\ e > s
      BY <2>1, <2>4
    <3> QED
      BY <3>2, <3>3 DEF NoEntryLost
  <2> QED
    BY <2>3, <2>4
<1> QED
  BY <1>1, <1>2 DEF Metal

LEMMA NoEntryLostNext ==
    ASSUME TypeOK, HandledAcknowledged, NoEntryLost, [Next]_vars
    PROVE  NoEntryLost'
<1>1. CASE UNCHANGED vars
  BY <1>1, NoEntryLostFrame DEF vars, queueVars, threadVars
<1>2. CASE Next
  BY <1>2, NoEntryLostCall, NoEntryLostProceed, NoEntryLostMetal DEF Next
<1> QED
  BY <1>1, <1>2

-----------------------------------------------------------------------------
(* Every command buffer is accounted for. *)

\* A step that takes no serial, commits and executes nothing and moves no
\* thread to a flush keeps the account, if contexts are only released.
LEMMA AccountedFrame ==
    ASSUME TypeOK, BuffersAccounted,
           UNCHANGED <<counter, cb, hwCommitted, executed, current>>,
           \A u \in Threads : \/ pc'[u] \notin {"notify", "commit"}
                              \/ pc[u] \in {"notify", "commit"}
                              \/ current[u] # NoContext /\ Valid(current[u])
    PROVE  BuffersAccounted'
<1>1. \A u \in Threads : pc'[u] \in {"notify", "commit"} =>
                            current[u] # NoContext /\ cb[current[u]].serial > 0
  <2> SUFFICES ASSUME NEW u \in Threads, pc'[u] \in {"notify", "commit"}
               PROVE  current[u] # NoContext /\ cb[current[u]].serial > 0
    OBVIOUS
  <2>1. CASE pc[u] \in {"notify", "commit"}
    BY <2>1 DEF BuffersAccounted
  <2>2. CASE current[u] # NoContext /\ Valid(current[u])
    <3>1. current[u] \in Contexts /\ cb[current[u]].serial \in Nat
      BY <2>2 DEF TypeOK
    <3> QED
      BY <2>2, <3>1 DEF Valid
  <2> QED
    BY <2>1, <2>2
<1> QED
  BY <1>1 DEF BuffersAccounted

\* A call that begins moves its thread to a flush only if it has a buffer.
LEMMA AccountedBegin ==
    ASSUME TypeOK, BuffersAccounted, NEW t \in Threads, NEW o, NEW r, NEW next,
           Begin(t, o, r, next),
           next = "notify" => current[t] # NoContext /\ Valid(current[t]),
           next # "commit",
           UNCHANGED <<counter, cb, hwCommitted, executed>>
    PROVE  BuffersAccounted'
<1>1. UNCHANGED current
  BY DEF Begin
<1>2. \A u \in Threads : pc'[u] = IF u = t THEN next ELSE pc[u]
  BY DEF Begin, TypeOK
<1>3. \A u \in Threads : \/ pc'[u] \notin {"notify", "commit"}
                         \/ pc[u] \in {"notify", "commit"}
                         \/ current[u] # NoContext /\ Valid(current[u])
  BY <1>2
<1> QED
  BY <1>1, <1>3, AccountedFrame

LEMMA AccountedCall ==
    ASSUME TypeOK, BuffersAccounted, NEW t \in Threads, Call(t)
    PROVE  BuffersAccounted'
<1> USE DEF queueVars, bufferVars, threadVars, metalVars
<1>1. ASSUME NEW c \in Contexts, Bind(t, c) PROVE BuffersAccounted'
  <2>1. /\ UNCHANGED <<counter, cb, hwCommitted, executed, pc>>
        /\ current' = [current EXCEPT ![t] = c]
        /\ \A u \in Threads : current[u] # c
        /\ pc[t] = "idle"
    BY <1>1 DEF Bind, CanEnter
  <2>2. \A u \in Threads : current'[u] = IF u = t THEN c ELSE current[u]
    BY <2>1 DEF TypeOK
  <2>3. \A u, v \in Threads : current'[u] = current'[v] /\ current'[u] # NoContext => u = v
    BY <2>1, <2>2 DEF BuffersAccounted
  <2>4. \A u \in Threads : pc'[u] \in {"notify", "commit"} =>
                              current'[u] # NoContext /\ cb'[current'[u]].serial > 0
    BY <2>1, <2>2 DEF BuffersAccounted
  <2> QED
    BY <2>1, <2>3, <2>4 DEF BuffersAccounted
<1>2. ASSUME NEW r \in Resources, Encode(t, r) PROVE BuffersAccounted'
  <2>1. /\ UNCHANGED <<hwCommitted, executed, current, pc>>
        /\ current[t] \in Contexts /\ pc[t] = "idle"
    BY <1>2 DEF Encode, CanEnter, TypeOK
  <2>2. CASE Valid(current[t])
    <3>1. UNCHANGED <<counter, cb>>
      BY <1>2, <2>2 DEF Encode, EnsureCommandBufferValid
    <3> QED
      BY <2>1, <3>1 DEF BuffersAccounted
  <2>3. CASE ~Valid(current[t])
    <3>1. /\ counter' = counter + 1 /\ counter \in Nat
          /\ cb' = [cb EXCEPT ![current[t]] = [serial |-> counter, committed |-> FALSE]]
      BY <1>2, <2>3 DEF Encode, EnsureCommandBufferValid, MakeMetalCommandBuffer, TypeOK
    <3>2. \A c \in Contexts : /\ cb[c].serial \in Nat
                              /\ cb'[c].serial = IF c = current[t] THEN counter ELSE cb[c].serial
      BY <3>1 DEF TypeOK
    <3>3. \A c \in Contexts : cb'[c].serial < counter'
      BY <3>1, <3>2 DEF BuffersAccounted
    <3>4. executed' \subseteq hwCommitted' /\ hwCommitted' \subseteq 1..(counter' - 1)
      BY <2>1, <3>1 DEF BuffersAccounted
    <3>5. ASSUME NEW u \in Threads, pc'[u] \in {"notify", "commit"}
          PROVE  current'[u] # NoContext /\ cb'[current'[u]].serial > 0
      <4>1. u # t /\ current[u] # NoContext /\ cb[current[u]].serial > 0
        BY <2>1, <3>5 DEF BuffersAccounted
      <4>2. current[u] \in Contexts /\ current[u] # current[t]
        BY <2>1, <4>1 DEF BuffersAccounted, TypeOK
      <4> QED
        BY <2>1, <3>2, <4>1, <4>2
    <3> QED
      BY <2>1, <3>3, <3>4, <3>5 DEF BuffersAccounted
  <2> QED
    BY <2>2, <2>3
<1>3. ASSUME NEW r \in Resources, ResetResource(t, r) PROVE BuffersAccounted'
  BY <1>3 DEF ResetResource, BuffersAccounted
<1>4. ASSUME NEW r \in Resources, Map(t, r) PROVE BuffersAccounted'
  <2>1. PICK next : /\ Begin(t, "map", r, next) /\ next \in {"notify", "ensure"}
                    /\ next = "notify" => Valid(current[t])
    BY <1>4 DEF Map, FlushFirst
  <2> QED
    BY <1>4, <2>1, AccountedBegin DEF Map
<1>5. ASSUME NEW r \in Resources, IsResultAvailable(t, r) PROVE BuffersAccounted'
  <2>1. PICK next : /\ Begin(t, "query", r, next) /\ next \in {"notify", "answer"}
                    /\ next = "notify" => Valid(current[t])
    BY <1>5 DEF IsResultAvailable, FlushFirst
  <2> QED
    BY <1>5, <2>1, AccountedBegin DEF IsResultAvailable
<1>6. ASSUME Flush(t) PROVE BuffersAccounted'
  BY <1>6, AccountedBegin DEF Flush
<1>7. ASSUME Finish(t) PROVE BuffersAccounted'
  BY <1>7, AccountedBegin DEF Finish, FlushFirst
<1>8. ASSUME Release(t) PROVE BuffersAccounted'
  <2>1. CASE Valid(current[t])
    BY <1>8, <2>1, AccountedBegin DEF Release
  <2>2. CASE ~Valid(current[t])
    <3>1. /\ UNCHANGED <<counter, cb, hwCommitted, executed, pc>>
          /\ current' = [current EXCEPT ![t] = NoContext]
          /\ pc[t] = "idle"
      BY <1>8, <2>2 DEF Release, CanEnter
    <3>2. \A u \in Threads : current'[u] = IF u = t THEN NoContext ELSE current[u]
      BY <3>1 DEF TypeOK
    <3> QED
      BY <3>1, <3>2 DEF BuffersAccounted
  <2> QED
    BY <2>1, <2>2
<1>9. ASSUME Destroy(t) PROVE BuffersAccounted'
  BY <1>9, AccountedBegin DEF Destroy, FlushFirst
<1>10. ASSUME Terminate(t) PROVE BuffersAccounted'
  BY <1>10, AccountedBegin DEF Terminate
<1> QED
  BY <1>1, <1>2, <1>3, <1>4, <1>5, <1>6, <1>7, <1>8, <1>9, <1>10 DEF Call

LEMMA AccountedProceed ==
    ASSUME TypeOK, BuffersAccounted, NEW t \in Threads, Proceed(t)
    PROVE  BuffersAccounted'
<1> USE DEF queueVars, bufferVars, threadVars, metalVars
<1>1. ASSUME NotifyCommitted(t) PROVE BuffersAccounted'
  <2>1. \A u \in Threads : pc'[u] = pc[u] \/ pc[u] \in {"notify", "commit"}
    BY <1>1 DEF NotifyCommitted, Goto, TypeOK
  <2> QED
    BY <1>1, <2>1, AccountedFrame DEF NotifyCommitted
<1>2. ASSUME Commit(t) PROVE BuffersAccounted'
  <2>1. current[t] \in Contexts /\ cb[current[t]].serial > 0
    BY <1>2 DEF Commit, BuffersAccounted, TypeOK
  <2>2. /\ UNCHANGED <<counter, executed>> /\ counter \in Nat
        /\ hwCommitted' = hwCommitted \cup {cb[current[t]].serial}
        /\ \A c \in Contexts : cb'[c].serial = cb[c].serial /\ cb[c].serial \in Nat
        /\ \A u \in Threads \ {t} : current'[u] = current[u] /\ pc'[u] = pc[u]
        /\ current'[t] \in {current[t], NoContext}
        /\ pc'[t] \notin {"notify", "commit"}
    BY <1>2 DEF Commit, Goto, AfterFlush, TypeOK
  <2>3. hwCommitted' \subseteq 1..(counter' - 1)
    <3>1. cb[current[t]].serial \in Nat /\ cb[current[t]].serial < counter
      BY <2>1, <2>2 DEF BuffersAccounted
    <3>2. cb[current[t]].serial \in 1..(counter - 1)
      BY <2>1, <2>2, <3>1
    <3> QED
      BY <2>2, <3>2 DEF BuffersAccounted
  <2>4. \A u, v \in Threads : current'[u] = current'[v] /\ current'[u] # NoContext => u = v
    BY <2>2 DEF BuffersAccounted
  <2>5. ASSUME NEW u \in Threads, pc'[u] \in {"notify", "commit"}
        PROVE  current'[u] # NoContext /\ cb'[current'[u]].serial > 0
    <3>1. /\ u # t /\ current'[u] = current[u] /\ current[u] # NoContext
          /\ cb[current[u]].serial > 0
      BY <2>2, <2>5 DEF BuffersAccounted
    <3>2. current[u] \in Contexts
      BY <3>1 DEF TypeOK
    <3> QED
      BY <2>2, <3>1, <3>2
  <2> QED
    BY <2>2, <2>3, <2>4, <2>5 DEF BuffersAccounted
<1>3. ASSUME FinishWait(t) PROVE BuffersAccounted'
  <2>1. /\ UNCHANGED <<counter, hwCommitted, executed>>
        /\ pc' = [pc EXCEPT ![t] = "idle"]
    BY <1>3 DEF FinishWait, Goto
  <2>2. CASE op[t] = "destroy"
    <3>1. /\ cb' = [cb EXCEPT ![current[t]] = NoBuffer]
          /\ current' = [current EXCEPT ![t] = NoContext]
      BY <1>3, <2>2 DEF FinishWait
    <3>2. \A u \in Threads : /\ current'[u] = IF u = t THEN NoContext ELSE current[u]
                             /\ pc'[u] = IF u = t THEN "idle" ELSE pc[u]
      BY <2>1, <3>1 DEF TypeOK
    <3>3. \A c \in Contexts : cb'[c].serial = IF c = current[t] THEN 0 ELSE cb[c].serial
      BY <3>1 DEF TypeOK, NoBuffer
    <3>4. \A c \in Contexts : cb'[c].serial < counter'
      <4>1. \A c \in Contexts : cb[c].serial < counter /\ cb[c].serial \in Nat /\ counter \in Nat
        BY DEF BuffersAccounted, TypeOK
      <4> QED
        BY <2>1, <3>3, <4>1
    <3>5. \A u, v \in Threads : current'[u] = current'[v] /\ current'[u] # NoContext => u = v
      BY <3>2 DEF BuffersAccounted
    <3>6. ASSUME NEW u \in Threads, pc'[u] \in {"notify", "commit"}
          PROVE  current'[u] # NoContext /\ cb'[current'[u]].serial > 0
      <4>1. /\ u # t /\ current'[u] = current[u] /\ current[u] # NoContext
            /\ cb[current[u]].serial > 0
        BY <3>2, <3>6 DEF BuffersAccounted
      <4>2. current[u] # current[t] /\ current[u] \in Contexts
        BY <4>1 DEF BuffersAccounted, TypeOK
      <4> QED
        BY <3>3, <4>1, <4>2
    <3> QED
      BY <2>1, <3>4, <3>5, <3>6 DEF BuffersAccounted
  <2>3. CASE op[t] # "destroy"
    <3>1. UNCHANGED <<cb, current>>
      BY <1>3, <2>3 DEF FinishWait
    <3>2. \A u \in Threads : pc'[u] = "idle" \/ pc'[u] = pc[u]
      BY <2>1 DEF TypeOK
    <3> QED
      BY <2>1, <3>1, <3>2, AccountedFrame
  <2> QED
    BY <2>2, <2>3
<1>4. ASSUME EnsureReady(t) \/ EnsureWait(t) \/ Return(t) \/ FinishAllCommands(t)
      PROVE  BuffersAccounted'
  <2>1. UNCHANGED <<counter, cb, hwCommitted, executed, current>>
    BY <1>4 DEF EnsureReady, EnsureWait, Return, FinishAllCommands
  <2>2. \A u \in Threads : pc'[u] \in {"wait", "ready", "ensure", "idle"} \/ pc'[u] = pc[u]
    BY <1>4 DEF EnsureReady, EnsureWait, Return, FinishAllCommands, Goto, TypeOK
  <2> QED
    BY <2>1, <2>2, AccountedFrame
<1> QED
  BY <1>1, <1>2, <1>3, <1>4 DEF Proceed

LEMMA BuffersAccountedNext ==
    ASSUME TypeOK, BuffersAccounted, [Next]_vars
    PROVE  BuffersAccounted'
<1> USE DEF queueVars, bufferVars, threadVars, metalVars
<1>1. CASE UNCHANGED vars
  BY <1>1, AccountedFrame DEF vars
<1>2. ASSUME Execute PROVE BuffersAccounted'
  BY <1>2 DEF Execute, BuffersAccounted
<1>3. ASSUME NEW s \in Serials, OnCommandBufferCompleted(s) PROVE BuffersAccounted'
  BY <1>3, AccountedFrame DEF OnCommandBufferCompleted
<1> QED
  BY <1>1, <1>2, <1>3, AccountedCall, AccountedProceed DEF Next, Metal

-----------------------------------------------------------------------------
(* The theorems. *)

LEMMA QueueInvInit == Init => QueueInv
<1> SUFFICES ASSUME Init PROVE QueueInv
  OBVIOUS
<1>1. TypeOK
  BY TypeInit
<1>2. GpuInOrder /\ HandledAcknowledged /\ NoEntryLost
  BY DEF Init, GpuInOrder, HandledAcknowledged, NoEntryLost
<1>3. BuffersAccounted
  BY DEF Init, BuffersAccounted, NoBuffer
<1> QED
  BY <1>1, <1>2, <1>3 DEF QueueInv

LEMMA QueueInvNext == QueueInv /\ [Next]_vars => QueueInv'
BY TypeNext, GpuInOrderNext, HandledNext, NoEntryLostNext, BuffersAccountedNext
   DEF QueueInv

\* The inductive invariant of the queue: what its lock, its counters and its
\* completed handler keep, whatever the threads of the display do.
THEOREM QueueInvariant == Spec => []QueueInv
<1>1. Init => QueueInv
  BY QueueInvInit
<1>2. QueueInv /\ [Next]_vars => QueueInv'
  BY QueueInvNext
<1> QED
  BY <1>1, <1>2, PTL DEF Spec

\* Type correctness of the queue, the command buffers and the calls.
THEOREM TypeCorrect == Spec => []TypeOK
<1>1. QueueInv => TypeOK
  BY DEF QueueInv
<1> QED
  BY <1>1, QueueInvariant, PTL

\* The lock of makeMetalCommandBuffer covers the serial and [enqueue], so the
\* GPU finishes serials in order and isResourceBeingUsedByGPU may compare them.
THEOREM CompletedIsDoneAlways == Spec => []CompletedIsDone
<1>1. QueueInv => CompletedIsDone
  BY DEF QueueInv, TypeOK, GpuInOrder, HandledAcknowledged, CompletedIsDone
<1> QED
  BY <1>1, QueueInvariant, PTL

\* The handler, the loop of ensureResourceReadyForCPU and finishAllCommands
\* all take entries out of the queue; none is dropped before it is complete.
THEOREM NoEntryLostAlways == Spec => []NoEntryLost
<1>1. QueueInv => NoEntryLost
  BY DEF QueueInv
<1> QED
  BY <1>1, QueueInvariant, PTL

-----------------------------------------------------------------------------
(* The queue implements the submission timeline. *)

\* A serial that has just been committed, or one already submitted.
LEMMA TimelineCommit ==
    ASSUME QueueInv, NEW t \in Threads, Commit(t)
    PROVE  [Timeline!Next]_(Timeline!tvars)
<1> DEFINE s == cb[current[t]].serial
<1>1. current[t] \in Contexts /\ s \in Nat /\ s > 0 /\ s < counter /\ counter \in Nat
  BY DEF Commit, QueueInv, BuffersAccounted, TypeOK
<1>2. s \in 1..(counter - 1)
  BY <1>1
<1>3. hwCommitted' = hwCommitted \cup {s} /\ UNCHANGED <<counter, completedSerial>>
  BY DEF Commit, queueVars
<1>4. CASE s \in hwCommitted
  BY <1>3, <1>4 DEF Timeline!tvars
<1>5. CASE s \notin hwCommitted
  BY <1>2, <1>3, <1>5 DEF Timeline!Next, Timeline!Submit
<1> QED
  BY <1>4, <1>5

\* The handler of buffer s moves the fence to s, or not at all.
LEMMA TimelineCompleted ==
    ASSUME QueueInv, NEW s \in Serials, OnCommandBufferCompleted(s)
    PROVE  [Timeline!Next]_(Timeline!tvars)
<1>1. s \in Nat /\ completedSerial \in Nat /\ UNCHANGED <<counter, hwCommitted>>
  BY MaxSerialAssumption
     DEF Serials, QueueInv, TypeOK, OnCommandBufferCompleted, metalVars
<1>2. CASE completedSerial >= s
  BY <1>1, <1>2 DEF OnCommandBufferCompleted, Timeline!tvars
<1>3. CASE ~(completedSerial >= s)
  <2>1. completedSerial' = s /\ s > completedSerial
    BY <1>1, <1>3 DEF OnCommandBufferCompleted, Larger
  <2>2. s \in executed
    BY DEF OnCommandBufferCompleted
  <2>3. executed \subseteq hwCommitted /\ hwCommitted \subseteq 1..(counter - 1)
    BY DEF QueueInv, BuffersAccounted
  <2>4. 1..s \subseteq hwCommitted
    <3> DEFINE n == counter - 1 - Len(gpuQueue)
    <3>1. executed = 1..n
      BY DEF QueueInv, GpuInOrder
    <3>2. n \in Int
      BY DEF QueueInv, TypeOK
    <3> HIDE DEF n
    <3>3. 1..s \subseteq executed
      BY <1>1, <2>2, <3>1, <3>2
    <3> QED
      BY <2>3, <3>3
  <2>5. s \in 1..(counter - 1)
    BY <2>2, <2>3
  <2> QED
    BY <1>1, <2>1, <2>4, <2>5 DEF Timeline!Next, Timeline!Retire
<1> QED
  BY <1>2, <1>3

LEMMA TimelineNext ==
    QueueInv /\ [Next]_vars => [Timeline!Next]_(Timeline!tvars)
<1> SUFFICES ASSUME QueueInv, [Next]_vars
             PROVE  [Timeline!Next]_(Timeline!tvars)
  OBVIOUS
<1> USE DEF queueVars, bufferVars, threadVars, metalVars
<1>1. CASE UNCHANGED vars
  BY <1>1 DEF vars, Timeline!tvars
<1>2. ASSUME NEW t \in Threads, NEW r \in Resources, Encode(t, r)
      PROVE  [Timeline!Next]_(Timeline!tvars)
  <2>1. /\ counter' = counter + 1 \/ counter' = counter
        /\ UNCHANGED <<hwCommitted, completedSerial>>
    BY <1>2 DEF Encode, EnsureCommandBufferValid, MakeMetalCommandBuffer
  <2>2. counter \in Nat
    BY DEF QueueInv, TypeOK
  <2>3. CASE counter' = counter
    BY <2>1, <2>3 DEF Timeline!tvars
  <2>4. CASE counter' = counter + 1
    <3>1. counter' - 1 = (counter - 1) + 1
      BY <2>2, <2>4
    <3> QED
      BY <2>1, <3>1 DEF Timeline!Next, Timeline!Issue
  <2> QED
    BY <2>1, <2>3, <2>4
<1>3. ASSUME NEW t \in Threads, Call(t), \A r \in Resources : ~Encode(t, r)
      PROVE  [Timeline!Next]_(Timeline!tvars)
  <2>1. UNCHANGED <<counter, hwCommitted, completedSerial>>
    BY <1>3 DEF Call, Bind, ResetResource, Map, IsResultAvailable, Flush, Finish,
                Release, Destroy, Terminate
  <2> QED
    BY <2>1 DEF Timeline!tvars
<1>4. ASSUME NEW t \in Threads, Proceed(t), ~Commit(t)
      PROVE  [Timeline!Next]_(Timeline!tvars)
  <2>1. UNCHANGED <<counter, hwCommitted, completedSerial>>
    BY <1>4 DEF Proceed, NotifyCommitted, FinishWait, EnsureReady, EnsureWait,
                Return, FinishAllCommands
  <2> QED
    BY <2>1 DEF Timeline!tvars
<1>5. ASSUME Execute PROVE [Timeline!Next]_(Timeline!tvars)
  BY <1>5 DEF Execute, Timeline!tvars
<1> QED
  BY <1>1, <1>2, <1>3, <1>4, <1>5, TimelineCommit, TimelineCompleted DEF Next, Metal

\* What CommandQueue promises, without its queue, lock, loops and callbacks:
\* serials one by one, no buffer submitted twice, the completed serial a fence.
THEOREM QueueImplementsTimeline == Spec => ImplementsTimeline
<1>1. Init => Timeline!Init
  BY DEF Init, Timeline!Init
<1>2. QueueInv /\ [Next]_vars => [Timeline!Next]_(Timeline!tvars)
  BY TimelineNext
<1> QED
  BY <1>1, <1>2, QueueInvariant, PTL DEF Spec, ImplementsTimeline, Timeline!Spec

-----------------------------------------------------------------------------
(* Calls that exclude each other: one thread, or contexts of a share group,  *)
(* whose calls all take the global mutex.                                    *)

Serialised ==
    \/ \A t, u \in Threads : t = u
    \/ Contexts \subseteq SharedContexts

\* At most one thread is in a call, and a GL call has a context.
OneCall ==
    /\ \A t, u \in Threads : pc[t] # "idle" /\ pc[u] # "idle" => t = u
    /\ \A t \in Threads : pc[t] # "idle" =>
         op[t] \in {"release", "destroy", "terminate"} \/ current[t] # NoContext

\* The usage serial of a resource covers its uses and was issued.
UsesCovered ==
    /\ \A u \in uses : u[1] > 0 /\ u[1] <= resSerial[u[2]]
    /\ \A r \in Resources : resSerial[r] < counter

\* Only terminate has entries outside the queue, and who leaves the loop of
\* ensureResourceReadyForCPU has seen the completed serial reach the resource.
LoopOutcome ==
    /\ (\A t \in Threads : pc[t] # "drain") => tmp = <<>>
    /\ \A t \in Threads : pc[t] = "ready" => resSerial[res[t]] <= completedSerial

SerialisedInv == OneCall /\ UsesCovered /\ LoopOutcome

\* A call that may start finds every thread idle.
LEMMA AllIdle ==
    ASSUME TypeOK, OneCall, Serialised, NEW t \in Threads, NEW o, CanEnter(t, o),
           o \in {"release", "destroy", "terminate"} \/ current[t] # NoContext
    PROVE  \A u \in Threads : pc[u] = "idle"
<1>1. CASE \A v, u \in Threads : v = u
  BY <1>1 DEF CanEnter
<1>2. CASE Contexts \subseteq SharedContexts
  <2>1. \A u \in Threads : current[u] # NoContext => current[u] \in SharedContexts
    BY <1>2 DEF TypeOK
  <2>2. \A u \in Threads : ~HoldsGlobalMutex(u)
    BY <2>1 DEF CanEnter
  <2> QED
    BY <2>1, <2>2 DEF HoldsGlobalMutex, OneCall
<1> QED
  BY <1>1, <1>2 DEF Serialised

\* A call that only begins.
LEMMA SerialisedBegin ==
    ASSUME TypeOK, SerialisedInv, Serialised, NEW t \in Threads, NEW o \in Ops,
           NEW r \in Resources, NEW next \in PCs \ {"ready", "drain", "idle"},
           Begin(t, o, r, next),
           o \in {"release", "destroy", "terminate"} \/ current[t] # NoContext,
           UNCHANGED <<tmp, counter, completedSerial, resSerial, uses>>
    PROVE  SerialisedInv'
<1>1. \A u \in Threads : pc[u] = "idle"
  BY AllIdle DEF Begin, SerialisedInv
<1>2. /\ \A u \in Threads : pc'[u] = IF u = t THEN next ELSE "idle"
      /\ op'[t] = o /\ UNCHANGED current
  BY <1>1 DEF Begin, TypeOK
<1>3. OneCall'
  BY <1>2 DEF OneCall
<1>4. UsesCovered'
  BY DEF UsesCovered, SerialisedInv
<1>5. tmp' = <<>>
  BY <1>1 DEF LoopOutcome, SerialisedInv
<1>6. LoopOutcome'
  BY <1>2, <1>5 DEF LoopOutcome
<1> QED
  BY <1>3, <1>4, <1>6 DEF SerialisedInv

\* A new use is covered, and none is forgotten but that of new storage.
LEMMA UsesCoveredEncode ==
    ASSUME QueueInv, UsesCovered, NEW t \in Threads, NEW r \in Resources, Encode(t, r)
    PROVE  UsesCovered'
<1> USE DEF queueVars, bufferVars, threadVars, metalVars
<1>1. TypeOK /\ current[t] \in Contexts /\ current[t] # NoContext
  BY DEF QueueInv, TypeOK, Encode
<1> DEFINE s == IF Valid(current[t]) THEN cb[current[t]].serial ELSE counter
<1>2. counter \in Nat /\ cb[current[t]].serial \in Nat /\ counter > 0
  BY <1>1 DEF TypeOK, QueueInv, BuffersAccounted
<1>3. s \in Nat /\ s > 0 /\ s < counter' /\ counter <= counter' /\ counter' \in Nat
  <2>1. CASE Valid(current[t])
    BY <1>1, <1>2, <2>1
       DEF Encode, EnsureCommandBufferValid, Valid, QueueInv, BuffersAccounted
  <2>2. CASE ~Valid(current[t])
    BY <1>2, <2>2 DEF Encode, EnsureCommandBufferValid, MakeMetalCommandBuffer
  <2> QED
    BY <2>1, <2>2
<1>4. /\ resSerial' = [resSerial EXCEPT ![r] = Larger(@, s)]
      /\ uses' = uses \cup {<<s, r>>}
  BY DEF Encode, SetUsedBy
<1> HIDE DEF s
<1>5. \A q \in Resources : /\ resSerial[q] \in Nat /\ resSerial'[q] \in Nat
                           /\ resSerial[q] <= resSerial'[q] /\ resSerial'[q] < counter'
                           /\ q = r => s <= resSerial'[q]
  BY <1>1, <1>2, <1>3, <1>4 DEF TypeOK, Larger, UsesCovered
<1>6. \A u \in uses' : u[1] > 0 /\ u[1] <= resSerial'[u[2]]
  <2> SUFFICES ASSUME NEW u \in uses' PROVE u[1] > 0 /\ u[1] <= resSerial'[u[2]]
    OBVIOUS
  <2>1. CASE u = <<s, r>>
    BY <1>3, <1>5, <2>1
  <2>2. CASE u \in uses
    <3>1. u[1] \in Nat /\ u[2] \in Resources
      BY <1>1, <2>2 DEF TypeOK
    <3> QED
      BY <1>5, <2>2, <3>1 DEF UsesCovered
  <2> QED
    BY <1>4, <2>1, <2>2
<1> QED
  BY <1>5, <1>6 DEF UsesCovered

LEMMA UsesCoveredReset ==
    ASSUME QueueInv, UsesCovered, NEW t \in Threads, NEW r \in Resources, ResetResource(t, r)
    PROVE  UsesCovered'
<1> USE DEF queueVars, bufferVars, threadVars, metalVars
<1>1. \A q \in Resources : resSerial'[q] = IF q = r THEN 0 ELSE resSerial[q]
  BY DEF ResetResource, QueueInv, TypeOK
<1>2. counter' = counter /\ counter \in Nat /\ counter > 0
  BY DEF ResetResource, QueueInv, TypeOK, UsesCovered
<1>3. \A u \in uses' : u \in uses /\ u[2] # r /\ u[2] \in Resources
  BY DEF ResetResource, QueueInv, TypeOK
<1> QED
  BY <1>1, <1>2, <1>3 DEF UsesCovered

LEMMA SerialisedEncode ==
    ASSUME QueueInv, SerialisedInv, Serialised, NEW t \in Threads,
           NEW r \in Resources, Encode(t, r)
    PROVE  SerialisedInv'
<1> USE DEF queueVars, bufferVars, threadVars, metalVars
<1>1. TypeOK /\ current[t] # NoContext
  BY DEF QueueInv, Encode
<1>2. \A u \in Threads : pc[u] = "idle"
  BY <1>1, AllIdle DEF Encode, SerialisedInv
<1>3. UNCHANGED <<pc, op, res, current, tmp, completedSerial>>
  BY DEF Encode
<1>4. OneCall' /\ LoopOutcome'
  BY <1>2, <1>3 DEF SerialisedInv, OneCall, LoopOutcome
<1> QED
  BY <1>4, UsesCoveredEncode DEF SerialisedInv

LEMMA SerialisedCall ==
    ASSUME QueueInv, SerialisedInv, Serialised, NEW t \in Threads, Call(t)
    PROVE  SerialisedInv'
<1> USE DEF queueVars, bufferVars, threadVars, metalVars
<1>0. TypeOK /\ res[t] \in Resources
  BY DEF QueueInv, TypeOK
<1>1. ASSUME UNCHANGED <<pc, op, res, tmp, completedSerial, counter>>,
             \A u \in Threads : pc[u] = "idle",
             UsesCovered'
      PROVE  SerialisedInv'
  BY <1>1 DEF SerialisedInv, OneCall, LoopOutcome
<1>2. ASSUME NEW c \in Contexts, Bind(t, c) PROVE SerialisedInv'
  <2>1. UsesCovered'
    BY <1>2 DEF Bind, SerialisedInv, UsesCovered
  <2>2. \A u \in Threads : pc[u] = "idle"
    BY <1>0, <1>2, AllIdle DEF Bind, SerialisedInv
  <2> QED
    BY <1>1, <1>2, <2>1, <2>2 DEF Bind
<1>3. ASSUME NEW r \in Resources, ResetResource(t, r) PROVE SerialisedInv'
  <2>1. UsesCovered'
    BY <1>3, UsesCoveredReset DEF SerialisedInv
  <2>2. \A u \in Threads : pc[u] = "idle"
    BY <1>0, <1>3, AllIdle DEF ResetResource, SerialisedInv
  <2> QED
    BY <1>1, <1>3, <2>1, <2>2 DEF ResetResource
<1>4. ASSUME NEW r \in Resources, Map(t, r) PROVE SerialisedInv'
  <2>1. PICK next : Begin(t, "map", r, next) /\ next \in {"notify", "ensure"}
    BY <1>4 DEF Map, FlushFirst
  <2> QED
    BY <1>0, <1>4, <2>1, SerialisedBegin DEF Map, Ops, PCs
<1>5. ASSUME NEW r \in Resources, IsResultAvailable(t, r) PROVE SerialisedInv'
  <2>1. PICK next : Begin(t, "query", r, next) /\ next \in {"notify", "answer"}
    BY <1>5 DEF IsResultAvailable, FlushFirst
  <2> QED
    BY <1>0, <1>5, <2>1, SerialisedBegin DEF IsResultAvailable, Ops, PCs
<1>6. ASSUME Flush(t) PROVE SerialisedInv'
  BY <1>0, <1>6, SerialisedBegin DEF Flush, Ops, PCs
<1>7. ASSUME Finish(t) PROVE SerialisedInv'
  <2>1. PICK next : Begin(t, "finish", res[t], next) /\ next \in {"notify", "waitOwn"}
    BY <1>7 DEF Finish, FlushFirst
  <2> QED
    BY <1>0, <1>7, <2>1, SerialisedBegin DEF Finish, Ops, PCs
<1>8. ASSUME Release(t) PROVE SerialisedInv'
  <2>1. CASE Valid(current[t])
    BY <1>0, <1>8, <2>1, SerialisedBegin DEF Release, Ops, PCs
  <2>2. CASE ~Valid(current[t])
    <3>1. UsesCovered'
      BY <1>8 DEF Release, SerialisedInv, UsesCovered
    <3>2. \A u \in Threads : pc[u] = "idle"
      BY <1>0, <1>8, <2>2, AllIdle DEF Release, SerialisedInv
    <3> QED
      BY <1>1, <1>8, <2>2, <3>1, <3>2 DEF Release
  <2> QED
    BY <2>1, <2>2
<1>9. ASSUME Destroy(t) PROVE SerialisedInv'
  <2>1. PICK next : Begin(t, "destroy", res[t], next) /\ next \in {"notify", "waitOwn"}
    BY <1>9 DEF Destroy, FlushFirst
  <2> QED
    BY <1>0, <1>9, <2>1, SerialisedBegin DEF Destroy, Ops, PCs
<1>10. ASSUME Terminate(t) PROVE SerialisedInv'
  <2>1. /\ \A u \in Threads : pc[u] = "idle" /\ pc'[u] = IF u = t THEN "drain" ELSE "idle"
        /\ op'[t] = "terminate"
    BY <1>0, <1>10 DEF Terminate, Begin, TypeOK
  <2>2. UsesCovered'
    BY <1>10 DEF Terminate, SerialisedInv, UsesCovered
  <2> QED
    BY <2>1, <2>2 DEF SerialisedInv, OneCall, LoopOutcome
<1> QED
  BY <1>2, <1>3, <1>4, <1>5, <1>6, <1>7, <1>8, <1>9, <1>10, SerialisedEncode DEF Call

\* A step of the one thread that is in a call.
LEMMA SerialisedStep ==
    ASSUME TypeOK, SerialisedInv, NEW t \in Threads, NEW next \in PCs, Goto(t, next),
           pc[t] # "idle",
           next # "idle" => current'[t] = current[t],
           next # "ready" \/ resSerial[res[t]] <= completedSerial,
           tmp' = IF pc[t] = "drain" THEN <<>> ELSE tmp,
           UNCHANGED <<counter, completedSerial, resSerial, uses>>
    PROVE  SerialisedInv'
<1>1. \A u \in Threads : /\ u # t => pc[u] = "idle"
                         /\ pc'[u] = IF u = t THEN next ELSE "idle"
  BY DEF Goto, TypeOK, SerialisedInv, OneCall
<1>2. OneCall'
  BY <1>1 DEF Goto, SerialisedInv, OneCall
<1>3. UsesCovered'
  BY DEF SerialisedInv, UsesCovered
<1>4. tmp' = <<>>
  BY <1>1 DEF SerialisedInv, LoopOutcome
<1>5. LoopOutcome'
  BY <1>1, <1>4 DEF Goto, LoopOutcome
<1> QED
  BY <1>2, <1>3, <1>5 DEF SerialisedInv

LEMMA SerialisedProceed ==
    ASSUME QueueInv, SerialisedInv, NEW t \in Threads, Proceed(t)
    PROVE  SerialisedInv'
<1> USE DEF queueVars, bufferVars, threadVars, metalVars
<1>0. TypeOK
  BY DEF QueueInv
<1>1. ASSUME NotifyCommitted(t) PROVE SerialisedInv'
  BY <1>0, <1>1, SerialisedStep DEF NotifyCommitted, PCs
<1>2. ASSUME Commit(t) PROVE SerialisedInv'
  <2>1. AfterFlush(op[t]) # "ready"
    BY DEF AfterFlush
  <2>2. current'[t] = current[t] \/ AfterFlush(op[t]) = "idle"
    BY <1>2 DEF Commit, AfterFlush
  <2>3. AfterFlush(op[t]) \in PCs
    BY AfterFlushType
  <2> QED
    BY <1>0, <1>2, <2>1, <2>2, <2>3, SerialisedStep DEF Commit
<1>3. ASSUME FinishWait(t) PROVE SerialisedInv'
  BY <1>0, <1>3, SerialisedStep DEF FinishWait, PCs
<1>4. ASSUME EnsureReady(t) PROVE SerialisedInv'
  <2>1. CASE IsResourceBeingUsedByGPU(res[t]) /\ queue # <<>>
    BY <1>0, <1>4, <2>1, SerialisedStep DEF EnsureReady, PCs
  <2>2. CASE ~IsResourceBeingUsedByGPU(res[t])
    <3>1. resSerial[res[t]] <= completedSerial
      BY <1>0, <2>2 DEF IsResourceBeingUsedByGPU, TypeOK
    <3> QED
      BY <1>0, <1>4, <2>2, <3>1, SerialisedStep DEF EnsureReady, PCs
  <2>3. CASE IsResourceBeingUsedByGPU(res[t]) /\ queue = <<>>
    <3>1. tmp = <<>> /\ \A u \in Threads : pc[u] # "wait"
      BY <1>4 DEF EnsureReady, SerialisedInv, OneCall, LoopOutcome
    <3> DEFINE s == resSerial[res[t]]
    <3>2. /\ s \in Nat /\ counter \in Nat /\ completedSerial \in Nat
          /\ completedSerial < s /\ s < counter
      BY <1>0, <2>3 DEF IsResourceBeingUsedByGPU, TypeOK, SerialisedInv, UsesCovered
    <3>3. s \in (completedSerial + 1)..(counter - 1)
      BY <3>2
    <3>4. s \notin Entries(queue) \cup Entries(tmp)
      BY <2>3, <3>1 DEF Entries
    <3> QED
      BY <3>1, <3>3, <3>4 DEF QueueInv, NoEntryLost
  <2> QED
    BY <2>1, <2>2, <2>3
<1>5. ASSUME EnsureWait(t) PROVE SerialisedInv'
  BY <1>0, <1>5, SerialisedStep DEF EnsureWait, PCs
<1>6. ASSUME Return(t) PROVE SerialisedInv'
  BY <1>0, <1>6, SerialisedStep DEF Return, PCs
<1>7. ASSUME FinishAllCommands(t) PROVE SerialisedInv'
  BY <1>0, <1>7, SerialisedStep DEF FinishAllCommands, PCs
<1> QED
  BY <1>1, <1>2, <1>3, <1>4, <1>5, <1>6, <1>7 DEF Proceed

LEMMA SerialisedMetal ==
    ASSUME QueueInv, SerialisedInv, Metal
    PROVE  SerialisedInv'
<1> USE DEF queueVars, bufferVars, threadVars, metalVars
<1>1. UNCHANGED <<pc, op, res, current, tmp, counter, resSerial>> /\ uses' \subseteq uses
  BY DEF Metal, Execute, OnCommandBufferCompleted
<1>2. /\ completedSerial \in Nat /\ completedSerial' \in Nat
      /\ completedSerial <= completedSerial'
      /\ \A u \in Threads : resSerial[res[u]] \in Nat
  BY MaxSerialAssumption
     DEF Metal, Execute, OnCommandBufferCompleted, Larger, Serials, QueueInv, TypeOK
<1>3. OneCall' /\ UsesCovered'
  BY <1>1 DEF SerialisedInv, OneCall, UsesCovered
<1>4. LoopOutcome'
  BY <1>1, <1>2 DEF SerialisedInv, LoopOutcome
<1> QED
  BY <1>3, <1>4 DEF SerialisedInv

LEMMA SerialisedNext ==
    ASSUME QueueInv, SerialisedInv, Serialised, [Next]_vars
    PROVE  SerialisedInv'
<1>1. CASE UNCHANGED vars
  BY <1>1 DEF vars, queueVars, bufferVars, threadVars, metalVars, SerialisedInv,
              OneCall, UsesCovered, LoopOutcome
<1> QED
  BY <1>1, SerialisedCall, SerialisedProceed, SerialisedMetal DEF Next

\* The assertion at the end of ensureResourceReadyForCPU (line 120) holds when
\* calls exclude each other, with one thread or through the global mutex, so the
\* violation that the run with two independent threads finds needs both of them.
THEOREM EnsureAssertionSerialised ==
    ASSUME Serialised
    PROVE  Spec => []EnsureAssertion
<1>1. Init => SerialisedInv
  BY DEF Init, SerialisedInv, OneCall, UsesCovered, LoopOutcome
<1>2. QueueInv /\ SerialisedInv /\ [Next]_vars => SerialisedInv'
  BY SerialisedNext
<1>3. QueueInv /\ SerialisedInv => EnsureAssertion
  BY DEF QueueInv, TypeOK, SerialisedInv, LoopOutcome, EnsureAssertion, IsResourceBeingUsedByGPU
<1> QED
  BY <1>1, <1>2, <1>3, QueueInvariant, PTL DEF Spec

-----------------------------------------------------------------------------
(* What is left when no context holds a command buffer.                     *)

\* The entries of the queue are in the order of their serials, and a handler
\* that raised the completed serial has popped what is complete.
QueueOrdered ==
    /\ \A i, j \in 1..Len(queue) : i < j => queue[i] < queue[j]
    /\ \A i \in 1..Len(queue) : completedSerial < queue[i] /\ queue[i] < counter

\* The newest command buffer is complete, or a context has not let go of it:
\* ~CommandBuffer waits.
NewestHeld ==
    \/ counter - 1 <= completedSerial
    \/ \E c \in Contexts : cb[c].serial = counter - 1

DrainInv == QueueOrdered /\ NewestHeld /\ tmp = <<>>

\* A step that appends nothing and pops at most the front keeps the order.
LEMMA OrderedTail ==
    ASSUME TypeOK, QueueOrdered, queue # <<>>, queue' = Tail(queue),
           UNCHANGED <<counter, completedSerial>>
    PROVE  QueueOrdered'
<1>1. /\ Len(queue) \in Nat /\ Len(queue') = Len(queue) - 1
      /\ \A i \in 1..(Len(queue) - 1) : queue'[i] = queue[i + 1]
  BY HeadTailProperties DEF TypeOK
<1> QED
  BY <1>1 DEF QueueOrdered

LEMMA OrderedPop ==
    ASSUME TypeOK, QueueOrdered, NEW s \in Nat, completedSerial' = s,
           queue' = PopUpTo(queue, s), counter' = counter
    PROVE  QueueOrdered'
<1>0. Len(queue) \in Nat /\ \A i \in 1..Len(queue) : queue[i] \in Nat
  BY DEF TypeOK
<1>1. PICK n \in 0..Len(queue) :
         /\ PopUpTo(queue, s) = SubSeq(queue, n + 1, Len(queue))
         /\ n = Len(queue) \/ queue[n + 1] > s
  BY PopUpToSuffix DEF TypeOK
<1>2. /\ Len(queue') = Len(queue) - n
      /\ \A i \in 1..(Len(queue) - n) : queue'[i] = queue[n + i]
  BY <1>0, <1>1, SubSeqProperties, SMTT(40)
<1>3. \A i \in 1..(Len(queue) - n) : queue[n + i] > s
  <2> TAKE i \in 1..(Len(queue) - n)
  <2>0. n # Len(queue) /\ queue[n + 1] > s
    BY <1>0, <1>1
  <2>1. CASE i = 1
    BY <2>0, <2>1
  <2>2. CASE i # 1
    <3>1. n + 1 \in 1..Len(queue) /\ n + i \in 1..Len(queue) /\ n + 1 < n + i
      BY <1>0, <2>2
    <3>2. queue[n + 1] < queue[n + i]
      BY <3>1 DEF QueueOrdered
    <3> QED
      BY <1>0, <2>0, <3>1, <3>2
  <2> QED
    BY <2>1, <2>2
<1>4. ASSUME NEW i \in 1..Len(queue'), NEW j \in 1..Len(queue'), i < j
      PROVE  queue'[i] < queue'[j]
  <2>1. n + i \in 1..Len(queue) /\ n + j \in 1..Len(queue) /\ n + i < n + j
    BY <1>0, <1>2, <1>4
  <2>2. queue'[i] = queue[n + i] /\ queue'[j] = queue[n + j]
    BY <1>0, <1>2
  <2> QED
    BY <2>1, <2>2 DEF QueueOrdered
<1>5. ASSUME NEW i \in 1..Len(queue')
      PROVE  s < queue'[i] /\ queue'[i] < counter
  <2>1. n + i \in 1..Len(queue) /\ i \in 1..(Len(queue) - n) /\ queue'[i] = queue[n + i]
    BY <1>0, <1>2
  <2> QED
    BY <1>0, <1>3, <2>1 DEF QueueOrdered
<1> QED
  BY <1>4, <1>5 DEF QueueOrdered

LEMMA OrderedMake ==
    ASSUME QueueInv, QueueOrdered, NEW c \in Contexts, MakeMetalCommandBuffer(c),
           UNCHANGED completedSerial
    PROVE  QueueOrdered'
<1>1. /\ Len(queue) \in Nat /\ counter \in Nat /\ completedSerial \in Nat
      /\ \A i \in 1..Len(queue) : queue[i] \in Nat
  BY DEF QueueInv, TypeOK
<1>2. /\ Len(queue') = Len(queue) + 1 /\ counter' = counter + 1
      /\ \A i \in 1..Len(queue) : queue'[i] = queue[i]
      /\ queue'[Len(queue) + 1] = counter
  BY AppendProperties DEF MakeMetalCommandBuffer, QueueInv, TypeOK
<1>3. completedSerial < counter
  BY <1>1 DEF QueueInv, TypeOK, HandledAcknowledged, GpuInOrder, BuffersAccounted
<1> QED
  BY <1>1, <1>2, <1>3, SMTT(40) DEF QueueOrdered

LEMMA QueueEmpty ==
    ASSUME QueueInv, QueueOrdered, counter - 1 <= completedSerial
    PROVE  Len(queue) = 0
<1>1. /\ Len(queue) \in Nat /\ counter \in Nat /\ completedSerial \in Nat
      /\ \A i \in 1..Len(queue) : queue[i] \in Nat
  BY DEF QueueInv, TypeOK
<1>2. ASSUME 1 \in 1..Len(queue) PROVE FALSE
  BY <1>1, <1>2 DEF QueueOrdered
<1> QED
  BY <1>1, <1>2

\* Encode is the only call that makes a command buffer.
LEMMA DrainCall ==
    ASSUME QueueInv, DrainInv, NEW t \in Threads, Call(t)
    PROVE  DrainInv'
<1> USE DEF queueVars, bufferVars, threadVars, metalVars
<1>1. ASSUME NEW r \in Resources, Encode(t, r) PROVE DrainInv'
  <2>1. UNCHANGED <<tmp, completedSerial>> /\ current[t] \in Contexts
    BY <1>1 DEF Encode, QueueInv, TypeOK
  <2>2. CASE Valid(current[t])
    BY <1>1, <2>1, <2>2
       DEF Encode, EnsureCommandBufferValid, DrainInv, QueueOrdered, NewestHeld
  <2>3. CASE ~Valid(current[t])
    <3>1. MakeMetalCommandBuffer(current[t])
      BY <1>1, <2>3 DEF Encode, EnsureCommandBufferValid
    <3>2. QueueOrdered'
      BY <2>1, <3>1, OrderedMake DEF DrainInv
    <3>3. cb'[current[t]].serial = counter' - 1
      BY <2>1, <3>1 DEF MakeMetalCommandBuffer, QueueInv, TypeOK
    <3> QED
      BY <2>1, <3>2, <3>3 DEF DrainInv, NewestHeld
  <2> QED
    BY <2>2, <2>3
<1>2. ASSUME Terminate(t) PROVE DrainInv'
  <2>1. /\ queue' = <<>> /\ tmp' = tmp \o queue
        /\ \A c \in Contexts : cb[c] = NoBuffer
        /\ UNCHANGED <<counter, completedSerial, cb>>
    BY <1>2 DEF Terminate
  <2>2. counter - 1 <= completedSerial
    BY <2>1 DEF DrainInv, NewestHeld, NoBuffer, QueueInv, TypeOK
  <2>3. Len(queue) = 0
    BY <2>2, QueueEmpty DEF DrainInv
  <2>4. tmp' = <<>>
    BY <2>1, <2>3, EmptySeq DEF DrainInv, QueueInv, TypeOK
  <2> QED
    BY <2>1, <2>2, <2>4 DEF DrainInv, QueueOrdered, NewestHeld
<1>3. ASSUME ~Terminate(t), \A r \in Resources : ~Encode(t, r) PROVE DrainInv'
  <2>1. UNCHANGED <<queue, tmp, counter, completedSerial, cb>>
    BY <1>3 DEF Call, Bind, ResetResource, Map, IsResultAvailable, Flush, Finish,
                Release, Destroy, Begin
  <2> QED
    BY <2>1 DEF DrainInv, QueueOrdered, NewestHeld
<1> QED
  BY <1>1, <1>2, <1>3

LEMMA DrainProceed ==
    ASSUME QueueInv, DrainInv, NEW t \in Threads, Proceed(t)
    PROVE  DrainInv'
<1> USE DEF queueVars, bufferVars, threadVars, metalVars
<1>1. ASSUME EnsureReady(t) PROVE DrainInv'
  <2>1. UNCHANGED <<tmp, counter, completedSerial, cb>>
    BY <1>1 DEF EnsureReady
  <2>2. \/ queue # <<>> /\ queue' = Tail(queue)
        \/ queue' = queue
    BY <1>1 DEF EnsureReady
  <2>3. QueueOrdered'
    BY <2>1, <2>2, OrderedTail DEF DrainInv, QueueOrdered, QueueInv
  <2> QED
    BY <2>1, <2>3 DEF DrainInv, NewestHeld
<1>2. ASSUME Commit(t) PROVE DrainInv'
  <2>1. /\ UNCHANGED <<queue, tmp, counter, completedSerial>>
        /\ cb' = [cb EXCEPT ![current[t]].committed = TRUE]
    BY <1>2 DEF Commit
  <2>2. \A c \in Contexts : cb'[c].serial = cb[c].serial
    BY <2>1 DEF QueueInv, TypeOK
  <2> QED
    BY <2>1, <2>2 DEF DrainInv, QueueOrdered, NewestHeld
<1>3. ASSUME FinishWait(t) PROVE DrainInv'
  <2>1. /\ UNCHANGED <<queue, tmp, counter, completedSerial>>
        /\ cb[current[t]].serial \in handled \cup {0}
        /\ cb' = cb \/ cb' = [cb EXCEPT ![current[t]] = NoBuffer]
    BY <1>3 DEF FinishWait
  <2>2. cb[current[t]].serial <= completedSerial
    <3>1. \A s \in handled \cup {0} : s <= completedSerial
      BY DEF QueueInv, TypeOK, HandledAcknowledged
    <3> QED
      BY <2>1, <3>1
  <2>3. NewestHeld'
    <3>1. CASE counter - 1 <= completedSerial
      BY <2>1, <3>1 DEF NewestHeld
    <3>2. CASE ~(counter - 1 <= completedSerial)
      <4>1. PICK c \in Contexts : cb[c].serial = counter - 1
        BY <3>2 DEF DrainInv, NewestHeld
      <4>2. c # current[t]
        BY <2>2, <3>2, <4>1
      <4>3. cb'[c] = cb[c]
        BY <2>1, <4>2 DEF QueueInv, TypeOK
      <4> QED
        BY <2>1, <4>1, <4>3 DEF NewestHeld
    <3> QED
      BY <3>1, <3>2
  <2> QED
    BY <2>1, <2>3 DEF DrainInv, QueueOrdered
<1>4. ASSUME NotifyCommitted(t) \/ EnsureWait(t) \/ Return(t) PROVE DrainInv'
  BY <1>4 DEF NotifyCommitted, EnsureWait, Return, DrainInv, QueueOrdered, NewestHeld
<1>5. ASSUME FinishAllCommands(t) PROVE DrainInv'
  BY <1>5 DEF FinishAllCommands, DrainInv, QueueOrdered, NewestHeld
<1> QED
  BY <1>1, <1>2, <1>3, <1>4, <1>5 DEF Proceed

LEMMA DrainMetal ==
    ASSUME QueueInv, DrainInv, Metal
    PROVE  DrainInv'
<1> USE DEF queueVars, bufferVars, threadVars, metalVars
<1>1. CASE Execute
  BY <1>1 DEF Execute, DrainInv, QueueOrdered, NewestHeld
<1>2. ASSUME NEW s \in Serials, OnCommandBufferCompleted(s) PROVE DrainInv'
  <2>1. s \in Nat /\ completedSerial \in Nat /\ counter \in Nat /\ UNCHANGED <<tmp, counter, cb>>
    BY <1>2, MaxSerialAssumption DEF Serials, QueueInv, TypeOK, OnCommandBufferCompleted
  <2>2. CASE completedSerial >= s
    BY <1>2, <2>1, <2>2 DEF OnCommandBufferCompleted, DrainInv, QueueOrdered, NewestHeld
  <2>3. CASE ~(completedSerial >= s)
    <3>1. completedSerial' = s /\ queue' = PopUpTo(queue, s)
      BY <1>2, <2>1, <2>3 DEF OnCommandBufferCompleted, Larger
    <3>2. QueueOrdered'
      BY <2>1, <3>1, OrderedPop DEF DrainInv, QueueInv
    <3> QED
      BY <2>1, <2>3, <3>1, <3>2 DEF DrainInv, NewestHeld
  <2> QED
    BY <2>2, <2>3
<1> QED
  BY <1>1, <1>2 DEF Metal

LEMMA DrainNext == QueueInv /\ DrainInv /\ [Next]_vars => DrainInv'
<1>1. QueueInv /\ DrainInv /\ UNCHANGED vars => DrainInv'
  BY DEF vars, queueVars, bufferVars, DrainInv, QueueOrdered, NewestHeld
<1> QED
  BY <1>1, DrainCall, DrainProceed, DrainMetal DEF Next

\* ~CommandBuffer waits for the newest buffer of its context only, yet when
\* every context has let go of its buffer, the queue is empty, the GPU has
\* finished everything and finishAllCommands finds nothing to wait for.
THEOREM DestroyedMeansDrainedAlways == Spec => []DestroyedMeansDrained
<1>1. Init => DrainInv
  BY DEF Init, DrainInv, QueueOrdered, NewestHeld
<1>2. QueueInv /\ DrainInv => DestroyedMeansDrained
  <2> SUFFICES ASSUME QueueInv, DrainInv, \A c \in Contexts : cb[c] = NoBuffer
               PROVE  queue = <<>> /\ tmp = <<>> /\ gpuQueue = <<>> /\ executed = 1..(counter - 1)
    BY DEF DestroyedMeansDrained
  <2>1. /\ completedSerial \in Nat /\ counter \in Nat
        /\ Len(queue) \in Nat /\ Len(gpuQueue) \in Nat
    BY DEF QueueInv, TypeOK
  <2>2. counter - 1 <= completedSerial
    BY <2>1 DEF DrainInv, NewestHeld, NoBuffer
  <2>3. Len(queue) = 0
    BY <2>2, QueueEmpty DEF DrainInv
  <2>4. Len(gpuQueue) = 0
    <3>1. CompletedIsDone
      BY DEF QueueInv, TypeOK, GpuInOrder, HandledAcknowledged, CompletedIsDone
    <3>2. executed = 1..(counter - 1 - Len(gpuQueue))
      BY DEF QueueInv, GpuInOrder
    <3>3. counter - 1 > 0 => counter - 1 \in executed
      BY <2>1, <2>2, <3>1 DEF CompletedIsDone
    <3>4. counter - 1 - Len(gpuQueue) >= 0
      BY DEF QueueInv, GpuInOrder
    <3> QED
      BY <2>1, <3>2, <3>3, <3>4
  <2>5. executed = 1..(counter - 1)
    BY <2>1, <2>4 DEF QueueInv, GpuInOrder
  <2>6. queue = <<>> /\ gpuQueue = <<>>
    BY <2>3, <2>4, EmptySeq DEF QueueInv, TypeOK
  <2> QED
    BY <2>5, <2>6 DEF DrainInv
<1> QED
  BY <1>1, <1>2, DrainNext, QueueInvariant, PTL DEF Spec

-----------------------------------------------------------------------------
(* Any number of threads: what one of them can do to a call of another.     *)

\* A thread in Buffer::map is about a resource that its context may refer to.
MapsOwn ==
    \A t \in Threads :
        /\ pc[t] \in {"ensure", "wait", "ready"} => op[t] = "map"
        /\ op[t] = "map" =>
             pc[t] # "idle" /\ current[t] # NoContext /\ res[t] \in Uses[current[t]]

\* A step of one thread leaves the call of every other thread alone, its
\* context and the command buffer of that context.
LEMMA OtherThread ==
    ASSUME TypeOK, BuffersAccounted, NEW u \in Threads, Call(u) \/ Proceed(u),
           NEW t \in Threads, t # u
    PROVE  /\ pc'[t] = pc[t] /\ op'[t] = op[t] /\ res'[t] = res[t]
           /\ waitOn'[t] = waitOn[t] /\ current'[t] = current[t]
           /\ current[t] # NoContext => cb'[current[t]] = cb[current[t]]
<1> USE DEF queueVars, bufferVars, threadVars, metalVars
<1>1. CASE Call(u)
  <2>1. /\ pc'[t] = pc[t] /\ op'[t] = op[t] /\ res'[t] = res[t]
        /\ waitOn'[t] = waitOn[t] /\ current'[t] = current[t]
    BY <1>1 DEF Call, Bind, Encode, ResetResource, Map, IsResultAvailable, Flush, Finish,
                Release, Destroy, Terminate, Begin, TypeOK
  <2>2. \/ UNCHANGED cb
        \/ current[u] # NoContext /\ MakeMetalCommandBuffer(current[u])
    BY <1>1 DEF Call, Bind, Encode, EnsureCommandBufferValid, ResetResource, Map,
                IsResultAvailable, Flush, Finish, Release, Destroy, Terminate
  <2>3. current[t] # NoContext => cb'[current[t]] = cb[current[t]]
    BY <2>2 DEF MakeMetalCommandBuffer, TypeOK, BuffersAccounted
  <2> QED
    BY <2>1, <2>3
<1>2. CASE Proceed(u)
  <2>1. /\ pc'[t] = pc[t] /\ op'[t] = op[t] /\ res'[t] = res[t]
        /\ waitOn'[t] = waitOn[t] /\ current'[t] = current[t]
    BY <1>2 DEF Proceed, NotifyCommitted, Commit, FinishWait, EnsureReady, EnsureWait,
                Return, FinishAllCommands, Goto, TypeOK
  <2>2. \A c \in Contexts : c # current[u] => cb'[c] = cb[c]
    BY <1>2 DEF Proceed, NotifyCommitted, Commit, FinishWait, EnsureReady, EnsureWait,
                Return, FinishAllCommands, TypeOK
  <2>3. current[t] # NoContext => current[t] \in Contexts /\ current[t] # current[u]
    BY DEF TypeOK, BuffersAccounted
  <2> QED
    BY <2>1, <2>2, <2>3
<1> QED
  BY <1>1, <1>2

LEMMA MetalThreads ==
    ASSUME Metal
    PROVE  UNCHANGED <<pc, op, res, waitOn, current, cb, resSerial, counter, tmp,
                       committedSerial, hwCommitted>>
BY DEF Metal, Execute, OnCommandBufferCompleted, queueVars, bufferVars, threadVars, metalVars

LEMMA MapsOwnNext ==
    ASSUME TypeOK, BuffersAccounted, MapsOwn, [Next]_vars
    PROVE  MapsOwn'
<1> USE DEF queueVars, bufferVars, threadVars, metalVars
<1>1. CASE UNCHANGED vars
  BY <1>1 DEF vars, MapsOwn
<1>2. CASE Metal
  BY <1>2, MetalThreads DEF MapsOwn
<1>3. ASSUME NEW u \in Threads, Call(u) \/ Proceed(u),
             /\ pc'[u] \in {"ensure", "wait", "ready"} => op'[u] = "map"
             /\ op'[u] = "map" =>
                  pc'[u] # "idle" /\ current'[u] # NoContext /\ res'[u] \in Uses[current'[u]]
      PROVE  MapsOwn'
  BY <1>3, OtherThread DEF MapsOwn
<1>4. ASSUME NEW u \in Threads, Call(u) PROVE MapsOwn'
  <2>1. /\ pc'[u] \in {"ensure", "wait", "ready"} => op'[u] = "map"
        /\ op'[u] = "map" =>
             pc'[u] # "idle" /\ current'[u] # NoContext /\ res'[u] \in Uses[current'[u]]
    <3>1. ASSUME NEW c \in Contexts, Bind(u, c) PROVE op'[u] # "map" /\ pc'[u] = "idle"
      BY <3>1 DEF Bind, CanEnter, MapsOwn
    <3>2. ASSUME NEW r \in Resources, Encode(u, r) \/ ResetResource(u, r)
          PROVE  op'[u] # "map" /\ pc'[u] = "idle"
      BY <3>2 DEF Encode, ResetResource, CanEnter, MapsOwn
    <3>3. ASSUME NEW r \in Resources, Map(u, r)
          PROVE  /\ pc'[u] # "idle" /\ op'[u] = "map"
                 /\ current'[u] # NoContext /\ res'[u] \in Uses[current'[u]]
      BY <3>3 DEF Map, Begin, FlushFirst, TypeOK
    <3>4. ASSUME NEW r \in Resources, IsResultAvailable(u, r)
          PROVE  op'[u] # "map" /\ pc'[u] \in {"notify", "answer"}
      BY <3>4 DEF IsResultAvailable, Begin, FlushFirst, TypeOK
    <3>5. ASSUME Flush(u) \/ Finish(u) \/ Destroy(u)
          PROVE  op'[u] # "map" /\ pc'[u] \in {"notify", "waitOwn"}
      BY <3>5 DEF Flush, Finish, Destroy, Begin, FlushFirst, TypeOK
    <3>6. ASSUME Release(u) PROVE op'[u] # "map" /\ pc'[u] \in {"notify", "idle"}
      BY <3>6 DEF Release, Begin, CanEnter, TypeOK, MapsOwn
    <3>7. ASSUME Terminate(u) PROVE op'[u] # "map" /\ pc'[u] = "drain"
      BY <3>7 DEF Terminate, Begin, TypeOK
    <3> QED
      BY <1>4, <3>1, <3>2, <3>3, <3>4, <3>5, <3>6, <3>7 DEF Call
  <2> QED
    BY <1>3, <1>4, <2>1
<1>5. ASSUME NEW u \in Threads, Proceed(u) PROVE MapsOwn'
  <2>1. PICK next : Goto(u, next)
    BY <1>5 DEF Proceed, NotifyCommitted, Commit, FinishWait, EnsureReady, EnsureWait,
                Return, FinishAllCommands
  <2>2. /\ pc[u] # "idle" /\ pc'[u] = next
        /\ next # "idle" => res'[u] = res[u]
        /\ op'[u] = IF next = "idle" THEN "none" ELSE op[u]
    BY <1>5, <2>1 DEF Proceed, NotifyCommitted, Commit, FinishWait, EnsureReady, EnsureWait,
                      Return, FinishAllCommands, Goto, TypeOK
  <2>3. next \in {"ensure", "wait", "ready"} => op[u] = "map"
    <3>1. ASSUME Commit(u) PROVE next \in {"ensure", "wait", "ready"} => op[u] = "map"
      <4>1. next = AfterFlush(op[u])
        BY <2>2, <3>1 DEF Commit, Goto, TypeOK
      <4> QED
        BY <4>1 DEF AfterFlush
    <3>2. ASSUME EnsureReady(u) \/ EnsureWait(u) PROVE op[u] = "map"
      BY <3>2 DEF EnsureReady, EnsureWait, MapsOwn
    <3>3. ASSUME NotifyCommitted(u) \/ FinishWait(u) \/ Return(u) \/ FinishAllCommands(u)
          PROVE  next \in {"commit", "idle"}
      BY <2>2, <3>3 DEF NotifyCommitted, FinishWait, Return, FinishAllCommands, Goto, TypeOK
    <3> QED
      BY <1>5, <3>1, <3>2, <3>3 DEF Proceed
  <2>4. op'[u] = "map" => current'[u] = current[u]
    BY <1>5, <2>2 DEF Proceed, NotifyCommitted, Commit, FinishWait, EnsureReady, EnsureWait,
                      Return, FinishAllCommands, TypeOK, MapsOwn, Goto
  <2> QED
    BY <1>3, <1>5, <2>2, <2>3, <2>4 DEF MapsOwn
<1> QED
  BY <1>1, <1>2, <1>4, <1>5 DEF Next

\* What a call of Buffer::map reads about its resource only another context
\* that shares it could change, and the global mutex keeps that one out.
LEMMA MappedUntouched ==
    ASSUME TypeOK, BuffersAccounted, MapsOwn, [Next]_vars,
           NEW t \in Threads, op[t] = "map"
    PROVE  /\ resSerial'[res[t]] <= resSerial[res[t]]
           /\ \A x \in uses' : x[2] = res[t] => x \in uses
<1> USE DEF queueVars, bufferVars, threadVars, metalVars
<1>0. res[t] \in Resources /\ \A r \in Resources : resSerial[r] \in Nat
  BY DEF TypeOK
<1>1. ASSUME NEW u \in Threads, NEW r \in Resources, Encode(u, r)
      PROVE  r # res[t]
  <2> SUFFICES ASSUME r = res[t] PROVE FALSE
    OBVIOUS
  <2>1. pc[u] = "idle" /\ u # t /\ current[u] # NoContext
    BY <1>1 DEF Encode, CanEnter, MapsOwn
  <2>2. /\ current[u] \in Contexts /\ current[t] \in Contexts /\ current[u] # current[t]
        /\ r \in Uses[current[u]] \cap Uses[current[t]]
    BY <1>1, <2>1 DEF Encode, MapsOwn, TypeOK, BuffersAccounted
  <2>3. current[u] \in SharedContexts /\ current[t] \in SharedContexts
    BY <2>2, UsesAssumption
  <2>4. HoldsGlobalMutex(t)
    BY <2>3 DEF HoldsGlobalMutex, MapsOwn
  <2> QED
    BY <1>1, <2>3, <2>4 DEF Encode, CanEnter
<1>2. ASSUME NEW u \in Threads, NEW r \in Resources, Encode(u, r)
      PROVE  /\ resSerial'[res[t]] <= resSerial[res[t]]
             /\ \A x \in uses' : x[2] = res[t] => x \in uses
  <2>1. PICK s : SetUsedBy(s, r)
    BY <1>2 DEF Encode
  <2>2. resSerial'[res[t]] = resSerial[res[t]]
    BY <1>1, <1>2, <2>1 DEF SetUsedBy, TypeOK
  <2> QED
    BY <1>0, <1>1, <1>2, <2>1, <2>2 DEF SetUsedBy
<1>3. ASSUME NEW u \in Threads, NEW r \in Resources, ResetResource(u, r)
      PROVE  /\ resSerial'[res[t]] <= resSerial[res[t]]
             /\ \A x \in uses' : x[2] = res[t] => x \in uses
  <2>1. resSerial'[res[t]] \in {0, resSerial[res[t]]} /\ uses' \subseteq uses
    BY <1>0, <1>3 DEF ResetResource, TypeOK
  <2> QED
    BY <1>0, <2>1
<1>4. ASSUME NEW u \in Threads, Call(u)
      PROVE  \/ UNCHANGED <<resSerial, uses>>
             \/ \E r \in Resources : Encode(u, r) \/ ResetResource(u, r)
  BY <1>4 DEF Call, Bind, Map, IsResultAvailable, Flush, Finish, Release, Destroy, Terminate
<1>5. ASSUME NEW u \in Threads, Proceed(u) PROVE UNCHANGED <<resSerial, uses>>
  BY <1>5 DEF Proceed, NotifyCommitted, Commit, FinishWait, EnsureReady, EnsureWait,
              Return, FinishAllCommands
<1>6. ASSUME Metal \/ UNCHANGED vars PROVE resSerial' = resSerial /\ uses' \subseteq uses
  BY <1>6 DEF Metal, Execute, OnCommandBufferCompleted, vars
<1>7. CASE resSerial' = resSerial /\ uses' \subseteq uses
  BY <1>0, <1>7
<1> QED
  BY <1>2, <1>3, <1>4, <1>5, <1>6, <1>7 DEF Next

LEMMA UsesCoveredNext ==
    ASSUME QueueInv, UsesCovered, [Next]_vars
    PROVE  UsesCovered'
<1> USE DEF queueVars, bufferVars, threadVars, metalVars
<1>0. TypeOK /\ counter \in Nat
  BY DEF QueueInv, TypeOK
<1>1. ASSUME NEW u \in Threads, NEW r \in Resources, Encode(u, r) PROVE UsesCovered'
  BY <1>1, UsesCoveredEncode
<1>2. ASSUME NEW u \in Threads, NEW r \in Resources, ResetResource(u, r) PROVE UsesCovered'
  BY <1>2, UsesCoveredReset
<1>3. ASSUME NEW u \in Threads, Call(u)
      PROVE  \/ UNCHANGED <<resSerial, uses, counter>>
             \/ \E r \in Resources : Encode(u, r) \/ ResetResource(u, r)
  BY <1>3 DEF Call, Bind, Map, IsResultAvailable, Flush, Finish, Release, Destroy, Terminate
<1>4. ASSUME NEW u \in Threads, Proceed(u) PROVE UNCHANGED <<resSerial, uses, counter>>
  BY <1>4 DEF Proceed, NotifyCommitted, Commit, FinishWait, EnsureReady, EnsureWait,
              Return, FinishAllCommands
<1>5. ASSUME Metal \/ UNCHANGED vars
      PROVE  UNCHANGED <<resSerial, counter>> /\ uses' \subseteq uses
  BY <1>5 DEF Metal, Execute, OnCommandBufferCompleted, vars
<1>6. ASSUME UNCHANGED <<resSerial, counter>>, uses' \subseteq uses PROVE UsesCovered'
  BY <1>6 DEF UsesCovered
<1> QED
  BY <1>1, <1>2, <1>3, <1>4, <1>5, <1>6 DEF Next

-----------------------------------------------------------------------------
(* What the loop of ensureResourceReadyForCPU may leave behind.             *)

\* A waiting thread goes on waiting until the handler of its entry has run.
LEMMA WaitingStep ==
    ASSUME TypeOK, BuffersAccounted, [Next]_vars, NEW v \in Threads, pc[v] = "wait"
    PROVE  \/ pc'[v] = "wait" /\ waitOn'[v] = waitOn[v]
           \/ waitOn[v] \in handled
<1> USE DEF queueVars, bufferVars, threadVars, metalVars
<1>1. CASE UNCHANGED vars
  BY <1>1 DEF vars
<1>2. CASE Metal
  BY <1>2, MetalThreads
<1>3. ASSUME NEW u \in Threads, Call(u) \/ Proceed(u), u # v
      PROVE  pc'[v] = "wait" /\ waitOn'[v] = waitOn[v]
  BY <1>3, OtherThread
<1>4. CASE Call(v)
  BY <1>4 DEF Call, Bind, Encode, ResetResource, Map, IsResultAvailable, Flush, Finish,
              Release, Destroy, Terminate, Begin, CanEnter
<1>5. CASE Proceed(v)
  BY <1>5 DEF Proceed, NotifyCommitted, Commit, FinishWait, EnsureReady, EnsureWait,
              Return, FinishAllCommands
<1> QED
  BY <1>1, <1>2, <1>3, <1>4, <1>5 DEF Next

LEMMA CompletedGrows ==
    ASSUME TypeOK, [Next]_vars
    PROVE  /\ completedSerial \in Nat /\ completedSerial' \in Nat
           /\ completedSerial <= completedSerial'
<1>1. completedSerial \in Nat
  BY DEF TypeOK
<1>2. ASSUME NEW s \in Serials, OnCommandBufferCompleted(s)
      PROVE  completedSerial' \in Nat /\ completedSerial <= completedSerial'
  BY <1>1, <1>2, MaxSerialAssumption DEF OnCommandBufferCompleted, Larger, Serials, queueVars
<1> QED
  BY <1>1, <1>2, HandledStep

\* Buffer s is complete, or another thread than t has taken its entry along.
DoneOrTaken(t, s) ==
    \/ s <= completedSerial
    \/ \E v \in Threads \ {t} : pc[v] = "wait" /\ waitOn[v] = s

ReadySound ==
    \A t \in Threads : pc[t] = "ready" =>
        \A x \in uses : x[2] = res[t] => DoneOrTaken(t, x[1])

LEMMA DoneOrTakenStays ==
    ASSUME TypeOK, BuffersAccounted, HandledAcknowledged, [Next]_vars,
           NEW t \in Threads, NEW s \in Nat, DoneOrTaken(t, s)
    PROVE  DoneOrTaken(t, s)'
<1>1. /\ completedSerial \in Nat /\ completedSerial' \in Nat
      /\ completedSerial <= completedSerial'
  BY CompletedGrows
<1>2. CASE s <= completedSerial
  BY <1>1, <1>2 DEF DoneOrTaken
<1>3. ASSUME NEW v \in Threads \ {t}, pc[v] = "wait", waitOn[v] = s
      PROVE  DoneOrTaken(t, s)'
  <2>1. CASE pc'[v] = "wait" /\ waitOn'[v] = waitOn[v]
    BY <1>3, <2>1 DEF DoneOrTaken
  <2>2. CASE s \in handled
    BY <1>2, <2>2 DEF HandledAcknowledged
  <2> QED
    BY <1>3, <2>1, <2>2, WaitingStep
<1> QED
  BY <1>2, <1>3 DEF DoneOrTaken

\* A thread that leaves the loop: the resource is not in use, or the queue is
\* empty and then NoEntryLost tells where the entries are.
LEMMA LeavesLoop ==
    ASSUME QueueInv, DrainInv, UsesCovered, NEW t \in Threads, EnsureReady(t),
           pc'[t] = "ready", NEW x \in uses, x[2] = res[t]
    PROVE  DoneOrTaken(t, x[1])
<1>1. /\ TypeOK /\ x[1] \in Nat /\ res[t] \in Resources /\ resSerial[res[t]] \in Nat
      /\ counter \in Nat /\ completedSerial \in Nat
  BY DEF QueueInv, TypeOK
<1>2. x[1] > 0 /\ x[1] <= resSerial[res[t]] /\ resSerial[res[t]] < counter
  BY <1>1 DEF UsesCovered
<1>3. CASE ~IsResourceBeingUsedByGPU(res[t])
  BY <1>1, <1>2, <1>3 DEF IsResourceBeingUsedByGPU, DoneOrTaken
<1>4. CASE queue = <<>> /\ x[1] > completedSerial
  <2>1. x[1] \in (completedSerial + 1)..(counter - 1)
    BY <1>1, <1>2, <1>4
  <2>2. x[1] \notin Entries(queue) \cup Entries(tmp)
    BY <1>4 DEF DrainInv, Entries
  <2>3. PICK v \in Threads : pc[v] = "wait" /\ waitOn[v] = x[1]
    BY <2>1, <2>2 DEF QueueInv, NoEntryLost
  <2>4. v # t
    BY <2>3 DEF EnsureReady
  <2> QED
    BY <2>3, <2>4 DEF DoneOrTaken
<1>5. ~IsResourceBeingUsedByGPU(res[t]) \/ queue = <<>>
  BY <1>1 DEF EnsureReady, Goto, TypeOK
<1> QED
  BY <1>1, <1>3, <1>4, <1>5 DEF DoneOrTaken

LEMMA ReadySoundNext ==
    ASSUME QueueInv, DrainInv, UsesCovered, MapsOwn, ReadySound, [Next]_vars
    PROVE  ReadySound'
<1> USE DEF queueVars, bufferVars, threadVars, metalVars
<1>0. TypeOK /\ BuffersAccounted /\ HandledAcknowledged
  BY DEF QueueInv
<1> SUFFICES ASSUME NEW t \in Threads, pc'[t] = "ready",
                    NEW x \in uses', x[2] = res'[t]
             PROVE  DoneOrTaken(t, x[1])'
  BY DEF ReadySound
<1>1. ASSUME pc[t] = "ready", res'[t] = res[t] PROVE DoneOrTaken(t, x[1])'
  <2>1. x \in uses /\ x[1] \in Nat
    BY <1>0, <1>1, MappedUntouched DEF MapsOwn, TypeOK
  <2> QED
    BY <1>0, <1>1, <2>1, DoneOrTakenStays DEF ReadySound
<1>2. ASSUME EnsureReady(t) PROVE DoneOrTaken(t, x[1])'
  <2>1. x \in uses /\ x[1] \in Nat /\ res'[t] = res[t]
    BY <1>0, <1>2 DEF EnsureReady, Goto, TypeOK
  <2> QED
    BY <1>0, <1>2, <2>1, LeavesLoop, DoneOrTakenStays
<1>3. CASE UNCHANGED vars
  BY <1>1, <1>3 DEF vars
<1>4. CASE Metal
  BY <1>1, <1>4, MetalThreads
<1>5. ASSUME NEW u \in Threads, Call(u) \/ Proceed(u), u # t PROVE DoneOrTaken(t, x[1])'
  BY <1>0, <1>1, <1>5, OtherThread
<1>6. CASE Call(t)
  <2>1. pc'[t] # "ready" \/ (pc[t] = "ready" /\ res'[t] = res[t])
    BY <1>0, <1>6 DEF Call, Bind, Encode, ResetResource, Map, IsResultAvailable, Flush, Finish,
                      Release, Destroy, Terminate, Begin, CanEnter, FlushFirst, TypeOK
  <2> QED
    BY <1>1, <2>1
<1>7. CASE Proceed(t)
  <2>1. ASSUME ~EnsureReady(t) PROVE pc'[t] # "ready"
    BY <1>0, <1>7, <2>1 DEF Proceed, NotifyCommitted, Commit, FinishWait, EnsureWait,
                            Return, FinishAllCommands, Goto, AfterFlush, TypeOK
  <2> QED
    BY <1>2, <2>1
<1> QED
  BY <1>3, <1>4, <1>5, <1>6, <1>7 DEF Next

\* ensureResourceReadyForCPU, for any number of threads, contexts and resources,
\* shared or not: what it leaves to be executed another thread has taken along
\* and waits for.
THEOREM EnsureMeansReadyAlways == Spec => []EnsureMeansReady
<1>1. Init => DrainInv /\ UsesCovered /\ MapsOwn /\ ReadySound
  BY DEF Init, DrainInv, QueueOrdered, NewestHeld, UsesCovered, MapsOwn, ReadySound
<1>2. QueueInv /\ UsesCovered /\ MapsOwn /\ [Next]_vars => UsesCovered' /\ MapsOwn'
  BY UsesCoveredNext, MapsOwnNext DEF QueueInv
<1>3. QueueInv /\ DrainInv /\ UsesCovered /\ MapsOwn /\ ReadySound /\ [Next]_vars => ReadySound'
  BY ReadySoundNext
<1>4. QueueInv /\ UsesCovered /\ ReadySound => EnsureMeansReady
  <2> SUFFICES ASSUME QueueInv, UsesCovered, ReadySound, NEW t \in Threads, pc[t] = "ready",
                      NEW u \in uses, u[2] = res[t]
               PROVE  \/ u[1] \in executed
                      \/ \E v \in Threads \ {t} : pc[v] = "wait" /\ waitOn[v] = u[1]
    BY DEF EnsureMeansReady
  <2>1. u[1] \in Nat /\ u[1] > 0 /\ completedSerial \in Nat
    BY DEF QueueInv, TypeOK, UsesCovered
  <2>2. CompletedIsDone
    BY DEF QueueInv, TypeOK, GpuInOrder, HandledAcknowledged, CompletedIsDone
  <2> QED
    BY <2>1, <2>2 DEF ReadySound, DoneOrTaken, CompletedIsDone
<1> QED
  BY <1>1, <1>2, <1>3, <1>4, DrainNext, QueueInvariant, PTL DEF Spec

-----------------------------------------------------------------------------
(* Whom a thread may wait for.                                              *)

\* What is not committed is in progress in a context that is current: contexts
\* are flushed before they are left.
Held ==
    /\ \A s \in 1..(counter - 1) :
         \/ s \in hwCommitted
         \/ \E t \in Threads : /\ current[t] # NoContext /\ Valid(current[t])
                               /\ cb[current[t]].serial = s
    /\ \A c \in Contexts : cb[c].committed => cb[c].serial \in hwCommitted

\* A call that waits has committed the buffer of its context, unless its
\* resource needs none of it.
Flushed(t) ==
    /\ pc[t] = "waitOwn" => current[t] # NoContext /\ ~Valid(current[t])
    /\ pc[t] = "ensure" => ~Valid(current[t]) \/ resSerial[res[t]] <= completedSerial
    /\ pc[t] = "wait" => ~Valid(current[t]) /\ waitOn[t] \in 1..(counter - 1)

FlushedFirst == \A t \in Threads : Flushed(t)

\* A step that leaves the buffers alone, and each current context to its thread.
LEMMA HeldFrame ==
    ASSUME Held, UNCHANGED <<counter, cb, hwCommitted>>,
           \A t \in Threads : current[t] # NoContext /\ Valid(current[t]) => current'[t] = current[t]
    PROVE  Held'
BY DEF Held, Valid

LEMMA HeldEncode ==
    ASSUME TypeOK, BuffersAccounted, GpuInOrder, Held,
           NEW t \in Threads, NEW r \in Resources, Encode(t, r)
    PROVE  Held'
<1> USE DEF queueVars, bufferVars, threadVars, metalVars
<1> DEFINE c == current[t]
<1>1. /\ c # NoContext /\ c \in Contexts /\ EnsureCommandBufferValid(c)
      /\ UNCHANGED <<current, hwCommitted>> /\ counter \in Nat /\ counter > 0
  BY DEF Encode, TypeOK, GpuInOrder
<1>2. CASE Valid(c)
  BY <1>1, <1>2, HeldFrame DEF EnsureCommandBufferValid
<1>3. CASE ~Valid(c)
  <2>1. /\ counter' = counter + 1
        /\ cb' = [cb EXCEPT ![c] = [serial |-> counter, committed |-> FALSE]]
    BY <1>1, <1>3 DEF EnsureCommandBufferValid, MakeMetalCommandBuffer
  <2>2. /\ cb'[c] = [serial |-> counter, committed |-> FALSE]
        /\ \A d \in Contexts : d # c => cb'[d] = cb[d]
    BY <1>1, <2>1 DEF TypeOK
  <2>3. ASSUME NEW s \in 1..(counter - 1), s \notin hwCommitted
        PROVE  \E u \in Threads : /\ current'[u] # NoContext /\ (Valid(current[u]))'
                                  /\ cb'[current'[u]].serial = s
    <3>1. PICK u \in Threads : /\ current[u] # NoContext /\ Valid(current[u])
                              /\ cb[current[u]].serial = s
      BY <2>3 DEF Held
    <3>2. current[u] \in Contexts /\ current[u] # c
      BY <1>3, <3>1 DEF TypeOK
    <3>3. cb'[current'[u]] = cb[current[u]] /\ current'[u] = current[u]
      BY <1>1, <2>2, <3>2
    <3> QED
      BY <3>1, <3>3 DEF Valid
  <2>4. current'[t] # NoContext /\ (Valid(current[t]))' /\ cb'[current'[t]].serial = counter
    BY <1>1, <2>2 DEF Valid
  <2>5. \A d \in Contexts : cb'[d].committed => cb'[d].serial \in hwCommitted
    BY <2>2 DEF Held
  <2>6. \A s \in 1..(counter' - 1) : s \in 1..(counter - 1) \/ s = counter
    BY <1>1, <2>1
  <2> QED
    BY <1>1, <2>3, <2>4, <2>5, <2>6 DEF Held
<1> QED
  BY <1>2, <1>3

LEMMA HeldCommit ==
    ASSUME TypeOK, BuffersAccounted, Held, NEW t \in Threads, Commit(t)
    PROVE  Held'
<1> USE DEF queueVars, bufferVars, threadVars, metalVars
<1> DEFINE c == current[t]
<1>1. /\ c \in Contexts /\ c # NoContext
      /\ hwCommitted' = hwCommitted \cup {cb[c].serial}
      /\ cb' = [cb EXCEPT ![c].committed = TRUE] /\ counter' = counter
      /\ \A u \in Threads : u # t => current'[u] = current[u]
  BY DEF Commit, TypeOK, BuffersAccounted
<1>2. /\ cb'[c].serial = cb[c].serial
      /\ \A d \in Contexts : d # c => cb'[d] = cb[d]
  BY <1>1 DEF TypeOK
<1>3. ASSUME NEW s \in 1..(counter - 1), s \notin hwCommitted'
      PROVE  \E u \in Threads : /\ current'[u] # NoContext /\ (Valid(current[u]))'
                                /\ cb'[current'[u]].serial = s
  <2>1. PICK u \in Threads : /\ current[u] # NoContext /\ Valid(current[u])
                            /\ cb[current[u]].serial = s
    BY <1>1, <1>3 DEF Held
  <2>2. current[u] # c /\ u # t /\ current[u] \in Contexts
    BY <1>1, <1>3, <2>1 DEF TypeOK
  <2>3. cb'[current'[u]] = cb[current[u]] /\ current'[u] = current[u]
    BY <1>1, <1>2, <2>2
  <2> QED
    BY <2>1, <2>3 DEF Valid
<1>4. \A d \in Contexts : cb'[d].committed => cb'[d].serial \in hwCommitted'
  BY <1>1, <1>2 DEF Held
<1> QED
  BY <1>1, <1>3, <1>4 DEF Held

\* ~CommandBuffer lets go of a buffer that was committed.
LEMMA HeldFinish ==
    ASSUME TypeOK, BuffersAccounted, Held, FlushedFirst, NEW t \in Threads, FinishWait(t)
    PROVE  Held'
<1> USE DEF queueVars, bufferVars, threadVars, metalVars
<1> DEFINE c == current[t]
<1>1. /\ pc[t] = "waitOwn" /\ c # NoContext /\ c \in Contexts /\ ~Valid(c)
      /\ UNCHANGED <<counter, hwCommitted>>
      /\ \A u \in Threads : u # t => current'[u] = current[u]
      /\ \A d \in Contexts : cb'[d] = cb[d] \/ (d = c /\ cb'[d] = NoBuffer)
  BY DEF FinishWait, TypeOK, FlushedFirst, Flushed
<1>2. ASSUME NEW s \in 1..(counter - 1), s \notin hwCommitted
      PROVE  \E u \in Threads : /\ current'[u] # NoContext /\ (Valid(current[u]))'
                                /\ cb'[current'[u]].serial = s
  <2>1. PICK u \in Threads : /\ current[u] # NoContext /\ Valid(current[u])
                            /\ cb[current[u]].serial = s
    BY <1>2 DEF Held
  <2>2. current[u] # c /\ u # t /\ current[u] \in Contexts
    BY <1>1, <2>1 DEF TypeOK
  <2>3. cb'[current'[u]] = cb[current[u]] /\ current'[u] = current[u]
    BY <1>1, <2>2
  <2> QED
    BY <2>1, <2>3 DEF Valid
<1>3. \A d \in Contexts : cb'[d].committed => cb'[d].serial \in hwCommitted
  BY <1>1 DEF Held, NoBuffer
<1> QED
  BY <1>1, <1>2, <1>3 DEF Held

LEMMA HeldNext ==
    ASSUME QueueInv, Held, FlushedFirst, [Next]_vars
    PROVE  Held'
<1> USE DEF queueVars, bufferVars, threadVars, metalVars
<1>0. TypeOK /\ BuffersAccounted /\ GpuInOrder
  BY DEF QueueInv
<1>1. CASE UNCHANGED vars
  BY <1>1, HeldFrame DEF vars
<1>2. CASE Metal
  BY <1>2, HeldFrame, MetalThreads
<1>3. ASSUME NEW t \in Threads, Call(t), \A r \in Resources : ~Encode(t, r)
      PROVE  Held'
  <2>1. /\ UNCHANGED <<counter, cb, hwCommitted>>
        /\ current[t] # NoContext /\ Valid(current[t]) => current'[t] = current[t]
    BY <1>3 DEF Call, Bind, ResetResource, Map, IsResultAvailable, Flush, Finish, Release,
                Destroy, Terminate, Begin
  <2> QED
    BY <1>0, <1>3, <2>1, HeldFrame, OtherThread
<1>4. ASSUME NEW t \in Threads, Proceed(t), ~Commit(t), ~FinishWait(t) PROVE Held'
  <2>1. UNCHANGED <<counter, cb, hwCommitted, current>>
    BY <1>4 DEF Proceed, NotifyCommitted, EnsureReady, EnsureWait, Return, FinishAllCommands
  <2> QED
    BY <2>1, HeldFrame
<1> QED
  BY <1>0, <1>1, <1>2, <1>3, <1>4, HeldEncode, HeldCommit, HeldFinish DEF Next

LEMMA CounterGrows ==
    ASSUME TypeOK, BuffersAccounted, [Next]_vars
    PROVE  counter \in Nat /\ counter' \in Nat /\ counter <= counter'
<1>0. counter \in Nat /\ counter' \in Nat
  <2>1. TypeOK'
    BY TypeNext
  <2> QED
    BY <2>1 DEF TypeOK
<1>1. CASE \E c \in Contexts : MakeMetalCommandBuffer(c)
  BY <1>0, <1>1 DEF MakeMetalCommandBuffer
<1>2. CASE ~ \E c \in Contexts : MakeMetalCommandBuffer(c)
  <2>1. counter' = counter
    BY <1>2, GpuStep DEF Execute, queueVars
  <2> QED
    BY <1>0, <2>1
<1> QED
  BY <1>1, <1>2

\* The step of another thread, or of Metal.
LEMMA FlushedOther ==
    ASSUME TypeOK, BuffersAccounted, MapsOwn, [Next]_vars, NEW t \in Threads, Flushed(t),
           UNCHANGED <<pc[t], res[t], waitOn[t], current[t]>>,
           current[t] # NoContext => cb'[current[t]] = cb[current[t]]
    PROVE  Flushed(t)'
<1>1. CASE pc[t] = "waitOwn"
  BY <1>1 DEF Flushed, Valid
<1>2. CASE pc[t] = "ensure"
  <2>1. /\ current[t] # NoContext /\ res[t] \in Resources
        /\ resSerial'[res[t]] <= resSerial[res[t]] /\ completedSerial <= completedSerial'
    BY <1>2, MappedUntouched, CompletedGrows DEF MapsOwn, TypeOK
  <2>2. (Valid(current[t]))' = Valid(current[t])
    BY <2>1 DEF Valid
  <2>3. /\ resSerial[res[t]] \in Nat /\ resSerial'[res[t]] \in Nat
        /\ completedSerial \in Nat /\ completedSerial' \in Nat
    <3>1. TypeOK'
      BY TypeNext
    <3> QED
      BY <2>1, <3>1 DEF TypeOK
  <2> QED
    BY <1>2, <2>1, <2>2, <2>3 DEF Flushed
<1>3. CASE pc[t] = "wait"
  <2>1. current[t] # NoContext /\ counter \in Nat /\ counter' \in Nat /\ counter <= counter'
    BY <1>3, CounterGrows DEF MapsOwn
  <2>2. (Valid(current[t]))' = Valid(current[t])
    BY <2>1 DEF Valid
  <2> QED
    BY <1>3, <2>1, <2>2 DEF Flushed
<1> QED
  BY <1>1, <1>2, <1>3 DEF Flushed

LEMMA FlushedCall ==
    ASSUME QueueInv, NEW t \in Threads, Call(t), pc'[t] # "idle"
    PROVE  Flushed(t)'
<1> USE DEF queueVars, bufferVars, threadVars, metalVars
<1>0. TypeOK
  BY DEF QueueInv
<1>1. ASSUME NEW c \in Contexts, Bind(t, c) PROVE FALSE
  BY <1>1 DEF Bind, CanEnter
<1>2. ASSUME NEW r \in Resources, Encode(t, r) \/ ResetResource(t, r) PROVE FALSE
  BY <1>2 DEF Encode, ResetResource, CanEnter
<1>3. ASSUME NEW r \in Resources, Map(t, r) PROVE Flushed(t)'
  <2> DEFINE next == IF IsResourceBeingUsedByGPU(r) THEN FlushFirst(current[t], "ensure") ELSE "ensure"
  <2>1. /\ pc'[t] = next /\ res'[t] = r /\ completedSerial \in Nat /\ resSerial[r] \in Nat
        /\ UNCHANGED <<completedSerial, cb, resSerial, current>>
    BY <1>0, <1>3 DEF Map, Begin, TypeOK
  <2>2. /\ next \in {"notify", "ensure"}
        /\ next = "ensure" => ~Valid(current[t]) \/ resSerial[r] <= completedSerial
    BY <2>1 DEF FlushFirst, IsResourceBeingUsedByGPU
  <2> HIDE DEF next
  <2> QED
    BY <2>1, <2>2 DEF Flushed, Valid
<1>4. ASSUME NEW r \in Resources, IsResultAvailable(t, r) PROVE Flushed(t)'
  <2>1. pc'[t] \in {"notify", "answer"}
    BY <1>0, <1>4 DEF IsResultAvailable, Begin, FlushFirst, TypeOK
  <2> QED
    BY <2>1 DEF Flushed
<1>5. ASSUME Flush(t) \/ Release(t) \/ Terminate(t) PROVE Flushed(t)'
  <2>1. pc'[t] \in {"notify", "drain"}
    BY <1>0, <1>5 DEF Flush, Release, Terminate, Begin, CanEnter, TypeOK
  <2> QED
    BY <2>1 DEF Flushed
<1>6. ASSUME Finish(t) \/ Destroy(t) PROVE Flushed(t)'
  <2>1. /\ pc'[t] \in {"notify", "waitOwn"} /\ UNCHANGED <<cb, current>>
        /\ current[t] # NoContext /\ (pc'[t] = "waitOwn" => ~Valid(current[t]))
    BY <1>0, <1>6 DEF Finish, Destroy, Begin, FlushFirst, TypeOK
  <2> QED
    BY <2>1 DEF Flushed, Valid
<1> QED
  BY <1>1, <1>2, <1>3, <1>4, <1>5, <1>6 DEF Call

LEMMA FlushedProceed ==
    ASSUME QueueInv, DrainInv, NEW t \in Threads, Flushed(t), Proceed(t), pc'[t] # "idle"
    PROVE  Flushed(t)'
<1> USE DEF queueVars, bufferVars, threadVars, metalVars
<1>0. TypeOK /\ BuffersAccounted
  BY DEF QueueInv
<1>1. ASSUME NotifyCommitted(t) PROVE Flushed(t)'
  BY <1>0, <1>1 DEF NotifyCommitted, Goto, TypeOK, Flushed
<1>2. ASSUME Commit(t) PROVE Flushed(t)'
  <2>1. /\ current[t] # NoContext /\ current[t] \in Contexts /\ pc'[t] = AfterFlush(op[t])
        /\ cb' = [cb EXCEPT ![current[t]].committed = TRUE]
    BY <1>0, <1>2 DEF Commit, Goto, TypeOK, BuffersAccounted
  <2>2. op[t] # "release" /\ pc'[t] \in {"ensure", "answer", "waitOwn"}
    BY <2>1 DEF AfterFlush
  <2>3. current'[t] = current[t] /\ ~(Valid(current[t]))'
    BY <1>0, <1>2, <2>1, <2>2 DEF Commit, Valid, TypeOK
  <2> QED
    BY <2>1, <2>2, <2>3 DEF Flushed
<1>3. ASSUME FinishWait(t) \/ Return(t) \/ FinishAllCommands(t) PROVE FALSE
  BY <1>0, <1>3 DEF FinishWait, Return, FinishAllCommands, Goto, TypeOK
<1>4. ASSUME EnsureReady(t) PROVE Flushed(t)'
  <2>1. CASE IsResourceBeingUsedByGPU(res[t]) /\ queue # <<>>
    <3>1. /\ pc[t] = "ensure" /\ pc'[t] = "wait" /\ waitOn'[t] = Head(queue)
          /\ UNCHANGED <<current, cb, counter>> /\ queue \in Seq(Nat)
          /\ completedSerial \in Nat /\ counter \in Nat /\ resSerial[res[t]] \in Nat
      BY <1>0, <1>4, <2>1 DEF EnsureReady, Goto, TypeOK
    <3>2. ~Valid(current[t])
      BY <2>1, <3>1 DEF IsResourceBeingUsedByGPU, Flushed
    <3>3. Head(queue) = queue[1] /\ 1 \in 1..Len(queue) /\ queue[1] \in Nat
      BY <2>1, <3>1, EmptySeq
    <3>4. Head(queue) \in 1..(counter - 1)
      BY <3>1, <3>3 DEF DrainInv, QueueOrdered
    <3> QED
      BY <3>1, <3>2, <3>4 DEF Flushed, Valid
  <2>2. CASE ~(IsResourceBeingUsedByGPU(res[t]) /\ queue # <<>>)
    BY <1>0, <1>4, <2>2 DEF EnsureReady, Goto, TypeOK, Flushed
  <2> QED
    BY <2>1, <2>2
<1>5. ASSUME EnsureWait(t) PROVE Flushed(t)'
  BY <1>0, <1>5 DEF EnsureWait, Goto, TypeOK, Flushed, Valid
<1> QED
  BY <1>1, <1>2, <1>3, <1>4, <1>5 DEF Proceed

LEMMA FlushedFirstNext ==
    ASSUME QueueInv, DrainInv, MapsOwn, FlushedFirst, [Next]_vars
    PROVE  FlushedFirst'
<1>0. TypeOK /\ BuffersAccounted
  BY DEF QueueInv
<1> SUFFICES ASSUME NEW t \in Threads PROVE Flushed(t)'
  BY DEF FlushedFirst
<1>1. Flushed(t)
  BY DEF FlushedFirst
<1>2. CASE UNCHANGED vars
  BY <1>0, <1>1, <1>2, FlushedOther DEF vars, threadVars, bufferVars
<1>3. CASE Metal
  BY <1>0, <1>1, <1>3, FlushedOther, MetalThreads
<1>4. ASSUME NEW u \in Threads, Call(u) \/ Proceed(u), u # t PROVE Flushed(t)'
  BY <1>0, <1>1, <1>4, FlushedOther, OtherThread
<1>5. CASE pc'[t] = "idle"
  BY <1>5 DEF Flushed
<1>6. CASE (Call(t) \/ Proceed(t)) /\ pc'[t] # "idle"
  BY <1>1, <1>6, FlushedCall, FlushedProceed
<1> QED
  BY <1>2, <1>3, <1>4, <1>5, <1>6 DEF Next

\* The caller's duty that mtl_command_buffer.h 48-51 states is done by every
\* caller: a thread never waits for the buffer its own context has in progress,
\* nor for one that nobody is left to commit, only for what is committed or is
\* in progress in the context of another thread.
THEOREM NeverWaitsForItselfAlways == Spec => []NeverWaitsForItself
<1>1. Init => DrainInv /\ MapsOwn /\ Held /\ FlushedFirst
  BY DEF Init, DrainInv, QueueOrdered, NewestHeld, MapsOwn, Held, FlushedFirst, Flushed, NoBuffer
<1>2. QueueInv /\ MapsOwn /\ [Next]_vars => MapsOwn'
  BY MapsOwnNext DEF QueueInv
<1>3. QueueInv /\ DrainInv /\ MapsOwn /\ Held /\ FlushedFirst /\ [Next]_vars
        => Held' /\ FlushedFirst'
  BY HeldNext, FlushedFirstNext
<1>4. QueueInv /\ Held /\ FlushedFirst => NeverWaitsForItself
  <2> SUFFICES ASSUME QueueInv, Held, FlushedFirst, NEW t \in Threads
               PROVE  /\ pc[t] = "wait" => waitOn[t] \in hwCommitted \cup OpenElsewhere(t)
                      /\ pc[t] = "waitOwn" => cb[current[t]].serial \in hwCommitted \cup {0}
    BY DEF NeverWaitsForItself
  <2>1. ASSUME pc[t] = "wait", waitOn[t] \notin hwCommitted
        PROVE  waitOn[t] \in OpenElsewhere(t)
    <3>1. ~Valid(current[t]) /\ waitOn[t] \in 1..(counter - 1)
      BY <2>1 DEF FlushedFirst, Flushed
    <3>2. PICK u \in Threads : /\ current[u] # NoContext /\ Valid(current[u])
                              /\ cb[current[u]].serial = waitOn[t]
      BY <2>1, <3>1 DEF Held
    <3> QED
      BY <3>1, <3>2 DEF OpenElsewhere
  <2>2. ASSUME pc[t] = "waitOwn" PROVE cb[current[t]].serial \in hwCommitted \cup {0}
    <3>1. current[t] \in Contexts /\ ~Valid(current[t])
      BY <2>2 DEF FlushedFirst, Flushed, QueueInv, TypeOK
    <3> QED
      BY <3>1 DEF Held, Valid
  <2> QED
    BY <2>1, <2>2
<1> QED
  BY <1>1, <1>2, <1>3, <1>4, DrainNext, QueueInvariant, PTL DEF Spec
=============================================================================
