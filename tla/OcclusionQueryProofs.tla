------------------------ MODULE OcclusionQueryProofs ------------------------
(***************************************************************************)
(* Proofs about what a context encodes (OcclusionQuery, CommandEncoding).  *)
(*                                                                         *)
(* The invariant, QueryInv, says that the context is Ready between calls:  *)
(*   - the encoders agree with the command buffer, and no assertion has    *)
(*     failed (Encoding: EncodersAgree, FencesKept);                       *)
(*   - the slots of the queries are entries of the pass being recorded     *)
(*     (Taken), and draws have written slots that were taken (SlotsUsed);  *)
(*   - nothing is used by a command buffer there was not (Past);           *)
(*   - the active query has the last slots, in a pool that was made.       *)
(* All but the last hold in the middle of a call too (Steady), whenever an *)
(* encoder is started or ended.                                            *)
(*                                                                         *)
(* The theorems exclude the uniform buffer at an offset that has to be     *)
(* converted, and a clear that pauses a query when all slots are taken:    *)
(* with these the code breaks the rules.                                   *)
(***************************************************************************)
EXTENDS OcclusionQuery, WellFoundedInduction, TLAPS

Event == [kind : {"signal", "wait"}, value : Nat]

CommandBuffers ==
    [serial : Nat, open : BOOLEAN, active : Encoders \cup {"none"}, pending : Seq(Nat)]

EncoderStates ==
    [recording : BOOLEAN, native : BOOLEAN, blit : BOOLEAN, compute : BOOLEAN, mode : Nat]

QueryStates ==
    [first : Nat, count : Nat, usage : Nat, lastWrite : Nat, encoded : BOOLEAN, memory : BOOLEAN]

\* The states of a context: no assertion has failed.
ContextStates ==
    [cb : CommandBuffers, enc : EncoderStates,
     slots : [Slots -> BOOLEAN], written : SUBSET Slots, events : Seq(Event), failed : {{}},
     device : [managed : BOOLEAN, readWrite : BOOLEAN],
     made : BOOLEAN, allocated : Seq(Queries \cup {NoQuery}), resetFirst : BOOLEAN,
     query : [Queries -> QueryStates],
     active : Queries \cup {NoQuery}, drawn : BOOLEAN,
     uniforms : [usage : Nat, dirty : BOOLEAN], done : Nat]

EncodersAgree(w) ==
    /\ w.enc.recording = (w.cb.active = "render")
    /\ w.enc.blit = (w.cb.active = "blit")
    /\ w.enc.compute = (w.cb.active = "compute")
    /\ w.enc.native => w.enc.recording
    /\ w.cb.active # "none" => w.cb.open
    /\ w.cb.pending # <<>> => w.enc.recording
    /\ ~w.enc.recording => w.enc.mode = 0 /\ w.written = {}

WaitsFollow(events) ==
    \A i \in DOMAIN events :
        events[i].kind = "wait" =>
          \E j \in 1..(i - 1) : events[j].kind = "signal" /\ events[j].value = events[i].value

\* The fences up to s are signalled, in order, and no wait precedes its signal.
Ordered(events, s) == SignalledOnce(events, s) /\ WaitsFollow(events)

\* Of n fences, those that are not pending.
FencesKept(w, n) ==
    LET s == n - Len(w.cb.pending) IN
    /\ s \in Nat /\ Ordered(w.events, s)
    /\ w.cb.pending = [i \in 1..Len(w.cb.pending) |-> s + i]

-----------------------------------------------------------------------------
(* Events. *)

\* The signals of the next k fences are encoded behind the events.
LEMMA OrderedSignals ==
    ASSUME NEW events \in Seq(Event), NEW s \in Nat, NEW k \in Nat, Ordered(events, s)
    PROVE  LET more == [i \in 1..k |-> [kind |-> "signal", value |-> s + i]]
               all == events \o more
           IN  all \in Seq(Event) /\ Ordered(all, s + k)
  <1>. DEFINE more == [i \in 1..k |-> [kind |-> "signal", value |-> s + i]]
              all == events \o more
              m == Len(events)
  <1>0. m \in Nat /\ DOMAIN events = 1..m OBVIOUS
  <1>1. more \in Seq(Event) /\ Len(more) = k /\ \A i \in 1..k : more[i].kind = "signal" /\ more[i].value = s + i
    BY DEF Event
  <1>. HIDE DEF more
  <1>2. all \in Seq(Event) /\ Len(all) = m + k
    <2>1. \A b \in Seq(Event) : events \o b \in Seq(Event) /\ Len(events \o b) = m + Len(b)
      OBVIOUS
    <2>. QED BY <1>1, <2>1
  <1>3. \A i \in 1..m : all[i] = events[i] BY <1>1
  <1>4. \A i \in 1..k : all[m + i].kind = "signal" /\ all[m + i].value = s + i
    <2>. TAKE i \in 1..k
    <2>1. all[m + i] = more[i] BY <1>1, <1>0
    <2>. QED BY <2>1, <1>1
  <1>. HIDE DEF all
  <1>5. DOMAIN all = 1..(m + k) BY <1>2
  <1>6. Signals(all) = Signals(events) \cup ((m + 1)..(m + k))
    <2>1. \A i \in (m + 1)..(m + k) : all[i].kind = "signal" /\ all[i].value = s + (i - m)
      <3>. TAKE i \in (m + 1)..(m + k)
      <3>1. i - m \in 1..k /\ m + (i - m) = i BY <1>0
      <3>. QED BY <3>1, <1>4
    <2>. QED BY <2>1, <1>0, <1>3, <1>5 DEF Signals
  <1>7. \A i \in (m + 1)..(m + k) : all[i].value = s + (i - m)
      <3>. TAKE i \in (m + 1)..(m + k)
      <3>1. i - m \in 1..k /\ m + (i - m) = i BY <1>0
      <3>. QED BY <3>1, <1>4
  <1>8. \A i \in Signals(events) : i \in 1..m /\ all[i].value = events[i].value /\ events[i].value \in 1..s
    <2>. TAKE i \in Signals(events)
    <2>1. i \in 1..m BY <1>0 DEF Signals
    <2>2. events[i].value \in {events[j].value : j \in Signals(events)} OBVIOUS
    <2>. QED BY <2>1, <2>2, <1>3 DEF Ordered, SignalledOnce
  <1>9. {all[i].value : i \in Signals(all)} = 1..(s + k)
    <2>1. {all[i].value : i \in Signals(all)} \subseteq 1..(s + k) BY <1>6, <1>7, <1>8, <1>0
    <2>2. ASSUME NEW x \in 1..(s + k) PROVE \E i \in Signals(all) : all[i].value = x
      <3>1. CASE x <= s
        <4>0. x \in 1..s BY <3>1
        <4>1. x \in {events[j].value : j \in Signals(events)} BY <4>0 DEF Ordered, SignalledOnce
        <4>2. PICK j \in Signals(events) : x = events[j].value BY <4>1
        <4>. QED BY <4>2, <1>8, <1>6
      <3>2. CASE x > s
        <4>1. m + (x - s) \in (m + 1)..(m + k) BY <3>2, <1>0
        <4>2. all[m + (x - s)].value = x BY <4>1, <1>7, <1>0
        <4>. QED BY <4>1, <4>2, <1>6
      <3>. QED BY <3>1, <3>2
    <2>. QED BY <2>1, <2>2
  <1>10. \A i, j \in Signals(all) : i < j => all[i].value < all[j].value
    <2>. TAKE i, j \in Signals(all)
    <2>. HAVE i < j
    <2>1. CASE j \in Signals(events)
      <3>1. i \in Signals(events) BY <2>1, <1>8, <1>6, <1>0
      <3>. QED BY <3>1, <2>1, <1>8 DEF Ordered, SignalledOnce
    <2>2. CASE j \in (m + 1)..(m + k)
      <3>1. all[j].value = s + (j - m) BY <2>2, <1>7
      <3>2. CASE i \in Signals(events)
        <4>1. all[i].value \in 1..s BY <3>2, <1>8
        <4>. QED BY <3>1, <4>1, <2>2, <1>0
      <3>3. CASE i \in (m + 1)..(m + k)
        <4>1. all[i].value = s + (i - m) BY <3>3, <1>7
        <4>. QED BY <3>1, <4>1, <3>3, <2>2, <1>0
      <3>. QED BY <3>2, <3>3, <1>6
    <2>. QED BY <2>1, <2>2, <1>6
  <1>11. WaitsFollow(all)
    <2>. SUFFICES ASSUME NEW i \in DOMAIN all, all[i].kind = "wait"
                  PROVE \E j \in 1..(i - 1) : all[j].kind = "signal" /\ all[j].value = all[i].value
      BY DEF WaitsFollow
    <2>1. i \in 1..m
      <3>1. ~(i \in (m + 1)..(m + k)) BY <1>6 DEF Signals
      <3>. QED BY <3>1, <1>5, <1>0
    <2>2. events[i].kind = "wait" BY <2>1, <1>3
    <2>3. PICK j \in 1..(i - 1) : events[j].kind = "signal" /\ events[j].value = events[i].value
      BY <2>1, <2>2, <1>0 DEF Ordered, WaitsFollow
    <2>. QED BY <2>1, <2>3, <1>3, <1>0
  <1>12. Ordered(all, s + k) BY <1>9, <1>10, <1>11 DEF Ordered, SignalledOnce
  <1>. QED BY <1>2, <1>12 DEF all, more

\* A wait is encoded for a fence that is signalled.
LEMMA OrderedWait ==
    ASSUME NEW events \in Seq(Event), NEW s \in Nat, NEW fence \in 1..s, Ordered(events, s)
    PROVE  LET all == Append(events, [kind |-> "wait", value |-> fence])
           IN  all \in Seq(Event) /\ Ordered(all, s)
  <1>. DEFINE all == Append(events, [kind |-> "wait", value |-> fence])
              m == Len(events)
  <1>0. m \in Nat /\ DOMAIN events = 1..m OBVIOUS
  <1>1. all \in Seq(Event) /\ DOMAIN all = 1..(m + 1) BY DEF Event
  <1>2. \A i \in 1..m : all[i] = events[i] OBVIOUS
  <1>3. all[m + 1].kind = "wait" /\ all[m + 1].value = fence OBVIOUS
  <1>. HIDE DEF all
  <1>4. Signals(all) = Signals(events) /\ Signals(events) \subseteq 1..m
    BY <1>0, <1>1, <1>2, <1>3 DEF Signals
  <1>5. SignalledOnce(all, s)
    <2>1. {all[i].value : i \in Signals(all)} = {events[i].value : i \in Signals(events)} BY <1>4, <1>2
    <2>. QED BY <2>1, <1>4, <1>2 DEF Ordered, SignalledOnce
  <1>6. WaitsFollow(all)
    <2>. SUFFICES ASSUME NEW i \in DOMAIN all, all[i].kind = "wait"
                  PROVE \E j \in 1..(i - 1) : all[j].kind = "signal" /\ all[j].value = all[i].value
      BY DEF WaitsFollow
    <2>1. CASE i \in 1..m
      <3>1. PICK j \in 1..(i - 1) : events[j].kind = "signal" /\ events[j].value = events[i].value
        BY <2>1, <1>2, <1>0 DEF Ordered, WaitsFollow
      <3>. QED BY <2>1, <3>1, <1>2, <1>0
    <2>2. CASE i = m + 1
      <3>1. fence \in {events[j].value : j \in Signals(events)} BY DEF Ordered, SignalledOnce
      <3>2. PICK j \in Signals(events) : events[j].value = fence BY <3>1
      <3>3. j \in 1..m /\ events[j].kind = "signal" BY <3>2, <1>4 DEF Signals
      <3>. QED BY <3>2, <3>3, <2>2, <1>2, <1>3, <1>0
    <2>. QED BY <2>1, <2>2, <1>1, <1>0
  <1>. QED BY <1>1, <1>5, <1>6 DEF all, Ordered

-----------------------------------------------------------------------------
(* Parts of a context. *)

SameQueries(w, v) ==
    /\ v.query = w.query /\ v.allocated = w.allocated /\ v.active = w.active
    /\ v.made = w.made /\ v.resetFirst = w.resetFirst /\ v.drawn = w.drawn
    /\ v.uniforms = w.uniforms /\ v.done = w.done /\ v.device = w.device

SameEncoding(w, v) ==
    /\ v.cb = w.cb /\ v.enc = w.enc /\ v.slots = w.slots
    /\ v.written = w.written /\ v.events = w.events

\* Updates of one part each.
WithCb(w, x) == [w EXCEPT !.cb = x]
WithEnc(w, x) == [w EXCEPT !.enc = x]
WithSlots(w, x) == [w EXCEPT !.slots = x]
WithWritten(w, x) == [w EXCEPT !.written = x]
WithEvents(w, x) == [w EXCEPT !.events = x]
WithMade(w, x) == [w EXCEPT !.made = x]
WithAllocated(w, x) == [w EXCEPT !.allocated = x]
WithResetFirst(w, x) == [w EXCEPT !.resetFirst = x]
WithQuery(w, x) == [w EXCEPT !.query = x]
WithActive(w, x) == [w EXCEPT !.active = x]
WithDrawn(w, x) == [w EXCEPT !.drawn = x]
WithUniforms(w, x) == [w EXCEPT !.uniforms = x]
WithDone(w, x) == [w EXCEPT !.done = x]

\* The types of the parts of a context.
LEMMA Parts ==
    ASSUME NEW w \in ContextStates
    PROVE  /\ w.cb \in CommandBuffers /\ w.enc \in EncoderStates /\ w.slots \in [Slots -> BOOLEAN]
           /\ w.written \in SUBSET Slots /\ w.events \in Seq(Event) /\ w.failed = {}
           /\ w.allocated \in Seq(Queries \cup {NoQuery}) /\ w.query \in [Queries -> QueryStates]
           /\ w.active \in Queries \cup {NoQuery} /\ w.done \in Nat /\ w.uniforms.usage \in Nat
  <1>. USE DEF ContextStates
  <1>1. w.cb \in CommandBuffers /\ w.enc \in EncoderStates OBVIOUS
  <1>2. w.slots \in [Slots -> BOOLEAN] /\ w.written \in SUBSET Slots OBVIOUS
  <1>3. w.events \in Seq(Event) OBVIOUS
  <1>4. w.allocated \in Seq(Queries \cup {NoQuery}) OBVIOUS
  <1>5. w.query \in [Queries -> QueryStates] OBVIOUS
  <1>6. w.failed = {} /\ w.active \in Queries \cup {NoQuery} /\ w.done \in Nat /\ w.uniforms.usage \in Nat
    OBVIOUS
  <1>. QED BY <1>1, <1>2, <1>3, <1>4, <1>5, <1>6

\* An update of one part leaves the others as they are, here and in the next
\* lemmas.
LEMMA CbPart ==
    ASSUME NEW w \in ContextStates, NEW x \in CommandBuffers
    PROVE  LET v == WithCb(w, x) IN
           /\ v \in ContextStates /\ v.cb = x /\ SameQueries(w, v)
           /\ v.enc = w.enc /\ v.slots = w.slots /\ v.written = w.written /\ v.events = w.events
  <1>1. PICK v : v = WithCb(w, x) OBVIOUS
  <1>2. v \in ContextStates BY <1>1 DEF WithCb, ContextStates
  <1>3. v.cb = x BY <1>1 DEF WithCb, ContextStates
  <1>4. SameQueries(w, v) /\ v.enc = w.enc /\ v.slots = w.slots /\ v.written = w.written /\ v.events = w.events
    BY <1>1 DEF WithCb, ContextStates, SameQueries
  <1>. QED BY <1>1, <1>2, <1>3, <1>4

LEMMA EncPart ==
    ASSUME NEW w \in ContextStates, NEW x \in EncoderStates
    PROVE  LET v == WithEnc(w, x) IN
           /\ v \in ContextStates /\ v.enc = x /\ SameQueries(w, v)
           /\ v.cb = w.cb /\ v.slots = w.slots /\ v.written = w.written /\ v.events = w.events
  <1>1. PICK v : v = WithEnc(w, x) OBVIOUS
  <1>2. v \in ContextStates BY <1>1 DEF WithEnc, ContextStates
  <1>3. v.enc = x BY <1>1 DEF WithEnc, ContextStates
  <1>4. SameQueries(w, v) /\ v.cb = w.cb /\ v.slots = w.slots /\ v.written = w.written /\ v.events = w.events
    BY <1>1 DEF WithEnc, ContextStates, SameQueries
  <1>. QED BY <1>1, <1>2, <1>3, <1>4

LEMMA SlotsPart ==
    ASSUME NEW w \in ContextStates, NEW x \in [Slots -> BOOLEAN]
    PROVE  LET v == WithSlots(w, x) IN
           /\ v \in ContextStates /\ v.slots = x /\ SameQueries(w, v)
           /\ v.cb = w.cb /\ v.enc = w.enc /\ v.written = w.written /\ v.events = w.events
  <1>1. PICK v : v = WithSlots(w, x) OBVIOUS
  <1>2. v \in ContextStates BY <1>1 DEF WithSlots, ContextStates
  <1>3. v.slots = x BY <1>1 DEF WithSlots, ContextStates
  <1>4. SameQueries(w, v) /\ v.cb = w.cb /\ v.enc = w.enc /\ v.written = w.written /\ v.events = w.events
    BY <1>1 DEF WithSlots, ContextStates, SameQueries
  <1>. QED BY <1>1, <1>2, <1>3, <1>4

LEMMA WrittenPart ==
    ASSUME NEW w \in ContextStates, NEW x \in SUBSET Slots
    PROVE  LET v == WithWritten(w, x) IN
           /\ v \in ContextStates /\ v.written = x /\ SameQueries(w, v)
           /\ v.cb = w.cb /\ v.enc = w.enc /\ v.slots = w.slots /\ v.events = w.events
  <1>1. PICK v : v = WithWritten(w, x) OBVIOUS
  <1>2. v \in ContextStates BY <1>1 DEF WithWritten, ContextStates
  <1>3. v.written = x BY <1>1 DEF WithWritten, ContextStates
  <1>4. SameQueries(w, v) /\ v.cb = w.cb /\ v.enc = w.enc /\ v.slots = w.slots /\ v.events = w.events
    BY <1>1 DEF WithWritten, ContextStates, SameQueries
  <1>. QED BY <1>1, <1>2, <1>3, <1>4

LEMMA EventsPart ==
    ASSUME NEW w \in ContextStates, NEW x \in Seq(Event)
    PROVE  LET v == WithEvents(w, x) IN
           /\ v \in ContextStates /\ v.events = x /\ SameQueries(w, v)
           /\ v.cb = w.cb /\ v.enc = w.enc /\ v.slots = w.slots /\ v.written = w.written
  <1>1. PICK v : v = WithEvents(w, x) OBVIOUS
  <1>2. v \in ContextStates BY <1>1 DEF WithEvents, ContextStates
  <1>3. v.events = x BY <1>1 DEF WithEvents, ContextStates
  <1>4. SameQueries(w, v) /\ v.cb = w.cb /\ v.enc = w.enc /\ v.slots = w.slots /\ v.written = w.written
    BY <1>1 DEF WithEvents, ContextStates, SameQueries
  <1>. QED BY <1>1, <1>2, <1>3, <1>4

LEMMA MadePart ==
    ASSUME NEW w \in ContextStates, NEW x \in BOOLEAN
    PROVE  LET v == WithMade(w, x) IN
           /\ v \in ContextStates /\ v.made = x /\ SameEncoding(w, v)
           /\ v.query = w.query /\ v.allocated = w.allocated /\ v.active = w.active /\ v.resetFirst = w.resetFirst
           /\ v.drawn = w.drawn /\ v.uniforms = w.uniforms /\ v.done = w.done /\ v.device = w.device
  <1>1. PICK v : v = WithMade(w, x) OBVIOUS
  <1>2. v \in ContextStates BY <1>1 DEF WithMade, ContextStates
  <1>3. v.made = x BY <1>1 DEF WithMade, ContextStates
  <1>4. SameEncoding(w, v) /\ v.query = w.query /\ v.allocated = w.allocated /\ v.active = w.active /\ v.resetFirst = w.resetFirst
        /\ v.drawn = w.drawn /\ v.uniforms = w.uniforms /\ v.done = w.done /\ v.device = w.device
    BY <1>1 DEF WithMade, ContextStates, SameEncoding
  <1>. QED BY <1>1, <1>2, <1>3, <1>4

LEMMA AllocatedPart ==
    ASSUME NEW w \in ContextStates, NEW x \in Seq(Queries \cup {NoQuery})
    PROVE  LET v == WithAllocated(w, x) IN
           /\ v \in ContextStates /\ v.allocated = x /\ SameEncoding(w, v)
           /\ v.query = w.query /\ v.active = w.active /\ v.made = w.made /\ v.resetFirst = w.resetFirst
           /\ v.drawn = w.drawn /\ v.uniforms = w.uniforms /\ v.done = w.done /\ v.device = w.device
  <1>1. PICK v : v = WithAllocated(w, x) OBVIOUS
  <1>2. v \in ContextStates BY <1>1 DEF WithAllocated, ContextStates
  <1>3. v.allocated = x BY <1>1 DEF WithAllocated, ContextStates
  <1>4. SameEncoding(w, v) /\ v.query = w.query /\ v.active = w.active /\ v.made = w.made /\ v.resetFirst = w.resetFirst
        /\ v.drawn = w.drawn /\ v.uniforms = w.uniforms /\ v.done = w.done /\ v.device = w.device
    BY <1>1 DEF WithAllocated, ContextStates, SameEncoding
  <1>. QED BY <1>1, <1>2, <1>3, <1>4

LEMMA ResetFirstPart ==
    ASSUME NEW w \in ContextStates, NEW x \in BOOLEAN
    PROVE  LET v == WithResetFirst(w, x) IN
           /\ v \in ContextStates /\ v.resetFirst = x /\ SameEncoding(w, v)
           /\ v.query = w.query /\ v.allocated = w.allocated /\ v.active = w.active /\ v.made = w.made
           /\ v.drawn = w.drawn /\ v.uniforms = w.uniforms /\ v.done = w.done /\ v.device = w.device
  <1>1. PICK v : v = WithResetFirst(w, x) OBVIOUS
  <1>2. v \in ContextStates BY <1>1 DEF WithResetFirst, ContextStates
  <1>3. v.resetFirst = x BY <1>1 DEF WithResetFirst, ContextStates
  <1>4. SameEncoding(w, v) /\ v.query = w.query /\ v.allocated = w.allocated /\ v.active = w.active /\ v.made = w.made
        /\ v.drawn = w.drawn /\ v.uniforms = w.uniforms /\ v.done = w.done /\ v.device = w.device
    BY <1>1 DEF WithResetFirst, ContextStates, SameEncoding
  <1>. QED BY <1>1, <1>2, <1>3, <1>4

LEMMA QueryPart ==
    ASSUME NEW w \in ContextStates, NEW x \in [Queries -> QueryStates]
    PROVE  LET v == WithQuery(w, x) IN
           /\ v \in ContextStates /\ v.query = x /\ SameEncoding(w, v)
           /\ v.allocated = w.allocated /\ v.active = w.active /\ v.made = w.made /\ v.resetFirst = w.resetFirst
           /\ v.drawn = w.drawn /\ v.uniforms = w.uniforms /\ v.done = w.done /\ v.device = w.device
  <1>1. PICK v : v = WithQuery(w, x) OBVIOUS
  <1>2. v \in ContextStates BY <1>1 DEF WithQuery, ContextStates
  <1>3. v.query = x BY <1>1 DEF WithQuery, ContextStates
  <1>4. SameEncoding(w, v) /\ v.allocated = w.allocated /\ v.active = w.active /\ v.made = w.made /\ v.resetFirst = w.resetFirst
        /\ v.drawn = w.drawn /\ v.uniforms = w.uniforms /\ v.done = w.done /\ v.device = w.device
    BY <1>1 DEF WithQuery, ContextStates, SameEncoding
  <1>. QED BY <1>1, <1>2, <1>3, <1>4

LEMMA ActivePart ==
    ASSUME NEW w \in ContextStates, NEW x \in Queries \cup {NoQuery}
    PROVE  LET v == WithActive(w, x) IN
           /\ v \in ContextStates /\ v.active = x /\ SameEncoding(w, v)
           /\ v.query = w.query /\ v.allocated = w.allocated /\ v.made = w.made /\ v.resetFirst = w.resetFirst
           /\ v.drawn = w.drawn /\ v.uniforms = w.uniforms /\ v.done = w.done /\ v.device = w.device
  <1>1. PICK v : v = WithActive(w, x) OBVIOUS
  <1>2. v \in ContextStates BY <1>1 DEF WithActive, ContextStates
  <1>3. v.active = x BY <1>1 DEF WithActive, ContextStates
  <1>4. SameEncoding(w, v) /\ v.query = w.query /\ v.allocated = w.allocated /\ v.made = w.made /\ v.resetFirst = w.resetFirst
        /\ v.drawn = w.drawn /\ v.uniforms = w.uniforms /\ v.done = w.done /\ v.device = w.device
    BY <1>1 DEF WithActive, ContextStates, SameEncoding
  <1>. QED BY <1>1, <1>2, <1>3, <1>4

LEMMA DrawnPart ==
    ASSUME NEW w \in ContextStates, NEW x \in BOOLEAN
    PROVE  LET v == WithDrawn(w, x) IN
           /\ v \in ContextStates /\ v.drawn = x /\ SameEncoding(w, v)
           /\ v.query = w.query /\ v.allocated = w.allocated /\ v.active = w.active /\ v.made = w.made
           /\ v.resetFirst = w.resetFirst /\ v.uniforms = w.uniforms /\ v.done = w.done /\ v.device = w.device
  <1>1. PICK v : v = WithDrawn(w, x) OBVIOUS
  <1>2. v \in ContextStates BY <1>1 DEF WithDrawn, ContextStates
  <1>3. v.drawn = x BY <1>1 DEF WithDrawn, ContextStates
  <1>4. SameEncoding(w, v) /\ v.query = w.query /\ v.allocated = w.allocated /\ v.active = w.active /\ v.made = w.made
        /\ v.resetFirst = w.resetFirst /\ v.uniforms = w.uniforms /\ v.done = w.done /\ v.device = w.device
    BY <1>1 DEF WithDrawn, ContextStates, SameEncoding
  <1>. QED BY <1>1, <1>2, <1>3, <1>4

LEMMA UniformsPart ==
    ASSUME NEW w \in ContextStates, NEW x \in [usage : Nat, dirty : BOOLEAN]
    PROVE  LET v == WithUniforms(w, x) IN
           /\ v \in ContextStates /\ v.uniforms = x /\ SameEncoding(w, v)
           /\ v.query = w.query /\ v.allocated = w.allocated /\ v.active = w.active /\ v.made = w.made
           /\ v.resetFirst = w.resetFirst /\ v.drawn = w.drawn /\ v.done = w.done /\ v.device = w.device
  <1>1. PICK v : v = WithUniforms(w, x) OBVIOUS
  <1>2. v \in ContextStates BY <1>1 DEF WithUniforms, ContextStates
  <1>3. v.uniforms = x BY <1>1 DEF WithUniforms, ContextStates
  <1>4. SameEncoding(w, v) /\ v.query = w.query /\ v.allocated = w.allocated /\ v.active = w.active /\ v.made = w.made
        /\ v.resetFirst = w.resetFirst /\ v.drawn = w.drawn /\ v.done = w.done /\ v.device = w.device
    BY <1>1 DEF WithUniforms, ContextStates, SameEncoding
  <1>. QED BY <1>1, <1>2, <1>3, <1>4

LEMMA DonePart ==
    ASSUME NEW w \in ContextStates, NEW x \in Nat
    PROVE  LET v == WithDone(w, x) IN
           /\ v \in ContextStates /\ v.done = x /\ SameEncoding(w, v)
           /\ v.query = w.query /\ v.allocated = w.allocated /\ v.active = w.active /\ v.made = w.made
           /\ v.resetFirst = w.resetFirst /\ v.drawn = w.drawn /\ v.uniforms = w.uniforms /\ v.device = w.device
  <1>1. PICK v : v = WithDone(w, x) OBVIOUS
  <1>2. v \in ContextStates BY <1>1 DEF WithDone, ContextStates
  <1>3. v.done = x BY <1>1 DEF WithDone, ContextStates
  <1>4. SameEncoding(w, v) /\ v.query = w.query /\ v.allocated = w.allocated /\ v.active = w.active /\ v.made = w.made
        /\ v.resetFirst = w.resetFirst /\ v.drawn = w.drawn /\ v.uniforms = w.uniforms /\ v.device = w.device
    BY <1>1 DEF WithDone, ContextStates, SameEncoding
  <1>. QED BY <1>1, <1>2, <1>3, <1>4

-----------------------------------------------------------------------------
(* Encoders. *)

\* Between the commands of a context.
Encoding(w, n) == w \in ContextStates /\ EncodersAgree(w) /\ FencesKept(w, n)

SamePass(w, v) == v.enc = w.enc /\ v.slots = w.slots /\ v.written = w.written

\* setPendingEvents outside an encoder: the pending signals are encoded.
LEMMA SetPendingEventsKeep ==
    ASSUME NEW w \in ContextStates, NEW n \in Nat, FencesKept(w, n),
           w.cb.pending # <<>> => w.cb.open /\ NoneOpen(w) /\ w.cb.active # "render"
    PROVE  LET v == SetPendingEvents(w) IN
           /\ v \in ContextStates /\ FencesKept(v, n)
           /\ v.cb = [w.cb EXCEPT !.pending = <<>>]
           /\ SamePass(w, v) /\ SameQueries(w, v)
  <1>. DEFINE k == Len(w.cb.pending)
              s == n - k
              more == [i \in 1..k |-> [kind |-> "signal", value |-> s + i]]
              all == w.events \o more
              cb == [w.cb EXCEPT !.pending = <<>>]
  <1>0. w.events \in Seq(Event) /\ w.cb \in CommandBuffers /\ w.failed = {} BY Parts
  <1>1. w.cb.pending \in Seq(Nat) /\ cb \in CommandBuffers /\ cb.pending = <<>>
    <2>1. <<>> \in Seq(Nat) OBVIOUS
    <2>. QED BY <1>0, <2>1 DEF CommandBuffers
  <1>2. k \in Nat BY <1>1
  <1>3. s \in Nat /\ Ordered(w.events, s) /\ w.cb.pending = [i \in 1..k |-> s + i]
    BY DEF FencesKept
  <1>. HIDE DEF s
  <1>4. all \in Seq(Event) /\ Ordered(all, s + k) BY <1>0, <1>2, <1>3, OrderedSignals
  <1>5. s + k = n BY <1>2 DEF s
  <1>6. PICK u : u = EncodeSignals(w, w.cb.pending) OBVIOUS
  <1>7. /\ u \in ContextStates /\ u.cb = w.cb /\ SamePass(w, u) /\ SameQueries(w, u)
        /\ Ordered(u.events, n)
    <2>1. CASE w.cb.pending = <<>>
      <3>1. u = w BY <2>1, <1>6 DEF EncodeSignals, Encode, Check
      <3>2. k = 0 BY <2>1
      <3>3. s = n BY <3>2, <1>3, <1>5
      <3>. QED BY <3>1, <3>3, <1>3 DEF SamePass, SameQueries
    <2>2. CASE w.cb.pending # <<>>
      <3>1. [i \in DOMAIN w.cb.pending |-> [kind |-> "signal", value |-> w.cb.pending[i]]] = more
        BY <1>1, <1>3
      <3>. HIDE DEF more
      <3>2. u = WithEvents(w, all)
        BY <2>2, <3>1, <1>6 DEF EncodeSignals, Encode, Check, WithEvents
      <3>. HIDE DEF all
      <3>3. u \in ContextStates /\ u.events = all /\ u.cb = w.cb /\ u.enc = w.enc /\ u.slots = w.slots
            /\ u.written = w.written /\ SameQueries(w, u)
        BY <3>2, <1>4, EventsPart
      <3>. QED BY <3>3, <1>4, <1>5 DEF SamePass
    <2>. QED BY <2>1, <2>2
  <1>8. PICK v : v = SetPendingEvents(w) OBVIOUS
  <1>9. v = WithCb(u, cb) BY <1>6, <1>7, <1>8 DEF SetPendingEvents, WithCb
  <1>. HIDE DEF cb
  <1>10. v \in ContextStates /\ v.cb = cb /\ SameQueries(u, v) /\ v.enc = u.enc /\ v.slots = u.slots
         /\ v.written = u.written /\ v.events = u.events
    BY <1>1, <1>7, <1>9, CbPart
  <1>11. FencesKept(v, n) BY <1>1, <1>7, <1>10 DEF FencesKept
  <1>12. SamePass(w, v) /\ SameQueries(w, v) BY <1>7, <1>10 DEF SamePass, SameQueries
  <1>. QED BY <1>8, <1>10, <1>11, <1>12 DEF cb

\* An encoder that has been ended is no longer the active one, and the signals
\* that waited for it are encoded.
LEMMA InvalidateKeeps ==
    ASSUME NEW w \in ContextStates, NEW n \in Nat, NEW kind \in Encoders, FencesKept(w, n),
           w.cb.active = kind, w.cb.open, NoneOpen(w)
    PROVE  LET v == InvalidateActiveCommandEncoder(w, kind) IN
           /\ v \in ContextStates /\ FencesKept(v, n)
           /\ v.cb = [w.cb EXCEPT !.active = "none", !.pending = <<>>]
           /\ SamePass(w, v) /\ SameQueries(w, v)
  <1>. DEFINE cb == [w.cb EXCEPT !.active = "none"]
  <1>0. w.cb \in CommandBuffers BY Parts
  <1>1. PICK u : u = [w EXCEPT !.cb.active = "none"] OBVIOUS
  <1>2. cb \in CommandBuffers /\ cb.active = "none" /\ cb.open /\ cb.pending = w.cb.pending
        /\ [cb EXCEPT !.pending = <<>>] = [w.cb EXCEPT !.active = "none", !.pending = <<>>]
    BY <1>0 DEF CommandBuffers
  <1>3. u = WithCb(w, cb) BY <1>1 DEF WithCb
  <1>. HIDE DEF cb
  <1>5. u \in ContextStates /\ u.cb = cb /\ u.enc = w.enc /\ u.slots = w.slots
        /\ u.written = w.written /\ u.events = w.events /\ SameQueries(w, u)
    BY <1>2, <1>3, CbPart
  <1>6. FencesKept(u, n) BY <1>2, <1>5 DEF FencesKept
  <1>7. NoneOpen(u) BY <1>5 DEF NoneOpen
  <1>8. PICK v : v = SetPendingEvents(u) OBVIOUS
  <1>9. /\ v \in ContextStates /\ FencesKept(v, n) /\ v.cb = [u.cb EXCEPT !.pending = <<>>]
        /\ SamePass(u, v) /\ SameQueries(u, v)
    BY <1>2, <1>5, <1>6, <1>7, <1>8, SetPendingEventsKeep
  <1>10. SamePass(w, v) /\ SameQueries(w, v) BY <1>5, <1>9 DEF SamePass, SameQueries
  <1>11. v = InvalidateActiveCommandEncoder(w, kind)
    BY <1>1, <1>8 DEF InvalidateActiveCommandEncoder
  <1>. QED BY <1>2, <1>5, <1>9, <1>10, <1>11

\* ensureMetalEncoderStarted in a pass: the command buffer is open, and no
\* other encoder.
LEMMA EnsureStarted ==
    ASSUME NEW w, NEW n \in Nat, Encoding(w, n), w.enc.recording
    PROVE  LET v == EnsureMetalEncoderStarted(w) IN
           /\ Encoding(v, n) /\ v.cb = w.cb /\ SameQueries(w, v)
           /\ v.slots = w.slots /\ v.written = w.written
           /\ v.enc = [w.enc EXCEPT !.native = TRUE]
  <1>. DEFINE enc == [w.enc EXCEPT !.native = TRUE]
              cb == [w.cb EXCEPT !.active = "render"]
  <1>0. w \in ContextStates /\ w.cb.active = "render" /\ w.cb.open /\ ~w.enc.blit /\ ~w.enc.compute
    BY DEF Encoding, EncodersAgree
  <1>1. w.cb \in CommandBuffers /\ w.enc \in EncoderStates /\ w.failed = {} BY <1>0, Parts
  <1>2. cb = w.cb BY <1>0, <1>1 DEF CommandBuffers
  <1>3. enc \in EncoderStates /\ enc.native /\ enc.recording = w.enc.recording /\ enc.blit = w.enc.blit
        /\ enc.compute = w.enc.compute /\ enc.mode = w.enc.mode
    BY <1>1 DEF EncoderStates
  <1>4. PICK v : v = EnsureMetalEncoderStarted(w) OBVIOUS
  <1>7. /\ v \in ContextStates /\ v.cb = w.cb /\ SameQueries(w, v) /\ v.slots = w.slots
        /\ v.written = w.written /\ v.events = w.events /\ v.enc = enc
    <2>1. CASE w.enc.native
      <3>1. w.enc = enc BY <2>1, <1>1 DEF EncoderStates
      <3>2. v = w BY <2>1, <1>4 DEF EnsureMetalEncoderStarted
      <3>. QED BY <3>1, <3>2, <1>0 DEF SameQueries
    <2>2. CASE ~w.enc.native
      <3>1. CreateNative(w, "render") = w BY <2>2, <1>0 DEF CreateNative, Check, NoneOpen
      <3>2. v = [w EXCEPT !.enc.native = TRUE, !.cb.active = "render"]
        BY <2>2, <1>0, <1>4, <3>1 DEF EnsureMetalEncoderStarted
      <3>3. PICK u : u = WithEnc(w, enc) OBVIOUS
      <3>. HIDE DEF enc
      <3>4. /\ u \in ContextStates /\ u.cb = w.cb /\ SameQueries(w, u) /\ u.slots = w.slots
            /\ u.written = w.written /\ u.events = w.events /\ u.enc = enc
        BY <1>0, <1>3, <3>3, EncPart
      <3>5. v = WithCb(u, [u.cb EXCEPT !.active = "render"]) BY <3>2, <3>3 DEF WithCb, WithEnc, enc
      <3>6. v = WithCb(u, u.cb) BY <3>4, <3>5, <1>2
      <3>7. /\ v \in ContextStates /\ v.cb = u.cb /\ SameQueries(u, v) /\ v.slots = u.slots
            /\ v.written = u.written /\ v.events = u.events /\ v.enc = u.enc
        BY <1>1, <3>4, <3>6, CbPart
      <3>. QED BY <3>4, <3>7 DEF SameQueries
    <2>. QED BY <2>1, <2>2
  <1>. HIDE DEF enc, cb
  <1>8. Encoding(v, n) BY <1>7, <1>3 DEF Encoding, EncodersAgree, FencesKept
  <1>. QED BY <1>4, <1>7, <1>8 DEF enc

SameBuffer(w, v) == v.cb.open = w.cb.open /\ v.cb.serial = w.cb.serial

\* RenderCommandEncoder::endEncoding
LEMMA EndRenderKeeps ==
    ASSUME NEW w, NEW n \in Nat, Encoding(w, n)
    PROVE  LET v == EndRender(w) IN
           /\ Encoding(v, n) /\ SameQueries(w, v) /\ SameBuffer(w, v) /\ v.slots = w.slots
           /\ ~v.enc.recording
           /\ w.enc.recording => v.cb.active = "none"
           /\ ~w.enc.recording => v = w
  <1>. PICK v : v = EndRender(w) OBVIOUS
  <1>1. CASE ~w.enc.recording
    <2>1. v = w BY <1>1 DEF EndRender
    <2>. QED BY <1>1, <2>1 DEF SameQueries, SameBuffer
  <1>2. CASE w.enc.recording
    <2>1. PICK w1 : w1 = EnsureMetalEncoderStarted(w) OBVIOUS
    <2>2. /\ Encoding(w1, n) /\ w1.cb = w.cb /\ SameQueries(w, w1) /\ w1.slots = w.slots
          /\ w1.enc = [w.enc EXCEPT !.native = TRUE]
      BY <1>2, <2>1, EnsureStarted
    <2>3. w \in ContextStates /\ w.enc \in EncoderStates /\ w.cb \in CommandBuffers
      BY Parts DEF Encoding
    <2>4. w1.enc.recording BY <1>2, <2>2, <2>3 DEF EncoderStates
    <2>5. w1 \in ContextStates /\ FencesKept(w1, n) /\ w1.cb.active = "render" /\ w1.cb.open
          /\ ~w1.enc.blit /\ ~w1.enc.compute
      BY <2>2, <2>4 DEF Encoding, EncodersAgree
    <2>. DEFINE enc2 == [w1.enc EXCEPT !.native = FALSE]
    <2>6. w1.enc \in EncoderStates BY <2>5, Parts
    <2>7. /\ enc2 \in EncoderStates /\ ~enc2.native /\ ~enc2.blit /\ ~enc2.compute
      BY <2>5, <2>6 DEF EncoderStates
    <2>8. PICK w2 : w2 = [w1 EXCEPT !.enc.native = FALSE] OBVIOUS
    <2>9. w2 = WithEnc(w1, enc2) BY <2>8 DEF WithEnc
    <2>. HIDE DEF enc2
    <2>10. /\ w2 \in ContextStates /\ w2.enc = enc2 /\ w2.cb = w1.cb /\ w2.slots = w1.slots
           /\ w2.written = w1.written /\ w2.events = w1.events /\ SameQueries(w1, w2)
      BY <2>5, <2>7, <2>9, EncPart
    <2>11. FencesKept(w2, n) BY <2>5, <2>10 DEF FencesKept
    <2>12. NoneOpen(w2) /\ w2.cb.active = "render" /\ w2.cb.open
      BY <2>5, <2>7, <2>10 DEF NoneOpen
    <2>13. PICK w3 : w3 = InvalidateActiveCommandEncoder(w2, "render") OBVIOUS
    <2>14. "render" \in Encoders BY DEF Encoders
    <2>15. /\ w3 \in ContextStates /\ FencesKept(w3, n)
           /\ w3.cb = [w2.cb EXCEPT !.active = "none", !.pending = <<>>]
           /\ SamePass(w2, w3) /\ SameQueries(w2, w3)
      BY <2>10, <2>11, <2>12, <2>13, <2>14, InvalidateKeeps, ZenonT(60)
    <2>. DEFINE enc4 == [w3.enc EXCEPT !.recording = FALSE, !.mode = 0]
    <2>16. w3.enc = enc2 BY <2>10, <2>15 DEF SamePass
    <2>17. /\ enc4 \in EncoderStates /\ ~enc4.recording /\ enc4.mode = 0 /\ ~enc4.native /\ ~enc4.blit
           /\ ~enc4.compute
      BY <2>7, <2>16 DEF EncoderStates
    <2>18. v = WithWritten(WithEnc(w3, enc4), {})
      BY <1>2, <2>1, <2>8, <2>13 DEF EndRender, ResetRender, WithWritten, WithEnc
    <2>. HIDE DEF enc4
    <2>19. PICK w4 : w4 = WithEnc(w3, enc4) OBVIOUS
    <2>20. /\ w4 \in ContextStates /\ w4.enc = enc4 /\ w4.cb = w3.cb /\ w4.slots = w3.slots
           /\ w4.events = w3.events /\ SameQueries(w3, w4)
      BY <2>15, <2>17, <2>19, EncPart
    <2>21. {} \in SUBSET Slots OBVIOUS
    <2>22. v = WithWritten(w4, {}) BY <2>18, <2>19
    <2>23. /\ v \in ContextStates /\ v.enc = enc4 /\ v.cb = w4.cb /\ v.slots = w4.slots
           /\ v.events = w4.events /\ SameQueries(w4, v) /\ v.written = {}
      BY <2>20, <2>21, <2>22, WrittenPart
    <2>24. v.cb = [w.cb EXCEPT !.active = "none", !.pending = <<>>]
      BY <2>2, <2>10, <2>15, <2>20, <2>23
    <2>25. v.cb.active = "none" /\ v.cb.pending = <<>> /\ SameBuffer(w, v)
      BY <2>24, <2>3 DEF CommandBuffers, SameBuffer
    <2>26. FencesKept(v, n) BY <2>15, <2>20, <2>23 DEF FencesKept
    <2>27. EncodersAgree(v) BY <2>17, <2>23, <2>25 DEF EncodersAgree, EncoderStates
    <2>28. SameQueries(w, v) BY <2>2, <2>10, <2>15, <2>20, <2>23 DEF SameQueries
    <2>29. v.slots = w.slots BY <2>2, <2>10, <2>15, <2>20, <2>23 DEF SamePass
    <2>. QED BY <2>17, <2>23, <2>25, <2>26, <2>27, <2>28, <2>29, <1>2 DEF Encoding
  <1>. QED BY <1>1, <1>2

\* Ending the blit or the compute encoder.
LEMMA EndOtherKeeps ==
    ASSUME NEW w, NEW n \in Nat, Encoding(w, n)
    PROVE  /\ LET v == EndBlit(w) IN
              /\ Encoding(v, n) /\ SameQueries(w, v) /\ SameBuffer(w, v) /\ v.slots = w.slots
              /\ ~v.enc.blit
              /\ w.enc.blit => v.cb.active = "none"
              /\ ~w.enc.blit => v = w
           /\ LET v == EndCompute(w) IN
              /\ Encoding(v, n) /\ SameQueries(w, v) /\ SameBuffer(w, v) /\ v.slots = w.slots
              /\ ~v.enc.compute
              /\ w.enc.compute => v.cb.active = "none"
              /\ ~w.enc.compute => v = w
  <1>0. w \in ContextStates /\ w.enc \in EncoderStates /\ w.cb \in CommandBuffers
        /\ EncodersAgree(w) /\ FencesKept(w, n)
    BY Parts DEF Encoding
  <1>a. ASSUME NEW kind \in {"blit", "compute"}, w.cb.active = kind,
               NEW enc \in EncoderStates, ~enc.blit, ~enc.compute, ~enc.native, ~enc.recording,
               enc.mode = w.enc.mode,
               NEW u, u = WithEnc(w, enc), NEW v, v = InvalidateActiveCommandEncoder(u, kind)
        PROVE  /\ Encoding(v, n) /\ SameQueries(w, v) /\ SameBuffer(w, v) /\ v.slots = w.slots
               /\ ~v.enc.blit /\ ~v.enc.compute /\ v.cb.active = "none"
    <2>0. w.cb.open /\ ~w.enc.recording /\ w.enc.mode = 0 /\ w.written = {}
      BY <1>0, <1>a DEF EncodersAgree
    <2>1. /\ u \in ContextStates /\ u.enc = enc /\ u.cb = w.cb /\ u.slots = w.slots
          /\ u.written = w.written /\ u.events = w.events /\ SameQueries(w, u)
      BY <1>0, <1>a, EncPart
    <2>2. FencesKept(u, n) BY <1>0, <2>1 DEF FencesKept
    <2>3. NoneOpen(u) /\ u.cb.active = kind /\ u.cb.open /\ kind \in Encoders
      BY <1>a, <2>0, <2>1 DEF NoneOpen, Encoders
    <2>4. /\ v \in ContextStates /\ FencesKept(v, n)
          /\ v.cb = [u.cb EXCEPT !.active = "none", !.pending = <<>>]
          /\ SamePass(u, v) /\ SameQueries(u, v)
      BY <1>a, <2>1, <2>2, <2>3, InvalidateKeeps
    <2>5. v.cb.active = "none" /\ v.cb.pending = <<>> /\ SameBuffer(w, v)
      BY <2>1, <2>4, <1>0 DEF CommandBuffers, SameBuffer
    <2>6. v.enc = enc /\ v.slots = w.slots /\ v.written = {} BY <2>0, <2>1, <2>4 DEF SamePass
    <2>7. EncodersAgree(v) BY <1>a, <2>0, <2>5, <2>6 DEF EncodersAgree, EncoderStates
    <2>8. SameQueries(w, v) BY <2>1, <2>4 DEF SameQueries
    <2>. QED BY <1>a, <2>4, <2>5, <2>6, <2>7, <2>8 DEF Encoding
  <1>1. CASE w.enc.blit
    <2>. PICK v : v = EndBlit(w) OBVIOUS
    <2>. PICK x : x = EndCompute(w) OBVIOUS
    <2>0. w.cb.active = "blit" /\ ~w.enc.compute /\ ~w.enc.recording /\ ~w.enc.native
      BY <1>0, <1>1 DEF EncodersAgree
    <2>. DEFINE enc == [w.enc EXCEPT !.blit = FALSE]
    <2>1. enc \in EncoderStates /\ ~enc.blit /\ ~enc.compute /\ ~enc.native /\ ~enc.recording
          /\ enc.mode = w.enc.mode
      BY <1>0, <2>0 DEF EncoderStates
    <2>2. v = InvalidateActiveCommandEncoder(WithEnc(w, enc), "blit") BY <1>1 DEF EndBlit, WithEnc
    <2>. HIDE DEF enc
    <2>3. /\ Encoding(v, n) /\ SameQueries(w, v) /\ SameBuffer(w, v) /\ v.slots = w.slots
          /\ ~v.enc.blit /\ ~v.enc.compute /\ v.cb.active = "none"
      BY <1>a, <2>0, <2>1, <2>2
    <2>4. x = w BY <2>0 DEF EndCompute
    <2>. QED BY <1>1, <2>0, <2>3, <2>4 DEF SameQueries, SameBuffer
  <1>2. CASE w.enc.compute
    <2>. PICK v : v = EndCompute(w) OBVIOUS
    <2>. PICK x : x = EndBlit(w) OBVIOUS
    <2>0. w.cb.active = "compute" /\ ~w.enc.blit /\ ~w.enc.recording /\ ~w.enc.native
      BY <1>0, <1>2 DEF EncodersAgree
    <2>. DEFINE enc == [w.enc EXCEPT !.compute = FALSE]
    <2>1. enc \in EncoderStates /\ ~enc.blit /\ ~enc.compute /\ ~enc.native /\ ~enc.recording
          /\ enc.mode = w.enc.mode
      BY <1>0, <2>0 DEF EncoderStates
    <2>2. v = InvalidateActiveCommandEncoder(WithEnc(w, enc), "compute") BY <1>2 DEF EndCompute, WithEnc
    <2>. HIDE DEF enc
    <2>3. /\ Encoding(v, n) /\ SameQueries(w, v) /\ SameBuffer(w, v) /\ v.slots = w.slots
          /\ ~v.enc.blit /\ ~v.enc.compute /\ v.cb.active = "none"
      BY <1>a, <2>0, <2>1, <2>2
    <2>4. x = w BY <2>0 DEF EndBlit
    <2>. QED BY <1>2, <2>0, <2>3, <2>4 DEF SameQueries, SameBuffer
  <1>3. CASE ~w.enc.blit /\ ~w.enc.compute
    <2>1. EndBlit(w) = w /\ EndCompute(w) = w BY <1>3 DEF EndBlit, EndCompute
    <2>. QED BY <1>3, <2>1 DEF SameQueries, SameBuffer
  <1>. QED BY <1>1, <1>2, <1>3

\* Whatever encoder is active is ended.
LEMMA ForceEndingKeeps ==
    ASSUME NEW w, NEW n \in Nat, Encoding(w, n)
    PROVE  LET v == ForceEndingCurrentEncoder(w) IN
           /\ Encoding(v, n) /\ SameQueries(w, v) /\ SameBuffer(w, v) /\ v.slots = w.slots
           /\ v.cb.active = "none"
  <1>0. w \in ContextStates /\ w.cb \in CommandBuffers /\ EncodersAgree(w) BY Parts DEF Encoding
  <1>1. PICK u : u = End(w, w.cb.active) OBVIOUS
  <1>2. w.cb.active \in {"render", "blit", "compute", "none"} BY <1>0 DEF CommandBuffers, Encoders
  <1>3. /\ Encoding(u, n) /\ SameQueries(w, u) /\ SameBuffer(w, u) /\ u.slots = w.slots
        /\ u.cb.active = "none"
    <2>1. CASE w.cb.active = "render"
      <3>1. u = EndRender(w) BY <2>1, <1>1 DEF End
      <3>2. w.enc.recording BY <2>1, <1>0 DEF EncodersAgree
      <3>. QED BY <3>1, <3>2, EndRenderKeeps
    <2>2. CASE w.cb.active = "blit"
      <3>1. u = EndBlit(w) BY <2>2, <1>1 DEF End
      <3>2. w.enc.blit BY <2>2, <1>0 DEF EncodersAgree
      <3>. QED BY <3>1, <3>2, EndOtherKeeps
    <2>3. CASE w.cb.active = "compute"
      <3>1. u = EndCompute(w) BY <2>3, <1>1 DEF End
      <3>2. w.enc.compute BY <2>3, <1>0 DEF EncodersAgree
      <3>. QED BY <3>1, <3>2, EndOtherKeeps
    <2>4. CASE w.cb.active = "none"
      <3>1. u = w BY <2>4, <1>1 DEF End
      <3>. QED BY <3>1, <2>4 DEF SameQueries, SameBuffer
    <2>. QED BY <1>2, <2>1, <2>2, <2>3, <2>4
  <1>4. u \in ContextStates /\ u.cb \in CommandBuffers BY <1>3, Parts DEF Encoding
  <1>5. [u.cb EXCEPT !.active = "none"] = u.cb BY <1>3, <1>4 DEF CommandBuffers
  <1>6. PICK v : v = ForceEndingCurrentEncoder(w) OBVIOUS
  <1>7. v = WithCb(u, u.cb) BY <1>1, <1>5, <1>6 DEF ForceEndingCurrentEncoder, WithCb
  <1>8. /\ v \in ContextStates /\ v.cb = u.cb /\ SameQueries(u, v) /\ v.enc = u.enc /\ v.slots = u.slots
        /\ v.written = u.written /\ v.events = u.events
    BY <1>4, <1>7, CbPart
  <1>9. Encoding(v, n) BY <1>3, <1>8 DEF Encoding, EncodersAgree, FencesKept
  <1>10. SameQueries(w, v) /\ SameBuffer(w, v) BY <1>3, <1>8 DEF SameQueries, SameBuffer
  <1>. QED BY <1>3, <1>6, <1>8, <1>9, <1>10

\* Outside a pass all encoders are ended.
LEMMA EndOutsidePassKeeps ==
    ASSUME NEW w, NEW n \in Nat, Encoding(w, n), ~w.enc.recording
    PROVE  LET v == EndOutsidePass(w) IN
           /\ Encoding(v, n) /\ SameQueries(w, v) /\ SameBuffer(w, v) /\ v.slots = w.slots
           /\ v.cb.active = "none"
  <1>1. PICK u : u = EndBlit(w) OBVIOUS
  <1>2. /\ Encoding(u, n) /\ SameQueries(w, u) /\ SameBuffer(w, u) /\ u.slots = w.slots /\ ~u.enc.blit
        /\ (w.enc.blit => u.cb.active = "none") /\ (~w.enc.blit => u = w)
    BY <1>1, EndOtherKeeps
  <1>3. PICK v : v = EndCompute(u) OBVIOUS
  <1>4. /\ Encoding(v, n) /\ SameQueries(u, v) /\ SameBuffer(u, v) /\ v.slots = u.slots /\ ~v.enc.compute
        /\ (u.enc.compute => v.cb.active = "none") /\ (~u.enc.compute => v = u)
    BY <1>2, <1>3, EndOtherKeeps
  <1>5. v = EndOutsidePass(w) BY <1>1, <1>3 DEF EndOutsidePass
  <1>6. v.cb.active = "none"
    <2>1. CASE w.enc.blit
      <3>1. u.cb.active = "none" BY <2>1, <1>2
      <3>2. CASE u.enc.compute BY <3>2, <1>4
      <3>3. CASE ~u.enc.compute BY <3>1, <3>3, <1>4
      <3>. QED BY <3>2, <3>3
    <2>2. CASE ~w.enc.blit
      <3>1. u = w BY <2>2, <1>2
      <3>2. CASE u.enc.compute BY <3>2, <1>4
      <3>3. CASE ~u.enc.compute
        <4>1. v = w BY <3>1, <3>3, <1>4
        <4>2. w \in ContextStates /\ w.cb \in CommandBuffers /\ EncodersAgree(w) BY Parts DEF Encoding
        <4>3. w.cb.active \in {"render", "blit", "compute", "none"} BY <4>2 DEF CommandBuffers, Encoders
        <4>. QED BY <4>1, <4>2, <4>3, <2>2, <3>1, <3>3 DEF EncodersAgree
      <3>. QED BY <3>2, <3>3
    <2>. QED BY <2>1, <2>2
  <1>7. SameQueries(w, v) /\ SameBuffer(w, v) BY <1>2, <1>4 DEF SameQueries, SameBuffer
  <1>. QED BY <1>2, <1>4, <1>5, <1>6, <1>7

\* ensureCommandBufferValid: the next command buffer, unless one is open.
LEMMA EnsureValidKeeps ==
    ASSUME NEW w, NEW n \in Nat, Encoding(w, n)
    PROVE  LET v == EnsureCommandBufferValid(w) IN
           /\ Encoding(v, n) /\ SameQueries(w, v) /\ SamePass(w, v)
           /\ v.cb.open /\ v.cb.serial \in Nat /\ w.cb.serial <= v.cb.serial
           /\ v.cb.active = w.cb.active /\ v.cb.pending = w.cb.pending
  <1>0. w \in ContextStates /\ w.cb \in CommandBuffers /\ w.cb.serial \in Nat
    BY Parts DEF Encoding, CommandBuffers
  <1>. PICK v : v = EnsureCommandBufferValid(w) OBVIOUS
  <1>1. CASE w.cb.open
    <2>1. v = w BY <1>1 DEF EnsureCommandBufferValid
    <2>. QED BY <1>0, <1>1, <2>1 DEF SameQueries, SamePass
  <1>2. CASE ~w.cb.open
    <2>. DEFINE cb == [w.cb EXCEPT !.open = TRUE, !.serial = @ + 1]
    <2>1. v = WithCb(w, cb)
      <3>1. v = WithCb(WithCb(w, [w.cb EXCEPT !.open = TRUE]),
                       [WithCb(w, [w.cb EXCEPT !.open = TRUE]).cb EXCEPT !.serial = @ + 1])
        BY <1>2 DEF EnsureCommandBufferValid, WithCb
      <3>. DEFINE c == [w.cb EXCEPT !.open = TRUE]
      <3>2. c \in CommandBuffers /\ [c EXCEPT !.serial = @ + 1] = cb BY <1>0 DEF CommandBuffers
      <3>. HIDE DEF c, cb
      <3>3. WithCb(w, c).cb = c BY <1>0, <3>2, CbPart
      <3>4. v = WithCb(WithCb(w, c), cb) BY <3>1, <3>2, <3>3 DEF c
      <3>. QED BY <3>4, <1>0 DEF WithCb, ContextStates
    <2>2. cb \in CommandBuffers /\ cb.open /\ cb.serial = w.cb.serial + 1 /\ cb.active = w.cb.active
          /\ cb.pending = w.cb.pending
      <3>1. PICK c : c = [w.cb EXCEPT !.open = TRUE] OBVIOUS
      <3>2. c \in CommandBuffers /\ c.open /\ c.serial = w.cb.serial /\ c.active = w.cb.active
            /\ c.pending = w.cb.pending
        BY <1>0, <3>1 DEF CommandBuffers
      <3>3. PICK m \in Nat : m = w.cb.serial + 1 BY <1>0
      <3>. PICK d : d = [c EXCEPT !.serial = m] OBVIOUS
      <3>4. d \in CommandBuffers /\ d.open /\ d.serial = w.cb.serial + 1 /\ d.active = w.cb.active
            /\ d.pending = w.cb.pending
        BY <3>2, <3>3 DEF CommandBuffers
      <3>5. d = cb BY <3>1, <3>2, <3>3
      <3>. QED BY <3>4, <3>5
    <2>. HIDE DEF cb
    <2>3. /\ v \in ContextStates /\ v.cb = cb /\ SameQueries(w, v) /\ v.enc = w.enc /\ v.slots = w.slots
          /\ v.written = w.written /\ v.events = w.events
      BY <1>0, <2>1, <2>2, CbPart
    <2>4. Encoding(v, n) BY <2>2, <2>3 DEF Encoding, EncodersAgree, FencesKept
    <2>. QED BY <1>0, <2>2, <2>3, <2>4 DEF SamePass
  <1>. QED BY <1>1, <1>2

\* An encoder is started in an open command buffer without another.
LEMMA RestartKeeps ==
    ASSUME NEW w, NEW n \in Nat, Encoding(w, n), w.cb.active = "none", w.cb.open
    PROVE  /\ LET v == RestartRender(w) IN
              /\ Encoding(v, n) /\ SameQueries(w, v) /\ SameBuffer(w, v) /\ v.slots = w.slots
              /\ v.enc.recording /\ v.enc.mode = 0 /\ v.written = {}
           /\ LET v == RestartBlit(w) IN
              /\ Encoding(v, n) /\ SameQueries(w, v) /\ SameBuffer(w, v) /\ v.slots = w.slots
              /\ ~v.enc.recording
           /\ LET v == RestartCompute(w) IN
              /\ Encoding(v, n) /\ SameQueries(w, v) /\ SameBuffer(w, v) /\ v.slots = w.slots
              /\ ~v.enc.recording
  <1>0. /\ w \in ContextStates /\ w.cb \in CommandBuffers /\ w.enc \in EncoderStates
        /\ EncodersAgree(w) /\ FencesKept(w, n)
    BY Parts DEF Encoding
  <1>1. w.enc.recording = FALSE /\ w.enc.blit = FALSE /\ w.enc.compute = FALSE /\ w.enc.native = FALSE
        /\ w.enc.mode = 0 /\ w.written = {} /\ w.cb.pending = <<>>
    BY <1>0 DEF EncodersAgree, EncoderStates
  <1>a. ASSUME NEW kind \in Encoders, NEW cb, cb = [w.cb EXCEPT !.active = kind],
               NEW enc \in EncoderStates,
               enc.recording <=> kind = "render", enc.blit <=> kind = "blit",
               enc.compute <=> kind = "compute", ~enc.native \/ kind = "render", enc.mode = 0,
               NEW v, v = WithCb(WithEnc(w, enc), cb)
        PROVE  /\ Encoding(v, n) /\ SameQueries(w, v) /\ SameBuffer(w, v) /\ v.slots = w.slots
               /\ v.enc = enc /\ v.written = {}
    <2>1. cb \in CommandBuffers /\ cb.active = kind /\ cb.open /\ cb.pending = <<>>
          /\ cb.serial = w.cb.serial
      BY <1>0, <1>1, <1>a DEF CommandBuffers
    <2>2. PICK u : u = WithEnc(w, enc) OBVIOUS
    <2>3. /\ u \in ContextStates /\ u.enc = enc /\ u.cb = w.cb /\ u.slots = w.slots
          /\ u.written = w.written /\ u.events = w.events /\ SameQueries(w, u)
      BY <1>0, <2>2, EncPart
    <2>4. v = WithCb(u, cb) BY <1>a, <2>2
    <2>5. /\ v \in ContextStates /\ v.cb = cb /\ SameQueries(u, v) /\ v.enc = u.enc /\ v.slots = u.slots
          /\ v.written = u.written /\ v.events = u.events
      BY <2>1, <2>3, <2>4, CbPart
    <2>6. FencesKept(v, n) BY <1>0, <1>1, <2>1, <2>3, <2>5 DEF FencesKept
    <2>7. EncodersAgree(v)
      <3>1. v.enc = enc /\ v.cb = cb /\ v.written = {} BY <1>1, <2>3, <2>5
      <3>2. enc.recording \in BOOLEAN /\ enc.blit \in BOOLEAN /\ enc.compute \in BOOLEAN
        BY DEF EncoderStates
      <3>3. /\ enc.recording = (cb.active = "render") /\ enc.blit = (cb.active = "blit")
            /\ enc.compute = (cb.active = "compute")
        BY <1>a, <2>1, <3>2
      <3>4. enc.native => enc.recording BY <1>a
      <3>. QED BY <1>a, <2>1, <3>1, <3>3, <3>4 DEF EncodersAgree
    <2>8. SameQueries(w, v) /\ SameBuffer(w, v) BY <2>1, <2>3, <2>5 DEF SameQueries, SameBuffer
    <2>. QED BY <1>1, <2>3, <2>5, <2>6, <2>7, <2>8 DEF Encoding
  <1>b. CreateNative(w, "blit") = w /\ CreateNative(w, "compute") = w
    BY <1>1 DEF CreateNative, Check, NoneOpen
  <1>2. LET v == RestartRender(w) IN
              /\ Encoding(v, n) /\ SameQueries(w, v) /\ SameBuffer(w, v) /\ v.slots = w.slots
              /\ v.enc.recording /\ v.enc.mode = 0 /\ v.written = {}
    <2>. PICK v : v = RestartRender(w) OBVIOUS
    <2>. DEFINE enc == [w.enc EXCEPT !.recording = TRUE]
                cb == [w.cb EXCEPT !.active = "render"]
    <2>1. enc \in EncoderStates /\ enc.recording = TRUE /\ enc.blit = FALSE /\ enc.compute = FALSE
          /\ enc.native = FALSE /\ enc.mode = 0
      BY <1>0, <1>1 DEF EncoderStates
    <2>2. v = WithCb(WithEnc(w, enc), [WithEnc(w, enc).cb EXCEPT !.active = "render"])
      BY DEF RestartRender, WithCb, WithEnc
    <2>. HIDE DEF enc
    <2>3. WithEnc(w, enc).cb = w.cb BY <1>0, <2>1, EncPart
    <2>4. v = WithCb(WithEnc(w, enc), cb) BY <2>2, <2>3
    <2>5. "render" \in Encoders BY DEF Encoders
    <2>. HIDE DEF cb
    <2>6. cb = [w.cb EXCEPT !.active = "render"] BY DEF cb
    <2>. QED BY <1>a, <2>1, <2>4, <2>5, <2>6
  <1>3. LET v == RestartBlit(w) IN
              /\ Encoding(v, n) /\ SameQueries(w, v) /\ SameBuffer(w, v) /\ v.slots = w.slots
              /\ ~v.enc.recording
    <2>. PICK v : v = RestartBlit(w) OBVIOUS
    <2>. DEFINE enc == [w.enc EXCEPT !.blit = TRUE]
                cb == [w.cb EXCEPT !.active = "blit"]
    <2>1. enc \in EncoderStates /\ enc.recording = FALSE /\ enc.blit = TRUE /\ enc.compute = FALSE
          /\ enc.native = FALSE /\ enc.mode = 0
      BY <1>0, <1>1 DEF EncoderStates
    <2>2. v = WithCb(WithEnc(w, enc), [WithEnc(w, enc).cb EXCEPT !.active = "blit"])
      BY <1>b DEF RestartBlit, WithCb, WithEnc
    <2>. HIDE DEF enc
    <2>3. WithEnc(w, enc).cb = w.cb BY <1>0, <2>1, EncPart
    <2>4. v = WithCb(WithEnc(w, enc), cb) BY <2>2, <2>3
    <2>5. "blit" \in Encoders BY DEF Encoders
    <2>. HIDE DEF cb
    <2>6. cb = [w.cb EXCEPT !.active = "blit"] BY DEF cb
    <2>. QED BY <1>a, <2>1, <2>4, <2>5, <2>6
  <1>4. LET v == RestartCompute(w) IN
              /\ Encoding(v, n) /\ SameQueries(w, v) /\ SameBuffer(w, v) /\ v.slots = w.slots
              /\ ~v.enc.recording
    <2>. PICK v : v = RestartCompute(w) OBVIOUS
    <2>. DEFINE enc == [w.enc EXCEPT !.compute = TRUE]
                cb == [w.cb EXCEPT !.active = "compute"]
    <2>1. enc \in EncoderStates /\ enc.recording = FALSE /\ enc.blit = FALSE /\ enc.compute = TRUE
          /\ enc.native = FALSE /\ enc.mode = 0
      BY <1>0, <1>1 DEF EncoderStates
    <2>2. v = WithCb(WithEnc(w, enc), [WithEnc(w, enc).cb EXCEPT !.active = "compute"])
      BY <1>b DEF RestartCompute, WithCb, WithEnc
    <2>. HIDE DEF enc
    <2>3. WithEnc(w, enc).cb = w.cb BY <1>0, <2>1, EncPart
    <2>4. v = WithCb(WithEnc(w, enc), cb) BY <2>2, <2>3
    <2>5. "compute" \in Encoders BY DEF Encoders
    <2>. HIDE DEF cb
    <2>6. cb = [w.cb EXCEPT !.active = "compute"] BY DEF cb
    <2>. QED BY <1>a, <2>1, <2>4, <2>5, <2>6
  <1>. QED BY <1>2, <1>3, <1>4

\* Without pending signals every fence is signalled.
LEMMA NothingPending ==
    ASSUME NEW w, NEW n \in Nat, w.cb.pending = <<>>
    PROVE  FencesKept(w, n) <=> Ordered(w.events, n)
  <1>1. Len(w.cb.pending) = 0 OBVIOUS
  <1>2. n - Len(w.cb.pending) = n BY <1>1
  <1>3. w.cb.pending = [i \in 1..Len(w.cb.pending) |-> n + i] BY <1>1
  <1>. QED BY <1>2, <1>3 DEF FencesKept

\* Commit, after the encoders have been ended.
LEMMA CommitKeeps ==
    ASSUME NEW w, NEW n \in Nat, Encoding(w, n)
    PROVE  LET v == Commit(w) IN
           /\ Encoding(v, n) /\ SameQueries(w, v) /\ v.slots = w.slots
           /\ ~v.cb.open /\ v.cb.serial = w.cb.serial /\ v.cb.active = "none"
  <1>. PICK v : v = Commit(w) OBVIOUS
  <1>1. CASE ~w.cb.open
    <2>1. v = w BY <1>1 DEF Commit
    <2>2. w.cb.active = "none" BY <1>1 DEF Encoding, EncodersAgree
    <2>. QED BY <1>1, <2>1, <2>2 DEF SameQueries
  <1>2. CASE w.cb.open
    <2>1. PICK u : u = ForceEndingCurrentEncoder(w) OBVIOUS
    <2>2. /\ Encoding(u, n) /\ SameQueries(w, u) /\ SameBuffer(w, u) /\ u.slots = w.slots
          /\ u.cb.active = "none"
      BY <2>1, ForceEndingKeeps
    <2>3. u \in ContextStates /\ u.cb \in CommandBuffers /\ FencesKept(u, n) /\ EncodersAgree(u)
      BY <2>2, Parts DEF Encoding
    <2>4. u.cb.pending = <<>> /\ ~u.enc.recording /\ u.enc.mode = 0 /\ u.written = {}
      BY <2>2, <2>3 DEF EncodersAgree
    <2>5. PICK x : x = SetPendingEvents(u) OBVIOUS
    <2>6. /\ x \in ContextStates /\ FencesKept(x, n) /\ x.cb = [u.cb EXCEPT !.pending = <<>>]
          /\ SamePass(u, x) /\ SameQueries(u, x)
      BY <2>3, <2>4, <2>5, SetPendingEventsKeep
    <2>7. x.cb = u.cb BY <2>3, <2>4, <2>6 DEF CommandBuffers
    <2>. DEFINE cb == [x.cb EXCEPT !.open = FALSE]
    <2>8. cb \in CommandBuffers /\ ~cb.open /\ cb.serial = w.cb.serial /\ cb.active = "none"
          /\ cb.pending = <<>>
      BY <2>2, <2>3, <2>4, <2>7 DEF CommandBuffers, SameBuffer
    <2>9. v = WithCb(x, cb) BY <1>2, <2>1, <2>5 DEF Commit, WithCb
    <2>. HIDE DEF cb
    <2>10. /\ v \in ContextStates /\ v.cb = cb /\ SameQueries(x, v) /\ v.enc = x.enc /\ v.slots = x.slots
           /\ v.written = x.written /\ v.events = x.events
      BY <2>6, <2>8, <2>9, CbPart
    <2>11. FencesKept(v, n) BY <2>4, <2>6, <2>7, <2>8, <2>10 DEF FencesKept
    <2>12. v.enc = u.enc /\ v.written = u.written /\ v.slots = w.slots
      BY <2>2, <2>6, <2>10 DEF SamePass
    <2>13. EncodersAgree(v) BY <2>2, <2>3, <2>4, <2>8, <2>10, <2>12 DEF EncodersAgree
    <2>14. SameQueries(w, v) BY <2>2, <2>6, <2>10 DEF SameQueries
    <2>. QED BY <2>8, <2>10, <2>11, <2>12, <2>13, <2>14 DEF Encoding
  <1>. QED BY <1>1, <1>2

\* One fence more waits for the end of the pass.
LEMMA OneMore ==
    ASSUME NEW p \in Seq(Nat), NEW n \in Nat, n - Len(p) \in Nat,
           p = [i \in 1..Len(p) |-> (n - Len(p)) + i]
    PROVE  LET q == Append(p, n + 1) IN
           /\ q \in Seq(Nat) /\ q # <<>> /\ (n + 1) - Len(q) = n - Len(p)
           /\ q = [i \in 1..Len(q) |-> (n - Len(p)) + i]
  <1>. DEFINE q == Append(p, n + 1)
  <1>0. \A x \in Seq(Nat) : Len(x) \in Nat OBVIOUS
  <1>1. PICK k \in Nat : k = Len(p) BY <1>0
  <1>2. PICK s \in Nat : s = n - Len(p) OBVIOUS
  <1>3. s + (k + 1) = n + 1 /\ (n + 1) - (k + 1) = s BY <1>1, <1>2
  <1>4. \A i \in 1..k : p[i] = s + i
    <2>1. p = [i \in 1..k |-> s + i] BY <1>1, <1>2
    <2>. QED BY <2>1
  <1>5. q \in Seq(Nat) /\ Len(q) = k + 1 /\ q # <<>> BY <1>1
  <1>6. \A i \in 1..k : q[i] = p[i] BY <1>1
  <1>7. q[k + 1] = n + 1 BY <1>1
  <1>. HIDE DEF q
  <1>8. \A i \in 1..(k + 1) : q[i] = s + i
    <2>. TAKE i \in 1..(k + 1)
    <2>1. i \in 1..k \/ i = k + 1 OBVIOUS
    <2>. QED BY <2>1, <1>3, <1>4, <1>6, <1>7
  <1>9. q = [i \in 1..(k + 1) |-> s + i]
    <2>1. DOMAIN q = 1..(k + 1) /\ q = [i \in DOMAIN q |-> q[i]] BY <1>5
    <2>. QED BY <2>1, <1>8
  <1>. QED BY <1>1, <1>2, <1>3, <1>5, <1>9 DEF q

\* A fence more: its signal is encoded, or waits for the end of the pass.
LEMMA QueueSignalKeeps ==
    ASSUME NEW w, NEW n \in Nat, Encoding(w, n), w.cb.open
    PROVE  LET v == QueueEventSignal(w, n + 1) IN
           /\ Encoding(v, n + 1) /\ SameQueries(w, v) /\ SameBuffer(w, v) /\ v.slots = w.slots
           /\ w.enc.recording => v.enc = w.enc /\ v.written = w.written
           /\ ~w.enc.recording => ~v.enc.recording
  <1>. PICK v : v = QueueEventSignal(w, n + 1) OBVIOUS
  <1>0. w \in ContextStates /\ w.cb \in CommandBuffers /\ w.events \in Seq(Event)
        /\ EncodersAgree(w) /\ FencesKept(w, n) /\ w.cb.pending \in Seq(Nat)
    BY Parts DEF Encoding, CommandBuffers
  <1>1. CASE w.cb.active = "render"
    <2>. DEFINE more == Append(w.cb.pending, n + 1)
                cb == [w.cb EXCEPT !.pending = more]
    <2>1. n - Len(w.cb.pending) \in Nat /\ Ordered(w.events, n - Len(w.cb.pending))
          /\ w.cb.pending = [i \in 1..Len(w.cb.pending) |-> (n - Len(w.cb.pending)) + i]
      BY <1>0 DEF FencesKept
    <2>2. /\ more \in Seq(Nat) /\ more # <<>> /\ (n + 1) - Len(more) = n - Len(w.cb.pending)
          /\ more = [i \in 1..Len(more) |-> (n - Len(w.cb.pending)) + i]
      BY <1>0, <2>1, OneMore
    <2>. HIDE DEF more
    <2>5. cb \in CommandBuffers /\ cb.pending = more /\ cb.active = "render" /\ cb.open = w.cb.open
          /\ cb.serial = w.cb.serial
      BY <1>0, <1>1, <2>2 DEF CommandBuffers
    <2>6. v = WithCb(w, cb) BY <1>1 DEF QueueEventSignal, WithCb, more
    <2>. HIDE DEF cb
    <2>7. /\ v \in ContextStates /\ v.cb = cb /\ SameQueries(w, v) /\ v.enc = w.enc /\ v.slots = w.slots
          /\ v.written = w.written /\ v.events = w.events
      BY <1>0, <2>5, <2>6, CbPart
    <2>8. FencesKept(v, n + 1)
      <3>1. v.cb.pending = more /\ v.events = w.events BY <2>5, <2>7
      <3>. QED BY <2>1, <2>2, <3>1, ZenonT(60) DEF FencesKept
    <2>9. w.enc.recording BY <1>0, <1>1 DEF EncodersAgree
    <2>10. EncodersAgree(v) BY <1>0, <1>1, <2>5, <2>7, <2>9 DEF EncodersAgree
    <2>. QED BY <2>5, <2>7, <2>8, <2>9, <2>10 DEF Encoding, SameBuffer
  <1>2. CASE w.cb.active # "render"
    <2>1. PICK u : u = ForceEndingCurrentEncoder(w) OBVIOUS
    <2>2. /\ Encoding(u, n) /\ SameQueries(w, u) /\ SameBuffer(w, u) /\ u.slots = w.slots
          /\ u.cb.active = "none"
      BY <2>1, ForceEndingKeeps
    <2>3. u \in ContextStates /\ u.events \in Seq(Event) /\ u.failed = {} /\ FencesKept(u, n)
          /\ EncodersAgree(u)
      BY <2>2, Parts DEF Encoding
    <2>4. u.cb.pending = <<>> /\ ~u.enc.recording /\ ~u.enc.native /\ ~u.enc.blit /\ ~u.enc.compute
          /\ u.cb.open
      BY <2>2, <2>3 DEF EncodersAgree, SameBuffer
    <2>5. Ordered(u.events, n) BY <2>3, <2>4, NothingPending
    <2>. DEFINE more == [i \in 1..1 |-> [kind |-> "signal", value |-> n + i]]
                all == u.events \o more
    <2>6. 1 \in Nat OBVIOUS
    <2>7. all \in Seq(Event) /\ Ordered(all, n + 1) BY <2>3, <2>5, <2>6, OrderedSignals
    <2>8. [i \in DOMAIN <<n + 1>> |-> [kind |-> "signal", value |-> <<n + 1>>[i]]] = more OBVIOUS
    <2>. HIDE DEF more
    <2>9. <<n + 1>> # <<>> OBVIOUS
    <2>10. v = EncodeSignals(u, <<n + 1>>) BY <1>2, <2>1 DEF QueueEventSignal
    <2>11. v = WithEvents(u, all)
      BY <2>2, <2>4, <2>8, <2>9, <2>10 DEF EncodeSignals, Encode, Check, WithEvents, NoneOpen
    <2>. HIDE DEF all
    <2>12. v \in ContextStates /\ v.events = all /\ v.cb = u.cb /\ v.enc = u.enc /\ v.slots = u.slots
           /\ v.written = u.written /\ SameQueries(u, v)
      BY <2>3, <2>7, <2>11, EventsPart
    <2>13. FencesKept(v, n + 1)
      <3>1. v.cb.pending = <<>> /\ n + 1 \in Nat BY <2>4, <2>12
      <3>. QED BY <2>7, <2>12, <3>1, NothingPending
    <2>14. EncodersAgree(v) BY <2>3, <2>12 DEF EncodersAgree
    <2>15. SameQueries(w, v) /\ SameBuffer(w, v) /\ v.slots = w.slots /\ ~v.enc.recording
      BY <2>2, <2>4, <2>12, ZenonT(60) DEF SameQueries, SameBuffer
    <2>16. ~w.enc.recording BY <1>0, <1>2 DEF EncodersAgree
    <2>. QED BY <2>12, <2>13, <2>14, <2>15, <2>16 DEF Encoding
  <1>. QED BY <1>1, <1>2

\* Outside a pass all fences are signalled, so a wait is for one of them.
LEMMA WaitKeeps ==
    ASSUME NEW w, NEW n \in Nat, Encoding(w, n), w.cb.open, w.cb.active # "render", NEW fence \in 1..n
    PROVE  LET v == ServerWaitEvent(w, fence) IN
           /\ Encoding(v, n) /\ SameQueries(w, v) /\ SameBuffer(w, v) /\ v.slots = w.slots
           /\ ~v.enc.recording
  <1>. PICK v : v = ServerWaitEvent(w, fence) OBVIOUS
  <1>0. Check(w, w.cb.active # "render", "event in render pass") = w BY DEF Check
  <1>1. PICK u : u = ForceEndingCurrentEncoder(w) OBVIOUS
  <1>2. /\ Encoding(u, n) /\ SameQueries(w, u) /\ SameBuffer(w, u) /\ u.slots = w.slots
        /\ u.cb.active = "none"
    BY <1>1, ForceEndingKeeps
  <1>3. u \in ContextStates /\ u.cb \in CommandBuffers /\ FencesKept(u, n) /\ EncodersAgree(u)
    BY <1>2, Parts DEF Encoding
  <1>4. u.cb.pending = <<>> /\ ~u.enc.recording /\ ~u.enc.native /\ ~u.enc.blit /\ ~u.enc.compute
        /\ u.cb.open
    BY <1>2, <1>3 DEF EncodersAgree, SameBuffer
  <1>5. PICK x : x = SetPendingEvents(u) OBVIOUS
  <1>6. /\ x \in ContextStates /\ FencesKept(x, n) /\ x.cb = [u.cb EXCEPT !.pending = <<>>]
        /\ SamePass(u, x) /\ SameQueries(u, x)
    BY <1>3, <1>4, <1>5, SetPendingEventsKeep
  <1>7. x.cb = u.cb BY <1>3, <1>4, <1>6 DEF CommandBuffers
  <1>8. x.events \in Seq(Event) /\ x.failed = {} BY <1>6, Parts
  <1>9. Ordered(x.events, n) BY <1>4, <1>6, <1>7, NothingPending
  <1>. DEFINE all == Append(x.events, [kind |-> "wait", value |-> fence])
              more == <<[kind |-> "wait", value |-> fence]>>
  <1>10. all \in Seq(Event) /\ Ordered(all, n) BY <1>8, <1>9, OrderedWait
  <1>11. [i \in DOMAIN <<fence>> |-> [kind |-> "wait", value |-> <<fence>>[i]]] = more OBVIOUS
  <1>12. x.events \o more = all BY <1>8
  <1>. HIDE DEF more
  <1>13. <<fence>> # <<>> OBVIOUS
  <1>14. NoneOpen(x) /\ x.cb.open BY <1>4, <1>6, <1>7 DEF NoneOpen, SamePass
  <1>15. v = Encode(x, "wait", <<fence>>) BY <1>0, <1>1, <1>5 DEF ServerWaitEvent
  <1>16. v = WithEvents(x, x.events \o more)
    BY <1>11, <1>13, <1>14, <1>15 DEF Encode, Check, WithEvents
  <1>17. v = WithEvents(x, all) BY <1>12, <1>16
  <1>. HIDE DEF all
  <1>18. v \in ContextStates /\ v.events = all /\ v.cb = x.cb /\ v.enc = x.enc /\ v.slots = x.slots
         /\ v.written = x.written /\ SameQueries(x, v)
    BY <1>6, <1>10, <1>17, EventsPart
  <1>19. FencesKept(v, n)
    <2>1. v.cb.pending = <<>> BY <1>4, <1>7, <1>18
    <2>. QED BY <1>10, <1>18, <2>1, NothingPending
  <1>20. v.enc = u.enc /\ v.cb = u.cb /\ v.written = u.written /\ v.slots = u.slots
    BY <1>6, <1>7, <1>18 DEF SamePass
  <1>21. EncodersAgree(v) BY <1>3, <1>20 DEF EncodersAgree
  <1>22. SameQueries(w, v) /\ SameBuffer(w, v) BY <1>2, <1>6, <1>18, <1>20 DEF SameQueries, SameBuffer
  <1>. QED BY <1>2, <1>4, <1>18, <1>19, <1>20, <1>21, <1>22 DEF Encoding

\* setVisibilityResultMode: no slot, or one that the pass has not written.
LEMMA ModeKeeps ==
    ASSUME NEW w, NEW n \in Nat, Encoding(w, n), NEW slot \in Nat,
           slot # 0 => w.enc.recording /\ slot \notin w.written
    PROVE  LET v == SetVisibilityResultMode(w, slot) IN
           /\ Encoding(v, n) /\ SameQueries(w, v) /\ v.cb = w.cb /\ v.slots = w.slots
           /\ v.written = w.written /\ v.enc.mode = slot /\ v.enc.recording = w.enc.recording
  <1>. PICK v : v = SetVisibilityResultMode(w, slot) OBVIOUS
  <1>. DEFINE enc == [w.enc EXCEPT !.mode = slot]
  <1>0. w \in ContextStates /\ w.enc \in EncoderStates BY Parts DEF Encoding
  <1>1. v = WithEnc(w, enc) BY DEF SetVisibilityResultMode, Check, WithEnc
  <1>2. enc \in EncoderStates /\ enc.mode = slot /\ enc.recording = w.enc.recording /\ enc.blit = w.enc.blit
        /\ enc.compute = w.enc.compute /\ enc.native = w.enc.native
    BY <1>0 DEF EncoderStates
  <1>. HIDE DEF enc
  <1>3. /\ v \in ContextStates /\ v.enc = enc /\ v.cb = w.cb /\ v.slots = w.slots
        /\ v.written = w.written /\ v.events = w.events /\ SameQueries(w, v)
    BY <1>0, <1>1, <1>2, EncPart
  <1>4. EncodersAgree(v) /\ FencesKept(v, n)
    BY <1>2, <1>3 DEF Encoding, EncodersAgree, FencesKept
  <1>. QED BY <1>2, <1>3, <1>4 DEF Encoding

\* A draw writes the slot that is enabled.
LEMMA DrawKeeps ==
    ASSUME NEW w, NEW n \in Nat, Encoding(w, n), w.enc.recording, w.enc.mode <= MaxSlots,
           NEW visible \in BOOLEAN
    PROVE  LET v == EncodeDraw(w, visible) IN
           /\ Encoding(v, n) /\ SameQueries(w, v) /\ v.cb = w.cb
           /\ v.enc.mode = w.enc.mode /\ v.enc.recording
           /\ v.written \subseteq w.written \cup {w.enc.mode}
  <1>. PICK v : v = EncodeDraw(w, visible) OBVIOUS
  <1>0. w \in ContextStates /\ w.enc \in EncoderStates BY Parts DEF Encoding
  <1>1. PICK u : u = EnsureMetalEncoderStarted(w) OBVIOUS
  <1>2. /\ Encoding(u, n) /\ u.cb = w.cb /\ SameQueries(w, u) /\ u.slots = w.slots
        /\ u.written = w.written /\ u.enc = [w.enc EXCEPT !.native = TRUE]
    BY <1>1, EnsureStarted
  <1>3. u.enc.mode = w.enc.mode /\ u.enc.recording /\ u.enc.mode \in Nat
    BY <1>0, <1>2 DEF EncoderStates
  <1>4. CASE ~u.enc.native \/ u.enc.mode = 0
    <2>1. v = u BY <1>1, <1>4 DEF EncodeDraw, NativeDraw
    <2>. QED BY <1>2, <1>3, <2>1
  <1>5. CASE u.enc.native /\ u.enc.mode # 0
    <2>. DEFINE m == u.enc.mode
                slots == [u.slots EXCEPT ![m] = visible \/ (m \in u.written /\ @)]
                written == u.written \cup {m}
    <2>0. u \in ContextStates /\ u.slots \in [Slots -> BOOLEAN] /\ u.written \in SUBSET Slots
      BY <1>2, Parts DEF Encoding
    <2>1. m \in Slots BY <1>3, <1>5, SlotsAssumption DEF Slots
    <2>2. slots \in [Slots -> BOOLEAN] /\ written \in SUBSET Slots
      <3>1. PICK b \in BOOLEAN : b = (visible \/ (m \in u.written /\ u.slots[m])) OBVIOUS
      <3>2. slots = [u.slots EXCEPT ![m] = b] BY <3>1
      <3>3. [u.slots EXCEPT ![m] = b] \in [Slots -> BOOLEAN] BY <2>0, <2>1
      <3>. QED BY <2>0, <2>1, <3>2, <3>3
    <2>3. PICK x : x = WithSlots(u, slots) OBVIOUS
    <2>4. v = WithWritten(x, x.written \cup {m})
      BY <1>1, <1>5, <2>3 DEF EncodeDraw, NativeDraw, WithSlots, WithWritten
    <2>. HIDE DEF slots
    <2>5. /\ x \in ContextStates /\ x.enc = u.enc /\ x.cb = u.cb
          /\ x.written = u.written /\ x.events = u.events /\ SameQueries(u, x)
      BY <2>0, <2>2, <2>3, SlotsPart
    <2>6. v = WithWritten(x, written) BY <2>4, <2>5
    <2>. HIDE DEF m, written
    <2>7. /\ v \in ContextStates /\ v.enc = x.enc /\ v.cb = x.cb
          /\ v.written = written /\ v.events = x.events /\ SameQueries(x, v)
      BY <2>2, <2>5, <2>6, WrittenPart
    <2>8. EncodersAgree(v) /\ FencesKept(v, n)
      BY <1>2, <1>3, <2>5, <2>7 DEF Encoding, EncodersAgree, FencesKept
    <2>9. SameQueries(w, v) BY <1>2, <2>5, <2>7 DEF SameQueries
    <2>. QED BY <1>2, <1>3, <2>5, <2>7, <2>8, <2>9 DEF Encoding, written, m
  <1>. QED BY <1>4, <1>5

-----------------------------------------------------------------------------
(* Slots. *)

\* A query that counts has a block of slots of this pass, whose first entry
\* names the query.
Taken(w) ==
    /\ Len(w.allocated) <= MaxSlots
    /\ \A q \in Queries : w.query[q].count > 0 =>
         /\ w.query[q].first \in 1..Len(w.allocated)
         /\ OffsetBack(w.query[q]) <= Len(w.allocated)
         /\ w.allocated[w.query[q].first] = q

\* Draws have written slots that were taken.
SlotsUsed(w) == w.enc.mode <= Len(w.allocated) /\ w.written \subseteq 1..Len(w.allocated)

\* Nothing is used, or done, by a command buffer that there was not.
Past(w) ==
    /\ w.done <= w.cb.serial /\ w.uniforms.usage <= w.cb.serial
    /\ \A q \in Queries : w.query[q].usage <= w.cb.serial

\* The slots are those of the pass that is being recorded.
Steady(w, n) ==
    /\ Encoding(w, n) /\ Taken(w) /\ SlotsUsed(w) /\ Past(w)
    /\ ~w.enc.recording => w.allocated = <<>>

\* Between calls.  The active query counts in the last slots.
Ready(w, n) ==
    /\ Steady(w, n)
    /\ w.active # NoQuery => w.made
    /\ Counting(w) => OffsetBack(w.query[w.active]) = Len(w.allocated)

\* What ending and starting encoders leaves alone.
Onward(w, v) ==
    /\ v.active = w.active /\ v.made = w.made /\ v.done = w.done /\ v.uniforms = w.uniforms
    /\ v.device = w.device /\ w.cb.serial <= v.cb.serial

SameBlocks(w, v) ==
    /\ v.allocated = w.allocated
    /\ \A q \in Queries : v.query[q].first = w.query[q].first /\ v.query[q].count = w.query[q].count

\* The types of the parts of a query.
LEMMA QueryParts ==
    ASSUME NEW w \in ContextStates, NEW q \in Queries
    PROVE  /\ w.query[q] \in QueryStates /\ w.query[q].first \in Nat /\ w.query[q].count \in Nat
           /\ w.query[q].usage \in Nat /\ w.query[q].encoded \in BOOLEAN
           /\ w.cb.serial \in Nat /\ w.done \in Nat /\ w.uniforms.usage \in Nat
           /\ Len(w.allocated) \in Nat
  <1>1. w.query[q] \in QueryStates /\ w.cb \in CommandBuffers /\ w.done \in Nat
        /\ w.uniforms.usage \in Nat /\ w.allocated \in Seq(Queries \cup {NoQuery})
    BY Parts
  <1>2. Len(w.allocated) \in Nat BY <1>1
  <1>. QED BY <1>1, <1>2 DEF QueryStates, CommandBuffers

\* Encoders for the results of a pass that has ended.
LEMMA AfterPassKeeps ==
    ASSUME NEW w, NEW n \in Nat, Encoding(w, n), ~w.enc.recording
    PROVE  /\ LET v == BlitAfterPass(w) IN
              /\ Encoding(v, n) /\ SameQueries(w, v) /\ v.slots = w.slots
              /\ ~v.enc.recording /\ w.cb.serial <= v.cb.serial /\ v.cb.serial \in Nat /\ v.cb.open
           /\ LET v == ComputeAfterPass(w) IN
              /\ Encoding(v, n) /\ SameQueries(w, v) /\ v.slots = w.slots
              /\ ~v.enc.recording /\ w.cb.serial <= v.cb.serial /\ v.cb.serial \in Nat /\ v.cb.open
  <1>0. w.cb \in CommandBuffers /\ w.cb.serial \in Nat BY Parts DEF Encoding, CommandBuffers
  <1>1. PICK a : a = EndOutsidePass(w) OBVIOUS
  <1>2. /\ Encoding(a, n) /\ SameQueries(w, a) /\ SameBuffer(w, a) /\ a.slots = w.slots
        /\ a.cb.active = "none"
    BY <1>1, EndOutsidePassKeeps
  <1>3. PICK b : b = EnsureCommandBufferValid(a) OBVIOUS
  <1>4. /\ Encoding(b, n) /\ SameQueries(a, b) /\ SamePass(a, b) /\ b.cb.open /\ b.cb.serial \in Nat
        /\ a.cb.serial <= b.cb.serial /\ b.cb.active = "none"
    BY <1>2, <1>3, EnsureValidKeeps
  <1>5. PICK v : v = BlitAfterPass(w) OBVIOUS
  <1>6. /\ Encoding(v, n) /\ SameQueries(w, v) /\ v.slots = w.slots
        /\ ~v.enc.recording /\ w.cb.serial <= v.cb.serial /\ v.cb.serial \in Nat /\ v.cb.open
    <2>1. CASE w.enc.blit
      <3>1. v = w BY <2>1, <1>5 DEF BlitAfterPass
      <3>2. w.cb.open BY <2>1 DEF Encoding, EncodersAgree
      <3>. QED BY <3>1, <3>2, <1>0 DEF SameQueries
    <2>2. CASE ~w.enc.blit
      <3>1. v = RestartBlit(b) BY <2>2, <1>1, <1>3, <1>5 DEF BlitAfterPass
      <3>2. /\ Encoding(v, n) /\ SameQueries(b, v) /\ SameBuffer(b, v) /\ v.slots = b.slots
            /\ ~v.enc.recording
        BY <3>1, <1>4, RestartKeeps
      <3>3. SameQueries(w, v) BY <1>2, <1>4, <3>2 DEF SameQueries
      <3>. QED BY <1>0, <1>2, <1>4, <3>2, <3>3 DEF SamePass, SameBuffer
    <2>. QED BY <2>1, <2>2
  <1>7. PICK x : x = ComputeAfterPass(w) OBVIOUS
  <1>8. /\ Encoding(x, n) /\ SameQueries(w, x) /\ x.slots = w.slots
        /\ ~x.enc.recording /\ w.cb.serial <= x.cb.serial /\ x.cb.serial \in Nat /\ x.cb.open
    <2>1. CASE w.enc.compute
      <3>1. x = w BY <2>1, <1>7 DEF ComputeAfterPass
      <3>2. w.cb.open BY <2>1 DEF Encoding, EncodersAgree
      <3>. QED BY <3>1, <3>2, <1>0 DEF SameQueries
    <2>2. CASE ~w.enc.compute
      <3>1. x = RestartCompute(b) BY <2>2, <1>1, <1>3, <1>7 DEF ComputeAfterPass
      <3>2. /\ Encoding(x, n) /\ SameQueries(b, x) /\ SameBuffer(b, x) /\ x.slots = b.slots
            /\ ~x.enc.recording
        BY <3>1, <1>4, RestartKeeps
      <3>3. SameQueries(w, x) BY <1>2, <1>4, <3>2 DEF SameQueries
      <3>. QED BY <1>0, <1>2, <1>4, <3>2, <3>3 DEF SamePass, SameBuffer
    <2>. QED BY <2>1, <2>2
  <1>. QED BY <1>5, <1>6, <1>7, <1>8

-----------------------------------------------------------------------------
(* The results of a pass. *)

\* The loop over the slots of a pass: w is its start, v a later state.
Resolving(w, v, n) ==
    /\ Encoding(v, n) /\ ~v.enc.recording /\ SameBlocks(w, v) /\ Onward(w, v) /\ Past(v)

\* An encoder for the next result.
LEMMA AfterPassResolves ==
    ASSUME NEW w, NEW v, NEW n \in Nat, Resolving(w, v, n), w.cb.serial \in Nat,
           NEW x \in {BlitAfterPass(v), ComputeAfterPass(v)}
    PROVE  Resolving(w, x, n)
  <1>1. Encoding(v, n) /\ ~v.enc.recording BY DEF Resolving
  <1>2. /\ Encoding(x, n) /\ SameQueries(v, x)
        /\ ~x.enc.recording /\ v.cb.serial <= x.cb.serial /\ x.cb.serial \in Nat
    BY <1>1, AfterPassKeeps
  <1>3. v \in ContextStates /\ v.cb \in CommandBuffers /\ v.done \in Nat /\ v.uniforms.usage \in Nat
        /\ v.cb.serial \in Nat
    BY <1>1, Parts DEF Encoding, CommandBuffers
  <1>4. \A q \in Queries : v.query[q].usage \in Nat BY <1>3, QueryParts
  <1>5. Past(x) BY <1>2, <1>3, <1>4 DEF Resolving, Past, SameQueries
  <1>6. SameBlocks(w, x) BY <1>2 DEF Resolving, SameBlocks, SameQueries
  <1>7. Onward(w, x) BY <1>2, <1>3 DEF Resolving, Onward, SameQueries
  <1>. QED BY <1>2, <1>5, <1>6, <1>7 DEF Resolving

\* A result is written.
LEMMA WriteResolves ==
    ASSUME NEW w, NEW v, NEW n \in Nat, Resolving(w, v, n), w.cb.serial \in Nat,
           NEW q \in Queries, NEW value \in BOOLEAN
    PROVE  Resolving(w, WriteResult(v, q, value), n)
  <1>0. Encoding(v, n) /\ v \in ContextStates BY DEF Resolving, Encoding
  <1>1. v.query \in [Queries -> QueryStates] /\ v.cb \in CommandBuffers /\ v.cb.serial \in Nat
    BY <1>0, Parts DEF CommandBuffers
  <1>. DEFINE new == [v.query[q] EXCEPT !.encoded = value, !.lastWrite = v.cb.serial,
                                        !.usage = v.cb.serial]
              query == [v.query EXCEPT ![q] = new]
  <1>2. new \in QueryStates /\ new.first = v.query[q].first /\ new.count = v.query[q].count
        /\ new.usage = v.cb.serial
    BY <1>1 DEF QueryStates
  <1>. HIDE DEF new
  <1>3. query \in [Queries -> QueryStates] /\ query[q] = new
        /\ \A r \in Queries \ {q} : query[r] = v.query[r]
    BY <1>1, <1>2
  <1>4. PICK x : x = WriteResult(v, q, value) OBVIOUS
  <1>5. x = WithQuery(v, query)
    BY <1>0, <1>1, <1>4 DEF WriteResult, WithQuery, new, ContextStates
  <1>. HIDE DEF query
  <1>6. /\ x \in ContextStates /\ x.query = query /\ SameEncoding(v, x)
        /\ x.allocated = v.allocated /\ x.active = v.active /\ x.made = v.made
        /\ x.resetFirst = v.resetFirst /\ x.drawn = v.drawn /\ x.uniforms = v.uniforms
        /\ x.done = v.done /\ x.device = v.device
    BY <1>0, <1>3, <1>5, QueryPart
  <1>7. Encoding(x, n) BY <1>0, <1>6 DEF Encoding, EncodersAgree, FencesKept, SameEncoding
  <1>8. ~x.enc.recording /\ x.cb = v.cb BY <1>6 DEF Resolving, SameEncoding
  <1>9. Past(x)
    <2>1. \A r \in Queries : x.query[r].usage <= v.cb.serial
      BY <1>1, <1>2, <1>3, <1>6 DEF Resolving, Past
    <2>. QED BY <1>6, <1>8, <2>1 DEF Resolving, Past
  <1>10. SameBlocks(w, x)
    <2>1. \A r \in Queries : x.query[r].first = v.query[r].first /\ x.query[r].count = v.query[r].count
      BY <1>2, <1>3, <1>6
    <2>. QED BY <1>6, <2>1 DEF Resolving, SameBlocks
  <1>11. Onward(w, x) BY <1>6, <1>8 DEF Resolving, Onward
  <1>. QED BY <1>4, <1>7, <1>8, <1>9, <1>10, <1>11 DEF Resolving

\* combineVisibilityResult
LEMMA CombineResolves ==
    ASSUME NEW w, NEW v, NEW n \in Nat, Resolving(w, v, n), w.cb.serial \in Nat,
           NEW q \in Queries, NEW keep \in BOOLEAN
    PROVE  Resolving(w, CombineVisibilityResult(v, q, keep), n)
  <1>1. PICK x : x = IF v.query[q].count = 1 /\ ~keep THEN BlitAfterPass(v) ELSE ComputeAfterPass(v)
    OBVIOUS
  <1>2. x \in {BlitAfterPass(v), ComputeAfterPass(v)} BY <1>1
  <1>3. Resolving(w, x, n) BY <1>2, AfterPassResolves
  <1>4. Combined(v, q, keep) \in BOOLEAN BY DEF Combined
  <1>. PICK b : b = Combined(v, q, keep) OBVIOUS
  <1>5. Resolving(w, WriteResult(x, q, b), n) BY <1>3, <1>4, WriteResolves
  <1>. QED BY <1>1, <1>5 DEF CombineVisibilityResult

\* The old value is copied to the first slot.
LEMMA CopyResolves ==
    ASSUME NEW w, NEW v, NEW n \in Nat, Resolving(w, v, n), w.cb.serial \in Nat, NEW q \in Queries
    PROVE  Resolving(w, CopyOldValue(v, q), n)
  <1>0. v.query[q].encoded \in BOOLEAN BY QueryParts DEF Resolving, Encoding
  <1>1. PICK u : u = BlitAfterPass(v) OBVIOUS
  <1>2. Resolving(w, u, n) BY <1>1, AfterPassResolves
  <1>3. u \in ContextStates /\ u.slots \in [Slots -> BOOLEAN] BY <1>2, Parts DEF Resolving, Encoding
  <1>. DEFINE slots == [u.slots EXCEPT ![v.query[q].first] = v.query[q].encoded]
  <1>4. slots \in [Slots -> BOOLEAN] BY <1>0, <1>3
  <1>5. PICK x : x = CopyOldValue(v, q) OBVIOUS
  <1>6. x = WithSlots(u, slots) BY <1>1, <1>5 DEF CopyOldValue, WithSlots
  <1>. HIDE DEF slots
  <1>7. /\ x \in ContextStates /\ x.enc = u.enc /\ x.cb = u.cb
        /\ x.written = u.written /\ x.events = u.events /\ SameQueries(u, x)
    BY <1>3, <1>4, <1>6, SlotsPart
  <1>8. Encoding(x, n) BY <1>2, <1>7 DEF Resolving, Encoding, EncodersAgree, FencesKept
  <1>9. ~x.enc.recording /\ SameBlocks(w, x) /\ Onward(w, x) /\ Past(x)
    BY <1>2, <1>7 DEF Resolving, SameBlocks, Onward, Past, SameQueries
  <1>. QED BY <1>5, <1>8, <1>9 DEF Resolving

\* One slot of the pass.
LEMMA EntryResolves ==
    ASSUME NEW w, NEW v, NEW n \in Nat, Resolving(w, v, n), w.cb.serial \in Nat,
           NEW i \in DOMAIN w.allocated
    PROVE  Resolving(w, ResolveEntry(v, i), n)
  <1>0. v \in ContextStates /\ v.allocated = w.allocated
        /\ v.allocated \in Seq(Queries \cup {NoQuery})
    BY Parts DEF Resolving, Encoding, SameBlocks
  <1>1. CASE v.allocated[i] = NoQuery
    BY <1>1 DEF ResolveEntry
  <1>2. CASE v.allocated[i] # NoQuery
    <2>1. PICK q \in Queries : q = v.allocated[i] BY <1>0, <1>2
    <2>2. TRUE \in BOOLEAN /\ FALSE \in BOOLEAN OBVIOUS
    <2>3. /\ Resolving(w, CombineVisibilityResult(v, q, TRUE), n)
          /\ Resolving(w, CombineVisibilityResult(v, q, FALSE), n)
      BY <2>2, CombineResolves
    <2>4. PICK u : u = CopyOldValue(v, q) OBVIOUS
    <2>5. Resolving(w, u, n) BY <2>4, CopyResolves
    <2>6. Resolving(w, CombineVisibilityResult(u, q, FALSE), n) BY <2>2, <2>5, CombineResolves
    <2>7. Resolving(w, ResolveFirst(v, q), n) BY <2>3, <2>4, <2>6 DEF ResolveFirst
    <2>. QED BY <1>2, <2>1, <2>3, <2>7 DEF ResolveEntry
  <1>. QED BY <1>1, <1>2

\* The values of the loop.
Steps(w, f, n) == f = [i \in 0..n |-> IF i = 0 THEN w ELSE ResolveEntry(f[i - 1], i)]

\* A nonempty set of numbers has a least element.
LEMMA LeastNat ==
    ASSUME NEW S \in SUBSET Nat, S # {}
    PROVE  \E m \in S : \A k \in S : m <= k
  <1>1. PICK m \in S : \A k \in S : <<k, m>> \notin OpToRel(<, Nat)
    BY NatLessThanWellFounded, WFMin
  <1>2. \A k \in S : ~(k < m) BY <1>1 DEF OpToRel
  <1>. QED BY <1>2

\* Induction over the numbers, with the property as a set.
LEMMA Induction ==
    ASSUME NEW S \in SUBSET Nat, 0 \in S, \A k \in S : k + 1 \in S
    PROVE  S = Nat
  <1>. SUFFICES ASSUME Nat \ S # {} PROVE FALSE OBVIOUS
  <1>1. PICK m \in Nat \ S : \A k \in Nat \ S : m <= k BY LeastNat
  <1>2. m # 0 /\ m - 1 \in Nat BY <1>1
  <1>3. m - 1 \in S BY <1>1, <1>2
  <1>4. (m - 1) + 1 \in S BY <1>3
  <1>. QED BY <1>1, <1>4

\* The recursive definition of the loop has a solution: by induction over the
\* number of steps.
LEMMA StepsExist ==
    ASSUME NEW w, NEW n \in Nat
    PROVE  \E f : Steps(w, f, n)
  <1>. DEFINE S == {k \in Nat : \E f : Steps(w, f, k)}
  <1>1. \E f : Steps(w, f, 0)
    <2>1. Steps(w, [i \in 0..0 |-> w], 0) BY DEF Steps
    <2>. QED BY <2>1
  <1>2. ASSUME NEW k \in Nat, \E f : Steps(w, f, k)
        PROVE  \E f : Steps(w, f, k + 1)
    <2>1. PICK f : Steps(w, f, k) BY <1>2
    <2>. DEFINE g == [i \in 0..(k + 1) |-> IF i = k + 1 THEN ResolveEntry(f[k], k + 1) ELSE f[i]]
    <2>2. \A i \in 0..k : f[i] = IF i = 0 THEN w ELSE ResolveEntry(f[i - 1], i) BY <2>1 DEF Steps
    <2>3. \A i \in 0..k : g[i] = f[i] OBVIOUS
    <2>4. g[k + 1] = ResolveEntry(f[k], k + 1) OBVIOUS
    <2>5. \A i \in 0..(k + 1) : g[i] = IF i = 0 THEN w ELSE ResolveEntry(g[i - 1], i)
      <3>. TAKE i \in 0..(k + 1)
      <3>1. CASE i = k + 1
        <4>1. g[i - 1] = f[k] BY <3>1, <2>3
        <4>. QED BY <4>1, <3>1, <2>4
      <3>2. CASE i = 0 BY <3>2, <2>2, <2>3
      <3>3. CASE i \in 1..k
        <4>1. g[i - 1] = f[i - 1] /\ g[i] = f[i] BY <3>3, <2>3
        <4>. QED BY <4>1, <3>3, <2>2
      <3>. QED BY <3>1, <3>2, <3>3
    <2>6. g = [i \in 0..(k + 1) |-> g[i]] OBVIOUS
    <2>. HIDE DEF g
    <2>7. Steps(w, g, k + 1) BY <2>5, <2>6 DEF Steps
    <2>. QED BY <2>7
  <1>3. S \in SUBSET Nat /\ 0 \in S /\ \A k \in S : k + 1 \in S BY <1>1, <1>2
  <1>. HIDE DEF S
  <1>4. S = Nat BY <1>3, Induction
  <1>. QED BY <1>4 DEF S

\* What the loop computes is the last value of its solution.
LEMMA ResolvedIs ==
    ASSUME NEW w, Len(w.allocated) \in Nat
    PROVE  \E f : Steps(w, f, Len(w.allocated)) /\ Resolved(w) = f[Len(w.allocated)]
  <1>1. \E f : Steps(w, f, Len(w.allocated)) BY StepsExist
  <1>. DEFINE r[i \in 0..Len(w.allocated)] == IF i = 0 THEN w ELSE ResolveEntry(r[i - 1], i)
  <1>2. Resolved(w) = r[Len(w.allocated)] BY DEF Resolved
  <1>3. Steps(w, r, Len(w.allocated)) BY <1>1 DEF Steps
  <1>. QED BY <1>2, <1>3

\* The loop over the slots of a pass, by induction.
LEMMA ResolvedKeeps ==
    ASSUME NEW w, NEW n \in Nat, Encoding(w, n), ~w.enc.recording, Past(w)
    PROVE  Resolving(w, Resolved(w), n)
  <1>0. /\ w \in ContextStates /\ w.allocated \in Seq(Queries \cup {NoQuery})
        /\ w.cb \in CommandBuffers /\ w.cb.serial \in Nat
    BY Parts DEF Encoding, CommandBuffers
  <1>1. PICK m \in Nat : m = Len(w.allocated) /\ DOMAIN w.allocated = 1..m BY <1>0
  <1>2. PICK f : Steps(w, f, m) /\ Resolved(w) = f[m] BY <1>1, ResolvedIs
  <1>3. \A i \in 0..m : f[i] = IF i = 0 THEN w ELSE ResolveEntry(f[i - 1], i) BY <1>2 DEF Steps
  <1>4. Resolving(w, w, n) BY <1>0 DEF Resolving, SameBlocks, Onward
  <1>. DEFINE S == {k \in Nat : k <= m => Resolving(w, f[k], n)}
  <1>5. 0 \in S BY <1>3, <1>4
  <1>6. ASSUME NEW k \in S PROVE k + 1 \in S
    <2>. SUFFICES ASSUME k + 1 <= m PROVE Resolving(w, f[k + 1], n) OBVIOUS
    <2>1. Resolving(w, f[k], n) /\ k + 1 \in DOMAIN w.allocated /\ k + 1 \in 0..m BY <1>1
    <2>2. f[k + 1] = ResolveEntry(f[k], k + 1)
      <3>1. (k + 1) - 1 = k /\ k + 1 # 0 OBVIOUS
      <3>. QED BY <1>3, <2>1, <3>1
    <2>. QED BY <1>0, <2>1, <2>2, EntryResolves
  <1>7. S \in SUBSET Nat OBVIOUS
  <1>. HIDE DEF S
  <1>8. m \in S BY <1>5, <1>6, <1>7, Induction
  <1>. QED BY <1>2, <1>8 DEF S

\* The entries are cleared: no query has slots.
LEMMA ClearKeeps ==
    ASSUME NEW w, NEW n \in Nat, Encoding(w, n), ~w.enc.recording, Past(w), Taken(w)
    PROVE  LET v == ClearAllocated(w) IN
           /\ Steady(v, n) /\ v.allocated = <<>> /\ \A q \in Queries : v.query[q].count = 0
           /\ v.cb = w.cb /\ v.enc = w.enc /\ Onward(w, v)
  <1>. DEFINE slots == [s \in Slots |-> TRUE]
              query == [q \in Queries |->
                           IF \E i \in DOMAIN w.allocated : w.allocated[i] = q
                           THEN [w.query[q] EXCEPT !.first = 0, !.count = 0]
                           ELSE w.query[q]]
  <1>0. /\ w \in ContextStates /\ w.query \in [Queries -> QueryStates] /\ w.cb \in CommandBuffers
        /\ w.allocated \in Seq(Queries \cup {NoQuery})
    BY Parts DEF Encoding
  <1>1. w.cb.serial \in Nat /\ DOMAIN w.allocated = 1..Len(w.allocated) BY <1>0 DEF CommandBuffers
  <1>2. \A q \in Queries : query[q] \in QueryStates /\ query[q].usage = w.query[q].usage
                           /\ query[q].count = 0
    <2>. TAKE q \in Queries
    <2>0. w.query[q] \in QueryStates /\ w.query[q].count \in Nat BY <1>0, QueryParts
    <2>1. CASE \E i \in DOMAIN w.allocated : w.allocated[i] = q
      <3>1. query[q] = [w.query[q] EXCEPT !.first = 0, !.count = 0] BY <2>1
      <3>. QED BY <2>0, <3>1 DEF QueryStates
    <2>2. CASE ~\E i \in DOMAIN w.allocated : w.allocated[i] = q
      <3>1. query[q] = w.query[q] BY <2>2
      <3>2. w.query[q].count = 0 BY <1>1, <2>0, <2>2 DEF Taken
      <3>. QED BY <2>0, <3>1, <3>2
    <2>. QED BY <2>1, <2>2
  <1>3. query \in [Queries -> QueryStates] /\ slots \in [Slots -> BOOLEAN] BY <1>2
  <1>4. PICK v : v = ClearAllocated(w) OBVIOUS
  <1>5. <<>> \in Seq(Queries \cup {NoQuery}) OBVIOUS
  <1>6. PICK a : a = WithAllocated(w, <<>>) OBVIOUS
  <1>7. a \in ContextStates /\ a.allocated = <<>> /\ SameEncoding(w, a) /\ a.query = w.query
        /\ a.active = w.active /\ a.made = w.made /\ a.uniforms = w.uniforms /\ a.done = w.done
        /\ a.device = w.device
    BY <1>0, <1>5, <1>6, AllocatedPart
  <1>8. PICK b : b = WithSlots(a, slots) OBVIOUS
  <1>9. v = WithQuery(b, query) BY <1>4, <1>6, <1>8 DEF ClearAllocated, WithQuery, WithSlots, WithAllocated
  <1>. HIDE DEF slots, query
  <1>10. b \in ContextStates /\ SameQueries(a, b) /\ b.cb = a.cb /\ b.enc = a.enc /\ b.written = a.written
         /\ b.events = a.events
    BY <1>3, <1>7, <1>8, SlotsPart
  <1>11. /\ v \in ContextStates /\ v.query = query /\ SameEncoding(b, v)
         /\ v.allocated = b.allocated /\ v.active = b.active /\ v.made = b.made
         /\ v.uniforms = b.uniforms /\ v.done = b.done /\ v.device = b.device
    BY <1>3, <1>9, <1>10, QueryPart
  <1>12. /\ v.cb = w.cb /\ v.enc = w.enc /\ v.written = w.written /\ v.events = w.events
         /\ v.allocated = <<>>
    BY <1>7, <1>10, <1>11 DEF SameEncoding, SameQueries
  <1>13. Encoding(v, n) BY <1>11, <1>12 DEF Encoding, EncodersAgree, FencesKept
  <1>14. Onward(w, v) BY <1>1, <1>7, <1>10, <1>11, <1>12 DEF Onward, SameQueries
  <1>15. Past(v) BY <1>2, <1>11, <1>12, <1>14 DEF Past, Onward
  <1>16. \A q \in Queries : v.query[q].count = 0 BY <1>2, <1>11
  <1>17. Taken(v) /\ SlotsUsed(v)
    <2>1. Len(v.allocated) = 0 /\ MaxSlots \in Nat BY <1>12, SlotsAssumption
    <2>2. v.enc.mode = 0 /\ v.written = {} BY <1>12 DEF Encoding, EncodersAgree
    <2>. QED BY <1>16, <2>1, <2>2 DEF Taken, SlotsUsed
  <1>. QED BY <1>4, <1>12, <1>13, <1>14, <1>15, <1>16, <1>17 DEF Steady

\* resolveVisibilityResults, after the end of a pass.
LEMMA ResolveKeeps ==
    ASSUME NEW w, NEW n \in Nat, Encoding(w, n), ~w.enc.recording, Past(w), Taken(w)
    PROVE  LET v == ResolveVisibilityResults(w) IN
           /\ Steady(v, n) /\ v.allocated = <<>> /\ \A q \in Queries : v.query[q].count = 0
           /\ ~v.enc.recording /\ Onward(w, v) /\ (w.cb.open => v.cb.open)
  <1>. PICK v : v = ResolveVisibilityResults(w) OBVIOUS
  <1>0. /\ w \in ContextStates /\ w.cb \in CommandBuffers /\ w.cb.serial \in Nat
    BY Parts DEF Encoding, CommandBuffers
  <1>1. CASE w.allocated = <<>>
    <2>1. v = w BY <1>1 DEF ResolveVisibilityResults
    <2>2. \A q \in Queries : w.query[q].count = 0
      <3>1. Len(w.allocated) = 0 BY <1>1
      <3>2. \A q \in Queries : w.query[q].count \in Nat BY <1>0, QueryParts
      <3>. QED BY <3>1, <3>2 DEF Taken
    <2>3. SlotsUsed(w)
      <3>1. Len(w.allocated) = 0 BY <1>1
      <3>2. w.enc.mode = 0 /\ w.written = {} BY DEF Encoding, EncodersAgree
      <3>. QED BY <3>1, <3>2 DEF SlotsUsed
    <2>. QED BY <1>0, <1>1, <2>1, <2>2, <2>3 DEF Steady, Onward
  <1>2. CASE w.allocated # <<>>
    <2>1. PICK u : u = Resolved(w) OBVIOUS
    <2>2. Resolving(w, u, n) BY <2>1, ResolvedKeeps
    <2>3. PICK x : x = BlitAfterPass(u) OBVIOUS
    <2>4. Resolving(w, x, n) BY <1>0, <2>2, <2>3, AfterPassResolves
    <2>5. v = ClearAllocated(x) BY <1>2, <2>1, <2>3 DEF ResolveVisibilityResults
    <2>6. Encoding(x, n) /\ ~x.enc.recording /\ Past(x) /\ SameBlocks(w, x) /\ Onward(w, x)
      BY <2>4 DEF Resolving
    <2>7. Taken(x) BY <2>6 DEF Taken, SameBlocks, OffsetBack
    <2>8. /\ Steady(v, n) /\ v.allocated = <<>> /\ \A q \in Queries : v.query[q].count = 0
          /\ v.cb = x.cb /\ v.enc = x.enc /\ Onward(x, v)
      BY <2>5, <2>6, <2>7, ClearKeeps
    <2>9. Onward(w, v)
      <3>1. x \in ContextStates /\ x.cb \in CommandBuffers /\ x.cb.serial \in Nat
        BY <2>6, Parts DEF Encoding, CommandBuffers
      <3>. QED BY <2>6, <2>8, <3>1 DEF Onward
    <2>10. Encoding(u, n) /\ ~u.enc.recording BY <2>2 DEF Resolving
    <2>11. x.cb.open BY <2>3, <2>10, AfterPassKeeps
    <2>. QED BY <2>6, <2>8, <2>9, <2>11
  <1>. QED BY <1>1, <1>2

-----------------------------------------------------------------------------
(* Ending and starting passes. *)

\* What a steady state has, by name.
LEMMA SteadyParts ==
    ASSUME NEW w, NEW n \in Nat, Steady(w, n)
    PROVE  /\ w \in ContextStates /\ Encoding(w, n) /\ Taken(w) /\ SlotsUsed(w) /\ Past(w)
           /\ w.cb.serial \in Nat /\ Len(w.allocated) \in Nat /\ w.enc.mode \in 0..MaxSlots
           /\ w.allocated \in Seq(Queries \cup {NoQuery}) /\ w.active \in Queries \cup {NoQuery}
           /\ w.enc.recording \in BOOLEAN
           /\ ~w.enc.recording => \A q \in Queries : w.query[q].count = 0
  <1>1. Encoding(w, n) /\ w \in ContextStates /\ Taken(w) /\ SlotsUsed(w) /\ Past(w)
    BY DEF Steady, Encoding
  <1>2. /\ w.cb \in CommandBuffers /\ w.enc \in EncoderStates /\ w.active \in Queries \cup {NoQuery}
        /\ w.allocated \in Seq(Queries \cup {NoQuery})
    BY <1>1, Parts
  <1>3. w.cb.serial \in Nat /\ w.enc.mode \in Nat /\ w.enc.recording \in BOOLEAN
    BY <1>2 DEF CommandBuffers, EncoderStates
  <1>4. Len(w.allocated) \in Nat BY <1>2
  <1>5. w.enc.mode \in 0..MaxSlots BY <1>1, <1>3, <1>4, SlotsAssumption DEF SlotsUsed, Taken
  <1>6. ASSUME ~w.enc.recording PROVE \A q \in Queries : w.query[q].count = 0
    <2>1. Len(w.allocated) = 0 BY <1>6 DEF Steady
    <2>2. \A q \in Queries : w.query[q].count \in Nat BY <1>1, QueryParts
    <2>. QED BY <1>1, <2>1, <2>2 DEF Taken
  <1>. QED BY <1>1, <1>2, <1>3, <1>4, <1>5, <1>6

\* A query counts only in a pass.
LEMMA CountingRecords ==
    ASSUME NEW w, NEW n \in Nat, Steady(w, n), Counting(w)
    PROVE  w.enc.recording /\ w.active \in Queries
  <1>1. w.active \in Queries BY SteadyParts DEF Counting
  <1>2. w.query[w.active].count \in Nat BY <1>1, SteadyParts, QueryParts
  <1>3. w.query[w.active].count # 0 BY <1>2 DEF Counting
  <1>. QED BY <1>1, <1>3, SteadyParts

\* A draw writes a slot that was taken.
LEMMA DrawIsSteady ==
    ASSUME NEW w, NEW n \in Nat, Steady(w, n), w.enc.recording, NEW visible \in BOOLEAN
    PROVE  LET v == EncodeDraw(w, visible) IN
           /\ Steady(v, n) /\ SameQueries(w, v) /\ v.cb = w.cb /\ v.enc.recording
           /\ v.enc.mode = w.enc.mode
  <1>. PICK v : v = EncodeDraw(w, visible) OBVIOUS
  <1>1. Encoding(w, n) /\ w.enc.mode \in 0..MaxSlots /\ SlotsUsed(w) /\ Len(w.allocated) \in Nat
    BY SteadyParts
  <1>2. MaxSlots \in Nat BY SlotsAssumption
  <1>3. /\ Encoding(v, n) /\ SameQueries(w, v) /\ v.cb = w.cb
        /\ v.enc.mode = w.enc.mode /\ v.enc.recording
        /\ v.written \subseteq w.written \cup {w.enc.mode}
    BY <1>1, <1>2, DrawKeeps
  <1>4. v.written \in SUBSET Slots BY <1>3, Parts DEF Encoding
  <1>5. SlotsUsed(v)
    <2>1. v.allocated = w.allocated BY <1>3 DEF SameQueries
    <2>2. \A s \in v.written : s # 0 BY <1>4 DEF Slots
    <2>3. \A s \in v.written : s \in 1..Len(w.allocated) BY <1>1, <1>3, <2>2 DEF SlotsUsed
    <2>. QED BY <1>1, <1>3, <2>1, <2>3 DEF SlotsUsed
  <1>6. Taken(v) /\ Past(v) BY <1>3 DEF Steady, Taken, Past, SameQueries
  <1>. QED BY <1>3, <1>5, <1>6 DEF Steady

\* disableActiveOcclusionQueryInRenderPass: the query counts in a pass, so there
\* is one to stop it in.
LEMMA DisableKeeps ==
    ASSUME NEW w, NEW n \in Nat, Steady(w, n)
    PROVE  LET v == DisableActiveOcclusionQuery(w) IN
           /\ Steady(v, n) /\ SameQueries(w, v) /\ v.cb = w.cb
           /\ v.enc.recording = w.enc.recording
  <1>. PICK v : v = DisableActiveOcclusionQuery(w) OBVIOUS
  <1>1. CASE ~Counting(w)
    <2>1. v = w BY <1>1 DEF DisableActiveOcclusionQuery
    <2>. QED BY <2>1 DEF SameQueries
  <1>2. CASE Counting(w)
    <2>1. w.enc.recording = TRUE BY <1>2, CountingRecords, SteadyParts
    <2>2. PICK u : u = DummyDraw(w) OBVIOUS
    <2>3. FALSE \in BOOLEAN OBVIOUS
    <2>4. /\ Steady(u, n) /\ SameQueries(w, u) /\ u.cb = w.cb /\ u.enc.recording
      <3>1. CASE w.drawn
        <4>1. u = w BY <2>2, <3>1 DEF DummyDraw
        <4>. QED BY <2>1, <4>1 DEF SameQueries
      <3>2. CASE ~w.drawn
        <4>1. u = EncodeDraw(w, FALSE) BY <2>2, <3>2 DEF DummyDraw
        <4>. QED BY <2>1, <2>3, <4>1, DrawIsSteady
      <3>. QED BY <3>1, <3>2
    <2>5. v = SetVisibilityResultMode(u, 0)
      BY <1>2, <2>1, <2>2 DEF DisableActiveOcclusionQuery, Check
    <2>6. Encoding(u, n) /\ 0 \in Nat /\ 0 # 1 /\ Len(u.allocated) \in Nat /\ SlotsUsed(u)
      BY <2>4, SteadyParts
    <2>7. /\ Encoding(v, n) /\ SameQueries(u, v) /\ v.cb = u.cb /\ v.slots = u.slots
          /\ v.written = u.written /\ v.enc.mode = 0 /\ v.enc.recording = u.enc.recording
      BY <2>5, <2>6, ModeKeeps
    <2>8. SlotsUsed(v) BY <2>6, <2>7 DEF SlotsUsed, SameQueries
    <2>9. Taken(v) /\ Past(v) BY <2>4, <2>7 DEF Steady, Taken, Past, SameQueries
    <2>10. SameQueries(w, v) BY <2>4, <2>7 DEF SameQueries
    <2>11. u.enc.recording = TRUE BY <2>4, SteadyParts
    <2>. QED BY <2>1, <2>4, <2>7, <2>8, <2>9, <2>10, <2>11 DEF Steady
  <1>. QED BY <1>1, <1>2

\* endEncoding of a render pass, with the results of its slots.
LEMMA EndRenderPassKeeps ==
    ASSUME NEW w, NEW n \in Nat, Steady(w, n)
    PROVE  LET v == EndRenderPass(w) IN
           Steady(v, n) /\ Onward(w, v) /\ ~v.enc.recording /\ (w.cb.open => v.cb.open)
  <1>. PICK v : v = EndRenderPass(w) OBVIOUS
  <1>0. w.cb.serial \in Nat BY SteadyParts
  <1>1. CASE ~w.enc.recording
    <2>1. v = w BY <1>1 DEF EndRenderPass
    <2>. QED BY <1>0, <1>1, <2>1 DEF Onward
  <1>2. CASE w.enc.recording
    <2>1. PICK a : a = DisableActiveOcclusionQuery(w) OBVIOUS
    <2>2. /\ Steady(a, n) /\ SameQueries(w, a) /\ a.cb = w.cb BY <2>1, DisableKeeps
    <2>3. Encoding(a, n) BY <2>2 DEF Steady
    <2>4. PICK b : b = EndRender(a) OBVIOUS
    <2>5. /\ Encoding(b, n) /\ SameQueries(a, b) /\ SameBuffer(a, b) /\ ~b.enc.recording
      BY <2>3, <2>4, EndRenderKeeps
    <2>6. v = ResolveVisibilityResults(b) BY <1>2, <2>1, <2>4 DEF EndRenderPass
    <2>7. Past(b) BY <2>2, <2>5 DEF Steady, Past, SameQueries, SameBuffer
    <2>8. Taken(b) BY <2>2, <2>5 DEF Steady, Taken, SameQueries
    <2>9. Steady(v, n) /\ ~v.enc.recording /\ Onward(b, v) /\ (b.cb.open => v.cb.open)
      BY <2>5, <2>6, <2>7, <2>8, ResolveKeeps
    <2>10. Onward(w, v) BY <2>2, <2>5, <2>9 DEF Onward, SameQueries, SameBuffer
    <2>11. w.cb.open => v.cb.open BY <2>2, <2>5, <2>9 DEF SameBuffer
    <2>. QED BY <2>9, <2>10, <2>11
  <1>. QED BY <1>1, <1>2

\* An operation outside passes.
LEMMA OutsideSteady ==
    ASSUME NEW w, NEW v, NEW n \in Nat, Steady(w, n), ~w.enc.recording,
           Encoding(v, n), SameQueries(w, v), w.cb.serial <= v.cb.serial,
           v.enc.mode = 0, v.written = {}
    PROVE  Steady(v, n) /\ Onward(w, v)
  <1>1. w.cb.serial \in Nat /\ w.allocated = <<>> /\ w \in ContextStates BY SteadyParts DEF Steady
  <1>2. v \in ContextStates /\ v.cb \in CommandBuffers BY Parts DEF Encoding
  <1>3. v.cb.serial \in Nat BY <1>2 DEF CommandBuffers
  <1>4. w.done \in Nat /\ w.uniforms.usage \in Nat /\ \A q \in Queries : w.query[q].usage \in Nat
    BY <1>1, Parts, QueryParts
  <1>5. Past(v) BY <1>1, <1>3, <1>4, SteadyParts DEF Past, SameQueries
  <1>6. Taken(v) BY SteadyParts DEF Taken, SameQueries
  <1>7. v.allocated = <<>> /\ Len(v.allocated) = 0 BY <1>1 DEF SameQueries
  <1>8. SlotsUsed(v) BY <1>7 DEF SlotsUsed
  <1>9. Onward(w, v) BY DEF Onward, SameQueries
  <1>. QED BY <1>5, <1>6, <1>7, <1>8, <1>9 DEF Steady

\* endEncoding of any encoder.
LEMMA EndEncodingKeeps ==
    ASSUME NEW w, NEW n \in Nat, Steady(w, n)
    PROVE  LET v == EndEncoding(w) IN
           /\ Steady(v, n) /\ Onward(w, v) /\ ~v.enc.recording /\ v.cb.active = "none"
           /\ w.cb.open => v.cb.open
  <1>1. PICK u : u = EndRenderPass(w) OBVIOUS
  <1>2. Steady(u, n) /\ Onward(w, u) /\ ~u.enc.recording /\ (w.cb.open => u.cb.open)
    BY <1>1, EndRenderPassKeeps
  <1>3. Encoding(u, n) /\ u.cb.serial \in Nat /\ w.cb.serial \in Nat BY <1>2, SteadyParts
  <1>4. PICK v : v = EndOutsidePass(u) OBVIOUS
  <1>5. /\ Encoding(v, n) /\ SameQueries(u, v) /\ SameBuffer(u, v) /\ v.cb.active = "none"
    BY <1>2, <1>3, <1>4, EndOutsidePassKeeps
  <1>6. ~v.enc.recording /\ v.enc.mode = 0 /\ v.written = {} BY <1>5 DEF Encoding, EncodersAgree
  <1>7. u.cb.serial <= v.cb.serial BY <1>3, <1>5 DEF SameBuffer
  <1>8. Steady(v, n) /\ Onward(u, v) BY <1>2, <1>5, <1>6, <1>7, OutsideSteady
  <1>9. Onward(w, v)
    <2>1. v.cb.serial \in Nat BY <1>8, SteadyParts
    <2>. QED BY <1>2, <1>3, <1>8, <2>1 DEF Onward
  <1>10. v = EndEncoding(w) BY <1>1, <1>4 DEF EndEncoding
  <1>11. w.cb.open => v.cb.open BY <1>2, <1>5 DEF SameBuffer
  <1>. QED BY <1>5, <1>6, <1>8, <1>9, <1>10, <1>11

\* The command buffer is committed.
LEMMA CommitIsSteady ==
    ASSUME NEW w, NEW n \in Nat, Steady(w, n), ~w.enc.recording
    PROVE  LET v == Commit(w) IN
           Steady(v, n) /\ Onward(w, v) /\ ~v.enc.recording /\ ~v.cb.open
  <1>1. Encoding(w, n) /\ w.cb.serial \in Nat BY SteadyParts
  <1>2. PICK v : v = Commit(w) OBVIOUS
  <1>3. /\ Encoding(v, n) /\ SameQueries(w, v)
        /\ ~v.cb.open /\ v.cb.serial = w.cb.serial /\ v.cb.active = "none"
    BY <1>1, <1>2, CommitKeeps
  <1>4. ~v.enc.recording /\ v.enc.mode = 0 /\ v.written = {} BY <1>3 DEF Encoding, EncodersAgree
  <1>5. w.cb.serial <= v.cb.serial BY <1>1, <1>3
  <1>. QED BY <1>2, <1>3, <1>4, <1>5, OutsideSteady

\* A command buffer is opened.
LEMMA ValidIsSteady ==
    ASSUME NEW w, NEW n \in Nat, Steady(w, n)
    PROVE  LET v == EnsureCommandBufferValid(w) IN
           /\ Steady(v, n) /\ Onward(w, v) /\ v.cb.open /\ v.enc = w.enc
           /\ v.cb.active = w.cb.active /\ SameQueries(w, v)
  <1>1. Encoding(w, n) /\ w.cb.serial \in Nat /\ w \in ContextStates BY SteadyParts
  <1>2. PICK v : v = EnsureCommandBufferValid(w) OBVIOUS
  <1>3. /\ Encoding(v, n) /\ SameQueries(w, v) /\ SamePass(w, v)
        /\ v.cb.open /\ v.cb.serial \in Nat /\ w.cb.serial <= v.cb.serial
        /\ v.cb.active = w.cb.active
    BY <1>1, <1>2, EnsureValidKeeps
  <1>4. w.done \in Nat /\ w.uniforms.usage \in Nat /\ \A q \in Queries : w.query[q].usage \in Nat
    BY <1>1, Parts, QueryParts
  <1>5. Past(v) BY <1>1, <1>3, <1>4, SteadyParts DEF Past, SameQueries
  <1>6. Taken(v) /\ SlotsUsed(v)
    BY <1>3, SteadyParts DEF Taken, SlotsUsed, SameQueries, SamePass
  <1>7. ~v.enc.recording => v.allocated = <<>> BY <1>3 DEF Steady, SameQueries, SamePass
  <1>8. Onward(w, v) /\ v.enc = w.enc BY <1>3 DEF Onward, SameQueries, SamePass
  <1>. QED BY <1>2, <1>3, <1>5, <1>6, <1>7, <1>8 DEF Steady

\* flushCommandBufer
LEMMA FlushKeeps ==
    ASSUME NEW w, NEW n \in Nat, Steady(w, n)
    PROVE  LET v == FlushCommandBuffer(w) IN
           Steady(v, n) /\ Onward(w, v) /\ ~v.enc.recording /\ ~v.cb.open
  <1>. PICK v : v = FlushCommandBuffer(w) OBVIOUS
  <1>0. w.cb.serial \in Nat /\ Encoding(w, n) BY SteadyParts
  <1>1. CASE w.cb.open
    <2>1. PICK u : u = EndEncoding(w) OBVIOUS
    <2>2. Steady(u, n) /\ Onward(w, u) /\ ~u.enc.recording BY <2>1, EndEncodingKeeps
    <2>3. v = Commit(u) BY <1>1, <2>1 DEF FlushCommandBuffer
    <2>4. Steady(v, n) /\ Onward(u, v) /\ ~v.enc.recording /\ ~v.cb.open
      BY <2>2, <2>3, CommitIsSteady
    <2>5. u.cb.serial \in Nat /\ v.cb.serial \in Nat BY <2>2, <2>4, SteadyParts
    <2>. QED BY <1>0, <2>2, <2>4, <2>5 DEF Onward
  <1>2. CASE ~w.cb.open
    <2>1. v = w BY <1>2 DEF FlushCommandBuffer
    <2>2. ~w.enc.recording BY <1>0, <1>2 DEF Encoding, EncodersAgree
    <2>. QED BY <1>0, <1>2, <2>1, <2>2 DEF Onward
  <1>. QED BY <1>1, <1>2

\* An encoder of the context, which the encoders that are open make way for.
LEMMA GetEncoderKeeps ==
    ASSUME NEW w, NEW n \in Nat, Steady(w, n)
    PROVE  /\ LET v == GetRenderCommandEncoder(w) IN
              /\ Steady(v, n) /\ Onward(w, v) /\ v.enc.recording
              /\ IF w.enc.recording THEN v = w ELSE v.allocated = <<>>
           /\ LET v == GetBlitCommandEncoder(w) IN
              /\ Steady(v, n) /\ Onward(w, v) /\ ~v.enc.recording
           /\ LET v == GetComputeCommandEncoder(w) IN
              /\ Steady(v, n) /\ Onward(w, v) /\ ~v.enc.recording
  <1>0. w.cb.serial \in Nat /\ Encoding(w, n) BY SteadyParts
  <1>1. PICK a : a = EndEncoding(w) OBVIOUS
  <1>2. Steady(a, n) /\ Onward(w, a) /\ ~a.enc.recording /\ a.cb.active = "none"
    BY <1>1, EndEncodingKeeps
  <1>3. PICK b : b = EnsureCommandBufferValid(a) OBVIOUS
  <1>4. /\ Steady(b, n) /\ Onward(a, b) /\ b.cb.open /\ b.enc = a.enc /\ b.cb.active = "none"
    BY <1>2, <1>3, ValidIsSteady
  <1>5. Encoding(b, n) /\ b.cb.serial \in Nat /\ a.cb.serial \in Nat /\ ~b.enc.recording
    BY <1>2, <1>4, SteadyParts
  <1>6. Onward(w, b) BY <1>0, <1>2, <1>4, <1>5 DEF Onward
  <1>a. ASSUME NEW v, Encoding(v, n), SameQueries(b, v), SameBuffer(b, v), v.enc.mode = 0, v.written = {}
        PROVE  Steady(v, n) /\ Onward(w, v) /\ v.allocated = <<>>
    <2>1. b.cb.serial <= v.cb.serial BY <1>5, <1>a DEF SameBuffer
    <2>2. Steady(v, n) /\ Onward(b, v) BY <1>4, <1>5, <1>a, <2>1, OutsideSteady
    <2>3. Onward(w, v) BY <1>0, <1>5, <1>6, <1>a, <2>2 DEF Onward, SameBuffer
    <2>4. v.allocated = <<>> BY <1>4, <1>5, <1>a DEF Steady, SameQueries
    <2>. QED BY <2>2, <2>3, <2>4
  <1>7. LET v == GetRenderCommandEncoder(w) IN
              /\ Steady(v, n) /\ Onward(w, v) /\ v.enc.recording
              /\ IF w.enc.recording THEN v = w ELSE v.allocated = <<>>
    <2>. PICK v : v = GetRenderCommandEncoder(w) OBVIOUS
    <2>1. CASE w.enc.recording
      <3>1. v = w BY <2>1 DEF GetRenderCommandEncoder
      <3>. QED BY <1>0, <2>1, <3>1 DEF Onward
    <2>2. CASE ~w.enc.recording
      <3>1. v = RestartRender(b) BY <1>1, <1>3, <2>2 DEF GetRenderCommandEncoder
      <3>2. /\ Encoding(v, n) /\ SameQueries(b, v) /\ SameBuffer(b, v)
            /\ v.enc.recording /\ v.enc.mode = 0 /\ v.written = {}
        BY <1>4, <1>5, <3>1, RestartKeeps
      <3>. QED BY <1>a, <2>2, <3>2
    <2>. QED BY <2>1, <2>2
  <1>8. LET v == GetBlitCommandEncoder(w) IN Steady(v, n) /\ Onward(w, v) /\ ~v.enc.recording
    <2>. PICK v : v = GetBlitCommandEncoder(w) OBVIOUS
    <2>1. CASE w.enc.blit
      <3>1. v = w BY <2>1 DEF GetBlitCommandEncoder
      <3>2. ~w.enc.recording BY <1>0, <2>1 DEF Encoding, EncodersAgree
      <3>. QED BY <1>0, <3>1, <3>2 DEF Onward
    <2>2. CASE ~w.enc.blit
      <3>1. v = RestartBlit(b) BY <1>1, <1>3, <2>2 DEF GetBlitCommandEncoder
      <3>2. /\ Encoding(v, n) /\ SameQueries(b, v) /\ SameBuffer(b, v) /\ ~v.enc.recording
        BY <1>4, <1>5, <3>1, RestartKeeps
      <3>3. v.enc.mode = 0 /\ v.written = {} BY <3>2 DEF Encoding, EncodersAgree
      <3>. QED BY <1>a, <3>2, <3>3
    <2>. QED BY <2>1, <2>2
  <1>9. LET v == GetComputeCommandEncoder(w) IN Steady(v, n) /\ Onward(w, v) /\ ~v.enc.recording
    <2>. PICK v : v = GetComputeCommandEncoder(w) OBVIOUS
    <2>1. CASE w.enc.compute
      <3>1. v = w BY <2>1 DEF GetComputeCommandEncoder
      <3>2. ~w.enc.recording BY <1>0, <2>1 DEF Encoding, EncodersAgree
      <3>. QED BY <1>0, <3>1, <3>2 DEF Onward
    <2>2. CASE ~w.enc.compute
      <3>1. v = RestartCompute(b) BY <1>1, <1>3, <2>2 DEF GetComputeCommandEncoder
      <3>2. /\ Encoding(v, n) /\ SameQueries(b, v) /\ SameBuffer(b, v) /\ ~v.enc.recording
        BY <1>4, <1>5, <3>1, RestartKeeps
      <3>3. v.enc.mode = 0 /\ v.written = {} BY <3>2 DEF Encoding, EncodersAgree
      <3>. QED BY <1>a, <3>2, <3>3
    <2>. QED BY <2>1, <2>2
  <1>. QED BY <1>7, <1>8, <1>9

-----------------------------------------------------------------------------
(* Slots for a query. *)

\* A change of queries and slots.
SlotsOnly(w, v) ==
    /\ SameEncoding(w, v) /\ v.active = w.active /\ v.made = w.made /\ v.drawn = w.drawn
    /\ v.uniforms = w.uniforms /\ v.done = w.done /\ v.device = w.device

\* A state whose queries and slots have changed.
LEMMA StillSteady ==
    ASSUME NEW w, NEW v \in ContextStates, NEW n \in Nat, Steady(w, n), SameEncoding(w, v),
           v.done = w.done, v.uniforms = w.uniforms, Len(w.allocated) <= Len(v.allocated), Taken(v),
           \A q \in Queries : v.query[q].usage <= w.cb.serial,
           w.enc.recording \/ v.allocated = <<>>
    PROVE  Steady(v, n)
  <1>1. Encoding(v, n) BY DEF Steady, Encoding, EncodersAgree, FencesKept, SameEncoding
  <1>2. Past(v) BY DEF Steady, Past, SameEncoding
  <1>3. Len(w.allocated) \in Nat /\ Len(v.allocated) \in Nat /\ w.enc.mode \in Nat
    <2>1. v.allocated \in Seq(Queries \cup {NoQuery}) BY Parts
    <2>. QED BY <2>1, SteadyParts
  <1>4. SlotsUsed(v) BY <1>3 DEF Steady, SlotsUsed, SameEncoding
  <1>5. ~v.enc.recording => v.allocated = <<>> BY DEF SameEncoding
  <1>. QED BY <1>1, <1>2, <1>4, <1>5 DEF Steady

\* ensureOcclusionQueryPoolCapacity: there is room for the next slot.
LEMMA EnsureCapacity ==
    ASSUME NEW w, NEW n \in Nat, Steady(w, n)
    PROVE  LET v == EnsureOcclusionQueryPoolCapacity(w) IN
           /\ Steady(v, n) /\ v.active = w.active /\ v.device = w.device /\ v.made
           /\ Len(v.allocated) < MaxSlots
  <1>. PICK v : v = EnsureOcclusionQueryPoolCapacity(w) OBVIOUS
  <1>1. CASE CanAllocateQueryOffset(w)
    <2>1. v = w BY <1>1 DEF EnsureOcclusionQueryPoolCapacity
    <2>. QED BY <1>1, <2>1 DEF CanAllocateQueryOffset
  <1>2. CASE ~CanAllocateQueryOffset(w)
    <2>1. PICK u : u = EndEncoding(w) OBVIOUS
    <2>2. Steady(u, n) /\ Onward(w, u) /\ ~u.enc.recording BY <2>1, EndEncodingKeeps
    <2>a. PICK made \in BOOLEAN : made OBVIOUS
    <2>3. v = WithMade(u, made) BY <1>2, <2>a, <2>1 DEF EnsureOcclusionQueryPoolCapacity, WithMade
    <2>4. u \in ContextStates /\ u.allocated = <<>> /\ Taken(u) /\ Past(u)
      BY <2>2, SteadyParts DEF Steady
    <2>5. /\ v \in ContextStates /\ v.made = made /\ SameEncoding(u, v)
          /\ v.query = u.query /\ v.allocated = u.allocated /\ v.active = u.active
          /\ v.uniforms = u.uniforms /\ v.done = u.done /\ v.device = u.device
      BY <2>3, <2>4, MadePart
    <2>6. Taken(v) BY <2>4, <2>5 DEF Taken
    <2>7. \A q \in Queries : v.query[q].usage <= u.cb.serial BY <2>4, <2>5 DEF Past
    <2>8. Len(u.allocated) <= Len(v.allocated) /\ Len(v.allocated) = 0 /\ 0 < MaxSlots
      BY <2>4, <2>5, SlotsAssumption
    <2>9. Steady(v, n) BY <2>2, <2>4, <2>5, <2>6, <2>7, <2>8, StillSteady
    <2>. QED BY <2>2, <2>a, <2>5, <2>8, <2>9 DEF Onward
  <1>. QED BY <1>1, <1>2

\* The query has no slots any more.
LEMMA DeallocateKeeps ==
    ASSUME NEW w, NEW n \in Nat, Steady(w, n), NEW q \in Queries
    PROVE  LET v == DeallocateQueryOffset(w, q) IN
           /\ Steady(v, n) /\ SlotsOnly(w, v) /\ v.query[q].count = 0
           /\ \A r \in Queries \ {q} : v.query[r] = w.query[r]
           /\ Len(v.allocated) = Len(w.allocated)
  <1>. PICK v : v = DeallocateQueryOffset(w, q) OBVIOUS
  <1>0. /\ w \in ContextStates /\ Taken(w) /\ Past(w) /\ w.allocated \in Seq(Queries \cup {NoQuery})
        /\ w.query \in [Queries -> QueryStates] /\ w.query[q].count \in Nat
        /\ Len(w.allocated) \in Nat /\ w.cb.serial \in Nat
    BY SteadyParts, QueryParts, Parts
  <1>1. CASE w.query[q].count = 0
    <2>1. v = w BY <1>1 DEF DeallocateQueryOffset
    <2>. QED BY <1>1, <2>1 DEF SlotsOnly, SameEncoding
  <1>2. CASE w.query[q].count # 0
    <2>. DEFINE allocated == [w.allocated EXCEPT ![w.query[q].first] = NoQuery]
                x == [w.query[q] EXCEPT !.first = 0, !.count = 0]
                query == [w.query EXCEPT ![q] = x]
    <2>0. w.query[q].first \in 1..Len(w.allocated) /\ w.allocated[w.query[q].first] = q
      BY <1>0, <1>2 DEF Taken
    <2>1. allocated \in Seq(Queries \cup {NoQuery}) /\ Len(allocated) = Len(w.allocated)
          /\ \A i \in 1..Len(w.allocated) : i # w.query[q].first => allocated[i] = w.allocated[i]
      BY <1>0, <2>0
    <2>2. x \in QueryStates /\ x.count = 0 /\ x.usage = w.query[q].usage BY <1>0 DEF QueryStates
    <2>3. PICK a : a = WithAllocated(w, allocated) OBVIOUS
    <2>4. v = WithQuery(a, query)
      <3>1. v = [w EXCEPT !.allocated = allocated, !.query = [w.query EXCEPT ![q] = x]]
        BY <1>0, <1>2 DEF DeallocateQueryOffset, ContextStates
      <3>. QED BY <2>3, <3>1 DEF WithAllocated, WithQuery
    <2>. HIDE DEF allocated, x
    <2>5. /\ query \in [Queries -> QueryStates] /\ query[q] = x
          /\ \A r \in Queries \ {q} : query[r] = w.query[r]
      BY <1>0, <2>2
    <2>. HIDE DEF query
    <2>6. /\ a \in ContextStates /\ a.allocated = allocated /\ SameEncoding(w, a)
          /\ a.active = w.active /\ a.made = w.made
          /\ a.drawn = w.drawn /\ a.uniforms = w.uniforms /\ a.done = w.done /\ a.device = w.device
      BY <1>0, <2>1, <2>3, AllocatedPart
    <2>7. /\ v \in ContextStates /\ v.query = query /\ SameEncoding(a, v) /\ v.allocated = a.allocated
          /\ v.active = a.active /\ v.made = a.made
          /\ v.drawn = a.drawn /\ v.uniforms = a.uniforms /\ v.done = a.done /\ v.device = a.device
      BY <2>4, <2>5, <2>6, QueryPart
    <2>8. SlotsOnly(w, v) /\ v.allocated = allocated
      BY <2>6, <2>7 DEF SlotsOnly, SameEncoding
    <2>9. Taken(v)
      <3>1. ASSUME NEW r \in Queries, v.query[r].count > 0
            PROVE  /\ v.query[r].first \in 1..Len(allocated)
                   /\ OffsetBack(v.query[r]) <= Len(allocated)
                   /\ allocated[v.query[r].first] = r
        <4>1. r # q BY <2>2, <2>5, <2>7, <3>1
        <4>2. v.query[r] = w.query[r] BY <2>5, <2>7, <4>1
        <4>3. /\ w.query[r].first \in 1..Len(w.allocated)
              /\ OffsetBack(w.query[r]) <= Len(w.allocated)
              /\ w.allocated[w.query[r].first] = r
          BY <1>0, <3>1, <4>2 DEF Taken
        <4>4. w.query[r].first # w.query[q].first BY <2>0, <4>1, <4>3
        <4>. QED BY <2>1, <4>2, <4>3, <4>4
      <3>2. Len(allocated) <= MaxSlots BY <1>0, <2>1 DEF Taken
      <3>. QED BY <2>8, <3>1, <3>2 DEF Taken
    <2>10. \A r \in Queries : v.query[r].usage <= w.cb.serial
      BY <1>0, <2>2, <2>5, <2>7 DEF Past
    <2>11. w.enc.recording \/ v.allocated = <<>> BY <1>2, SteadyParts
    <2>12. Len(w.allocated) <= Len(v.allocated) BY <1>0, <2>1, <2>8
    <2>13. SameEncoding(w, v) /\ v.done = w.done /\ v.uniforms = w.uniforms BY <2>8 DEF SlotsOnly
    <2>14. Steady(v, n) BY <2>7, <2>9, <2>10, <2>11, <2>12, <2>13, StillSteady
    <2>. QED BY <2>1, <2>2, <2>5, <2>7, <2>8, <2>14
  <1>. QED BY <1>1, <1>2

\* The query counts in the last slots.
CountsLast(w, q) == w.query[q].count > 0 /\ OffsetBack(w.query[q]) = Len(w.allocated)

\* The next slot goes to a query that has none, or the last ones.
LEMMA PushKeeps ==
    ASSUME NEW w, NEW n \in Nat, Steady(w, n), w.enc.recording, NEW q \in Queries,
           Len(w.allocated) < MaxSlots, w.query[q].count = 0 \/ CountsLast(w, q)
    PROVE  LET v == PushOffset(w, q) IN
           /\ Steady(v, n) /\ SlotsOnly(w, v) /\ CountsLast(v, q)
           /\ Len(v.allocated) = Len(w.allocated) + 1
  <1>. PICK v : v = PushOffset(w, q) OBVIOUS
  <1>0. /\ w \in ContextStates /\ Taken(w) /\ Past(w) /\ w.allocated \in Seq(Queries \cup {NoQuery})
        /\ w.query \in [Queries -> QueryStates] /\ w.query[q].count \in Nat /\ w.query[q].first \in Nat
        /\ w.query[q] \in QueryStates /\ w.cb.serial \in Nat
    BY SteadyParts, QueryParts, Parts
  <1>1. PICK m \in Nat : m = Len(w.allocated) BY <1>0
  <1>2. MaxSlots \in Nat BY SlotsAssumption
  <1>a. ASSUME NEW owner \in Queries \cup {NoQuery}, NEW x \in QueryStates,
               x.usage = w.query[q].usage, x.count > 0, x.first \in 1..(m + 1), OffsetBack(x) = m + 1,
               x.first = m + 1 => owner = q,
               x.first # m + 1 => w.allocated[x.first] = q,
               v = [w EXCEPT !.allocated = Append(@, owner), !.query = [w.query EXCEPT ![q] = x]]
        PROVE  /\ Steady(v, n) /\ SlotsOnly(w, v) /\ CountsLast(v, q)
               /\ Len(v.allocated) = Len(w.allocated) + 1
    <2>. DEFINE allocated == Append(w.allocated, owner)
                query == [w.query EXCEPT ![q] = x]
    <2>1. allocated \in Seq(Queries \cup {NoQuery}) /\ Len(allocated) = m + 1
          /\ allocated[m + 1] = owner /\ \A i \in 1..m : allocated[i] = w.allocated[i]
      BY <1>0, <1>1, <1>a
    <2>2. PICK a : a = WithAllocated(w, allocated) OBVIOUS
    <2>3. v = WithQuery(a, query) BY <1>a, <2>2 DEF WithAllocated, WithQuery
    <2>. HIDE DEF allocated
    <2>4. /\ query \in [Queries -> QueryStates] /\ query[q] = x
          /\ \A r \in Queries \ {q} : query[r] = w.query[r]
      BY <1>0, <1>a
    <2>. HIDE DEF query
    <2>5. /\ a \in ContextStates /\ a.allocated = allocated /\ SameEncoding(w, a)
          /\ a.active = w.active /\ a.made = w.made
          /\ a.drawn = w.drawn /\ a.uniforms = w.uniforms /\ a.done = w.done /\ a.device = w.device
      BY <1>0, <2>1, <2>2, AllocatedPart
    <2>6. /\ v \in ContextStates /\ v.query = query /\ SameEncoding(a, v) /\ v.allocated = a.allocated
          /\ v.active = a.active /\ v.made = a.made
          /\ v.drawn = a.drawn /\ v.uniforms = a.uniforms /\ v.done = a.done /\ v.device = a.device
      BY <2>3, <2>4, <2>5, QueryPart
    <2>7. SlotsOnly(w, v) /\ v.allocated = allocated
      BY <2>5, <2>6 DEF SlotsOnly, SameEncoding
    <2>8. Taken(v)
      <3>1. ASSUME NEW r \in Queries, v.query[r].count > 0
            PROVE  /\ v.query[r].first \in 1..(m + 1)
                   /\ OffsetBack(v.query[r]) <= m + 1
                   /\ allocated[v.query[r].first] = r
        <4>1. CASE r = q
          <5>1. v.query[r] = x BY <2>4, <2>6, <4>1
          <5>2. CASE x.first = m + 1 BY <1>a, <2>1, <4>1, <5>1, <5>2
          <5>3. CASE x.first # m + 1
            <6>1. x.first \in 1..m BY <1>a, <5>3
            <6>. QED BY <1>a, <2>1, <4>1, <5>1, <5>3, <6>1
          <5>. QED BY <5>2, <5>3
        <4>2. CASE r # q
          <5>1. v.query[r] = w.query[r] BY <2>4, <2>6, <4>2
          <5>2. /\ w.query[r].first \in 1..m /\ OffsetBack(w.query[r]) <= m
                /\ w.allocated[w.query[r].first] = r
            BY <1>0, <1>1, <3>1, <5>1 DEF Taken
          <5>3. OffsetBack(w.query[r]) \in Int
            BY <1>0, QueryParts DEF OffsetBack
          <5>. QED BY <2>1, <5>1, <5>2, <5>3
        <4>. QED BY <4>1, <4>2
      <3>2. m + 1 <= MaxSlots BY <1>1, <1>2
      <3>. QED BY <2>1, <2>7, <3>1, <3>2 DEF Taken
    <2>9. \A r \in Queries : v.query[r].usage <= w.cb.serial
      BY <1>0, <1>a, <2>4, <2>6 DEF Past
    <2>10. Len(w.allocated) <= Len(v.allocated) BY <1>1, <2>1, <2>7
    <2>11. SameEncoding(w, v) /\ v.done = w.done /\ v.uniforms = w.uniforms BY <2>7 DEF SlotsOnly
    <2>12. Steady(v, n) BY <2>6, <2>8, <2>9, <2>10, <2>11, StillSteady
    <2>13. CountsLast(v, q) BY <1>a, <2>1, <2>4, <2>6, <2>7 DEF CountsLast
    <2>. QED BY <1>1, <2>1, <2>7, <2>12, <2>13
  <1>3. CASE w.query[q].count = 0
    <2>0. PICK f \in Nat : f = m + 1 OBVIOUS
    <2>. DEFINE x == [w.query[q] EXCEPT !.first = f, !.count = 1]
    <2>1. x \in QueryStates /\ x.usage = w.query[q].usage /\ x.count = 1 /\ x.first = f
      BY <1>0 DEF QueryStates
    <2>2. v = [w EXCEPT !.allocated = Append(@, q), !.query = [w.query EXCEPT ![q] = x]]
      <3>1. v = [w EXCEPT !.allocated = Append(@, q), !.query[q].first = f, !.query[q].count = 1]
        BY <1>1, <1>3, <2>0 DEF PushOffset
      <3>2. x = [w.query[q] EXCEPT !.first = f, !.count = 1] OBVIOUS
      <3>. HIDE DEF x
      <3>3. [w.query EXCEPT ![q].first = f, ![q].count = 1] = [w.query EXCEPT ![q] = x]
        BY <1>0, <3>2
      <3>. QED BY <1>0, <3>1, <3>3 DEF ContextStates
    <2>. HIDE DEF x
    <2>3. OffsetBack(x) = m + 1 BY <2>0, <2>1 DEF OffsetBack
    <2>4. x.count > 0 /\ x.first \in 1..(m + 1) /\ x.first = m + 1 BY <2>0, <2>1
    <2>. QED BY <1>a, <2>1, <2>2, <2>3, <2>4
  <1>4. CASE w.query[q].count # 0
    <2>0. PICK c \in Nat : c = w.query[q].count + 1 BY <1>0
    <2>. DEFINE x == [w.query[q] EXCEPT !.count = c]
    <2>1. x \in QueryStates /\ x.usage = w.query[q].usage /\ x.count = c /\ x.first = w.query[q].first
      BY <1>0, <2>0 DEF QueryStates
    <2>2. w.query[q].first + w.query[q].count - 1 = m BY <1>1, <1>4 DEF CountsLast, OffsetBack
    <2>3. w.query[q].first \in 1..m /\ w.allocated[w.query[q].first] = q
      BY <1>0, <1>1, <1>4 DEF Taken
    <2>4. Check(w, Len(w.allocated) = OffsetBack(w.query[q]), "contiguous offsets") = w
      BY <1>4 DEF Check, CountsLast
    <2>5. v = [w EXCEPT !.allocated = Append(@, NoQuery), !.query = [w.query EXCEPT ![q] = x]]
      BY <1>0, <1>4, <2>0, <2>4 DEF PushOffset, ContextStates
    <2>. HIDE DEF x
    <2>6. OffsetBack(x) = m + 1
      <3>1. x.first + x.count - 1 = m + 1
        <4>1. PICK a \in Nat, b \in Nat : a = w.query[q].first /\ b = w.query[q].count BY <1>0
        <4>2. c = b + 1 /\ a + b - 1 = m BY <4>1, <2>0, <2>2
        <4>3. x.first = a /\ x.count = c BY <4>1, <2>1
        <4>4. a + c - 1 = m + 1 BY <4>2
        <4>. QED BY <4>3, <4>4
      <3>. QED BY <3>1 DEF OffsetBack
    <2>7. x.count > 0 /\ x.first \in 1..(m + 1) /\ x.first # m + 1 BY <1>0, <2>0, <2>1, <2>3
    <2>. QED BY <1>a, <2>1, <2>3, <2>5, <2>6, <2>7
  <1>. QED BY <1>3, <1>4

\* allocateQueryOffset, from a cleared query, in an empty pool, or behind the
\* slots the query has.
LEMMA AllocateKeeps ==
    ASSUME NEW w, NEW n \in Nat, Steady(w, n), w.enc.recording, NEW q \in Queries, NEW clear \in BOOLEAN,
           w.made, Len(w.allocated) < MaxSlots,
           clear \/ w.allocated = <<>> \/ CountsLast(w, q)
    PROVE  LET v == AllocateQueryOffset(w, q, clear) IN
           /\ Steady(v, n) /\ SlotsOnly(w, v) /\ CountsLast(v, q)
           /\ Len(w.allocated) < Len(v.allocated)
  <1>. PICK v : v = AllocateQueryOffset(w, q, clear) OBVIOUS
  <1>0. /\ w \in ContextStates /\ Taken(w) /\ Len(w.allocated) \in Nat /\ w.query[q].count \in Nat
    BY SteadyParts, QueryParts
  <1>1. CheckAllocation(w, q, clear) = w
    BY DEF CheckAllocation, Check, CanAllocateQueryOffset, CountsLast
  <1>2. PICK a : a = IF clear THEN DeallocateQueryOffset(w, q) ELSE w OBVIOUS
  <1>3. /\ Steady(a, n) /\ SlotsOnly(w, a) /\ Len(a.allocated) = Len(w.allocated)
        /\ a.query[q].count = 0 \/ CountsLast(a, q)
    <2>1. CASE clear
      <3>1. a = DeallocateQueryOffset(w, q) BY <1>2, <2>1
      <3>. QED BY <3>1, DeallocateKeeps
    <2>2. CASE ~clear
      <3>1. a = w BY <1>2, <2>2
      <3>2. w.allocated = <<>> => w.query[q].count = 0
        <4>1. w.allocated = <<>> => Len(w.allocated) = 0 OBVIOUS
        <4>. QED BY <1>0, <4>1 DEF Taken
      <3>. QED BY <2>2, <3>1, <3>2 DEF SlotsOnly, SameEncoding
    <2>. QED BY <2>1, <2>2
  <1>4. a.enc.recording /\ Len(a.allocated) < MaxSlots BY <1>3 DEF SlotsOnly, SameEncoding
  <1>5. PICK b : b = PushOffset(a, q) OBVIOUS
  <1>6. /\ Steady(b, n) /\ SlotsOnly(a, b) /\ CountsLast(b, q)
        /\ Len(b.allocated) = Len(w.allocated) + 1
    BY <1>3, <1>4, <1>5, PushKeeps
  <1>7. v = AfterFirstOffset(b, q, clear) BY <1>1, <1>2, <1>5 DEF AllocateQueryOffset
  <1>8. SlotsOnly(w, b) BY <1>3, <1>6 DEF SlotsOnly, SameEncoding
  <1>9. CASE Len(b.allocated) > 1
    <2>1. v = b BY <1>7, <1>9 DEF AfterFirstOffset
    <2>. QED BY <1>0, <1>6, <1>8, <2>1
  <1>10. CASE ~(Len(b.allocated) > 1)
    <2>3. PICK k \in Nat : k = Len(w.allocated) BY <1>0
    <2>4. k = 0 /\ Len(b.allocated) = 1 BY <1>6, <1>10, <2>3
    <2>5. 1 < MaxSlots BY SlotsAssumption
    <2>6. b \in ContextStates /\ Taken(b) /\ Past(b) BY <1>6, SteadyParts
    <2>7. b.enc = w.enc BY <1>8 DEF SlotsOnly, SameEncoding
    <2>0. b \in ContextStates /\ Len(b.allocated) = 1 /\ Len(w.allocated) = 0 /\ 1 < MaxSlots
          /\ w.enc.recording = b.enc.recording /\ Taken(b) /\ Past(b)
      BY <2>3, <2>4, <2>5, <2>6, <2>7
    <2>a. ASSUME NEW x \in BOOLEAN, NEW u, u = WithResetFirst(b, x)
          PROVE  Steady(u, n) /\ SlotsOnly(w, u) /\ CountsLast(u, q) /\ Len(u.allocated) = 1
      <3>1. /\ u \in ContextStates /\ SameEncoding(b, u)
            /\ u.query = b.query /\ u.allocated = b.allocated /\ u.active = b.active /\ u.made = b.made
            /\ u.drawn = b.drawn /\ u.uniforms = b.uniforms /\ u.done = b.done /\ u.device = b.device
        BY <2>0, <2>a, ResetFirstPart
      <3>2. Taken(u) BY <2>0, <3>1 DEF Taken
      <3>7. Len(b.allocated) <= Len(u.allocated) BY <2>0, <3>1, SMTT(40)
      <3>3. \A r \in Queries : u.query[r].usage <= b.cb.serial BY <2>0, <3>1 DEF Past
      <3>4. Steady(u, n) BY <1>6, <2>0, <3>1, <3>2, <3>3, <3>7, StillSteady
      <3>5. SlotsOnly(w, u) BY <1>8, <3>1 DEF SlotsOnly, SameEncoding
      <3>6. CountsLast(u, q) BY <1>6, <3>1 DEF CountsLast
      <3>. QED BY <2>0, <3>1, <3>4, <3>5, <3>6
    <2>1. CASE clear \/ b.device.readWrite
      <3>1. v = WithResetFirst(b, clear) BY <1>7, <1>10, <2>1 DEF AfterFirstOffset, WithResetFirst
      <3>2. Steady(v, n) /\ SlotsOnly(w, v) /\ CountsLast(v, q) /\ Len(v.allocated) = 1 BY <2>a, <3>1
      <3>. QED BY <2>0, <3>2
    <2>2. CASE ~(clear \/ b.device.readWrite)
      <3>1. PICK u : u = WithResetFirst(b, FALSE) OBVIOUS
      <3>2. Steady(u, n) /\ SlotsOnly(w, u) /\ CountsLast(u, q) /\ Len(u.allocated) = 1
        <4>1. FALSE \in BOOLEAN OBVIOUS
        <4>. QED BY <2>a, <3>1, <4>1
      <3>3. v = PushOffset(CheckAllocation(u, q, FALSE), q)
        BY <1>7, <1>10, <2>2, <3>1 DEF AfterFirstOffset, WithResetFirst
      <3>4. CheckAllocation(u, q, FALSE) = u
        BY <2>0, <3>2 DEF CheckAllocation, Check, CanAllocateQueryOffset, CountsLast, SlotsOnly
      <3>5. v = PushOffset(u, q) /\ u.enc.recording /\ Len(u.allocated) < MaxSlots
        BY <2>0, <3>2, <3>3, <3>4 DEF SlotsOnly, SameEncoding
      <3>6. /\ Steady(v, n) /\ SlotsOnly(u, v) /\ CountsLast(v, q) /\ Len(v.allocated) = 2
        <4>1. 1 + 1 = 2 OBVIOUS
        <4>. QED BY <3>2, <3>5, <4>1, PushKeeps
      <3>7. SlotsOnly(w, v) BY <3>2, <3>6 DEF SlotsOnly, SameEncoding
      <3>. QED BY <2>0, <3>6, <3>7
    <2>. QED BY <2>1, <2>2
  <1>. QED BY <1>9, <1>10

\* A query starts, or goes on, in the last slot, which no draw of the pass has
\* written.
LEMMA StartKeeps ==
    ASSUME NEW w, NEW n \in Nat, Steady(w, n), w.enc.recording, NEW q \in Queries, NEW clear \in BOOLEAN,
           w.made, Len(w.allocated) < MaxSlots,
           clear \/ w.allocated = <<>> \/ CountsLast(w, q)
    PROVE  LET v == StartOcclusionQuery(w, q, clear) IN
           /\ Steady(v, n) /\ CountsLast(v, q) /\ v.cb = w.cb /\ v.enc.recording
           /\ v.active = w.active /\ v.made /\ v.uniforms = w.uniforms /\ v.done = w.done
  <1>. PICK v : v = StartOcclusionQuery(w, q, clear) OBVIOUS
  <1>1. Check(w, w.enc.recording, "render pass for query") = w BY DEF Check
  <1>2. PICK a : a = AllocateQueryOffset(w, q, clear) OBVIOUS
  <1>3. /\ Steady(a, n) /\ SlotsOnly(w, a) /\ CountsLast(a, q)
        /\ Len(w.allocated) < Len(a.allocated)
    BY <1>2, AllocateKeeps
  <1>4. v = StartInOffset(a, q, clear) BY <1>1, <1>2 DEF StartOcclusionQuery
  <1>5. PICK m \in Nat : m = Len(a.allocated) BY <1>3, SteadyParts
  <1>6. OffsetBack(a.query[q]) = m BY <1>3, <1>5 DEF CountsLast
  <1>7. m \notin a.written /\ m # 0 /\ a.enc.recording /\ Encoding(a, n)
    <2>1. SlotsUsed(w) /\ Len(w.allocated) \in Nat /\ Encoding(a, n) BY <1>3, SteadyParts
    <2>2. a.written \subseteq 1..Len(w.allocated) BY <1>3, <2>1 DEF SlotsUsed, SlotsOnly, SameEncoding
    <2>. QED BY <1>3, <1>5, <2>1, <2>2 DEF SlotsOnly, SameEncoding
  <1>8. PICK b : b = SetVisibilityResultMode(a, m) OBVIOUS
  <1>9. /\ Encoding(b, n) /\ SameQueries(a, b) /\ b.cb = a.cb /\ b.written = a.written
        /\ b.enc.mode = m /\ b.enc.recording = a.enc.recording
    BY <1>7, <1>8, ModeKeeps
  <1>10. /\ a \in ContextStates /\ a.query \in [Queries -> QueryStates] /\ a.query[q] \in QueryStates
         /\ a.cb.serial \in Nat /\ b \in ContextStates /\ b.query \in [Queries -> QueryStates]
         /\ Past(a) /\ Taken(a) /\ SlotsUsed(a) /\ a.cb.open /\ a.query[q].usage \in Nat
    <2>1. a \in ContextStates /\ Past(a) /\ Taken(a) /\ SlotsUsed(a) BY <1>3, SteadyParts
    <2>2. b \in ContextStates BY <1>9 DEF Encoding
    <2>3. a.cb.open BY <1>7 DEF Encoding, EncodersAgree
    <2>. QED BY <2>1, <2>2, <2>3, Parts, QueryParts
  <1>. DEFINE x == [a.query[q] EXCEPT !.usage = a.cb.serial]
              query == [a.query EXCEPT ![q] = x]
  <1>11. x \in QueryStates /\ x.usage = a.cb.serial /\ x.first = a.query[q].first
         /\ x.count = a.query[q].count
    BY <1>10 DEF QueryStates
  <1>12. PICK c : c = WithDrawn(b, FALSE) OBVIOUS
  <1>13. v = WithQuery(c, query)
    <2>1. b.query = a.query BY <1>9 DEF SameQueries
    <2>2. v = [b EXCEPT !.drawn = FALSE, !.query[q].usage = a.cb.serial]
      BY <1>4, <1>6, <1>8, <1>10 DEF StartInOffset
    <2>3. v = [b EXCEPT !.drawn = FALSE, !.query = [b.query EXCEPT ![q].usage = a.cb.serial]]
      BY <1>10, <2>2 DEF ContextStates
    <2>. QED BY <1>12, <2>1, <2>3 DEF WithDrawn, WithQuery
  <1>. HIDE DEF x
  <1>14. /\ query \in [Queries -> QueryStates] /\ query[q] = x
         /\ \A r \in Queries \ {q} : query[r] = a.query[r]
    BY <1>10, <1>11
  <1>. HIDE DEF query
  <1>15. FALSE \in BOOLEAN OBVIOUS
  <1>16. /\ c \in ContextStates /\ SameEncoding(b, c)
         /\ c.query = b.query /\ c.allocated = b.allocated /\ c.active = b.active /\ c.made = b.made
         /\ c.uniforms = b.uniforms /\ c.done = b.done /\ c.device = b.device
    BY <1>10, <1>12, <1>15, DrawnPart
  <1>17. /\ v \in ContextStates /\ v.query = query /\ SameEncoding(c, v)
         /\ v.allocated = c.allocated /\ v.active = c.active /\ v.made = c.made
         /\ v.uniforms = c.uniforms /\ v.done = c.done /\ v.device = c.device
    BY <1>13, <1>14, <1>16, QueryPart
  <1>18. /\ v.cb = b.cb /\ v.enc = b.enc /\ v.slots = b.slots /\ v.written = b.written
         /\ v.events = b.events
    BY <1>16, <1>17 DEF SameEncoding
  <1>19. /\ v.allocated = a.allocated /\ v.active = a.active /\ v.made = a.made
         /\ v.uniforms = a.uniforms /\ v.done = a.done
    BY <1>9, <1>16, <1>17 DEF SameQueries
  <1>20. \A r \in Queries : v.query[r].first = a.query[r].first /\ v.query[r].count = a.query[r].count
                            /\ v.query[r].usage <= a.cb.serial
    BY <1>10, <1>11, <1>14, <1>17 DEF Past
  <1>21. Encoding(v, n) BY <1>9, <1>17, <1>18 DEF Encoding, EncodersAgree, FencesKept
  <1>22. Taken(v) BY <1>10, <1>19, <1>20 DEF Taken, OffsetBack
  <1>23. SlotsUsed(v) BY <1>5, <1>9, <1>10, <1>18, <1>19 DEF SlotsUsed
  <1>24. Past(v) BY <1>9, <1>10, <1>18, <1>19, <1>20 DEF Past
  <1>25. v.enc.recording BY <1>7, <1>9, <1>18
  <1>26. CountsLast(v, q) BY <1>3, <1>19, <1>20 DEF CountsLast, OffsetBack
  <1>27. v.cb = w.cb /\ v.active = w.active /\ v.made /\ v.uniforms = w.uniforms /\ v.done = w.done
    BY <1>3, <1>9, <1>18, <1>19 DEF SlotsOnly, SameEncoding
  <1>. QED BY <1>21, <1>22, <1>23, <1>24, <1>25, <1>26, <1>27 DEF Steady

-----------------------------------------------------------------------------
(* What the calls do. *)

\* The active query counts in the last slots.
LEMMA ReadyParts ==
    ASSUME NEW w, NEW n \in Nat, Ready(w, n)
    PROVE  /\ Steady(w, n) /\ (w.active # NoQuery => w.made)
           /\ Counting(w) => CountsLast(w, w.active)
  <1>. QED BY DEF Ready, Counting, CountsLast

\* Without slots.
LEMMA EmptyIsReady ==
    ASSUME NEW w, NEW n \in Nat, Steady(w, n), w.allocated = <<>>, w.active # NoQuery => w.made
    PROVE  Ready(w, n)
  <1>1. Len(w.allocated) = 0 /\ Taken(w) /\ w.active \in Queries \cup {NoQuery} BY SteadyParts
  <1>2. ~Counting(w) BY <1>1 DEF Counting, Taken
  <1>. QED BY <1>2 DEF Ready

\* All slots were given back.
LEMMA OnwardIsReady ==
    ASSUME NEW w, NEW v, NEW n \in Nat, Ready(w, n), Steady(v, n), Onward(w, v), v.allocated = <<>>
    PROVE  Ready(v, n)
  <1>1. v.active # NoQuery => v.made BY DEF Ready, Onward
  <1>. QED BY <1>1, EmptyIsReady

\* The queries and their slots are the same.
LEMMA SameIsReady ==
    ASSUME NEW w, NEW v, NEW n \in Nat, NEW m \in Nat, Ready(w, n), Steady(v, m), SameQueries(w, v)
    PROVE  Ready(v, m)
  <1>. QED BY DEF Ready, Counting, SameQueries

\* The active query has the last slots.
LEMMA CountsIsReady ==
    ASSUME NEW w, NEW n \in Nat, Steady(w, n), w.made, CountsLast(w, w.active)
    PROVE  Ready(w, n)
  <1>. QED BY DEF Ready, CountsLast

\* The context between calls, after each operation.
LEMMA FlushIsReady ==
    ASSUME NEW w, NEW n \in Nat, Ready(w, n)
    PROVE  LET v == FlushCommandBuffer(w) IN
           Ready(v, n) /\ Onward(w, v)
  <1>. PICK v : v = FlushCommandBuffer(w) OBVIOUS
  <1>1. Steady(v, n) /\ Onward(w, v) /\ ~v.enc.recording BY FlushKeeps DEF Ready
  <1>2. v.allocated = <<>> BY <1>1 DEF Steady
  <1>. QED BY <1>1, <1>2, OnwardIsReady

\* endEncoding
LEMMA EndIsReady ==
    ASSUME NEW w, NEW n \in Nat, Ready(w, n)
    PROVE  LET v == EndEncoding(w) IN
           /\ Ready(v, n) /\ Onward(w, v) /\ ~v.enc.recording /\ v.cb.active = "none"
           /\ w.cb.open => v.cb.open
  <1>. PICK v : v = EndEncoding(w) OBVIOUS
  <1>1. /\ Steady(v, n) /\ Onward(w, v) /\ ~v.enc.recording /\ v.cb.active = "none"
        /\ w.cb.open => v.cb.open
    BY EndEncodingKeeps DEF Ready
  <1>2. v.allocated = <<>> BY <1>1 DEF Steady
  <1>. QED BY <1>1, <1>2, OnwardIsReady

\* ensureCommandBufferValid
LEMMA ValidIsReady ==
    ASSUME NEW w, NEW n \in Nat, Ready(w, n)
    PROVE  LET v == EnsureCommandBufferValid(w) IN
           /\ Ready(v, n) /\ v.cb.open
  <1>. PICK v : v = EnsureCommandBufferValid(w) OBVIOUS
  <1>1. Steady(v, n) /\ v.cb.open /\ SameQueries(w, v) BY ValidIsSteady DEF Ready
  <1>. QED BY <1>1, SameIsReady

\* getRenderCommandEncoder, getBlitCommandEncoder, getComputeCommandEncoder
LEMMA GetIsReady ==
    ASSUME NEW w, NEW n \in Nat, Ready(w, n)
    PROVE  /\ LET v == GetRenderCommandEncoder(w) IN
              /\ Ready(v, n) /\ v.enc.recording /\ w.cb.serial <= v.cb.serial
              /\ v = w \/ v.allocated = <<>>
           /\ Ready(GetBlitCommandEncoder(w), n)
           /\ Ready(GetComputeCommandEncoder(w), n)
  <1>0. Steady(w, n) BY DEF Ready
  <1>1. PICK a : a = GetRenderCommandEncoder(w) OBVIOUS
  <1>2. /\ Steady(a, n) /\ Onward(w, a) /\ a.enc.recording
        /\ IF w.enc.recording THEN a = w ELSE a.allocated = <<>>
    BY <1>0, <1>1, GetEncoderKeeps
  <1>3. Ready(a, n) BY <1>2, OnwardIsReady
  <1>4. a = w \/ a.allocated = <<>> BY <1>2
  <1>5. PICK b : b = GetBlitCommandEncoder(w) OBVIOUS
  <1>6. Steady(b, n) /\ Onward(w, b) /\ ~b.enc.recording BY <1>0, <1>5, GetEncoderKeeps
  <1>7. Ready(b, n)
    <2>1. b.allocated = <<>> BY <1>6 DEF Steady
    <2>. QED BY <1>6, <2>1, OnwardIsReady
  <1>8. PICK c : c = GetComputeCommandEncoder(w) OBVIOUS
  <1>9. Steady(c, n) /\ Onward(w, c) /\ ~c.enc.recording BY <1>0, <1>8, GetEncoderKeeps
  <1>10. Ready(c, n)
    <2>1. c.allocated = <<>> BY <1>9 DEF Steady
    <2>. QED BY <1>9, <2>1, OnwardIsReady
  <1>11. w.cb.serial <= a.cb.serial BY <1>2 DEF Onward
  <1>. QED BY <1>1, <1>2, <1>3, <1>4, <1>5, <1>7, <1>8, <1>10, <1>11

\* A query with other values, and the slots it had.
LEMMA ValuesAreReady ==
    ASSUME NEW w, NEW n \in Nat, Ready(w, n), NEW query \in [Queries -> QueryStates],
           \A q \in Queries : /\ query[q].count = w.query[q].count
                              /\ query[q].count > 0 => query[q].first = w.query[q].first
                              /\ query[q].usage <= w.cb.serial,
           NEW done \in Nat, done <= w.cb.serial
    PROVE  Ready(WithQuery(WithDone(w, done), query), n)
  <1>1. w \in ContextStates /\ Steady(w, n) /\ Taken(w) /\ SlotsUsed(w) /\ Past(w) /\ Encoding(w, n)
    BY SteadyParts DEF Ready
  <1>2. PICK u : u = WithDone(w, done) OBVIOUS
  <1>3. /\ u \in ContextStates /\ u.done = done /\ SameEncoding(w, u)
        /\ u.allocated = w.allocated /\ u.active = w.active /\ u.made = w.made
        /\ u.uniforms = w.uniforms
    BY <1>1, <1>2, DonePart
  <1>4. PICK v : v = WithQuery(u, query) OBVIOUS
  <1>5. /\ v \in ContextStates /\ v.query = query /\ SameEncoding(u, v)
        /\ v.allocated = u.allocated /\ v.active = u.active /\ v.made = u.made
        /\ v.uniforms = u.uniforms /\ v.done = u.done
    BY <1>3, <1>4, QueryPart
  <1>6. SameEncoding(w, v) BY <1>3, <1>5 DEF SameEncoding
  <1>7. Encoding(v, n) BY <1>1, <1>5, <1>6 DEF Encoding, EncodersAgree, FencesKept, SameEncoding
  <1>8. Taken(v) BY <1>1, <1>3, <1>5 DEF Taken, OffsetBack
  <1>9. SlotsUsed(v) BY <1>1, <1>3, <1>5, <1>6 DEF SlotsUsed, SameEncoding
  <1>10. Past(v) BY <1>1, <1>3, <1>5, <1>6 DEF Past, SameEncoding
  <1>11. ~v.enc.recording => v.allocated = <<>> BY <1>1, <1>3, <1>5, <1>6 DEF Steady, SameEncoding
  <1>12. Steady(v, n) BY <1>7, <1>8, <1>9, <1>10, <1>11 DEF Steady
  <1>13. v.active = w.active /\ v.made = w.made /\ v.allocated = w.allocated BY <1>3, <1>5
  <1>14. Counting(v) => OffsetBack(v.query[v.active]) = Len(v.allocated)
    <2>. SUFFICES ASSUME Counting(v) PROVE OffsetBack(v.query[v.active]) = Len(v.allocated) OBVIOUS
    <2>1. v.active \in Queries BY <1>5, Parts DEF Counting
    <2>2. Counting(w) BY <1>5, <1>13, <2>1 DEF Counting
    <2>. QED BY <1>5, <1>13, <2>1, <2>2 DEF Ready, OffsetBack, Counting
  <1>15. v.active # NoQuery => v.made BY <1>13 DEF Ready
  <1>. QED BY <1>2, <1>4, <1>12, <1>14, <1>15 DEF Ready

\* The GPU executes command buffers that there are.
LEMMA AdvanceKeeps ==
    ASSUME NEW w, NEW n \in Nat, Ready(w, n), NEW serial \in Nat, serial <= w.cb.serial
    PROVE  Ready(AdvanceTo(w, serial), n)
  <1>0. w \in ContextStates /\ w.query \in [Queries -> QueryStates] /\ Past(w)
    BY SteadyParts, Parts DEF Ready
  <1>1. CASE serial <= w.done
    BY <1>1 DEF AdvanceTo
  <1>2. CASE ~(serial <= w.done)
    <2>. DEFINE query == [q \in Queries |-> IF w.query[q].lastWrite <= serial
                                           THEN [w.query[q] EXCEPT !.memory = w.query[q].encoded]
                                           ELSE w.query[q]]
    <2>1. \A q \in Queries : /\ query[q] \in QueryStates
                             /\ query[q].first = w.query[q].first
                             /\ query[q].count = w.query[q].count
                             /\ query[q].usage = w.query[q].usage
      <3>. TAKE q \in Queries
      <3>1. w.query[q] \in QueryStates BY <1>0
      <3>. QED BY <3>1 DEF QueryStates
    <2>2. query \in [Queries -> QueryStates] BY <2>1
    <2>3. \A q \in Queries : query[q].usage <= w.cb.serial BY <1>0, <2>1 DEF Past
    <2>4. AdvanceTo(w, serial) = WithQuery(WithDone(w, serial), query)
      BY <1>2 DEF AdvanceTo, WithQuery, WithDone
    <2>. HIDE DEF query
    <2>. QED BY <2>1, <2>2, <2>3, <2>4, ValuesAreReady
  <1>. QED BY <1>1, <1>2

\* resetVisibilityResult
LEMMA ResetKeeps ==
    ASSUME NEW w, NEW n \in Nat, Ready(w, n), NEW q \in Queries
    PROVE  Ready(ResetVisibilityResult(w, q), n)
  <1>0. /\ w \in ContextStates /\ w.query \in [Queries -> QueryStates] /\ w.query[q] \in QueryStates
        /\ w.cb.serial \in Nat /\ w.done \in Nat /\ w.query[q].usage \in Nat /\ Past(w)
    BY SteadyParts, Parts, QueryParts DEF Ready
  <1>1. PICK s \in Nat : s = w.cb.serial BY <1>0
  <1>2. PICK usage \in Nat : usage = IF w.device.managed THEN s ELSE w.query[q].usage BY <1>0
  <1>. DEFINE x == [w.query[q] EXCEPT !.encoded = FALSE, !.lastWrite = s, !.usage = usage]
              query == [w.query EXCEPT ![q] = x]
  <1>3. x \in QueryStates /\ x.first = w.query[q].first /\ x.count = w.query[q].count
        /\ x.usage = usage
    BY <1>0 DEF QueryStates
  <1>4. ResetVisibilityResult(w, q) = WithQuery(WithDone(w, w.done), query)
    <2>1. WithDone(w, w.done) = w BY <1>0 DEF WithDone, ContextStates
    <2>2. ResetVisibilityResult(w, q) = [w EXCEPT !.query = query]
      BY <1>0, <1>1, <1>2, ZenonT(60) DEF ResetVisibilityResult, ContextStates, QueryStates
    <2>. QED BY <2>1, <2>2 DEF WithQuery
  <1>. HIDE DEF x
  <1>5. /\ query \in [Queries -> QueryStates] /\ query[q] = x
        /\ \A r \in Queries \ {q} : query[r] = w.query[r]
    BY <1>0, <1>3
  <1>. HIDE DEF query
  <1>6. usage <= s BY <1>0, <1>1, <1>2 DEF Past
  <1>7. \A r \in Queries : /\ query[r].first = w.query[r].first
                           /\ query[r].count = w.query[r].count
                           /\ query[r].usage <= w.cb.serial
    BY <1>0, <1>1, <1>3, <1>5, <1>6 DEF Past
  <1>8. w.done <= w.cb.serial BY <1>0 DEF Past
  <1>. QED BY <1>0, <1>4, <1>5, <1>7, <1>8, ValuesAreReady

\* onOcclusionQueryBegan
LEMMA BeganKeeps ==
    ASSUME NEW w, NEW n \in Nat, Ready(w, n), w.active = NoQuery, NEW q \in Queries
    PROVE  Ready(OnOcclusionQueryBegan(w, q), n)
  <1>. PICK v : v = OnOcclusionQueryBegan(w, q) OBVIOUS
  <1>0. /\ w \in ContextStates /\ Steady(w, n) /\ Taken(w) /\ Past(w) /\ Len(w.allocated) \in Nat
        /\ (w.enc.recording \/ w.allocated = <<>>)
    BY SteadyParts DEF Ready, Steady
  <1>1. PICK a : a = WithActive(w, q) OBVIOUS
  <1>2. /\ a \in ContextStates /\ a.active = q /\ SameEncoding(w, a)
        /\ a.query = w.query /\ a.allocated = w.allocated
        /\ a.uniforms = w.uniforms /\ a.done = w.done
    BY <1>0, <1>1, ActivePart
  <1>3. Steady(a, n)
    <2>1. Taken(a) /\ Len(w.allocated) <= Len(a.allocated) BY <1>0, <1>2 DEF Taken
    <2>2. \A r \in Queries : a.query[r].usage <= w.cb.serial BY <1>0, <1>2 DEF Past
    <2>. QED BY <1>0, <1>2, <2>1, <2>2, StillSteady
  <1>4. PICK b : b = EnsureOcclusionQueryPoolCapacity(a) OBVIOUS
  <1>5. Steady(b, n) /\ b.active = q /\ b.made /\ Len(b.allocated) < MaxSlots
    BY <1>2, <1>3, <1>4, EnsureCapacity
  <1>6. v = BeginInPassOrReset(b, q)
    BY <1>1, <1>4 DEF OnOcclusionQueryBegan, Check, WithActive
  <1>7. CASE b.enc.recording
    <2>a. PICK clear \in BOOLEAN : clear OBVIOUS
    <2>b. clear \/ b.allocated = <<>> \/ CountsLast(b, q) BY <2>a
    <2>1. v = StartOcclusionQuery(b, q, clear) BY <1>6, <1>7, <2>a DEF BeginInPassOrReset
    <2>2. Steady(v, n) /\ CountsLast(v, q) /\ v.active = b.active /\ v.made
      BY <1>5, <1>7, <2>1, <2>b, StartKeeps
    <2>. QED BY <1>5, <2>2, CountsIsReady
  <1>8. CASE ~b.enc.recording
    <2>1. b.allocated = <<>> BY <1>5, <1>8 DEF Steady
    <2>2. Ready(b, n) BY <1>5, <2>1, EmptyIsReady
    <2>3. PICK c : c = GetBlitCommandEncoder(b) OBVIOUS
    <2>4. Ready(c, n) BY <2>2, <2>3, GetIsReady
    <2>5. v = ResetVisibilityResult(c, q) BY <1>6, <1>8, <2>3 DEF BeginInPassOrReset
    <2>. QED BY <2>4, <2>5, ResetKeeps
  <1>. QED BY <1>7, <1>8

\* onOcclusionQueryEnded
LEMMA EndedKeeps ==
    ASSUME NEW w, NEW n \in Nat, Ready(w, n)
    PROVE  Ready(OnOcclusionQueryEnded(w), n)
  <1>. PICK v : v = OnOcclusionQueryEnded(w) OBVIOUS
  <1>1. PICK a : a = IF w.enc.recording THEN DisableActiveOcclusionQuery(w) ELSE w OBVIOUS
  <1>2. Steady(a, n) /\ a.enc.recording = w.enc.recording /\ SameQueries(w, a)
    BY <1>1, DisableKeeps DEF Ready, SameQueries
  <1>3. /\ a \in ContextStates /\ Taken(a) /\ Past(a) /\ Len(a.allocated) \in Nat
        /\ (a.enc.recording \/ a.allocated = <<>>)
    BY <1>2, SteadyParts DEF Steady
  <1>4. v = WithActive(a, NoQuery) BY <1>1 DEF OnOcclusionQueryEnded, WithActive
  <1>5. /\ v \in ContextStates /\ v.active = NoQuery /\ SameEncoding(a, v)
        /\ v.query = a.query /\ v.allocated = a.allocated
        /\ v.uniforms = a.uniforms /\ v.done = a.done
    BY <1>3, <1>4, ActivePart
  <1>6. Steady(v, n)
    <2>1. Taken(v) /\ Len(a.allocated) <= Len(v.allocated) BY <1>3, <1>5 DEF Taken
    <2>2. \A r \in Queries : v.query[r].usage <= a.cb.serial BY <1>3, <1>5 DEF Past
    <2>. QED BY <1>2, <1>3, <1>5, <2>1, <2>2, StillSteady
  <1>. QED BY <1>5, <1>6 DEF Ready, Counting

\* In a pass without slots the active query takes the first.
LEMMA ContinueKeeps ==
    ASSUME NEW w, NEW n \in Nat, Ready(w, n), w.enc.recording
    PROVE  LET v == ContinueQuery(w) IN
           Ready(v, n) /\ v.enc.recording /\ v.uniforms = w.uniforms
  <1>. PICK v : v = ContinueQuery(w) OBVIOUS
  <1>1. CASE w.active # NoQuery /\ w.allocated = <<>>
    <2>1. Steady(w, n) /\ w.made /\ w.active \in Queries BY <1>1, SteadyParts DEF Ready
    <2>2. Len(w.allocated) < MaxSlots
      <3>1. Len(w.allocated) = 0 BY <1>1
      <3>. QED BY <3>1, SlotsAssumption
    <2>a. PICK clear \in BOOLEAN : ~clear OBVIOUS
    <2>3. v = StartOcclusionQuery(w, w.active, clear) BY <1>1, <2>a DEF ContinueQuery
    <2>4. /\ Steady(v, n) /\ CountsLast(v, w.active) /\ v.enc.recording
          /\ v.active = w.active /\ v.made /\ v.uniforms = w.uniforms
      BY <1>1, <2>1, <2>2, <2>3, StartKeeps
    <2>. QED BY <2>4, CountsIsReady
  <1>2. CASE ~(w.active # NoQuery /\ w.allocated = <<>>)
    <2>1. v = w BY <1>2 DEF ContinueQuery
    <2>. QED BY <2>1
  <1>. QED BY <1>1, <1>2

\* The uniform buffer is not used, or used as it is.
LEMMA UniformsKeep ==
    ASSUME NEW w, NEW n \in Nat, Ready(w, n), w.enc.recording, NEW offset \in {"unused", "aligned"}
    PROVE  LET v == SetupUniformBuffers(w, offset) IN
           Ready(v, n) /\ v.enc.recording
  <1>. PICK v : v = SetupUniformBuffers(w, offset) OBVIOUS
  <1>1. CASE offset = "unused"
    <2>1. v = w BY <1>1 DEF SetupUniformBuffers
    <2>. QED BY <2>1
  <1>2. CASE offset = "aligned"
    <2>0. /\ w \in ContextStates /\ Steady(w, n) /\ Taken(w) /\ SlotsUsed(w) /\ Past(w) /\ Encoding(w, n)
          /\ w.cb.serial \in Nat /\ w.uniforms.usage \in Nat
      BY SteadyParts, Parts DEF Ready
    <2>1. w.uniforms \in [usage : Nat, dirty : BOOLEAN] BY <2>0 DEF ContextStates
    <2>2. PICK s \in Nat : s = (IF w.cb.open THEN w.cb.serial ELSE w.uniforms.usage) /\ s <= w.cb.serial
      BY <2>0 DEF Past
    <2>. DEFINE x == [w.uniforms EXCEPT !.usage = s]
    <2>3. x \in [usage : Nat, dirty : BOOLEAN] /\ x.usage = s BY <2>1
    <2>4. v = WithUniforms(w, x)
      BY <1>2, <2>2 DEF SetupUniformBuffers, WithUniforms
    <2>. HIDE DEF x
    <2>5. /\ v \in ContextStates /\ v.uniforms = x /\ SameEncoding(w, v)
          /\ v.query = w.query /\ v.allocated = w.allocated /\ v.active = w.active /\ v.made = w.made
          /\ v.done = w.done
      BY <2>0, <2>3, <2>4, UniformsPart
    <2>6. Encoding(v, n) BY <2>0, <2>5 DEF Encoding, EncodersAgree, FencesKept, SameEncoding
    <2>7. Taken(v) /\ SlotsUsed(v) BY <2>0, <2>5 DEF Taken, SlotsUsed, SameEncoding
    <2>8. Past(v) BY <2>0, <2>2, <2>3, <2>5 DEF Past, SameEncoding
    <2>9. v.enc.recording BY <2>5 DEF SameEncoding
    <2>10. Steady(v, n) BY <2>6, <2>7, <2>8, <2>9 DEF Steady
    <2>11. Ready(v, n) BY <2>5, <2>10 DEF Ready, Counting
    <2>. QED BY <2>9, <2>11
  <1>. QED BY <1>1, <1>2

\* setupDraw
LEMMA SetupKeeps ==
    ASSUME NEW w, NEW n \in Nat, Ready(w, n), NEW offset \in {"unused", "aligned"}
    PROVE  LET v == SetupDraw(w, offset) IN
           Ready(v, n) /\ v.enc.recording
  <1>. PICK v : v = SetupDraw(w, offset) OBVIOUS
  <1>1. PICK a : a = GetRenderCommandEncoder(w) OBVIOUS
  <1>2. Ready(a, n) /\ a.enc.recording BY <1>1, GetIsReady
  <1>3. PICK b : b = ContinueQuery(a) OBVIOUS
  <1>4. Ready(b, n) /\ b.enc.recording BY <1>2, <1>3, ContinueKeeps
  <1>5. PICK c : c = SetupUniformBuffers(b, offset) OBVIOUS
  <1>6. Ready(c, n) /\ c.enc.recording BY <1>4, <1>5, UniformsKeep
  <1>7. /\ c \in ContextStates /\ Steady(c, n) /\ Taken(c) /\ SlotsUsed(c) /\ Past(c) /\ Encoding(c, n)
    BY <1>6, SteadyParts DEF Ready
  <1>8. v = WithDrawn(c, TRUE) /\ TRUE \in BOOLEAN BY <1>1, <1>3, <1>5 DEF SetupDraw, WithDrawn
  <1>9. /\ v \in ContextStates /\ SameEncoding(c, v)
        /\ v.query = c.query /\ v.allocated = c.allocated /\ v.active = c.active /\ v.made = c.made
        /\ v.uniforms = c.uniforms /\ v.done = c.done
    <2>1. c \in ContextStates BY <1>7
    <2>2. PICK t \in BOOLEAN : t = TRUE OBVIOUS
    <2>3. v = WithDrawn(c, t) BY <1>8, <2>2
    <2>. QED BY <2>1, <2>3, DrawnPart
  <1>10. Encoding(v, n) BY <1>7, <1>9 DEF Encoding, EncodersAgree, FencesKept, SameEncoding
  <1>11. Taken(v) /\ SlotsUsed(v) /\ Past(v) BY <1>7, <1>9 DEF Taken, SlotsUsed, Past, SameEncoding
  <1>12. v.enc.recording BY <1>6, <1>9 DEF SameEncoding
  <1>13. Steady(v, n) BY <1>10, <1>11, <1>12 DEF Steady
  <1>14. Ready(v, n) BY <1>6, <1>9, <1>13 DEF Ready, Counting
  <1>. QED BY <1>12, <1>14

\* RenderCommandEncoder::draw
LEMMA DrawIsReady ==
    ASSUME NEW w, NEW n \in Nat, Ready(w, n), w.enc.recording, NEW visible \in BOOLEAN
    PROVE  LET v == EncodeDraw(w, visible) IN
           Ready(v, n) /\ SameQueries(w, v)
  <1>. PICK v : v = EncodeDraw(w, visible) OBVIOUS
  <1>1. Steady(v, n) /\ SameQueries(w, v) BY DrawIsSteady DEF Ready
  <1>. QED BY <1>1, SameIsReady

\* A clear pauses the active query, which needs a slot to go on.
LEMMA ClearWithDrawKeeps ==
    ASSUME NEW w, NEW n \in Nat, Ready(w, n), ~Counting(w) \/ CanAllocateQueryOffset(w)
    PROVE  Ready(ClearWithDraw(w), n)
  <1>. PICK v : v = ClearWithDraw(w) OBVIOUS
  <1>1. PICK a : a = GetRenderCommandEncoder(w) OBVIOUS
  <1>2. Ready(a, n) /\ a.enc.recording /\ (a = w \/ a.allocated = <<>>) BY <1>1, GetIsReady
  <1>3. ~Counting(a) \/ CanAllocateQueryOffset(a)
    <2>1. CASE a = w BY <2>1
    <2>2. CASE a.allocated = <<>>
      <3>1. Len(a.allocated) = 0 /\ Taken(a) /\ a.active \in Queries \cup {NoQuery}
        BY <1>2, <2>2, SteadyParts DEF Ready
      <3>. QED BY <3>1 DEF Counting, Taken
    <2>. QED BY <1>2, <2>1, <2>2
  <1>4. PICK b : b = DisableActiveOcclusionQuery(a) OBVIOUS
  <1>5. Steady(b, n) /\ SameQueries(a, b) /\ b.enc.recording = a.enc.recording
    BY <1>2, <1>4, DisableKeeps DEF Ready
  <1>6. Ready(b, n) /\ b.enc.recording BY <1>2, <1>5, SameIsReady
  <1>7. PICK c : c = EncodeDraw(b, TRUE) OBVIOUS
  <1>8. TRUE \in BOOLEAN /\ Steady(b, n) BY <1>5
  <1>9. Ready(c, n) /\ SameQueries(b, c) /\ c.enc.recording
    BY <1>6, <1>7, <1>8, DrawIsReady, DrawIsSteady
  <1>10. v = RestartActiveOcclusionQuery(c) BY <1>1, <1>4, <1>7 DEF ClearWithDraw
  <1>11. CASE ~Counting(c)
    <2>1. v = c BY <1>10, <1>11 DEF RestartActiveOcclusionQuery
    <2>. QED BY <1>9, <2>1
  <1>12. CASE Counting(c)
    <2>1. CanAllocateQueryOffset(c)
      <3>1. Counting(a) BY <1>5, <1>9, <1>12 DEF Counting, SameQueries
      <3>. QED BY <1>3, <1>5, <1>9, <3>1 DEF CanAllocateQueryOffset, SameQueries
    <2>2. EnsureOcclusionQueryPoolCapacity(c) = c BY <2>1 DEF EnsureOcclusionQueryPoolCapacity
    <2>a. PICK clear \in BOOLEAN : ~clear OBVIOUS
    <2>3. v = StartOcclusionQuery(c, c.active, clear)
      BY <1>10, <1>12, <2>a, <2>2 DEF RestartActiveOcclusionQuery
    <2>4. Steady(c, n) /\ c.active \in Queries /\ CountsLast(c, c.active)
      BY <1>9, <1>12, CountingRecords, ReadyParts
    <2>5. c.made /\ Len(c.allocated) < MaxSlots BY <2>1 DEF CanAllocateQueryOffset
    <2>6. Steady(v, n) /\ CountsLast(v, c.active) /\ v.active = c.active /\ v.made
      BY <1>9, <2>3, <2>4, <2>5, StartKeeps
    <2>. QED BY <2>6, CountsIsReady
  <1>. QED BY <1>11, <1>12

\* waitAndGetResult: the GPU is not ahead of the command buffers.
LEMMA WaitAndGetKeeps ==
    ASSUME NEW w, NEW n \in Nat, Ready(w, n), NEW q \in Queries
    PROVE  Ready(WaitAndGetResult(w, q), n)
  <1>1. PICK a : a = IF HasPendingWorks(w, q) THEN FlushCommandBuffer(w) ELSE w OBVIOUS
  <1>2. Ready(a, n) BY <1>1, FlushIsReady
  <1>3. PICK s : s = a.query[q].usage OBVIOUS
  <1>4. s \in Nat /\ s <= a.cb.serial /\ a.cb.serial \in Nat
    <2>1. a \in ContextStates /\ Past(a) BY <1>2, SteadyParts DEF Ready
    <2>. QED BY <1>3, <2>1, QueryParts DEF Past
  <1>5. PICK b : b = IF IsBeingUsed(a, q) THEN FlushCommandBuffer(a) ELSE a OBVIOUS
  <1>6. Ready(b, n) /\ a.cb.serial <= b.cb.serial /\ b.cb.serial \in Nat
    <2>1. CASE IsBeingUsed(a, q)
      <3>1. b = FlushCommandBuffer(a) BY <1>5, <2>1
      <3>2. Ready(b, n) /\ Onward(a, b) BY <1>2, <3>1, FlushIsReady
      <3>3. b.cb.serial \in Nat BY <3>2, SteadyParts DEF Ready
      <3>. QED BY <3>2, <3>3 DEF Onward
    <2>2. CASE ~IsBeingUsed(a, q)
      <3>1. b = a BY <1>5, <2>2
      <3>. QED BY <1>2, <1>4, <3>1
    <2>. QED BY <2>1, <2>2
  <1>7. s <= b.cb.serial BY <1>4, <1>6
  <1>8. Ready(AdvanceTo(b, s), n) BY <1>4, <1>6, <1>7, AdvanceKeeps
  <1>9. WaitAndGetResult(w, q) = AdvanceTo(b, s)
    BY <1>1, <1>3, <1>5 DEF WaitAndGetResult, MapResult
  <1>. QED BY <1>8, <1>9

\* glDeleteQueries of a query that is not active.
LEMMA DeleteKeeps ==
    ASSUME NEW w, NEW n \in Nat, Ready(w, n), NEW q \in Queries, q # w.active
    PROVE  Ready([DeallocateQueryOffset(w, q) EXCEPT !.query[q] = NewQuery], n)
  <1>0. Steady(w, n) BY DEF Ready
  <1>1. PICK a : a = DeallocateQueryOffset(w, q) OBVIOUS
  <1>2. /\ Steady(a, n) /\ SlotsOnly(w, a) /\ a.query[q].count = 0
        /\ \A r \in Queries \ {q} : a.query[r] = w.query[r]
        /\ Len(a.allocated) = Len(w.allocated)
    BY <1>0, <1>1, DeallocateKeeps
  <1>3. /\ a \in ContextStates /\ a.query \in [Queries -> QueryStates] /\ Past(a)
        /\ a.cb.serial \in Nat /\ a.done \in Nat /\ a.active \in Queries \cup {NoQuery}
    BY <1>2, SteadyParts, Parts
  <1>4. Ready(a, n)
    <2>1. a.active = w.active /\ a.made = w.made BY <1>2 DEF SlotsOnly
    <2>2. ASSUME Counting(a) PROVE OffsetBack(a.query[a.active]) = Len(a.allocated)
      <3>1. a.active \in Queries \ {q} BY <1>3, <2>1, <2>2 DEF Counting
      <3>2. a.query[a.active] = w.query[w.active] BY <1>2, <2>1, <3>1
      <3>3. Counting(w) BY <2>1, <2>2, <3>2 DEF Counting
      <3>. QED BY <1>2, <3>2, <3>3 DEF Ready
    <2>. QED BY <1>2, <2>1, <2>2 DEF Ready
  <1>. DEFINE query == [a.query EXCEPT ![q] = NewQuery]
  <1>5. NewQuery \in QueryStates /\ NewQuery.count = 0 /\ NewQuery.usage = 0
    BY DEF NewQuery, QueryStates
  <1>6. PICK v : v = [a EXCEPT !.query[q] = NewQuery] OBVIOUS
  <1>7. v = WithQuery(WithDone(a, a.done), query)
    <2>1. WithDone(a, a.done) = a BY <1>3 DEF WithDone, ContextStates
    <2>. QED BY <1>6, <2>1 DEF WithQuery
  <1>8. /\ query \in [Queries -> QueryStates] /\ query[q] = NewQuery
        /\ \A r \in Queries \ {q} : query[r] = a.query[r]
    BY <1>3, <1>5
  <1>. HIDE DEF query
  <1>9. \A r \in Queries : /\ query[r].count = a.query[r].count
                           /\ query[r].count > 0 => query[r].first = a.query[r].first
                           /\ query[r].usage <= a.cb.serial
    BY <1>2, <1>3, <1>5, <1>8 DEF Past
  <1>10. a.done <= a.cb.serial BY <1>3 DEF Past
  <1>11. Ready(v, n) BY <1>3, <1>4, <1>7, <1>8, <1>9, <1>10, ValuesAreReady
  <1>. QED BY <1>1, <1>6, <1>11

\* glFenceSync: one fence more.
LEMMA FenceKeeps ==
    ASSUME NEW w, NEW n \in Nat, Ready(w, n)
    PROVE  Ready(QueueEventSignal(EnsureCommandBufferValid(w), n + 1), n + 1)
  <1>1. PICK a : a = EnsureCommandBufferValid(w) OBVIOUS
  <1>2. Ready(a, n) /\ a.cb.open BY <1>1, ValidIsReady
  <1>3. /\ Steady(a, n) /\ Encoding(a, n) /\ Taken(a) /\ SlotsUsed(a) /\ Past(a)
        /\ a.enc.recording \in BOOLEAN
    BY <1>2, SteadyParts DEF Ready
  <1>4. PICK v : v = QueueEventSignal(a, n + 1) OBVIOUS
  <1>5. /\ Encoding(v, n + 1) /\ SameQueries(a, v) /\ SameBuffer(a, v)
        /\ a.enc.recording => v.enc = a.enc /\ v.written = a.written
        /\ ~a.enc.recording => ~v.enc.recording
    BY <1>2, <1>3, <1>4, QueueSignalKeeps
  <1>6. Taken(v) /\ Past(v) BY <1>3, <1>5 DEF Taken, Past, SameQueries, SameBuffer
  <1>7. SlotsUsed(v) /\ (~v.enc.recording => v.allocated = <<>>)
    <2>1. CASE a.enc.recording
      BY <1>3, <1>5, <2>1 DEF SlotsUsed, SameQueries
    <2>2. CASE ~a.enc.recording
      <3>1. v.enc.mode = 0 /\ v.written = {} BY <1>5, <2>2 DEF Encoding, EncodersAgree
      <3>2. v.allocated = <<>> /\ Len(v.allocated) = 0 BY <1>3, <1>5, <2>2 DEF Steady, SameQueries
      <3>. QED BY <3>1, <3>2 DEF SlotsUsed
    <2>. QED BY <2>1, <2>2
  <1>8. Steady(v, n + 1) /\ n + 1 \in Nat BY <1>5, <1>6, <1>7 DEF Steady
  <1>9. Ready(v, n + 1) BY <1>2, <1>5, <1>8, SameIsReady
  <1>. QED BY <1>1, <1>4, <1>9

\* glWaitSync on one of the fences.
LEMMA WaitIsReady ==
    ASSUME NEW w, NEW n \in Nat, Ready(w, n), NEW fence \in 1..n
    PROVE  Ready(ServerWaitEvent(EndEncoding(EnsureCommandBufferValid(w)), fence), n)
  <1>1. PICK a : a = EnsureCommandBufferValid(w) OBVIOUS
  <1>2. Ready(a, n) /\ a.cb.open BY <1>1, ValidIsReady
  <1>3. PICK b : b = EndEncoding(a) OBVIOUS
  <1>4. Ready(b, n) /\ ~b.enc.recording /\ b.cb.active = "none" /\ b.cb.open
    BY <1>2, <1>3, EndIsReady
  <1>5. Steady(b, n) /\ Encoding(b, n) /\ b.cb.serial \in Nat BY <1>4, SteadyParts DEF Ready
  <1>6. PICK v : v = ServerWaitEvent(b, fence) OBVIOUS
  <1>7. Encoding(v, n) /\ SameQueries(b, v) /\ SameBuffer(b, v) /\ ~v.enc.recording
    BY <1>4, <1>5, <1>6, WaitKeeps
  <1>8. v.enc.mode = 0 /\ v.written = {} /\ b.cb.serial <= v.cb.serial
    BY <1>5, <1>7 DEF Encoding, EncodersAgree, SameBuffer
  <1>9. Steady(v, n) BY <1>4, <1>5, <1>7, <1>8, OutsideSteady
  <1>10. Ready(v, n) BY <1>4, <1>7, <1>9, SameIsReady
  <1>. QED BY <1>1, <1>3, <1>6, <1>10

\* present
LEMMA PresentKeeps ==
    ASSUME NEW w, NEW n \in Nat, Ready(w, n)
    PROVE  Ready(Commit(EndEncoding(EnsureCommandBufferValid(w))), n)
  <1>1. PICK a : a = EnsureCommandBufferValid(w) OBVIOUS
  <1>2. Ready(a, n) BY <1>1, ValidIsReady
  <1>3. PICK b : b = EndEncoding(a) OBVIOUS
  <1>4. Ready(b, n) /\ ~b.enc.recording BY <1>2, <1>3, EndIsReady
  <1>5. PICK v : v = Commit(b) OBVIOUS
  <1>6. Steady(v, n) /\ Onward(b, v) /\ ~v.enc.recording BY <1>4, <1>5, CommitIsSteady DEF Ready
  <1>7. v.allocated = <<>> BY <1>6 DEF Steady
  <1>8. Ready(v, n) BY <1>4, <1>6, <1>7, OnwardIsReady
  <1>. QED BY <1>1, <1>3, <1>5, <1>8

-----------------------------------------------------------------------------
(* The invariant. *)

Calls == [expected : [Queries -> Expected], fences : Nat, waits : Nat]

QueryInv == gl \in Calls /\ Ready(ctx, gl.fences)

\* A record of the values a context starts with.
LEMMA ContextRecord ==
    ASSUME NEW device \in [managed : BOOLEAN, readWrite : BOOLEAN], NEW cb \in CommandBuffers,
           NEW enc \in EncoderStates, NEW slots \in [Slots -> BOOLEAN], NEW events \in Seq(Event),
           NEW allocated \in Seq(Queries \cup {NoQuery}), NEW query \in [Queries -> QueryStates],
           NEW uniforms \in [usage : Nat, dirty : BOOLEAN],
           NEW w,
           w = [cb |-> cb, enc |-> enc, slots |-> slots, written |-> {}, events |-> events, failed |-> {},
                device |-> device, made |-> FALSE, allocated |-> allocated, resetFirst |-> FALSE,
                query |-> query, active |-> NoQuery, drawn |-> FALSE, uniforms |-> uniforms, done |-> 0]
    PROVE  w \in ContextStates
  <1>. QED BY DEF ContextStates

\* A new context is a context.
LEMMA NewContextIs ==
    ASSUME NEW device \in [managed : BOOLEAN, readWrite : BOOLEAN]
    PROVE  NewContext(device) \in ContextStates
  <1>1. /\ NewCommandBuffer \in CommandBuffers /\ NewEncoders \in EncoderStates
        /\ NewQuery \in QueryStates
    <2>1. <<>> \in Seq(Nat) OBVIOUS
    <2>. QED BY <2>1 DEF NewCommandBuffer, CommandBuffers, NewEncoders, EncoderStates, NewQuery,
                         QueryStates, Encoders
  <1>2. PICK cb, enc : cb = NewCommandBuffer /\ enc = NewEncoders OBVIOUS
  <1>3. PICK slots : slots = [s \in Slots |-> TRUE] OBVIOUS
  <1>4. PICK query : query = [q \in Queries |-> NewQuery] OBVIOUS
  <1>5. PICK events, allocated : events = <<>> /\ allocated = <<>> OBVIOUS
  <1>6. PICK uniforms : uniforms = [usage |-> 0, dirty |-> TRUE] OBVIOUS
  <1>7. cb \in CommandBuffers /\ enc \in EncoderStates BY <1>1, <1>2
  <1>8. slots \in [Slots -> BOOLEAN] BY <1>3
  <1>9. query \in [Queries -> QueryStates] BY <1>1, <1>4
  <1>10. events \in Seq(Event) /\ allocated \in Seq(Queries \cup {NoQuery}) BY <1>5
  <1>11. uniforms \in [usage : Nat, dirty : BOOLEAN] BY <1>6
  <1>12. PICK w : w = NewContext(device) OBVIOUS
  <1>13. w = [cb |-> cb, enc |-> enc, slots |-> slots, written |-> {}, events |-> events, failed |-> {},
              device |-> device, made |-> FALSE, allocated |-> allocated, resetFirst |-> FALSE,
              query |-> query, active |-> NoQuery, drawn |-> FALSE, uniforms |-> uniforms, done |-> 0]
    BY <1>2, <1>3, <1>4, <1>5, <1>6, <1>12 DEF NewContext
  <1>14. w \in ContextStates BY <1>7, <1>8, <1>9, <1>10, <1>11, <1>13, ContextRecord
  <1>. QED BY <1>12, <1>14

\* Initially there is nothing to keep.
LEMMA InitReady == Init => QueryInv
  <1>. SUFFICES ASSUME Init PROVE QueryInv OBVIOUS
  <1>1. gl \in Calls /\ gl.fences = 0 BY DEF Init, Calls, Expected
  <1>2. PICK device \in Devices : ctx = NewContext(device) BY DEF Init
  <1>3. /\ ctx.cb = NewCommandBuffer /\ ctx.enc = NewEncoders /\ ctx.written = {} /\ ctx.events = <<>>
        /\ ctx.allocated = <<>> /\ ctx.query = [q \in Queries |-> NewQuery] /\ ctx.active = NoQuery
        /\ ctx.uniforms.usage = 0 /\ ctx.done = 0
    BY <1>2 DEF NewContext
  <1>4. ctx \in ContextStates
    <2>1. device \in [managed : BOOLEAN, readWrite : BOOLEAN] BY QueryAssumption
    <2>. QED BY <1>2, <2>1, NewContextIs
  <1>5. EncodersAgree(ctx)
    <2>1. /\ ctx.enc.recording = FALSE /\ ctx.enc.native = FALSE /\ ctx.enc.blit = FALSE
          /\ ctx.enc.compute = FALSE /\ ctx.enc.mode = 0
      BY <1>3 DEF NewEncoders
    <2>2. ctx.cb.active = "none" /\ ctx.cb.pending = <<>> BY <1>3 DEF NewCommandBuffer
    <2>. QED BY <1>3, <2>1, <2>2 DEF EncodersAgree
  <1>6. FencesKept(ctx, 0)
    <2>1. Signals(<<>>) = {} BY DEF Signals
    <2>2. Ordered(<<>>, 0) BY <2>1 DEF Ordered, SignalledOnce, WaitsFollow
    <2>3. ctx.cb.pending = <<>> /\ 0 \in Nat BY <1>3 DEF NewCommandBuffer
    <2>. QED BY <1>3, <2>2, <2>3, NothingPending
  <1>7. Taken(ctx)
    <2>1. Len(ctx.allocated) = 0 /\ 0 <= MaxSlots BY <1>3, SlotsAssumption
    <2>2. \A q \in Queries : ctx.query[q].count = 0 BY <1>3 DEF NewQuery
    <2>. QED BY <2>1, <2>2 DEF Taken
  <1>8. SlotsUsed(ctx)
    <2>1. Len(ctx.allocated) = 0 BY <1>3
    <2>. QED BY <1>3, <2>1 DEF SlotsUsed, NewEncoders
  <1>9. Past(ctx) BY <1>3 DEF Past, NewCommandBuffer, NewQuery
  <1>10. Steady(ctx, 0) BY <1>3, <1>4, <1>5, <1>6, <1>7, <1>8, <1>9 DEF Steady, Encoding
  <1>11. Ready(ctx, 0) BY <1>3, <1>10 DEF Ready, Counting
  <1>. QED BY <1>1, <1>11 DEF QueryInv

\* Every call, and every step of the GPU, keeps the invariant.
LEMMA StepReady ==
    ASSUME "unaligned" \notin UniformOffsets, ~FullPoolRestart, QueryInv, [Next]_vars
    PROVE  QueryInv'
  <1>. DEFINE n == gl.fences
  <1>0. gl \in Calls /\ n \in Nat /\ Ready(ctx, n) /\ Steady(ctx, n)
    BY DEF QueryInv, Calls, Ready
  <1>a. ASSUME UNCHANGED gl, NEW w, Ready(w, n), Become(w) PROVE QueryInv'
    BY <1>0, <1>a DEF QueryInv, Become
  <1>b. ASSUME NEW q \in Queries, NEW e \in Expected, NEW w, Ready(w, n), Become(w),
               gl' = [gl EXCEPT !.expected[q] = e]
        PROVE  QueryInv'
    <2>1. gl' \in Calls /\ gl'.fences = n BY <1>0, <1>b DEF Calls
    <2>2. ctx' = w BY <1>b DEF Become
    <2>. QED BY <1>b, <2>1, <2>2 DEF QueryInv
  <1>1. ASSUME NEW q \in Queries, BeginQuery(q) PROVE QueryInv'
    <2>1. PICK w : w = OnOcclusionQueryBegan(ctx, q) OBVIOUS
    <2>2. Ready(w, n) BY <1>0, <1>1, <2>1, BeganKeeps DEF BeginQuery
    <2>3. PICK e \in Expected : e = IF ctx'.query[q].count > 0 THEN "none" ELSE "reset" BY DEF Expected
    <2>. QED BY <1>1, <1>b, <2>1, <2>2, <2>3 DEF BeginQuery
  <1>2. ASSUME EndQuery PROVE QueryInv'
    <2>1. PICK w : w = OnOcclusionQueryEnded(ctx) OBVIOUS
    <2>2. Ready(w, n) BY <1>0, <2>1, EndedKeeps
    <2>. QED BY <1>2, <1>a, <2>1, <2>2 DEF EndQuery
  <1>3. ASSUME NEW q \in Queries, DeleteQuery(q) PROVE QueryInv'
    <2>1. PICK w : w = [DeallocateQueryOffset(ctx, q) EXCEPT !.query[q] = NewQuery] OBVIOUS
    <2>2. Ready(w, n) BY <1>0, <1>3, <2>1, DeleteKeeps DEF DeleteQuery
    <2>3. PICK e \in Expected : e = "never begun" BY DEF Expected
    <2>. QED BY <1>3, <1>b, <2>1, <2>2, <2>3 DEF DeleteQuery
  <1>4. ASSUME NEW q \in Queries, GetQueryResult(q) PROVE QueryInv'
    <2>1. PICK w : w = WaitAndGetResult(ctx, q) OBVIOUS
    <2>2. Ready(w, n) BY <1>0, <2>1, WaitAndGetKeeps
    <2>. QED BY <1>4, <1>a, <2>1, <2>2 DEF GetQueryResult
  <1>5. ASSUME NEW q \in Queries, IsResultAvailable(q) PROVE QueryInv'
    <2>1. PICK w : w = FlushCommandBuffer(ctx) OBVIOUS
    <2>2. Ready(w, n) BY <1>0, <2>1, FlushIsReady
    <2>. QED BY <1>5, <1>a, <2>1, <2>2 DEF IsResultAvailable
  <1>6. ASSUME NEW visible \in BOOLEAN, NEW offset \in UniformOffsets, Draw(visible, offset)
        PROVE  QueryInv'
    <2>0. offset \in {"unused", "aligned"} BY QueryAssumption
    <2>1. PICK u : u = SetupDraw(ctx, offset) OBVIOUS
    <2>2. Ready(u, n) /\ u.enc.recording BY <1>0, <2>0, <2>1, SetupKeeps
    <2>3. PICK w : w = EncodeDraw(u, visible) OBVIOUS
    <2>4. Ready(w, n)
      <3>1. Ready(u, n) BY <2>2
      <3>2. u.enc.recording BY <2>2
      <3>3. n \in Nat BY <1>0
      <3>. QED BY <2>3, <3>1, <3>2, <3>3, DrawIsReady
    <2>5. Become(w) BY <1>6, <2>1, <2>3 DEF Draw
    <2>6. CASE ctx.active = NoQuery
      <3>1. UNCHANGED gl BY <1>6, <2>6 DEF Draw
      <3>. QED BY <1>a, <2>4, <2>5, <3>1
    <2>7. CASE ctx.active # NoQuery
      <3>1. PICK q \in Queries : q = ctx.active BY <1>0, <2>7, SteadyParts
      <3>2. gl.expected[q] \in Expected BY <1>0 DEF Calls
      <3>3. PICK e : e = Seen(gl.expected[q], visible) OBVIOUS
      <3>4. e \in Expected BY <3>2, <3>3 DEF Seen, Expected
      <3>5. gl' = [gl EXCEPT !.expected[q] = e] BY <1>6, <2>7, <3>1, <3>3 DEF Draw
      <3>. QED BY <1>b, <2>4, <2>5, <3>4, <3>5
    <2>. QED BY <2>6, <2>7
  <1>7. ASSUME Clear PROVE QueryInv'
    <2>1. PICK w : w = ClearWithDraw(ctx) OBVIOUS
    <2>2. Ready(w, n) BY <1>0, <1>7, <2>1, ClearWithDrawKeeps DEF Clear
    <2>. QED BY <1>7, <1>a, <2>1, <2>2 DEF Clear
  <1>8. ASSUME EndPass PROVE QueryInv'
    <2>1. PICK w : w = EndEncoding(ctx) OBVIOUS
    <2>2. Ready(w, n) BY <1>0, <2>1, EndIsReady
    <2>. QED BY <1>8, <1>a, <2>1, <2>2 DEF EndPass
  <1>9. ASSUME StartPass PROVE QueryInv'
    <2>1. PICK w : w = GetRenderCommandEncoder(ctx) OBVIOUS
    <2>2. Ready(w, n) BY <1>0, <2>1, GetIsReady
    <2>. QED BY <1>9, <1>a, <2>1, <2>2 DEF StartPass
  <1>10. ASSUME Upload PROVE QueryInv'
    <2>1. PICK w : w = GetBlitCommandEncoder(ctx) OBVIOUS
    <2>2. Ready(w, n) BY <1>0, <2>1, GetIsReady
    <2>. QED BY <1>10, <1>a, <2>1, <2>2 DEF Upload
  <1>11. ASSUME Dispatch PROVE QueryInv'
    <2>1. PICK w : w = GetComputeCommandEncoder(ctx) OBVIOUS
    <2>2. Ready(w, n) BY <1>0, <2>1, GetIsReady
    <2>. QED BY <1>11, <1>a, <2>1, <2>2 DEF Dispatch
  <1>12. ASSUME GlFlush PROVE QueryInv'
    <2>1. PICK w : w = FlushCommandBuffer(ctx) OBVIOUS
    <2>2. Ready(w, n) BY <1>0, <2>1, FlushIsReady
    <2>. QED BY <1>12, <1>a, <2>1, <2>2 DEF GlFlush
  <1>13. ASSUME Present PROVE QueryInv'
    <2>1. PICK w : w = Commit(EndEncoding(EnsureCommandBufferValid(ctx))) OBVIOUS
    <2>2. Ready(w, n) BY <1>0, <2>1, PresentKeeps
    <2>. QED BY <1>13, <1>a, <2>1, <2>2 DEF Present
  <1>14. ASSUME FenceSync PROVE QueryInv'
    <2>1. PICK w : w = QueueEventSignal(EnsureCommandBufferValid(ctx), n + 1) OBVIOUS
    <2>2. Ready(w, n + 1) BY <1>0, <2>1, FenceKeeps
    <2>3. ctx' = w BY <1>14, <2>1 DEF FenceSync, Become
    <2>4. PICK m \in Nat : m = n + 1 BY <1>0
    <2>5. gl' = [gl EXCEPT !.fences = m] BY <1>14, <2>4 DEF FenceSync
    <2>6. gl' \in Calls /\ gl'.fences = m BY <1>0, <2>5 DEF Calls
    <2>. QED BY <2>2, <2>3, <2>4, <2>6 DEF QueryInv
  <1>15. ASSUME NEW fence \in 1..MaxFences, WaitSync(fence) PROVE QueryInv'
    <2>1. PICK w : w = ServerWaitEvent(EndEncoding(EnsureCommandBufferValid(ctx)), fence) OBVIOUS
    <2>2. fence \in 1..n BY <1>0, <1>15, QueryAssumption DEF WaitSync
    <2>3. Ready(w, n) BY <1>0, <2>1, <2>2, WaitIsReady
    <2>4. ctx' = w BY <1>15, <2>1 DEF WaitSync, Become
    <2>5. PICK m \in Nat : m = gl.waits + 1 BY <1>0 DEF Calls
    <2>6. gl' = [gl EXCEPT !.waits = m] BY <1>15, <2>5 DEF WaitSync
    <2>7. gl' \in Calls /\ gl'.fences = n BY <1>0, <2>6 DEF Calls
    <2>. QED BY <2>3, <2>4, <2>7 DEF QueryInv
  <1>16. ASSUME Complete PROVE QueryInv'
    <2>1. PICK w : w = AdvanceTo(ctx, ctx.done + 1) OBVIOUS
    <2>2. ctx \in ContextStates /\ ctx.cb.serial \in Nat BY <1>0, SteadyParts
    <2>3. ctx.done \in Nat BY <2>2, Parts
    <2>4. ctx.done < ctx.cb.serial BY <1>16, <2>2, <2>3 DEF Complete, Committed
    <2>5. ctx.done + 1 \in Nat /\ ctx.done + 1 <= ctx.cb.serial BY <2>2, <2>3, <2>4
    <2>6. Ready(w, n) BY <1>0, <2>1, <2>5, AdvanceKeeps
    <2>. QED BY <1>16, <1>a, <2>1, <2>6 DEF Complete
  <1>17. CASE UNCHANGED vars BY <1>17 DEF vars, QueryInv
  <1>. QED BY <1>1, <1>2, <1>3, <1>4, <1>5, <1>6, <1>7, <1>8, <1>9, <1>10, <1>11, <1>12, <1>13,
              <1>14, <1>15, <1>16, <1>17 DEF Next

\* A context is ready between calls, whatever the calls were: the encoders agree
\* with the command buffer, the slots are those of the pass being recorded, and
\* the fences are signalled or pending.
THEOREM ContextsAreReady ==
    ASSUME "unaligned" \notin UniformOffsets, ~FullPoolRestart
    PROVE  Spec => []QueryInv
  <1>. QED BY InitReady, StepReady, PTL DEF Spec

\* The invariant is stronger than the properties.
LEMMA ReadyMeans ==
    ASSUME QueryInv
    PROVE  TypeOK /\ EncodingRules /\ FencesAreSignalled /\ WaitsFollowSignals
  <1>0. gl \in Calls /\ Ready(ctx, gl.fences) /\ gl.fences \in Nat BY DEF QueryInv, Calls
  <1>1. /\ Steady(ctx, gl.fences) /\ ctx \in ContextStates /\ Encoding(ctx, gl.fences) /\ Taken(ctx)
        /\ Past(ctx) /\ ctx.cb.serial \in Nat /\ ctx.enc.mode \in 0..MaxSlots
        /\ ctx.active \in Queries \cup {NoQuery}
    BY <1>0, SteadyParts DEF Ready
  <1>2. EncodersAgree(ctx) /\ FencesKept(ctx, gl.fences) /\ ctx.done \in Nat /\ ctx.failed = {}
    BY <1>1, Parts DEF Encoding
  <1>3. TypeOK
    <2>1. ctx.done \in 0..ctx.cb.serial BY <1>1, <1>2 DEF Past
    <2>2. gl.expected \in [Queries -> Expected] BY <1>0 DEF Calls
    <2>3. Len(ctx.allocated) <= MaxSlots BY <1>1 DEF Taken
    <2>. QED BY <1>1, <1>2, <2>1, <2>2, <2>3 DEF TypeOK, EncodersAgree
  <1>4. EncodingRules BY <1>2 DEF EncodingRules
  <1>5. FencesAreSignalled
    <2>1. ctx.cb.pending # <<>> => ctx.cb.open /\ ctx.cb.active = "render" BY <1>2 DEF EncodersAgree
    <2>. QED BY <1>2, <2>1 DEF FencesAreSignalled, FencesKept, Ordered
  <1>6. WaitsFollowSignals BY <1>2 DEF WaitsFollowSignals, FencesKept, Ordered, WaitsFollow
  <1>. QED BY <1>3, <1>4, <1>5, <1>6

\* TypeOK: the flags of the encoders agree with the encoder that the command
\* buffer has to end (mActiveCommandEncoder), whatever ended and started them.
THEOREM TypesOfContexts ==
    ASSUME "unaligned" \notin UniformOffsets, ~FullPoolRestart
    PROVE  Spec => []TypeOK
  <1>. QED BY ContextsAreReady, ReadyMeans, PTL

\* EncodingRules: no assertion of the code about encoders and slots fails, there
\* is never a second open encoder, an event inside one or a slot that a pass uses
\* twice.
THEOREM RulesAreKept ==
    ASSUME "unaligned" \notin UniformOffsets, ~FullPoolRestart
    PROVE  Spec => []EncodingRules
  <1>. QED BY ContextsAreReady, ReadyMeans, PTL

\* FencesAreSignalled: a fence is signalled once, in the order of glFenceSync, or
\* waits in an open command buffer for the end of its pass.
THEOREM EveryFenceIsSignalled ==
    ASSUME "unaligned" \notin UniformOffsets, ~FullPoolRestart
    PROVE  Spec => []FencesAreSignalled
  <1>. QED BY ContextsAreReady, ReadyMeans, PTL

\* WaitsFollowSignals: the GPU never waits for a signal encoded behind the wait.
THEOREM NoWaitBeforeItsSignal ==
    ASSUME "unaligned" \notin UniformOffsets, ~FullPoolRestart
    PROVE  Spec => []WaitsFollowSignals
  <1>. QED BY ContextsAreReady, ReadyMeans, PTL
=============================================================================
