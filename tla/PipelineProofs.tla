--------------------------- MODULE PipelineProofs ---------------------------
(***************************************************************************)
(* Proofs about Pipeline, from the proofs of its components: what holds of *)
(* the relays alone holds of them here, since all the others leave their   *)
(* state alone; each step of the consumers preserves the invariant of      *)
(* Projection, and so does each event the relays append to the topic.      *)
(***************************************************************************)
EXTENDS Pipeline, FiniteSetTheorems, TLAPS

RP == INSTANCE OutboxRelayProofs WITH pc <- relayPc, Event <- Id
CP == INSTANCE ProjectionProofs
      WITH Entity <- Id, EventId <- Id \cup {m.id : m \in Foreign},
           Logs <- {}, MaxLog <- MaxCopies * Cardinality(Id) + MaxForeign

LEMMA RelayAssumptions == RP!PoisonAssumption /\ RP!BoundAssumption
BY PoisonAssumption, BoundAssumption

LEMMA ConsumerAssumptions ==
    CP!LogAssumption /\ CP!EventAssumption /\ CP!NoRowAssumption /\ CP!BoundAssumption
<1>1. CP!LogAssumption /\ CP!EventAssumption
  OBVIOUS
<1>2. CP!NoRowAssumption
  BY NoRowAssumption DEF CP!ViewRow, Consumers!ViewRow
<1>3. CP!BoundAssumption
  BY BoundAssumption
<1> QED BY <1>1, <1>2, <1>3
-----------------------------------------------------------------------------
(* The components, as Pipeline and as the proofs about them name them. *)

LEMMA SameConsume ==
    ASSUME Consumers!Consume
    PROVE  CP!Consume
BY DEF Consumers!Join, CP!Join, Consumers!Leave, CP!Leave, Consumers!Crash, CP!Crash,
         Consumers!CommitOffset, CP!CommitOffset, Consumers!Current, CP!Current,
         Consumers!Invalid, CP!Invalid, Consumers!InTransaction, CP!InTransaction,
         Consumers!HoldsView, CP!HoldsView, Consumers!HoldsLedger, CP!HoldsLedger, Consumers!Go,
         CP!Go, Consumers!EndTransaction, CP!EndTransaction, Consumers!Drop, CP!Drop,
         Consumers!Fetch, CP!Fetch, Consumers!Duplicate, CP!Duplicate, Consumers!Handle,
         CP!Handle, Consumers!HandleOther, CP!HandleOther, Consumers!Updatable, CP!Updatable,
         Consumers!Find, CP!Find, Consumers!FindNoneOrNewer, CP!FindNoneOrNewer,
         Consumers!RowLocked, CP!RowLocked, Consumers!Newer, CP!Newer, Consumers!NewRow,
         CP!NewRow, Consumers!Upsert, CP!Upsert, Consumers!UpsertNewer, CP!UpsertNewer,
         Consumers!Apply, CP!Apply, Consumers!Commit, CP!Commit, Consumers!CommitUnacknowledged,
         CP!CommitUnacknowledged, Consumers!Fail, CP!Fail, Consumers!DeadLetter, CP!DeadLetter,
         Consumers!DeadLetterFails, CP!DeadLetterFails, Consumers!Refresh, CP!Refresh,
         Consumers!RefreshFails, CP!RefreshFails, Consumers!TruncateViews, CP!TruncateViews,
         Consumers!ClearProjectionState, CP!ClearProjectionState, Consumers!ResetFails,
         CP!ResetFails, Consumers!Work, CP!Work, Consumers!Consume, CP!Consume,
         Consumers!Changes, CP!Changes, Consumers!transaction, CP!transaction, Consumers!group,
         CP!group, Consumers!database, CP!database, Consumers!script, CP!script

LEMMA SameProduce ==
    ASSUME NEW m, Consumers!Produce(m)
    PROVE  CP!Produce(m)
BY DEF Consumers!Produce, CP!Produce, Consumers!transaction, CP!transaction, Consumers!group,
         CP!group, Consumers!database, CP!database, Consumers!script, CP!script

LEMMA SameClaim ==
    ASSUME NEW r \in Relay, Relays!Claim(r)
    PROVE  RP!Claim(r)
<1>1. \A s : Relays!Elements(s) = RP!Elements(s)
  BY DEF Relays!Elements, RP!Elements
<1>2. ASSUME NEW s, NEW S PROVE Relays!Without(s, S) = RP!Without(s, S)
  BY DEF Relays!Without, RP!Without, Relays!Cardinality, RP!Cardinality
<1>3. [s \in Relay |-> IF s = r THEN <<>> ELSE Relays!Without(found[s], Relays!Elements(batch[r]))]
      = [s \in Relay |-> IF s = r THEN <<>> ELSE RP!Without(found[s], RP!Elements(batch[r]))]
  BY <1>1, <1>2
<1>4. [i \in Id |-> IF i \in Relays!Elements(batch[r]) THEN "processing" ELSE row[i]]
      = [i \in Id |-> IF i \in RP!Elements(batch[r]) THEN "processing" ELSE row[i]]
  BY <1>1
<1> QED BY <1>1, <1>2, <1>3, <1>4, Zenon DEF Relays!Claim, RP!Claim

LEMMA SameWork ==
    ASSUME NEW r \in Relay, Relays!Work(r)
    PROVE  RP!Work(r)
<1>1. CASE Relays!Claim(r)
  BY <1>1, SameClaim DEF RP!Work
<1>2. CASE ~Relays!Claim(r)
  BY <1>2
     DEF Relays!Work, RP!Work,
         Relays!Tick, RP!Tick, Relays!Locked, RP!Locked, Relays!LockRow, RP!LockRow,
         Relays!Elements, RP!Elements, Relays!Advance, RP!Advance, Relays!PublishFails,
         RP!PublishFails, Relays!MarkPublished, RP!MarkPublished, Relays!MarkPublishedFails,
         RP!MarkPublishedFails, Relays!MarkFailed, RP!MarkFailed, Relays!Stop, RP!Stop,
         Relays!Halt, RP!Halt, Relays!Exit, RP!Exit, Relays!Crash, RP!Crash, Relays!Start,
         RP!Start
<1> QED BY <1>1, <1>2

LEMMA SameDeliver ==
    ASSUME NEW r \in Relay, Relays!Deliver(r)
    PROVE  RP!Deliver(r)
BY DEF Relays!Publish, RP!Publish, Relays!PublishUnacknowledged, RP!PublishUnacknowledged,
         Relays!Deliver, RP!Deliver

LEMMA SameRows ==
    ASSUME NEW i \in Id, Relays!Insert(i) \/ Relays!ComeDue(i)
    PROVE  RP!Insert(i) \/ RP!ComeDue(i)
BY DEF Relays!Insert, RP!Insert, Relays!ComeDue, RP!ComeDue, Relays!Elements, RP!Elements,
         Relays!relayVars, RP!relayVars

\* What the others do is no step of the relays.
LEMMA RelaysStep ==
    ASSUME [Next]_vars
    PROVE  [RP!Next]_RP!vars
<1>1. CASE RelayWorks \/ \E r \in Relay : Deliver(r)
  BY <1>1, SameRows, SameWork, SameDeliver DEF RelayWorks, Deliver, RP!Next
<1>2. CASE UNCHANGED relayVars
  BY <1>2 DEF relayVars, RP!vars
<1> QED BY <1>1, <1>2 DEF Next, vars, ProduceForeign, Consume

LEMMA SameInit == Init => RP!Init /\ CP!Init
BY DEF Init, Relays!Init, RP!Init, Consumers!Init, CP!Init
-----------------------------------------------------------------------------
(* The topic between the relays and the consumers. *)

\* The topic holds the events of the relays, each with its one content, and
\* messages of others; consumers drop none of the former.
TopicInv ==
    /\ \A o \in DOMAIN log : log[o] \in Foreign \/ \E i \in Id : log[o] = EventOf(i)
    /\ \A i \in appended : \E o \in DOMAIN log : log[o] = EventOf(i)
    /\ \A o \in dropped : log[o] \in Foreign

PipelineInv == RP!RelayInv /\ CP!BaseInv /\ CP!PassedInv /\ CP!ViewInv /\ TopicInv

LEMMA EventType ==
    ASSUME NEW i \in Id
    PROVE  /\ EventOf(i) \in CP!Message /\ EventOf(i).id = i /\ EventOf(i).at = 1
           /\ EventOf(i).kind = "create" /\ CP!Changes(EventOf(i))
BY DEF EventOf, CP!Message, CP!MessageKind, CP!Changes

LEMMA ForeignType ==
    ASSUME NEW m \in Foreign
    PROVE  m \in CP!Message /\ ~CP!Changes(m)
BY ForeignAssumption
   DEF Consumers!Message, Consumers!MessageKind, Consumers!Changes,
       CP!Message, CP!MessageKind, CP!Changes

\* The domain of the topic, and how it grows.
LEMMA TopicGrows ==
    ASSUME CP!BaseInv
    PROVE  /\ DOMAIN log = CP!Offset /\ dropped \subseteq CP!Offset
           /\ \A m \in CP!Message : CP!Produce(m) =>
                /\ log' \in Seq(CP!Message) /\ DOMAIN log' = CP!Offset \cup {Len(log) + 1}
                /\ log'[Len(log) + 1] = m /\ \A o \in CP!Offset : log'[o] = log[o]
                /\ dropped' = dropped
<1>1. log \in Seq(CP!Message) /\ dropped \subseteq CP!Offset
  BY DEF CP!BaseInv, CP!TypeOK
<1>2. ASSUME NEW m \in CP!Message, CP!Produce(m)
      PROVE  /\ log' \in Seq(CP!Message) /\ DOMAIN log' = CP!Offset \cup {Len(log) + 1}
             /\ log'[Len(log) + 1] = m /\ \A o \in CP!Offset : log'[o] = log[o]
             /\ dropped' = dropped
  BY <1>1, <1>2 DEF CP!Produce, CP!Offset
<1>3. DOMAIN log = CP!Offset
  BY <1>1 DEF CP!Offset
<1> QED BY <1>1, <1>2, <1>3

\* A message of the topic.
Known(m) == m \in Foreign \/ \E i \in Id : m = EventOf(i)

LEMMA KnownType ==
    ASSUME NEW m, Known(m)
    PROVE  m \in CP!Message
BY EventType, ForeignType DEF Known

\* Messages of the topic that write the view differ by their identifiers.
LEMMA KnownEvents ==
    ASSUME NEW m, NEW n, Known(m), Known(n), CP!Changes(m), CP!Changes(n), m.id = n.id
    PROVE  m = n
<1>1. PICK i \in Id : m = EventOf(i)
  BY ForeignType DEF Known
<1>2. PICK j \in Id : n = EventOf(j)
  BY ForeignType DEF Known
<1> QED BY <1>1, <1>2, EventType

\* A known message joins the topic.
LEMMA ProduceStep ==
    ASSUME PipelineInv, NEW m, Known(m), Consumers!Produce(m)
    PROVE  /\ CP!BaseInv' /\ CP!PassedInv' /\ CP!ViewInv'
           /\ \A o \in DOMAIN log' : Known(log'[o])
           /\ \E o \in DOMAIN log' : log'[o] = m
           /\ \A o \in DOMAIN log : o \in DOMAIN log' /\ log'[o] = log[o]
           /\ dropped' = dropped /\ dropped \subseteq DOMAIN log
<1> USE ConsumerAssumptions
<1>1. m \in CP!Message /\ CP!Produce(m) /\ CP!BaseInv /\ CP!PassedInv /\ CP!ViewInv
  BY KnownType, SameProduce DEF PipelineInv
<1>2. /\ DOMAIN log = CP!Offset /\ dropped \subseteq CP!Offset
      /\ log' \in Seq(CP!Message) /\ DOMAIN log' = CP!Offset \cup {Len(log) + 1}
      /\ log'[Len(log) + 1] = m /\ \A o \in CP!Offset : log'[o] = log[o]
      /\ dropped' = dropped
  BY <1>1, TopicGrows
<1>3. \A o \in DOMAIN log' : Known(log'[o])
  BY <1>2 DEF PipelineInv, TopicInv, Known
<1>4. CP!OneEvent'
  <2>1. CP!Offset' = DOMAIN log'
    BY <1>2 DEF CP!Offset
  <2> SUFFICES ASSUME NEW i \in DOMAIN log', NEW j \in DOMAIN log', log'[i].id = log'[j].id,
                      CP!Changes(log'[i]), CP!Changes(log'[j])
               PROVE  log'[i] = log'[j]
    BY <2>1 DEF CP!OneEvent, CP!Changes
  <2> QED BY <1>3, KnownEvents
<1>5. CP!BaseInv'
  BY <1>1, CP!ProduceInv
<1>6. CP!PassedInv'
  BY <1>1, <1>5, CP!PassedByProduce
<1>7. CP!ViewInv'
  BY <1>1, <1>4, CP!ViewByProduce
<1> QED BY <1>2, <1>3, <1>5, <1>6, <1>7

LEMMA TopicStays ==
    ASSUME PipelineInv, UNCHANGED topicVars
    PROVE  CP!BaseInv' /\ CP!PassedInv' /\ CP!ViewInv'
<1>1. UNCHANGED CP!vars
  BY DEF topicVars, CP!vars
<1> QED BY <1>1, ConsumerAssumptions, CP!StutterInv DEF PipelineInv

\* The invariant of the relays does not depend on the others.
LEMMA RelayInvStep ==
    ASSUME PipelineInv, [Next]_vars
    PROVE  RP!RelayInv'
BY RelaysStep, RelayAssumptions, RP!StepInv DEF PipelineInv

\* A consumer drops no event of a relay: these create rows, and no row of the
\* view is newer.
LEMMA ConsumeTopic ==
    ASSUME PipelineInv, Consume
    PROVE  /\ TopicInv' /\ CP!BaseInv' /\ CP!PassedInv' /\ CP!ViewInv'
<1> USE ConsumerAssumptions
<1>1. CP!BaseInv /\ CP!PassedInv /\ CP!ViewInv /\ CP!Consume /\ TopicInv /\ appended' = appended
  BY SameConsume DEF PipelineInv, Consume, relayVars
<1>2. CP!BaseInv' /\ CP!PassedInv' /\ CP!ViewInv'
  BY <1>1, CP!ConsumeBase, CP!ConsumePassed, CP!ConsumeView
<1>3. /\ log' = log
      /\ \A i \in dropped' : i \in dropped \/ \E c \in Consumer :
           /\ i = position[c] + 1 /\ pc[c] # "idle"
           /\ CP!Current(c).kind \in {"other", "update"} \/ CP!Newer(c)
  BY <1>1, CP!ConsumeDrops
<1>4. ASSUME NEW c \in Consumer, pc[c] # "idle",
             CP!Current(c).kind \in {"other", "update"} \/ CP!Newer(c)
      PROVE  log[position[c] + 1] \in Foreign
  <2>1. position[c] + 1 \in DOMAIN log /\ CP!Current(c) = log[position[c] + 1]
    BY <1>1, <1>4, CP!OffsetType, TopicGrows DEF CP!Current
  <2>2. ASSUME NEW i \in Id, log[position[c] + 1] = EventOf(i) PROVE FALSE
    <3>1. CP!Current(c).kind = "create" /\ CP!Current(c).at = 1
      BY <2>1, <2>2, EventType
    <3>2. PICK e : view[e] # NoRow /\ view[e].at > 1 /\ e = CP!Current(c).entity
      BY <1>4, <3>1 DEF CP!Newer
    <3>3. e \in Id
      BY <2>1, <2>2, <3>2 DEF EventOf
    <3>4. PICK o \in CP!Applied(e) : view[e].at = log[o].at
      BY <1>1, <3>2, <3>3 DEF CP!ViewInv, CP!ViewMatchesNewest
    <3>5. o \in DOMAIN log /\ CP!Changes(log[o])
      BY <1>1, <3>4, TopicGrows DEF CP!Applied
    <3>6. log[o].at = 1
      BY <1>1, <3>5, ForeignType, EventType DEF TopicInv
    <3> QED BY <3>2, <3>4, <3>6
  <2> QED BY <1>1, <2>1, <2>2 DEF TopicInv
<1>5. \A o \in dropped' : log[o] \in Foreign
  BY <1>1, <1>3, <1>4 DEF TopicInv
<1> QED BY <1>1, <1>2, <1>3, <1>5 DEF TopicInv

\* A relay appends the event of its row, unless there are copies enough of it.
LEMMA DeliverTopic ==
    ASSUME PipelineInv, NEW r \in Relay, Deliver(r)
    PROVE  /\ TopicInv' /\ CP!BaseInv' /\ CP!PassedInv' /\ CP!ViewInv'
<1>1. PICK i \in Id : i = Head(batch[r]) /\ appended' = appended \cup {i}
  <2>1. /\ relayPc[r] = "publish" /\ appended' = appended \cup {Head(batch[r])}
    BY DEF Deliver, Relays!Deliver, Relays!Publish, Relays!PublishUnacknowledged
  <2>2. batch[r] \in Seq(Id) /\ batch[r] # <<>>
    BY <2>1 DEF PipelineInv, RP!RelayInv, RP!TypeOK, RP!RelayRows, RP!InHands
  <2> QED BY <2>1, <2>2
<1>2. Known(EventOf(i))
  BY DEF Known
<1>3. CASE Copies(EventOf(i)) < MaxCopies
  <2>1. Consumers!Produce(EventOf(i))
    BY <1>1, <1>3 DEF Deliver
  <2>2. /\ CP!BaseInv' /\ CP!PassedInv' /\ CP!ViewInv'
        /\ \A o \in DOMAIN log' : Known(log'[o])
        /\ \E o \in DOMAIN log' : log'[o] = EventOf(i)
        /\ \A o \in DOMAIN log : o \in DOMAIN log' /\ log'[o] = log[o]
        /\ dropped' = dropped /\ dropped \subseteq DOMAIN log
    BY <1>2, <2>1, ProduceStep
  <2> QED BY <1>1, <2>2 DEF PipelineInv, TopicInv, Known, EventOf
<1>4. CASE ~(Copies(EventOf(i)) < MaxCopies)
  <2>1. UNCHANGED topicVars
    BY <1>1, <1>4 DEF Deliver
  <2>2. {o \in DOMAIN log : log[o] = EventOf(i)} # {}
    BY <1>4, CopiesAssumption, FS_EmptySet DEF Copies
  <2>3. TopicInv'
    BY <1>1, <2>1, <2>2 DEF PipelineInv, TopicInv, topicVars, EventOf
  <2> QED BY <2>1, <2>3, TopicStays
<1> QED BY <1>3, <1>4

LEMMA ForeignTopic ==
    ASSUME PipelineInv, NEW m \in Foreign, ProduceForeign(m)
    PROVE  /\ TopicInv' /\ CP!BaseInv' /\ CP!PassedInv' /\ CP!ViewInv'
<1>1. Known(m) /\ Consumers!Produce(m) /\ appended' = appended
  BY DEF Known, ProduceForeign, relayVars
<1>2. /\ CP!BaseInv' /\ CP!PassedInv' /\ CP!ViewInv'
      /\ \A o \in DOMAIN log' : Known(log'[o])
      /\ \A o \in DOMAIN log : o \in DOMAIN log' /\ log'[o] = log[o]
      /\ dropped' = dropped /\ dropped \subseteq DOMAIN log
  BY <1>1, ProduceStep
<1> QED BY <1>1, <1>2 DEF PipelineInv, TopicInv, Known, EventOf

LEMMA InitInv ==
    ASSUME Init
    PROVE  PipelineInv
<1>1. RP!RelayInv
  BY SameInit, RelayAssumptions, RP!InitInv
<1>2. CP!BaseInv /\ CP!PassedInv /\ CP!ViewInv
  BY SameInit, ConsumerAssumptions, CP!InitInv DEF CP!ProjectionInv
<1>3. appended = {} /\ dropped = {} /\ log = <<>>
  BY DEF Init, Relays!Init, Consumers!Init
<1>4. TopicInv
  BY <1>3 DEF TopicInv
<1> QED BY <1>1, <1>2, <1>4 DEF PipelineInv

LEMMA StepInv ==
    ASSUME PipelineInv, [Next]_vars
    PROVE  PipelineInv'
<1>1. CASE UNCHANGED topicVars /\ appended' = appended
  <2>1. TopicInv'
    BY <1>1 DEF PipelineInv, TopicInv, topicVars, EventOf
  <2> QED BY <1>1, <2>1, TopicStays, RelayInvStep DEF PipelineInv
<1>2. CASE RelayWorks
  <2>1. UNCHANGED topicVars
    BY <1>2 DEF RelayWorks
  <2>2. appended' = appended
    BY <1>2 DEF RelayWorks, Relays!Insert, Relays!ComeDue, Relays!Work, Relays!Tick,
      Relays!LockRow, Relays!Claim, Relays!Advance, Relays!PublishFails,
      Relays!MarkPublished, Relays!MarkPublishedFails, Relays!MarkFailed, Relays!Stop,
      Relays!Halt, Relays!Exit, Relays!Crash, Relays!Start
  <2> QED BY <1>1, <2>1, <2>2
<1>3. CASE UNCHANGED vars
  BY <1>1, <1>3 DEF vars, relayVars
<1> QED BY <1>2, <1>3, RelayInvStep, ConsumeTopic, DeliverTopic, ForeignTopic
        DEF Next, PipelineInv
-----------------------------------------------------------------------------
(* The theorems. *)

\* In every reachable state relays, topic and consumers agree as the parts of
\* the invariant say.
THEOREM PipelineInvCorrect == Spec => []PipelineInv
BY InitInv, StepInv, PTL DEF Spec

\* The relays of the pipeline are those of OutboxRelay: whatever holds of these
\* alone holds of them beside producers and consumers.
THEOREM RelaysImplemented == Spec => Relays!Spec
<1>1. Init => Relays!Init
  BY DEF Init
<1>2. [Next]_vars => [Relays!Next]_Relays!vars
  <2> SUFFICES ASSUME [Next]_vars PROVE [Relays!Next]_Relays!vars
    OBVIOUS
  <2>1. CASE RelayWorks \/ \E r \in Relay : Deliver(r)
    BY <2>1 DEF RelayWorks, Deliver, Relays!Next
  <2>2. CASE UNCHANGED relayVars
    BY <2>2 DEF relayVars, Relays!vars
  <2> QED BY <2>1, <2>2 DEF Next, vars, ProduceForeign, Consume
<1> QED BY <1>1, <1>2, PTL DEF Spec, Relays!Spec

\* Fed by relays that send events twice and late, the view still shows the
\* newest of the events recorded for each resource.
THEOREM ViewShowsNewest == Spec => []Consumers!ViewMatchesNewest
<1>1. PipelineInv => Consumers!ViewMatchesNewest
  BY DEF PipelineInv, CP!ViewInv, CP!ViewMatchesNewest, CP!Applied, CP!Newest, CP!Offset,
    CP!Changes, Consumers!ViewMatchesNewest, Consumers!Applied, Consumers!Newest,
    Consumers!Offset, Consumers!Changes
<1> QED BY <1>1, PipelineInvCorrect, PTL

\* A row that is marked published and a topic that is committed to its end do
\* not deceive: the event is recorded, or there is a trace of why not.
THEOREM DrainedMeansProjected == Spec => []DrainedIsProjected
<1>1. PipelineInv => DrainedIsProjected
  <2> SUFFICES ASSUME PipelineInv, NEW i \in Id, row[i] = "published", committed = Len(log),
                      ~(replays > 0), i \notin ledger
               PROVE  GivenUp(i)
    BY DEF DrainedIsProjected
  <2>1. i \in appended
    BY DEF PipelineInv, RP!RelayInv, RP!PublishedIsAppended
  <2>2. PICK o \in DOMAIN log : log[o] = EventOf(i)
    BY <2>1 DEF PipelineInv, TopicInv
  <2>3. o \in 1..committed
    BY <2>2, TopicGrows DEF PipelineInv, CP!Offset
  <2>4. replays = 0
    BY BoundAssumption DEF PipelineInv, CP!BaseInv, CP!TypeOK
  <2>5. log[o].id \in ledger \/ o \in dead \cup dropped \cup skipped
    BY <2>3, <2>4 DEF PipelineInv, CP!PassedInv, CP!NothingLost, CP!Accounted
  <2>6. o \notin dropped
    BY <2>2, EventType, ForeignType DEF PipelineInv, TopicInv
  <2> QED BY <2>2, <2>5, <2>6, EventType DEF GivenUp
<1> QED BY <1>1, PipelineInvCorrect, PTL
=============================================================================
