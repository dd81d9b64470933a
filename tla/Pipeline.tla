------------------------------ MODULE Pipeline ------------------------------
(***************************************************************************)
(* From a stored ingestion to the context view: the relay that publishes   *)
(* outbox rows (OutboxRelay) and the consumers of the topic (Projection),  *)
(* composed over the topic they share.  Of the write path only its outcome *)
(* appears, an outbox row that commits together with its resource          *)
(* (AllOrNothing in Ingest).                                               *)
(*                                                                         *)
(* One identifier stands for a resource, its outbox row and its event.     *)
(***************************************************************************)
EXTENDS Naturals, Sequences, FiniteSets

CONSTANTS Id,                                     \* resources
          Relay, Poison, BatchSize, MaxStops,     \* of the relay
          Consumer, Column, NoRow,                \* of the projection
          MaxJoins, MaxFailures, MaxReplays,
          Foreign,    \* messages of other producers
          MaxForeign, \* bound: such messages in the topic
          MaxCopies   \* bound: copies of one event that the topic keeps

ASSUME PoisonAssumption == Poison \subseteq Id
ASSUME CopiesAssumption == MaxForeign \in Nat /\ MaxCopies \in Nat \ {0}
ASSUME BoundAssumption ==
    /\ BatchSize \in Nat \ {0} /\ MaxStops \in Nat
    /\ MaxJoins \in Nat /\ MaxFailures \in Nat /\ MaxReplays \in Nat

VARIABLES row, queue, appended, mode, relayPc, found, batch, stops,
          view, ledger, dead, log, committed, owner, position, member, pc,
          existing, written, reset, dropped, skipped, joined, joins, failures, replays

relayVars == <<row, queue, appended, mode, relayPc, found, batch, stops>>
topicVars == <<view, ledger, dead, log, committed, owner, position, member, pc,
               existing, written, reset, dropped, skipped, joined, joins, failures,
               replays>>
vars == <<relayVars, topicVars>>

Relays == INSTANCE OutboxRelay WITH pc <- relayPc, Event <- Id
Consumers == INSTANCE Projection
             WITH Entity <- Id, EventId <- Id \cup {m.id : m \in Foreign},
                  Logs <- {}, MaxLog <- MaxCopies * Cardinality(Id) + MaxForeign

ASSUME NoRowAssumption == NoRow \notin Consumers!ViewRow

\* Only the relays publish events that create or update resources.
ASSUME ForeignAssumption ==
    \A m \in Foreign : m \in Consumers!Message /\ ~Consumers!Changes(m)

Init == Relays!Init /\ Consumers!Init
-----------------------------------------------------------------------------
RelayWorks ==
    /\ \/ \E i \in Id : Relays!Insert(i) \/ Relays!ComeDue(i)
       \/ \E r \in Relay : Relays!Work(r)
    /\ UNCHANGED topicVars

\* The event an ingestion emits: it creates the row of its resource.
EventOf(i) == [id |-> i, entity |-> i, kind |-> "create", at |-> 1, sets |-> {}]
Copies(m) == Cardinality({o \in DOMAIN log : log[o] = m})

\* Bug: the publisher does not wait for the broker to store the event.
Bug_Deliver(r) == Relays!Deliver(r) /\ UNCHANGED topicVars

\* The relay publishes an event: the broker appends it to the topic.  Copies
\* beyond the bound are left out, being handled as those before them.
Deliver(r) ==
    /\ Relays!Deliver(r)
    /\ LET m == EventOf(Head(batch[r]))
       IN  IF Copies(m) < MaxCopies THEN Consumers!Produce(m) ELSE UNCHANGED topicVars

\* Another producer appends a message to the topic.
ProduceForeign(m) ==
    /\ Cardinality({o \in DOMAIN log : log[o] \in Foreign}) < MaxForeign
    /\ Consumers!Produce(m)
    /\ UNCHANGED relayVars

Consume == Consumers!Consume /\ UNCHANGED relayVars

Next ==
    \/ RelayWorks
    \/ \E r \in Relay : Deliver(r)
    \/ \E m \in Foreign : ProduceForeign(m)
    \/ Consume

Spec == Init /\ [][Next]_vars

\* The fairness of the components, and nothing of clients or producers.
FairSpec == Spec /\ Relays!Fairness /\ Consumers!Fairness
-----------------------------------------------------------------------------
\* The event of a resource is a dead letter, or is passed over by a consumer
\* that starts at the end of the topic, or is stuck behind a message that can
\* be neither applied nor dead-lettered.
GivenUp(i) ==
    \E o \in DOMAIN log : log[o].id = i /\ (o \in dead \cup skipped \/ Consumers!Blocked(o))

\* An outbox and a consumer lag that look drained do not deceive: when a row is
\* marked published and the group has committed the whole topic, the event is
\* in the view or there is a trace of why not, whatever was retried, published
\* twice, redelivered, failed or stopped on the way.
DrainedIsProjected ==
    \A i \in Id : row[i] = "published" /\ committed = Len(log)
                    => i \in ledger \/ GivenUp(i) \/ replays > 0

\* What a client was told was stored shows up in the context view in the end,
\* or the system has a trace of why not: an outbox row left behind by a relay
\* that stopped, a dead letter, a skipped or a blocking message.
StoredIsProjected ==
    \A i \in Id \ Poison :
        row[i] = "pending"
            ~> i \in ledger \/ Relays!Orphaned(i) \/ GivenUp(i) \/ replays > 0

\* Every message that reaches the topic, from the relay or from elsewhere, is
\* accounted for: no failure, crash, rebalance or poison message holds up the
\* partition for ever, except one that cannot be dead-lettered (Blocked).
EveryMessageAccounted == Consumers!EveryMessageAccounted
=============================================================================
