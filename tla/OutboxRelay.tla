---------------------------- MODULE OutboxRelay ----------------------------
(***************************************************************************)
(* The relays of ingest-api: each instance polls outbox_events, claims a   *)
(* batch of rows in a transaction, publishes them to Kafka one by one and  *)
(* records the outcome of each with a statement of its own.                *)
(*                                                                         *)
(* Time is abstracted to the order in which rows come due: the sequence    *)
(* queue holds the claimable rows by available_at, oldest first.  A row    *)
(* that failed is out of the queue until its backoff has passed, and then  *)
(* joins it at the end, since available_at is the moment it comes due.     *)
(***************************************************************************)
EXTENDS Naturals, Sequences, FiniteSets

CONSTANTS Relay,     \* instances of ingest-api, each with one OutboxRelay
          Event,     \* rows of outbox_events
          Poison,    \* events Kafka or the schema never accepts
          BatchSize, \* OUTBOX_BATCH_SIZE
          MaxStops   \* bound: instances that stop or crash

ASSUME PoisonAssumption == Poison \subseteq Event
ASSUME BoundAssumption == BatchSize \in Nat \ {0} /\ MaxStops \in Nat

VARIABLES row,      \* publish_status of each row
          queue,    \* the claimable rows, by available_at
          appended, \* events that are in their Kafka topic
          mode,     \* whether each instance runs
          pc,       \* where tick stands in each instance
          found,    \* rows the claiming select has still to lock
          batch,    \* rows locked, then claimed and not yet dealt with
          stops     \* instances stopped so far

relayVars == <<mode, pc, found, batch>>
vars == <<row, queue, appended, mode, pc, found, batch, stops>>

RowStatus == {"absent", "pending", "processing", "published", "failed"}
Elements(s) == {s[i] : i \in 1..Len(s)}

\* The elements of s that are not in S, in their order.
Without(s, S) ==
    LET kept == {i \in 1..Len(s) : s[i] \notin S}
        Rank(i) == Cardinality({j \in kept : j <= i})
    IN  [k \in 1..Cardinality(kept) |-> s[CHOOSE i \in kept : Rank(i) = k]]

TypeOK ==
    /\ row \in [Event -> RowStatus]
    /\ queue \in Seq(Event)
    /\ appended \subseteq Event
    /\ mode \in [Relay -> {"up", "stopping", "down"}]
    /\ pc \in [Relay -> {"idle", "lock", "publish", "mark", "fail"}]
    /\ found \in [Relay -> Seq(Event)]
    /\ batch \in [Relay -> Seq(Event)]
    /\ stops \in 0..MaxStops

Init ==
    /\ row = [e \in Event |-> "absent"]
    /\ queue = <<>>
    /\ appended = {}
    /\ mode = [r \in Relay |-> "up"]
    /\ pc = [r \in Relay |-> "idle"]
    /\ found = [r \in Relay |-> <<>>]
    /\ batch = [r \in Relay |-> <<>>]
    /\ stops = 0
-----------------------------------------------------------------------------
\* An ingestion commits a row.  Its available_at, taken before the insert,
\* may lie before those of rows that came due meanwhile.
Insert(e) ==
    /\ row[e] = "absent"
    /\ row' = [row EXCEPT ![e] = "pending"]
    /\ \E k \in 0..Len(queue) :
         queue' = SubSeq(queue, 1, k) \o <<e>> \o SubSeq(queue, k + 1, Len(queue))
    /\ UNCHANGED <<appended, relayVars, stops>>

\* Bug: rows are polled in the order of their creation.
Bug_ComeDue(e) ==
    /\ row[e] = "failed" /\ e \notin Elements(queue)
    /\ queue' = <<e>> \o queue
    /\ UNCHANGED <<row, appended, relayVars, stops>>

\* The available_at of a failed row passes.
ComeDue(e) ==
    /\ row[e] = "failed" /\ e \notin Elements(queue)
    /\ queue' = Append(queue, e)
    /\ UNCHANGED <<row, appended, relayVars, stops>>
-----------------------------------------------------------------------------
(* One tick of a relay. *)

\* The timer fires, the running flag is down, and the claiming transaction
\* takes its snapshot of the due rows.  A tick that finds none does nothing.
Tick(r) ==
    /\ mode[r] = "up" /\ pc[r] = "idle" /\ queue # <<>>
    /\ found' = [found EXCEPT ![r] = queue]
    /\ pc' = [pc EXCEPT ![r] = "lock"]
    /\ UNCHANGED <<row, queue, appended, mode, batch, stops>>

\* A row that the open claiming transaction of another relay has locked.
Locked(e, r) == \E s \in Relay \ {r} : pc[s] = "lock" /\ e \in Elements(batch[s])

\* select ... for update locks the next row of its snapshot, and waits while
\* it is locked; rows changed meanwhile have left found, see Claim.
LockRow(r) ==
    /\ pc[r] = "lock" /\ found[r] # <<>> /\ Len(batch[r]) < BatchSize
    /\ ~Locked(Head(found[r]), r)
    /\ batch' = [batch EXCEPT ![r] = Append(@, Head(found[r]))]
    /\ found' = [found EXCEPT ![r] = Tail(@)]
    /\ UNCHANGED <<row, queue, appended, mode, pc, stops>>

\* Bug: the update that makes the rows processing is forgotten.
Bug_Claim(r) ==
    /\ pc[r] = "lock"
    /\ found[r] = <<>> \/ Len(batch[r]) = BatchSize
    /\ found' = [found EXCEPT ![r] = <<>>]
    /\ pc' = [pc EXCEPT ![r] = IF batch[r] = <<>> THEN "idle" ELSE "publish"]
    /\ UNCHANGED <<row, queue, appended, mode, batch, stops>>

\* The rows become processing and the transaction commits.  PostgreSQL
\* evaluates the where clause again on a row that changed under a waiting
\* select: it is processing now, or due again only after that transaction
\* began, so it drops out of every other snapshot.
Claim(r) ==
    LET claimed == Elements(batch[r])
    IN  /\ pc[r] = "lock"
        /\ found[r] = <<>> \/ Len(batch[r]) = BatchSize
        /\ row' = [e \in Event |-> IF e \in claimed THEN "processing" ELSE row[e]]
        /\ queue' = Without(queue, claimed)
        /\ found' = [s \in Relay |-> IF s = r THEN <<>> ELSE Without(found[s], claimed)]
        /\ pc' = [pc EXCEPT ![r] = IF claimed = {} THEN "idle" ELSE "publish"]
        /\ UNCHANGED <<appended, mode, batch, stops>>

\* publishClaimedRow is done with the first row of the batch.
Advance(r) ==
    /\ batch' = [batch EXCEPT ![r] = Tail(@)]
    /\ pc' = [pc EXCEPT ![r] = IF Len(batch[r]) = 1 THEN "idle" ELSE "publish"]
    /\ UNCHANGED <<queue, appended, mode, found, stops>>

\* Bug: the row is marked before the broker has acknowledged the event.
Bug_Publish(r) ==
    /\ pc[r] = "publish" /\ mode[r] = "up" /\ Head(batch[r]) \notin Poison
    /\ pc' = [pc EXCEPT ![r] = "mark"]
    /\ UNCHANGED <<row, queue, appended, mode, found, batch, stops>>

\* The broker appends the event and acknowledges it.
Publish(r) ==
    /\ pc[r] = "publish" /\ mode[r] = "up" /\ Head(batch[r]) \notin Poison
    /\ appended' = appended \cup {Head(batch[r])}
    /\ pc' = [pc EXCEPT ![r] = "mark"]
    /\ UNCHANGED <<row, queue, mode, found, batch, stops>>

\* Bug: a row that cannot be published is skipped.
Bug_PublishFails(r) == pc[r] = "publish" /\ row' = row /\ Advance(r)

\* publish raises, or the schema rejects the event, or stop has disconnected
\* the publisher.
PublishFails(r) ==
    /\ pc[r] = "publish"
    /\ pc' = [pc EXCEPT ![r] = "fail"]
    /\ UNCHANGED <<row, queue, appended, mode, found, batch, stops>>

\* publish raises although the broker has appended the event.
PublishUnacknowledged(r) ==
    /\ pc[r] = "publish" /\ mode[r] = "up" /\ Head(batch[r]) \notin Poison
    /\ appended' = appended \cup {Head(batch[r])}
    /\ pc' = [pc EXCEPT ![r] = "fail"]
    /\ UNCHANGED <<row, queue, mode, found, batch, stops>>

MarkPublished(r) ==
    /\ pc[r] = "mark"
    /\ row' = [row EXCEPT ![Head(batch[r])] = "published"]
    /\ Advance(r)

\* markPublished raises, before or after it took effect.  It runs in the same
\* try block as publish, so the row is then marked failed.
MarkPublishedFails(r) ==
    /\ pc[r] = "mark"
    /\ \/ row' = row
       \/ row' = [row EXCEPT ![Head(batch[r])] = "published"]
    /\ pc' = [pc EXCEPT ![r] = "fail"]
    /\ UNCHANGED <<queue, appended, mode, found, batch, stops>>

\* Bug: a status that the check constraint of publish_status does not list.
Bug_MarkFailed(r) ==
    /\ pc[r] = "fail"
    /\ row' = [row EXCEPT ![Head(batch[r])] = "retry"]
    /\ Advance(r)

\* The catch block: failed, with a finite backoff.
MarkFailed(r) ==
    /\ pc[r] = "fail"
    /\ row' = [row EXCEPT ![Head(batch[r])] = "failed"]
    /\ Advance(r)
-----------------------------------------------------------------------------
(* Instances stop. *)

\* stop() clears the timer and disconnects the publisher; it does not wait
\* for a tick that is running.
Stop(r) ==
    /\ mode[r] = "up" /\ stops < MaxStops
    /\ mode' = [mode EXCEPT ![r] = "stopping"]
    /\ stops' = stops + 1
    /\ UNCHANGED <<row, queue, appended, pc, found, batch>>

Halt(r) ==
    /\ mode' = [mode EXCEPT ![r] = "down"]
    /\ pc' = [pc EXCEPT ![r] = "idle"]
    /\ found' = [found EXCEPT ![r] = <<>>]
    /\ batch' = [batch EXCEPT ![r] = <<>>]
    /\ UNCHANGED <<row, queue, appended>>

\* The pool ends and the process exits.
Exit(r) == mode[r] = "stopping" /\ Halt(r) /\ UNCHANGED stops

\* The process dies.  An error outside publishClaimedRow's try block, or in
\* markFailed, does this too: nothing handles the rejection of tick.
Crash(r) == mode[r] # "down" /\ stops < MaxStops /\ Halt(r) /\ stops' = stops + 1

Start(r) ==
    /\ mode[r] = "down"
    /\ mode' = [mode EXCEPT ![r] = "up"]
    /\ UNCHANGED <<row, queue, appended, pc, found, batch, stops>>
-----------------------------------------------------------------------------
\* The steps that append to a topic, and the others.
Deliver(r) == Publish(r) \/ PublishUnacknowledged(r)
Work(r) ==
    \/ Tick(r) \/ LockRow(r) \/ Claim(r) \/ PublishFails(r)
    \/ MarkPublished(r) \/ MarkPublishedFails(r) \/ MarkFailed(r)
    \/ Stop(r) \/ Exit(r) \/ Crash(r) \/ Start(r)

Next ==
    \/ \E e \in Event : Insert(e) \/ ComeDue(e)
    \/ \E r \in Relay : Deliver(r) \/ Work(r)

Spec == Init /\ [][Next]_vars

\* Timers fire, backoffs pass and instances are started again.  Kafka and the
\* database may refuse a call any number of times, but not every time.
Fairness ==
    /\ \A e \in Event : WF_vars(ComeDue(e))
    /\ \A r \in Relay :
         /\ SF_vars(LockRow(r))
         /\ WF_vars(Tick(r)) /\ WF_vars(Claim(r)) /\ WF_vars(PublishFails(r))
         /\ WF_vars(MarkFailed(r)) /\ WF_vars(Exit(r)) /\ WF_vars(Start(r))
         /\ \A e \in Event : /\ SF_vars(Publish(r) /\ Head(batch[r]) = e)
                             /\ SF_vars(MarkPublished(r) /\ Head(batch[r]) = e)

FairSpec == Spec /\ Fairness
-----------------------------------------------------------------------------
\* A row is marked published only when its event is in the topic: no crash,
\* lost acknowledgement or failed update makes the relay skip an event.
PublishedIsAppended == \A e \in Event : row[e] = "published" => e \in appended

\* The claimed rows that a relay has still to deal with.
InHand(r) == IF pc[r] = "lock" THEN {} ELSE Elements(batch[r])

\* A row in the hands of a relay is in no other relay's, and cannot be claimed.
\* So an event is sent twice only after a failure, and a late markFailed never
\* undoes the markPublished of another relay.
ExclusiveClaim ==
    \A r \in Relay :
        /\ InHand(r) \cap Elements(queue) = {}
        /\ \A s \in Relay \ {r} : InHand(r) \cap InHand(s) = {}

\* A claimed row that nobody deals with any more: no relay ever claims a row
\* that is processing, and nothing resets it.
Orphaned(e) == row[e] = "processing" /\ \A r \in Relay : e \notin Elements(batch[r])

\* Only an instance that stops leaves orphans: no refused call, lost
\* acknowledgement or race between relays does.
OrphanedByStopOnly == stops = 0 => \A e \in Event : ~Orphaned(e)

\* Whatever other rows fail for ever and whichever instance stops, an event
\* that can be published and is not marked so is marked in the end, one whose
\* event is in the topic and whose update failed included, unless an instance
\* stopped with it in hand.
PublishedUnlessOrphaned ==
    \A e \in Event \ Poison :
        row[e] \in {"pending", "processing", "failed"}
            ~> row[e] = "published" \/ Orphaned(e)
=============================================================================
