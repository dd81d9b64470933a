----------------------------- MODULE Projection -----------------------------
(***************************************************************************)
(* stream-processor: the instances of a Kafka consumer group that apply    *)
(* the domain events of one topic partition to a context view.             *)
(*                                                                         *)
(* An event is handled one SQL statement at a time in a READ COMMITTED     *)
(* transaction: look the event up in projection_event_applications, read   *)
(* the view row (update events only), upsert it unless it is newer, record *)
(* the event, commit.  Any error dead-letters the message on a connection  *)
(* of its own.  Offsets are committed by the Kafka client behind the       *)
(* handler's back; after a rebalance the previous owner of the partition   *)
(* goes on with what it has fetched until it notices.                      *)
(*                                                                         *)
(* A view row is its timestamp and, for each column, the event that wrote  *)
(* it.  A partition feeds a single view, so the replay script's truncation *)
(* of the three views is that of one.                                      *)
(***************************************************************************)
EXTENDS Naturals, Sequences, FiniteSets

CONSTANTS Consumer,    \* instances of stream-processor (or the replay script)
          Entity,      \* tenant and resource identifiers of view rows
          Column,      \* columns that update events set
          EventId,     \* values of event_id
          NoRow,       \* no view row
          Logs,        \* what producers may append to the partition, in order
          MaxLog,      \* bound: messages in the partition
          MaxJoins,    \* bound: times the partition is assigned
          MaxFailures, \* bound: statements and calls that fail
          MaxReplays   \* bound: runs of the replay script

MessageKind == {"create", "update", "other", "poison", "unstorable"}
Message == [id : EventId, entity : Entity, kind : MessageKind,
            at : Nat, sets : SUBSET Column]

ViewRow == [at : Nat, cols : [Column -> EventId]]

\* The events whose handlers write a view row.
Changes(m) == m.kind \in {"create", "update"}

ASSUME LogAssumption == \A l \in Logs : l \in Seq(Message) /\ Len(l) <= MaxLog
\* An event that is published again is published with the same contents.
ASSUME EventAssumption ==
    \A l \in Logs : \A i, j \in DOMAIN l :
        l[i].id = l[j].id /\ Changes(l[i]) /\ Changes(l[j]) => l[i] = l[j]
ASSUME NoRowAssumption == NoRow \notin ViewRow
ASSUME BoundAssumption == MaxJoins \in Nat /\ MaxFailures \in Nat /\ MaxReplays \in Nat

VARIABLES view,      \* committed rows of the context view
          ledger,    \* event_ids of projection_event_applications
          dead,      \* offsets of messages in projection_dead_letters
          log,       \* the messages of the partition
          committed, \* committed offset of the group; 0 when there is none
          owner,     \* members the partition is assigned to, at most one
          position,  \* offset of the message each consumer handles next
          member,    \* consumers that believe the partition is theirs
          pc,        \* the statement each consumer executes next
          existing,  \* the view row each consumer's findById returned
          written,   \* the view row each open transaction has written
          reset,     \* whether a replay script has truncated (locked) the views
          dropped,   \* offsets handled without effect, out of order (history)
          skipped,   \* offsets a consumer without committed offset began after
          joined,    \* consumers that have ever joined the group (history)
          joins, failures, replays \* events so far, for the bounds

transaction == <<existing, written>>
group == <<committed, owner, position, member, skipped, joined, joins>>
database == <<view, ledger, dead>>
script == <<reset, replays>>
vars == <<view, ledger, dead, log, committed, owner, position, member, pc, existing,
          written, reset, dropped, skipped, joined, joins, failures, replays>>

Offset == 1..Len(log)

TypeOK ==
    /\ view \in [Entity -> ViewRow \cup {NoRow}]
    /\ ledger \subseteq EventId
    /\ dead \subseteq Offset /\ dropped \subseteq Offset /\ skipped \subseteq Offset
    /\ log \in Seq(Message) /\ committed \in 0..Len(log)
    /\ owner \subseteq Consumer /\ Cardinality(owner) <= 1 /\ joined \subseteq Consumer
    /\ position \in [Consumer -> 0..Len(log)]
    /\ member \subseteq Consumer
    /\ pc \in [Consumer -> {"idle", "check", "find", "upsert", "commit",
                            "deadletter", "refresh"}]
    /\ existing \in [Consumer -> ViewRow \cup {NoRow}]
    /\ written \in [Consumer -> ViewRow \cup {NoRow}]
    /\ reset \in BOOLEAN
    /\ joins \in 0..MaxJoins /\ failures \in 0..MaxFailures /\ replays \in 0..MaxReplays

Init ==
    /\ view = [e \in Entity |-> NoRow]
    /\ ledger = {} /\ dead = {} /\ dropped = {} /\ skipped = {}
    /\ log = <<>> /\ committed = 0
    /\ owner = {} /\ member = {} /\ joined = {}
    /\ position = [c \in Consumer |-> 0]
    /\ pc = [c \in Consumer |-> "idle"]
    /\ existing = [c \in Consumer |-> NoRow]
    /\ written = [c \in Consumer |-> NoRow]
    /\ reset = FALSE
    /\ joins = 0 /\ failures = 0 /\ replays = 0
-----------------------------------------------------------------------------
(* The topic partition and the consumer group.  The last owner leaves only
   while the bound MaxJoins lets another consumer join. *)

Produce(m) ==
    /\ log' = Append(log, m)
    /\ UNCHANGED <<database, group, pc, transaction, script, dropped, failures>>

\* The group assigns the partition to a consumer that joins it.  It starts at
\* the committed offset; without one, at the end of the log, or at its start
\* in replay mode.
Join(c, fromBeginning) ==
    LET first == IF committed > 0 \/ fromBeginning THEN committed ELSE Len(log)
    IN  /\ c \notin member /\ pc[c] = "idle" /\ joins < MaxJoins
        /\ owner' = {c}
        /\ member' = member \cup {c}
        /\ position' = [position EXCEPT ![c] = first]
        /\ skipped' = skipped \cup (committed + 1)..first
        /\ joined' = joined \cup {c}
        /\ joins' = joins + 1
        /\ UNCHANGED <<database, log, committed, pc, transaction, script, dropped,
                       failures>>

\* A consumer notices that it lost the partition, or leaves the group.
Leave(c) ==
    /\ c \in member /\ pc[c] = "idle" /\ (c \in owner => joins < MaxJoins)
    /\ member' = member \ {c}
    /\ owner' = owner \ {c}
    /\ UNCHANGED <<database, log, committed, position, pc, transaction, script,
                   dropped, skipped, joined, joins, failures>>

\* The process dies: the server aborts its transaction.
Crash(c) ==
    /\ c \in member /\ pc[c] # "idle" /\ (c \in owner => joins < MaxJoins)
    /\ member' = member \ {c}
    /\ owner' = owner \ {c}
    /\ pc' = [pc EXCEPT ![c] = "idle"]
    /\ existing' = [existing EXCEPT ![c] = NoRow]
    /\ written' = [written EXCEPT ![c] = NoRow]
    /\ UNCHANGED <<database, log, committed, position, script, dropped, skipped,
                   joined, joins, failures>>

\* The client commits the offsets its handler has returned for.  The broker
\* refuses those of a consumer that is not the owner.
CommitOffset(c) ==
    /\ c \in owner /\ committed # position[c]
    /\ committed' = position[c]
    /\ UNCHANGED <<database, log, owner, position, member, pc, transaction, script,
                   dropped, skipped, joined, joins, failures>>
-----------------------------------------------------------------------------
(* handleMessage and apply. *)

Current(c) == log[position[c] + 1]
Invalid(m) == m.kind \in {"poison", "unstorable"}
InTransaction(c) == pc[c] \in {"check", "find", "upsert", "commit"}

\* The open transaction has used the view, so it holds a lock on the table.
HoldsView(c) == existing[c] # NoRow \/ written[c] # NoRow
HoldsLedger(c) == pc[c] \in {"find", "upsert", "commit"}

Go(c, to) ==
    /\ pc' = [pc EXCEPT ![c] = to]
    /\ UNCHANGED <<log, group, script>>

\* The transaction ends, whether it commits or rolls back.
EndTransaction(c, to) ==
    /\ existing' = [existing EXCEPT ![c] = NoRow]
    /\ written' = [written EXCEPT ![c] = NoRow]
    /\ Go(c, to)

\* Bug: the event is recorded although nothing was written for it.
Bug_Drop(c) ==
    /\ dropped' = dropped \cup {position[c] + 1}
    /\ ledger' = ledger \cup {Current(c).id}
    /\ EndTransaction(c, "refresh")
    /\ UNCHANGED <<view, dead, failures>>

\* A handler returned null: nothing is written and nothing is recorded.
Drop(c) ==
    /\ dropped' = dropped \cup {position[c] + 1}
    /\ EndTransaction(c, "refresh")
    /\ UNCHANGED <<database, failures>>

\* eachMessage: parse and validate, then open the transaction.
Fetch(c) ==
    /\ c \in member /\ pc[c] = "idle" /\ position[c] < Len(log)
    /\ Go(c, IF Invalid(Current(c)) THEN "deadletter" ELSE "check")
    /\ UNCHANGED <<database, transaction, dropped, failures>>

\* hasProcessedEvent finds the event: nothing to do.
Duplicate(c) ==
    /\ pc[c] = "check" /\ Current(c).id \in ledger
    /\ EndTransaction(c, "refresh")
    /\ UNCHANGED <<database, dropped, failures>>

\* hasProcessedEvent does not find it: call the handler of the event type.
Handle(c) ==
    /\ pc[c] = "check" /\ Current(c).id \notin ledger
    /\ Changes(Current(c))
    /\ Go(c, IF Current(c).kind = "create" THEN "upsert" ELSE "find")
    /\ UNCHANGED <<database, transaction, dropped, failures>>

\* The event type has no handler.
HandleOther(c) ==
    /\ pc[c] = "check" /\ Current(c).id \notin ledger /\ Current(c).kind = "other"
    /\ Drop(c)

\* findById, a plain select, returns a row that is not newer than the event.
Updatable(c) ==
    LET row == view[Current(c).entity]
    IN  row # NoRow /\ row.at <= Current(c).at

\* Bug: an update event for a row that is not there starts one.
Bug_Find(c) ==
    LET row == view[Current(c).entity]
    IN  /\ pc[c] = "find" /\ ~reset
        /\ row # NoRow => row.at <= Current(c).at
        /\ existing' = [existing EXCEPT ![c] =
             IF row = NoRow THEN [at |-> 0, cols |-> [k \in Column |-> Current(c).id]] ELSE row]
        /\ Go(c, "upsert")
        /\ UNCHANGED <<database, written, dropped, failures>>

Find(c) ==
    /\ pc[c] = "find" /\ ~reset /\ Updatable(c)
    /\ existing' = [existing EXCEPT ![c] = view[Current(c).entity]]
    /\ Go(c, "upsert")
    /\ UNCHANGED <<database, written, dropped, failures>>

FindNoneOrNewer(c) ==
    /\ pc[c] = "find" /\ ~reset /\ ~Updatable(c)
    /\ Drop(c)

\* Another transaction has written the row and not ended yet.
RowLocked(c) ==
    \E d \in Consumer \ {c} : written[d] # NoRow /\ Current(d).entity = Current(c).entity

\* Bug: the upsert has no where clause.
Bug_Newer(c) == FALSE

\* insert ... on conflict do update: waits for the row, then compares the
\* timestamps again, with the row as it is now.
Newer(c) == view[Current(c).entity] # NoRow /\ view[Current(c).entity].at > Current(c).at

\* Bug: an update event writes null into the columns it does not set.
Bug_NewRow(c) ==
    [at |-> Current(c).at,
     cols |-> [k \in Column |-> IF Current(c).kind = "create" \/ k \in Current(c).sets
                                  THEN Current(c).id ELSE NoRow]]

\* The row the handler writes: create events set every column, the others
\* take what they do not set from the row findById returned.
NewRow(c) ==
    LET m == Current(c)
    IN  [at |-> m.at,
         cols |-> [k \in Column |-> IF m.kind = "create" \/ k \in m.sets
                                      THEN m.id ELSE existing[c].cols[k]]]

Upsert(c) ==
    /\ pc[c] = "upsert" /\ ~reset /\ ~RowLocked(c) /\ ~Newer(c)
    /\ written' = [written EXCEPT ![c] = NewRow(c)]
    /\ Go(c, "commit")
    /\ UNCHANGED <<database, existing, dropped, failures>>

UpsertNewer(c) ==
    /\ pc[c] = "upsert" /\ ~reset /\ ~RowLocked(c) /\ Newer(c)
    /\ Drop(c)

\* recordEventApplication (on conflict do nothing) and commit: nothing of the
\* record is visible before, and its row is never contended, since whoever
\* records the same event has first locked the same view row.
Apply(c, to) ==
    /\ pc[c] = "commit"
    /\ view' = [view EXCEPT ![Current(c).entity] = written[c]]
    /\ ledger' = ledger \cup {Current(c).id}
    /\ EndTransaction(c, to)
    /\ UNCHANGED <<dead, dropped>>

Commit(c) == Apply(c, "refresh") /\ UNCHANGED failures

\* The commit took effect, but the consumer sees an error.
CommitUnacknowledged(c) ==
    /\ failures < MaxFailures /\ failures' = failures + 1
    /\ Apply(c, "deadletter")

\* Bug: an error is logged and the message is not dead-lettered.
Bug_Fail(c) ==
    /\ InTransaction(c)
    /\ failures < MaxFailures /\ failures' = failures + 1
    /\ EndTransaction(c, "refresh")
    /\ UNCHANGED <<database, dropped>>

\* A statement fails, or the transaction is the victim of a deadlock.
Fail(c) ==
    /\ InTransaction(c)
    /\ failures < MaxFailures /\ failures' = failures + 1
    /\ EndTransaction(c, "deadletter")
    /\ UNCHANGED <<database, dropped>>

\* Bug: the error is raised again after the message was dead-lettered.
Bug_DeadLetter(c) ==
    /\ pc[c] = "deadletter" /\ Current(c).kind # "unstorable"
    /\ dead' = dead \cup {position[c] + 1}
    /\ Go(c, "idle")
    /\ UNCHANGED <<view, ledger, transaction, dropped, failures>>

DeadLetter(c) ==
    /\ pc[c] = "deadletter" /\ Current(c).kind # "unstorable"
    /\ dead' = dead \cup {position[c] + 1}
    /\ Go(c, "refresh")
    /\ UNCHANGED <<view, ledger, transaction, dropped, failures>>

\* The insert fails: always for a message whose event_id or tenant_id is not
\* a UUID.  eachMessage raises, and the client delivers the message again.
DeadLetterFails(c) ==
    /\ pc[c] = "deadletter"
    /\ \/ Current(c).kind = "unstorable" /\ UNCHANGED failures
       \/ failures < MaxFailures /\ failures' = failures + 1
    /\ Go(c, "idle")
    /\ UNCHANGED <<database, transaction, dropped>>

\* refreshLag returns: the client counts the message as consumed.
Refresh(c) ==
    /\ pc[c] = "refresh"
    /\ position' = [position EXCEPT ![c] = @ + 1]
    /\ pc' = [pc EXCEPT ![c] = "idle"]
    /\ UNCHANGED <<database, log, committed, owner, member, transaction, script,
                   dropped, skipped, joined, joins, failures>>

\* refreshLag raises: the message is delivered again.
RefreshFails(c) ==
    /\ pc[c] = "refresh"
    /\ failures < MaxFailures /\ failures' = failures + 1
    /\ Go(c, "idle")
    /\ UNCHANGED <<database, transaction, dropped>>
-----------------------------------------------------------------------------
(* resetViews, run by the replay script while consumers may be running. *)

\* The truncations of the views, which lock them until the script commits.
TruncateViews ==
    /\ ~reset /\ replays < MaxReplays
    /\ \A c \in Consumer : ~HoldsView(c)
    /\ reset' = TRUE
    /\ replays' = replays + 1
    /\ UNCHANGED <<database, log, group, pc, transaction, dropped, failures>>

\* Bug: the script clears the views only.
Bug_ClearProjectionState ==
    /\ reset
    /\ \A c \in Consumer : ~HoldsLedger(c)
    /\ view' = [e \in Entity |-> NoRow]
    /\ reset' = FALSE
    /\ UNCHANGED <<ledger, dead, log, group, pc, transaction, dropped, replays, failures>>

\* clearProjectionState and commit.
ClearProjectionState ==
    /\ reset
    /\ \A c \in Consumer : ~HoldsLedger(c)
    /\ view' = [e \in Entity |-> NoRow]
    /\ ledger' = {} /\ dead' = {}
    /\ reset' = FALSE
    /\ UNCHANGED <<log, group, pc, transaction, dropped, replays, failures>>

\* The script fails, or is the victim of a deadlock: it rolls back.
ResetFails ==
    /\ reset
    /\ reset' = FALSE
    /\ UNCHANGED <<database, log, group, pc, transaction, dropped, replays, failures>>
-----------------------------------------------------------------------------
Work(c) ==
    \/ Fetch(c) \/ Duplicate(c) \/ Handle(c) \/ HandleOther(c)
    \/ Find(c) \/ FindNoneOrNewer(c) \/ Upsert(c) \/ UpsertNewer(c) \/ Commit(c)
    \/ DeadLetter(c) \/ Refresh(c)

\* The consumers and the replay script.
Consume ==
    \/ \E c \in Consumer :
         \/ \E fromBeginning \in BOOLEAN : Join(c, fromBeginning)
         \/ Leave(c) \/ Crash(c) \/ CommitOffset(c)
         \/ Work(c)
         \/ CommitUnacknowledged(c) \/ Fail(c) \/ DeadLetterFails(c) \/ RefreshFails(c)
    \/ TruncateViews \/ ClearProjectionState \/ ResetFails

\* Producers write one of the logs; which one, its messages tell.
ProduceNext ==
    \E l \in Logs : /\ Len(log) < Len(l) /\ SubSeq(l, 1, Len(log)) = log
                   /\ Produce(l[Len(log) + 1])

Next == ProduceNext \/ Consume

Spec == Init /\ [][Next]_vars

\* The group finds an owner for the partition, consumers go on, lock queues
\* are first in first out, and calls do not fail every time.
Fairness ==
    /\ WF_vars(owner = {} /\ \E c \in Consumer : Join(c, FALSE))
    /\ WF_vars(ClearProjectionState \/ ResetFails)
    /\ \A c \in Consumer : SF_vars(Work(c)) /\ WF_vars(DeadLetterFails(c))

FairSpec == Spec /\ Fairness
-----------------------------------------------------------------------------
(* What the projection promises. *)

\* A message is accounted for when its event has been applied, or the message
\* has been dead-lettered, dropped as out of order or skipped at the start.
Accounted(i) == log[i].id \in ledger \/ i \in dead \cup dropped \cup skipped

\* No message is lost: whatever fails, crashes or is rebalanced, the offset
\* commits of the Kafka client never run ahead of what handleMessage has done.
\* (A replay forgets what was done; ReplayRebuilds is about that.)
NothingLost == replays = 0 => \A i \in 1..committed : Accounted(i)

\* The messages whose events have been applied to the row of e.
Applied(e) ==
    {i \in Offset : log[i].entity = e /\ log[i].id \in ledger /\ Changes(log[i])}

Newest(e, i) == \A j \in Applied(e) : log[j].at <= log[i].at

\* View and ledger change together: there is a row exactly when an event of
\* the entity is recorded, and it shows the newest of them, with every column
\* that event sets, however many consumers redeliver and race.
ViewMatchesNewest ==
    \A e \in Entity :
        /\ view[e] = NoRow <=> Applied(e) = {}
        /\ view[e] # NoRow =>
             \E i \in Applied(e) :
                /\ Newest(e, i) /\ view[e].at = log[i].at
                /\ \A k \in log[i].sets : view[e].cols[k] = log[i].id

\* The timestamp of a row never goes back, except when the script clears it.
ViewOnlyAdvances ==
    [][\A e \in Entity : view[e] # NoRow /\ view'[e] # NoRow
                           => view'[e].at >= view[e].at]_vars

Sets(i, k) == log[i].kind = "create" \/ k \in log[i].sets

\* The row begins with a create event of e, and each of its columns comes from
\* an event that sets it; all of them are recorded.
Recorded(row, e) ==
    /\ \E i \in Applied(e) : log[i].kind = "create"
    /\ \A k \in Column : \E i \in Applied(e) : Sets(i, k) /\ row.cols[k] = log[i].id

\* No row is made up, and nothing in it outlives a replay.  An update event
\* whose create was skipped, dead-lettered, cleared or is still to come starts
\* no row, and a row that was read before the script cleared it is not written
\* back afterwards.
RowsAreRecorded == \A e \in Entity : view[e] # NoRow => Recorded(view[e], e)

\* No update is lost: each column of a row was written by the newest of the
\* recorded events that set it.  Update handlers read the row with a plain
\* select and write all of its columns back, so this takes a single consumer.
ViewIsLedgerFold ==
    \A e \in Entity : view[e] # NoRow =>
        \A k \in Column : \E i \in Applied(e) :
            /\ Sets(i, k) /\ view[e].cols[k] = log[i].id
            /\ \A j \in Applied(e) : Sets(j, k) => log[j].at <= log[i].at

\* The events of an entity first appear in the order of their timestamps.
InOrder ==
    \A i, j \in Offset :
        /\ i < j /\ log[i].entity = log[j].entity /\ Changes(log[i]) /\ Changes(log[j])
        /\ \A h \in 1..i : log[h] # log[j]
        => log[i].at < log[j].at

Alone == \E c \in Consumer : joined \subseteq {c}

\* On a log in order, racing consumers alone lose no update.  Neither does a
\* consumer that works alone, on any log, though it fails, dead-letters, skips
\* and runs beside replays.  To lose one takes another consumer that is ahead,
\* and an event handled late: one that was dead-lettered, skipped, cleared, or
\* dropped before the event that was to come first.
UpdatesSurvive ==
    (skipped = {} /\ dead = {} /\ replays = 0 /\ InOrder) \/ Alone => ViewIsLedgerFold

\* "Projection correctness assumes ordering only within the documented
\* partition key" (docs/architecture.md): on a log in the order of the events'
\* timestamps, read from its start, no update is lost.
OrderingSuffices == skipped = {} => ViewIsLedgerFold

\* "Poison messages are written to projection_dead_letters"
\* (docs/projections.md), but not when their identifiers are not UUIDs: such a
\* message is delivered again and again, and what is behind it never.
Blocked(i) ==
    \E j \in 1..i : log[j].kind = "unstorable" /\ \E c \in owner : position[c] < j

\* Every message produced is accounted for in the end: no failure, no
\* rebalance and no other poison message holds up the partition for ever.
EveryMessageAccounted ==
    \A i \in 1..MaxLog :
        Len(log) >= i ~> Len(log) >= i /\ (Accounted(i) \/ Blocked(i) \/ replays > 0)

\* "Local replay script clears projection tables and the dedupe ledger, then
\* starts consumption from earliest offsets" (docs/projections.md): what a
\* replay has cleared is consumed again.
ReplayRebuilds ==
    \A i \in 1..MaxLog :
        replays > 0 /\ i <= committed ~> i <= committed /\ Accounted(i)
=============================================================================
