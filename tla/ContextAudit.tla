---------------------------- MODULE ContextAudit ----------------------------
(***************************************************************************)
(* context-query-api and audit-writer: every context that is disclosed is  *)
(* first announced in Kafka, and a consumer group turns the announcements  *)
(* into rows of agent_audit_logs.                                          *)
(*                                                                         *)
(* A query names one or several (batch) entities.  Each item is handled on *)
(* its own: read the entity, read what is related to it, publish the audit *)
(* event, return the context.  The batch answers when all items have, or   *)
(* as soon as one of them fails; the others go on behind its back.         *)
(*                                                                         *)
(* The context views change under the readers, so whether an entity is     *)
(* found is a choice.  One log stands for the partitions of audit-events   *)
(* and agent-events: nothing here depends on the order between them.       *)
(***************************************************************************)
EXTENDS Naturals, Sequences, FiniteSets

CONSTANTS Request,     \* query requests
          Query,       \* what each asks for, and whether its id is a UUID
          Foreign,     \* messages of other producers
          Consumer,    \* instances of audit-writer
          MaxForeign,  \* bound: messages of other producers
          MaxJoins,    \* bound: times the partition is assigned
          MaxFailures  \* bound: reads, calls and inserts that fail, and
                       \* requests whose process stops

\* The largest batch the request schema admits.
MaxBatch == 10

EntityType == {"customer", "order", "agent_session"}
QueryType == [items : Seq(EntityType), batch : BOOLEAN, uuid : BOOLEAN]

\* agent.context.requested and agent.response.generated are "agent" events;
\* "invalid" stands for what validation or the table refuses.
MessageKind == {"audit", "agent", "other", "invalid"}

ASSUME QueryAssumption ==
    /\ Query \in [Request -> QueryType]
    /\ \A r \in Request : /\ Len(Query[r].items) \in 1..MaxBatch
                          /\ ~Query[r].batch => Len(Query[r].items) = 1
\* Event ids are random UUIDs: other producers do not come upon those of audit
\* events.
ASSUME ForeignAssumption ==
    \A m \in Foreign : /\ m.kind \in MessageKind \ {"audit"}
                       /\ m.id \notin Request \X (1..MaxBatch)
ASSUME BoundAssumption ==
    MaxForeign \in Nat /\ MaxJoins \in Nat /\ MaxFailures \in Nat

VARIABLES answer,    \* status of each request
          item,      \* progress of each item of each request
          log,       \* the topics: the messages appended so far
          produced,  \* how many of them are foreign
          rows,      \* agent_audit_logs: the source_event_id of each row
          committed, \* committed offset of the group; 0 when there is none
          owner,     \* members the partition is assigned to, at most one
          position,  \* offset of the message each consumer handles next
          member,    \* consumers that believe the partition is theirs
          busy,      \* consumers whose handler runs refreshLag
          failed,    \* offsets whose handler raised (history)
          skipped,   \* offsets a consumer without committed offset began after
          joins, failures \* events so far, for the bounds

api == <<answer, item>>
topics == <<log, produced>>
group == <<committed, owner, position, member, skipped, joins>>
writer == <<rows, busy, failed>>
vars == <<answer, item, log, produced, committed, owner, position, member,
          skipped, joins, rows, busy, failed, failures>>

Items(r) == 1..Len(Query[r].items)
EventId == {<<r, i>> : r \in Request, i \in 1..MaxBatch} \cup
           {m.id : m \in Foreign}

TypeOK ==
    /\ \A r \in Request :
         /\ answer[r] \in {"none", "open", "200", "404", "500", "503", "lost"}
         /\ item[r] \in [Items(r) -> {"find", "related", "publish", "found", "missing",
                                      "unreadable", "unaudited", "stopped"}]
    /\ \A n \in 1..Len(log) : log[n].id \in EventId /\ log[n].kind \in MessageKind
    /\ produced \in 0..MaxForeign
    /\ \A k \in 1..Len(rows) : rows[k] \in EventId
    /\ committed \in 0..Len(log)
    /\ owner \subseteq Consumer /\ Cardinality(owner) <= 1 /\ member \subseteq Consumer
    /\ position \in [Consumer -> 0..Len(log)]
    /\ busy \subseteq Consumer
    /\ failed \subseteq 1..Len(log) /\ skipped \subseteq 1..Len(log)
    /\ joins \in 0..MaxJoins /\ failures \in 0..MaxFailures

Init ==
    /\ answer = [r \in Request |-> "none"]
    /\ item = [r \in Request |-> [i \in Items(r) |-> "find"]]
    /\ log = <<>> /\ produced = 0 /\ rows = <<>>
    /\ committed = 0 /\ owner = {} /\ member = {} /\ busy = {}
    /\ position = [c \in Consumer |-> 0]
    /\ failed = {} /\ skipped = {}
    /\ joins = 0 /\ failures = 0
-----------------------------------------------------------------------------
(* context-query-api. *)

Open(r) ==
    /\ answer[r] = "none"
    /\ answer' = [answer EXCEPT ![r] = "open"]
    /\ UNCHANGED <<item, topics, group, writer, failures>>

\* An item goes on whether or not its batch has been answered already.
At(r, i, step) == answer[r] # "none" /\ item[r][i] = step
Set(r, i, step) == item' = [item EXCEPT ![r][i] = step]

\* The event carries the x-request-id header of the caller as it came; the
\* envelope's schema, which nobody applies here, demands a UUID.
AccessEvent(r, i) ==
    [id |-> <<r, i>>, kind |-> IF Query[r].uuid THEN "audit" ELSE "invalid"]

\* Bug: the audit event is sent before the reads are done.
Bug_Find(r, i) ==
    /\ At(r, i, "find")
    /\ Set(r, i, IF Query[r].items[i] = "customer" THEN "publish" ELSE "related")
    /\ log' = Append(log, AccessEvent(r, i))
    /\ UNCHANGED <<answer, produced, group, writer, failures>>

\* The read of the entity; for a customer also the related reads, which are
\* sent at the same time.
Find(r, i) ==
    /\ At(r, i, "find")
    /\ Set(r, i, IF Query[r].items[i] = "customer" THEN "publish" ELSE "related")
    /\ UNCHANGED <<answer, topics, group, writer, failures>>

FindNone(r, i) ==
    /\ At(r, i, "find")
    /\ Set(r, i, "missing")
    /\ UNCHANGED <<answer, topics, group, writer, failures>>

Related(r, i) ==
    /\ At(r, i, "related")
    /\ Set(r, i, "publish")
    /\ UNCHANGED <<answer, topics, group, writer, failures>>

ReadFails(r, i) ==
    /\ At(r, i, "find") \/ At(r, i, "related")
    /\ failures < MaxFailures
    /\ failures' = failures + 1
    /\ Set(r, i, "unreadable")
    /\ UNCHANGED <<answer, topics, group, writer>>

Copies(n, m) == [k \in 1..n |-> m]

\* producer.send is acknowledged; a retry inside the client may have appended
\* the message twice.
Publish(r, i, copies) ==
    /\ At(r, i, "publish")
    /\ copies = 1 \/ failures < MaxFailures
    /\ failures' = IF copies = 1 THEN failures ELSE failures + 1
    /\ log' = log \o Copies(copies, AccessEvent(r, i))
    /\ Set(r, i, "found")
    /\ UNCHANGED <<answer, produced, group, writer>>

\* Bug: a publish that fails is logged and the answer goes out.
Bug_PublishFails(r, i, copies) ==
    /\ At(r, i, "publish")
    /\ failures < MaxFailures
    /\ failures' = failures + 1
    /\ log' = log \o Copies(copies, AccessEvent(r, i))
    /\ Set(r, i, "found")
    /\ UNCHANGED <<answer, produced, group, writer>>

\* producer.send raises, whether or not the broker has appended the message.
PublishFails(r, i, copies) ==
    /\ At(r, i, "publish")
    /\ failures < MaxFailures
    /\ failures' = failures + 1
    /\ log' = log \o Copies(copies, AccessEvent(r, i))
    /\ Set(r, i, "unaudited")
    /\ UNCHANGED <<answer, produced, group, writer>>

\* The answer of a request one of whose items has ended so.  NOT_FOUND is an
\* answer for a single query only: a batch lists the item as missing.
Refusal(r, step) ==
    CASE step = "unreadable" -> "500"
      [] step = "unaudited" -> "503"
      [] step = "missing" /\ ~Query[r].batch -> "404"
      [] OTHER -> "none"

Refuse(r, i) ==
    /\ answer[r] = "open"
    /\ Refusal(r, item[r][i]) # "none"
    /\ answer' = [answer EXCEPT ![r] = Refusal(r, item[r][i])]
    /\ UNCHANGED <<item, topics, group, writer, failures>>

Disclose(r) ==
    /\ answer[r] = "open"
    /\ \A i \in Items(r) : item[r][i] \in {"found", "missing"} /\ Refusal(r, item[r][i]) = "none"
    /\ answer' = [answer EXCEPT ![r] = "200"]
    /\ UNCHANGED <<item, topics, group, writer, failures>>

Unfinished == {"find", "related", "publish"}

\* The process stops, and with it what it has not finished.
Crash(r) ==
    /\ failures < MaxFailures
    /\ \/ answer[r] = "open"
       \/ answer[r] # "none" /\ \E i \in Items(r) : item[r][i] \in Unfinished
    /\ failures' = failures + 1
    /\ answer' = [answer EXCEPT ![r] = IF @ = "open" THEN "lost" ELSE @]
    /\ item' = [item EXCEPT ![r] = [i \in Items(r) |->
                  IF @[i] \in Unfinished THEN "stopped" ELSE @[i]]]
    /\ UNCHANGED <<topics, group, writer>>

\* Another producer appends a message, perhaps one it has appended before.
Produce(m) ==
    /\ produced < MaxForeign
    /\ produced' = produced + 1
    /\ log' = Append(log, m)
    /\ UNCHANGED <<api, group, writer, failures>>
-----------------------------------------------------------------------------
(* The consumer group of audit-writer.  The last owner leaves only while the
   bound MaxJoins lets another consumer join. *)

\* Bug: the committed offset is taken for that of the last message handled.
Bug_FirstOffset == IF committed > 0 THEN committed + 1 ELSE Len(log)

\* subscribe with fromBeginning false: without a committed offset a consumer
\* starts at the end of the log.
FirstOffset == IF committed > 0 THEN committed ELSE Len(log)

Join(c) ==
    /\ c \notin member /\ joins < MaxJoins
    /\ owner' = {c}
    /\ member' = member \cup {c}
    /\ position' = [position EXCEPT ![c] = FirstOffset]
    /\ skipped' = skipped \cup (committed + 1)..FirstOffset
    /\ joins' = joins + 1
    /\ UNCHANGED <<api, topics, committed, writer, failures>>

\* A consumer stops, crashes or notices that the partition is another's.  An
\* offset its handler has not returned for is never committed.
Leave(c) ==
    /\ c \in member /\ (c \in owner => joins < MaxJoins)
    /\ member' = member \ {c}
    /\ owner' = owner \ {c}
    /\ busy' = busy \ {c}
    /\ position' = [position EXCEPT ![c] = 0]
    /\ UNCHANGED <<api, topics, committed, skipped, joins, rows, failed, failures>>

\* Bug: the offset is committed when the message is fetched.
Bug_CommitOffset(c) ==
    /\ c \in owner /\ position[c] < Len(log)
    /\ committed' = position[c] + 1
    /\ UNCHANGED <<api, topics, owner, position, member, skipped, joins, writer, failures>>

\* The client commits the offsets its handler has returned for.  The broker
\* refuses those of a consumer that is not the owner.
CommitOffset(c) ==
    /\ c \in owner /\ committed # position[c]
    /\ committed' = position[c]
    /\ UNCHANGED <<api, topics, owner, position, member, skipped, joins, writer, failures>>

Fetched(c) == c \in member /\ c \notin busy /\ position[c] < Len(log)
Current(c) == log[position[c] + 1]

\* The two unique indexes "on conflict do nothing" yields to.  The row id of
\* an audit event comes with the event, that of an agent event is random.
SameRowId(m) == m.kind = "audit" /\ \E k \in 1..Len(rows) : rows[k] = m.id

\* Bug: there is no unique index on source_event_id.
Bug_SameSourceEvent(m) == FALSE

SameSourceEvent(m) == \E k \in 1..Len(rows) : rows[k] = m.id

InsertImmutable(m) ==
    rows' = IF SameRowId(m) \/ SameSourceEvent(m) THEN rows ELSE Append(rows, m.id)

HandleEvent(c) ==
    /\ Fetched(c) /\ Current(c).kind \in {"audit", "agent"}
    /\ InsertImmutable(Current(c))
    /\ busy' = busy \cup {c}
    /\ UNCHANGED <<api, topics, group, failed, failures>>

\* Events of other types are ignored.
IgnoreEvent(c) ==
    /\ Fetched(c) /\ Current(c).kind = "other"
    /\ busy' = busy \cup {c}
    /\ UNCHANGED <<api, topics, group, rows, failed, failures>>

\* Bug: the error is raised again and the message is delivered again.
Bug_Swallow(c) ==
    /\ failed' = failed \cup {position[c] + 1}
    /\ UNCHANGED <<api, topics, group, busy>>

\* eachMessage returns, and the client goes on with the next message, also
\* when handleEvent has raised.
Swallow(c) ==
    /\ failed' = failed \cup {position[c] + 1}
    /\ position' = [position EXCEPT ![c] = @ + 1]
    /\ UNCHANGED <<api, topics, committed, owner, member, skipped, joins, busy>>

RejectEvent(c) ==
    /\ Fetched(c) /\ Current(c).kind = "invalid"
    /\ Swallow(c)
    /\ UNCHANGED <<rows, failures>>

\* The insert raises, whether or not it took effect.
InsertFails(c) ==
    /\ Fetched(c) /\ Current(c).kind \in {"audit", "agent"}
    /\ failures < MaxFailures
    /\ failures' = failures + 1
    /\ InsertImmutable(Current(c)) \/ UNCHANGED rows
    /\ Swallow(c)

\* refreshLag ends or raises: eachMessage returns either way.
Return(c) ==
    /\ c \in busy
    /\ busy' = busy \ {c}
    /\ position' = [position EXCEPT ![c] = @ + 1]
    /\ UNCHANGED <<api, topics, committed, owner, member, skipped, joins, rows, failed, failures>>
-----------------------------------------------------------------------------
Answer(r) == Disclose(r) \/ \E i \in Items(r) : Refuse(r, i)
Read(r, i) == Find(r, i) \/ FindNone(r, i) \/ Related(r, i)
Handle(c) == HandleEvent(c) \/ IgnoreEvent(c) \/ RejectEvent(c) \/ Return(c)

Next ==
    \/ \E r \in Request :
         \/ Open(r) \/ Answer(r) \/ Crash(r)
         \/ \E i \in Items(r) :
              \/ Read(r, i) \/ ReadFails(r, i)
              \/ \E copies \in 1..2 : Publish(r, i, copies)
              \/ \E copies \in 0..1 : PublishFails(r, i, copies)
    \/ \E m \in Foreign : Produce(m)
    \/ \E c \in Consumer : \/ Join(c) \/ Leave(c) \/ CommitOffset(c)
                           \/ Handle(c) \/ InsertFails(c)

Spec == Init /\ [][Next]_vars

\* The group finds an owner for the partition, and consumers go on.
Fairness ==
    /\ WF_vars(owner = {} /\ \E c \in Consumer : Join(c))
    /\ \A c \in Consumer : WF_vars(Handle(c))

FairSpec == Spec /\ Fairness
-----------------------------------------------------------------------------
(* What the audit trail promises. *)

Announced(r, i) == \E n \in 1..Len(log) : log[n].id = <<r, i>>

\* No context is disclosed unless the broker has its audit event: neither a
\* refused nor a half-failed publish, in any item of a batch, lets it out.
DisclosedIsAnnounced ==
    \A r \in Request : answer[r] = "200" =>
        \A i \in Items(r) : item[r][i] = "found" => Announced(r, i)

\* The trail tells of accesses only: no event names an entity that was not
\* there or could not be read in full, whenever its batch was answered.
AnnouncedWasRead ==
    \A r \in Request : \A i \in Items(r) : Announced(r, i) =>
        item[r][i] \in {"found", "unaudited"}

\* One row per event, however often the event is appended by a producer that
\* retries and delivered to consumers that lose the partition.
StoredOnce == \A j, k \in 1..Len(rows) : rows[j] = rows[k] => j = k

Stored(id) == \E k \in 1..Len(rows) : rows[k] = id

\* The committed offset never runs ahead of the table: what it covers is
\* stored, was not to be stored, or was given up at a known place.
NothingSkippedSilently ==
    \A n \in 1..committed :
        Stored(log[n].id) \/ log[n].kind = "other" \/ n \in failed \cup skipped

GivenUp(id) == \A n \in 1..Len(log) : log[n].id = id => n \in failed \cup skipped

\* From the disclosure to the row: each context disclosed gets its row in the
\* end, unless every copy of its event was swallowed or skipped.
DisclosedIsStored ==
    \A r \in Request : \A i \in Items(r) :
        answer[r] = "200" /\ item[r][i] = "found" ~> Stored(<<r, i>>) \/ GivenUp(<<r, i>>)

\* "context-query-api emits an audit.recorded event describing the access.
\* audit-writer persists the immutable audit row." (docs/architecture.md): with
\* nothing failing, each context disclosed while the writer is subscribed gets
\* its row.
AccessIsPersisted ==
    \A r \in Request : \A i \in Items(r) :
        answer[r] = "200" /\ item[r][i] = "found"
          ~> Stored(<<r, i>>) \/ \E n \in skipped : log[n].id = <<r, i>>
=============================================================================
