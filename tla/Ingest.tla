------------------------------- MODULE Ingest -------------------------------
(***************************************************************************)
(* The write path of Context Lake: the handlers of services/ingest-api     *)
(* that execute POST /ingest/customer, /ingest/order and                   *)
(* /ingest/agent-session against PostgreSQL under READ COMMITTED.          *)
(*                                                                         *)
(* A handler runs IngestService.runIngestion one SQL statement at a time,  *)
(* so that statements of concurrent requests interleave.  The database is  *)
(* the set db of committed rows; each open transaction has a set of        *)
(* written rows, visible to others only through the unique indexes: an     *)
(* insert that clashes with an uncommitted row waits, one that clashes     *)
(* with a committed row raises a unique violation.                         *)
(*                                                                         *)
(* The columns of a row are functions of the command that wrote it and of  *)
(* the identifiers drawn for it.  One member of Id stands for all the      *)
(* random UUIDs of one transaction (request_id, resource id, event_id).    *)
(***************************************************************************)
EXTENDS Naturals, FiniteSets

CONSTANTS Handler,   \* concurrent executions of a request handler
          Tenant,    \* tenants, from the header x-tenant-id
          Key,       \* values of the header idempotency-key
          Body,      \* request payloads, compared by hash
          Ref,       \* values of external_ref and order_number
          Id,        \* generated UUIDs
          NoId,      \* SQL null in a foreign key, no identifier yet
          NoCommand, \* what an idle handler executes
          Command,   \* the requests that clients send and retry
          PoolMax    \* connections of the pool (10 in createDbPool)

RequestType == {"customer", "order", "agent_session"}
Table == {"resource", "outbox", "request", "ledger"}

AllCommands == [tenant : Tenant, type : RequestType, key : Key, body : Body,
                ref : Ref, customer : Id \cup {NoId}, order : Id \cup {NoId}]

ASSUME CommandAssumption == Command \subseteq AllCommands
ASSUME NullAssumption == NoId \notin Id /\ NoCommand \notin Command
ASSUME PoolAssumption == PoolMax \in Nat \ {0}

VARIABLES db,       \* committed rows of the four tables
          writes,   \* rows written by the open transaction of each handler
          pc,       \* the statement each handler executes next
          cmd,      \* the command each handler executes
          target,   \* the identifier a handler has drawn or has looked up
          reply,    \* outcome of the handler, sent by Respond
          accepted  \* successful responses clients have received (history)

vars == <<db, writes, pc, cmd, target, reply, accepted>>

Row == [table : Table, id : Id, cmd : Command]
\* Bug: the row is written without its resource_id.
Bug_RowOf(t, i, c) == [table |-> t, id |-> NoId, cmd |-> c]

RowOf(t, i, c) == [table |-> t, id |-> i, cmd |-> c]

Pc == {"idle", "connect", "find", "touch", "parent", "commit", "respond",
       "reconnect", "lookup", "verify", "load"} \cup Table
Status == {"none", "fresh", "duplicate", "conflict", "notfound", "error"}
Accepted == {"fresh", "duplicate"}
Answer == [cmd : Command, resource : Id, status : Accepted]

TypeOK ==
    /\ db \subseteq Row
    /\ writes \in [Handler -> SUBSET Row]
    /\ pc \in [Handler -> Pc]
    /\ cmd \in [Handler -> Command \cup {NoCommand}]
    /\ target \in [Handler -> Id \cup {NoId}]
    /\ reply \in [Handler -> Status]
    /\ accepted \subseteq Answer

Init ==
    /\ db = {}
    /\ writes = [h \in Handler |-> {}]
    /\ pc = [h \in Handler |-> "idle"]
    /\ cmd = [h \in Handler |-> NoCommand]
    /\ target = [h \in Handler |-> NoId]
    /\ reply = [h \in Handler |-> "none"]
    /\ accepted = {}
-----------------------------------------------------------------------------
(* Keys and indexes. *)

\* The same row of the deduplication ledger: unique (tenant_id, scope, key).
SameScopedKey(c, d) == c.tenant = d.tenant /\ c.type = d.type /\ c.key = d.key

\* The partial unique index of ingestion_requests has no scope column.
SameTenantKey(c, d) == c.tenant = d.tenant /\ c.key = d.key

\* unique (tenant_id, external_ref) and unique (tenant_id, order_number);
\* agent_sessions has no such constraint.
SameReference(c, d) ==
    /\ c.tenant = d.tenant /\ c.type = d.type /\ c.ref = d.ref
    /\ c.type # "agent_session"

\* Two different rows that no table may hold together.
Conflict(r, s) ==
    /\ r.table = s.table
    /\ r # s
    /\ \/ r.id = s.id
       \/ r.table = "resource" /\ SameReference(r.cmd, s.cmd)
       \/ r.table = "request" /\ SameTenantKey(r.cmd, s.cmd)
       \/ r.table = "ledger" /\ SameScopedKey(r.cmd, s.cmd)

\* Writing row must wait for the transaction of another handler to end: it
\* has written a clashing row, or a new version of the same row.
MustWait(h, row) ==
    \E g \in Handler \ {h} : \E w \in writes[g] : w = row \/ Conflict(row, w)

Clashes(row) == \E r \in db : Conflict(row, r)

LedgerRows(c) == {r \in db : r.table = "ledger" /\ SameScopedKey(r.cmd, c)}
RequestRows(c) == {r \in db : r.table = "request" /\ SameTenantKey(r.cmd, c)}

ResourceStored(tenant, type, i) ==
    \E r \in db : /\ r.table = "resource" /\ r.id = i
                  /\ r.cmd.tenant = tenant /\ r.cmd.type = type

EventStored(tenant, type, i) ==
    \E r \in db : /\ r.table = "outbox" /\ r.id = i
                  /\ r.cmd.tenant = tenant /\ r.cmd.type = type

\* The foreign keys compare identifiers only, not tenants.
ForeignKeysHold(c) ==
    /\ c.customer # NoId =>
         \E r \in db : r.table = "resource" /\ r.cmd.type = "customer" /\ r.id = c.customer
    /\ c.order # NoId =>
         \E r \in db : r.table = "resource" /\ r.cmd.type = "order" /\ r.id = c.order

\* randomUUID and gen_random_uuid never repeat a value.
Unused(i) == /\ \A r \in db : r.id # i
             /\ \A h \in Handler : target[h] # i
-----------------------------------------------------------------------------
(* The connection pool and the ends of a transaction. *)

\* Bug: the second transaction is opened before the first one is released.
Bug_Connected == {h \in Handler : pc[h] \notin {"idle", "connect", "respond"}}

Connected == {h \in Handler : pc[h] \notin {"idle", "connect", "reconnect", "respond"}}

\* pool.connect and begin, for the first transaction or for the second one
\* that looks the winner of a race up.
Acquire(h, from, to) ==
    /\ pc[h] = from
    /\ Cardinality(Connected) < PoolMax
    /\ pc' = [pc EXCEPT ![h] = to]
    /\ UNCHANGED <<db, writes, cmd, target, reply, accepted>>

\* The statement raised: withTransaction rolls back, releases and rethrows.
RollBack(h, status, to) ==
    /\ writes' = [writes EXCEPT ![h] = {}]
    /\ reply' = [reply EXCEPT ![h] = status]
    /\ pc' = [pc EXCEPT ![h] = to]
    /\ target' = [target EXCEPT ![h] = NoId]
    /\ UNCHANGED <<db, cmd, accepted>>

Refuse(h, status) == RollBack(h, status, "respond")
-----------------------------------------------------------------------------
(* One request. *)

\* A client sends a command, for the first time or again.
Receive(h, c) ==
    /\ pc[h] = "idle"
    /\ pc' = [pc EXCEPT ![h] = "connect"]
    /\ cmd' = [cmd EXCEPT ![h] = c]
    /\ UNCHANGED <<db, writes, target, reply, accepted>>

Connect(h) == Acquire(h, "connect", "find")

\* Bug: the key is looked up without its scope.
Bug_KeyReused(h) ==
    /\ pc[h] = "find"
    /\ \E r \in RequestRows(cmd[h]) : r.cmd.body # cmd[h].body
    /\ Refuse(h, "conflict")

\* findByKey returns a ledger row whose hash differs: 409.
KeyReused(h) ==
    /\ pc[h] = "find"
    /\ \E r \in LedgerRows(cmd[h]) : r.cmd.body # cmd[h].body
    /\ Refuse(h, "conflict")

\* findByKey returns a ledger row with the same hash.  The early return for a
\* row without resource_id is dead code: reserve always stores one.
FindLedgerRow(h) ==
    /\ pc[h] = "find"
    /\ \E r \in LedgerRows(cmd[h]) :
         /\ r.cmd.body = cmd[h].body
         /\ target' = [target EXCEPT ![h] = r.id]
    /\ pc' = [pc EXCEPT ![h] = "touch"]
    /\ UNCHANGED <<db, writes, cmd, reply, accepted>>

\* touch writes a new version of the ledger row (last_seen_at), which locks it.
Touch(h) ==
    /\ pc[h] = "touch"
    /\ \E r \in LedgerRows(cmd[h]) :
         /\ r.id = target[h]
         /\ ~MustWait(h, r)
         /\ writes' = [writes EXCEPT ![h] = @ \cup {r}]
    /\ pc' = [pc EXCEPT ![h] = "load"]
    /\ UNCHANGED <<db, cmd, target, reply, accepted>>

\* findByKey returns nothing: draw the identifiers and start execute.
StartExecute(h) ==
    /\ pc[h] = "find"
    /\ LedgerRows(cmd[h]) = {}
    /\ \E i \in Id : Unused(i) /\ target' = [target EXCEPT ![h] = i]
    /\ pc' = [pc EXCEPT ![h] = IF cmd[h].type = "order" THEN "parent" ELSE "resource"]
    /\ UNCHANGED <<db, writes, cmd, reply, accepted>>

\* Bug: the lookup is left to the foreign key.
Bug_FindCustomer(h) ==
    /\ pc[h] = "parent"
    /\ pc' = [pc EXCEPT ![h] = "resource"]
    /\ UNCHANGED <<db, writes, cmd, target, reply, accepted>>

\* ingestOrder looks the customer up in the tenant of the request.
FindCustomer(h) ==
    /\ pc[h] = "parent"
    /\ ResourceStored(cmd[h].tenant, "customer", cmd[h].customer)
    /\ pc' = [pc EXCEPT ![h] = "resource"]
    /\ UNCHANGED <<db, writes, cmd, target, reply, accepted>>

CustomerMissing(h) ==
    /\ pc[h] = "parent"
    /\ ~ResourceStored(cmd[h].tenant, "customer", cmd[h].customer)
    /\ Refuse(h, "notfound")

\* Bug: the statements run outside the transaction and commit one by one.
Bug_Insert(h, table, next) ==
    LET row == RowOf(table, target[h], cmd[h])
    IN  /\ pc[h] = table
        /\ ~MustWait(h, row)
        /\ ~Clashes(row)
        /\ db' = db \cup {row}
        /\ pc' = [pc EXCEPT ![h] = next]
        /\ UNCHANGED <<writes, cmd, target, reply, accepted>>

\* One insert of the transaction, once no open transaction stands in its way.
Insert(h, table, next) ==
    LET row == RowOf(table, target[h], cmd[h])
    IN  /\ pc[h] = table
        /\ ~MustWait(h, row)
        /\ ~Clashes(row)
        /\ writes' = [writes EXCEPT ![h] = @ \cup {row}]
        /\ pc' = [pc EXCEPT ![h] = next]
        /\ UNCHANGED <<db, cmd, target, reply, accepted>>

InsertResource(h) == /\ pc[h] = "resource"
                     /\ ForeignKeysHold(cmd[h])
                     /\ Insert(h, "resource", "outbox")
\* Bug: the event is not written in the transaction of its resource.
Bug_InsertOutbox(h) ==
    /\ pc[h] = "outbox"
    /\ pc' = [pc EXCEPT ![h] = "request"]
    /\ UNCHANGED <<db, writes, cmd, target, reply, accepted>>

InsertOutbox(h) == Insert(h, "outbox", "request")
InsertRequest(h) == Insert(h, "request", "ledger")
ReserveKey(h) == Insert(h, "ledger", "commit")

\* 23503 is not a unique violation: the error reaches the client as a 500.
ForeignKeyViolation(h) ==
    /\ pc[h] = "resource"
    /\ ~ForeignKeysHold(cmd[h])
    /\ Refuse(h, "error")

\* 23505: roll back, release the connection, then open a second transaction.
UniqueViolation(h) ==
    /\ pc[h] \in Table
    /\ LET row == RowOf(pc[h], target[h], cmd[h])
       IN  ~MustWait(h, row) /\ Clashes(row)
    /\ RollBack(h, "none", "reconnect")

Reconnect(h) == Acquire(h, "reconnect", "lookup")

\* findByIdempotencyKey, which has no scope, finds the request of the winner.
LookupRequest(h) ==
    /\ pc[h] = "lookup"
    /\ \E r \in RequestRows(cmd[h]) : target' = [target EXCEPT ![h] = r.id]
    /\ pc' = [pc EXCEPT ![h] = "verify"]
    /\ UNCHANGED <<db, writes, cmd, reply, accepted>>

\* It finds none: the clash was on external_ref or order_number.  Rethrow.
RethrowViolation(h) ==
    /\ pc[h] = "lookup"
    /\ RequestRows(cmd[h]) = {}
    /\ Refuse(h, "error")

\* Bug: the loser of a race does not compare payloads.
Bug_BodyDiffers(h) == FALSE

BodyDiffers(h) == \E r \in LedgerRows(cmd[h]) : r.cmd.body # cmd[h].body

VerifyHash(h) ==
    /\ pc[h] = "verify"
    /\ ~BodyDiffers(h)
    /\ pc' = [pc EXCEPT ![h] = "load"]
    /\ UNCHANGED <<db, writes, cmd, target, reply, accepted>>

HashMismatch(h) ==
    /\ pc[h] = "verify"
    /\ BodyDiffers(h)
    /\ Refuse(h, "conflict")

\* Bug: the resource is looked up in the wrong table.
Bug_Loadable(h) == \E r \in db : r.table = "resource" /\ r.id = target[h]

\* loadExisting: the resource in the table of the request's type, and the
\* latest event of that entity in the outbox.
Loadable(h) == /\ ResourceStored(cmd[h].tenant, cmd[h].type, target[h])
               /\ EventStored(cmd[h].tenant, cmd[h].type, target[h])

LoadExisting(h) ==
    /\ pc[h] = "load"
    /\ Loadable(h)
    /\ reply' = [reply EXCEPT ![h] = "duplicate"]
    /\ pc' = [pc EXCEPT ![h] = "commit"]
    /\ UNCHANGED <<db, writes, cmd, target, accepted>>

LoadMissing(h) ==
    /\ pc[h] = "load"
    /\ ~Loadable(h)
    /\ Refuse(h, "notfound")

\* The database makes the rows of the transaction visible, all at once.
Publish(h) ==
    /\ pc[h] = "commit"
    /\ db' = db \cup writes[h]
    /\ writes' = [writes EXCEPT ![h] = {}]
    /\ pc' = [pc EXCEPT ![h] = "respond"]
    /\ UNCHANGED <<cmd, accepted>>

\* Bug: a retry is answered as if it had created the resource.
Bug_Commit(h) ==
    /\ Publish(h)
    /\ reply' = [reply EXCEPT ![h] = "fresh"]
    /\ UNCHANGED target

Commit(h) ==
    /\ Publish(h)
    /\ reply' = [reply EXCEPT ![h] = IF @ = "duplicate" THEN @ ELSE "fresh"]
    /\ UNCHANGED target

\* The commit took effect but its acknowledgement is lost: the handler sees
\* an error, rolls back in vain and answers 500.
CommitUnacknowledged(h) ==
    /\ Publish(h)
    /\ reply' = [reply EXCEPT ![h] = "error"]
    /\ target' = [target EXCEPT ![h] = NoId]

\* The handler becomes idle; its response reaches the client.
Respond(h) ==
    /\ pc[h] = "respond"
    /\ accepted' = IF reply[h] \in Accepted
                     THEN accepted \cup {[cmd |-> cmd[h], resource |-> target[h],
                                          status |-> reply[h]]}
                     ELSE accepted
    /\ pc' = [pc EXCEPT ![h] = "idle"]
    /\ cmd' = [cmd EXCEPT ![h] = NoCommand]
    /\ target' = [target EXCEPT ![h] = NoId]
    /\ reply' = [reply EXCEPT ![h] = "none"]
    /\ UNCHANGED <<db, writes>>

\* A statement, or pool.connect, fails for a reason of its own: 500.
Fail(h) ==
    /\ pc[h] \notin {"idle", "respond"}
    /\ Refuse(h, "error")

\* The process stops: every open transaction is aborted by the server and
\* every response not yet received is lost.
Crash ==
    /\ \E h \in Handler : pc[h] # "idle"
    /\ writes' = [h \in Handler |-> {}]
    /\ pc' = [h \in Handler |-> "idle"]
    /\ cmd' = [h \in Handler |-> NoCommand]
    /\ target' = [h \in Handler |-> NoId]
    /\ reply' = [h \in Handler |-> "none"]
    /\ UNCHANGED <<db, accepted>>
-----------------------------------------------------------------------------
\* What a handler does when nothing fails.
Step(h) ==
    \/ Connect(h) \/ KeyReused(h) \/ FindLedgerRow(h) \/ Touch(h)
    \/ StartExecute(h) \/ FindCustomer(h) \/ CustomerMissing(h)
    \/ InsertResource(h) \/ InsertOutbox(h) \/ InsertRequest(h) \/ ReserveKey(h)
    \/ ForeignKeyViolation(h) \/ UniqueViolation(h)
    \/ Reconnect(h) \/ LookupRequest(h) \/ RethrowViolation(h)
    \/ VerifyHash(h) \/ HashMismatch(h) \/ LoadExisting(h) \/ LoadMissing(h)
    \/ Commit(h) \/ Respond(h)

Next ==
    \/ \E h \in Handler : \/ \E c \in Command : Receive(h, c)
                          \/ Step(h)
                          \/ CommitUnacknowledged(h)
                          \/ Fail(h)
    \/ Crash

Spec == Init /\ [][Next]_vars

\* Strong fairness of each handler: pg-pool serves waiters first in first
\* out and so does a PostgreSQL lock queue, so a handler whose next statement
\* is possible again and again is served in the end.
FairSpec == Spec /\ \A h \in Handler : SF_vars(Step(h))
-----------------------------------------------------------------------------
(* What the write path promises. *)

\* All successful responses (202, or 200 for a duplicate) for one tenant,
\* scope and idempotency key name the same resource and were given to the same
\* payload (runIngestion and the unique indexes it leans on;
\* docs/ingestion.md: "return the original resource reference instead of
\* creating a second domain write").
IdempotentAnswers ==
    \A a, b \in accepted : SameScopedKey(a.cmd, b.cmd) =>
        a.resource = b.resource /\ a.cmd.body = b.cmd.body

\* A response a client has received is backed by all four committed rows, for
\* its own tenant, scope, key and payload, whatever crashed since.
AcceptedIsStored ==
    \A a \in accepted : \A t \in Table :
        \E r \in db : /\ r.table = t /\ r.id = a.resource
                      /\ SameScopedKey(r.cmd, a.cmd) /\ r.cmd.body = a.cmd.body

\* No reader ever sees part of an ingestion: a committed row of one table has
\* its companions in the three others, so no resource lacks its outbox event
\* and no event announces a resource that was rolled back.
AllOrNothing ==
    \A r \in db : \A t \in Table : RowOf(t, r.id, r.cmd) \in db

\* The unique indexes hold of the committed rows, and no open transaction
\* can break them by committing what it has written so far.
IndexesHold ==
    /\ \A r, s \in db : ~Conflict(r, s)
    /\ \A h \in Handler : \A w \in writes[h] : ~Clashes(w)

\* A 409 is sent only when the ledger holds the key with another payload, so
\* a client that retries its own request is never told it conflicts.
ConflictIsReal ==
    \A h \in Handler : pc[h] = "respond" /\ reply[h] = "conflict" =>
        /\ \E r \in LedgerRows(cmd[h]) : r.cmd.body # cmd[h].body
        /\ \A a \in accepted : a.cmd # cmd[h]

\* A handler decides on a 404 only while the customer of its order is not
\* stored, or when its key was used for another type of request in its tenant:
\* the second lookup of a request that lost a race has no scope.  So a retry of
\* what was stored, an order included, never gets one.
NotFoundIsReal ==
    [][\A h \in Handler : reply[h] # "notfound" /\ reply'[h] = "notfound" =>
        \/ /\ cmd[h].type = "order"
           /\ ~ResourceStored(cmd[h].tenant, "customer", cmd[h].customer)
        \/ \E r \in db : /\ r.table = "request" /\ SameTenantKey(r.cmd, cmd[h])
                        /\ r.cmd.type # cmd[h].type]_vars

\* An order is stored only for a customer stored in the order's own tenant.
OrderHasCustomer ==
    \A r \in db : r.table = "resource" /\ r.cmd.type = "order" =>
        ResourceStored(r.cmd.tenant, "customer", r.cmd.customer)

\* A response "duplicate: false" is given at most once per tenant, scope and
\* key: whoever is about to give one is the only one, and no client has
\* received one before.
FreshOnce ==
    \A h \in Handler : pc[h] = "respond" /\ reply[h] = "fresh" =>
        /\ ~\E a \in accepted : a.status = "fresh" /\ SameScopedKey(a.cmd, cmd[h])
        /\ ~\E g \in Handler \ {h} : /\ pc[g] = "respond" /\ reply[g] = "fresh"
                                     /\ SameScopedKey(cmd[g], cmd[h])

\* A handler never waits for ever, neither for a connection nor for a lock:
\* every request ends (with a response, or with the process).
EveryRequestEnds == \A h \in Handler : pc[h] # "idle" ~> pc[h] = "idle"

\* The write path implements the idempotent store: the resources of the store
\* are the committed resource rows, and every statement, failure or crash is a
\* Create, an Answer or no step of the store.
Store == INSTANCE IdempotentStore
           WITH store <- {[cmd |-> r.cmd, id |-> r.id] :
                            r \in {q \in db : q.table = "resource"}}
Refines == Store!Spec
=============================================================================
