---------------------------- MODULE IngestProofs ----------------------------
(***************************************************************************)
(* Proofs about Ingest, for every set of handlers, commands, keys and      *)
(* identifiers and every size of the connection pool.                      *)
(***************************************************************************)
EXTENDS Ingest, TLAPS

\* What a handler holds at each point of its control flow.
HandlerControl(h) ==
    /\ pc[h] # "idle" => cmd[h] \in Command
    /\ pc[h] \in Table \cup {"parent", "touch", "verify", "load", "commit"} => target[h] \in Id
    /\ pc[h] \notin {"commit", "respond"} => reply[h] = "none"
    /\ pc[h] = "commit" => reply[h] \in {"none", "duplicate"}
    /\ pc[h] = "respond" => reply[h] # "none"
    /\ pc[h] = "respond" /\ reply[h] \in Accepted => target[h] \in Id

Typed == TypeOK /\ \A h \in Handler : HandlerControl(h)

\* Every way in which a transaction is given up is one RollBack.
GiveUp(h) == \E status \in Status \ Accepted :
                \/ status # "none" /\ RollBack(h, status, "respond")
                \/ status = "none" /\ RollBack(h, status, "reconnect")

\* The steps of a handler, in the groups that the proofs treat alike.
Reads(h) == \/ Connect(h) \/ Reconnect(h) \/ FindLedgerRow(h) \/ StartExecute(h)
            \/ FindCustomer(h) \/ LookupRequest(h) \/ VerifyHash(h) \/ LoadExisting(h)

Inserts(h) == InsertResource(h) \/ InsertOutbox(h) \/ InsertRequest(h) \/ ReserveKey(h)

\* Next is the union of the groups: in particular every error path of
\* runIngestion is one GiveUp.
LEMMA StepCases ==
    ASSUME Next
    PROVE  \/ \E h \in Handler : \/ \E c \in Command : Receive(h, c)
                                 \/ Reads(h) \/ Touch(h) \/ Inserts(h)
                                 \/ pc[h] # "idle" /\ GiveUp(h)
                                 \/ Commit(h) \/ CommitUnacknowledged(h) \/ Respond(h)
           \/ Crash
<1>1. ASSUME NEW h \in Handler,
             KeyReused(h) \/ CustomerMissing(h) \/ ForeignKeyViolation(h)
               \/ UniqueViolation(h) \/ RethrowViolation(h) \/ HashMismatch(h)
               \/ LoadMissing(h) \/ Fail(h)
      PROVE  pc[h] # "idle" /\ GiveUp(h)
  BY <1>1 DEF KeyReused, CustomerMissing, ForeignKeyViolation, UniqueViolation, Status,
              RethrowViolation, HashMismatch, LoadMissing, Fail, Refuse, GiveUp, Table, Accepted
<1> QED BY <1>1 DEF Next, Step, Reads, Inserts

\* The types, and what a handler holds where, are preserved by every step.
LEMMA TypedInductive ==
    ASSUME Typed, [Next]_vars
    PROVE  Typed'
<1> USE DEF Typed, TypeOK, HandlerControl, Pc, Status, Accepted, Table
<1>1. CASE UNCHANGED vars
  BY <1>1 DEF vars
<1>2. ASSUME NEW h \in Handler, NEW c \in Command, Receive(h, c) PROVE Typed'
  BY <1>2 DEF Receive
<1>3. ASSUME NEW h \in Handler, Reads(h) PROVE Typed'
  <2>1. CASE Connect(h) \/ Reconnect(h)
    BY <2>1 DEF Connect, Reconnect, Acquire
  <2>2. CASE FindLedgerRow(h) \/ LookupRequest(h)
    BY <2>2 DEF FindLedgerRow, LookupRequest, LedgerRows, RequestRows, Row
  <2>3. CASE StartExecute(h)
    BY <2>3 DEF StartExecute
  <2>4. CASE FindCustomer(h) \/ VerifyHash(h) \/ LoadExisting(h)
    BY <2>4 DEF FindCustomer, VerifyHash, LoadExisting
  <2> QED BY <1>3, <2>1, <2>2, <2>3, <2>4 DEF Reads
<1>4. ASSUME NEW h \in Handler, Touch(h) PROVE Typed'
  BY <1>4 DEF Touch, LedgerRows
<1>5. ASSUME NEW h \in Handler, Inserts(h) PROVE Typed'
  <2>1. PICK t \in Table, n \in {"outbox", "request", "ledger", "commit"} : Insert(h, t, n)
    BY <1>5 DEF Inserts, InsertResource, InsertOutbox, InsertRequest, ReserveKey
  <2>2. RowOf(t, target[h], cmd[h]) \in Row
    BY <2>1 DEF Insert, RowOf, Row
  <2> QED BY <2>1, <2>2 DEF Insert
<1>6. ASSUME NEW h \in Handler, pc[h] # "idle", GiveUp(h) PROVE Typed'
  BY <1>6 DEF GiveUp, RollBack
<1>7. ASSUME NEW h \in Handler, Commit(h) \/ CommitUnacknowledged(h) PROVE Typed'
  BY <1>7 DEF Commit, CommitUnacknowledged, Publish
<1>8. ASSUME NEW h \in Handler, Respond(h) PROVE Typed'
  BY <1>8 DEF Respond, Answer
<1>9. CASE Crash
  BY <1>9 DEF Crash
<1> QED BY <1>1, <1>2, <1>3, <1>4, <1>5, <1>6, <1>7, <1>8, <1>9, StepCases

\* Every reachable state is well typed: in particular every row, committed or
\* not, names a generated identifier and the command that wrote it.
THEOREM TypeCorrect == Spec => []TypeOK
<1>1. Init => Typed
  BY DEF Init, Typed, TypeOK, HandlerControl, Pc, Status, Accepted, Table
<1>2. Typed => TypeOK
  BY DEF Typed
<1> QED BY <1>1, <1>2, TypedInductive, PTL DEF Spec
-----------------------------------------------------------------------------
(* The inductive invariant of the write path. *)

\* The transaction of h is inserting, and has not committed.
Creating(h) == \/ pc[h] \in Table \cup {"parent"}
               \/ pc[h] = "commit" /\ reply[h] = "none"

\* The tables it has written when its next statement is p.
Written(p) == CASE p = "outbox" -> {"resource"}
                [] p = "request" -> {"resource", "outbox"}
                [] p = "ledger" -> {"resource", "outbox", "request"}
                [] p = "commit" -> Table
                [] OTHER -> {}

InFlight(h) ==
    /\ Creating(h) => /\ writes[h] = {RowOf(t, target[h], cmd[h]) : t \in Written(pc[h])}
                      /\ \A r \in db : r.id # target[h]
                      /\ \A g \in Handler \ {h} : target[g] # target[h]
    /\ ~Creating(h) => /\ writes[h] \subseteq db
                       /\ pc[h] \notin {"load", "commit"} => writes[h] = {}

NoConflicts ==
    /\ \A r, s \in db : ~Conflict(r, s)
    /\ \A h \in Handler : \A w \in writes[h], r \in db : ~Conflict(w, r)
    /\ \A h, g \in Handler : h # g => \A w \in writes[h], v \in writes[g] : ~Conflict(w, v)

\* The ledger row that justifies answering command c with resource i.
Backed(c, i) == \E r \in db : /\ r.table = "ledger" /\ r.id = i
                              /\ SameScopedKey(r.cmd, c) /\ r.cmd.body = c.body

\* What a handler knows of the row it has looked up.
Lookup(h) ==
    /\ pc[h] = "touch" => Backed(cmd[h], target[h])
    /\ pc[h] = "verify" => \E r \in RequestRows(cmd[h]) : r.id = target[h]
    /\ pc[h] = "load" => \E r \in RequestRows(cmd[h]) :
                           /\ r.id = target[h]
                           /\ SameScopedKey(r.cmd, cmd[h]) => r.cmd.body = cmd[h].body
    /\ reply[h] \in Accepted => Backed(cmd[h], target[h])

AcceptedBacked == \A a \in accepted : Backed(a.cmd, a.resource)

IInv == /\ Typed
        /\ \A h \in Handler : InFlight(h)
        /\ NoConflicts
        /\ AllOrNothing
        /\ \A h \in Handler : Lookup(h)
        /\ AcceptedBacked

\* The unique indexes treat both rows of a pair alike.
LEMMA ConflictSymmetric == \A r, s : Conflict(r, s) <=> Conflict(s, r)
BY DEF Conflict, SameReference, SameTenantKey, SameScopedKey

\* A committed identifier belongs to one command.
LEMMA OneCommandPerId ==
    ASSUME NoConflicts, AllOrNothing, db \subseteq Row,
           NEW r \in db, NEW s \in db, r.id = s.id
    PROVE  r.cmd = s.cmd
<1>1. RowOf("ledger", r.id, r.cmd) \in db /\ RowOf("ledger", s.id, s.cmd) \in db
  BY DEF AllOrNothing, Table
<1>2. ~Conflict(RowOf("ledger", r.id, r.cmd), RowOf("ledger", s.id, s.cmd))
  BY <1>1 DEF NoConflicts
<1> QED BY <1>2 DEF Conflict, RowOf

\* The empty database satisfies the invariant.
LEMMA InitIInv == Init => IInv
BY DEF Init, IInv, Typed, TypeOK, HandlerControl, Pc, Status, Accepted, Table, InFlight,
       Creating, NoConflicts, AllOrNothing, Lookup, AcceptedBacked

\* Looking things up disturbs nobody: the identifier that h now holds is not
\* the one that another handler is about to insert.
LEMMA ReadsIInv ==
    ASSUME IInv, NEW h \in Handler, Reads(h) \/ \E c \in Command : Receive(h, c), Typed'
    PROVE  IInv'
<1> USE DEF Table, Accepted
<1>1. /\ db' = db /\ writes' = writes /\ accepted' = accepted
      /\ \A g \in Handler \ {h} : /\ pc'[g] = pc[g] /\ cmd'[g] = cmd[g]
                                  /\ target'[g] = target[g] /\ reply'[g] = reply[g]
  BY DEF IInv, Typed, TypeOK, Reads, Receive, Connect, Reconnect, Acquire, FindLedgerRow,
         StartExecute, FindCustomer, LookupRequest, VerifyHash, LoadExisting
<1>2. \/ target'[h] = target[h]
      \/ \E r \in db : target'[h] = r.id
      \/ pc[h] = "find" /\ Unused(target'[h])
  BY DEF IInv, Typed, TypeOK, Reads, Receive, Connect, Reconnect, Acquire, FindLedgerRow,
         StartExecute, FindCustomer, LookupRequest, VerifyHash, LoadExisting, LedgerRows, RequestRows
<1>3. /\ Creating(h)' => /\ pc[h] \in {"find", "parent"} /\ pc'[h] \in {"parent", "resource"}
                         /\ \/ pc[h] = "find" /\ Unused(target'[h])
                            \/ pc[h] = "parent" /\ target'[h] = target[h] /\ cmd'[h] = cmd[h]
      /\ Creating(h) => Creating(h)'
  BY DEF IInv, Typed, TypeOK, HandlerControl, Reads, Receive, Connect, Reconnect, Acquire, FindLedgerRow,
         StartExecute, FindCustomer, LookupRequest, VerifyHash, LoadExisting, Creating
<1>4. \A g \in Handler : InFlight(g)'
  <2>1. InFlight(h)'
    <3>1. CASE Creating(h)'
      <4>1. writes[h] = {} /\ Written(pc'[h]) = {}
        BY <1>3, <3>1 DEF IInv, InFlight, Creating, Written
      <4> QED BY <1>1, <1>3, <3>1, <4>1 DEF IInv, InFlight, Unused, Creating
    <3>2. CASE ~Creating(h)'
      <4>1. writes[h] \subseteq db
        BY <1>3, <3>2 DEF IInv, InFlight
      <4>2. pc'[h] \notin {"load", "commit"} => writes[h] = {}
        BY <1>3, <3>2
           DEF IInv, Typed, TypeOK, InFlight, Reads, Receive, Connect, Reconnect, Acquire,
               FindLedgerRow, StartExecute, FindCustomer, LookupRequest, VerifyHash, LoadExisting
      <4> QED BY <1>1, <3>2, <4>1, <4>2 DEF InFlight
    <3> QED BY <3>1, <3>2
  <2>2. ASSUME NEW g \in Handler \ {h} PROVE InFlight(g)'
    <3>1. (Creating(g) <=> Creating(g)') /\ Written(pc[g]) = Written(pc'[g])
      BY <1>1 DEF Creating
    <3>2. Creating(g) => target'[h] # target[g]
      BY <1>2 DEF IInv, InFlight, Unused
    <3> QED BY <1>1, <3>1, <3>2 DEF IInv, InFlight
  <2> QED BY <2>1, <2>2
<1>5. NoConflicts' /\ AllOrNothing'
  BY <1>1 DEF IInv, NoConflicts, AllOrNothing
<1>6. \A g \in Handler : Lookup(g)'
  <2>1. ASSUME NEW g \in Handler \ {h} PROVE Lookup(g)'
    BY <1>1 DEF IInv, Lookup, Backed, RequestRows
  <2> SUFFICES Lookup(h)'
    BY <2>1
  <2>2. CASE FindLedgerRow(h)
    BY <2>2 DEF IInv, Typed, TypeOK, HandlerControl, FindLedgerRow, LedgerRows, Lookup, Backed
  <2>3. CASE LookupRequest(h)
    BY <2>3 DEF IInv, Typed, TypeOK, HandlerControl, LookupRequest, RequestRows, Lookup, Backed
  <2>4. CASE VerifyHash(h)
    <3>1. PICK r \in RequestRows(cmd[h]) : r.id = target[h]
      BY <2>4 DEF IInv, Lookup, VerifyHash
    <3>2. SameScopedKey(r.cmd, cmd[h]) => r.cmd.body = cmd[h].body
      <4>1. RowOf("ledger", r.id, r.cmd) \in db
        BY <3>1 DEF IInv, AllOrNothing, RequestRows
      <4> QED BY <2>4, <4>1 DEF VerifyHash, BodyDiffers, LedgerRows, RowOf
    <3> QED BY <2>4, <3>1, <3>2, <1>1
            DEF IInv, Typed, TypeOK, HandlerControl, VerifyHash, Lookup, RequestRows
  <2>5. CASE LoadExisting(h)
    <3>1. PICK r \in RequestRows(cmd[h]) :
                 /\ r.id = target[h]
                 /\ SameScopedKey(r.cmd, cmd[h]) => r.cmd.body = cmd[h].body
      BY <2>5 DEF IInv, Lookup, LoadExisting
    <3>2. PICK q \in db : q.id = target[h] /\ q.cmd.type = cmd[h].type
      BY <2>5 DEF LoadExisting, Loadable, ResourceStored
    <3>3. q.cmd = r.cmd
      BY <3>1, <3>2, OneCommandPerId DEF IInv, Typed, TypeOK, RequestRows
    <3>4. SameScopedKey(r.cmd, cmd[h])
      BY <3>1, <3>2, <3>3 DEF RequestRows, SameTenantKey, SameScopedKey
    <3>5. RowOf("ledger", r.id, r.cmd) \in db
      BY <3>1 DEF IInv, AllOrNothing, RequestRows
    <3>6. Backed(cmd[h], target[h])
      BY <3>1, <3>4, <3>5 DEF Backed, RowOf
    <3> QED BY <2>5, <3>6 DEF IInv, Typed, TypeOK, LoadExisting, Lookup, Backed
  <2>6. CASE Connect(h) \/ Reconnect(h) \/ StartExecute(h) \/ FindCustomer(h)
             \/ \E c \in Command : Receive(h, c)
    BY <2>6 DEF IInv, Typed, TypeOK, HandlerControl, Connect, Reconnect, Acquire, StartExecute,
                FindCustomer, Receive, Lookup, Backed
  <2> QED BY <2>2, <2>3, <2>4, <2>5, <2>6 DEF Reads
<1>7. AcceptedBacked'
  BY <1>1 DEF IInv, AcceptedBacked, Backed
<1> QED BY <1>4, <1>5, <1>6, <1>7 DEF IInv

\* Touching a row of the ledger makes a version of a committed row.
LEMMA TouchIInv ==
    ASSUME IInv, NEW h \in Handler, Touch(h), Typed'
    PROVE  IInv'
<1> USE DEF Table, Accepted
<1>1. PICK r \in LedgerRows(cmd[h]) :
           r.id = target[h] /\ writes' = [writes EXCEPT ![h] = @ \cup {r}]
  BY DEF Touch
<1>2. r \in db /\ ~Creating(h) /\ ~Creating(h)' /\ db' = db
  BY <1>1 DEF IInv, Typed, TypeOK, Touch, LedgerRows, Creating
<1>3. \A g \in Handler : InFlight(g)'
  BY <1>1, <1>2 DEF IInv, Typed, TypeOK, Touch, InFlight, Creating, Written
<1>4. NoConflicts'
  BY <1>1, <1>2, ConflictSymmetric DEF IInv, Typed, TypeOK, NoConflicts
<1>5. \A g \in Handler : Lookup(g)'
  <2>1. PICK q \in db : /\ q.table = "ledger" /\ q.id = target[h]
                        /\ SameScopedKey(q.cmd, cmd[h]) /\ q.cmd.body = cmd[h].body
    BY DEF IInv, Lookup, Touch, Backed
  <2>2. LET p == RowOf("request", q.id, q.cmd)
        IN  p \in RequestRows(cmd[h]) /\ p.id = target[h] /\ p.cmd.body = cmd[h].body
    BY <2>1 DEF IInv, AllOrNothing, RowOf, RequestRows, SameScopedKey, SameTenantKey
  <2> QED BY <1>2, <2>2
          DEF IInv, Typed, TypeOK, HandlerControl, Touch, Lookup, Backed, RequestRows
<1> QED BY <1>2, <1>3, <1>4, <1>5 DEF IInv, Touch, AllOrNothing, AcceptedBacked, Backed

\* An insert that neither waits nor clashes adds one row to its transaction.
LEMMA InsertsIInv ==
    ASSUME IInv, NEW h \in Handler, Inserts(h), Typed'
    PROVE  IInv'
<1> USE DEF Table, Accepted
<1>1. PICK t \in Table, n \in Table \cup {"commit"} :
           Insert(h, t, n) /\ Written(n) = Written(t) \cup {t}
  BY DEF Inserts, InsertResource, InsertOutbox, InsertRequest, ReserveKey, Written
<1> DEFINE row == RowOf(t, target[h], cmd[h])
<1>2. /\ pc[h] = t /\ pc' = [pc EXCEPT ![h] = n]
      /\ writes' = [writes EXCEPT ![h] = @ \cup {row}]
      /\ UNCHANGED <<db, cmd, target, reply, accepted>>
  BY <1>1 DEF Insert
<1>3. reply[h] = "none"
  BY <1>2 DEF IInv, Typed, HandlerControl
<1>4. Creating(h) /\ Creating(h)' /\ \A g \in Handler \ {h} : Creating(g) <=> Creating(g)'
  BY <1>2, <1>3 DEF IInv, Typed, TypeOK, Creating
<1>5. \A g \in Handler : InFlight(g)'
  <2>1. writes'[h] = {RowOf(u, target[h], cmd[h]) : u \in Written(n)}
    BY <1>1, <1>2, <1>4 DEF IInv, Typed, TypeOK, InFlight
  <2>2. InFlight(h)'
    BY <1>1, <1>2, <1>4, <2>1 DEF IInv, Typed, TypeOK, InFlight
  <2>3. ASSUME NEW g \in Handler \ {h} PROVE InFlight(g)'
    <3>1. pc'[g] = pc[g] /\ writes'[g] = writes[g]
      BY <1>2 DEF IInv, Typed, TypeOK
    <3>2. InFlight(g)
      BY DEF IInv
    <3> QED BY <1>2, <1>4, <3>1, <3>2 DEF InFlight
  <2> QED BY <2>2, <2>3
<1>6. NoConflicts'
  <2>1. \A r \in db : ~Conflict(row, r)
    BY <1>1 DEF Insert, Clashes
  <2>2. \A g \in Handler \ {h} : \A w \in writes[g] : ~Conflict(row, w)
    BY <1>1 DEF Insert, MustWait
  <2> HIDE DEF row
  <2> QED BY <1>2, <2>1, <2>2, ConflictSymmetric DEF IInv, Typed, TypeOK, NoConflicts
<1>7. \A g \in Handler : Lookup(g)'
  BY <1>2, <1>3 DEF IInv, Typed, TypeOK, Lookup, Backed, RequestRows
<1> QED BY <1>2, <1>5, <1>6, <1>7 DEF IInv, AllOrNothing, AcceptedBacked, Backed

\* A transaction that is given up, for whatever reason, leaves no trace.
LEMMA GiveUpIInv ==
    ASSUME IInv, NEW h \in Handler, GiveUp(h), Typed'
    PROVE  IInv'
<1> USE DEF Table, Accepted
<1>1. PICK status \in Status \ Accepted, p \in {"respond", "reconnect"} :
           RollBack(h, status, p)
  BY DEF GiveUp
<1>2. \A g \in Handler : InFlight(g)'
  BY <1>1, NullAssumption DEF RollBack, IInv, Typed, TypeOK, HandlerControl, InFlight, Creating
<1>3. NoConflicts'
  BY <1>1 DEF RollBack, IInv, Typed, TypeOK, NoConflicts
<1>4. \A g \in Handler : Lookup(g)'
  BY <1>1 DEF RollBack, IInv, Typed, TypeOK, Lookup, Backed, RequestRows
<1> QED BY <1>1, <1>2, <1>3, <1>4 DEF IInv, RollBack, AllOrNothing, AcceptedBacked, Backed

\* Becoming visible: the rows of h are complete, clash with no other row, and
\* from now on back the answer of h.
LEMMA PublishIInv ==
    ASSUME IInv, NEW h \in Handler, Commit(h) \/ CommitUnacknowledged(h), Typed'
    PROVE  IInv'
<1> USE DEF Table, Accepted
<1>1. /\ pc[h] = "commit" /\ pc' = [pc EXCEPT ![h] = "respond"]
      /\ db' = db \cup writes[h] /\ writes' = [writes EXCEPT ![h] = {}]
      /\ cmd' = cmd /\ accepted' = accepted
      /\ \A g \in Handler \ {h} : target'[g] = target[g] /\ reply'[g] = reply[g]
      /\ target'[h] \in {target[h], NoId}
  BY DEF Commit, CommitUnacknowledged, Publish, IInv, Typed, TypeOK
<1>2. \/ reply[h] = "duplicate" /\ writes[h] \subseteq db
      \/ reply[h] = "none" /\ writes[h] = {RowOf(t, target[h], cmd[h]) : t \in Table}
  BY <1>1 DEF IInv, Typed, HandlerControl, InFlight, Creating, Written
<1>3. \A w \in writes[h] : w \in db \/ w.id = target[h]
  BY <1>2 DEF RowOf
<1>4. \A g \in Handler : InFlight(g)'
  <2>1. InFlight(h)'
    BY <1>1 DEF InFlight, Creating, IInv, Typed, TypeOK
  <2>2. ASSUME NEW g \in Handler \ {h} PROVE InFlight(g)'
    <3>1. (Creating(g) <=> Creating(g)') /\ pc'[g] = pc[g] /\ writes'[g] = writes[g]
      BY <1>1 DEF Creating, IInv, Typed, TypeOK
    <3>2. CASE Creating(g)
      <4>1. \A r \in db' : r.id # target[g]
        BY <1>1, <1>3, <3>2 DEF IInv, InFlight
      <4>2. target[g] \in Id
        BY <3>2 DEF Creating, IInv, Typed, HandlerControl
      <4> QED BY <1>1, <3>1, <3>2, <4>1, <4>2, NullAssumption DEF IInv, InFlight
    <3>3. CASE ~Creating(g)
      BY <1>1, <3>1, <3>3 DEF IInv, InFlight
    <3> QED BY <3>2, <3>3
  <2> QED BY <2>1, <2>2
<1>5. NoConflicts'
  <2>1. \A v, w \in writes[h] : ~Conflict(v, w)
    <3>1. CASE writes[h] \subseteq db
      BY <3>1 DEF IInv, NoConflicts
    <3>2. CASE writes[h] = {RowOf(t, target[h], cmd[h]) : t \in Table}
      BY <3>2 DEF RowOf, Conflict
    <3> QED BY <1>2, <3>1, <3>2
  <2> QED BY <1>1, <2>1, ConflictSymmetric DEF IInv, Typed, TypeOK, NoConflicts
<1>6. AllOrNothing'
  <2> SUFFICES ASSUME NEW r \in db', NEW u \in Table PROVE RowOf(u, r.id, r.cmd) \in db'
    BY DEF AllOrNothing
  <2>1. CASE r \in db
    BY <1>1, <2>1 DEF IInv, AllOrNothing
  <2>2. CASE r \in writes[h] /\ writes[h] = {RowOf(t, target[h], cmd[h]) : t \in Table}
    <3>1. r.id = target[h] /\ r.cmd = cmd[h]
      BY <2>2 DEF RowOf
    <3> QED BY <1>1, <2>2, <3>1
  <2> QED BY <1>1, <1>2, <2>1, <2>2
<1>7. \A g \in Handler : Lookup(g)'
  <2>1. ASSUME NEW g \in Handler \ {h} PROVE Lookup(g)'
    BY <1>1 DEF IInv, Typed, TypeOK, Lookup, Backed, RequestRows
  <2>2. \E r \in db' : /\ r.table = "ledger" /\ r.id = target[h]
                       /\ SameScopedKey(r.cmd, cmd[h]) /\ r.cmd.body = cmd[h].body
    <3>1. CASE reply[h] = "duplicate"
      <4>1. Backed(cmd[h], target[h])
        BY <3>1 DEF IInv, Lookup
      <4> QED BY <1>1, <4>1 DEF Backed
    <3>2. CASE writes[h] = {RowOf(t, target[h], cmd[h]) : t \in Table}
      <4>1. RowOf("ledger", target[h], cmd[h]) \in db'
        BY <1>1, <3>2
      <4> QED BY <4>1 DEF RowOf, SameScopedKey
    <3> QED BY <1>2, <3>1, <3>2
  <2> QED BY <1>1, <2>1, <2>2
          DEF IInv, Typed, TypeOK, Lookup, Backed, Commit, CommitUnacknowledged
<1> QED BY <1>1, <1>4, <1>5, <1>6, <1>7 DEF IInv, AcceptedBacked, Backed

\* Answering records an answer that a committed ledger row backs.
LEMMA RespondIInv ==
    ASSUME IInv, NEW h \in Handler, Respond(h), Typed'
    PROVE  IInv'
<1> USE DEF Table, Accepted
<1>1. \A g \in Handler : InFlight(g)'
  BY NullAssumption DEF Respond, IInv, Typed, TypeOK, HandlerControl, InFlight, Creating
<1>2. \A g \in Handler : Lookup(g)'
  BY DEF Respond, IInv, Typed, TypeOK, Lookup, Backed, RequestRows
<1>3. AcceptedBacked'
  BY DEF Respond, IInv, Lookup, AcceptedBacked, Backed
<1> QED BY <1>1, <1>2, <1>3 DEF IInv, Respond, NoConflicts, AllOrNothing

\* A crash loses only what was not committed or not answered yet.
LEMMA CrashIInv == IInv /\ Crash /\ Typed' => IInv'
BY DEF Crash, IInv, InFlight, Creating, NoConflicts, AllOrNothing, Lookup, Accepted, Table,
       AcceptedBacked, Backed

\* The strengthening that the properties follow from holds in every reachable
\* state of the write path.
THEOREM IInvCorrect == Spec => []IInv
<1>1. IInv /\ [Next]_vars => IInv'
  <2> SUFFICES ASSUME IInv, [Next]_vars PROVE IInv'
    OBVIOUS
  <2>1. Typed'
    BY TypedInductive DEF IInv
  <2>2. CASE UNCHANGED vars
    <3> USE <2>2 DEF vars
    <3>1. (\A h \in Handler : InFlight(h))' /\ NoConflicts' /\ AllOrNothing'
      BY DEF IInv, InFlight, Creating, NoConflicts, AllOrNothing
    <3>2. (\A h \in Handler : Lookup(h))' /\ AcceptedBacked'
      BY DEF IInv, Lookup, RequestRows, AcceptedBacked, Backed
    <3> QED BY <2>1, <3>1, <3>2 DEF IInv
  <2>3. CASE Next
    BY <2>1, <2>3, StepCases, ReadsIInv, TouchIInv, InsertsIInv, GiveUpIInv, PublishIInv,
       RespondIInv, CrashIInv
  <2> QED BY <2>2, <2>3
<1> QED BY <1>1, InitIInv, PTL DEF Spec
-----------------------------------------------------------------------------
(* The properties. *)

\* No committed row ever lacks its companions in the three other tables.
THEOREM IngestionIsAtomic == Spec => []AllOrNothing
<1>1. IInv => AllOrNothing
  BY DEF IInv
<1> QED BY <1>1, IInvCorrect, PTL

\* The unique indexes always hold, and no open transaction can break them.
THEOREM IndexesAlwaysHold == Spec => []IndexesHold
<1>1. IInv => IndexesHold
  BY DEF IInv, NoConflicts, IndexesHold, Clashes
<1> QED BY <1>1, IInvCorrect, PTL

\* A response received is backed by all four rows, whatever crashed since.
THEOREM AcceptedAlwaysStored == Spec => []AcceptedIsStored
<1>1. IInv => AcceptedIsStored
  BY DEF IInv, AcceptedBacked, Backed, AllOrNothing, AcceptedIsStored, RowOf
<1> QED BY <1>1, IInvCorrect, PTL

\* All responses for one tenant, scope and key name one resource and were
\* given to one payload, however many clients retried concurrently.
THEOREM AnswersAreIdempotent == Spec => []IdempotentAnswers
<1>1. IInv => IdempotentAnswers
  <2> SUFFICES ASSUME IInv, NEW a \in accepted, NEW b \in accepted, SameScopedKey(a.cmd, b.cmd)
               PROVE  a.resource = b.resource /\ a.cmd.body = b.cmd.body
    BY DEF IdempotentAnswers
  <2>1. PICK r \in db : /\ r.table = "ledger" /\ r.id = a.resource
                        /\ SameScopedKey(r.cmd, a.cmd) /\ r.cmd.body = a.cmd.body
    BY DEF IInv, AcceptedBacked, Backed
  <2>2. PICK s \in db : /\ s.table = "ledger" /\ s.id = b.resource
                        /\ SameScopedKey(s.cmd, b.cmd) /\ s.cmd.body = b.cmd.body
    BY DEF IInv, AcceptedBacked, Backed
  <2>3. SameScopedKey(r.cmd, s.cmd)
    BY <2>1, <2>2 DEF SameScopedKey
  <2>4. r = s
    BY <2>1, <2>2, <2>3 DEF IInv, NoConflicts, Conflict
  <2> QED BY <2>1, <2>2, <2>4
<1> QED BY <1>1, IInvCorrect, PTL
=============================================================================
