------------------------- MODULE IngestAnswersProofs -------------------------
(***************************************************************************)
(* Proofs about what the write path tells its clients: which refusals are  *)
(* justified, that one response claims to have created a resource, and     *)
(* that the write path implements IdempotentStore.  They rest on the       *)
(* inductive invariant of IngestProofs.                                    *)
(***************************************************************************)
EXTENDS IngestProofs

Claims(h) == pc[h] = "respond" /\ reply[h] = "fresh"

\* A handler that will answer "duplicate: false" answers with an identifier
\* that no other such answer has, given or to be given.
ClaimsDiffer ==
    \A h \in Handler : Claims(h) =>
        /\ \A a \in accepted : a.status = "fresh" => a.resource # target[h]
        /\ \A g \in Handler \ {h} : Claims(g) => target[g] # target[h]

CustomerKnown(h) ==
    cmd[h].type = "order" => ResourceStored(cmd[h].tenant, "customer", cmd[h].customer)

\* Only orders look for their customer, and their inserts begin when it is stored.
CustomerFound ==
    \A h \in Handler : /\ pc[h] = "parent" => cmd[h].type = "order"
                       /\ Creating(h) /\ pc[h] # "parent" => CustomerKnown(h)

\* The ledger row that a 409 is about to be sent for.
KeyTaken ==
    \A h \in Handler : pc[h] = "respond" /\ reply[h] = "conflict" =>
        \E r \in LedgerRows(cmd[h]) : r.cmd.body # cmd[h].body

AnswersInv == ClaimsDiffer /\ CustomerFound /\ OrderHasCustomer /\ KeyTaken

\* Committed rows stay: what a handler has found in the database remains there.
LEMMA DatabaseGrows == [Next]_vars => db \subseteq db'
<1> SUFFICES ASSUME [Next]_vars PROVE db \subseteq db'
  OBVIOUS
<1>1. ASSUME NEW h \in Handler, NEW c \in Command, Receive(h, c) PROVE db' = db
  BY <1>1 DEF Receive
<1>2. ASSUME NEW h \in Handler, Reads(h) \/ Touch(h) PROVE db' = db
  BY <1>2 DEF Reads, Touch, Connect, Reconnect, Acquire, FindLedgerRow, StartExecute,
              FindCustomer, LookupRequest, VerifyHash, LoadExisting
<1>3. ASSUME NEW h \in Handler, Inserts(h) PROVE db' = db
  BY <1>3 DEF Inserts, InsertResource, InsertOutbox, InsertRequest, ReserveKey, Insert
<1>4. ASSUME NEW h \in Handler, GiveUp(h) PROVE db' = db
  BY <1>4 DEF GiveUp, RollBack
<1>5. ASSUME NEW h \in Handler, Commit(h) \/ CommitUnacknowledged(h) PROVE db \subseteq db'
  BY <1>5 DEF Commit, CommitUnacknowledged, Publish
<1>6. ASSUME NEW h \in Handler, Respond(h) PROVE db' = db
  BY <1>6 DEF Respond
<1> QED BY <1>1, <1>2, <1>3, <1>4, <1>5, <1>6, StepCases DEF vars, Crash

\* What one handler does at a step, other than dying with the process.
Acts(h) == \/ \E c \in Command : Receive(h, c)
           \/ Reads(h) \/ Touch(h) \/ Inserts(h) \/ GiveUp(h)
           \/ Commit(h) \/ CommitUnacknowledged(h) \/ Respond(h)

\* Every step of Next that is not a crash is one of these.
LEMMA StepActs ==
    ASSUME NEW h \in Handler,
           (\E c \in Command : Receive(h, c)) \/ Step(h) \/ CommitUnacknowledged(h) \/ Fail(h)
    PROVE  Acts(h)
<1>1. CASE KeyReused(h) \/ CustomerMissing(h) \/ ForeignKeyViolation(h)
             \/ UniqueViolation(h) \/ RethrowViolation(h) \/ HashMismatch(h)
             \/ LoadMissing(h) \/ Fail(h)
  BY <1>1 DEF KeyReused, CustomerMissing, ForeignKeyViolation, UniqueViolation, Status, Acts,
              RethrowViolation, HashMismatch, LoadMissing, Fail, Refuse, GiveUp, Accepted
<1> QED BY <1>1 DEF Acts, Step, Reads, Inserts

\* The control state of the other handlers is no business of the one that acts.
LEMMA OthersStay ==
    ASSUME TypeOK, NEW h \in Handler, Acts(h)
    PROVE  \A g \in Handler \ {h} : /\ pc'[g] = pc[g] /\ cmd'[g] = cmd[g]
                                    /\ target'[g] = target[g] /\ reply'[g] = reply[g]
<1> USE DEF TypeOK
<1>1. CASE \/ \E c \in Command : Receive(h, c)
           \/ Reads(h)
  BY <1>1 DEF Receive, Reads, Connect, Reconnect, Acquire, FindLedgerRow, StartExecute,
              FindCustomer, LookupRequest, VerifyHash, LoadExisting
<1>2. CASE Touch(h) \/ Inserts(h)
  BY <1>2 DEF Touch, Inserts, InsertResource, InsertOutbox, InsertRequest, ReserveKey, Insert
<1>3. CASE GiveUp(h)
  BY <1>3 DEF GiveUp, RollBack
<1>4. CASE Commit(h) \/ CommitUnacknowledged(h) \/ Respond(h)
  BY <1>4 DEF Commit, CommitUnacknowledged, Publish, Respond
<1> QED BY <1>1, <1>2, <1>3, <1>4 DEF Acts

\* A handler comes to an answer by a commit or by giving its transaction up.
LEMMA ComesToRespond ==
    ASSUME TypeOK, NEW h \in Handler,
           \/ \E c \in Command : Receive(h, c)
           \/ Reads(h) \/ Touch(h) \/ Inserts(h) \/ Respond(h)
    PROVE  pc'[h] # "respond"
<1> USE DEF TypeOK
<1>1. CASE \/ \E c \in Command : Receive(h, c)
           \/ Reads(h)
  BY <1>1 DEF Receive, Reads, Connect, Reconnect, Acquire, FindLedgerRow, StartExecute,
              FindCustomer, LookupRequest, VerifyHash, LoadExisting
<1>2. CASE Touch(h) \/ Inserts(h) \/ Respond(h)
  BY <1>2 DEF Touch, Inserts, InsertResource, InsertOutbox, InsertRequest, ReserveKey, Insert,
              Respond
<1> QED BY <1>1, <1>2

\* The refusals that are not errors, and the statements that they come from.
LEMMA RefusalCases ==
    ASSUME TypeOK, NEW h \in Handler,
           (\E c \in Command : Receive(h, c)) \/ Step(h) \/ CommitUnacknowledged(h) \/ Fail(h),
           pc'[h] = "respond", reply'[h] \in {"conflict", "notfound"}
    PROVE  /\ cmd'[h] = cmd[h]
           /\ \/ reply'[h] = "conflict" /\ (KeyReused(h) \/ HashMismatch(h))
              \/ reply'[h] = "notfound" /\ (CustomerMissing(h) \/ LoadMissing(h))
<1> USE DEF TypeOK
<1>1. GiveUp(h)
  <2>1. GiveUp(h) \/ Commit(h) \/ CommitUnacknowledged(h)
    BY StepActs, ComesToRespond DEF Acts
  <2> QED BY <2>1 DEF Commit, CommitUnacknowledged, Publish
<1>2. CASE (\E c \in Command : Receive(h, c)) \/ CommitUnacknowledged(h) \/ Commit(h)
  BY <1>2 DEF Receive, Commit, CommitUnacknowledged, Publish
<1>3. CASE Fail(h) \/ ForeignKeyViolation(h) \/ RethrowViolation(h) \/ UniqueViolation(h)
  BY <1>3 DEF Fail, ForeignKeyViolation, RethrowViolation, UniqueViolation, Refuse, RollBack
<1>4. CASE Reads(h) \/ Touch(h) \/ Inserts(h) \/ Respond(h)
  BY <1>4, ComesToRespond
<1>5. CASE KeyReused(h) \/ HashMismatch(h)
  BY <1>5 DEF KeyReused, HashMismatch, Refuse, RollBack
<1>6. CASE CustomerMissing(h) \/ LoadMissing(h)
  BY <1>6 DEF CustomerMissing, LoadMissing, Refuse, RollBack
<1> QED BY <1>2, <1>3, <1>4, <1>5, <1>6 DEF Step, Reads, Inserts

\* A 404 is decided on by the step that ends the transaction.
LEMMA NotFoundResponds ==
    ASSUME TypeOK, NEW h \in Handler,
           (\E c \in Command : Receive(h, c)) \/ Step(h) \/ CommitUnacknowledged(h) \/ Fail(h),
           reply[h] # "notfound", reply'[h] = "notfound"
    PROVE  pc'[h] = "respond"
<1> USE DEF TypeOK
<1>1. CASE \/ \E c \in Command : Receive(h, c)
           \/ Reads(h)
  BY <1>1 DEF Receive, Reads, Connect, Reconnect, Acquire, FindLedgerRow, StartExecute,
              FindCustomer, LookupRequest, VerifyHash, LoadExisting
<1>2. CASE Touch(h) \/ Inserts(h) \/ Respond(h)
  BY <1>2 DEF Touch, Inserts, InsertResource, InsertOutbox, InsertRequest, ReserveKey, Insert,
              Respond
<1>3. CASE Commit(h) \/ CommitUnacknowledged(h)
  BY <1>3 DEF Commit, CommitUnacknowledged, Publish
<1>4. CASE Fail(h) \/ ForeignKeyViolation(h) \/ RethrowViolation(h) \/ UniqueViolation(h)
  BY <1>4 DEF Fail, ForeignKeyViolation, RethrowViolation, UniqueViolation, Refuse, RollBack
<1>5. CASE KeyReused(h) \/ HashMismatch(h) \/ CustomerMissing(h) \/ LoadMissing(h)
  BY <1>5 DEF KeyReused, HashMismatch, CustomerMissing, LoadMissing, Refuse, RollBack
<1> QED BY <1>1, <1>2, <1>3, <1>4, <1>5 DEF Step, Reads, Inserts

\* Only Respond adds to the answers received, and it adds one.
LEMMA OneAnswer ==
    ASSUME NEW h \in Handler, Acts(h)
    PROVE  \/ accepted' = accepted
           \/ /\ Respond(h) /\ reply[h] \in Accepted
              /\ accepted' = accepted \cup {[cmd |-> cmd[h], resource |-> target[h],
                                             status |-> reply[h]]}
BY DEF Acts, Receive, Reads, Connect, Reconnect, Acquire, FindLedgerRow, StartExecute,
       FindCustomer, LookupRequest, VerifyHash, LoadExisting, Touch, Inserts, InsertResource,
       InsertOutbox, InsertRequest, ReserveKey, Insert, GiveUp, RollBack, Commit,
       CommitUnacknowledged, Publish, Respond

\* The ledger rows that back two answers for one key are one row.
LEMMA OneResourcePerKey ==
    ASSUME NoConflicts, NEW c, NEW d, NEW i, NEW j, Backed(c, i), Backed(d, j),
           SameScopedKey(c, d)
    PROVE  i = j
<1>1. PICK r \in db : r.table = "ledger" /\ r.id = i /\ SameScopedKey(r.cmd, c)
  BY DEF Backed
<1>2. PICK s \in db : s.table = "ledger" /\ s.id = j /\ SameScopedKey(s.cmd, d)
  BY DEF Backed
<1>3. SameScopedKey(r.cmd, s.cmd)
  BY <1>1, <1>2 DEF SameScopedKey
<1> QED BY <1>1, <1>2, <1>3 DEF NoConflicts, Conflict

\* Rows become visible only when the transaction that wrote them commits.
LEMMA NewRows ==
    ASSUME NEW h \in Handler, Acts(h), NEW r \in db' \ db
    PROVE  (Commit(h) \/ CommitUnacknowledged(h)) /\ r \in writes[h]
BY DEF Acts, Receive, Reads, Connect, Reconnect, Acquire, FindLedgerRow, StartExecute,
       FindCustomer, LookupRequest, VerifyHash, LoadExisting, Touch, Inserts, InsertResource,
       InsertOutbox, InsertRequest, ReserveKey, Insert, GiveUp, RollBack, Commit,
       CommitUnacknowledged, Publish, Respond
-----------------------------------------------------------------------------
(* The invariant is preserved, conjunct by conjunct. *)

\* Whoever commits a creation has drawn an identifier that no row, and so no
\* answer, has had before.
LEMMA ClaimsStayDifferent ==
    ASSUME IInv, ClaimsDiffer, Next
    PROVE  ClaimsDiffer'
<1> USE DEF IInv, Typed
<1>1. CASE Crash
  BY <1>1 DEF Crash, ClaimsDiffer, Claims
<1>2. ASSUME NEW h \in Handler, Acts(h) PROVE ClaimsDiffer'
  <2>1. \A g \in Handler \ {h} : (Claims(g) <=> Claims(g)') /\ target'[g] = target[g]
    BY <1>2, OthersStay DEF Claims
  <2>2. CASE ~Claims(h)' /\ accepted' = accepted
    BY <2>1, <2>2 DEF ClaimsDiffer
  <2>3. CASE ~Claims(h)' /\ Respond(h)
    <3>1. \A g \in Handler : Claims(g)' => g # h
      BY <2>3
    <3>2. \A a \in accepted' : a.status = "fresh" =>
             a \in accepted \/ (a.resource = target[h] /\ Claims(h))
      BY <1>2, <2>3, OneAnswer DEF Claims, Respond
    <3> QED BY <2>1, <3>1, <3>2 DEF ClaimsDiffer
  <2>4. CASE Claims(h)'
    <3>1. Commit(h) /\ reply[h] = "none"
      <4>1. Commit(h) \/ CommitUnacknowledged(h) \/ GiveUp(h)
        BY <1>2, <2>4, ComesToRespond DEF Acts, Claims
      <4>2. ~GiveUp(h) /\ ~CommitUnacknowledged(h)
        BY <2>4 DEF Claims, GiveUp, RollBack, CommitUnacknowledged, TypeOK, Accepted
      <4> QED BY <2>4, <4>1, <4>2 DEF Claims, Commit, Publish, TypeOK, HandlerControl
    <3>2. target'[h] = target[h] /\ accepted' = accepted
      BY <3>1 DEF Commit, Publish
    <3>3. \A r \in db : r.id # target[h]
      BY <3>1 DEF Commit, Publish, InFlight, Creating
    <3>4. \A a \in accepted : a.resource # target[h]
      BY <3>3 DEF AcceptedBacked, Backed
    <3>5. \A g \in Handler \ {h} : Claims(g) => target[g] # target[h]
      BY <3>3 DEF Claims, Lookup, Backed, Accepted
    <3> QED BY <2>1, <3>2, <3>4, <3>5 DEF ClaimsDiffer
  <2> QED BY <1>2, <2>2, <2>3, <2>4, OneAnswer
<1> QED BY <1>1, <1>2, StepCases DEF Acts

\* A stored customer stays stored, so what ingestOrder found in its transaction
\* is still there when the order is committed.
LEMMA CustomerStaysFound ==
    ASSUME IInv, CustomerFound, OrderHasCustomer, Next
    PROVE  CustomerFound' /\ OrderHasCustomer'
<1> USE DEF IInv, Typed
<1>1. ASSUME NEW h \in Handler, cmd'[h] = cmd[h], CustomerKnown(h)
      PROVE  CustomerKnown(h)'
  BY <1>1, DatabaseGrows DEF CustomerKnown, ResourceStored
<1>2. CASE Crash
  BY <1>2 DEF Crash, CustomerFound, OrderHasCustomer, Creating, Table, ResourceStored
<1>3. ASSUME NEW h \in Handler, Acts(h) PROVE CustomerFound' /\ OrderHasCustomer'
  <2>1. ASSUME NEW g \in Handler \ {h}
        PROVE  (Creating(g) <=> Creating(g)') /\ pc'[g] = pc[g] /\ cmd'[g] = cmd[g]
    BY <1>3, OthersStay DEF Creating
  <2>2. /\ pc'[h] = "parent" => cmd'[h].type = "order"
        /\ Creating(h)' /\ pc'[h] # "parent" => CustomerKnown(h)'
    <3>1. CASE (\E c \in Command : Receive(h, c)) \/ GiveUp(h) \/ Respond(h)
               \/ Commit(h) \/ CommitUnacknowledged(h)
      BY <3>1 DEF Receive, GiveUp, RollBack, Respond, Commit, CommitUnacknowledged, Publish,
                  Creating, Table, TypeOK
    <3>2. CASE Connect(h) \/ Reconnect(h) \/ FindLedgerRow(h) \/ LookupRequest(h)
               \/ VerifyHash(h) \/ LoadExisting(h) \/ Touch(h)
      BY <3>2 DEF Connect, Reconnect, Acquire, FindLedgerRow, LookupRequest, VerifyHash,
                  LoadExisting, Touch, Creating, Table, TypeOK
    <3>3. CASE StartExecute(h)
      BY <3>3 DEF StartExecute, CustomerKnown, TypeOK
    <3>4. CASE FindCustomer(h)
      <4>1. CustomerKnown(h) /\ cmd'[h] = cmd[h] /\ pc'[h] = "resource"
        BY <3>4 DEF FindCustomer, CustomerKnown, TypeOK
      <4> QED BY <1>1, <4>1
    <3>5. CASE Inserts(h)
      <4>1. /\ pc[h] \in Table /\ pc'[h] # "parent" /\ cmd'[h] = cmd[h]
        BY <3>5 DEF Inserts, InsertResource, InsertOutbox, InsertRequest, ReserveKey, Insert,
                    Table, TypeOK
      <4> QED BY <1>1, <4>1 DEF Creating, Table, CustomerFound
    <3> QED BY <1>3, <3>1, <3>2, <3>3, <3>4, <3>5 DEF Acts, Reads
  <2>3. CustomerFound'
    BY <1>1, <2>1, <2>2 DEF CustomerFound
  <2>4. OrderHasCustomer'
    <3> SUFFICES ASSUME NEW r \in db', r.table = "resource", r.cmd.type = "order"
                 PROVE  ResourceStored(r.cmd.tenant, "customer", r.cmd.customer)'
      BY DEF OrderHasCustomer
    <3>1. ResourceStored(r.cmd.tenant, "customer", r.cmd.customer)
      <4>1. CASE r \in db
        BY <4>1 DEF OrderHasCustomer
      <4>2. CASE r \notin db
        <5>1. (Commit(h) \/ CommitUnacknowledged(h)) /\ r \in writes[h]
          BY <1>3, <4>2, NewRows
        <5>2. Creating(h) /\ pc[h] = "commit" /\ r.cmd = cmd[h]
          BY <4>2, <5>1 DEF InFlight, Commit, CommitUnacknowledged, Publish, RowOf
        <5> QED BY <5>2 DEF CustomerFound, CustomerKnown
      <4> QED BY <4>1, <4>2
    <3> QED BY <3>1, DatabaseGrows DEF ResourceStored
  <2> QED BY <2>3, <2>4
<1> QED BY <1>2, <1>3, StepCases DEF Acts

\* A handler refuses with 409 only after it has read the other payload in the
\* ledger, at the first lookup or after it lost a race.
LEMMA KeyStaysTaken ==
    ASSUME TypeOK, KeyTaken, Next
    PROVE  KeyTaken'
<1>1. \A c : LedgerRows(c) \subseteq LedgerRows(c)'
  BY DatabaseGrows DEF LedgerRows
<1>2. CASE Crash
  BY <1>2 DEF Crash, KeyTaken
<1>3. ASSUME NEW h \in Handler,
             (\E c \in Command : Receive(h, c)) \/ Step(h) \/ CommitUnacknowledged(h) \/ Fail(h)
      PROVE  KeyTaken'
  <2>1. \A g \in Handler \ {h} : pc'[g] = pc[g] /\ cmd'[g] = cmd[g] /\ reply'[g] = reply[g]
    BY <1>3, StepActs, OthersStay
  <2>2. ASSUME pc'[h] = "respond", reply'[h] = "conflict"
        PROVE  cmd'[h] = cmd[h] /\ \E r \in LedgerRows(cmd[h]) : r.cmd.body # cmd[h].body
    <3>1. cmd'[h] = cmd[h] /\ (KeyReused(h) \/ HashMismatch(h))
      BY <1>3, <2>2, RefusalCases
    <3> QED BY <3>1 DEF KeyReused, HashMismatch, BodyDiffers
  <2> QED BY <1>1, <2>1, <2>2 DEF KeyTaken
<1> QED BY <1>2, <1>3 DEF Next

\* The strengthening holds in every reachable state, together with that of
\* IngestProofs.
THEOREM AnswersInvCorrect == Spec => []AnswersInv
<1>1. Init => AnswersInv
  BY DEF Init, AnswersInv, ClaimsDiffer, Claims, CustomerFound, Creating, Table,
         OrderHasCustomer, KeyTaken
<1>2. IInv /\ AnswersInv /\ [Next]_vars => AnswersInv'
  <2> SUFFICES ASSUME IInv, AnswersInv, [Next]_vars PROVE AnswersInv'
    OBVIOUS
  <2>1. CASE Next
    BY <2>1, ClaimsStayDifferent, CustomerStaysFound, KeyStaysTaken
       DEF AnswersInv, IInv, Typed
  <2>2. CASE UNCHANGED vars
    <3> USE <2>2 DEF vars
    <3>1. ClaimsDiffer' /\ CustomerFound' /\ OrderHasCustomer'
      BY DEF AnswersInv, ClaimsDiffer, Claims, CustomerFound, CustomerKnown, Creating,
             OrderHasCustomer, ResourceStored
    <3>2. KeyTaken'
      BY DEF AnswersInv, KeyTaken, LedgerRows
    <3> QED BY <3>1, <3>2 DEF AnswersInv
  <2> QED BY <2>1, <2>2
<1> QED BY <1>1, <1>2, IInvCorrect, PTL DEF Spec
-----------------------------------------------------------------------------
(* The properties. *)

\* At most one handler is about to answer "duplicate: false" for a tenant,
\* scope and key, and no client has received such an answer: both answers
\* would name the resource of the one ledger row of the key.
THEOREM FreshIsUnique == Spec => []FreshOnce
<1>1. IInv /\ ClaimsDiffer => FreshOnce
  <2> SUFFICES ASSUME IInv, ClaimsDiffer, NEW h \in Handler, Claims(h)
               PROVE  /\ \A a \in accepted : a.status = "fresh" => ~SameScopedKey(a.cmd, cmd[h])
                      /\ \A g \in Handler \ {h} : Claims(g) => ~SameScopedKey(cmd[g], cmd[h])
    BY DEF FreshOnce, Claims
  <2>1. Backed(cmd[h], target[h])
    BY DEF IInv, Lookup, Claims, Accepted
  <2>2. ASSUME NEW a \in accepted, a.status = "fresh" PROVE ~SameScopedKey(a.cmd, cmd[h])
    BY <2>1, <2>2, OneResourcePerKey DEF IInv, AcceptedBacked, ClaimsDiffer
  <2>3. ASSUME NEW g \in Handler \ {h}, Claims(g) PROVE ~SameScopedKey(cmd[g], cmd[h])
    BY <2>1, <2>3, OneResourcePerKey DEF IInv, Lookup, Claims, Accepted, ClaimsDiffer
  <2> QED BY <2>2, <2>3
<1> QED BY <1>1, IInvCorrect, AnswersInvCorrect, PTL DEF AnswersInv

\* A 409 is sent only for a key that the ledger holds with another payload, so
\* never to a client that repeats a request it has an answer to.
THEOREM ConflictsAreReal == Spec => []ConflictIsReal
<1>1. IInv /\ KeyTaken => ConflictIsReal
  <2> SUFFICES ASSUME IInv, KeyTaken, NEW h \in Handler, pc[h] = "respond",
                      reply[h] = "conflict", NEW a \in accepted, a.cmd = cmd[h]
               PROVE  FALSE
    BY DEF ConflictIsReal, KeyTaken
  <2>1. PICK r \in LedgerRows(cmd[h]) : r.cmd.body # cmd[h].body
    BY DEF KeyTaken
  <2>2. PICK s \in db : /\ s.table = "ledger" /\ SameScopedKey(s.cmd, cmd[h])
                        /\ s.cmd.body = cmd[h].body
    BY DEF IInv, AcceptedBacked, Backed
  <2>3. Conflict(r, s)
    BY <2>1, <2>2 DEF LedgerRows, Conflict, SameScopedKey
  <2> QED BY <2>1, <2>2, <2>3 DEF LedgerRows, IInv, NoConflicts
<1> QED BY <1>1, IInvCorrect, AnswersInvCorrect, PTL DEF AnswersInv

\* A 404 is decided on only while the customer of the order is not stored, or
\* when the key was used for another type of request in the tenant: a handler
\* that was led to a resource of its own type finds it with its event, since an
\* ingestion is stored as a whole.
THEOREM NotFoundsAreReal == Spec => NotFoundIsReal
<1> DEFINE Real(h) == \/ /\ cmd[h].type = "order"
                         /\ ~ResourceStored(cmd[h].tenant, "customer", cmd[h].customer)
                      \/ \E r \in db : /\ r.table = "request" /\ SameTenantKey(r.cmd, cmd[h])
                                      /\ r.cmd.type # cmd[h].type
           Decided == \A h \in Handler : reply[h] # "notfound" /\ reply'[h] = "notfound"
                                          => Real(h)
<1>1. IInv /\ CustomerFound /\ [Next]_vars => [Decided]_vars
  <2> SUFFICES ASSUME IInv, CustomerFound, Next,
                      NEW h \in Handler, reply[h] # "notfound", reply'[h] = "notfound"
               PROVE  Real(h)
    BY DEF vars
  <2> USE DEF IInv, Typed
  <2>1. /\ (\E c \in Command : Receive(h, c)) \/ Step(h) \/ CommitUnacknowledged(h) \/ Fail(h)
    <3>1. ~Crash
      BY DEF Crash
    <3>2. PICK g \in Handler :
            (\E c \in Command : Receive(g, c)) \/ Step(g) \/ CommitUnacknowledged(g) \/ Fail(g)
      BY <3>1 DEF Next
    <3>3. g = h
      BY <3>2, StepActs, OthersStay
    <3> QED BY <3>2, <3>3
  <2>2. pc'[h] = "respond"
    BY <2>1, NotFoundResponds
  <2>3. CustomerMissing(h) \/ LoadMissing(h)
    BY <2>1, <2>2, RefusalCases
  <2>4. CASE CustomerMissing(h)
    BY <2>4 DEF CustomerMissing, CustomerFound
  <2>5. CASE LoadMissing(h)
    <3>1. PICK r \in RequestRows(cmd[h]) : r.id = target[h]
      BY <2>5 DEF LoadMissing, Lookup
    <3>2. RowOf("resource", r.id, r.cmd) \in db /\ RowOf("outbox", r.id, r.cmd) \in db
      BY <3>1 DEF RequestRows, AllOrNothing, Table
    <3>3. r.cmd.type # cmd[h].type
      BY <2>5, <3>1, <3>2 DEF LoadMissing, Loadable, ResourceStored, EventStored,
                              RequestRows, SameTenantKey, RowOf
    <3> QED BY <3>1, <3>3 DEF RequestRows
  <2> QED BY <2>3, <2>4, <2>5
<1> QED BY <1>1, IInvCorrect, AnswersInvCorrect, PTL DEF AnswersInv, Spec, NotFoundIsReal

\* Every stored order has its customer in its own tenant, although the foreign
\* key does not compare tenants.
THEOREM OrdersHaveCustomers == Spec => []OrderHasCustomer
BY AnswersInvCorrect, PTL DEF AnswersInv
-----------------------------------------------------------------------------
(* The write path implements the idempotent store. *)

\* The store of the refinement.
Resources == {[cmd |-> r.cmd, id |-> r.id] : r \in {q \in db : q.table = "resource"}}

\* The resources of the store, in terms of the rows.
LEMMA ResourceRows ==
    ASSUME db \subseteq Row, NEW c, NEW i
    PROVE  [cmd |-> c, id |-> i] \in Resources <=> RowOf("resource", i, c) \in db
<1>1. ASSUME NEW r \in db, r.table = "resource", r.cmd = c, r.id = i
      PROVE  r = RowOf("resource", i, c)
  BY <1>1 DEF Row, RowOf
<1>2. RowOf("resource", i, c).cmd = c /\ RowOf("resource", i, c).id = i
      /\ RowOf("resource", i, c).table = "resource"
  BY DEF RowOf
<1> QED BY <1>1, <1>2 DEF Resources

\* The commit of a creation is the Create of the store: the key, the reference
\* and the identifier are new because the rows of the transaction clash with
\* no committed row, and an order has its customer.
LEMMA CommitCreates ==
    ASSUME IInv, CustomerFound, NEW h \in Handler, Creating(h),
           Commit(h) \/ CommitUnacknowledged(h),
           NEW c, c = cmd[h], NEW i, i = target[h]
    PROVE  Store!Create(c, i)
<1> USE DEF IInv, Typed, TypeOK
<1>1. pc[h] = "commit" /\ db' = db \cup writes[h] /\ accepted' = accepted
  BY DEF Commit, CommitUnacknowledged, Publish
<1>2. writes[h] = {RowOf(t, target[h], cmd[h]) : t \in Table}
  BY <1>1 DEF InFlight, Written
<1>3. ASSUME NEW e \in Resources
      PROVE  /\ e.id # target[h]
             /\ ~SameScopedKey(e.cmd, cmd[h]) /\ ~SameReference(e.cmd, cmd[h])
  <2>1. PICK r \in db : r.table = "resource" /\ e = [cmd |-> r.cmd, id |-> r.id]
    BY DEF Resources
  <2>2. e.id # target[h]
    BY <2>1 DEF InFlight
  <2>3. ~SameScopedKey(e.cmd, cmd[h])
    <3>1. RowOf("ledger", r.id, r.cmd) \in db /\ RowOf("ledger", target[h], cmd[h]) \in writes[h]
      BY <1>2 DEF AllOrNothing, Table
    <3>2. ~Conflict(RowOf("ledger", target[h], cmd[h]), RowOf("ledger", r.id, r.cmd))
      BY <3>1 DEF NoConflicts
    <3> QED BY <2>1, <2>2, <3>2 DEF Conflict, RowOf, SameScopedKey
  <2>4. ~SameReference(e.cmd, cmd[h])
    <3>1. RowOf("resource", target[h], cmd[h]) \in writes[h]
      BY <1>2 DEF Table
    <3>2. ~Conflict(RowOf("resource", target[h], cmd[h]), r)
      BY <3>1 DEF NoConflicts
    <3> QED BY <2>1, <2>2, <3>2 DEF Conflict, RowOf, SameReference
  <2> QED BY <2>2, <2>3, <2>4
<1>4. cmd[h].type = "order" =>
        \E e \in Resources : /\ e.id = cmd[h].customer /\ e.cmd.type = "customer"
                             /\ e.cmd.tenant = cmd[h].tenant
  <2> SUFFICES ASSUME cmd[h].type = "order"
               PROVE  \E e \in Resources : /\ e.id = cmd[h].customer /\ e.cmd.type = "customer"
                                           /\ e.cmd.tenant = cmd[h].tenant
    OBVIOUS
  <2>1. PICK r \in db : /\ r.table = "resource" /\ r.id = cmd[h].customer
                        /\ r.cmd.tenant = cmd[h].tenant /\ r.cmd.type = "customer"
    BY <1>1 DEF CustomerFound, CustomerKnown, ResourceStored
  <2>2. [cmd |-> r.cmd, id |-> r.id] \in Resources
    BY <2>1 DEF Resources
  <2> WITNESS [cmd |-> r.cmd, id |-> r.id] \in Resources
  <2> QED BY <2>1
<1>5. Resources' = Resources \cup {[cmd |-> cmd[h], id |-> target[h]]}
  <2>1. \A w \in writes[h] : w.table = "resource" <=> w = RowOf("resource", target[h], cmd[h])
    BY <1>2 DEF RowOf
  <2>2. RowOf("resource", target[h], cmd[h]) \in writes[h]
    BY <1>2 DEF Table
  <2> QED BY <1>1, <2>1, <2>2 DEF Resources, RowOf
<1> QED BY <1>1, <1>3, <1>4, <1>5
        DEF Store!Create, Store!Exists, Store!SameScopedKey, Store!SameReference, Resources,
            SameScopedKey, SameReference

\* Any other commit adds no resource: a retry writes versions of committed rows.
LEMMA RetryCreatesNothing ==
    ASSUME IInv, NEW h \in Handler, ~Creating(h), Commit(h) \/ CommitUnacknowledged(h)
    PROVE  Resources' = Resources /\ accepted' = accepted
<1>1. db' = db \cup writes[h] /\ writes[h] \subseteq db /\ accepted' = accepted
  BY DEF IInv, InFlight, Commit, CommitUnacknowledged, Publish
<1> QED BY <1>1 DEF Resources

\* A successful response is the Answer of the store.
LEMMA RespondAnswers ==
    ASSUME IInv, FreshOnce, NEW h \in Handler, Respond(h), reply[h] \in Accepted,
           NEW c, c = cmd[h], NEW status, status = reply[h]
    PROVE  Store!Answer(c, status)
<1> USE DEF IInv, Typed, TypeOK
<1>1. PICK r \in db : /\ r.table = "ledger" /\ r.id = target[h]
                      /\ SameScopedKey(r.cmd, cmd[h]) /\ r.cmd.body = cmd[h].body
  BY DEF Lookup, Backed
<1>2. [cmd |-> r.cmd, id |-> r.id] \in Resources
  <2>1. RowOf("resource", r.id, r.cmd) \in db
    BY DEF AllOrNothing, Table
  <2> QED BY <2>1, ResourceRows
<1>3. /\ accepted' = accepted \cup {[cmd |-> cmd[h], resource |-> target[h], status |-> reply[h]]}
      /\ Resources' = Resources
  BY DEF Respond, Resources
<1>4. reply[h] = "fresh" =>
        ~\E a \in accepted : a.status = "fresh" /\ SameScopedKey(a.cmd, cmd[h])
  BY DEF FreshOnce, Respond
<1> DEFINE e == [cmd |-> r.cmd, id |-> r.id]
<1>5. /\ SameScopedKey(e.cmd, cmd[h]) /\ e.cmd.body = cmd[h].body
      /\ accepted' = accepted \cup {[cmd |-> cmd[h], resource |-> e.id, status |-> reply[h]]}
  BY <1>1, <1>3
<1> QED BY <1>2, <1>3, <1>4, <1>5
        DEF Store!Answer, Store!SameScopedKey, SameScopedKey, Resources

\* The write path implements IdempotentStore, for every number of concurrent
\* handlers, every set of requests, and every failure and crash in between.
THEOREM ImplementsStore == Spec => Refines
<1>1. Init => Store!Init
  BY DEF Init, Store!Init
<1>2. IInv /\ CustomerFound /\ FreshOnce /\ [Next]_vars
        => [Store!Next]_<<Resources, accepted>>
  <2> SUFFICES ASSUME IInv, CustomerFound, FreshOnce, [Next]_vars
               PROVE  Store!Next \/ UNCHANGED <<Resources, accepted>>
    OBVIOUS
  <2> USE DEF IInv, Typed
  <2>1. CASE Crash \/ UNCHANGED vars
    BY <2>1 DEF Crash, vars, Resources
  <2>2. ASSUME NEW h \in Handler, Acts(h)
        PROVE  Store!Next \/ UNCHANGED <<Resources, accepted>>
    <3>1. CASE Commit(h) \/ CommitUnacknowledged(h)
      <4>1. CASE Creating(h)
        <5>1. cmd[h] \in Command /\ target[h] \in Id
          BY <3>1 DEF HandlerControl, Commit, CommitUnacknowledged, Publish
        <5> QED BY <3>1, <4>1, <5>1, CommitCreates DEF Store!Next
      <4>2. CASE ~Creating(h)
        BY <3>1, <4>2, RetryCreatesNothing
      <4> QED BY <4>1, <4>2
    <3>2. CASE ~(Commit(h) \/ CommitUnacknowledged(h))
      <4>1. Resources' = Resources
        <5>1. db' = db
          BY <2>2, <3>2, NewRows, DatabaseGrows
        <5> QED BY <5>1 DEF Resources
      <4>2. CASE Respond(h) /\ reply[h] \in Accepted
        <5>1. cmd[h] \in Command
          BY <4>2 DEF HandlerControl, Respond
        <5> QED BY <4>2, <5>1, RespondAnswers DEF Store!Next, Accepted
      <4> QED BY <2>2, <4>1, <4>2, OneAnswer
    <3> QED BY <3>1, <3>2
  <2> QED BY <2>1, <2>2, StepCases DEF Acts
<1> QED BY <1>1, <1>2, IInvCorrect, AnswersInvCorrect, FreshIsUnique, PTL
        DEF Spec, Refines, Store!Spec, AnswersInv, Resources
=============================================================================
