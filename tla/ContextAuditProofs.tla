------------------------- MODULE ContextAuditProofs -------------------------
(***************************************************************************)
(* Proofs about ContextAudit, for every number of requests, items of a     *)
(* batch, instances of audit-writer and foreign messages.                  *)
(***************************************************************************)
EXTENDS ContextAudit, FiniteSetTheorems, TLAPS

Status == {"none", "open", "200", "404", "500", "503", "lost"}
Step == {"find", "related", "publish", "found", "missing", "unreadable", "unaudited", "stopped"}
Event == {AccessEvent(r, i) : r \in Request, i \in 1..MaxBatch} \cup Foreign

\* The requests and their items.
ApiType ==
    /\ answer \in [Request -> Status]
    /\ DOMAIN item = Request /\ \A r \in Request : item[r] \in [Items(r) -> Step]

\* The group: at most one member owns the partition, and only a member is busy.
GroupType ==
    /\ position \in [Consumer -> Nat] /\ \A c \in Consumer : position[c] <= Len(log)
    /\ committed \in Nat /\ committed <= Len(log)
    /\ owner = {} \/ \E c \in Consumer : owner = {c}
    /\ member \subseteq Consumer /\ owner \subseteq member /\ busy \subseteq member
    /\ \A c \in busy : position[c] < Len(log)

BaseInv ==
    /\ ApiType /\ GroupType
    /\ log \in Seq(Event) /\ rows \in Seq(EventId)
    /\ produced \in 0..MaxForeign
    /\ failed \subseteq 1..Len(log) /\ skipped \subseteq 1..Len(log)
    /\ joins \in 0..MaxJoins /\ failures \in 0..MaxFailures

\* An item is announced exactly when its event was sent.
AnnounceInv ==
    \A r \in Request : \A i \in Items(r) :
        /\ item[r][i] = "found" => Announced(r, i)
        /\ Announced(r, i) => item[r][i] \in {"found", "unaudited"}

Handled(n) == Stored(log[n].id) \/ log[n].kind = "other" \/ n \in failed \cup skipped

\* What a consumer has gone past is handled, and so is the message for which
\* it still refreshes the lag.
HandledInv ==
    /\ \A n \in 1..committed : Handled(n)
    /\ \A c \in Consumer : \A n \in 1..position[c] : Handled(n)
    /\ \A c \in busy : Handled(position[c] + 1)

AuditInv == BaseInv /\ AnnounceInv /\ StoredOnce /\ HandledInv
-----------------------------------------------------------------------------
(* Events and rows. *)

LEMMA ItemsInBatch ==
    ASSUME NEW r \in Request
    PROVE  Items(r) \subseteq 1..MaxBatch
<1>1. PICK n \in 1..MaxBatch : n = Len(Query[r].items)
  BY QueryAssumption
<1>2. n \in 1..10 /\ 1..n \subseteq 1..10
  BY DEF MaxBatch
<1> QED BY <1>1, <1>2 DEF Items, MaxBatch

\* The events of context queries have the ids of their items, and no others do.
LEMMA EventType ==
    ASSUME NEW m \in Event
    PROVE  /\ m.id \in EventId /\ m.kind \in MessageKind
           /\ m.kind = "audit" => m.id \in Request \X (1..MaxBatch)
           /\ m.id \in Request \X (1..MaxBatch) =>
                \E r \in Request, i \in 1..MaxBatch : m = AccessEvent(r, i)
<1>1. CASE m \in Foreign
  BY <1>1, ForeignAssumption DEF EventId
<1>2. CASE \E r \in Request, i \in 1..MaxBatch : m = AccessEvent(r, i)
  BY <1>2 DEF EventId, AccessEvent, MessageKind
<1> QED BY <1>1, <1>2 DEF Event

\* The log grows: what was there stays where it was.
Grows == /\ log' \in Seq(Event) /\ Len(log) <= Len(log')
         /\ \A n \in 1..Len(log) : log'[n] = log[n]

LEMMA AppendEvent ==
    ASSUME log \in Seq(Event), NEW m \in Event, log' = Append(log, m)
    PROVE  Grows /\ Len(log') = Len(log) + 1 /\ log'[Len(log) + 1] = m
BY DEF Grows

LEMMA AppendCopies ==
    ASSUME log \in Seq(Event), NEW m \in Event, NEW k \in 0..2, log' = log \o Copies(k, m)
    PROVE  /\ Grows /\ Len(log') = Len(log) + k
           /\ \A n \in 1..Len(log') : n \in 1..Len(log) \/ log'[n] = m
           /\ k > 0 => log'[Len(log) + 1] = m
<1> DEFINE s == Copies(k, m)
<1>1. s \in Seq(Event) /\ Len(s) = k /\ \A n \in 1..k : s[n] = m
  BY DEF Copies
<1> HIDE DEF s
<1>2. log' = log \o s
  BY DEF s
<1> QED BY <1>1, <1>2 DEF Grows

\* What has been announced, stored and handled stays so while the log grows.
LEMMA AnnouncedStays ==
    ASSUME BaseInv, Grows, NEW r, NEW i, Announced(r, i)
    PROVE  Announced(r, i)'
BY DEF BaseInv, Grows, Announced

LEMMA HandledStays ==
    ASSUME BaseInv, Grows, NEW n \in 1..Len(log), Handled(n),
           failed \subseteq failed', skipped \subseteq skipped',
           \A id : Stored(id) => Stored(id)'
    PROVE  Handled(n)'
BY DEF Grows, Handled

\* InsertImmutable stores the event and repeats no row.
LEMMA InsertRow ==
    ASSUME BaseInv, StoredOnce, NEW m \in Event, InsertImmutable(m)
    PROVE  /\ rows' \in Seq(EventId) /\ StoredOnce'
           /\ Stored(m.id)' /\ \A id : Stored(id) => Stored(id)'
<1>1. rows \in Seq(EventId) /\ m.id \in EventId
  BY EventType DEF BaseInv
<1>2. CASE SameRowId(m) \/ SameSourceEvent(m)
  <2>1. rows' = rows /\ Stored(m.id)
    BY <1>2 DEF InsertImmutable, SameRowId, SameSourceEvent, Stored
  <2> QED BY <1>1, <2>1 DEF StoredOnce, Stored
<1>3. CASE ~(SameRowId(m) \/ SameSourceEvent(m))
  <2>1. rows' = Append(rows, m.id) /\ \A k \in 1..Len(rows) : rows[k] # m.id
    BY <1>3 DEF InsertImmutable, SameSourceEvent
  <2>2. /\ rows' \in Seq(EventId) /\ Len(rows') = Len(rows) + 1
        /\ rows'[Len(rows) + 1] = m.id /\ \A k \in 1..Len(rows) : rows'[k] = rows[k]
    BY <1>1, <2>1
  <2>3. StoredOnce'
    BY <1>1, <2>1, <2>2 DEF StoredOnce
  <2>4. Stored(m.id)' /\ \A id : Stored(id) => Stored(id)'
    BY <1>1, <2>2 DEF Stored
  <2> QED BY <2>2, <2>3, <2>4
<1> QED BY <1>2, <1>3
-----------------------------------------------------------------------------
(* The steps of context-query-api and of other producers. *)

\* A step that leaves the group and the writer alone.
LEMMA ProducerStep ==
    ASSUME AuditInv, UNCHANGED <<group, writer>>, Grows, ApiType', AnnounceInv',
           produced' \in 0..MaxForeign, failures' \in 0..MaxFailures
    PROVE  AuditInv'
<1>1. /\ UNCHANGED <<committed, owner, position, member, skipped, joins, rows, busy, failed>>
      /\ Len(log) \in Nat /\ Len(log') \in Nat /\ Len(log) <= Len(log')
  BY DEF group, writer, Grows, AuditInv, BaseInv
<1>2. GroupType'
  BY <1>1 DEF AuditInv, BaseInv, GroupType
<1>3. BaseInv'
  BY <1>1, <1>2 DEF AuditInv, BaseInv, Grows
<1>4. StoredOnce' /\ \A id : Stored(id) => Stored(id)'
  BY <1>1 DEF AuditInv, StoredOnce, Stored
<1>5. \A n \in 1..Len(log) : Handled(n) => Handled(n)'
  BY <1>1, <1>4, HandledStays DEF AuditInv
<1>6. HandledInv'
  BY <1>1, <1>5 DEF AuditInv, BaseInv, GroupType, HandledInv
<1> QED BY <1>3, <1>4, <1>6 DEF AuditInv

LEMMA SetItem ==
    ASSUME ApiType, NEW r \in Request, NEW i \in Items(r), NEW s \in Step, Set(r, i, s),
           answer' \in [Request -> Status]
    PROVE  /\ ApiType'
           /\ item'[r][i] = s
           /\ \A q \in Request : \A j \in Items(q) : (q # r \/ j # i) => item'[q][j] = item[q][j]
<1>1. DOMAIN item' = Request /\ \A q \in Request \ {r} : item'[q] = item[q]
  BY DEF ApiType, Set
<1>2. item'[r] = [item[r] EXCEPT ![i] = s] /\ item[r] \in [Items(r) -> Step]
  BY DEF ApiType, Set
<1>3. item'[r] \in [Items(r) -> Step] /\ item'[r][i] = s
  BY <1>2
<1>4. \A j \in Items(r) : j # i => item'[r][j] = item[r][j]
  BY <1>2
<1>5. \A q \in Request : item'[q] \in [Items(q) -> Step]
  BY <1>1, <1>3 DEF ApiType
<1>6. ApiType'
  BY <1>1, <1>5 DEF ApiType, Items
<1> QED BY <1>1, <1>3, <1>4, <1>6

\* An item goes on before anything is sent for it.
LEMMA ReadStep ==
    ASSUME AuditInv, NEW r \in Request, NEW i \in Items(r), NEW s \in Step \ {"found"},
           item[r][i] \in {"find", "related"}, Set(r, i, s),
           UNCHANGED <<answer, topics, group, writer>>, failures' \in 0..MaxFailures
    PROVE  AuditInv'
<1>1. UNCHANGED <<answer, log, produced>> /\ Grows
  BY DEF topics, AuditInv, BaseInv, Grows
<1>2. /\ ApiType' /\ item'[r][i] = s
      /\ \A q \in Request : \A j \in Items(q) : (q # r \/ j # i) => item'[q][j] = item[q][j]
  BY <1>1, SetItem DEF AuditInv, BaseInv, ApiType
<1>3. \A q, j : Announced(q, j)' <=> Announced(q, j)
  BY <1>1 DEF Announced
<1>4. ~Announced(r, i)
  BY DEF AuditInv, AnnounceInv
<1>5. AnnounceInv'
  BY <1>2, <1>3, <1>4 DEF AuditInv, AnnounceInv, Items
<1> QED BY <1>1, <1>2, <1>5, ProducerStep DEF AuditInv, BaseInv

LEMMA PublishStep ==
    ASSUME AuditInv, NEW r \in Request, NEW i \in Items(r), NEW k \in 0..2, NEW s \in Step,
           item[r][i] = "publish", Set(r, i, s), log' = log \o Copies(k, AccessEvent(r, i)),
           \/ s = "found" /\ k > 0
           \/ s = "unaudited",
           UNCHANGED <<answer, produced, group, writer>>, failures' \in 0..MaxFailures
    PROVE  AuditInv'
<1> DEFINE m == AccessEvent(r, i)
<1>1. m \in Event /\ m.id = <<r, i>>
  BY ItemsInBatch DEF Event, AccessEvent
<1> HIDE DEF m
<1>2. log' = log \o Copies(k, m) /\ log \in Seq(Event)
  BY DEF m, AuditInv, BaseInv
<1>3. /\ Grows /\ Len(log') = Len(log) + k
      /\ \A n \in 1..Len(log') : n \in 1..Len(log) \/ log'[n] = m
      /\ k > 0 => log'[Len(log) + 1] = m
  BY <1>1, <1>2, AppendCopies
<1>4. /\ ApiType' /\ item'[r][i] = s
      /\ \A q \in Request : \A j \in Items(q) : (q # r \/ j # i) => item'[q][j] = item[q][j]
  BY SetItem DEF AuditInv, BaseInv, ApiType
<1>5. s = "found" => Announced(r, i)'
  <2>1. s = "found" => k > 0
    OBVIOUS
  <2>2. k > 0 => Len(log) + 1 \in 1..Len(log')
    BY <1>2, <1>3
  <2> QED BY <1>1, <1>3, <2>1, <2>2 DEF Announced
<1>6. ASSUME NEW q \in Request, NEW j \in Items(q), q # r \/ j # i
      PROVE  Announced(q, j)' <=> Announced(q, j)
  <2>1. Announced(q, j) => Announced(q, j)'
    BY <1>3, AnnouncedStays DEF AuditInv
  <2>2. <<q, j>> # <<r, i>>
    BY <1>6
  <2>3. Announced(q, j)' => Announced(q, j)
    BY <1>1, <1>2, <1>3, <2>2 DEF Announced, Grows
  <2> QED BY <2>1, <2>3
<1>7. AnnounceInv'
  <2>1. ASSUME NEW q \in Request, NEW j \in Items(q)
        PROVE  /\ item'[q][j] = "found" => Announced(q, j)'
               /\ Announced(q, j)' => item'[q][j] \in {"found", "unaudited"}
    <3>1. CASE q = r /\ j = i
      BY <1>4, <1>5, <3>1
    <3>2. CASE q # r \/ j # i
      BY <1>4, <1>6, <3>2 DEF AuditInv, AnnounceInv
    <3> QED BY <3>1, <3>2
  <2> QED BY <2>1 DEF AnnounceInv, Items
<1> QED BY <1>3, <1>4, <1>7, ProducerStep DEF AuditInv, BaseInv

\* A request is opened, answered, or lost with the process.
LEMMA AnswerStep ==
    ASSUME AuditInv, NEW r \in Request, NEW s \in Status,
           answer' = [answer EXCEPT ![r] = s],
           UNCHANGED <<item, topics, group, writer, failures>>
    PROVE  AuditInv'
<1>1. UNCHANGED <<item, log, produced>> /\ Grows
  BY DEF topics, AuditInv, BaseInv, Grows
<1>2. ApiType'
  BY <1>1 DEF AuditInv, BaseInv, ApiType, Items
<1>3. AnnounceInv'
  BY <1>1 DEF AuditInv, AnnounceInv, Announced, Items
<1> QED BY <1>1, <1>2, <1>3, ProducerStep DEF AuditInv, BaseInv

LEMMA CrashStep ==
    ASSUME AuditInv, NEW r \in Request, Crash(r)
    PROVE  AuditInv'
<1>1. /\ UNCHANGED <<log, produced, group, writer>> /\ failures' \in 0..MaxFailures
      /\ answer' = [answer EXCEPT ![r] = IF @ = "open" THEN "lost" ELSE @]
      /\ item' = [item EXCEPT ![r] = [i \in Items(r) |->
                    IF item[r][i] \in Unfinished THEN "stopped" ELSE item[r][i]]]
  BY BoundAssumption DEF Crash, topics, AuditInv, BaseInv, ApiType
<1>2. /\ DOMAIN item' = Request /\ \A q \in Request \ {r} : item'[q] = item[q]
      /\ item'[r] = [i \in Items(r) |->
                       IF item[r][i] \in Unfinished THEN "stopped" ELSE item[r][i]]
  BY <1>1 DEF AuditInv, BaseInv, ApiType
<1>3. \A q \in Request : item[q] \in [Items(q) -> Step]
  BY DEF AuditInv, BaseInv, ApiType
<1>4. \A q \in Request : item'[q] \in [Items(q) -> Step]
  BY <1>2, <1>3 DEF Step
<1>5. answer' \in [Request -> Status]
  BY <1>1 DEF AuditInv, BaseInv, ApiType, Status
<1>6. ApiType'
  BY <1>2, <1>4, <1>5 DEF ApiType, Items
<1>7. \A q, j : Announced(q, j)' <=> Announced(q, j)
  BY <1>1 DEF Announced
<1>8. AnnounceInv'
  BY <1>2, <1>7 DEF AuditInv, AnnounceInv, Items, Unfinished
<1> QED BY <1>1, <1>6, <1>8, ProducerStep DEF AuditInv, BaseInv, Grows

LEMMA ProduceStep ==
    ASSUME AuditInv, NEW m \in Foreign, Produce(m)
    PROVE  AuditInv'
<1>1. m \in Event /\ log \in Seq(Event)
  BY DEF Event, AuditInv, BaseInv
<1>2. Grows /\ Len(log') = Len(log) + 1 /\ log'[Len(log) + 1] = m
  BY <1>1, AppendEvent DEF Produce
<1>3. UNCHANGED <<answer, item, group, writer, failures>> /\ produced' \in 0..MaxForeign
  BY BoundAssumption DEF Produce, api, AuditInv, BaseInv
<1>4. ApiType'
  BY <1>3 DEF AuditInv, BaseInv, ApiType, Items
<1>5. ASSUME NEW q \in Request, NEW j \in Items(q) PROVE Announced(q, j)' <=> Announced(q, j)
  <2>1. Announced(q, j) => Announced(q, j)'
    BY <1>2, AnnouncedStays DEF AuditInv
  <2>2. m.id # <<q, j>>
    BY ItemsInBatch, ForeignAssumption
  <2>3. Announced(q, j)' => Announced(q, j)
    BY <1>1, <1>2, <2>2 DEF Announced, Grows
  <2> QED BY <2>1, <2>3
<1>6. AnnounceInv'
  BY <1>3, <1>5 DEF AuditInv, AnnounceInv, Items
<1> QED BY <1>2, <1>3, <1>4, <1>6, ProducerStep DEF AuditInv, BaseInv

ApiNext ==
    \/ \E r \in Request :
         \/ Open(r) \/ Answer(r) \/ Crash(r)
         \/ \E i \in Items(r) :
              \/ Read(r, i) \/ ReadFails(r, i)
              \/ \E copies \in 1..2 : Publish(r, i, copies)
              \/ \E copies \in 0..1 : PublishFails(r, i, copies)
    \/ \E m \in Foreign : Produce(m)

LEMMA ApiInv ==
    ASSUME AuditInv, ApiNext
    PROVE  AuditInv'
<1>1. ASSUME NEW r \in Request, Open(r) \/ Answer(r) PROVE AuditInv'
  <2>1. \E s \in Status : answer' = [answer EXCEPT ![r] = s]
    BY <1>1 DEF Open, Answer, Disclose, Refuse, Refusal, Status
  <2>2. UNCHANGED <<item, topics, group, writer, failures>>
    BY <1>1 DEF Open, Answer, Disclose, Refuse
  <2> QED BY <2>1, <2>2, AnswerStep
<1>2. ASSUME NEW r \in Request, NEW i \in Items(r), Read(r, i) \/ ReadFails(r, i) PROVE AuditInv'
  <2>1. failures' \in 0..MaxFailures
    BY <1>2, BoundAssumption DEF Read, Find, FindNone, Related, ReadFails, AuditInv, BaseInv
  <2>2. /\ item[r][i] \in {"find", "related"}
        /\ \E s \in Step \ {"found"} : Set(r, i, s)
        /\ UNCHANGED <<answer, topics, group, writer>>
    BY <1>2 DEF Read, Find, FindNone, Related, ReadFails, At, Step
  <2> QED BY <2>1, <2>2, ReadStep
<1>3. ASSUME NEW r \in Request, NEW i \in Items(r), NEW k \in 0..2,
             (k > 0 /\ Publish(r, i, k)) \/ PublishFails(r, i, k)
      PROVE  AuditInv'
  <2>1. failures' \in 0..MaxFailures
    BY <1>3, BoundAssumption DEF Publish, PublishFails, AuditInv, BaseInv
  <2>2. PICK s \in {"found", "unaudited"} : Set(r, i, s) /\ (s = "found" => k > 0)
    BY <1>3 DEF Publish, PublishFails
  <2>3. /\ item[r][i] = "publish" /\ log' = log \o Copies(k, AccessEvent(r, i))
        /\ UNCHANGED <<answer, produced, group, writer>>
    BY <1>3 DEF Publish, PublishFails, At
  <2> QED BY <2>1, <2>2, <2>3, PublishStep DEF Step
<1> QED BY <1>1, <1>2, <1>3, CrashStep, ProduceStep DEF ApiNext
-----------------------------------------------------------------------------
(* The steps of audit-writer. *)

\* A step that leaves the requests and the topics alone.
LEMMA WriterStep ==
    ASSUME AuditInv, UNCHANGED <<api, topics>>, GroupType',
           rows' \in Seq(EventId), StoredOnce', \A id : Stored(id) => Stored(id)',
           failed \subseteq failed', failed' \subseteq 1..Len(log),
           skipped \subseteq skipped', skipped' \subseteq 1..Len(log),
           joins' \in 0..MaxJoins, failures' \in 0..MaxFailures,
           \A n \in 1..committed' : n \in 1..committed \/ Handled(n)' \/
                                    \E d \in Consumer : n \in 1..position[d],
           \A d \in Consumer : \A n \in 1..position'[d] :
              n \in 1..position[d] \/ n \in 1..committed \/ Handled(n)' \/
              (d \in busy /\ n = position[d] + 1),
           \A d \in busy' : (d \in busy /\ position'[d] = position[d])
                            \/ \E n : n = position'[d] + 1 /\ Handled(n)'
    PROVE  AuditInv'
<1>1. UNCHANGED <<answer, item, log, produced>> /\ Grows
  BY DEF api, topics, AuditInv, BaseInv, Grows
<1>2. BaseInv'
  BY <1>1 DEF AuditInv, BaseInv, ApiType, Items
<1>3. AnnounceInv'
  BY <1>1 DEF AuditInv, AnnounceInv, Announced, Items
<1>4. \A n \in 1..Len(log) : Handled(n) => Handled(n)'
  BY <1>1, HandledStays DEF AuditInv
<1>5. /\ committed \in Nat /\ committed <= Len(log) /\ Len(log) \in Nat
      /\ \A d \in Consumer : position[d] \in Nat /\ position[d] <= Len(log)
      /\ busy \subseteq Consumer /\ \A d \in busy : position[d] < Len(log)
  BY DEF AuditInv, BaseInv, GroupType
<1>6. /\ \A n \in 1..committed : Handled(n)'
      /\ \A d \in Consumer : \A n \in 1..position[d] : Handled(n)'
      /\ \A d \in busy : \A n : n = position[d] + 1 => Handled(n)'
  <2>1. \A d \in busy : position[d] + 1 \in 1..Len(log)
    BY <1>5
  <2>2. \A n \in 1..committed : n \in 1..Len(log)
    BY <1>5
  <2>3. \A d \in Consumer : \A n \in 1..position[d] : n \in 1..Len(log)
    BY <1>5
  <2>4. HandledInv
    BY DEF AuditInv
  <2> QED BY <1>4, <1>5, <2>1, <2>2, <2>3, <2>4 DEF HandledInv
<1>7. HandledInv'
  <2>1. \A n \in 1..committed' : Handled(n)'
    BY <1>6
  <2>2. \A d \in Consumer : \A n \in 1..position'[d] : Handled(n)'
    BY <1>6
  <2>3. \A d \in busy' : \A n : n = position'[d] + 1 => Handled(n)'
    BY <1>6
  <2> QED BY <2>1, <2>2, <2>3 DEF HandledInv
<1> QED BY <1>2, <1>3, <1>7 DEF AuditInv

LEMMA JoinInv ==
    ASSUME AuditInv, NEW c \in Consumer, Join(c)
    PROVE  AuditInv'
<1>1. /\ UNCHANGED <<api, topics, committed, rows, busy, failed, failures>>
      /\ c \notin member /\ owner' = {c} /\ member' = member \cup {c}
      /\ position' = [position EXCEPT ![c] = FirstOffset]
      /\ skipped' = skipped \cup (committed + 1)..FirstOffset
      /\ joins' = joins + 1 /\ joins < MaxJoins /\ log' = log
  BY DEF Join, writer, topics
<1>2. /\ committed \in Nat /\ committed <= Len(log) /\ Len(log) \in Nat
      /\ position \in [Consumer -> Nat] /\ \A d \in Consumer : position[d] <= Len(log)
      /\ busy \subseteq member /\ member \subseteq Consumer
  BY DEF AuditInv, BaseInv, GroupType
<1>3. FirstOffset \in Nat /\ FirstOffset <= Len(log)
  BY <1>2 DEF FirstOffset
<1>4. GroupType'
  BY <1>1, <1>2, <1>3 DEF AuditInv, BaseInv, GroupType
<1>5. skipped' \subseteq 1..Len(log) /\ joins' \in 0..MaxJoins
  BY <1>1, <1>2, <1>3, BoundAssumption DEF AuditInv, BaseInv
<1>6. StoredOnce' /\ \A id : Stored(id) => Stored(id)'
  BY <1>1 DEF AuditInv, StoredOnce, Stored
<1>7. \A d \in Consumer : \A n \in 1..position'[d] :
        n \in 1..position[d] \/ n \in 1..committed \/ Handled(n)'
  BY <1>1, <1>2, <1>3 DEF Handled
<1>8. \A d \in busy' : d \in busy /\ position'[d] = position[d]
  BY <1>1, <1>2
<1> QED BY <1>1, <1>4, <1>5, <1>6, <1>7, <1>8, WriterStep DEF AuditInv, BaseInv

LEMMA LeaveInv ==
    ASSUME AuditInv, NEW c \in Consumer, Leave(c) \/ CommitOffset(c)
    PROVE  AuditInv'
<1>1. /\ UNCHANGED <<api, topics, log, rows, failed, skipped, joins, failures>>
      /\ \/ /\ committed' = committed /\ busy' = busy \ {c}
            /\ member' = member \ {c} /\ owner' = owner \ {c}
            /\ position' = [position EXCEPT ![c] = 0]
         \/ committed' = position[c] /\ UNCHANGED <<busy, member, owner, position>>
  BY DEF Leave, CommitOffset, writer, topics
<1>2. /\ committed \in Nat /\ committed <= Len(log) /\ Len(log) \in Nat
      /\ position \in [Consumer -> Nat] /\ \A d \in Consumer : position[d] <= Len(log)
      /\ busy \subseteq member /\ member \subseteq Consumer
  BY DEF AuditInv, BaseInv, GroupType
<1>3. GroupType'
  <2>1. owner' \subseteq member' /\ (owner' = {} \/ \E d \in Consumer : owner' = {d})
    BY <1>1 DEF AuditInv, BaseInv, GroupType
  <2>2. \A d \in busy' : position'[d] < Len(log)
    BY <1>1, <1>2 DEF AuditInv, BaseInv, GroupType
  <2>3. /\ position' \in [Consumer -> Nat] /\ \A d \in Consumer : position'[d] <= Len(log)
        /\ committed' \in Nat /\ committed' <= Len(log)
    BY <1>1, <1>2
  <2> QED BY <1>1, <1>2, <2>1, <2>2, <2>3 DEF GroupType
<1>4. StoredOnce' /\ \A id : Stored(id) => Stored(id)'
  BY <1>1 DEF AuditInv, StoredOnce, Stored
<1>5. /\ \A n \in 1..committed' : n \in 1..committed \/ \E d \in Consumer : n \in 1..position[d]
      /\ \A d \in Consumer : \A n \in 1..position'[d] : n \in 1..position[d]
      /\ \A d \in busy' : d \in busy /\ position'[d] = position[d]
  BY <1>1, <1>2
<1> QED BY <1>1, <1>3, <1>4, <1>5, WriterStep DEF AuditInv, BaseInv

\* The message a consumer has fetched.
LEMMA FetchedEvent ==
    ASSUME AuditInv, NEW c \in Consumer, Fetched(c)
    PROVE  /\ position[c] + 1 \in 1..Len(log) /\ Current(c) \in Event
           /\ Current(c) = log[position[c] + 1]
BY DEF AuditInv, BaseInv, GroupType, Fetched, Current

LEMMA HandleInv ==
    ASSUME AuditInv, NEW c \in Consumer, HandleEvent(c) \/ IgnoreEvent(c)
    PROVE  AuditInv'
<1>1. /\ UNCHANGED <<api, topics, group, log, failed, failures>> /\ Fetched(c)
      /\ busy' = busy \cup {c}
      /\ UNCHANGED <<committed, owner, position, member, skipped, joins>>
  BY DEF HandleEvent, IgnoreEvent, topics, group
<1>2. /\ position[c] + 1 \in 1..Len(log) /\ Current(c) \in Event
      /\ Current(c) = log[position[c] + 1]
  BY <1>1, FetchedEvent
<1>3. /\ rows' \in Seq(EventId) /\ StoredOnce' /\ \A id : Stored(id) => Stored(id)'
      /\ Handled(position[c] + 1)'
  <2>1. CASE HandleEvent(c)
    BY <1>1, <1>2, <2>1, InsertRow DEF HandleEvent, AuditInv, Handled
  <2>2. CASE IgnoreEvent(c)
    BY <1>1, <1>2, <2>2 DEF IgnoreEvent, AuditInv, BaseInv, StoredOnce, Stored, Handled
  <2> QED BY <2>1, <2>2
<1>4. GroupType'
  <2>1. position[c] \in Nat /\ Len(log) \in Nat
    BY DEF AuditInv, BaseInv, GroupType
  <2> QED BY <1>1, <1>2, <2>1 DEF AuditInv, BaseInv, GroupType, Fetched
<1> QED BY <1>1, <1>3, <1>4, WriterStep DEF AuditInv, BaseInv

LEMMA SwallowInv ==
    ASSUME AuditInv, NEW c \in Consumer, RejectEvent(c) \/ InsertFails(c)
    PROVE  AuditInv'
<1>1. /\ UNCHANGED <<api, topics, log, committed, owner, member, skipped, joins, busy>>
      /\ Fetched(c) /\ failed' = failed \cup {position[c] + 1}
      /\ position' = [position EXCEPT ![c] = position[c] + 1]
  BY DEF RejectEvent, InsertFails, Swallow, topics, AuditInv, BaseInv, GroupType
<1>2. position[c] + 1 \in 1..Len(log) /\ Current(c) \in Event
  BY <1>1, FetchedEvent
<1>3. /\ rows' \in Seq(EventId) /\ StoredOnce' /\ \A id : Stored(id) => Stored(id)'
  <2>1. CASE rows' = rows
    BY <2>1 DEF AuditInv, BaseInv, StoredOnce, Stored
  <2>2. CASE InsertImmutable(Current(c))
    BY <1>2, <2>2, InsertRow DEF AuditInv
  <2> QED BY <2>1, <2>2 DEF RejectEvent, InsertFails
<1>4. failures' \in 0..MaxFailures
  BY BoundAssumption DEF RejectEvent, InsertFails, AuditInv, BaseInv
<1>5. position \in [Consumer -> Nat] /\ Len(log) \in Nat
  BY DEF AuditInv, BaseInv, GroupType
<1>6. GroupType'
  BY <1>1, <1>2, <1>5 DEF AuditInv, BaseInv, GroupType, Fetched
<1>7. \A n : n = position[c] + 1 => Handled(n)'
  BY <1>1 DEF Handled
<1>8. \A d \in Consumer : \A n \in 1..position'[d] : n \in 1..position[d] \/ Handled(n)'
  <2>1. \A n \in 1..position'[c] : n \in 1..position[c] \/ n = position[c] + 1
    BY <1>1, <1>5
  <2> QED BY <1>1, <1>5, <1>7, <2>1
<1>9. \A d \in busy' : d \in busy /\ position'[d] = position[d]
  BY <1>1, <1>5 DEF Fetched, AuditInv, BaseInv, GroupType
<1>10. failed' \subseteq 1..Len(log)
  BY <1>1, <1>2 DEF AuditInv, BaseInv
<1> QED BY <1>1, <1>3, <1>4, <1>6, <1>8, <1>9, <1>10, WriterStep DEF AuditInv, BaseInv

LEMMA ReturnInv ==
    ASSUME AuditInv, NEW c \in Consumer, Return(c)
    PROVE  AuditInv'
<1>1. /\ UNCHANGED <<api, topics, log, rows, committed, owner, member, skipped, joins>>
      /\ UNCHANGED <<failed, failures>>
      /\ c \in busy /\ busy' = busy \ {c}
      /\ position' = [position EXCEPT ![c] = position[c] + 1]
  BY DEF Return, topics, AuditInv, BaseInv, GroupType
<1>2. position \in [Consumer -> Nat] /\ Len(log) \in Nat /\ busy \subseteq Consumer
  BY DEF AuditInv, BaseInv, GroupType
<1>3. GroupType'
  BY <1>1, <1>2 DEF AuditInv, BaseInv, GroupType
<1>4. StoredOnce' /\ \A id : Stored(id) => Stored(id)'
  BY <1>1 DEF AuditInv, StoredOnce, Stored
<1>5. /\ \A d \in Consumer : \A n \in 1..position'[d] :
           n \in 1..position[d] \/ (d \in busy /\ n = position[d] + 1)
      /\ \A d \in busy' : d \in busy /\ position'[d] = position[d]
  BY <1>1, <1>2
<1> QED BY <1>1, <1>3, <1>4, <1>5, WriterStep DEF AuditInv, BaseInv
-----------------------------------------------------------------------------
(* The theorems. *)

LEMMA InitInv ==
    ASSUME Init
    PROVE  AuditInv
<1>1. ApiType
  <2>1. item = [r \in Request |-> [i \in Items(r) |-> "find"]]
    BY DEF Init
  <2>2. \A r \in Request : item[r] \in [Items(r) -> Step]
    BY <2>1 DEF Step
  <2> QED BY <2>1, <2>2 DEF Init, ApiType, Status
<1>2. BaseInv
  BY <1>1, BoundAssumption DEF Init, BaseInv, GroupType
<1>3. AnnounceInv
  BY DEF Init, AnnounceInv, Announced, Items
<1>4. StoredOnce /\ HandledInv
  BY DEF Init, StoredOnce, HandledInv
<1> QED BY <1>2, <1>3, <1>4 DEF AuditInv

LEMMA StutterInv ==
    ASSUME AuditInv, UNCHANGED vars
    PROVE  AuditInv'
<1>1. /\ UNCHANGED <<answer, item, log, produced, committed, owner, position, member>>
      /\ UNCHANGED <<skipped, joins, rows, busy, failed, failures>>
  BY DEF vars
<1>2. ApiType' /\ Grows
  BY <1>1 DEF AuditInv, BaseInv, ApiType, Grows, Items
<1>3. AnnounceInv'
  BY <1>1 DEF AuditInv, AnnounceInv, Announced, Items
<1> QED BY <1>1, <1>2, <1>3, ProducerStep DEF group, writer, AuditInv, BaseInv

LEMMA StepInv ==
    ASSUME AuditInv, [Next]_vars
    PROVE  AuditInv'
<1>1. Next => \/ ApiNext
              \/ \E c \in Consumer : \/ Join(c) \/ Leave(c) \/ CommitOffset(c)
                                     \/ HandleEvent(c) \/ IgnoreEvent(c) \/ RejectEvent(c)
                                     \/ Return(c) \/ InsertFails(c)
  BY DEF Next, ApiNext, Handle
<1> QED BY <1>1, ApiInv, JoinInv, LeaveInv, HandleInv, SwallowInv, ReturnInv, StutterInv

\* In every reachable state requests, log, group and table agree as the parts
\* of the invariant say.
THEOREM AuditInvCorrect == Spec => []AuditInv
BY InitInv, StepInv, PTL DEF Spec

\* Requests, topics, group and table hold what the code can put there.
THEOREM TypeCorrect == Spec => []TypeOK
<1>1. AuditInv => TypeOK
  <2> SUFFICES ASSUME AuditInv PROVE TypeOK
    OBVIOUS
  <2>1. \A n \in 1..Len(log) : log[n].id \in EventId /\ log[n].kind \in MessageKind
    <3>1. \A n \in 1..Len(log) : log[n] \in Event
      BY DEF AuditInv, BaseInv
    <3> QED BY <3>1, EventType
  <2>2. owner \subseteq Consumer /\ Cardinality(owner) <= 1
    <3>1. Cardinality({}) = 0 /\ \A c \in Consumer : Cardinality({c}) = 1
      BY FS_EmptySet, FS_Singleton
    <3>2. owner = {} \/ \E c \in Consumer : owner = {c}
      BY DEF AuditInv, BaseInv, GroupType
    <3> QED BY <3>1, <3>2
  <2>3. position \in [Consumer -> 0..Len(log)] /\ committed \in 0..Len(log)
    BY DEF AuditInv, BaseInv, GroupType
  <2>4. \A k \in 1..Len(rows) : rows[k] \in EventId
    BY DEF AuditInv, BaseInv
  <2>5. \A r \in Request : /\ answer[r] \in Status
                           /\ item[r] \in [Items(r) -> Step]
    BY DEF AuditInv, BaseInv, ApiType
  <2> QED BY <2>1, <2>2, <2>3, <2>4, <2>5
          DEF TypeOK, Status, Step, AuditInv, BaseInv, GroupType
<1> QED BY <1>1, AuditInvCorrect, PTL

\* No context is disclosed before the broker has its audit event, in any item
\* of a batch, whatever fails.
THEOREM DisclosuresAreAnnounced == Spec => []DisclosedIsAnnounced
<1>1. AuditInv => DisclosedIsAnnounced
  BY DEF AuditInv, AnnounceInv, DisclosedIsAnnounced
<1> QED BY <1>1, AuditInvCorrect, PTL

\* The trail names only what was there and was read in full.
THEOREM AnnouncementsAreReal == Spec => []AnnouncedWasRead
<1>1. AuditInv => AnnouncedWasRead
  BY DEF AuditInv, AnnounceInv, AnnouncedWasRead
<1> QED BY <1>1, AuditInvCorrect, PTL

\* agent_audit_logs holds at most one row per event, however often producers
\* and consumers repeat it.
THEOREM RowsAreUnique == Spec => []StoredOnce
<1>1. AuditInv => StoredOnce
  BY DEF AuditInv
<1> QED BY <1>1, AuditInvCorrect, PTL

\* What the committed offset covers was stored, ignored, or given up at a known
\* place.
THEOREM NothingIsSkipped == Spec => []NothingSkippedSilently
<1>1. AuditInv => NothingSkippedSilently
  BY DEF AuditInv, HandledInv, Handled, NothingSkippedSilently
<1> QED BY <1>1, AuditInvCorrect, PTL
=============================================================================
