-------------------------- MODULE ProjectionProofs --------------------------
(***************************************************************************)
(* Proofs about Projection, for every number of consumers, every content   *)
(* of the partition and every number of joins, failures and replays.       *)
(***************************************************************************)
EXTENDS Projection, FiniteSetTheorems, TLAPS

Phase == {"idle", "check", "find", "upsert", "commit", "deadletter", "refresh"}

\* What the phase of a consumer says of the message it handles and of the rows
\* its transaction has read and written.
ConsumerInv(c) ==
    /\ pc[c] # "idle" => c \in member /\ position[c] < Len(log)
    /\ pc[c] = "find" => Current(c).kind = "update"
    /\ pc[c] \in {"upsert", "commit"} =>
         Changes(Current(c)) /\ (Current(c).kind = "update" => existing[c] # NoRow)
    /\ pc[c] \notin {"upsert", "commit"} => existing[c] = NoRow
    /\ pc[c] # "commit" => written[c] = NoRow
    /\ pc[c] = "commit" => written[c] = NewRow(c)

\* The members of the group: at most one owns the partition.
GroupInv ==
    /\ owner = {} \/ \E c \in Consumer : owner = {c}
    /\ owner \subseteq member /\ member \subseteq joined

BaseInv == TypeOK /\ GroupInv /\ \A c \in Consumer : ConsumerInv(c)

\* A step of consumer c in its group leaves the partition and the others alone.
Turn(c) ==
    /\ UNCHANGED <<log, group, script>>
    /\ \E p \in Phase : pc' = [pc EXCEPT ![c] = p]
    /\ \A d \in Consumer \ {c} : existing'[d] = existing[d] /\ written'[d] = written[d]
-----------------------------------------------------------------------------
(* The steps. *)

LEMMA OffsetType ==
    ASSUME BaseInv
    PROVE  /\ Len(log) \in Nat
           /\ \A c \in Consumer : position[c] \in Nat /\ position[c] <= Len(log)
           /\ \A c \in Consumer : pc[c] # "idle" =>
                /\ position[c] + 1 \in Offset /\ Current(c) \in Message
           /\ \A i \in Offset : i \in Nat /\ log[i] \in Message
<1>1. log \in Seq(Message) /\ Len(log) \in Nat /\ \A i \in Offset : log[i] \in Message
  BY DEF BaseInv, TypeOK, Offset
<1>2. \A c \in Consumer : position[c] \in Nat /\ position[c] <= Len(log)
  BY <1>1 DEF BaseInv, TypeOK
<1>3. \A c \in Consumer : pc[c] # "idle" => position[c] < Len(log)
  BY DEF BaseInv, ConsumerInv
<1>4. \A c \in Consumer : pc[c] # "idle" => position[c] + 1 \in Offset
  BY <1>1, <1>2, <1>3 DEF Offset
<1> QED BY <1>1, <1>2, <1>4 DEF Offset, Current

LEMMA MessageType ==
    ASSUME NEW m \in Message
    PROVE  /\ m.id \in EventId /\ m.entity \in Entity /\ m.kind \in MessageKind
           /\ m.at \in Nat /\ m.sets \subseteq Column
BY DEF Message

\* The row a handler writes is a row, if an update has read one.
LEMMA NewRowType ==
    ASSUME BaseInv, NEW c \in Consumer, pc[c] \in {"upsert", "commit"}
    PROVE  /\ NewRow(c) \in ViewRow /\ NewRow(c) # NoRow
           /\ NewRow(c).at = Current(c).at
           /\ \A k \in Column : NewRow(c).cols[k] =
                IF Current(c).kind = "create" \/ k \in Current(c).sets
                  THEN Current(c).id ELSE existing[c].cols[k]
<1> DEFINE m == Current(c)
<1>1. m.id \in EventId /\ m.at \in Nat
  BY OffsetType, MessageType
<1>2. m.kind = "create" \/ existing[c] \in ViewRow
  BY DEF BaseInv, ConsumerInv, Changes, TypeOK
<1>3. NewRow(c) \in ViewRow
  BY <1>1, <1>2 DEF NewRow, ViewRow
<1> QED BY <1>3, NoRowAssumption DEF NewRow

LEMMA TurnStep ==
    ASSUME BaseInv, NEW c \in Consumer, Turn(c), ConsumerInv(c)',
           existing'[c] \in ViewRow \cup {NoRow}, written'[c] \in ViewRow \cup {NoRow},
           existing' = [existing EXCEPT ![c] = existing'[c]],
           written' = [written EXCEPT ![c] = written'[c]],
           view' \in [Entity -> ViewRow \cup {NoRow}], ledger' \subseteq EventId,
           dead' \subseteq Offset, dropped' \subseteq Offset, failures' \in 0..MaxFailures
    PROVE  BaseInv'
<1>1. /\ UNCHANGED <<log, committed, owner, position, member, skipped, joined, joins,
                     reset, replays>>
      /\ \A d \in Consumer \ {c} : /\ pc'[d] = pc[d] /\ existing'[d] = existing[d]
                                   /\ written'[d] = written[d]
  BY DEF Turn, group, script, BaseInv, TypeOK
<1>2. TypeOK'
  <2>1. pc' \in [Consumer -> Phase]
    BY DEF Turn, BaseInv, TypeOK, Phase
  <2>2. existing' \in [Consumer -> ViewRow \cup {NoRow}] /\ written' \in [Consumer -> ViewRow \cup {NoRow}]
    BY DEF BaseInv, TypeOK
  <2> QED BY <1>1, <2>1, <2>2 DEF BaseInv, TypeOK, Phase, Offset
<1>3. GroupInv'
  BY <1>1 DEF BaseInv, GroupInv
<1>4. ASSUME NEW d \in Consumer \ {c} PROVE ConsumerInv(d)'
  <2>1. Current(d)' = Current(d) /\ NewRow(d)' = NewRow(d)
    BY <1>1 DEF Current, NewRow
  <2> QED BY <1>1, <2>1 DEF BaseInv, ConsumerInv
<1> QED BY <1>2, <1>3, <1>4 DEF BaseInv

\* The transaction of a consumer ends, with or without an effect.
Ends(c) ==
    \/ Duplicate(c) \/ HandleOther(c) \/ FindNoneOrNewer(c) \/ UpsertNewer(c)
    \/ Commit(c) \/ CommitUnacknowledged(c) \/ Fail(c)

LEMMA EndsTurn ==
    ASSUME BaseInv, NEW c \in Consumer, Ends(c)
    PROVE  /\ Turn(c) /\ pc[c] # "idle"
           /\ pc' = [pc EXCEPT ![c] = "refresh"] \/ pc' = [pc EXCEPT ![c] = "deadletter"]
           /\ existing' = [existing EXCEPT ![c] = NoRow]
           /\ written' = [written EXCEPT ![c] = NoRow]
           /\ dead' = dead
           /\ \/ dropped' = dropped
              \/ dropped' = dropped \cup {position[c] + 1}
           /\ failures' \in 0..MaxFailures
           /\ \/ UNCHANGED <<view, ledger>>
              \/ /\ pc[c] = "commit"
                 /\ view' = [view EXCEPT ![Current(c).entity] = written[c]]
                 /\ ledger' = ledger \cup {Current(c).id}
<1> USE DEF EndTransaction, Go, database
<1>1. CASE Duplicate(c) \/ HandleOther(c) \/ FindNoneOrNewer(c) \/ UpsertNewer(c)
  <2>1. /\ pc[c] # "idle" /\ EndTransaction(c, "refresh")
        /\ UNCHANGED <<view, ledger, dead, failures>>
        /\ dropped' = dropped \/ dropped' = dropped \cup {position[c] + 1}
    BY <1>1 DEF Duplicate, HandleOther, FindNoneOrNewer, UpsertNewer, Drop
  <2> QED BY <2>1 DEF Turn, Phase, BaseInv, TypeOK
<1>2. CASE Fail(c)
  <2>1. failures' \in 0..MaxFailures
    BY <1>2, BoundAssumption DEF Fail, BaseInv, TypeOK
  <2> QED BY <1>2, <2>1 DEF Fail, InTransaction, Turn, Phase, BaseInv, TypeOK
<1>3. CASE Commit(c) \/ CommitUnacknowledged(c)
  <2>1. failures' \in 0..MaxFailures
    BY <1>3, BoundAssumption DEF Commit, CommitUnacknowledged, BaseInv, TypeOK
  <2>2. PICK to \in {"refresh", "deadletter"} : Apply(c, to)
    BY <1>3 DEF Commit, CommitUnacknowledged
  <2> QED BY <2>1, <2>2 DEF Apply, Turn, Phase, BaseInv, TypeOK
<1> QED BY <1>1, <1>2, <1>3 DEF Ends

LEMMA EndsInv ==
    ASSUME BaseInv, NEW c \in Consumer, Ends(c)
    PROVE  BaseInv'
<1>1. position[c] + 1 \in Offset /\ Current(c) \in Message
  BY EndsTurn, OffsetType
<1>2. dead' \subseteq Offset /\ dropped' \subseteq Offset
  <2>1. dead \subseteq Offset /\ dropped \subseteq Offset
    BY DEF BaseInv, TypeOK
  <2> QED BY <1>1, <2>1, EndsTurn
<1>3. view' \in [Entity -> ViewRow \cup {NoRow}] /\ ledger' \subseteq EventId
  <2>1. /\ view \in [Entity -> ViewRow \cup {NoRow}] /\ ledger \subseteq EventId
        /\ written[c] \in ViewRow \cup {NoRow}
    BY DEF BaseInv, TypeOK
  <2>2. Current(c).entity \in Entity /\ Current(c).id \in EventId
    BY <1>1, MessageType
  <2> QED BY <2>1, <2>2, EndsTurn
<1>4. /\ existing' = [existing EXCEPT ![c] = existing'[c]] /\ existing'[c] = NoRow
      /\ written' = [written EXCEPT ![c] = written'[c]] /\ written'[c] = NoRow
      /\ pc'[c] \in {"refresh", "deadletter"}
  <2>1. /\ pc \in [Consumer -> Phase]
        /\ DOMAIN existing = Consumer /\ DOMAIN written = Consumer
    BY DEF BaseInv, TypeOK, Phase
  <2> QED BY <2>1, EndsTurn
<1>5. ConsumerInv(c)'
  <2>1. c \in member /\ position[c] < Len(log) /\ UNCHANGED <<member, position, log>>
    BY EndsTurn DEF BaseInv, ConsumerInv, Turn, group
  <2> QED BY <1>4, <2>1 DEF ConsumerInv
<1>6. Turn(c) /\ failures' \in 0..MaxFailures
  BY EndsTurn
<1> QED BY <1>2, <1>3, <1>4, <1>5, <1>6, TurnStep

\* The steps of a consumer that neither write nor end a transaction.
Proceeds(c) ==
    \/ Fetch(c) \/ Handle(c) \/ DeadLetter(c) \/ DeadLetterFails(c) \/ RefreshFails(c)

LEMMA ProceedsTurn ==
    ASSUME BaseInv, NEW c \in Consumer, Proceeds(c)
    PROVE  /\ Turn(c) /\ UNCHANGED <<view, ledger, existing, written, dropped>>
           /\ c \in member /\ position[c] < Len(log)
           /\ dead' \subseteq dead \cup {position[c] + 1} /\ dead \subseteq dead'
           /\ pc'[c] = "refresh" => pc[c] = "deadletter" /\ position[c] + 1 \in dead'
           /\ \/ pc[c] \in {"idle", "deadletter", "refresh"}
                 /\ pc'[c] \in {"idle", "check", "deadletter", "refresh"}
              \/ Handle(c) /\ pc[c] = "check" /\ pc'[c] \in {"upsert", "find"}
           /\ failures' \in 0..MaxFailures
<1> USE DEF Go, database, transaction, Turn, Phase
<1>1. CASE Fetch(c) \/ Handle(c)
  BY <1>1 DEF Fetch, Handle, BaseInv, TypeOK, ConsumerInv
<1>2. CASE DeadLetter(c)
  BY <1>2 DEF DeadLetter, BaseInv, TypeOK, ConsumerInv
<1>3. CASE DeadLetterFails(c) \/ RefreshFails(c)
  <2>1. failures' \in 0..MaxFailures
    BY <1>3, BoundAssumption DEF DeadLetterFails, RefreshFails, BaseInv, TypeOK
  <2> QED BY <1>3, <2>1 DEF DeadLetterFails, RefreshFails, BaseInv, TypeOK, ConsumerInv
<1> QED BY <1>1, <1>2, <1>3 DEF Proceeds

LEMMA ProceedsInv ==
    ASSUME BaseInv, NEW c \in Consumer, Proceeds(c)
    PROVE  BaseInv'
<1>1. dead' \subseteq Offset /\ dropped' \subseteq Offset
  <2>1. position[c] + 1 \in Offset
    BY ProceedsTurn, OffsetType DEF Offset
  <2> QED BY <2>1, ProceedsTurn DEF BaseInv, TypeOK
<1>2. /\ existing' = existing /\ written' = written
      /\ UNCHANGED <<member, position, log>>
  BY ProceedsTurn DEF Turn, group
<1>3. ConsumerInv(c)'
  <2>1. CASE Handle(c)
    <3>1. /\ Changes(Current(c)) /\ pc[c] = "check"
          /\ pc'[c] = IF Current(c).kind = "create" THEN "upsert" ELSE "find"
      BY <2>1 DEF Handle, Go, BaseInv, TypeOK
    <3>2. Current(c)' = Current(c)
      BY <1>2 DEF Current
    <3> QED BY <1>2, <3>1, <3>2, ProceedsTurn DEF BaseInv, ConsumerInv, Changes
  <2>2. CASE ~Handle(c)
    BY <1>2, <2>2, ProceedsTurn DEF BaseInv, ConsumerInv
  <2> QED BY <2>1, <2>2
<1>4. /\ existing' = [existing EXCEPT ![c] = existing'[c]]
      /\ written' = [written EXCEPT ![c] = written'[c]]
      /\ existing'[c] \in ViewRow \cup {NoRow} /\ written'[c] \in ViewRow \cup {NoRow}
  BY <1>2 DEF BaseInv, TypeOK
<1>5. view' \in [Entity -> ViewRow \cup {NoRow}] /\ ledger' \subseteq EventId
  BY ProceedsTurn DEF BaseInv, TypeOK
<1>6. Turn(c) /\ failures' \in 0..MaxFailures
  BY ProceedsTurn
<1> QED BY <1>1, <1>3, <1>4, <1>5, <1>6, TurnStep

LEMMA FindInv ==
    ASSUME BaseInv, NEW c \in Consumer, Find(c)
    PROVE  BaseInv' /\ Turn(c)
<1>1. /\ pc[c] = "find" /\ pc' = [pc EXCEPT ![c] = "upsert"]
      /\ view[Current(c).entity] # NoRow
      /\ existing' = [existing EXCEPT ![c] = view[Current(c).entity]]
      /\ UNCHANGED <<log, group, script, view, ledger, dead, written, dropped, failures>>
  BY DEF Find, Updatable, Go, database
<1>2. Current(c) \in Message /\ view[Current(c).entity] \in ViewRow
  BY <1>1, OffsetType, MessageType DEF BaseInv, TypeOK
<1>3. Turn(c)
  BY <1>1 DEF Turn, Phase, BaseInv, TypeOK
<1>4. ConsumerInv(c)'
  <2>1. Current(c)' = Current(c)
    BY <1>1 DEF Current, group
  <2> QED BY <1>1, <2>1 DEF BaseInv, TypeOK, ConsumerInv, Changes, group
<1>5. /\ existing' = [existing EXCEPT ![c] = existing'[c]]
      /\ written' = [written EXCEPT ![c] = written'[c]]
      /\ existing'[c] \in ViewRow \cup {NoRow} /\ written'[c] \in ViewRow \cup {NoRow}
  BY <1>1, <1>2 DEF BaseInv, TypeOK
<1> QED BY <1>1, <1>3, <1>4, <1>5, TurnStep DEF BaseInv, TypeOK

LEMMA UpsertInv ==
    ASSUME BaseInv, NEW c \in Consumer, Upsert(c)
    PROVE  BaseInv' /\ Turn(c)
<1>1. /\ pc[c] = "upsert" /\ pc' = [pc EXCEPT ![c] = "commit"]
      /\ written' = [written EXCEPT ![c] = NewRow(c)]
      /\ UNCHANGED <<log, group, script, view, ledger, dead, existing, dropped, failures>>
  BY DEF Upsert, Go, database
<1>2. NewRow(c) \in ViewRow
  BY <1>1, NewRowType
<1>3. Turn(c)
  BY <1>1 DEF Turn, Phase, BaseInv, TypeOK
<1>4. ConsumerInv(c)'
  <2>1. Current(c)' = Current(c) /\ NewRow(c)' = NewRow(c)
    BY <1>1 DEF Current, NewRow, group
  <2> QED BY <1>1, <2>1 DEF BaseInv, TypeOK, ConsumerInv, Changes, group
<1>5. /\ existing' = [existing EXCEPT ![c] = existing'[c]]
      /\ written' = [written EXCEPT ![c] = written'[c]]
      /\ existing'[c] \in ViewRow \cup {NoRow} /\ written'[c] \in ViewRow \cup {NoRow}
  BY <1>1, <1>2 DEF BaseInv, TypeOK
<1> QED BY <1>1, <1>3, <1>4, <1>5, TurnStep DEF BaseInv, TypeOK


LEMMA AtMostOne ==
    ASSUME NEW S \in SUBSET Consumer, S = {} \/ \E c \in Consumer : S = {c}
    PROVE  Cardinality(S) <= 1
<1>1. Cardinality({}) = 0
  BY FS_EmptySet
<1>2. \A c \in Consumer : Cardinality({c}) = 1
  BY FS_Singleton
<1>3. CASE S = {}
  BY <1>1, <1>3
<1>4. CASE \E c \in Consumer : S = {c}
  <2>1. PICK c \in Consumer : S = {c}
    BY <1>4
  <2>2. Cardinality(S) = 1
    BY <1>2, <2>1
  <2> QED BY <2>2
<1> QED BY <1>3, <1>4

\* A consumer joins where the group has got to, leaves, or commits its offset.
LEMMA JoinInv ==
    ASSUME BaseInv, NEW c \in Consumer, NEW b \in BOOLEAN, Join(c, b)
    PROVE  BaseInv'
<1> DEFINE first == IF committed > 0 \/ b THEN committed ELSE Len(log)
<1>1. /\ c \notin member /\ pc[c] = "idle" /\ joins < MaxJoins
      /\ owner' = {c} /\ member' = member \cup {c} /\ joined' = joined \cup {c}
      /\ position' = [position EXCEPT ![c] = first]
      /\ skipped' = skipped \cup (committed + 1)..first
      /\ joins' = joins + 1
      /\ UNCHANGED <<view, ledger, dead, log, committed, pc, existing, written, reset,
                     replays, dropped, failures>>
  BY DEF Join, database, transaction, script
<1>2. first \in 0..Len(log) /\ (committed + 1)..first \subseteq Offset
  BY OffsetType DEF BaseInv, TypeOK, Offset
<1> HIDE DEF first
<1>3. GroupInv'
  BY <1>1 DEF BaseInv, GroupInv
<1>4. TypeOK'
  <2>1. owner' \subseteq Consumer /\ Cardinality(owner') <= 1
    <3>1. owner' \in SUBSET Consumer
      BY <1>1
    <3> QED BY <1>1, <3>1, AtMostOne
  <2>2. joins' \in 0..MaxJoins
    BY <1>1, BoundAssumption DEF BaseInv, TypeOK
  <2> QED BY <1>1, <1>2, <2>1, <2>2 DEF BaseInv, TypeOK, Offset
<1>5. ASSUME NEW d \in Consumer PROVE ConsumerInv(d)'
  <2>1. CASE d = c
    BY <1>1, <2>1 DEF BaseInv, ConsumerInv
  <2>2. CASE d # c
    <3>1. position'[d] = position[d]
      BY <1>1, <2>2 DEF BaseInv, TypeOK
    <3>2. Current(d)' = Current(d) /\ NewRow(d)' = NewRow(d)
      BY <1>1, <3>1 DEF Current, NewRow
    <3> QED BY <1>1, <3>1, <3>2 DEF BaseInv, ConsumerInv
  <2> QED BY <2>1, <2>2
<1> QED BY <1>3, <1>4, <1>5 DEF BaseInv

LEMMA LeaveInv ==
    ASSUME BaseInv, NEW c \in Consumer, Leave(c) \/ Crash(c)
    PROVE  BaseInv'
<1>1. /\ member' = member \ {c} /\ owner' = owner \ {c}
      /\ UNCHANGED <<view, ledger, dead, log, committed, position, reset, replays, dropped,
                     skipped, joined, joins, failures>>
      /\ \/ pc[c] = "idle" /\ UNCHANGED <<pc, existing, written>>
         \/ /\ pc' = [pc EXCEPT ![c] = "idle"]
            /\ existing' = [existing EXCEPT ![c] = NoRow]
            /\ written' = [written EXCEPT ![c] = NoRow]
  BY DEF Leave, Crash, database, transaction, script
<1>2. GroupInv'
  <2>1. owner' = {} \/ \E d \in Consumer : owner' = {d}
    <3>1. CASE owner = {}
      BY <1>1, <3>1
    <3>2. CASE \E d \in Consumer : owner = {d}
      <4>1. PICK d \in Consumer : owner = {d}
        BY <3>2
      <4>2. owner' = {} \/ owner' = {d}
        BY <1>1, <4>1
      <4> QED BY <4>2
    <3> QED BY <3>1, <3>2 DEF BaseInv, GroupInv
  <2> QED BY <1>1, <2>1 DEF BaseInv, GroupInv
<1>3. TypeOK'
  <2>1. owner' \subseteq Consumer /\ Cardinality(owner') <= 1
    <3>1. owner' = {} \/ \E d \in Consumer : owner' = {d}
      BY <1>2 DEF GroupInv
    <3>2. owner' \in SUBSET Consumer
      BY <3>1
    <3> QED BY <3>1, <3>2, AtMostOne
  <2> QED BY <1>1, <2>1 DEF BaseInv, TypeOK, Offset
<1>4. ASSUME NEW d \in Consumer PROVE ConsumerInv(d)'
  <2>1. Current(d)' = Current(d)
    BY <1>1 DEF Current
  <2>2. CASE d = c
    <3>1. pc'[c] = "idle" /\ existing'[c] = NoRow /\ written'[c] = NoRow
      BY <1>1 DEF BaseInv, TypeOK, ConsumerInv
    <3> QED BY <2>2, <3>1 DEF ConsumerInv
  <2>3. CASE d # c
    <3>1. pc'[d] = pc[d] /\ existing'[d] = existing[d] /\ written'[d] = written[d]
      BY <1>1, <2>3 DEF BaseInv, TypeOK
    <3>2. NewRow(d)' = NewRow(d)
      BY <2>1, <3>1 DEF NewRow
    <3> QED BY <1>1, <2>1, <2>3, <3>1, <3>2 DEF BaseInv, ConsumerInv
  <2> QED BY <2>2, <2>3
<1> QED BY <1>2, <1>3, <1>4 DEF BaseInv

LEMMA CommitOffsetInv ==
    ASSUME BaseInv, NEW c \in Consumer, CommitOffset(c)
    PROVE  BaseInv'
<1>1. /\ committed' = position[c]
      /\ UNCHANGED <<view, ledger, dead, log, owner, position, member, pc, existing, written,
                     reset, replays, dropped, skipped, joined, joins, failures>>
  BY DEF CommitOffset, database, transaction, script
<1>2. TypeOK' /\ GroupInv'
  BY <1>1 DEF BaseInv, TypeOK, GroupInv, Offset
<1>3. ASSUME NEW d \in Consumer PROVE ConsumerInv(d)'
  <2>1. Current(d)' = Current(d) /\ NewRow(d)' = NewRow(d)
    BY <1>1 DEF Current, NewRow
  <2> QED BY <1>1, <2>1 DEF BaseInv, ConsumerInv
<1> QED BY <1>2, <1>3 DEF BaseInv

LEMMA RefreshInv ==
    ASSUME BaseInv, NEW c \in Consumer, Refresh(c)
    PROVE  BaseInv'
<1>1. /\ pc[c] = "refresh" /\ pc' = [pc EXCEPT ![c] = "idle"]
      /\ position' = [position EXCEPT ![c] = @ + 1]
      /\ UNCHANGED <<view, ledger, dead, log, committed, owner, member, existing, written,
                     reset, replays, dropped, skipped, joined, joins, failures>>
  BY DEF Refresh, database, transaction, script
<1>2. position[c] + 1 \in 0..Len(log)
  BY <1>1, OffsetType DEF Offset
<1>3. TypeOK' /\ GroupInv'
  BY <1>1, <1>2 DEF BaseInv, TypeOK, GroupInv, Offset
<1>4. ASSUME NEW d \in Consumer PROVE ConsumerInv(d)'
  <2>1. CASE d = c
    BY <1>1, <2>1 DEF BaseInv, TypeOK, ConsumerInv
  <2>2. CASE d # c
    <3>1. position'[d] = position[d] /\ pc'[d] = pc[d]
      BY <1>1, <2>2 DEF BaseInv, TypeOK
    <3>2. Current(d)' = Current(d) /\ NewRow(d)' = NewRow(d)
      BY <1>1, <3>1 DEF Current, NewRow
    <3> QED BY <1>1, <3>1, <3>2 DEF BaseInv, ConsumerInv
  <2> QED BY <2>1, <2>2
<1> QED BY <1>3, <1>4 DEF BaseInv

\* The replay script does nothing to the consumers.
LEMMA ScriptInv ==
    ASSUME BaseInv, TruncateViews \/ ClearProjectionState \/ ResetFails
    PROVE  BaseInv'
<1>1. /\ UNCHANGED <<log, committed, owner, position, member, skipped, joined, joins, pc,
                     existing, written, dropped, failures>>
      /\ \/ UNCHANGED <<view, ledger, dead>>
         \/ view' = [e \in Entity |-> NoRow] /\ ledger' = {} /\ dead' = {}
      /\ reset' \in BOOLEAN
  BY DEF TruncateViews, ClearProjectionState, ResetFails, database, group, transaction
<1>2. replays' \in 0..MaxReplays
  <2>1. replays' = replays \/ (replays < MaxReplays /\ replays' = replays + 1)
    BY DEF TruncateViews, ClearProjectionState, ResetFails
  <2> QED BY <2>1, BoundAssumption DEF BaseInv, TypeOK
<1>3. TypeOK' /\ GroupInv'
  BY <1>1, <1>2 DEF BaseInv, TypeOK, GroupInv, Offset
<1>4. ASSUME NEW d \in Consumer PROVE ConsumerInv(d)'
  <2>1. Current(d)' = Current(d) /\ NewRow(d)' = NewRow(d)
    BY <1>1 DEF Current, NewRow
  <2> QED BY <1>1, <2>1 DEF BaseInv, ConsumerInv
<1> QED BY <1>3, <1>4 DEF BaseInv

\* What is in the partition stays where it is.
LEMMA LogGrows ==
    ASSUME BaseInv, NEW m \in Message, Produce(m)
    PROVE  /\ log' \in Seq(Message) /\ Len(log') = Len(log) + 1
           /\ \A i \in Offset : log'[i] = log[i]
           /\ Offset' = Offset \cup {Len(log) + 1} /\ log'[Len(log) + 1] = m
           /\ \A c \in Consumer : pc[c] # "idle" => Current(c)' = Current(c)
<1>1. log' = Append(log, m) /\ log \in Seq(Message) /\ UNCHANGED position
  BY DEF Produce, group, BaseInv, TypeOK
<1>2. /\ log' \in Seq(Message) /\ Len(log') = Len(log) + 1
      /\ \A i \in Offset : log'[i] = log[i]
      /\ log'[Len(log) + 1] = m
  BY <1>1 DEF Offset
<1>3. Offset' = Offset \cup {Len(log) + 1}
  BY <1>1, <1>2 DEF Offset
<1>4. \A c \in Consumer : pc[c] # "idle" => Current(c)' = Current(c)
  BY <1>1, <1>2, OffsetType DEF Current
<1> QED BY <1>2, <1>3, <1>4

LEMMA ProduceInv ==
    ASSUME BaseInv, NEW m \in Message, Produce(m)
    PROVE  BaseInv'
<1>1. UNCHANGED <<view, ledger, dead, committed, owner, position, member, pc, existing,
                  written, reset, dropped, skipped, joined, joins, failures, replays>>
  BY DEF Produce, database, group, transaction, script
<1>2. 0..Len(log) \subseteq 0..Len(log') /\ Len(log) < Len(log') /\ Len(log) \in Nat
  BY LogGrows, OffsetType
<1>3. TypeOK'
  <2>1. /\ dead' \subseteq Offset' /\ dropped' \subseteq Offset' /\ skipped' \subseteq Offset'
    BY <1>1, LogGrows DEF BaseInv, TypeOK
  <2> QED BY <1>1, <1>2, <2>1, LogGrows DEF BaseInv, TypeOK
<1>4. GroupInv'
  BY <1>1 DEF BaseInv, GroupInv
<1>5. ASSUME NEW d \in Consumer PROVE ConsumerInv(d)'
  <2>1. pc[d] # "idle" => Current(d)' = Current(d) /\ NewRow(d)' = NewRow(d)
    BY <1>1, LogGrows DEF NewRow
  <2>2. pc[d] # "idle" => position[d] < Len(log')
    BY <1>2, OffsetType DEF BaseInv, ConsumerInv
  <2> QED BY <1>1, <2>1, <2>2 DEF BaseInv, ConsumerInv
<1> QED BY <1>3, <1>4, <1>5 DEF BaseInv
-----------------------------------------------------------------------------
(* The group never commits ahead of what is accounted for. *)

\* What a consumer has passed, or is about to pass, is accounted for, until a
\* replay script clears the trace of it.
PassedInv ==
    /\ reset => replays > 0
    /\ replays = 0 => \A c \in Consumer :
         /\ \A i \in 1..position[c] : Accounted(i)
         /\ pc[c] = "refresh" => Accounted(position[c] + 1)
    /\ NothingLost

LEMMA PassedSteps ==
    ASSUME BaseInv, BaseInv', PassedInv,
           \A i \in Offset : log'[i] = log[i],
           Len(log) <= Len(log'), reset' => replays' > 0, replays' = 0 => replays = 0,
           replays = 0 => /\ ledger \subseteq ledger' /\ dead \subseteq dead'
                          /\ dropped \subseteq dropped' /\ skipped \subseteq skipped',
           replays' = 0 => \A c \in Consumer :
              /\ \A i \in 1..position'[c] : i <= position[c] \/ Accounted(i)'
              /\ pc'[c] = "refresh" => \/ pc[c] = "refresh" /\ position'[c] = position[c]
                                       \/ Accounted(position[c] + 1)',
           replays' = 0 => \A i \in 1..committed' : i <= committed \/ Accounted(i)'
    PROVE  PassedInv'
<1>1. /\ Len(log) \in Nat /\ Len(log') \in Nat
      /\ \A c \in Consumer : position[c] \in 0..Len(log) /\ position'[c] \in 0..Len(log')
      /\ committed \in 0..Len(log) /\ committed' \in 0..Len(log')
  BY DEF BaseInv, TypeOK
<1>2. \A i \in Offset : replays' = 0 /\ Accounted(i) => Accounted(i)'
  BY DEF Accounted
<1>3. ASSUME replays' = 0, NEW c \in Consumer, NEW i \in 1..position'[c] PROVE Accounted(i)'
  <2>1. CASE i <= position[c]
    <3>1. i \in 1..position[c] /\ i \in Offset
      BY <1>1, <2>1 DEF Offset
    <3>2. Accounted(i)
      BY <1>3, <3>1 DEF PassedInv
    <3> QED BY <1>2, <1>3, <3>1, <3>2
  <2> QED BY <1>3, <2>1
<1>4. ASSUME replays' = 0, NEW i \in 1..committed' PROVE Accounted(i)'
  <2>1. CASE i <= committed
    <3>1. i \in 1..committed /\ i \in Offset
      BY <1>1, <2>1 DEF Offset
    <3>2. Accounted(i)
      BY <1>4, <3>1 DEF PassedInv, NothingLost
    <3> QED BY <1>2, <1>4, <3>1, <3>2
  <2> QED BY <1>4, <2>1
<1>5. ASSUME replays' = 0, NEW c \in Consumer, pc'[c] = "refresh"
      PROVE  Accounted(position[c] + 1)'
  <2>1. CASE pc[c] = "refresh" /\ position'[c] = position[c]
    <3>1. PICK n \in Offset : n = position[c] + 1 /\ n = position'[c] + 1
      BY <1>5, <2>1, OffsetType
    <3>2. Accounted(n)
      BY <1>5, <2>1, <3>1 DEF PassedInv
    <3>3. Accounted(n)'
      BY <1>2, <1>5, <3>2
    <3> QED BY <3>1, <3>3 DEF Accounted
  <2> QED BY <1>5, <2>1
<1> QED BY <1>3, <1>4, <1>5 DEF PassedInv, NothingLost

LEMMA PassedByTurn ==
    ASSUME BaseInv, BaseInv', PassedInv, NEW c \in Consumer,
           Ends(c) \/ Proceeds(c) \/ Find(c) \/ Upsert(c)
    PROVE  PassedInv'
<1>1. UNCHANGED <<log, committed, position, skipped, reset, replays>>
  BY EndsTurn, ProceedsTurn, FindInv, UpsertInv DEF Turn, group, script
<1>2. ledger \subseteq ledger' /\ dead \subseteq dead' /\ dropped \subseteq dropped'
  <2>1. CASE Ends(c)
    BY <2>1, EndsTurn
  <2>2. CASE Proceeds(c)
    BY <2>2, ProceedsTurn
  <2>3. CASE Find(c) \/ Upsert(c)
    BY <2>3 DEF Find, Upsert, database
  <2> QED BY <2>1, <2>2, <2>3
<1>3. \A d \in Consumer \ {c} : pc'[d] = pc[d]
  <2>1. Turn(c)
    BY EndsTurn, ProceedsTurn, FindInv, UpsertInv
  <2>2. pc \in [Consumer -> Phase]
    BY DEF BaseInv, TypeOK, Phase
  <2> QED BY <2>1, <2>2 DEF Turn
<1>4. ASSUME pc'[c] = "refresh" PROVE Accounted(position[c] + 1)'
  <2>1. pc[c] \in Phase /\ pc \in [Consumer -> Phase]
    BY DEF BaseInv, TypeOK, Phase
  <2>2. CASE Proceeds(c)
    BY <1>1, <1>4, <2>2, ProceedsTurn DEF Accounted
  <2>3. CASE Find(c) \/ Upsert(c)
    BY <1>4, <2>1, <2>3 DEF Find, Upsert, Go
  <2>4. CASE Duplicate(c)
    BY <1>1, <1>2, <2>4 DEF Duplicate, Current, Accounted
  <2>5. CASE HandleOther(c) \/ FindNoneOrNewer(c) \/ UpsertNewer(c)
    BY <1>1, <2>5 DEF HandleOther, FindNoneOrNewer, UpsertNewer, Drop, Accounted
  <2>6. CASE Commit(c)
    BY <1>1, <2>6 DEF Commit, Apply, Current, Accounted
  <2>7. CASE CommitUnacknowledged(c) \/ Fail(c)
    BY <1>4, <2>1, <2>7 DEF CommitUnacknowledged, Fail, Apply, EndTransaction, Go
  <2> QED BY <2>2, <2>3, <2>4, <2>5, <2>6, <2>7 DEF Ends
<1>5. \A i \in 1..committed' : i <= committed
  BY <1>1 DEF BaseInv, TypeOK
<1>6. \A d \in Consumer : \A i \in 1..position'[d] : i <= position[d]
  BY <1>1 DEF BaseInv, TypeOK
<1>7. Len(log) <= Len(log')
  BY <1>1, OffsetType
<1>8. \A d \in Consumer : pc'[d] = "refresh" => \/ pc[d] = "refresh" /\ position'[d] = position[d]
                                                \/ Accounted(position[d] + 1)'
  BY <1>1, <1>3, <1>4
<1>9. reset' => replays' > 0
  BY <1>1 DEF PassedInv
<1> QED BY <1>1, <1>2, <1>5, <1>6, <1>7, <1>8, <1>9, PassedSteps

LEMMA PassedByGroup ==
    ASSUME BaseInv, BaseInv', PassedInv, NEW c \in Consumer, NEW b \in BOOLEAN,
           Join(c, b) \/ Leave(c) \/ Crash(c) \/ CommitOffset(c) \/ Refresh(c)
    PROVE  PassedInv'
<1>1. /\ UNCHANGED <<view, ledger, dead, log, reset, replays, dropped>>
      /\ skipped \subseteq skipped'
  BY DEF Join, Leave, Crash, CommitOffset, Refresh, database, script, transaction
<1>2. /\ pc' = pc \/ pc' = [pc EXCEPT ![c] = "idle"]
      /\ committed' = committed \/ committed' = position[c]
  BY DEF Join, Leave, Crash, CommitOffset, Refresh
<1>3. \A d \in Consumer : position[d] \in Nat
  BY OffsetType
<1>4. ASSUME replays' = 0, NEW d \in Consumer, NEW i \in 1..position'[d]
      PROVE  i <= position[d] \/ Accounted(i)'
  <2>1. CASE d = c /\ Join(c, b)
    <3>1. position'[c] = (IF committed > 0 \/ b THEN committed ELSE Len(log))
      BY <2>1 DEF Join, BaseInv, TypeOK
    <3>2. committed \in Nat /\ Len(log) \in Nat
      BY OffsetType DEF BaseInv, TypeOK
    <3>3. CASE i \in 1..committed
      BY <1>1, <1>4, <3>3 DEF PassedInv, NothingLost, Accounted
    <3>4. CASE i \notin 1..committed
      <4>1. i \in (committed + 1)..(IF committed > 0 \/ b THEN committed ELSE Len(log))
        BY <1>4, <2>1, <3>1, <3>2, <3>4
      <4> QED BY <2>1, <4>1 DEF Join, Accounted
    <3> QED BY <3>3, <3>4
  <2>2. CASE d = c /\ Refresh(c)
    <3>1. position'[c] = position[c] + 1 /\ pc[c] = "refresh"
      BY <2>2 DEF Refresh, BaseInv, TypeOK
    <3>2. CASE i = position[c] + 1
      BY <1>1, <1>4, <3>1, <3>2 DEF PassedInv, Accounted
    <3> QED BY <1>3, <1>4, <2>2, <3>1, <3>2
  <2>3. CASE position'[d] = position[d]
    BY <1>3, <1>4, <2>3
  <2> QED BY <2>1, <2>2, <2>3 DEF Join, Leave, Crash, CommitOffset, Refresh, BaseInv, TypeOK
<1>5. ASSUME replays' = 0, NEW i \in 1..committed' PROVE i <= committed \/ Accounted(i)'
  <2>1. CASE committed' = committed
    BY <1>5, <2>1 DEF BaseInv, TypeOK
  <2>2. CASE committed' = position[c]
    BY <1>1, <1>5, <2>2 DEF PassedInv, Accounted
  <2> QED BY <1>2, <2>1, <2>2
<1>6. ASSUME NEW d \in Consumer, pc'[d] = "refresh"
      PROVE  pc[d] = "refresh" /\ position'[d] = position[d]
  <2>1. pc[d] = "refresh" /\ (pc' = pc \/ d # c)
    BY <1>2, <1>6 DEF BaseInv, TypeOK
  <2> QED BY <1>2, <1>6, <2>1 DEF Join, Leave, Crash, CommitOffset, Refresh, BaseInv, TypeOK
<1>7. (reset' => replays' > 0) /\ Len(log) <= Len(log')
  BY <1>1, OffsetType DEF PassedInv
<1> QED BY <1>1, <1>4, <1>5, <1>6, <1>7, PassedSteps

LEMMA PassedByScript ==
    ASSUME BaseInv, BaseInv', PassedInv, TruncateViews \/ ClearProjectionState \/ ResetFails
    PROVE  PassedInv'
<1>1. UNCHANGED <<log, committed, position, skipped, dropped, pc>>
  BY DEF TruncateViews, ClearProjectionState, ResetFails, group
<1>2. reset' => replays' > 0
  BY DEF TruncateViews, ClearProjectionState, ResetFails, BaseInv, TypeOK
<1>3. replays' = 0 => replays = 0 /\ ~reset
  BY DEF TruncateViews, ClearProjectionState, ResetFails, BaseInv, TypeOK, PassedInv
<1>4. replays' = 0 => UNCHANGED <<ledger, dead>>
  BY <1>3 DEF TruncateViews, ClearProjectionState, ResetFails, database
<1>5. replays' = 0 => PassedInv'
  BY <1>1, <1>2, <1>3, <1>4 DEF PassedInv, NothingLost, Accounted
<1> QED BY <1>2, <1>5 DEF PassedInv, NothingLost

LEMMA PassedByProduce ==
    ASSUME BaseInv, BaseInv', PassedInv, NEW m \in Message, Produce(m)
    PROVE  PassedInv'
<1>1. UNCHANGED <<ledger, dead, committed, position, skipped, dropped, pc, reset, replays>>
  BY DEF Produce, database, group, script
<1>2. /\ \A i \in 1..committed' : i <= committed
      /\ \A d \in Consumer : \A i \in 1..position'[d] : i <= position[d]
      /\ Len(log) <= Len(log')
  <2>1. Len(log) <= Len(log')
    BY LogGrows
  <2>2. committed \in Nat /\ \A d \in Consumer : position[d] \in Nat
    BY OffsetType DEF BaseInv, TypeOK
  <2> QED BY <1>1, <2>1, <2>2
<1>3. \A i \in Offset : log'[i] = log[i]
  BY LogGrows
<1>4. \A d \in Consumer : pc'[d] = "refresh" => pc[d] = "refresh" /\ position'[d] = position[d]
  BY <1>1
<1>5. reset' => replays' > 0
  BY <1>1 DEF PassedInv
<1> QED BY <1>1, <1>2, <1>3, <1>4, <1>5, PassedSteps
-----------------------------------------------------------------------------
(* The view shows the newest of the recorded events. *)

\* All messages of an event that writes the view have the same contents.
OneEvent ==
    \A i, j \in Offset :
        log[i].id = log[j].id /\ Changes(log[i]) /\ Changes(log[j]) => log[i] = log[j]

\* The ledger holds events of the partition that write the view.
LedgerKnown == \A id \in ledger : \E i \in Offset : log[i].id = id /\ Changes(log[i])

\* A transaction that has written its row has locked it and compared timestamps.
Locks ==
    \A c \in Consumer : pc[c] = "commit" =>
        /\ ~Newer(c)
        /\ \A d \in Consumer \ {c} : pc[d] = "commit" => Current(d).entity # Current(c).entity

ViewInv == OneEvent /\ LedgerKnown /\ Locks /\ ViewMatchesNewest

LEMMA ViewStays ==
    ASSUME BaseInv, ViewInv, UNCHANGED <<view, ledger, log>>,
           \A c \in Consumer : pc'[c] = "commit" => pc[c] = "commit" /\ position'[c] = position[c]
    PROVE  ViewInv'
<1>1. OneEvent' /\ LedgerKnown' /\ ViewMatchesNewest'
  <2>1. OneEvent' /\ LedgerKnown'
    BY DEF ViewInv, OneEvent, LedgerKnown, Offset
  <2>2. ViewMatchesNewest'
    BY DEF ViewInv, ViewMatchesNewest, Offset, Applied, Newest
  <2> QED BY <2>1, <2>2
<1>2. \A c \in Consumer : pc'[c] = "commit" => Current(c)' = Current(c)
  BY DEF Current
<1>3. Locks'
  BY <1>2 DEF ViewInv, Locks, Newer
<1> QED BY <1>1, <1>3 DEF ViewInv

LEMMA ViewByUpsert ==
    ASSUME BaseInv, ViewInv, NEW c \in Consumer, Upsert(c)
    PROVE  ViewInv'
<1>1. /\ UNCHANGED <<view, ledger, log, position>> /\ pc[c] = "upsert"
      /\ pc' = [pc EXCEPT ![c] = "commit"]
  BY DEF Upsert, Go, group, database
<1>2. OneEvent' /\ LedgerKnown' /\ ViewMatchesNewest'
  <2>1. OneEvent' /\ LedgerKnown'
    BY <1>1 DEF ViewInv, OneEvent, LedgerKnown, Offset
  <2>2. ViewMatchesNewest'
    BY <1>1 DEF ViewInv, ViewMatchesNewest, Offset, Applied, Newest
  <2> QED BY <2>1, <2>2
<1>3. \A d \in Consumer : Current(d)' = Current(d) /\ (Newer(d)' <=> Newer(d))
  BY <1>1 DEF Current, Newer
<1>4. \A d \in Consumer \ {c} : pc[d] = "commit" => written[d] # NoRow
  BY NewRowType DEF BaseInv, ConsumerInv
<1>5. \A d \in Consumer \ {c} : pc[d] = "commit" => Current(d).entity # Current(c).entity
  BY <1>4 DEF Upsert, RowLocked
<1>6. \A d \in Consumer \ {c} : pc'[d] = pc[d]
  BY <1>1 DEF BaseInv, TypeOK
<1>7. ~Newer(c)
  BY DEF Upsert
<1>8. Locks'
  BY <1>3, <1>5, <1>6, <1>7 DEF ViewInv, Locks
<1> QED BY <1>2, <1>8 DEF ViewInv

\* Recording an event adds its messages to what has been applied to its entity.
LEMMA AppliedGrows ==
    ASSUME BaseInv, ViewInv, NEW n \in Offset, NEW m \in Message, m = log[n], Changes(m),
           UNCHANGED log, ledger' = ledger \cup {m.id}
    PROVE  /\ n \in Applied(m.entity)'
           /\ \A e \in Entity : \A i \in Applied(e)' :
                i \in Applied(e) \/ (e = m.entity /\ log[i] = m)
           /\ \A e \in Entity : Applied(e) \subseteq Applied(e)'
<1>1. \A i \in Offset : log[i].id = m.id /\ Changes(log[i]) => log[i] = m
  BY DEF ViewInv, OneEvent
<1>2. Offset' = Offset
  BY DEF Offset
<1>3. \A e, i : i \in Applied(e)' <=> /\ i \in Offset /\ log[i].entity = e
                                      /\ log[i].id \in ledger \cup {m.id} /\ Changes(log[i])
  BY <1>2 DEF Applied, Changes
<1> QED BY <1>1, <1>3 DEF Applied

\* Nothing that is applied to the entity is newer than an event that commits.
LEMMA CommitIsNewest ==
    ASSUME BaseInv, ViewInv, NEW n \in Offset, NEW m \in Message, m = log[n], Changes(m),
           UNCHANGED log, ledger' = ledger \cup {m.id},
           view[m.entity] = NoRow \/ ~(view[m.entity].at > m.at)
    PROVE  \A i \in Applied(m.entity)' : log[i].at <= m.at /\ i \in Offset
<1> DEFINE x == m.entity
<1>1. x \in Entity /\ m.at \in Nat
  BY MessageType
<1>2. \A i \in Applied(x)' : i \in Applied(x) \/ (i \in Offset /\ log[i] = m)
  BY <1>1, AppliedGrows DEF Applied, Offset
<1> HIDE DEF x
<1> SUFFICES ASSUME NEW i \in Applied(x)' PROVE log[i].at <= m.at /\ i \in Offset
  BY DEF x
<1>3. CASE i \in Offset /\ log[i] = m
  BY <1>1, <1>3
<1>4. CASE i \in Applied(x)
  <2>1. view[x] # NoRow
    BY <1>1, <1>4 DEF ViewInv, ViewMatchesNewest
  <2>2. PICK j \in Applied(x) : Newest(x, j) /\ view[x].at = log[j].at
    BY <1>1, <1>4 DEF ViewInv, ViewMatchesNewest
  <2>3. log[i].at <= log[j].at /\ i \in Offset /\ j \in Offset
    BY <1>4, <2>2 DEF Newest, Applied
  <2>4. log[i].at \in Nat /\ log[j].at \in Nat
    BY <2>3, OffsetType, MessageType
  <2> QED BY <1>1, <2>1, <2>2, <2>3, <2>4 DEF x
<1> QED BY <1>2, <1>3, <1>4

LEMMA ViewByCommit ==
    ASSUME BaseInv, ViewInv, NEW c \in Consumer, pc[c] = "commit",
           NEW n \in Offset, n = position[c] + 1, NEW m \in Message, m = Current(c),
           UNCHANGED <<log, position>>, view' = [view EXCEPT ![m.entity] = written[c]],
           ledger' = ledger \cup {m.id},
           \A d \in Consumer : pc'[d] = "commit" => d # c /\ pc[d] = "commit"
    PROVE  ViewInv'
<1> DEFINE x == m.entity
<1>1. m = log[n] /\ Changes(m) /\ x \in Entity /\ m.at \in Nat
  BY MessageType DEF BaseInv, ConsumerInv, Current
<1>2. /\ written[c] = NewRow(c) /\ view'[x] = NewRow(c) /\ NewRow(c) # NoRow
      /\ \A e \in Entity \ {x} : view'[e] = view[e]
      /\ NewRow(c).at = m.at /\ \A k \in m.sets : NewRow(c).cols[k] = m.id
  <2>1. written[c] = NewRow(c) /\ view \in [Entity -> ViewRow \cup {NoRow}]
    BY DEF BaseInv, ConsumerInv, TypeOK
  <2>2. m.sets \subseteq Column
    BY <1>1, MessageType
  <2>3. view'[x] = NewRow(c) /\ \A e \in Entity \ {x} : view'[e] = view[e]
    BY <1>1, <2>1
  <2> QED BY <2>1, <2>2, <2>3, NewRowType
<1>3. view[x] = NoRow \/ ~(view[x].at > m.at)
  BY DEF ViewInv, Locks, Newer
<1>4. /\ n \in Applied(x)'
      /\ \A e \in Entity : \A i \in Applied(e)' : i \in Applied(e) \/ (e = x /\ log[i] = m)
      /\ \A e \in Entity : Applied(e) \subseteq Applied(e)'
  BY <1>1, AppliedGrows
<1> HIDE DEF x
<1>5. OneEvent'
  BY DEF ViewInv, OneEvent, Offset
<1>6. LedgerKnown'
  BY <1>1 DEF ViewInv, LedgerKnown, Offset
<1>7. Locks'
  <2>1. \A d \in Consumer : Current(d)' = Current(d)
    BY DEF Current
  <2>2. ASSUME NEW d \in Consumer, pc'[d] = "commit" PROVE ~Newer(d)'
    <3>1. pc[d] = "commit" /\ Current(d).entity # x /\ ~Newer(d) /\ Current(d).entity \in Entity
      BY <2>2, OffsetType, MessageType DEF ViewInv, Locks, x
    <3> QED BY <1>2, <2>1, <3>1 DEF Newer
  <2> QED BY <2>1, <2>2 DEF ViewInv, Locks
<1>8. \A i \in Applied(x)' : log[i].at <= m.at /\ i \in Offset
  BY <1>1, <1>3, CommitIsNewest DEF x
<1>9. ASSUME NEW e \in Entity
      PROVE  /\ view'[e] = NoRow <=> Applied(e)' = {}
             /\ view'[e] # NoRow =>
                  \E i \in Applied(e)' :
                     /\ Newest(e, i)' /\ view'[e].at = log'[i].at
                     /\ \A k \in log'[i].sets : view'[e].cols[k] = log'[i].id
  <2>1. CASE e = x
    <3>1. Newest(x, n)' /\ log' = log
      BY <1>1, <1>8 DEF Newest
    <3>2. n \in Applied(x)' /\ view'[x].at = log'[n].at
          /\ \A k \in log'[n].sets : view'[x].cols[k] = log'[n].id
      BY <1>1, <1>2, <1>4
    <3> QED BY <1>2, <2>1, <3>1, <3>2
  <2>2. CASE e # x
    <3>1. Applied(e)' = Applied(e) /\ view'[e] = view[e]
      BY <1>2, <1>4, <2>2
    <3> QED BY <3>1 DEF ViewInv, ViewMatchesNewest, Newest
  <2> QED BY <2>1, <2>2
<1> QED BY <1>5, <1>6, <1>7, <1>9 DEF ViewInv, ViewMatchesNewest

LEMMA ViewByScript ==
    ASSUME BaseInv, ViewInv, TruncateViews \/ ClearProjectionState \/ ResetFails
    PROVE  ViewInv'
<1>1. UNCHANGED <<log, pc, position>>
  BY DEF TruncateViews, ClearProjectionState, ResetFails, group
<1>2. CASE TruncateViews \/ ResetFails
  BY <1>1, <1>2, ViewStays DEF TruncateViews, ResetFails, database
<1>3. CASE ClearProjectionState
  <2>1. view' = [e \in Entity |-> NoRow] /\ ledger' = {}
        /\ \A c \in Consumer : pc[c] # "commit"
    BY <1>3 DEF ClearProjectionState, HoldsLedger
  <2>2. OneEvent' /\ LedgerKnown' /\ Locks'
    BY <1>1, <2>1 DEF ViewInv, OneEvent, LedgerKnown, Locks, Offset
  <2>3. ViewMatchesNewest'
    BY <2>1 DEF ViewMatchesNewest, Applied
  <2> QED BY <2>2, <2>3 DEF ViewInv
<1> QED BY <1>2, <1>3

\* A message of an event that is recorded already adds nothing new.
LEMMA ViewByProduce ==
    ASSUME BaseInv, ViewInv, NEW m \in Message, Produce(m), OneEvent'
    PROVE  ViewInv'
<1> DEFINE n == Len(log) + 1
<1>1. UNCHANGED <<view, ledger, pc, position>>
  BY DEF Produce, database, group
<1>2. LedgerKnown'
  BY <1>1, LogGrows DEF ViewInv, LedgerKnown
<1>3. Locks'
  <2>1. \A c \in Consumer : pc'[c] = "commit" => Current(c)' = Current(c) /\ pc[c] = "commit"
    BY <1>1, LogGrows
  <2> QED BY <1>1, <2>1 DEF ViewInv, Locks, Newer
<1>4. ASSUME NEW e \in Entity, NEW i \in Applied(e)' PROVE \E j \in Applied(e) : log'[i] = log[j]
  <2>1. /\ i \in Offset' /\ log'[i].entity = e /\ log'[i].id \in ledger /\ Changes(log'[i])
    BY <1>1, <1>4 DEF Applied, Changes
  <2>2. PICK j \in Offset : log[j].id = log'[i].id /\ Changes(log[j])
    BY <2>1 DEF ViewInv, LedgerKnown
  <2>3. j \in Offset' /\ log'[j] = log[j]
    BY <2>2, LogGrows
  <2>4. log'[i] = log'[j]
    BY <2>1, <2>2, <2>3 DEF OneEvent, Changes
  <2> QED BY <2>1, <2>2, <2>3, <2>4 DEF Applied
<1>5. \A e \in Entity : \A j \in Applied(e) : j \in Applied(e)' /\ log'[j] = log[j]
  BY <1>1, LogGrows DEF Applied, Changes
<1>6. ViewMatchesNewest'
  <2> SUFFICES ASSUME NEW e \in Entity
               PROVE  /\ view[e] = NoRow <=> Applied(e)' = {}
                      /\ view[e] # NoRow =>
                           \E i \in Applied(e)' :
                              /\ Newest(e, i)' /\ view[e].at = log'[i].at
                              /\ \A k \in log'[i].sets : view[e].cols[k] = log'[i].id
    BY <1>1 DEF ViewMatchesNewest
  <2>1. Applied(e)' = {} <=> Applied(e) = {}
    BY <1>4, <1>5
  <2>2. \A i \in Applied(e) : Newest(e, i) => Newest(e, i)'
    BY <1>4, <1>5 DEF Newest
  <2> QED BY <1>5, <2>1, <2>2 DEF ViewInv, ViewMatchesNewest
<1> QED BY <1>2, <1>3, <1>6 DEF ViewInv
-----------------------------------------------------------------------------
(* The theorems. *)

ProjectionInv == BaseInv /\ PassedInv /\ ViewInv

LEMMA InitInv ==
    ASSUME Init
    PROVE  ProjectionInv
<1>1. owner = {} /\ Cardinality(owner) = 0 /\ Len(log) = 0 /\ log \in Seq(Message)
  BY FS_EmptySet DEF Init
<1>2. TypeOK
  <2>1. /\ committed \in 0..Len(log) /\ position \in [Consumer -> 0..Len(log)]
        /\ joins \in 0..MaxJoins /\ failures \in 0..MaxFailures /\ replays \in 0..MaxReplays
    BY <1>1, BoundAssumption DEF Init
  <2>2. /\ view \in [Entity -> ViewRow \cup {NoRow}]
        /\ existing \in [Consumer -> ViewRow \cup {NoRow}]
        /\ written \in [Consumer -> ViewRow \cup {NoRow}]
    BY DEF Init
  <2>3. Cardinality(owner) <= 1
    BY <1>1
  <2> QED BY <1>1, <2>1, <2>2, <2>3 DEF Init, TypeOK
<1>3. BaseInv
  BY <1>1, <1>2 DEF Init, BaseInv, GroupInv, ConsumerInv
<1>4. PassedInv
  BY DEF Init, PassedInv, NothingLost
<1>5. ViewInv
  BY <1>1 DEF Init, ViewInv, OneEvent, LedgerKnown, Locks, ViewMatchesNewest, Offset, Applied
<1> QED BY <1>3, <1>4, <1>5 DEF ProjectionInv

\* What producers append is a message, and repeats no event with other contents.
LEMMA ProduceNextStep ==
    ASSUME BaseInv, ProduceNext
    PROVE  OneEvent' /\ \E m \in Message : Produce(m)
<1>1. PICK l \in Logs : /\ Len(log) < Len(l) /\ SubSeq(l, 1, Len(log)) = log
                        /\ Produce(l[Len(log) + 1])
  BY DEF ProduceNext
<1>2. l \in Seq(Message) /\ Len(l) \in Nat /\ Len(log) \in Nat
  BY LogAssumption, OffsetType
<1>3. Len(log) + 1 \in 1..Len(l) /\ l[Len(log) + 1] \in Message
  BY <1>1, <1>2
<1>4. \A i \in Offset : i \in 1..Len(l) /\ log[i] = l[i]
  BY <1>1, <1>2 DEF Offset
<1>5. \A i \in Offset' : i \in DOMAIN l /\ log'[i] = l[i]
  BY <1>1, <1>2, <1>3, <1>4, LogGrows
<1>6. OneEvent'
  BY <1>5, EventAssumption DEF OneEvent, Changes
<1> QED BY <1>1, <1>3, <1>6

LEMMA ConsumeSteps ==
    ASSUME Consume
    PROVE  \/ \E c \in Consumer : \/ \E b \in BOOLEAN : Join(c, b)
                                  \/ Leave(c) \/ Crash(c) \/ CommitOffset(c) \/ Refresh(c)
                                  \/ Ends(c) \/ Proceeds(c) \/ Find(c) \/ Upsert(c)
           \/ TruncateViews \/ ClearProjectionState \/ ResetFails
BY DEF Consume, Work, Ends, Proceeds

LEMMA ConsumeBase ==
    ASSUME BaseInv, Consume
    PROVE  BaseInv'
BY ConsumeSteps, JoinInv, LeaveInv, CommitOffsetInv, RefreshInv, EndsInv, ProceedsInv, FindInv,
   UpsertInv, ScriptInv

LEMMA ConsumePassed ==
    ASSUME BaseInv, PassedInv, Consume
    PROVE  PassedInv'
<1>1. BaseInv'
  BY ConsumeBase
<1> QED BY <1>1, ConsumeSteps, PassedByGroup, PassedByTurn, PassedByScript

LEMMA ConsumeView ==
    ASSUME BaseInv, ViewInv, Consume
    PROVE  ViewInv'
<1>1. pc \in [Consumer -> Phase] /\ position \in [Consumer -> 0..Len(log)]
  BY DEF BaseInv, TypeOK, Phase
<1>2. ASSUME NEW c \in Consumer, NEW b \in BOOLEAN,
             Join(c, b) \/ Leave(c) \/ Crash(c) \/ CommitOffset(c) \/ Refresh(c)
      PROVE  ViewInv'
  <2>1. /\ UNCHANGED <<view, ledger, log>>
        /\ \A d \in Consumer : pc'[d] = "commit" => pc[d] = "commit" /\ position'[d] = position[d]
    BY <1>1, <1>2 DEF Join, Leave, Crash, CommitOffset, Refresh, database
  <2> QED BY <2>1, ViewStays
<1>3. ASSUME NEW c \in Consumer, Proceeds(c) \/ Find(c) PROVE ViewInv'
  <2>1. Turn(c) /\ UNCHANGED <<view, ledger>>
    BY <1>3, ProceedsTurn, FindInv DEF Find, database
  <2>2. pc'[c] # "commit"
    BY <1>1, <1>3, ProceedsTurn DEF Find, Go
  <2>3. /\ UNCHANGED <<log, position>>
        /\ \A d \in Consumer : pc'[d] = "commit" => pc[d] = "commit"
    BY <1>1, <2>1, <2>2 DEF Turn, group
  <2> QED BY <2>1, <2>3, ViewStays
<1>4. ASSUME NEW c \in Consumer, Ends(c) PROVE ViewInv'
  <2>1. /\ UNCHANGED <<log, position>>
        /\ \A d \in Consumer : pc'[d] = "commit" => d # c /\ pc[d] = "commit"
    BY <1>1, <1>4, EndsTurn DEF Turn, group
  <2>2. CASE UNCHANGED <<view, ledger>>
    BY <2>1, <2>2, ViewStays
  <2>3. CASE ~UNCHANGED <<view, ledger>>
    <3>1. /\ pc[c] = "commit" /\ view' = [view EXCEPT ![Current(c).entity] = written[c]]
          /\ ledger' = ledger \cup {Current(c).id}
      BY <1>4, <2>3, EndsTurn
    <3>2. PICK n \in Offset, m \in Message : n = position[c] + 1 /\ m = Current(c)
      BY <3>1, OffsetType
    <3> QED BY <2>1, <3>1, <3>2, ViewByCommit
  <2> QED BY <2>2, <2>3
<1> QED BY <1>2, <1>3, <1>4, ConsumeSteps, ViewByUpsert, ViewByScript

\* A message is dropped only if no handler takes it, it is an update, or the
\* view row is newer.
LEMMA ConsumeDrops ==
    ASSUME BaseInv, Consume
    PROVE  /\ log' = log
           /\ \A i \in dropped' : i \in dropped \/ \E c \in Consumer :
                /\ i = position[c] + 1 /\ pc[c] # "idle"
                /\ Current(c).kind \in {"other", "update"} \/ Newer(c)
<1>1. CASE dropped' = dropped /\ log' = log
  BY <1>1
<1>2. ASSUME NEW c \in Consumer, Ends(c)
      PROVE  \/ dropped' = dropped
             \/ /\ dropped' = dropped \cup {position[c] + 1} /\ pc[c] # "idle"
                /\ Current(c).kind \in {"other", "update"} \/ Newer(c)
  <2>1. CASE HandleOther(c)
    BY <2>1 DEF HandleOther, Drop
  <2>2. CASE FindNoneOrNewer(c)
    BY <2>2 DEF FindNoneOrNewer, Drop, BaseInv, ConsumerInv
  <2>3. CASE UpsertNewer(c)
    BY <2>3 DEF UpsertNewer, Drop
  <2>4. CASE Duplicate(c) \/ Commit(c) \/ CommitUnacknowledged(c) \/ Fail(c)
    BY <2>4 DEF Duplicate, Commit, CommitUnacknowledged, Fail, Apply
  <2> QED BY <1>2, <2>1, <2>2, <2>3, <2>4 DEF Ends
<1>3. ASSUME NEW c \in Consumer, Ends(c) PROVE log' = log
  BY <1>3, EndsTurn DEF Turn
<1>4. ASSUME NEW c \in Consumer, Proceeds(c) \/ Find(c) \/ Upsert(c)
      PROVE  log' = log /\ dropped' = dropped
  BY <1>4, ProceedsTurn DEF Turn, Find, Upsert, Go
<1>5. ASSUME NEW c \in Consumer, NEW b \in BOOLEAN,
             Join(c, b) \/ Leave(c) \/ Crash(c) \/ CommitOffset(c) \/ Refresh(c)
      PROVE  log' = log /\ dropped' = dropped
  BY <1>5 DEF Join, Leave, Crash, CommitOffset, Refresh
<1>6. ASSUME TruncateViews \/ ClearProjectionState \/ ResetFails
      PROVE  log' = log /\ dropped' = dropped
  BY <1>6 DEF TruncateViews, ClearProjectionState, ResetFails
<1> QED BY <1>1, <1>2, <1>3, <1>4, <1>5, <1>6, ConsumeSteps

LEMMA StutterInv ==
    ASSUME BaseInv, UNCHANGED vars
    PROVE  BaseInv' /\ (PassedInv => PassedInv') /\ (ViewInv => ViewInv')
<1>1. /\ UNCHANGED <<view, ledger, dead, log, committed, owner, position, member>>
      /\ UNCHANGED <<pc, existing, written, reset, dropped, skipped>>
      /\ UNCHANGED <<joined, joins, failures, replays>>
  BY DEF vars
<1>2. \A d \in Consumer : Current(d)' = Current(d) /\ NewRow(d)' = NewRow(d)
  BY <1>1 DEF Current, NewRow
<1>3. TypeOK' /\ GroupInv'
  BY <1>1 DEF BaseInv, TypeOK, GroupInv, Offset
<1>4. \A d \in Consumer : ConsumerInv(d)'
  BY <1>1, <1>2 DEF BaseInv, ConsumerInv
<1>5. PassedInv => PassedInv'
  BY <1>1 DEF PassedInv, NothingLost, Accounted
<1>6. ViewInv => ViewInv'
  BY <1>1, ViewStays
<1> QED BY <1>3, <1>4, <1>5, <1>6 DEF BaseInv

LEMMA StepInv ==
    ASSUME ProjectionInv, [Next]_vars
    PROVE  ProjectionInv'
<1> USE DEF ProjectionInv
<1>1. CASE Consume
  BY <1>1, ConsumeBase, ConsumePassed, ConsumeView
<1>2. CASE ProduceNext
  <2>1. OneEvent' /\ \E m \in Message : Produce(m)
    BY <1>2, ProduceNextStep
  <2>2. PICK m \in Message : Produce(m)
    BY <2>1
  <2>3. BaseInv'
    BY <2>2, ProduceInv
  <2> QED BY <2>1, <2>2, <2>3, PassedByProduce, ViewByProduce
<1>3. CASE UNCHANGED vars
  BY <1>3, StutterInv
<1> QED BY <1>1, <1>2, <1>3 DEF Next

\* In every reachable state consumers, ledger and view agree as the three parts
\* of the invariant say.
THEOREM ProjectionInvCorrect == Spec => []ProjectionInv
BY InitInv, StepInv, PTL DEF Spec

\* Tables, offsets and transactions hold what the code can put there.
THEOREM TypeCorrect == Spec => []TypeOK
<1>1. ProjectionInv => TypeOK
  BY DEF ProjectionInv, BaseInv
<1> QED BY <1>1, ProjectionInvCorrect, PTL

\* The committed offset is never ahead of what was applied, dead-lettered,
\* dropped or skipped, whatever fails, crashes or is rebalanced.
THEOREM NothingIsLost == Spec => []NothingLost
<1>1. ProjectionInv => NothingLost
  BY DEF ProjectionInv, PassedInv
<1> QED BY <1>1, ProjectionInvCorrect, PTL

\* However many consumers redeliver and race, a view row shows the newest of
\* the events recorded for it, and there is one exactly when there is such an
\* event.
THEOREM ViewShowsNewest == Spec => []ViewMatchesNewest
<1>1. ProjectionInv => ViewMatchesNewest
  BY DEF ProjectionInv, ViewInv
<1> QED BY <1>1, ProjectionInvCorrect, PTL

\* The timestamp of a view row never goes back: the upsert compares timestamps
\* under the row lock that its transaction keeps until it commits.
THEOREM RowsOnlyAdvance == Spec => ViewOnlyAdvances
<1> DEFINE Advances == \A e \in Entity : view[e] # NoRow /\ view'[e] # NoRow
                                            => view'[e].at >= view[e].at
<1>1. ProjectionInv /\ [Next]_vars => [Advances]_vars
  <2> SUFFICES ASSUME ProjectionInv, Next, NEW e \in Entity, view[e] # NoRow, view'[e] # NoRow
               PROVE  view'[e].at >= view[e].at
    BY DEF vars
  <2>1. CASE view' = view
    <3>1. view[e].at \in Nat
      BY DEF ProjectionInv, BaseInv, TypeOK, ViewRow
    <3> QED BY <2>1, <3>1
  <2>2. CASE \E c \in Consumer : Ends(c)
    <3>1. PICK c \in Consumer : Ends(c)
      BY <2>2
    <3>2. CASE ~(view' = view)
      <4>1. pc[c] = "commit" /\ view' = [view EXCEPT ![Current(c).entity] = written[c]]
        BY <3>1, <3>2, EndsTurn DEF ProjectionInv
      <4>2. /\ written[c].at = Current(c).at /\ Current(c).at \in Nat
            /\ view \in [Entity -> ViewRow \cup {NoRow}] /\ view[e].at \in Nat
        <5>1. written[c].at = Current(c).at
          BY <4>1, NewRowType DEF ProjectionInv, BaseInv, ConsumerInv
        <5>2. Current(c).at \in Nat
          BY <4>1, OffsetType, MessageType DEF ProjectionInv
        <5>3. view \in [Entity -> ViewRow \cup {NoRow}] /\ view[e].at \in Nat
          BY DEF ProjectionInv, BaseInv, TypeOK, ViewRow
        <5> QED BY <5>1, <5>2, <5>3
      <4>3. e = Current(c).entity => ~(view[e].at > Current(c).at)
        BY <4>1 DEF ProjectionInv, ViewInv, Locks, Newer
      <4>4. CASE e = Current(c).entity
        <5>1. view'[e] = written[c]
          BY <4>1, <4>2, <4>4
        <5> QED BY <4>2, <4>3, <4>4, <5>1
      <4>5. CASE e # Current(c).entity
        <5>1. view'[e] = view[e]
          BY <4>1, <4>2, <4>5
        <5> QED BY <4>2, <5>1
      <4> QED BY <4>4, <4>5
    <3> QED BY <2>1, <3>2
  <2>3. CASE ClearProjectionState
    BY <2>3 DEF ClearProjectionState
  <2>4. CASE \E c \in Consumer : \/ \E b \in BOOLEAN : Join(c, b)
                                 \/ Leave(c) \/ Crash(c) \/ CommitOffset(c) \/ Refresh(c)
    <3>1. view' = view
      BY <2>4 DEF Join, Leave, Crash, CommitOffset, Refresh, database
    <3> QED BY <2>1, <3>1
  <2>5. CASE \E c \in Consumer : Proceeds(c) \/ Find(c) \/ Upsert(c)
    <3>1. view' = view
      BY <2>5, ProceedsTurn DEF Find, Upsert, database, ProjectionInv
    <3> QED BY <2>1, <3>1
  <2>6. CASE TruncateViews \/ ResetFails \/ ProduceNext
    <3>1. view' = view
      BY <2>6 DEF TruncateViews, ResetFails, ProduceNext, Produce, database
    <3> QED BY <2>1, <3>1
  <2> QED BY <2>2, <2>3, <2>4, <2>5, <2>6, ConsumeSteps DEF Next
<1> QED BY <1>1, ProjectionInvCorrect, PTL DEF Spec, ViewOnlyAdvances
-----------------------------------------------------------------------------
(* No row is made up. *)

\* So are the rows that transactions have read.
RecordedInv ==
    /\ RowsAreRecorded
    /\ \A c \in Consumer : existing[c] # NoRow => Recorded(existing[c], Current(c).entity)

\* Nothing recorded is forgotten.
AppliedStays == \A e \in Entity : \A i \in Applied(e) : i \in Applied(e)' /\ log'[i] = log[i]

LEMMA RecordedRemains ==
    ASSUME AppliedStays, NEW e \in Entity, NEW row, Recorded(row, e)
    PROVE  /\ \E i \in Applied(e)' : log'[i].kind = "create"
           /\ \A k \in Column : \E i \in Applied(e)' :
                (log'[i].kind = "create" \/ k \in log'[i].sets) /\ row.cols[k] = log'[i].id
BY DEF AppliedStays, Recorded, Sets

\* A step that writes no row, and at which a transaction reads at most a row of
\* the view.
LEMMA RecordedStays ==
    ASSUME BaseInv, RecordedInv, AppliedStays, UNCHANGED view,
           \A c \in Consumer : existing'[c] # NoRow =>
             /\ pc[c] # "idle" /\ Current(c)' = Current(c)
             /\ existing'[c] \in {existing[c], view[Current(c).entity]}
    PROVE  RecordedInv'
<1>1. ASSUME NEW e \in Entity, view'[e] # NoRow PROVE Recorded(view[e], e)'
  <2>1. PICK row : row = view[e]
    OBVIOUS
  <2>2. Recorded(row, e)
    BY <1>1, <2>1 DEF RecordedInv, RowsAreRecorded
  <2> QED BY <2>1, <2>2, RecordedRemains DEF Recorded, Sets
<1>2. ASSUME NEW c \in Consumer, existing'[c] # NoRow
      PROVE  Recorded(existing[c], Current(c).entity)'
  <2>1. PICK row, e : row = existing'[c] /\ e = Current(c).entity
    OBVIOUS
  <2>2. e \in Entity /\ Current(c)'.entity = e
    BY <1>2, <2>1, OffsetType, MessageType
  <2>3. Recorded(row, e)
    <3>1. row = existing[c] \/ row = view[e]
      BY <1>2, <2>1
    <3> QED BY <1>2, <2>1, <2>2, <3>1 DEF RecordedInv, RowsAreRecorded
  <2> QED BY <2>1, <2>2, <2>3, RecordedRemains DEF Recorded, Sets
<1> QED BY <1>1, <1>2 DEF RecordedInv, RowsAreRecorded

\* A create event sets every column; an update event leaves the others to the
\* row that it read, which was recorded then and, as the transaction keeps the
\* script from clearing the ledger, still is.
LEMMA RecordedByCommit ==
    ASSUME BaseInv, ViewInv, RecordedInv, NEW c \in Consumer, pc[c] = "commit",
           UNCHANGED <<log, position>>, view' = [view EXCEPT ![Current(c).entity] = written[c]],
           ledger' = ledger \cup {Current(c).id},
           existing' = [existing EXCEPT ![c] = NoRow]
    PROVE  RecordedInv'
<1>1. PICK n \in Offset, m \in Message : n = position[c] + 1 /\ m = Current(c) /\ m = log[n]
  BY OffsetType DEF Current
<1>2. Changes(m) /\ (m.kind = "update" => existing[c] # NoRow) /\ m.entity \in Entity
  BY <1>1, MessageType DEF BaseInv, ConsumerInv
<1>3. AppliedStays /\ n \in Applied(m.entity)'
  BY <1>1, <1>2, AppliedGrows DEF AppliedStays
<1>4. \A d \in Consumer : Current(d)' = Current(d)
  BY DEF Current
<1>5. \E i \in Applied(m.entity)' : log'[i].kind = "create"
  <2>1. CASE m.kind = "create"
    BY <1>1, <1>3, <2>1
  <2>2. CASE m.kind = "update"
    <3>1. PICK row : row = existing[c]
      OBVIOUS
    <3>2. Recorded(row, m.entity)
      BY <1>1, <1>2, <2>2, <3>1 DEF RecordedInv
    <3> QED BY <1>2, <1>3, <3>2, RecordedRemains
  <2> QED BY <1>2, <2>1, <2>2 DEF Changes
<1>6. ASSUME NEW k \in Column
      PROVE  \E i \in Applied(m.entity)' :
               (log'[i].kind = "create" \/ k \in log'[i].sets) /\ written[c].cols[k] = log'[i].id
  <2>1. /\ written[c] = NewRow(c)
        /\ NewRow(c).cols[k] = IF m.kind = "create" \/ k \in m.sets THEN m.id
                                                                  ELSE existing[c].cols[k]
    <3>1. written[c] = NewRow(c)
      BY DEF BaseInv, ConsumerInv
    <3>2. NewRow(c).cols[k] = IF Current(c).kind = "create" \/ k \in Current(c).sets
                                THEN Current(c).id ELSE existing[c].cols[k]
      BY NewRowType
    <3> QED BY <1>1, <3>1, <3>2
  <2>2. CASE m.kind = "create" \/ k \in m.sets
    BY <1>1, <1>3, <2>1, <2>2
  <2>3. CASE ~(m.kind = "create" \/ k \in m.sets)
    <3>1. PICK row : row = existing[c]
      OBVIOUS
    <3>2. Recorded(row, m.entity)
      BY <1>1, <1>2, <2>3, <3>1 DEF RecordedInv, Changes
    <3>3. \E i \in Applied(m.entity)' :
            (log'[i].kind = "create" \/ k \in log'[i].sets) /\ row.cols[k] = log'[i].id
      BY <1>2, <1>3, <3>2, RecordedRemains
    <3> QED BY <2>1, <2>3, <3>1, <3>3
  <2> QED BY <2>2, <2>3
<1>7. ASSUME NEW e \in Entity, view'[e] # NoRow PROVE Recorded(view[e], e)'
  <2>1. view \in [Entity -> ViewRow \cup {NoRow}]
    BY DEF BaseInv, TypeOK
  <2>2. CASE e = m.entity
    <3>1. view'[e] = written[c]
      BY <1>1, <2>1, <2>2
    <3> QED BY <1>5, <1>6, <2>2, <3>1 DEF Recorded, Sets
  <2>3. CASE e # m.entity
    <3>1. PICK row : row = view[e]
      OBVIOUS
    <3>2. view'[e] = row /\ Recorded(row, e)
      BY <1>1, <1>7, <2>1, <2>3, <3>1 DEF RecordedInv, RowsAreRecorded
    <3> QED BY <1>3, <3>2, RecordedRemains DEF Recorded, Sets
  <2> QED BY <2>2, <2>3
<1>8. ASSUME NEW d \in Consumer, existing'[d] # NoRow
      PROVE  Recorded(existing[d], Current(d).entity)'
  <2>1. d # c /\ existing'[d] = existing[d]
    BY <1>8 DEF BaseInv, TypeOK
  <2>2. PICK row, e : row = existing[d] /\ e = Current(d).entity
    OBVIOUS
  <2>3. e \in Entity
    <3>1. pc[d] # "idle"
      BY <1>8, <2>1 DEF BaseInv, ConsumerInv
    <3> QED BY <2>2, <3>1, OffsetType, MessageType
  <2>4. Recorded(row, e)
    BY <1>8, <2>1, <2>2 DEF RecordedInv
  <2> QED BY <1>3, <1>4, <2>1, <2>2, <2>3, <2>4, RecordedRemains DEF Recorded, Sets
<1> QED BY <1>7, <1>8 DEF RecordedInv, RowsAreRecorded

\* The script waits for every transaction that has looked at the ledger, so no
\* consumer holds a row when the views and the ledger are cleared.
LEMMA RecordedByClear ==
    ASSUME BaseInv, ClearProjectionState
    PROVE  RecordedInv'
<1>1. view' = [e \in Entity |-> NoRow] /\ existing' = existing
  BY DEF ClearProjectionState, transaction
<1>2. \A c \in Consumer : existing[c] = NoRow
  BY DEF ClearProjectionState, HoldsLedger, BaseInv, ConsumerInv
<1> QED BY <1>1, <1>2 DEF RecordedInv, RowsAreRecorded

LEMMA RecordedByConsume ==
    ASSUME BaseInv, ViewInv, RecordedInv, Consume
    PROVE  RecordedInv'
<1>1. ASSUME UNCHANGED <<ledger, log>> PROVE AppliedStays
  BY <1>1 DEF AppliedStays, Applied, Offset, Changes
<1>2. /\ existing \in [Consumer -> ViewRow \cup {NoRow}]
      /\ position \in [Consumer -> 0..Len(log)]
      /\ \A d \in Consumer : existing[d] # NoRow => pc[d] \in {"upsert", "commit"}
  BY DEF BaseInv, TypeOK, ConsumerInv
<1>3. ASSUME NEW c \in Consumer, NEW b \in BOOLEAN,
             Join(c, b) \/ Leave(c) \/ Crash(c) \/ CommitOffset(c) \/ Refresh(c)
      PROVE  RecordedInv'
  <2>1. /\ UNCHANGED <<view, ledger, log>>
        /\ \A d \in Consumer : existing'[d] # NoRow =>
             existing'[d] = existing[d] /\ position'[d] = position[d]
    BY <1>2, <1>3 DEF Join, Leave, Crash, CommitOffset, Refresh, database, transaction
  <2>2. \A d \in Consumer : existing'[d] # NoRow => pc[d] # "idle" /\ Current(d)' = Current(d)
    BY <1>2, <2>1 DEF Current
  <2> QED BY <1>1, <2>1, <2>2, RecordedStays
<1>4. ASSUME NEW c \in Consumer, Proceeds(c) \/ Find(c) \/ Upsert(c) PROVE RecordedInv'
  <2>1. Turn(c) /\ UNCHANGED <<view, ledger>>
    BY <1>4, ProceedsTurn, FindInv, UpsertInv DEF Find, Upsert, database
  <2>2. \/ existing' = existing
        \/ pc[c] = "find" /\ existing' = [existing EXCEPT ![c] = view[Current(c).entity]]
    BY <1>4, ProceedsTurn DEF Find, Upsert
  <2>3. \A d \in Consumer : existing'[d] # NoRow =>
          pc[d] # "idle" /\ existing'[d] \in {existing[d], view[Current(d).entity]}
    BY <1>2, <2>2
  <2>4. UNCHANGED log /\ \A d \in Consumer : Current(d)' = Current(d)
    BY <2>1 DEF Turn, group, Current
  <2> QED BY <1>1, <2>1, <2>3, <2>4, RecordedStays
<1>5. ASSUME NEW c \in Consumer, Ends(c) PROVE RecordedInv'
  <2>1. UNCHANGED <<log, position>> /\ existing' = [existing EXCEPT ![c] = NoRow]
    BY <1>5, EndsTurn DEF Turn, group
  <2>2. CASE UNCHANGED <<view, ledger>>
    <3>1. \A d \in Consumer : existing'[d] # NoRow => pc[d] # "idle" /\ existing'[d] = existing[d]
      BY <1>2, <2>1
    <3>2. \A d \in Consumer : Current(d)' = Current(d)
      BY <2>1 DEF Current
    <3> QED BY <1>1, <2>1, <2>2, <3>1, <3>2, RecordedStays
  <2>3. CASE ~UNCHANGED <<view, ledger>>
    <3>1. /\ pc[c] = "commit" /\ view' = [view EXCEPT ![Current(c).entity] = written[c]]
          /\ ledger' = ledger \cup {Current(c).id}
      BY <1>5, <2>3, EndsTurn
    <3> QED BY <2>1, <3>1, RecordedByCommit
  <2> QED BY <2>2, <2>3
<1>6. ASSUME TruncateViews \/ ResetFails PROVE RecordedInv'
  <2>1. UNCHANGED <<view, ledger, log, position, existing>>
    BY <1>6 DEF TruncateViews, ResetFails, database, group, transaction
  <2>2. \A d \in Consumer : existing'[d] # NoRow =>
          pc[d] # "idle" /\ Current(d)' = Current(d) /\ existing'[d] = existing[d]
    BY <1>2, <2>1 DEF Current
  <2> QED BY <1>1, <2>1, <2>2, RecordedStays
<1> QED BY <1>3, <1>4, <1>5, <1>6, RecordedByClear, ConsumeSteps

LEMMA RecordedByProduce ==
    ASSUME BaseInv, RecordedInv, NEW m \in Message, Produce(m)
    PROVE  RecordedInv'
<1>1. UNCHANGED <<view, ledger, existing>>
  BY DEF Produce, database, transaction
<1>2. AppliedStays
  BY <1>1, LogGrows DEF AppliedStays, Applied, Changes
<1>3. \A d \in Consumer : existing'[d] # NoRow =>
        pc[d] # "idle" /\ Current(d)' = Current(d) /\ existing'[d] = existing[d]
  BY <1>1, LogGrows DEF BaseInv, ConsumerInv
<1> QED BY <1>1, <1>2, <1>3, RecordedStays

\* In every reachable state each row of the view begins with a create event and
\* has each column from an event that sets it, all of them recorded since the
\* last replay: on any log, whatever was skipped, dead-lettered or handled late.
THEOREM RowsStayRecorded == Spec => []RowsAreRecorded
<1>1. Init => RecordedInv
  BY DEF Init, RecordedInv, RowsAreRecorded
<1>2. ProjectionInv /\ RecordedInv /\ [Next]_vars => RecordedInv'
  <2> SUFFICES ASSUME ProjectionInv, RecordedInv, [Next]_vars PROVE RecordedInv'
    OBVIOUS
  <2>1. CASE Consume
    BY <2>1, RecordedByConsume DEF ProjectionInv
  <2>2. CASE ProduceNext
    <3>1. PICK m \in Message : Produce(m)
      BY <2>2, ProduceNextStep DEF ProjectionInv
    <3> QED BY <3>1, RecordedByProduce DEF ProjectionInv
  <2>3. CASE UNCHANGED vars
    <3>1. UNCHANGED <<view, ledger, log, position, pc, existing>>
      BY <2>3 DEF vars
    <3>2. AppliedStays
      BY <3>1 DEF AppliedStays, Applied, Offset, Changes
    <3>3. \A d \in Consumer : existing'[d] # NoRow =>
            pc[d] # "idle" /\ Current(d)' = Current(d) /\ existing'[d] = existing[d]
      BY <3>1 DEF Current, ProjectionInv, BaseInv, ConsumerInv
    <3> QED BY <3>1, <3>2, <3>3, RecordedStays DEF ProjectionInv
  <2> QED BY <2>1, <2>2, <2>3 DEF Next
<1>3. RecordedInv => RowsAreRecorded
  BY DEF RecordedInv
<1> QED BY <1>1, <1>2, <1>3, ProjectionInvCorrect, PTL DEF Spec
-----------------------------------------------------------------------------
(* No update is lost. *)

Calm == skipped = {} /\ dead = {} /\ replays = 0 /\ InOrder

\* A value of column k that the newest of the applied events which set it wrote.
ShowsNewest(value, e, k) ==
    \E i \in Applied(e) :
        /\ Sets(i, k) /\ value = log[i].id
        /\ \A j \in Applied(e) : Sets(j, k) => log[j].at <= log[i].at

\* Unless the row is newer by now, what an update has read and will write back
\* is what the row should show.
ReadsNewest(c) ==
    pc[c] \in {"upsert", "commit"} /\ Current(c).kind = "update" /\ ~Newer(c) =>
        \A k \in Column \ Current(c).sets :
            ShowsNewest(existing[c].cols[k], Current(c).entity, k)

\* Until a replay rows stay: one that was read is there, and so is one because
\* of which a create event was dropped.  Whoever dropped a message had passed
\* all messages before it.
RowsStay ==
    /\ \A c \in Consumer : existing[c] # NoRow => view[Current(c).entity] # NoRow
    /\ \A i \in dropped : log[i].kind = "create" => view[log[i].entity] # NoRow
    /\ \A i \in dropped : \A h \in 1..i : Accounted(h)

\* A dropped event that is not recorded is older than the row, if there is one.
DroppedIsOlder ==
    \A i \in dropped : Changes(log[i]) /\ log[i].id \notin ledger =>
        LET row == view[log[i].entity] IN row # NoRow => row.at > log[i].at

FoldInv == /\ replays = 0 => RowsStay
           /\ Calm => DroppedIsOlder
           /\ Calm \/ Alone => ViewIsLedgerFold /\ \A c \in Consumer : ReadsNewest(c)

LEMMA FoldShows ==
    ViewIsLedgerFold <=>
        \A e \in Entity : view[e] # NoRow => \A k \in Column : ShowsNewest(view[e].cols[k], e, k)
BY DEF ViewIsLedgerFold, ShowsNewest

\* Nothing that calms down was calm before, and who works alone has always done.
LEMMA CalmBefore ==
    ASSUME ProjectionInv, Consume \/ ProduceNext
    PROVE  /\ replays' = 0 => replays = 0 /\ dropped \subseteq dropped'
           /\ replays' = 0 => \A i \in Offset : Accounted(i) => Accounted(i)'
           /\ \A i \in Offset : i \in Offset' /\ log'[i] = log[i]
           /\ Calm' => Calm
           /\ Alone' => Alone
<1> USE DEF ProjectionInv
<1>1. /\ \A i \in Offset : i \in Offset' /\ log'[i] = log[i]
      /\ skipped \subseteq skipped' /\ joined \subseteq joined'
      /\ replays' = 0 => replays = 0 /\ ledger \subseteq ledger' /\ dead \subseteq dead'
                         /\ dropped \subseteq dropped'
  <2>1. CASE \E c \in Consumer : \/ \E b \in BOOLEAN : Join(c, b)
                                 \/ Leave(c) \/ Crash(c) \/ CommitOffset(c) \/ Refresh(c)
    BY <2>1 DEF Join, Leave, Crash, CommitOffset, Refresh, database, script, Offset
  <2>2. CASE \E c \in Consumer : Ends(c)
    BY <2>2, EndsTurn DEF Turn, group, script, Offset
  <2>3. CASE \E c \in Consumer : Proceeds(c)
    BY <2>3, ProceedsTurn DEF Turn, group, script, Offset
  <2>4. CASE \E c \in Consumer : Find(c) \/ Upsert(c)
    BY <2>4 DEF Find, Upsert, Go, database, group, script, Offset
  <2>5. CASE TruncateViews \/ ResetFails
    <3>1. replays \in Nat /\ (replays' = replays \/ replays' = replays + 1)
      BY <2>5 DEF TruncateViews, ResetFails, BaseInv, TypeOK
    <3>2. UNCHANGED <<ledger, dead, dropped, log, skipped, joined>>
      BY <2>5 DEF TruncateViews, ResetFails, database, group
    <3> QED BY <3>1, <3>2 DEF Offset
  <2>6. CASE ClearProjectionState
    <3>1. replays' # 0 /\ UNCHANGED <<log, skipped, joined>>
      BY <2>6 DEF ClearProjectionState, group, PassedInv
    <3> QED BY <3>1 DEF Offset
  <2>7. CASE ProduceNext
    <3>1. PICK m \in Message : Produce(m)
      BY <2>7, ProduceNextStep
    <3> QED BY <3>1, LogGrows DEF Produce, database, group, script
  <2> QED BY <2>1, <2>2, <2>3, <2>4, <2>5, <2>6, <2>7, ConsumeSteps
<1>2. replays' = 0 => \A i \in Offset : Accounted(i) => Accounted(i)'
  BY <1>1 DEF Accounted
<1>3. Alone' => Alone
  BY <1>1 DEF Alone
<1>4. InOrder' => InOrder
  <2> SUFFICES ASSUME InOrder', NEW i \in Offset, NEW j \in Offset, i < j,
                      log[i].entity = log[j].entity, Changes(log[i]), Changes(log[j]),
                      \A h \in 1..i : log[h] # log[j]
               PROVE  log[i].at < log[j].at
    BY DEF InOrder
  <2>1. \A h \in 1..i : h \in Offset
    BY OffsetType DEF Offset
  <2>2. \A h \in 1..i : log'[h] # log'[j]
    BY <1>1, <2>1
  <2> QED BY <1>1, <2>2 DEF InOrder, Changes
<1> QED BY <1>1, <1>2, <1>3, <1>4 DEF Calm

\* A step that changes neither the tables nor what an update has read.
LEMMA FoldStays ==
    ASSUME ProjectionInv, FoldInv, Consume \/ ProduceNext,
           UNCHANGED <<view, ledger, log, dropped>>,
           \A c \in Consumer :
              /\ existing'[c] # NoRow => existing'[c] = existing[c] /\ position'[c] = position[c]
              /\ pc'[c] \in {"upsert", "commit"} /\ Current(c)'.kind = "update" =>
                   /\ pc[c] \in {"upsert", "commit"}
                   /\ existing'[c] = existing[c] /\ position'[c] = position[c]
    PROVE  FoldInv'
<1>1. ASSUME replays' = 0 PROVE RowsStay'
  <2>1. RowsStay
    BY <1>1, CalmBefore DEF FoldInv
  <2>2. \A c \in Consumer : existing'[c] # NoRow => view'[Current(c)'.entity] # NoRow
    BY <2>1 DEF RowsStay, Current
  <2>3. \A i \in dropped : \A h \in 1..i : h \in Offset
    BY OffsetType DEF ProjectionInv, BaseInv, TypeOK, Offset
  <2>4. \A i \in dropped : \A h \in 1..i : Accounted(h)'
    BY <1>1, <2>1, <2>3, CalmBefore DEF RowsStay
  <2> QED BY <2>1, <2>2, <2>4 DEF RowsStay, Current
<1>2. ASSUME Calm' PROVE DroppedIsOlder'
  BY <1>2, CalmBefore DEF FoldInv, DroppedIsOlder, Changes
<1>3. ASSUME Calm' \/ Alone' PROVE ViewIsLedgerFold' /\ \A c \in Consumer : ReadsNewest(c)'
  <2>1. ViewIsLedgerFold /\ \A c \in Consumer : ReadsNewest(c)
    BY <1>3, CalmBefore DEF FoldInv
  <2>2. ViewIsLedgerFold'
    BY <2>1 DEF ViewIsLedgerFold, Applied, Offset, Sets
  <2>3. \A v, e, k : ShowsNewest(v, e, k) => ShowsNewest(v, e, k)'
    BY DEF ShowsNewest, Applied, Offset, Sets
  <2>4. ASSUME NEW c \in Consumer, pc'[c] \in {"upsert", "commit"},
               Current(c)'.kind = "update", ~Newer(c)', NEW k \in Column \ Current(c)'.sets
        PROVE  ShowsNewest(existing[c].cols[k], Current(c).entity, k)'
    <3>1. Current(c)' = Current(c) /\ ~Newer(c) /\ existing'[c] = existing[c]
      BY <2>4 DEF Current, Newer
    <3>2. PICK v, e : v = existing[c].cols[k] /\ e = Current(c).entity
      OBVIOUS
    <3>3. ShowsNewest(v, e, k)
      BY <2>1, <2>4, <3>1, <3>2 DEF ReadsNewest
    <3>4. ShowsNewest(v, e, k)'
      BY <2>3, <3>3
    <3>5. v = existing'[c].cols[k] /\ e = Current(c)'.entity
      BY <3>1, <3>2
    <3> QED BY <3>4, <3>5 DEF ShowsNewest, Applied
  <2> QED BY <2>2, <2>4 DEF ReadsNewest
<1> QED BY <1>1, <1>2, <1>3 DEF FoldInv

\* Steps of the group, of the script and of a consumer that leave the tables
\* and the drops alone.
LEMMA FoldByQuietStep ==
    ASSUME ProjectionInv, FoldInv, NEW c \in Consumer, NEW b \in BOOLEAN,
           \/ Join(c, b) \/ Leave(c) \/ Crash(c) \/ CommitOffset(c) \/ Refresh(c)
           \/ Proceeds(c) \/ Upsert(c) \/ Duplicate(c) \/ Fail(c)
           \/ TruncateViews \/ ResetFails
    PROVE  FoldInv'
<1> USE DEF ProjectionInv
<1>1. /\ pc \in [Consumer -> Phase] /\ position \in [Consumer -> 0..Len(log)]
      /\ existing \in [Consumer -> ViewRow \cup {NoRow}]
      /\ \A d \in Consumer : pc[d] \notin {"upsert", "commit"} => existing[d] = NoRow
  BY DEF BaseInv, TypeOK, Phase, ConsumerInv
<1>2. CASE Join(c, b) \/ Leave(c) \/ Crash(c) \/ CommitOffset(c) \/ Refresh(c)
  <2>1. Consume
    BY <1>2 DEF Consume, Work
  <2>2. /\ UNCHANGED <<view, ledger, log, dropped>>
        /\ \A d \in Consumer :
             /\ existing'[d] # NoRow => existing'[d] = existing[d] /\ position'[d] = position[d]
             /\ pc'[d] \in {"upsert", "commit"} =>
                  /\ pc[d] \in {"upsert", "commit"}
                  /\ existing'[d] = existing[d] /\ position'[d] = position[d]
    BY <1>1, <1>2 DEF Join, Leave, Crash, CommitOffset, Refresh, database, transaction
  <2> QED BY <2>1, <2>2, FoldStays
<1>3. CASE Proceeds(c)
  <2>1. Consume
    BY <1>3 DEF Consume, Work, Proceeds
  <2>2. UNCHANGED <<view, ledger, log, dropped, existing, position>>
    BY <1>3, ProceedsTurn DEF Turn, group
  <2>3. \A d \in Consumer \ {c} : pc'[d] = pc[d]
    BY <1>1, <1>3, ProceedsTurn DEF Turn
  <2>4. pc'[c] \in {"upsert", "commit"} => Current(c)'.kind # "update"
    <3>1. CASE Handle(c)
      BY <1>1, <2>2, <3>1 DEF Handle, Go, Current, Changes
    <3>2. CASE ~Handle(c)
      BY <1>3, <3>2, ProceedsTurn
    <3> QED BY <3>1, <3>2
  <2> QED BY <2>1, <2>2, <2>3, <2>4, FoldStays
<1>4. CASE Upsert(c)
  <2>1. Consume
    BY <1>4 DEF Consume, Work
  <2>2. /\ UNCHANGED <<view, ledger, log, dropped, existing, position>>
        /\ pc[c] = "upsert" /\ pc' = [pc EXCEPT ![c] = "commit"]
    BY <1>4 DEF Upsert, Go, database, group
  <2> QED BY <1>1, <2>1, <2>2, FoldStays
<1>5. CASE Duplicate(c) \/ Fail(c)
  <2>1. Consume /\ Ends(c)
    BY <1>5 DEF Consume, Work, Ends
  <2>2. UNCHANGED <<view, ledger, log, dropped, position>>
    BY <1>5 DEF Duplicate, Fail, EndTransaction, Go, database, group
  <2>3. /\ \A d \in Consumer \ {c} : pc'[d] = pc[d] /\ existing'[d] = existing[d]
        /\ pc'[c] \in {"refresh", "deadletter"} /\ existing'[c] = NoRow
    BY <1>1, <2>1, EndsTurn
  <2> QED BY <2>1, <2>2, <2>3, FoldStays
<1>6. CASE TruncateViews \/ ResetFails
  <2>1. Consume
    BY <1>6 DEF Consume
  <2>2. UNCHANGED <<view, ledger, log, dropped, position, existing, pc>>
    BY <1>6 DEF TruncateViews, ResetFails, database, group, transaction
  <2> QED BY <2>1, <2>2, FoldStays
<1> QED BY <1>2, <1>3, <1>4, <1>5, <1>6

LEMMA FoldByFind ==
    ASSUME ProjectionInv, FoldInv, NEW c \in Consumer, Find(c)
    PROVE  FoldInv'
<1> USE DEF ProjectionInv
<1>1. /\ UNCHANGED <<view, ledger, log, dropped, position>>
      /\ pc[c] = "find" /\ view[Current(c).entity] # NoRow
      /\ pc' = [pc EXCEPT ![c] = "upsert"]
      /\ existing' = [existing EXCEPT ![c] = view[Current(c).entity]]
      /\ pc \in [Consumer -> Phase] /\ existing \in [Consumer -> ViewRow \cup {NoRow}]
  BY DEF Find, Updatable, Go, database, group, BaseInv, TypeOK, Phase
<1>2. Consume
  BY DEF Consume, Work
<1>3. PICK e \in Entity : e = Current(c).entity
  BY <1>1, OffsetType, MessageType
<1>4. \A d \in Consumer : Current(d)' = Current(d) /\ (Newer(d)' <=> Newer(d))
  BY <1>1 DEF Current, Newer
<1>5. ASSUME replays' = 0 PROVE RowsStay'
  <2>1. RowsStay
    BY <1>2, <1>5, CalmBefore DEF FoldInv
  <2>2. \A d \in Consumer : existing'[d] # NoRow => view'[Current(d)'.entity] # NoRow
    BY <1>1, <1>4, <2>1 DEF RowsStay
  <2>3. \A i \in dropped : \A h \in 1..i : h \in Offset
    BY OffsetType DEF BaseInv, TypeOK, Offset
  <2>4. \A i \in dropped : \A h \in 1..i : Accounted(h)'
    BY <1>2, <1>5, <2>1, <2>3, CalmBefore DEF RowsStay
  <2> QED BY <1>1, <2>1, <2>2, <2>4 DEF RowsStay
<1>6. ASSUME Calm' PROVE DroppedIsOlder'
  BY <1>1, <1>2, <1>6, CalmBefore DEF FoldInv, DroppedIsOlder, Changes
<1>7. ASSUME Calm' \/ Alone' PROVE ViewIsLedgerFold' /\ \A d \in Consumer : ReadsNewest(d)'
  <2>1. ViewIsLedgerFold /\ \A d \in Consumer : ReadsNewest(d)
    BY <1>2, <1>7, CalmBefore DEF FoldInv
  <2>2. ViewIsLedgerFold'
    BY <1>1, <2>1 DEF ViewIsLedgerFold, Applied, Offset, Sets
  <2>3. \A v, x, k : ShowsNewest(v, x, k) => ShowsNewest(v, x, k)'
    BY <1>1 DEF ShowsNewest, Applied, Offset, Sets
  <2>4. ASSUME NEW d \in Consumer, pc'[d] \in {"upsert", "commit"}, Current(d)'.kind = "update",
               ~Newer(d)', NEW k \in Column \ Current(d)'.sets
        PROVE  ShowsNewest(existing[d].cols[k], Current(d).entity, k)'
    <3>1. PICK v, x : v = existing'[d].cols[k] /\ x = Current(d).entity
      OBVIOUS
    <3>2. ShowsNewest(v, x, k)
      <4>1. CASE d = c
        BY <1>1, <1>3, <2>1, <3>1, <4>1, FoldShows
      <4>2. CASE d # c
        BY <1>1, <1>4, <2>1, <2>4, <3>1, <4>2 DEF ReadsNewest
      <4> QED BY <4>1, <4>2
    <3>3. ShowsNewest(v, x, k)'
      BY <2>3, <3>2
    <3>4. v = existing'[d].cols[k] /\ x = Current(d)'.entity
      BY <1>4, <3>1
    <3> QED BY <3>3, <3>4 DEF ShowsNewest, Applied
  <2> QED BY <2>2, <2>4 DEF ReadsNewest
<1> QED BY <1>5, <1>6, <1>7 DEF FoldInv

\* A message is dropped because its type has no handler, because the row is
\* newer, or because there is no row to update.
LEMMA FoldByDrop ==
    ASSUME ProjectionInv, FoldInv, NEW c \in Consumer,
           HandleOther(c) \/ FindNoneOrNewer(c) \/ UpsertNewer(c)
    PROVE  FoldInv'
<1> USE DEF ProjectionInv
<1> DEFINE n == position[c] + 1
<1>1. Consume /\ Ends(c)
  BY DEF Consume, Work, Ends
<1>2. /\ UNCHANGED <<view, ledger, dead, log, position, skipped>>
      /\ dropped' = dropped \cup {n} /\ pc[c] # "idle"
  BY DEF HandleOther, FindNoneOrNewer, UpsertNewer, Drop, EndTransaction, Go, database, group
<1>3. /\ n \in Offset /\ Current(c) = log[n] /\ Current(c) \in Message
      /\ \A h \in 1..n : h = n \/ h \in 1..position[c]
  BY <1>2, OffsetType DEF Current
<1>4. Changes(log[n]) => \/ Newer(c)
                         \/ view[log[n].entity] = NoRow /\ log[n].kind = "update"
  <2>1. HandleOther(c) => ~Changes(log[n])
    BY <1>3 DEF HandleOther, Changes
  <2>2. UpsertNewer(c) => Newer(c)
    BY DEF UpsertNewer
  <2>3. ASSUME FindNoneOrNewer(c), view[log[n].entity] # NoRow PROVE Newer(c)
    <3>1. view[log[n].entity].at \in Nat /\ log[n].at \in Nat
      BY <1>3, <2>3, MessageType DEF BaseInv, TypeOK, ViewRow
    <3> QED BY <1>3, <2>3, <3>1 DEF FindNoneOrNewer, Updatable, Newer
  <2>4. FindNoneOrNewer(c) => log[n].kind = "update"
    BY <1>3 DEF FindNoneOrNewer, BaseInv, ConsumerInv
  <2> QED BY <2>1, <2>2, <2>3, <2>4
<1>5. /\ pc \in [Consumer -> Phase]
      /\ \A d \in Consumer \ {c} : pc'[d] = pc[d] /\ existing'[d] = existing[d]
      /\ pc'[c] \notin {"upsert", "commit"} /\ existing'[c] = NoRow
  <2>1. /\ pc \in [Consumer -> Phase]
        /\ DOMAIN existing = Consumer
    BY DEF BaseInv, TypeOK, Phase
  <2> QED BY <1>1, <2>1, EndsTurn
<1> HIDE DEF n
<1>6. \A d \in Consumer : Current(d)' = Current(d) /\ (Newer(d)' <=> Newer(d))
  BY <1>2 DEF Current, Newer
<1>7. ASSUME replays' = 0 PROVE RowsStay'
  <2>1. RowsStay
    BY <1>1, <1>7, CalmBefore DEF FoldInv
  <2>2. \A d \in Consumer : existing'[d] # NoRow => view'[Current(d)'.entity] # NoRow
    BY <1>2, <1>5, <1>6, <2>1 DEF RowsStay
  <2>3. \A i \in dropped' : log[i].kind = "create" => view[log[i].entity] # NoRow
    BY <1>2, <1>3, <1>4, <2>1 DEF RowsStay, Changes, Newer
  <2>4. ASSUME NEW i \in dropped', NEW h \in 1..i PROVE Accounted(h)'
    <3>1. CASE i \in dropped
      <4>1. h \in Offset
        BY <3>1, OffsetType DEF BaseInv, TypeOK, Offset
      <4>2. Accounted(h)
        BY <2>1, <3>1 DEF RowsStay
      <4> QED BY <1>1, <1>7, <4>1, <4>2, CalmBefore
    <3>2. CASE h \in 1..position[c]
      <4>1. replays = 0 /\ h \in Offset
        BY <1>1, <1>7, <3>2, CalmBefore, OffsetType DEF Offset
      <4>2. Accounted(h)
        BY <3>2, <4>1 DEF PassedInv
      <4> QED BY <1>1, <1>7, <4>1, <4>2, CalmBefore
    <3>3. CASE h = n
      BY <1>2, <3>3 DEF Accounted
    <3> QED BY <1>2, <1>3, <3>1, <3>2, <3>3
  <2> QED BY <1>2, <2>2, <2>3, <2>4 DEF RowsStay
<1>8. ASSUME Calm' PROVE DroppedIsOlder'
  <2>1. DroppedIsOlder
    BY <1>1, <1>8, CalmBefore DEF FoldInv
  <2>2. Newer(c) <=> view[log[n].entity] # NoRow /\ view[log[n].entity].at > log[n].at
    BY <1>3 DEF Newer
  <2> QED BY <1>2, <1>4, <2>1, <2>2 DEF DroppedIsOlder, Changes
<1>9. ASSUME Calm' \/ Alone' PROVE ViewIsLedgerFold' /\ \A d \in Consumer : ReadsNewest(d)'
  <2>1. ViewIsLedgerFold /\ \A d \in Consumer : ReadsNewest(d)
    BY <1>1, <1>9, CalmBefore DEF FoldInv
  <2>2. ViewIsLedgerFold'
    BY <1>2, <2>1 DEF ViewIsLedgerFold, Applied, Offset, Sets
  <2>3. \A v, x, k : ShowsNewest(v, x, k) => ShowsNewest(v, x, k)'
    BY <1>2 DEF ShowsNewest, Applied, Offset, Sets
  <2>4. ASSUME NEW d \in Consumer, pc'[d] \in {"upsert", "commit"}, Current(d)'.kind = "update",
               ~Newer(d)', NEW k \in Column \ Current(d)'.sets
        PROVE  ShowsNewest(existing[d].cols[k], Current(d).entity, k)'
    <3>1. PICK v, x : v = existing'[d].cols[k] /\ x = Current(d).entity
      OBVIOUS
    <3>2. ShowsNewest(v, x, k)
      BY <1>5, <1>6, <2>1, <2>4, <3>1 DEF ReadsNewest
    <3>3. ShowsNewest(v, x, k)'
      BY <2>3, <3>2
    <3>4. v = existing'[d].cols[k] /\ x = Current(d)'.entity
      BY <1>6, <3>1
    <3> QED BY <3>3, <3>4 DEF ShowsNewest, Applied
  <2> QED BY <2>2, <2>4 DEF ReadsNewest
<1> QED BY <1>7, <1>8, <1>9 DEF FoldInv

\* The script clears what it counts: rows, ledger and drops of before.
LEMMA FoldByClear ==
    ASSUME ProjectionInv, FoldInv, ClearProjectionState
    PROVE  FoldInv'
<1>1. /\ \A e \in Entity : view'[e] = NoRow
      /\ \A c \in Consumer : pc'[c] \notin {"upsert", "commit"}
      /\ replays' = replays /\ replays > 0 /\ replays \in Nat
  BY DEF ClearProjectionState, HoldsLedger, ProjectionInv, PassedInv, BaseInv, TypeOK
<1>2. ViewIsLedgerFold' /\ \A c \in Consumer : ReadsNewest(c)'
  BY <1>1 DEF ViewIsLedgerFold, ReadsNewest
<1> QED BY <1>1, <1>2 DEF FoldInv, Calm

\* A new message of a recorded event changes neither what is applied nor what
\* the newest of it is.
LEMMA FoldByProduce ==
    ASSUME ProjectionInv, FoldInv, ProduceNext
    PROVE  FoldInv'
<1> USE DEF ProjectionInv
<1>1. PICK m \in Message : Produce(m)
  BY ProduceNextStep
<1>2. OneEvent'
  BY ProduceNextStep
<1>3. /\ UNCHANGED <<view, ledger, dropped, existing, pc, position>>
      /\ \A i \in Offset : i \in Offset' /\ log'[i] = log[i]
  BY <1>1, LogGrows DEF Produce, database, group, transaction
<1>4. \A c \in Consumer : pc[c] # "idle" => Current(c)' = Current(c) /\ (Newer(c)' <=> Newer(c))
  BY <1>1, <1>3, LogGrows DEF Newer
<1>5. dropped \subseteq Offset /\ \A i \in dropped : \A h \in 1..i : h \in Offset
  BY OffsetType DEF BaseInv, TypeOK, Offset
<1>6. \A c \in Consumer : existing[c] # NoRow => pc[c] # "idle"
  BY DEF BaseInv, ConsumerInv
<1>7. ASSUME replays' = 0 PROVE RowsStay'
  <2>1. RowsStay
    BY <1>7, CalmBefore DEF FoldInv
  <2>2. \A c \in Consumer : existing'[c] # NoRow => view'[Current(c)'.entity] # NoRow
    BY <1>3, <1>4, <1>6, <2>1 DEF RowsStay
  <2>3. \A i \in dropped : log'[i].kind = "create" => view[log'[i].entity] # NoRow
    BY <1>3, <1>5, <2>1 DEF RowsStay
  <2>4. \A i \in dropped : \A h \in 1..i : Accounted(h)'
    BY <1>5, <1>7, <2>1, CalmBefore DEF RowsStay
  <2> QED BY <1>3, <2>2, <2>3, <2>4 DEF RowsStay
<1>8. ASSUME Calm' PROVE DroppedIsOlder'
  BY <1>3, <1>5, <1>8, CalmBefore DEF FoldInv, DroppedIsOlder, Changes
<1>9. ASSUME NEW e, NEW i \in Applied(e)' PROVE \E j \in Applied(e) : log'[i] = log[j]
  <2>1. /\ i \in Offset' /\ log'[i].entity = e /\ log'[i].id \in ledger /\ Changes(log'[i])
    BY <1>3, <1>9 DEF Applied, Changes
  <2>2. PICK j \in Offset : log[j].id = log'[i].id /\ Changes(log[j])
    BY <2>1 DEF ViewInv, LedgerKnown
  <2>3. log'[i] = log'[j] /\ log'[j] = log[j]
    BY <1>2, <1>3, <2>1, <2>2 DEF OneEvent, Changes
  <2> QED BY <2>1, <2>2, <2>3 DEF Applied
<1>10. ASSUME NEW e, NEW j \in Applied(e) PROVE j \in Applied(e)' /\ log'[j] = log[j]
  BY <1>3 DEF Applied, Changes
<1>11. ASSUME NEW v, NEW e, NEW k, ShowsNewest(v, e, k) PROVE ShowsNewest(v, e, k)'
  <2>1. PICK i \in Applied(e) :
          /\ Sets(i, k) /\ v = log[i].id
          /\ \A j \in Applied(e) : Sets(j, k) => log[j].at <= log[i].at
    BY <1>11 DEF ShowsNewest
  <2>2. i \in Applied(e)' /\ log'[i] = log[i]
    BY <1>10
  <2>3. \A j \in Applied(e)' : Sets(j, k)' => log'[j].at <= log'[i].at
    BY <1>9, <2>1, <2>2 DEF Sets
  <2> QED BY <2>1, <2>2, <2>3 DEF ShowsNewest, Sets
<1>12. ASSUME Calm' \/ Alone' PROVE ViewIsLedgerFold' /\ \A d \in Consumer : ReadsNewest(d)'
  <2>1. ViewIsLedgerFold /\ \A d \in Consumer : ReadsNewest(d)
    BY <1>12, CalmBefore DEF FoldInv
  <2>2. ASSUME NEW e \in Entity, view'[e] # NoRow, NEW k \in Column
        PROVE  ShowsNewest(view[e].cols[k], e, k)'
    <3>1. PICK v : v = view[e].cols[k] /\ v = view'[e].cols[k]
      BY <1>3
    <3>2. ShowsNewest(v, e, k)
      BY <1>3, <2>1, <2>2, <3>1, FoldShows
    <3>3. ShowsNewest(v, e, k)'
      BY <1>11, <3>2
    <3> QED BY <3>1, <3>3 DEF ShowsNewest, Applied
  <2>3. ViewIsLedgerFold'
    BY <1>3, <2>2 DEF ViewIsLedgerFold, ShowsNewest
  <2>4. ASSUME NEW d \in Consumer, pc'[d] \in {"upsert", "commit"}, Current(d)'.kind = "update",
               ~Newer(d)', NEW k \in Column \ Current(d)'.sets
        PROVE  ShowsNewest(existing[d].cols[k], Current(d).entity, k)'
    <3>1. PICK v, x : v = existing'[d].cols[k] /\ x = Current(d).entity
      OBVIOUS
    <3>2. ShowsNewest(v, x, k)
      BY <1>3, <1>4, <2>1, <2>4, <3>1 DEF ReadsNewest
    <3>3. ShowsNewest(v, x, k)'
      BY <1>11, <3>2
    <3>4. v = existing'[d].cols[k] /\ x = Current(d)'.entity
      BY <1>3, <1>4, <2>4, <3>1
    <3> QED BY <3>3, <3>4 DEF ShowsNewest, Applied
  <2> QED BY <2>3, <2>4 DEF ReadsNewest
<1> QED BY <1>7, <1>8, <1>12 DEF FoldInv

\* In a calm partition a consumer that has come to i has seen what is not newer.
LEMMA SeenBefore ==
    ASSUME BaseInv, InOrder, skipped = {}, dead = {}, NEW i \in Offset, NEW j \in Offset,
           log[i].entity = log[j].entity, Changes(log[i]), Changes(log[j]),
           log[i] # log[j], ~(log[i].at < log[j].at),
           \A h \in Offset : h < i => Accounted(h)
    PROVE  log[j].id \in ledger \/ \E h \in dropped : log[h] = log[j]
<1>1. i \in Nat /\ j \in Nat /\ i # j /\ \A h \in 1..i : h \in Offset /\ h \in Nat
  BY OffsetType DEF Offset
<1>2. PICK h \in Offset : h < i /\ log[h] = log[j]
  <2>1. CASE j < i
    BY <2>1
  <2>2. CASE i < j
    <3>1. PICK h \in 1..i : log[h] = log[j]
      BY <2>2 DEF InOrder
    <3> QED BY <1>1, <3>1
  <2> QED BY <1>1, <2>1, <2>2
<1> QED BY <1>2 DEF Accounted

\* An event that commits and does not set column k leaves its newest writer.
LEMMA ShowsAfter ==
    ASSUME BaseInv, ViewInv, NEW n \in Offset, NEW m \in Message, m = log[n], Changes(m),
           UNCHANGED log, ledger' = ledger \cup {m.id},
           NEW e \in Entity, NEW v, NEW k, ShowsNewest(v, e, k),
           e # m.entity \/ m.id \in ledger \/ ~(m.kind = "create" \/ k \in m.sets)
    PROVE  ShowsNewest(v, e, k)'
<1>1. PICK i \in Applied(e) : /\ Sets(i, k) /\ v = log[i].id
                              /\ \A j \in Applied(e) : Sets(j, k) => log[j].at <= log[i].at
  BY DEF ShowsNewest
<1>2. i \in Applied(e)' /\ \A j : Sets(j, k)' <=> Sets(j, k)
  BY AppliedGrows DEF Sets
<1>3. ASSUME NEW j \in Applied(e)', Sets(j, k) PROVE j \in Applied(e)
  <2>1. CASE m.id \in ledger
    BY <1>3, <2>1 DEF Applied, Offset, Changes
  <2>2. CASE m.id \notin ledger
    BY <1>3, <2>2, AppliedGrows DEF Sets
  <2> QED BY <2>1, <2>2
<1> QED BY <1>1, <1>2, <1>3 DEF ShowsNewest

LEMMA FoldByCommit ==
    ASSUME ProjectionInv, FoldInv, NEW c \in Consumer, Ends(c), ~UNCHANGED <<view, ledger>>,
           dropped' = dropped
    PROVE  FoldInv'
<1> USE DEF ProjectionInv
<1>1. /\ pc[c] = "commit" /\ view' = [view EXCEPT ![Current(c).entity] = written[c]]
      /\ ledger' = ledger \cup {Current(c).id} /\ dead' = dead /\ Turn(c)
      /\ pc'[c] \notin {"upsert", "commit"} /\ existing'[c] = NoRow
      /\ \A d \in Consumer \ {c} : pc'[d] = pc[d] /\ existing'[d] = existing[d]
  <2>1. pc \in [Consumer -> Phase] /\ DOMAIN existing = Consumer
    BY DEF BaseInv, TypeOK, Phase
  <2> QED BY <2>1, EndsTurn
<1>2. UNCHANGED <<log, position, skipped, joined, replays>>
  BY <1>1 DEF Turn, group, script
<1>3. Consume
  <2>1. \/ Duplicate(c) \/ HandleOther(c) \/ FindNoneOrNewer(c) \/ UpsertNewer(c)
        \/ Commit(c) \/ CommitUnacknowledged(c) \/ Fail(c)
    BY DEF Ends
  <2> QED BY <2>1 DEF Consume, Work
<1>4. PICK n \in Offset, m \in Message : n = position[c] + 1 /\ m = Current(c) /\ m = log[n]
  BY <1>1, OffsetType DEF Current
<1>5. PICK x \in Entity : x = m.entity
  BY MessageType
<1>6. /\ m.at \in Nat /\ Changes(m) /\ (m.kind = "update" => existing[c] # NoRow)
      /\ view[x] = NoRow \/ ~(view[x].at > m.at)
  <2>1. m.at \in Nat
    BY MessageType
  <2>2. Changes(m) /\ (m.kind = "update" => existing[c] # NoRow)
    BY <1>1, <1>4 DEF BaseInv, ConsumerInv
  <2>3. view[x] = NoRow \/ ~(view[x].at > m.at)
    BY <1>1, <1>4, <1>5 DEF ViewInv, Locks, Newer
  <2> QED BY <2>1, <2>2, <2>3
<1>7. /\ view'[x] # NoRow /\ view'[x].at = m.at
      /\ \A k \in Column : view'[x].cols[k] =
           IF m.kind = "create" \/ k \in m.sets THEN m.id ELSE existing[c].cols[k]
      /\ \A e \in Entity \ {x} : view'[e] = view[e]
  <2>1. view \in [Entity -> ViewRow \cup {NoRow}] /\ written[c] = NewRow(c)
    BY <1>1 DEF BaseInv, TypeOK, ConsumerInv
  <2>2. view'[x] = NewRow(c) /\ \A e \in Entity \ {x} : view'[e] = view[e]
    BY <1>1, <1>4, <1>5, <2>1
  <2>3. /\ NewRow(c) # NoRow /\ NewRow(c).at = Current(c).at
        /\ \A k \in Column : NewRow(c).cols[k] =
             IF Current(c).kind = "create" \/ k \in Current(c).sets
               THEN Current(c).id ELSE existing[c].cols[k]
    BY <1>1, NewRowType
  <2> QED BY <1>4, <2>2, <2>3
<1>8. \A d \in Consumer : Current(d)' = Current(d)
  BY <1>2 DEF Current
<1>9. \A d \in Consumer : pc'[d] \in {"upsert", "commit"} => d # c /\ pc[d] = pc'[d]
  BY <1>1
<1>10. view[x] = NoRow => m.id \notin ledger
  BY <1>4, <1>5, <1>6 DEF ViewInv, ViewMatchesNewest, Applied
<1>11. ASSUME replays' = 0 PROVE RowsStay'
  <2>1. RowsStay
    BY <1>3, <1>11, CalmBefore DEF FoldInv
  <2>2. \A e \in Entity : view[e] # NoRow => view'[e] # NoRow
    BY <1>7
  <2>3. ASSUME NEW d \in Consumer, existing'[d] # NoRow PROVE view'[Current(d)'.entity] # NoRow
    <3>1. d # c /\ existing[d] # NoRow
      BY <1>1, <2>3
    <3>2. pc[d] # "idle"
      BY <3>1 DEF BaseInv, ConsumerInv
    <3>3. Current(d).entity \in Entity
      BY <3>2, OffsetType, MessageType
    <3> QED BY <1>8, <2>1, <2>2, <3>1, <3>3 DEF RowsStay
  <2>4. \A i \in dropped : i \in Offset /\ log[i].entity \in Entity /\ \A h \in 1..i : h \in Offset
    BY OffsetType, MessageType DEF BaseInv, TypeOK, Offset
  <2>5. \A i \in dropped : \A h \in 1..i : Accounted(h)'
    BY <1>3, <1>11, <2>1, <2>4, CalmBefore DEF RowsStay
  <2>6. \A i \in dropped : log[i].kind = "create" => view'[log[i].entity] # NoRow
    BY <2>1, <2>2, <2>4 DEF RowsStay
  <2> QED BY <1>2, <2>3, <2>5, <2>6 DEF RowsStay
<1>12. ASSUME Calm', NEW i \in Offset, log[i].entity = x, Changes(log[i]), log[i] # m,
              ~(log[i].at < m.at), \A h \in Offset : h < i => Accounted(h), m.id \notin ledger
       PROVE  view[x] = NoRow /\ m.kind # "create"
  <2>1. Calm /\ RowsStay /\ DroppedIsOlder
    BY <1>3, <1>12, CalmBefore DEF FoldInv, Calm
  <2>2. PICK h \in dropped : log[h] = m
    BY <1>4, <1>5, <1>6, <1>12, <2>1, SeenBefore DEF Calm
  <2>3. view[x] = NoRow
    BY <1>5, <1>6, <1>12, <2>1, <2>2 DEF DroppedIsOlder
  <2> QED BY <1>5, <2>1, <2>2, <2>3 DEF RowsStay
<1>13. ASSUME Calm' PROVE DroppedIsOlder'
  <2>1. Calm /\ RowsStay /\ DroppedIsOlder
    BY <1>3, <1>13, CalmBefore DEF FoldInv, Calm
  <2>2. ASSUME NEW i \in dropped, Changes(log[i]), log[i].id \notin ledger',
               view'[log[i].entity] # NoRow
        PROVE  view'[log[i].entity].at > log[i].at
    <3>1. i \in Offset /\ i \in Nat /\ log[i] \in Message
      BY OffsetType DEF BaseInv, TypeOK
    <3>2. log[i].at \in Nat /\ log[i].entity \in Entity /\ log[i].id # m.id /\ log[i].id \notin ledger
      BY <1>1, <1>4, <2>2, <3>1, MessageType
    <3>3. CASE log[i].entity # x
      <4>1. view'[log[i].entity] = view[log[i].entity]
        BY <1>7, <3>2, <3>3
      <4> QED BY <2>1, <2>2, <3>2, <4>1 DEF DroppedIsOlder
    <3>4. CASE log[i].entity = x /\ view[x] # NoRow
      <4>1. view[x].at > log[i].at /\ view[x].at \in Nat
        BY <2>1, <2>2, <3>2, <3>4 DEF DroppedIsOlder, BaseInv, TypeOK, ViewRow
      <4> QED BY <1>6, <1>7, <3>2, <3>4, <4>1
    <3>5. CASE log[i].entity = x /\ view[x] = NoRow
      <4>1. m.kind = "create"
        BY <1>4, <1>5, <1>6, <2>1, <3>5 DEF RowsStay, Changes
      <4>2. \A h \in Offset : h < i => Accounted(h)
        <5>1. \A h \in Offset : h < i => h \in 1..i
          BY <3>1 DEF Offset
        <5> QED BY <2>1, <5>1 DEF RowsStay
      <4>3. log[i].at < m.at
        BY <1>10, <1>12, <1>13, <2>2, <3>1, <3>2, <3>5, <4>1, <4>2
      <4> QED BY <1>6, <1>7, <3>2, <3>5, <4>3
    <3> QED BY <3>3, <3>4, <3>5
  <2> QED BY <1>2, <2>2 DEF DroppedIsOlder, Changes
<1>14. ASSUME Calm' \/ Alone' PROVE ViewIsLedgerFold'
  <2>1. ViewIsLedgerFold /\ ReadsNewest(c)
    BY <1>3, <1>14, CalmBefore DEF FoldInv
  <2>2. ASSUME NEW e \in Entity, view'[e] # NoRow, NEW k \in Column, NEW v, v = view'[e].cols[k]
        PROVE  ShowsNewest(v, e, k)'
    <3>1. v = view'[e].cols[k]
      BY <2>2
    <3>2. CASE e # x
      <4>1. view'[e] = view[e]
        BY <1>7, <3>2
      <4>2. ShowsNewest(v, e, k)
        BY <2>1, <2>2, <3>1, <4>1, FoldShows
      <4> QED BY <1>1, <1>2, <1>4, <1>5, <1>6, <3>2, <4>2, ShowsAfter
    <3>3. CASE e = x /\ (m.kind = "create" \/ k \in m.sets)
      <4>1. v = m.id
        BY <1>7, <3>1, <3>3
      <4>2. n \in Applied(x)' /\ \A j \in Applied(x)' : log[j].at <= m.at
        BY <1>1, <1>2, <1>4, <1>5, <1>6, AppliedGrows, CommitIsNewest
      <4> QED BY <1>2, <1>4, <3>3, <4>1, <4>2 DEF ShowsNewest, Sets
    <3>4. CASE e = x /\ ~(m.kind = "create" \/ k \in m.sets)
      <4>1. m.kind = "update" /\ v = existing[c].cols[k] /\ ~Newer(c)
        BY <1>1, <1>6, <1>7, <3>1, <3>4 DEF Changes, ViewInv, Locks
      <4>2. ShowsNewest(v, e, k)
        BY <1>1, <1>4, <1>5, <2>1, <3>4, <4>1 DEF ReadsNewest
      <4> QED BY <1>1, <1>2, <1>4, <1>5, <1>6, <3>4, <4>2, ShowsAfter
    <3> QED BY <3>2, <3>3, <3>4
  <2> QED BY <2>2 DEF ViewIsLedgerFold, ShowsNewest
<1>15. ASSUME Calm' \/ Alone', NEW d \in Consumer PROVE ReadsNewest(d)'
  <2> SUFFICES ASSUME pc'[d] \in {"upsert", "commit"}, Current(d)'.kind = "update",
                      ~Newer(d)', NEW k \in Column \ Current(d)'.sets
               PROVE  ShowsNewest(existing[d].cols[k], Current(d).entity, k)'
    BY DEF ReadsNewest
  <2>1. d # c /\ pc[d] \in {"upsert", "commit"} /\ existing'[d] = existing[d]
    BY <1>1, <1>9
  <2>2. Calm'
    <3>1. c \in joined' /\ d \in joined'
      BY <1>1, <1>2, <2>1 DEF BaseInv, ConsumerInv, GroupInv
    <3> QED BY <1>15, <2>1, <3>1 DEF Alone
  <2>3. PICK p \in Offset, q \in Message : p = position[d] + 1 /\ q = Current(d) /\ q = log[p]
    BY <2>1, OffsetType DEF Current
  <2>4. PICK e, v : e \in Entity /\ e = q.entity /\ v = existing[d].cols[k]
    BY MessageType
  <2>5. q = Current(d)' /\ q.kind = "update" /\ q.at \in Nat /\ k \in Column \ q.sets
    BY <1>8, <2>3, MessageType
  <2>6. ~(view'[e].at > q.at) \/ view'[e] = NoRow
    BY <2>4, <2>5 DEF Newer
  <2>7. RowsStay /\ ReadsNewest(d)
    BY <1>3, <2>2, CalmBefore DEF FoldInv, Calm
  <2>8. view[e] # NoRow
    BY <2>1, <2>3, <2>4, <2>5, <2>7 DEF RowsStay, BaseInv, ConsumerInv
  <2>9. ~Newer(d)
    <3>1. CASE e # x
      BY <1>7, <2>3, <2>4, <2>6, <3>1 DEF Newer
    <3>2. CASE e = x
      <4>1. view[x].at \in Nat
        BY <2>8, <3>2 DEF BaseInv, TypeOK, ViewRow
      <4> QED BY <1>6, <1>7, <2>3, <2>4, <2>5, <2>6, <3>2, <4>1 DEF Newer
    <3> QED BY <3>1, <3>2
  <2>10. ShowsNewest(v, e, k)
    BY <2>1, <2>3, <2>4, <2>5, <2>7, <2>9 DEF ReadsNewest
  <2>11. ASSUME e = x, m.id \notin ledger PROVE m = q
    <3> SUFFICES ASSUME m # q PROVE FALSE
      OBVIOUS
    <3>1. ~(q.at < m.at)
      BY <1>6, <1>7, <2>5, <2>6, <2>11
    <3>2. \A h \in Offset : h < p => Accounted(h)
      <4>1. replays = 0 /\ \A h \in Offset : h < p => h \in 1..position[d]
        BY <1>2, <2>2, <2>3, OffsetType DEF Calm, Offset
      <4> QED BY <4>1 DEF PassedInv
    <3>3. Changes(q)
      BY <2>5 DEF Changes
    <3>4. view[x] = NoRow
      BY <1>12, <2>2, <2>3, <2>4, <2>11, <3>1, <3>2, <3>3
    <3> QED BY <2>8, <2>11, <3>4
  <2>12. e # x \/ m.id \in ledger \/ ~(m.kind = "create" \/ k \in m.sets)
    BY <2>5, <2>11
  <2>13. ShowsNewest(v, e, k)'
    BY <1>1, <1>2, <1>4, <1>5, <1>6, <2>4, <2>10, <2>12, ShowsAfter
  <2>14. v = existing'[d].cols[k] /\ e = Current(d)'.entity
    BY <2>1, <2>4, <2>5
  <2> QED BY <2>13, <2>14 DEF ShowsNewest, Applied
<1> QED BY <1>11, <1>13, <1>14, <1>15 DEF FoldInv

LEMMA InitFold ==
    ASSUME Init
    PROVE  FoldInv
BY DEF Init, FoldInv, RowsStay, DroppedIsOlder, ViewIsLedgerFold, ReadsNewest

LEMMA StutterFold ==
    ASSUME FoldInv, UNCHANGED vars
    PROVE  FoldInv'
<1>1. /\ UNCHANGED <<view, ledger, dead, log, position, pc, existing>>
      /\ UNCHANGED <<dropped, skipped, joined, replays>>
  BY DEF vars
<1>2. \A c \in Consumer : Current(c)' = Current(c) /\ (Newer(c)' <=> Newer(c))
  BY <1>1 DEF Current, Newer
<1>3. (Calm' <=> Calm) /\ (Alone' <=> Alone)
  BY <1>1 DEF Calm, Alone, InOrder, Offset, Changes
<1>4. RowsStay => RowsStay'
  BY <1>1, <1>2 DEF RowsStay, Accounted
<1>5. DroppedIsOlder => DroppedIsOlder'
  BY <1>1 DEF DroppedIsOlder, Changes
<1>6. ViewIsLedgerFold => ViewIsLedgerFold'
  BY <1>1 DEF ViewIsLedgerFold, Applied, Offset, Sets, Changes
<1>7. ASSUME NEW c \in Consumer, ReadsNewest(c) PROVE ReadsNewest(c)'
  <2>1. \A v, e, k : ShowsNewest(v, e, k) => ShowsNewest(v, e, k)'
    BY <1>1 DEF ShowsNewest, Applied, Offset, Sets, Changes
  <2> SUFFICES ASSUME pc'[c] \in {"upsert", "commit"}, Current(c)'.kind = "update",
                      ~Newer(c)', NEW k \in Column \ Current(c)'.sets
               PROVE  ShowsNewest(existing[c].cols[k], Current(c).entity, k)'
    BY DEF ReadsNewest
  <2>2. PICK v, e : v = existing[c].cols[k] /\ e = Current(c).entity
    OBVIOUS
  <2>3. ShowsNewest(v, e, k)'
    BY <1>1, <1>2, <1>7, <2>1, <2>2 DEF ReadsNewest
  <2>4. v = existing'[c].cols[k] /\ e = Current(c)'.entity
    BY <1>1, <1>2, <2>2
  <2> QED BY <2>3, <2>4 DEF ShowsNewest, Applied
<1> QED BY <1>1, <1>3, <1>4, <1>5, <1>6, <1>7 DEF FoldInv

LEMMA StepFold ==
    ASSUME ProjectionInv, FoldInv, [Next]_vars
    PROVE  FoldInv'
<1>1. ASSUME NEW c \in Consumer, Ends(c) PROVE FoldInv'
  <2>1. CASE Duplicate(c) \/ Fail(c)
    BY <2>1, FoldByQuietStep
  <2>2. CASE HandleOther(c) \/ FindNoneOrNewer(c) \/ UpsertNewer(c)
    BY <2>2, FoldByDrop
  <2>3. CASE Commit(c) \/ CommitUnacknowledged(c)
    <3>1. dropped' = dropped
      BY <2>3 DEF Commit, CommitUnacknowledged, Apply
    <3>2. CASE ~UNCHANGED <<view, ledger>>
      BY <1>1, <3>1, <3>2, FoldByCommit
    <3>3. CASE UNCHANGED <<view, ledger>>
      <4>1. Consume /\ Turn(c)
        BY <1>1, <2>3, EndsTurn DEF Consume, Work, ProjectionInv
      <4>2. /\ UNCHANGED <<log, position>>
            /\ \A d \in Consumer \ {c} : pc'[d] = pc[d] /\ existing'[d] = existing[d]
            /\ pc'[c] \in {"refresh", "deadletter"} /\ existing'[c] = NoRow
        <5>1. pc \in [Consumer -> Phase] /\ DOMAIN existing = Consumer
          BY DEF ProjectionInv, BaseInv, TypeOK, Phase
        <5>2. UNCHANGED <<log, position>>
          BY <4>1 DEF Turn, group
        <5>3. /\ pc' = [pc EXCEPT ![c] = "refresh"] \/ pc' = [pc EXCEPT ![c] = "deadletter"]
              /\ existing' = [existing EXCEPT ![c] = NoRow]
          BY <1>1, EndsTurn DEF ProjectionInv
        <5> QED BY <5>1, <5>2, <5>3
      <4> QED BY <3>1, <3>3, <4>1, <4>2, FoldStays
    <3> QED BY <3>2, <3>3
  <2> QED BY <1>1, <2>1, <2>2, <2>3 DEF Ends
<1>2. ASSUME NEW c \in Consumer, NEW b \in BOOLEAN,
             \/ Join(c, b) \/ Leave(c) \/ Crash(c) \/ CommitOffset(c) \/ Refresh(c)
             \/ Proceeds(c) \/ Find(c) \/ Upsert(c)
      PROVE  FoldInv'
  BY <1>2, FoldByQuietStep, FoldByFind
<1>3. CASE TruncateViews \/ ResetFails
  <2>1. CASE Consumer = {}
    <3>1. Consume /\ UNCHANGED <<view, ledger, log, dropped>>
      BY <1>3 DEF Consume, TruncateViews, ResetFails, database
    <3> QED BY <2>1, <3>1, FoldStays
  <2>2. CASE Consumer # {}
    BY <1>3, <2>2, FoldByQuietStep
  <2> QED BY <2>1, <2>2
<1>4. Consume => FoldInv'
  BY <1>1, <1>2, <1>3, ConsumeSteps, FoldByClear
<1> QED BY <1>4, FoldByProduce, StutterFold DEF Next

\* Each column of a row shows the newest recorded event that sets it, on a
\* partition in order until something fails, is skipped or is replayed, with any
\* number of consumers; and always as long as there is a single one.
THEOREM UpdatesAreKept == Spec => []UpdatesSurvive
<1>1. Init => FoldInv
  BY InitFold
<1>2. ProjectionInv /\ FoldInv /\ [Next]_vars => FoldInv'
  BY StepFold
<1>3. FoldInv => UpdatesSurvive
  BY DEF FoldInv, UpdatesSurvive, Calm
<1> QED BY <1>1, <1>2, <1>3, ProjectionInvCorrect, PTL DEF Spec
=============================================================================
