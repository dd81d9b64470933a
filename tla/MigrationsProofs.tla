-------------------------- MODULE MigrationsProofs --------------------------
(***************************************************************************)
(* Proofs about Migrations, for every number of runners, every set of      *)
(* releases, however they disagree, and every number of failures.          *)
(***************************************************************************)
EXTENDS Migrations, TLAPS

\* A transaction that is to commit has found no record of its file, and is the
\* only one that holds the file's name in the primary key.
CommitAlone(r) ==
    pc[r] = "commit" =>
        /\ ledger[file[r]] = NotThere
        /\ \A s \in Runner \ {r} : pc[s] = "commit" => file[s] # file[r]

\* A runner works on a file of its release, and the files of its release before
\* that one are in the ledger with the release's contents.
FileByFile(r) ==
    /\ pc[r] = "read" => file[r] = 0
    /\ pc[r] \in {"sql", "record", "commit"} => file[r] \in Files(r)
    /\ pc[r] \in {"file", "sql", "record", "commit"} =>
         \A f \in Files(r) : f < file[r] => ledger[f] = Directory[r][f]
    /\ pc[r] = "file" =>
         \A f \in Files(r) : f = file[r] => ledger[f] = Directory[r][f]

\* What a runner has read of the ledger is still there.
ReadIsKept ==
    \A r \in Runner : \A f \in File :
        applied[r][f] # NotThere => ledger[f] = applied[r][f]

MigrationsInv == /\ TypeOK
                 /\ \A r \in Runner : CommitAlone(r) /\ FileByFile(r)
                 /\ ReadIsKept
                 /\ LedgerIsSchema
                 /\ AppliedInOrder
                 /\ DoneIsMigrated
-----------------------------------------------------------------------------
USE DEF Go

\* A record of the ledger is never changed or removed.
LEMMA LedgerGrows ==
    ASSUME MigrationsInv, NEW r \in Runner, TakeEffect(r)
    PROVE  \A f \in File : ledger[f] # NotThere => ledger'[f] = ledger[f]
BY DEF MigrationsInv, CommitAlone, FileByFile, TypeOK, TakeEffect

\* A step of one runner that leaves the ledger and the schema as they are: it
\* is enough that the runner itself is where the invariant wants it.
LEMMA LocalStep ==
    ASSUME MigrationsInv, NEW r \in Runner, TypeOK', UNCHANGED <<ledger, schema>>,
           \A s \in Runner \ {r} : /\ pc'[s] = pc[s] /\ file'[s] = file[s]
                                   /\ applied'[s] = applied[s],
           CommitAlone(r)', FileByFile(r)',
           \A f \in File : applied'[r][f] # NotThere => ledger[f] = applied'[r][f],
           pc'[r] = "done" => \A f \in Files(r) : ledger[f] = Directory[r][f]
    PROVE  MigrationsInv'
<1> USE DEF MigrationsInv
<1>1. ASSUME NEW s \in Runner \ {r} PROVE CommitAlone(s)'
  <2>1. CASE pc'[s] = "commit"
    <3>1. pc'[r] = "commit" => file'[s] # file'[r]
      BY <2>1 DEF CommitAlone
    <3> QED BY <2>1, <3>1 DEF CommitAlone
  <2> QED BY <2>1 DEF CommitAlone
<1>2. ASSUME NEW s \in Runner \ {r} PROVE FileByFile(s)'
  BY DEF FileByFile, Files
<1>3. ReadIsKept'
  BY DEF ReadIsKept
<1>4. LedgerIsSchema' /\ AppliedInOrder'
  BY DEF LedgerIsSchema, AppliedInOrder
<1>5. DoneIsMigrated'
  BY DEF DoneIsMigrated, Files
<1> QED BY <1>1, <1>2, <1>3, <1>4, <1>5

\* The script starts, or ends with an error: nothing is expected of it.
LEMMA StartOrEnd ==
    ASSUME MigrationsInv, NEW r \in Runner,
           Start(r) \/ Fail(r) \/ RecordExists(r) \/ \E f \in File : ChecksumMismatch(r, f)
    PROVE  MigrationsInv'
<1> USE DEF MigrationsInv, TypeOK
<1>1. /\ UNCHANGED <<ledger, schema, applied>>
      /\ \E p \in {"read", "failed"} : /\ pc' = [pc EXCEPT ![r] = p]
                                       /\ \/ p = "read" /\ file' = [file EXCEPT ![r] = 0]
                                          \/ p = "failed" /\ file' = file
      /\ failures' \in 0..MaxFailures
  <2>1. UNCHANGED <<ledger, schema, applied>>
    BY DEF Start, Fail, RecordExists, ChecksumMismatch
  <2>2. \E p \in {"read", "failed"} : /\ pc' = [pc EXCEPT ![r] = p]
                                      /\ \/ p = "read" /\ file' = [file EXCEPT ![r] = 0]
                                         \/ p = "failed" /\ file' = file
    BY DEF Start, Fail, RecordExists, ChecksumMismatch
  <2>3. failures' \in 0..MaxFailures
    <3>1. Fail(r) => failures < MaxFailures /\ failures' = failures + 1
      BY DEF Fail, Failing
    <3>2. ~Fail(r) => failures' = failures
      BY DEF Start, RecordExists, ChecksumMismatch
    <3> QED BY <3>1, <3>2, BoundAssumption
  <2> QED BY <2>1, <2>2, <2>3
<1>2. TypeOK'
  BY <1>1
<1>3. CommitAlone(r)' /\ FileByFile(r)' /\ pc'[r] # "done"
  BY <1>1 DEF CommitAlone, FileByFile
<1>4. \A f \in File : applied'[r][f] # NotThere => ledger[f] = applied'[r][f]
  BY <1>1 DEF ReadIsKept
<1>5. \A s \in Runner \ {r} : pc'[s] = pc[s] /\ file'[s] = file[s] /\ applied'[s] = applied[s]
  BY <1>1
<1> HIDE DEF TypeOK
<1> QED BY <1>1, <1>2, <1>3, <1>4, <1>5, LocalStep

LEMMA ReadLedgerInv ==
    ASSUME MigrationsInv, NEW r \in Runner, ReadLedger(r)
    PROVE  MigrationsInv'
<1> USE DEF MigrationsInv, TypeOK, ReadLedger
<1>1. TypeOK'
  OBVIOUS
<1>2. CommitAlone(r)'
  BY DEF CommitAlone
<1>3. FileByFile(r)'
  BY FileAssumption DEF FileByFile, Files
<1>4. \A f \in File : applied'[r][f] # NotThere => ledger[f] = applied'[r][f]
  OBVIOUS
<1> HIDE DEF TypeOK
<1> QED BY <1>1, <1>2, <1>3, <1>4, LocalStep DEF TypeOK

\* The files between the last one and the next that remains are in the ledger,
\* with the contents that the runner's release has.
LEMMA PassedOver ==
    ASSUME MigrationsInv, NEW r \in Runner, pc[r] = "file", NEW g \in Files(r),
           g \notin Remaining(r)
    PROVE  ledger[g] = Directory[r][g]
<1>1. g \in Nat /\ file[r] \in Nat
  <2>1. g \in File /\ file[r] \in File \cup {0}
    BY DEF MigrationsInv, TypeOK, Files
  <2>2. \A f \in File : f \in Nat
    BY FileAssumption
  <2>3. g \in Nat
    BY <2>1, <2>2
  <2>4. file[r] \in Nat
    BY <2>1, <2>2
  <2> QED BY <2>3, <2>4
<1>2. CASE g > file[r]
  BY <1>2 DEF MigrationsInv, ReadIsKept, Remaining, Files
<1>3. CASE ~(g > file[r])
  <2>1. g < file[r] \/ g = file[r]
    BY <1>1, <1>3
  <2> QED BY <2>1 DEF MigrationsInv, FileByFile
<1> QED BY <1>2, <1>3

LEMMA BeginInv ==
    ASSUME MigrationsInv, NEW r \in Runner, NEW f \in File, Begin(r, f)
    PROVE  MigrationsInv'
<1>1. /\ pc[r] = "file" /\ pc' = [pc EXCEPT ![r] = "sql"]
      /\ file' = [file EXCEPT ![r] = f]
      /\ UNCHANGED <<ledger, schema, applied, failures>>
      /\ f \in Files(r)
  BY DEF Begin, Reached, Remaining
<1>2. \A g \in Files(r) : g < f => ledger[g] = Directory[r][g]
  <2> SUFFICES ASSUME NEW g \in Files(r), g < f PROVE ledger[g] = Directory[r][g]
    OBVIOUS
  <2>1. g \in Nat /\ f \in Nat
    BY FileAssumption DEF Files
  <2>2. g \notin Remaining(r)
    BY <2>1 DEF Begin, Reached
  <2> QED BY <1>1, <2>2, PassedOver
<1>3. TypeOK'
  BY <1>1 DEF MigrationsInv, TypeOK
<1>4. CommitAlone(r)' /\ FileByFile(r)' /\ pc'[r] # "done"
  BY <1>1, <1>2 DEF CommitAlone, FileByFile, MigrationsInv, TypeOK, Files
<1> QED BY <1>1, <1>3, <1>4, LocalStep DEF MigrationsInv, ReadIsKept, TypeOK

LEMMA FinishInv ==
    ASSUME MigrationsInv, NEW r \in Runner, Finish(r)
    PROVE  MigrationsInv'
<1>1. /\ pc[r] = "file" /\ pc' = [pc EXCEPT ![r] = "done"]
      /\ UNCHANGED <<ledger, schema, applied, file, failures>>
  BY DEF Finish
<1>2. \A g \in Files(r) : ledger[g] = Directory[r][g]
  BY <1>1, PassedOver DEF Finish
<1>3. TypeOK'
  BY <1>1 DEF MigrationsInv, TypeOK
<1>4. CommitAlone(r)' /\ FileByFile(r)'
  BY <1>1 DEF CommitAlone, FileByFile, MigrationsInv, TypeOK
<1> QED BY <1>1, <1>2, <1>3, <1>4, LocalStep DEF MigrationsInv, ReadIsKept, TypeOK

\* The insert has waited for other transactions on the same name.
LEMMA StatementInv ==
    ASSUME MigrationsInv, NEW r \in Runner, RunSql(r) \/ InsertRecord(r)
    PROVE  MigrationsInv'
<1>1. /\ UNCHANGED <<ledger, schema, applied, file, failures>>
      /\ \/ pc[r] = "sql" /\ pc' = [pc EXCEPT ![r] = "record"]
         \/ /\ pc[r] = "record" /\ pc' = [pc EXCEPT ![r] = "commit"]
            /\ ledger[file[r]] = NotThere
            /\ \A s \in Runner \ {r} : ~(pc[s] = "commit" /\ file[s] = file[r])
  BY DEF RunSql, InsertRecord
<1>2. TypeOK'
  BY <1>1 DEF MigrationsInv, TypeOK
<1>3. CommitAlone(r)' /\ FileByFile(r)' /\ pc'[r] # "done"
  BY <1>1 DEF CommitAlone, FileByFile, MigrationsInv, TypeOK, Files
<1> QED BY <1>1, <1>2, <1>3, LocalStep DEF MigrationsInv, ReadIsKept, TypeOK
-----------------------------------------------------------------------------
(* The commit. *)

\* The commit adds one row to the ledger and one effect to the schema.
LEMMA EffectIsRecorded ==
    ASSUME MigrationsInv, NEW r \in Runner, TakeEffect(r)
    PROVE  LedgerIsSchema'
<1> DEFINE n == Len(schema) + 1
           Of(s, f) == {i \in DOMAIN s : s[i].file = f}
<1>1. /\ file[r] \in File /\ Directory[r][file[r]] \in Checksum
      /\ Directory[r][file[r]] # NotThere /\ ledger[file[r]] = NotThere
  <2>1. file[r] \in Files(r) /\ ledger[file[r]] = NotThere
    BY DEF MigrationsInv, CommitAlone, FileByFile, TakeEffect
  <2>2. Directory[r] \in [File -> Checksum \cup {NotThere}]
    BY DirectoryAssumption
  <2> QED BY <2>1, <2>2 DEF Files
<1>2. ledger' = [ledger EXCEPT ![file[r]] = Directory[r][file[r]]]
  BY DEF TakeEffect
<1>3. /\ DOMAIN schema = 1..(n - 1) /\ DOMAIN schema' = 1..n /\ n \in Nat
      /\ \A i \in 1..(n - 1) : schema'[i] = schema[i]
      /\ schema'[n].file = file[r] /\ schema'[n].checksum = Directory[r][file[r]]
  BY DEF MigrationsInv, TypeOK, TakeEffect
<1>4. n \notin 1..(n - 1) /\ 1..n = 1..(n - 1) \cup {n}
  BY <1>3
<1> HIDE DEF n
<1> SUFFICES ASSUME NEW f \in File
             PROVE  IF ledger'[f] = NotThere THEN Of(schema', f) = {}
                    ELSE \E i \in Of(schema', f) :
                            Of(schema', f) = {i} /\ schema'[i].checksum = ledger'[f]
  BY DEF LedgerIsSchema
<1>5. IF ledger[f] = NotThere THEN Of(schema, f) = {}
      ELSE \E i \in Of(schema, f) :
              Of(schema, f) = {i} /\ schema[i].checksum = ledger[f]
  BY DEF MigrationsInv, LedgerIsSchema
<1>6. CASE f = file[r]
  <2>1. Of(schema, f) = {}
    BY <1>1, <1>5, <1>6
  <2>2. Of(schema', f) = {n}
    BY <1>3, <1>4, <1>6, <2>1
  <2>3. ledger'[f] = Directory[r][f]
    BY <1>2, <1>6 DEF MigrationsInv, TypeOK
  <2> HIDE DEF Of
  <2> QED BY <1>1, <1>3, <1>6, <2>2, <2>3
<1>7. CASE f # file[r]
  <2>1. Of(schema', f) = Of(schema, f)
    BY <1>3, <1>4, <1>7
  <2>2. ledger'[f] = ledger[f]
    BY <1>2, <1>7 DEF MigrationsInv, TypeOK
  <2>3. \A i \in Of(schema, f) : schema'[i] = schema[i]
    BY <1>3
  <2> HIDE DEF Of
  <2> QED BY <1>5, <2>1, <2>2, <2>3
<1> QED BY <1>6, <1>7

\* The files that the runner's release sorts before this one took effect
\* earlier, since they are in the ledger.
LEMMA EffectIsInOrder ==
    ASSUME MigrationsInv, NEW r \in Runner, TakeEffect(r)
    PROVE  AppliedInOrder'
<1> DEFINE n == Len(schema) + 1
<1>1. /\ DOMAIN schema = 1..(n - 1) /\ DOMAIN schema' = 1..n /\ n \in Nat
      /\ \A i \in 1..(n - 1) : schema'[i] = schema[i]
      /\ schema'[n].file = file[r] /\ schema'[n].by = r
  BY DEF MigrationsInv, TypeOK, TakeEffect
<1> HIDE DEF n
<1> SUFFICES ASSUME NEW i \in 1..n, NEW f \in File, f < schema'[i].file,
                    Directory[schema'[i].by][f] # NotThere
             PROVE  \E j \in 1..(i - 1) :
                        /\ schema'[j].file = f
                        /\ schema'[j].checksum = Directory[schema'[i].by][f]
  BY <1>1 DEF AppliedInOrder
<1>2. \A j \in 1..(i - 1) : j \in 1..(n - 1)
  BY <1>1
<1>3. CASE i # n
  <2>1. i \in 1..(n - 1)
    BY <1>1, <1>3
  <2>2. \E j \in 1..(i - 1) : /\ schema[j].file = f
                              /\ schema[j].checksum = Directory[schema[i].by][f]
    BY <1>1, <2>1 DEF MigrationsInv, AppliedInOrder
  <2> QED BY <1>1, <1>2, <2>1, <2>2
<1>4. CASE i = n
  <2>1. f \in Files(r) /\ f < file[r] /\ schema'[i].by = r
    BY <1>1, <1>4 DEF Files
  <2>2. ledger[f] = Directory[r][f] /\ ledger[f] # NotThere
    BY <2>1 DEF MigrationsInv, FileByFile, TakeEffect, Files
  <2>3. \E j \in DOMAIN schema : schema[j].file = f /\ schema[j].checksum = ledger[f]
    BY <2>2 DEF MigrationsInv, LedgerIsSchema
  <2> QED BY <1>1, <1>4, <2>1, <2>2, <2>3
<1> QED BY <1>3, <1>4

LEMMA CommitInv ==
    ASSUME MigrationsInv, NEW r \in Runner, Commit(r) \/ CommitUnacknowledged(r)
    PROVE  MigrationsInv'
<1>1. /\ TakeEffect(r) /\ pc[r] = "commit"
      /\ ledger' = [ledger EXCEPT ![file[r]] = Directory[r][file[r]]]
      /\ UNCHANGED <<applied, file>>
      /\ pc' = [pc EXCEPT ![r] = "file"] \/ pc' = [pc EXCEPT ![r] = "failed"]
  BY DEF Commit, CommitUnacknowledged, TakeEffect
<1>2. LedgerIsSchema' /\ AppliedInOrder'
  BY <1>1, EffectIsRecorded, EffectIsInOrder
<1>3. \A f \in File : ledger[f] # NotThere => ledger'[f] = ledger[f]
  BY <1>1, LedgerGrows
<1>4. file[r] \in Files(r) /\ file[r] \in File /\ ledger'[file[r]] = Directory[r][file[r]]
  BY <1>1 DEF MigrationsInv, FileByFile, TypeOK, Files
<1>5. TypeOK'
  <2>1. Directory[r][file[r]] \in Checksum
    BY <1>4, DirectoryAssumption DEF Files
  <2>2. schema' \in Seq(Row)
    BY <1>1, <1>4, <2>1 DEF TakeEffect, MigrationsInv, TypeOK, Row
  <2>3. failures' \in 0..MaxFailures
    <3>1. failures' = failures \/ (failures < MaxFailures /\ failures' = failures + 1)
      BY DEF Commit, CommitUnacknowledged, Failing
    <3> QED BY <3>1, BoundAssumption DEF MigrationsInv, TypeOK
  <2> QED BY <1>1, <1>4, <2>1, <2>2, <2>3 DEF MigrationsInv, TypeOK
<1>6. \A s \in Runner : \A f \in Files(s) :
          ledger[f] = Directory[s][f] => ledger'[f] = Directory[s][f]
  BY <1>3 DEF Files
<1>7. ASSUME NEW s \in Runner PROVE CommitAlone(s)'
  <2>1. pc'[s] = "commit" => s # r /\ pc[s] = "commit"
    BY <1>1 DEF MigrationsInv, TypeOK
  <2>2. CASE s # r /\ pc[s] = "commit"
    <3>1. file[s] # file[r] /\ ledger[file[s]] = NotThere /\ file[s] \in File
      BY <1>1, <2>2 DEF MigrationsInv, CommitAlone, FileByFile, Files
    <3>2. ledger'[file[s]] = NotThere
      BY <1>1, <3>1 DEF MigrationsInv, TypeOK
    <3>3. \A q \in Runner \ {s} : pc'[q] = "commit" => file[q] # file[s]
      BY <1>1, <2>2 DEF MigrationsInv, CommitAlone, TypeOK
    <3> QED BY <1>1, <3>2, <3>3 DEF CommitAlone
  <2> QED BY <2>1, <2>2 DEF CommitAlone
<1>8. ASSUME NEW s \in Runner PROVE FileByFile(s)'
  <2>1. CASE s = r
    BY <1>1, <1>4, <1>6, <2>1 DEF MigrationsInv, FileByFile, TypeOK, Files
  <2>2. CASE s # r
    BY <1>1, <1>6, <2>2 DEF MigrationsInv, FileByFile, TypeOK, Files
  <2> QED BY <2>1, <2>2
<1>9. ReadIsKept'
  BY <1>1, <1>3 DEF MigrationsInv, ReadIsKept
<1>10. DoneIsMigrated'
  <2> SUFFICES ASSUME NEW s \in Runner, pc'[s] = "done", NEW f \in Files(s)
               PROVE  ledger'[f] = Directory[s][f]
    BY DEF DoneIsMigrated, Files
  <2>1. pc[s] = "done"
    BY <1>1 DEF MigrationsInv, TypeOK
  <2> QED BY <1>6, <2>1 DEF MigrationsInv, DoneIsMigrated
<1> QED BY <1>2, <1>5, <1>7, <1>8, <1>9, <1>10 DEF MigrationsInv
-----------------------------------------------------------------------------
\* In every reachable state runners, ledger and schema agree as MigrationsInv
\* says.
THEOREM MigrationsInvCorrect == Spec => []MigrationsInv
<1>1. Init => MigrationsInv
  <2> SUFFICES ASSUME Init PROVE MigrationsInv
    OBVIOUS
  <2>1. TypeOK
    BY BoundAssumption DEF Init, TypeOK, Empty
  <2>2. LedgerIsSchema /\ AppliedInOrder
    BY DEF Init, LedgerIsSchema, AppliedInOrder, Empty
  <2> QED BY <2>1, <2>2 DEF Init, MigrationsInv, CommitAlone, FileByFile, ReadIsKept,
                            DoneIsMigrated, Empty
<1>2. MigrationsInv /\ [Next]_vars => MigrationsInv'
  <2> SUFFICES ASSUME MigrationsInv, [Next]_vars PROVE MigrationsInv'
    OBVIOUS
  <2>1. CASE Next
    BY <2>1, StartOrEnd, ReadLedgerInv, BeginInv, FinishInv, StatementInv, CommitInv
    DEF Next, Run
  <2>2. CASE UNCHANGED vars
    BY <2>2 DEF vars, MigrationsInv, TypeOK, CommitAlone, FileByFile, ReadIsKept, Files,
                LedgerIsSchema, AppliedInOrder, DoneIsMigrated
  <2> QED BY <2>1, <2>2
<1> QED BY <1>1, <1>2, PTL DEF Spec

\* The ledger, the schema and the runners hold what the code can store in them.
THEOREM TypeCorrect == Spec => []TypeOK
<1>1. MigrationsInv => TypeOK
  BY DEF MigrationsInv
<1> QED BY <1>1, MigrationsInvCorrect, PTL

\* A file is recorded exactly when its SQL has taken effect, with the contents
\* recorded and once, whatever runners race, fail or lose an acknowledgement.
THEOREM LedgerTellsSchema == Spec => []LedgerIsSchema
<1>1. MigrationsInv => LedgerIsSchema
  BY DEF MigrationsInv
<1> QED BY <1>1, MigrationsInvCorrect, PTL

\* Files take effect in the order of the release that applies them, on top of
\* all earlier files of that release.
THEOREM FilesInOrder == Spec => []AppliedInOrder
<1>1. MigrationsInv => AppliedInOrder
  BY DEF MigrationsInv
<1> QED BY <1>1, MigrationsInvCorrect, PTL

\* A run that ends without an error leaves the schema its release expects.
THEOREM DoneMeansMigrated == Spec => []DoneIsMigrated
<1>1. MigrationsInv => DoneIsMigrated
  BY DEF MigrationsInv
<1> QED BY <1>1, MigrationsInvCorrect, PTL
=============================================================================
