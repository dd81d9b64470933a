----------------------------- MODULE Migrations -----------------------------
(***************************************************************************)
(* The migration runner of shared-db: processes that apply the SQL files   *)
(* of their release to one database and record each in schema_migrations.  *)
(*                                                                         *)
(* Files are numbered in the order of their names.  A runner reads the     *)
(* ledger once, before the first file.  It talks to the database through   *)
(* a pool, one statement after the other, so that all of its statements    *)
(* use one connection; the pool discards that connection when a statement  *)
(* fails, which ends the transaction on the server whatever becomes of the *)
(* rollback, and a connection that breaks between two statements ends the  *)
(* process, because the pool has no error listener.                        *)
(***************************************************************************)
EXTENDS Naturals, Sequences

CONSTANTS Runner,     \* processes that migrate, each started again and again
          File,       \* names of migration files
          Checksum,   \* contents of migration files
          Directory,  \* the files of each runner's release, with their contents
          NotThere,   \* a file a release or the ledger does not have
          MaxFailures \* bound: statements that fail and runners that die

ASSUME FileAssumption == File \subseteq Nat \ {0} /\ NotThere \notin Checksum
ASSUME DirectoryAssumption == Directory \in [Runner -> [File -> Checksum \cup {NotThere}]]
ASSUME BoundAssumption == MaxFailures \in Nat

VARIABLES ledger,   \* committed rows of schema_migrations
          schema,   \* the files whose SQL is committed, in order
          pc,       \* the statement each runner executes next
          applied,  \* the ledger as each runner has read it
          file,     \* the file each runner has reached
          failures  \* failures so far

vars == <<ledger, schema, pc, applied, file, failures>>

Row == [file : File, checksum : Checksum, by : Runner]

TypeOK ==
    /\ ledger \in [File -> Checksum \cup {NotThere}]
    /\ schema \in Seq(Row)
    /\ pc \in [Runner -> {"stopped", "read", "file", "sql", "record", "commit",
                          "done", "failed"}]
    /\ applied \in [Runner -> [File -> Checksum \cup {NotThere}]]
    /\ file \in [Runner -> File \cup {0}]
    /\ failures \in 0..MaxFailures

Empty == [f \in File |-> NotThere]

Init ==
    /\ ledger = Empty
    /\ schema = <<>>
    /\ pc = [r \in Runner |-> "stopped"]
    /\ applied = [r \in Runner |-> Empty]
    /\ file = [r \in Runner |-> 0]
    /\ failures = 0
-----------------------------------------------------------------------------
Files(r) == {f \in File : Directory[r][f] # NotThere}
Go(r, to) == pc' = [pc EXCEPT ![r] = to]

\* The script is started, for the first time or after it ended.
Start(r) ==
    /\ pc[r] \in {"stopped", "done", "failed"}
    /\ Go(r, "read")
    /\ file' = [file EXCEPT ![r] = 0]
    /\ UNCHANGED <<ledger, schema, applied, failures>>

\* Bug: the ledger is read by the first run only.
Bug_ReadLedger(r) ==
    /\ pc[r] = "read"
    /\ applied' = [applied EXCEPT ![r] = IF @ = Empty THEN ledger ELSE @]
    /\ Go(r, "file")
    /\ UNCHANGED <<ledger, schema, file, failures>>

\* ensureMigrationTable, getAppliedMigrations and listSqlFiles.
ReadLedger(r) ==
    /\ pc[r] = "read"
    /\ applied' = [applied EXCEPT ![r] = ledger]
    /\ Go(r, "file")
    /\ UNCHANGED <<ledger, schema, file, failures>>

\* Files that the ledger, as read, has with the same contents are passed over.
Remaining(r) == {f \in Files(r) : f > file[r] /\ applied[r][f] # Directory[r][f]}

\* Bug: the files are taken as readdir lists them.
Bug_Reached(r, f) == f \in Remaining(r)

Reached(r, f) == f \in Remaining(r) /\ \A g \in Remaining(r) : f <= g

\* The loop reaches a file that is not in the ledger, and begins its transaction.
Begin(r, f) ==
    /\ pc[r] = "file" /\ Reached(r, f) /\ applied[r][f] = NotThere
    /\ file' = [file EXCEPT ![r] = f]
    /\ Go(r, "sql")
    /\ UNCHANGED <<ledger, schema, applied, failures>>

\* The loop reaches a file that was applied with other contents: it raises.
ChecksumMismatch(r, f) ==
    /\ pc[r] = "file" /\ Reached(r, f) /\ applied[r][f] # NotThere
    /\ Go(r, "failed")
    /\ UNCHANGED <<ledger, schema, applied, file, failures>>

Finish(r) ==
    /\ pc[r] = "file" /\ Remaining(r) = {}
    /\ Go(r, "done")
    /\ UNCHANGED <<ledger, schema, applied, file, failures>>
-----------------------------------------------------------------------------
(* The transaction of one file. *)

\* The file's SQL.  It may wait for, or clash with, what another runner of the
\* same file creates; either way that runner's record stops it afterwards.
RunSql(r) ==
    /\ pc[r] = "sql"
    /\ Go(r, "record")
    /\ UNCHANGED <<ledger, schema, applied, file, failures>>

\* Bug: the transaction was not begun, so the record is committed at once.
Bug_InsertRecord(r) ==
    /\ pc[r] = "record" /\ ledger[file[r]] = NotThere
    /\ ledger' = [ledger EXCEPT ![file[r]] = Directory[r][file[r]]]
    /\ Go(r, "commit")
    /\ UNCHANGED <<schema, applied, file, failures>>

\* insert into schema_migrations: waits for another transaction that has
\* inserted the same name.
InsertRecord(r) ==
    /\ pc[r] = "record" /\ ledger[file[r]] = NotThere
    /\ \A s \in Runner \ {r} : ~(pc[s] = "commit" /\ file[s] = file[r])
    /\ Go(r, "commit")
    /\ UNCHANGED <<ledger, schema, applied, file, failures>>

\* Bug: insert ... on conflict do nothing.
Bug_RecordExists(r) ==
    /\ pc[r] = "record" /\ ledger[file[r]] # NotThere
    /\ Go(r, "file")
    /\ UNCHANGED <<ledger, schema, applied, file, failures>>

\* Another runner has recorded the file since the ledger was read: the primary
\* key refuses the record, the transaction is rolled back and the run ends.
RecordExists(r) ==
    /\ pc[r] = "record" /\ ledger[file[r]] # NotThere
    /\ Go(r, "failed")
    /\ UNCHANGED <<ledger, schema, applied, file, failures>>

\* Bug: the parameters of the insert are swapped.
Bug_TakeEffect(r) ==
    /\ pc[r] = "commit"
    /\ ledger' = [ledger EXCEPT ![file[r]] = file[r]]
    /\ schema' = Append(schema, [file |-> file[r], checksum |-> Directory[r][file[r]],
                                 by |-> r])
    /\ UNCHANGED <<applied, file>>

\* The commit takes effect; the runner may not live to hear of it.
TakeEffect(r) ==
    /\ pc[r] = "commit"
    /\ ledger' = [ledger EXCEPT ![file[r]] = Directory[r][file[r]]]
    /\ schema' = Append(schema, [file |-> file[r], checksum |-> Directory[r][file[r]],
                                 by |-> r])
    /\ UNCHANGED <<applied, file>>

Commit(r) == TakeEffect(r) /\ Go(r, "file") /\ UNCHANGED failures

Failing == failures < MaxFailures /\ failures' = failures + 1

CommitUnacknowledged(r) == TakeEffect(r) /\ Go(r, "failed") /\ Failing

\* A statement fails or the process dies; an open transaction is gone.
Fail(r) ==
    /\ pc[r] \in {"read", "file", "sql", "record", "commit"} /\ Failing
    /\ Go(r, "failed")
    /\ UNCHANGED <<ledger, schema, applied, file>>
-----------------------------------------------------------------------------
Run(r) ==
    \/ ReadLedger(r) \/ Finish(r)
    \/ \E f \in File : Begin(r, f) \/ ChecksumMismatch(r, f)
    \/ RunSql(r) \/ InsertRecord(r) \/ RecordExists(r) \/ Commit(r)

Next == \E r \in Runner : Start(r) \/ Run(r) \/ CommitUnacknowledged(r) \/ Fail(r)

Spec == Init /\ [][Next]_vars

\* A runner that has been started goes on, and whoever deploys a release
\* starts its runner until it succeeds.
FairSpec == Spec /\ \A r \in Runner : WF_vars(Run(r)) /\ WF_vars(pc[r] # "done" /\ Start(r))
-----------------------------------------------------------------------------
\* The ledger tells what the schema is: a file is recorded exactly when its
\* SQL has taken effect, with the contents recorded, and no SQL takes effect
\* twice, however many runners race, fail, die or lose an acknowledgement.
LedgerIsSchema ==
    \A f \in File :
        LET effects == {i \in DOMAIN schema : schema[i].file = f}
        IN  IF ledger[f] = NotThere THEN effects = {}
            ELSE \E i \in effects : effects = {i} /\ schema[i].checksum = ledger[f]

\* A file takes effect on a schema that has every file its release sorts
\* before it, with that release's contents, whoever applied those.
AppliedInOrder ==
    \A i \in DOMAIN schema :
        LET release == Directory[schema[i].by]
        IN  \A f \in File : f < schema[i].file /\ release[f] # NotThere =>
                \E j \in 1..(i - 1) : schema[j].file = f /\ schema[j].checksum = release[f]

\* A run that ends without an error leaves the schema its release expects: two
\* releases that disagree about a file are never both migrated.
DoneIsMigrated ==
    \A r \in Runner : pc[r] = "done" =>
        \A f \in Files(r) : ledger[f] = Directory[r][f]

\* Another release has applied a file of the runner's with other contents.
Conflicting(r) == \E f \in Files(r) : ledger[f] \notin {NotThere, Directory[r][f]}

\* Racing runners do not stop each other for good: unless releases conflict,
\* each runner succeeds in the end, however often it lost a race before.
EveryReleaseMigrates == \A r \in Runner : <>(pc[r] = "done" \/ Conflicting(r))
=============================================================================
