--------------------------- MODULE BackupRestore ---------------------------
(***************************************************************************)
(* Backups and restores of one database (src/backend/backups/manager.go    *)
(* and the routes of main.go that run them in goroutines).                 *)
(*                                                                         *)
(* A backup streams pg_dump, run in the database's container, into an      *)
(* object of the bucket.  A restore terminates every session, drops and    *)
(* creates the database and replays a dump through psql.  Nothing keeps    *)
(* two jobs apart.  A dump is a sequence of parts, one after the other; a  *)
(* part stands for a table, its value for the version of its rows.         *)
(***************************************************************************)
EXTENDS Naturals, Sequences

CONSTANTS
    Jobs,        \* goroutines of the backup and restore routes
    Buckets,     \* the places the backup settings may name
    None,        \* no bucket; what the store holds under a key nobody wrote
    MaxPart,     \* the parts of a complete database
    MaxRows,     \* bound: rows of the table backups
    MaxVersion,  \* bound: the contents that clients write
    MaxBackupCrashes   \* bound: how often the process dies

ASSUME BucketsAssumption == Buckets # {}
ASSUME PartsAssumption == MaxPart \in Nat \ {0}
ASSUME NoneAssumption ==
    None \notin Buckets \cup UNION {[1..n -> 0..(MaxVersion + 2)] : n \in 0..MaxPart}
ASSUME BoundsAssumption == MaxRows \in Nat /\ MaxVersion \in Nat \ {0} /\ MaxBackupCrashes \in Nat

VARIABLES
    exists,   \* there is a database of that name in the container
    data,     \* its parts
    backupRows,     \* the table backups
    objects,  \* the object store: bucket and key -> what was uploaded
    bucket,   \* the bucket of the backup settings
    jobs,     \* Jobs -> where PerformBackup or RestoreFromFile is, the dump it copies,
              \* how far it is, whether the dump's source is (still) readable and, as
              \* history, whether it was alone in the database since its CREATE
    orphans,  \* history: rows whose last UPDATE was lost
    backupCrashes

backupVars == <<exists, data, backupRows, objects, bucket, jobs, orphans, backupCrashes>>
database == <<exists, data>>
store == <<backupRows, objects, orphans>>

Parts == 1..MaxPart
Nothing == 0
Foreign == MaxVersion + 1   \* what an upload or another server brings
Mixed == MaxVersion + 2     \* rows of two origins in one table
Values == 0..Mixed
Empty == [p \in Parts |-> Nothing]
Keys == 1..MaxRows          \* file names: one per second

IdleJob == [at |-> "idle", row |-> 0, bucket |-> None, dump |-> <<>>,
         pos |-> 0, intact |-> TRUE, alone |-> TRUE]

BackupInit ==
    /\ exists = TRUE
    /\ data = [p \in Parts |-> 1]
    /\ backupRows = <<>>
    /\ objects = [o \in Buckets \X Keys |-> None]
    /\ bucket \in Buckets
    /\ jobs = [j \in Jobs |-> IdleJob]
    /\ orphans = {}
    /\ backupCrashes = 0

JobAt(j, stage) == jobs[j].at = stage
JobGoes(j, stage) == jobs' = [jobs EXCEPT ![j].at = stage]

(* A job that has a session on the database. *)
Connected(j) == JobAt(j, "replay") \/ (JobAt(j, "dump") /\ jobs[j].intact)

BackingUp(j) == jobs[j].at \in {"exec", "dump", "uploaded", "failing"}

-----------------------------------------------------------------------------
(* PerformBackup. *)

(* The row is inserted as pending; its key is made of the second, so two   *)
(* backups may share one.  The settings are read once, here.               *)
StartBackup(j) ==
    /\ JobAt(j, "idle")
    /\ Len(backupRows) < MaxRows
    /\ \E k \in IF backupRows = <<>> THEN {1} ELSE {backupRows[Len(backupRows)].key, backupRows[Len(backupRows)].key + 1} :
          backupRows' = Append(backupRows, [status |-> "pending", key |-> k, url |-> bucket, held |-> Empty])
    /\ jobs' = [jobs EXCEPT ![j] = [IdleJob EXCEPT !.at = "exec", !.row = Len(backupRows) + 1,
                                                !.bucket = bucket]]
    /\ UNCHANGED <<database, objects, bucket, orphans, backupCrashes>>

(* pg_dump reads one snapshot; of a database that is gone it prints        *)
(* nothing and its exit code is not looked at.                             *)
DumpStarts(j) ==
    /\ JobAt(j, "exec")
    /\ jobs' = [jobs EXCEPT ![j].at = "dump", ![j].intact = exists,
                            ![j].dump = IF exists THEN [p \in Parts |-> data[p]] ELSE <<>>]
    /\ backupRows' = [backupRows EXCEPT ![jobs[j].row].held = data]
    /\ UNCHANGED <<database, objects, bucket, orphans, backupCrashes>>

(* Mutant of ExecFails: the row is forgotten. *)
ReturnErrorOnly(j) ==
    /\ JobAt(j, "exec")
    /\ jobs' = [jobs EXCEPT ![j] = IdleJob]
    /\ UNCHANGED <<database, store, bucket, backupCrashes>>

ExecFails(j) ==
    /\ JobAt(j, "exec")
    /\ JobGoes(j, "failing")
    /\ UNCHANGED <<database, store, bucket, backupCrashes>>

(* pg_dump dies, or its container does. *)
DumpDies(j) ==
    /\ JobAt(j, "dump") /\ jobs[j].intact
    /\ jobs' = [jobs EXCEPT ![j].intact = FALSE]
    /\ UNCHANGED <<database, store, bucket, backupCrashes>>

(* PutObject returns at the end of the stream, be it the whole dump or a   *)
(* dead pg_dump's; an object appears at once.                              *)
Upload(j) ==
    /\ JobAt(j, "dump")
    /\ \E n \in IF jobs[j].intact THEN {MaxPart} ELSE 0..Len(jobs[j].dump) :
          objects' = [objects EXCEPT ![<<jobs[j].bucket, backupRows[jobs[j].row].key>>] =
                                         SubSeq(jobs[j].dump, 1, n)]
    /\ jobs' = [jobs EXCEPT ![j].at = "uploaded", ![j].dump = <<>>, ![j].intact = TRUE]
    /\ UNCHANGED <<database, backupRows, orphans, bucket, backupCrashes>>

(* Mutant of UploadFails: the error of PutObject is not looked at. *)
IgnoreUploadError(j) ==
    /\ JobAt(j, "dump")
    /\ jobs' = [jobs EXCEPT ![j].at = "uploaded", ![j].dump = <<>>, ![j].intact = TRUE]
    /\ UNCHANGED <<database, store, bucket, backupCrashes>>

UploadFails(j) ==
    /\ JobAt(j, "dump")
    /\ jobs' = [jobs EXCEPT ![j].at = "failing", ![j].dump = <<>>, ![j].intact = TRUE]
    /\ UNCHANGED <<database, store, bucket, backupCrashes>>

(* updateStatus, whose error is ignored. *)
SetBackupStatus(j) ==
    /\ jobs[j].at \in {"uploaded", "failing"}
    /\ LET r == jobs[j].row
           status == IF JobAt(j, "uploaded") THEN "completed" ELSE "failed"
       IN  \/ /\ backupRows' = [backupRows EXCEPT ![r].status = status, ![r].url = jobs[j].bucket]
              /\ UNCHANGED orphans
           \/ /\ orphans' = orphans \cup {r}
              /\ UNCHANGED backupRows
    /\ jobs' = [jobs EXCEPT ![j] = IdleJob]
    /\ UNCHANGED <<database, objects, bucket, backupCrashes>>

Backup(j) ==
    \/ DumpStarts(j) \/ ExecFails(j) \/ DumpDies(j)
    \/ Upload(j) \/ UploadFails(j) \/ SetBackupStatus(j)

-----------------------------------------------------------------------------
(* RestoreFromFile and RestoreFromConnection. *)

(* The status of the row is not looked at; GetObject opens the object in   *)
(* the bucket that the settings name now and reads nothing yet.            *)
RestoreRow(j) ==
    /\ JobAt(j, "idle")
    /\ \E r \in 1..Len(backupRows) :
          jobs' = [jobs EXCEPT ![j] = [IdleJob EXCEPT !.at = "terminate", !.row = r,
                                                   !.bucket = bucket]]
    /\ UNCHANGED <<database, store, bucket, backupCrashes>>

(* An uploaded file, or pg_dump of another server. *)
RestoreForeign(j) ==
    /\ JobAt(j, "idle")
    /\ jobs' = [jobs EXCEPT ![j] = [IdleJob EXCEPT !.at = "terminate"]]
    /\ UNCHANGED <<database, store, bucket, backupCrashes>>

(* pg_terminate_backend: dumps are cut short, replays lose their psql. *)
Terminate(j) ==
    /\ JobAt(j, "terminate")
    /\ jobs' = [k \in Jobs |->
           IF k = j THEN [jobs[k] EXCEPT !.at = "drop"]
           ELSE IF ~Connected(k) THEN jobs[k]
           ELSE IF JobAt(k, "dump") THEN [jobs[k] EXCEPT !.intact = FALSE]
           ELSE [IdleJob EXCEPT !.at = "severed"]]
    /\ UNCHANGED <<database, store, bucket, backupCrashes>>

(* DROP DATABASE refuses while anyone is connected. *)
Drop(j) ==
    /\ JobAt(j, "drop")
    /\ \A k \in Jobs : ~Connected(k)
    /\ exists' = FALSE
    /\ data' = Empty
    /\ JobGoes(j, "create")
    /\ UNCHANGED <<store, bucket, backupCrashes>>

Create(j) ==
    /\ JobAt(j, "create")
    /\ ~exists
    /\ exists' = TRUE
    /\ JobGoes(j, "attach")
    /\ UNCHANGED <<data, store, bucket, backupCrashes>>

(* A statement or an exec that fails: a client reconnected before the      *)
(* DROP, another restore was first, the container stopped.                 *)
StatementFails(j) ==
    /\ jobs[j].at \in {"terminate", "drop", "create", "attach"}
    /\ jobs' = [jobs EXCEPT ![j] = IdleJob]
    /\ UNCHANGED <<database, store, bucket, backupCrashes>>

(* psql starts, and the source is read for the first time: of a row, the   *)
(* object in the bucket that the settings named when the restore began.    *)
Object(j) == objects[<<jobs[j].bucket, backupRows[jobs[j].row].key>>]

Source(j) ==
    IF jobs[j].row = 0 THEN [p \in Parts |-> Foreign]
    ELSE IF Object(j) = None THEN <<>> ELSE Object(j)

Attach(j) ==
    /\ JobAt(j, "attach")
    /\ exists
    /\ jobs' = [jobs EXCEPT ![j].at = "replay", ![j].dump = Source(j), ![j].bucket = IdleJob.bucket,
                            ![j].intact = jobs[j].row = 0 \/ Object(j) # None]
    /\ UNCHANGED <<database, store, bucket, backupCrashes>>

(* The statements of the jobs in those are joined by another writer's. *)
Joined(those) ==
    [k \in Jobs |-> IF k \in those /\ jobs[k].at \in {"attach", "replay"}
                    THEN [jobs[k] EXCEPT !.alone = FALSE] ELSE jobs[k]]

(* One part; psql goes on after an error (no ON_ERROR_STOP), and rows go   *)
(* into a table that another writer made.                                  *)
Replay(j) ==
    /\ JobAt(j, "replay") /\ jobs[j].intact
    /\ jobs[j].pos < Len(jobs[j].dump)
    /\ LET p == jobs[j].pos + 1
       IN  data' = [data EXCEPT ![p] = IF @ = Nothing THEN jobs[j].dump[p] ELSE Mixed]
    /\ jobs' = [Joined(Jobs \ {j}) EXCEPT ![j].pos = @ + 1]
    /\ UNCHANGED <<exists, store, bucket, backupCrashes>>

(* A read fails: the object store, pg_dump of the other server, or the     *)
(* uploaded file, which the route's defer closes while this goroutine runs.*)
SourceFails(j) ==
    /\ JobAt(j, "replay") /\ jobs[j].intact
    /\ jobs' = [jobs EXCEPT ![j].intact = FALSE]
    /\ UNCHANGED <<database, store, bucket, backupCrashes>>

(* The end of the source and a failed read both close psql's input, and    *)
(* psql exits with 0.                                                      *)
ReplayEnds(j) ==
    /\ JobAt(j, "replay")
    /\ jobs[j].intact => jobs[j].pos = Len(jobs[j].dump)
    /\ jobs' = [jobs EXCEPT ![j] = [IdleJob EXCEPT !.at = "restored"]]
    /\ UNCHANGED <<database, store, bucket, backupCrashes>>

(* Mutant of Severed: the exit code of psql is not looked at. *)
IgnoreExitCode(j) ==
    /\ JobAt(j, "severed")
    /\ jobs' = [jobs EXCEPT ![j] = [IdleJob EXCEPT !.at = "restored"]]
    /\ UNCHANGED <<database, store, bucket, backupCrashes>>

(* psql lost its connection and exits with 2. *)
Severed(j) ==
    /\ JobAt(j, "severed")
    /\ jobs' = [jobs EXCEPT ![j] = IdleJob]
    /\ UNCHANGED <<database, store, bucket, backupCrashes>>

(* The notification "Baseful restore completed". *)
Notify(j) ==
    /\ JobAt(j, "restored")
    /\ jobs' = [jobs EXCEPT ![j] = IdleJob]
    /\ UNCHANGED <<database, store, bucket, backupCrashes>>

Restore(j) ==
    \/ Terminate(j) \/ Drop(j) \/ Create(j) \/ StatementFails(j)
    \/ Attach(j) \/ Replay(j) \/ SourceFails(j) \/ ReplayEnds(j) \/ Severed(j) \/ Notify(j)

-----------------------------------------------------------------------------
(* Everything else. *)

(* A client's transaction that writes every table. *)
ClientWrites ==
    /\ exists
    /\ \E v \in 1..MaxVersion : data' = [p \in Parts |-> v]
    /\ jobs' = Joined(Jobs)
    /\ UNCHANGED <<exists, store, bucket, backupCrashes>>

(* SaveBackupSettings. *)
SaveSettings ==
    /\ bucket' \in Buckets \ {bucket}
    /\ UNCHANGED <<database, store, jobs, backupCrashes>>

(* The process dies; psql and pg_dump go with their exec's streams. *)
BackupCrash ==
    /\ backupCrashes < MaxBackupCrashes
    /\ backupCrashes' = backupCrashes + 1
    /\ orphans' = orphans \cup {jobs[j].row : j \in {k \in Jobs : BackingUp(k)}}
    /\ jobs' = [j \in Jobs |-> IdleJob]
    /\ UNCHANGED <<database, backupRows, objects, bucket>>

BackupNext ==
    \/ \E j \in Jobs : StartBackup(j) \/ Backup(j) \/ RestoreRow(j) \/ RestoreForeign(j) \/ Restore(j)
    \/ ClientWrites \/ SaveSettings \/ BackupCrash

BackupSpec == BackupInit /\ [][BackupNext]_backupVars

-----------------------------------------------------------------------------
(* Properties. *)

Contents == UNION {[1..n -> Values] : n \in 0..MaxPart}

BackupTypeOK ==
    /\ exists \in BOOLEAN
    /\ data \in [Parts -> Values]
    /\ Len(backupRows) <= MaxRows
    /\ \A r \in 1..Len(backupRows) :
          backupRows[r] \in [status : {"pending", "completed", "failed"}, key : Keys,
                      url : Buckets, held : [Parts -> Values]]
    /\ objects \in [Buckets \X Keys -> Contents \cup {None}]
    /\ bucket \in Buckets
    /\ jobs \in [Jobs -> [at : {"idle", "exec", "dump", "uploaded", "failing", "terminate", "drop",
                                "create", "attach", "replay", "severed", "restored"},
                          row : 0..Len(backupRows), bucket : Buckets \cup {None}, dump : Contents,
                          pos : 0..MaxPart, intact : BOOLEAN, alone : BOOLEAN]]
    /\ orphans \subseteq 1..Len(backupRows)
    /\ backupCrashes \in 0..MaxBackupCrashes

(* A backup that the list calls completed can be fetched where its row     *)
(* says: later backups with the same key, failing uploads, changed         *)
(* settings and crashes do not take it away.                               *)
CompletedHasObject ==
    \A r \in 1..Len(backupRows) :
        backupRows[r].status = "completed" => objects[<<backupRows[r].url, backupRows[r].key>>] # None

(* No error path of PerformBackup leaves its row pending: such a row has a *)
(* goroutine at work on it, unless the process died or SQLite refused the  *)
(* last UPDATE.                                                            *)
PendingIsWorkedOn ==
    \A r \in 1..Len(backupRows) :
        backupRows[r].status = "pending" =>
            r \in orphans \/ \E j \in Jobs : BackingUp(j) /\ jobs[j].row = r

Replayed(j) == [p \in Parts |-> IF p <= jobs[j].pos THEN jobs[j].dump[p] ELSE Nothing]

(* A restore reports completion only of a database that holds what it fed  *)
(* to psql and nothing else, whatever other restores terminated, dropped   *)
(* or created meanwhile and however old the content, unless somebody else  *)
(* wrote to the same database after its CREATE.                            *)
RestoredExactly ==
    [][\A j \in Jobs :
          ~JobAt(j, "restored") /\ jobs'[j].at = "restored" /\ jobs[j].alone =>
              exists' /\ data' = Replayed(j)]_backupVars

(* "Baseful restore completed" (main.go:1974) is sent when the content of  *)
(* the backup, one that was itself reported as completed, is back.         *)
RestoreBringsBack ==
    [][\A j \in Jobs :
          ~JobAt(j, "restored") /\ jobs'[j].at = "restored" /\ jobs[j].alone /\ jobs[j].row # 0
          /\ backupRows[jobs[j].row].status = "completed" => data' = backupRows[jobs[j].row].held]_backupVars

=============================================================================
