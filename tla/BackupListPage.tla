----------------------------- MODULE BackupListPage -----------------------------
(***************************************************************************)
(* The backups of a database (pages/Backup.tsx without its settings): a    *)
(* list polled every five seconds, a manual backup, and five ways to       *)
(* restore or download.  A backup is "none", "pending", "failed",          *)
(* "completed", or "encrypted" when it is completed and needs a private    *)
(* key.  `pem` is whether the dialog's key is filled in.                   *)
(***************************************************************************)
EXTENDS DashboardPage

CONSTANT Backups    \* the backups the list can show

BackupListHooks ==
    [busy |-> {}, rollback |-> None, target |-> None, dialog |-> FALSE, pem |-> FALSE]

OpenBackupList ==
    /\ page = "backups"
    /\ \E d \in Dbs : \E asked \in MayRefetch("backups", d) : OpenAt(d, BackupListHooks, asked)

(* The dialogs and their targets are hooks: they survive the move.         *)
SwitchBackupList ==
    /\ page = "backups"
    /\ \E d \in Dbs : \E asked \in MayRefetch("backups", d) : SwitchTo(d, view, asked)

PollBackups == Refetch("backups", at) # {} /\ Act(view, Refetch("backups", at))

(* What can be pressed: two dialogs cover the rest, the sections only hide *)
(* it.  Each mutation disables its own button.  That a backup to S3 wants a*)
(* bucket, and a restore a file or a connection string, is left out.       *)
BackupListControls ==
    IF view.dialog
    THEN {"escape", "type key"} \cup (IF "decrypt" \in view.busy THEN {} ELSE {"cancel", "decrypt"})
    ELSE IF view.rollback # None
    THEN {"close"} \cup ({"rollback"} \ view.busy)
    ELSE {"backup", "restore file", "restore connection"} \ view.busy

(* BackupRow: the buttons of a row.                                        *)
RowControls(b) ==
    IF view.dialog \/ view.rollback # None \/ kept["backups"][at] = None THEN {}
    ELSE CASE kept["backups"][at][b] = "encrypted" -> {"decrypt"}
           [] kept["backups"][at][b] = "completed" ->
                IF "rollback" \in view.busy THEN {} ELSE {"ask"}
           [] OTHER -> {}

BackupsFetched(r) ==
    /\ r.op = "backups"
    /\ Settle(r, view, Fetched(r), {}, {})

AskRollback(b) == "ask" \in RowControls(b) /\ Act([view EXCEPT !.rollback = b], {})
CloseRollback == "close" \in BackupListControls /\ Act([view EXCEPT !.rollback = None], {})

(* openDecryptDialog; closing it forgets the target and the key, Cancel    *)
(* (a setter, which is no onOpenChange) only hides them.                   *)
OpenDecrypt(b) ==
    /\ "decrypt" \in RowControls(b)
    /\ Act([view EXCEPT !.dialog = TRUE, !.target = b], {})

CloseDecrypt ==
    \/ /\ "escape" \in BackupListControls
       /\ Act([view EXCEPT !.dialog = FALSE, !.target = None, !.pem = FALSE], {})
    \/ /\ "cancel" \in BackupListControls
       /\ Act([view EXCEPT !.dialog = FALSE], {})

TypeKey == "type key" \in BackupListControls /\ Act([view EXCEPT !.pem = ~@], {})

(* The five requests: manualBackupMutation, rollbackMutation, the two      *)
(* external restores, and handleDecryptAction, which wants a key.          *)
BackupRequest(op) ==
    /\ op \in BackupListControls \cap {"backup", "rollback", "restore file",
                                       "restore connection", "decrypt"}
    /\ op = "decrypt" => view.pem /\ view.target # None
    /\ Act(Busy(view, op),
           {Request(op, IF op = "rollback" THEN view.rollback
                        ELSE IF op = "decrypt" THEN view.target ELSE None)})

ManualBackupStarted(r) ==
    /\ r.op = "backup"
    /\ IF r.ans = Failed THEN Handle(r, Idle(view, "backup"), {})
       ELSE Invalidate(r, Idle(view, "backup"), "backups")

RollbackStarted(r) ==
    /\ r.op = "rollback"
    /\ Handle(r, [Idle(view, "rollback") EXCEPT !.rollback = None], {})

ExternalRestoreStarted(r) ==
    /\ r.op \in {"restore file", "restore connection"}
    /\ Handle(r, Idle(view, r.op), {})

(* handleDecryptAction goes on; whatever dialog is open now is closed.     *)
Decrypted(r) ==
    /\ r.op = "decrypt"
    /\ Handle(r, IF r.ans = Failed THEN Idle(view, "decrypt")
                 ELSE [Idle(view, "decrypt") EXCEPT !.dialog = FALSE, !.target = None,
                                                    !.pem = FALSE], {})

(* A restore is answered before it is tried (BackupRestore.tla).           *)
BackupListServer(r) ==
    LET free == {b \in Backups : srv[r.at][b] = "none"}
        pending(b) == [srv EXCEPT ![r.at][b] = "pending"] IN
    \/ r.op = "backups" /\ (ServerAnswers(r, srv, srv[r.at]) \/ ServerFails(r, srv))
    \/ /\ r.op = "backup"
       /\ \/ \E b \in free : ServerFails(r, pending(b)) \/ ServerAnswers(r, pending(b), Ok)
          \/ free = {} /\ ServerAnswers(r, srv, Failed)
    \/ /\ r.op \notin {"backups", "backup"}
       /\ ServerAnswers(r, srv, Ok) \/ ServerAnswers(r, srv, Failed)

(* BackupRestore.tla: a backup is worked on and ends.                      *)
BackupEnds ==
    /\ \E d \in Dbs, b \in Backups, s \in {"completed", "encrypted", "failed"} :
         srv[d][b] = "pending" /\ srv' = [srv EXCEPT ![d][b] = s]
    /\ UNCHANGED <<page, at, view, kept, net, upset>>

BackupListNext ==
    /\ page = "backups"
    /\ \/ BackupEnds
       \/ /\ at # None
          /\ \/ SwitchBackupList \/ PollBackups \/ CloseRollback \/ CloseDecrypt \/ TypeKey
             \/ \E b \in Backups : AskRollback(b) \/ OpenDecrypt(b)
             \/ \E op \in BackupListControls : BackupRequest(op)
       \/ \E r \in net : \/ BackupsFetched(r) \/ ManualBackupStarted(r) \/ RollbackStarted(r)
                         \/ ExternalRestoreStarted(r) \/ Decrypted(r) \/ BackupListServer(r)

=============================================================================
