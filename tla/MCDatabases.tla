----------------------------- MODULE MCDatabases -----------------------------
(***************************************************************************)
(* What happens to a database: its life and that of a branch of it, the    *)
(* backups and restores of its content, the migration of its container.    *)
(* The three keep different state of it (its rows and containers, its      *)
(* content, its port), so a behaviour is about one of them.                *)
(***************************************************************************)
EXTENDS DatabaseLifecycle, BackupRestore, BindingMigration, TLC

CONSTANTS r1, r2, d1, b1, n1

OneBranch == {b1}
TwoRequests == {r1, r2}
ParentOfOne == [b \in OneBranch |-> d1]

VARIABLE part

DatabasesInit ==
    /\ Init /\ BackupInit /\ BindingInit
    /\ part \in {"lifecycle", "backups", "binding"}

DatabasesNext ==
    /\ UNCHANGED part
    /\ \/ part = "lifecycle" /\ Next /\ UNCHANGED <<backupVars, bindingVars>>
       \/ part = "backups" /\ BackupNext /\ UNCHANGED <<vars, bindingVars>>
       \/ part = "binding" /\ BindingNext /\ UNCHANGED <<vars, backupVars>>

DatabasesSpec == DatabasesInit /\ [][DatabasesNext]_<<part, vars, backupVars, bindingVars>>

(* Every variable of the three keeps its type.                             *)
DatabasesTypeOK == TypeOK /\ BackupTypeOK /\ BindingTypeOK

(* Requests are alike, goroutines too, and so are the two buckets.         *)
Alike == Permutations(TwoRequests) \cup Permutations(Jobs) \cup Permutations(Buckets)
=============================================================================
