-------------------------- MODULE BindingMigration --------------------------
(***************************************************************************)
(* The migration of a container whose PostgreSQL port is published on a    *)
(* public address to one that the proxy alone can reach                    *)
(* (src/backend/legacy_binding_migration.go).                              *)
(*                                                                         *)
(* A request stops and renames the old container, creates a replacement    *)
(* with its name, its volumes and its port, starts it, points the row at   *)
(* it, and undoes all that if a step fails.  Requests are not kept apart,  *)
(* users start and stop containers meanwhile, Docker may refuse any call   *)
(* and the process may die.  The old container is kept.                    *)
(***************************************************************************)
EXTENDS Naturals

CONSTANTS
    Migrations,   \* POST .../secure-bindings; a request names its replacement
    Old,          \* the container with the public binding
    NoContainer,
    MaxDeaths     \* bound: how often the process dies

ASSUME OldAssumption == Old \notin Migrations /\ NoContainer \notin Migrations \cup {Old}
ASSUME CrashesAssumption == MaxDeaths \in Nat

Containers == Migrations \cup {Old}

VARIABLES
    made,      \* the containers that exist
    running,   \* those that run: one port and one volume for all of them
    original,  \* who has the original name, or None
    record,    \* container_id of the database's (or branch's) row
    migration, \* Migrations -> where migrateLegacyBindingScope is
    torn,      \* history: a rollback's write of the row was lost
    excused,   \* history: a user's stop, a crash or a refused start
    deaths

docker == <<made, running, original>>
bindingVars == <<made, running, original, record, migration, torn, excused, deaths>>

NotStarted == [at |-> "idle", scope |-> NoContainer, updated |-> FALSE]

BindingInit ==
    /\ made = {Old} /\ running = {Old} /\ original = Old
    /\ record = Old
    /\ migration = [q \in Migrations |-> NotStarted]
    /\ torn = FALSE /\ excused = FALSE /\ deaths = 0

AtStep(q, stage) == migration[q].at = stage
GoTo(q, stage) == migration' = [migration EXCEPT ![q].at = stage]
End(q) == migration' = [migration EXCEPT ![q] = [NotStarted EXCEPT !.at = "done"]]

(* Docker starts a container if its port is free: all of these publish the *)
(* same one.                                                               *)
CanStart(c) == c \in made /\ running \subseteq {c}

-----------------------------------------------------------------------------
(* The way forward. *)

(* listLegacyBindingScopes reads the row. *)
ListScopes(q) ==
    /\ AtStep(q, "idle")
    /\ migration' = [migration EXCEPT ![q].at = "inspect", ![q].scope = record]
    /\ UNCHANGED <<docker, record, torn, excused, deaths>>

(* Docker shows the published ports of running containers only: one that   *)
(* is stopped, or a replacement, is taken for secured and passed over.     *)
Legacy(c) == c = Old /\ c \in running

Inspect(q) ==
    /\ AtStep(q, "inspect")
    /\ Legacy(migration[q].scope)
    /\ GoTo(q, "stop")
    /\ UNCHANGED <<docker, record, torn, excused, deaths>>

(* Not a legacy container, or Docker did not answer. *)
PassOver(q) ==
    /\ AtStep(q, "inspect")
    /\ End(q)
    /\ UNCHANGED <<docker, record, torn, excused, deaths>>

Stop(q) ==
    /\ AtStep(q, "stop")
    /\ running' = running \ {migration[q].scope}
    /\ GoTo(q, "rename")
    /\ UNCHANGED <<made, original, record, torn, excused, deaths>>

StopFails(q) ==
    /\ AtStep(q, "stop")
    /\ End(q)
    /\ UNCHANGED <<docker, record, torn, excused, deaths>>

Rename(q) ==
    /\ AtStep(q, "rename")
    /\ original' = IF original = migration[q].scope THEN NoContainer ELSE original
    /\ GoTo(q, "create")
    /\ UNCHANGED <<made, running, record, torn, excused, deaths>>

(* Mutant of RenameFails: the container stays stopped. *)
LeaveStopped(q) ==
    /\ AtStep(q, "rename")
    /\ End(q)
    /\ UNCHANGED <<docker, record, torn, excused, deaths>>

(* Two renames within a second ask for the same name.  The old container   *)
(* is started again.                                                       *)
RenameFails(q) ==
    /\ AtStep(q, "rename")
    /\ GoTo(q, "start old")
    /\ UNCHANGED <<docker, record, torn, excused, deaths>>

CreateReplacement(q) ==
    /\ AtStep(q, "create")
    /\ original = NoContainer
    /\ original' = q
    /\ made' = made \cup {q}
    /\ GoTo(q, "start")
    /\ UNCHANGED <<running, record, torn, excused, deaths>>

(* Mutant of StartNew: the replacement does not keep the host port. *)
StartOnOtherPort(q) ==
    /\ AtStep(q, "start")
    /\ running' = running \cup {q}
    /\ GoTo(q, "wait")
    /\ UNCHANGED <<made, original, record, torn, excused, deaths>>

StartNew(q) ==
    /\ AtStep(q, "start")
    /\ CanStart(q)
    /\ running' = running \cup {q}
    /\ GoTo(q, "wait")
    /\ UNCHANGED <<made, original, record, torn, excused, deaths>>

(* waitForContainerPostgres *)
Ready(q) ==
    /\ AtStep(q, "wait")
    /\ q \in running
    /\ GoTo(q, "update")
    /\ UNCHANGED <<docker, record, torn, excused, deaths>>

UpdateRow(q) ==
    /\ AtStep(q, "update")
    /\ record' = q
    /\ migration' = [migration EXCEPT ![q].at = "provision", ![q].updated = TRUE]
    /\ UNCHANGED <<docker, torn, excused, deaths>>

(* ensureDatabaseProxyAccessByID; a branch has no such step. *)
ProvisionRole(q) ==
    /\ AtStep(q, "provision")
    /\ End(q)
    /\ UNCHANGED <<docker, record, torn, excused, deaths>>

(* Docker or SQLite refuses, PostgreSQL is not ready in time, the role     *)
(* cannot be provisioned.                                                  *)
StepFails(q) ==
    /\ migration[q].at \in {"create", "start", "wait", "update", "provision"}
    /\ GoTo(q, "remove new")
    /\ UNCHANGED <<docker, record, torn, excused, deaths>>

-----------------------------------------------------------------------------
(* rollback, whose errors are ignored one by one. *)

(* The forced removal also fails at times: then the replacement stays.     *)
RemoveNew(q) ==
    /\ AtStep(q, "remove new")
    /\ \/ /\ made' = made \ {q}
          /\ running' = running \ {q}
          /\ original' = IF original = q THEN NoContainer ELSE original
       \/ UNCHANGED docker
    /\ GoTo(q, "restore row")
    /\ UNCHANGED <<record, torn, excused, deaths>>

(* Mutant of RestoreRecord: metadataUpdated was never set. *)
ForgetRow(q) ==
    /\ AtStep(q, "restore row")
    /\ GoTo(q, "rename back")
    /\ UNCHANGED <<docker, record, torn, excused, deaths>>

RestoreRecord(q) ==
    /\ AtStep(q, "restore row")
    /\ IF ~migration[q].updated THEN UNCHANGED <<record, torn>>
       ELSE \/ record' = migration[q].scope /\ UNCHANGED torn
            \/ torn' = TRUE /\ UNCHANGED record
    /\ GoTo(q, "rename back")
    /\ UNCHANGED <<docker, excused, deaths>>

RenameBack(q) ==
    /\ AtStep(q, "rename back")
    /\ \/ original = NoContainer /\ original' = migration[q].scope
       \/ UNCHANGED original
    /\ GoTo(q, "start old")
    /\ UNCHANGED <<made, running, record, torn, excused, deaths>>

(* A container that runs already is no error. *)
StartOld(q) ==
    /\ AtStep(q, "start old")
    /\ IF CanStart(migration[q].scope)
       THEN \/ running' = running \cup {migration[q].scope} /\ UNCHANGED excused
            \/ excused' = TRUE /\ UNCHANGED running
       ELSE UNCHANGED <<running, excused>>
    /\ End(q)
    /\ UNCHANGED <<made, original, record, torn, deaths>>

-----------------------------------------------------------------------------
(* The containers page and the database's start and stop buttons. *)
UserStarts ==
    /\ \E c \in made : CanStart(c) /\ running' = running \cup {c}
    /\ UNCHANGED <<made, original, record, migration, torn, excused, deaths>>

UserStops ==
    /\ running # {}
    /\ \E c \in running : running' = running \ {c}
    /\ excused' = TRUE
    /\ UNCHANGED <<made, original, record, migration, torn, deaths>>

ProcessDies ==
    /\ deaths < MaxDeaths
    /\ deaths' = deaths + 1
    /\ excused' = TRUE
    /\ torn' = (torn \/ \E q \in Migrations : AtStep(q, "restore row") /\ migration[q].updated)
    /\ migration' = [q \in Migrations |-> [NotStarted EXCEPT !.at = "done"]]
    /\ UNCHANGED <<docker, record>>

Migrate(q) ==
    \/ ListScopes(q) \/ Inspect(q) \/ PassOver(q) \/ Stop(q) \/ StopFails(q)
    \/ Rename(q) \/ RenameFails(q) \/ CreateReplacement(q) \/ StartNew(q) \/ Ready(q)
    \/ UpdateRow(q) \/ ProvisionRole(q) \/ StepFails(q)

Rollback(q) == RemoveNew(q) \/ RestoreRecord(q) \/ RenameBack(q) \/ StartOld(q)

BindingNext ==
    \/ \E q \in Migrations : Migrate(q) \/ Rollback(q)
    \/ UserStarts \/ UserStops \/ ProcessDies

BindingSpec == BindingInit /\ [][BindingNext]_bindingVars

-----------------------------------------------------------------------------
(* Properties. *)

BindingTypeOK ==
    /\ made \subseteq Containers /\ running \subseteq made
    /\ original \in made \cup {NoContainer}
    /\ record \in Containers
    /\ migration \in [Migrations -> [at : {"idle", "inspect", "stop", "rename", "create", "start", "wait",
                                   "update", "provision", "remove new", "restore row",
                                   "rename back", "start old", "done"},
                             scope : Containers \cup {NoContainer}, updated : BOOLEAN]]
    /\ torn \in BOOLEAN /\ excused \in BOOLEAN
    /\ deaths \in 0..MaxDeaths

(* Old and replacement share their volumes: two servers on one data        *)
(* directory would destroy it.  No interleaving of requests, rollbacks     *)
(* that half fail, crashes and users' starts gets there.                   *)
OneServerOnTheVolume == \A c, d \in running : c = d

(* The row names a container that exists, except while a rollback has      *)
(* removed the replacement and not yet restored the row, and after that    *)
(* write was lost.                                                         *)
RecordHasContainer ==
    record \in made \/ torn \/ \E q \in Migrations : AtStep(q, "restore row") /\ migration[q].updated

(* When the requests are through, the database they found running runs     *)
(* again, in one container or the other, whichever of their steps failed,  *)
(* unless a user stopped it, the process died or Docker refused the very   *)
(* last start.                                                             *)
ServiceBack == (\A q \in Migrations : migration[q].at \in {"idle", "done"}) => running # {} \/ excused

=============================================================================
