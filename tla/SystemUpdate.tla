---------------------------- MODULE SystemUpdate ----------------------------
(***************************************************************************)
(* The update checker and the self-update (src/backend/system/updates.go). *)
(*                                                                         *)
(* RunUpdate raises two flags, one in memory (UpdatingStatus) and one in   *)
(* the settings (system_is_updating), pulls the repository mounted at      *)
(* /repo and has a sidecar container rebuild and replace the container it  *)
(* runs in.  The dashboard shows "System Update in Progress" while either  *)
(* flag is up.  The process that boots next takes the persistent one down. *)
(* Commits are numbered: the repository's HEAD, its origin/main, the       *)
(* upstream branch and the one the running container was built from.       *)
(***************************************************************************)
EXTENDS Naturals

CONSTANTS
    Updaters,    \* API requests that run RunUpdate
    Checks,      \* goroutines that run CheckForUpdates: ticker, API requests
    BootCheck,   \* whose first one is InitUpdateChecker's
    Nobody,
    MaxVersion,  \* bound: how many commits upstream gets
    MaxCrashes   \* bound: how often the process dies by itself

ASSUME BootCheckAssumption == BootCheck \in Checks
ASSUME NobodyAssumption == Nobody \notin Updaters
ASSUME VersionsAssumption == MaxVersion \in Nat /\ MaxCrashes \in Nat

Versions == 0..MaxVersion
Unknown == MaxVersion + 1   \* the empty string of a status not yet filled in

VARIABLES
    upstream,   \* the branch main on the server
    remoteRef,  \* origin/main in /repo
    head,       \* HEAD in /repo
    built,      \* the commit the running container was built from
    status,     \* currentStatus: both hashes and UpdatingStatus
    flag,       \* the setting system_is_updating
    target,     \* the setting system_update_target_hash
    boot,       \* the goroutine of InitUpdateChecker
    check,      \* Checks -> where CheckForUpdates is, and the hashes it read
    update,     \* Updaters -> where RunUpdate and its goroutine are; "overtaken" is
                \* for the properties: another request's pull failed since it began
    sidecar,    \* whose container baseful-updater runs, or Nobody
    crashes

repo == <<upstream, remoteRef, head>>
settings == <<flag, target>>
updateVars == <<upstream, remoteRef, head, built, status, flag, target, boot, check, update,
          sidecar, crashes>>

NoStatus == [current |-> Unknown, remote |-> Unknown, updating |-> FALSE]
IdleCheck == [at |-> "idle", head |-> Unknown, remote |-> Unknown]
IdleUpdate == [at |-> "idle", hash |-> Unknown, overtaken |-> FALSE]

(* The process starts: InitUpdateChecker checks at once. *)
StartProcess ==
    /\ status' = NoStatus
    /\ boot' = "check"
    /\ check' = [c \in Checks |-> IF c = BootCheck THEN [IdleCheck EXCEPT !.at = "fetch"]
                                                   ELSE IdleCheck]
    /\ update' = [u \in Updaters |-> IdleUpdate]

UpdateInit ==
    /\ upstream = 0 /\ remoteRef = 0 /\ head = 0 /\ built = 0
    /\ status = NoStatus
    /\ flag = FALSE
    /\ target = Unknown
    /\ boot = "check"
    /\ check = [c \in Checks |-> IF c = BootCheck THEN [IdleCheck EXCEPT !.at = "fetch"]
                                                  ELSE IdleCheck]
    /\ update = [u \in Updaters |-> IdleUpdate]
    /\ sidecar = Nobody
    /\ crashes = 0

-----------------------------------------------------------------------------
(* CheckForUpdates, whose git commands take as long as they take. *)

(* Every thirty minutes, and whenever the API asks: the slot of the first   *)
(* check serves again once InitUpdateChecker is through with it.           *)
StartCheck(c) ==
    /\ c = BootCheck => boot \in {"done", "missed"}
    /\ check[c].at = "idle"
    /\ check' = [check EXCEPT ![c].at = "fetch"]
    /\ UNCHANGED <<repo, built, status, settings, boot, update, sidecar, crashes>>

(* git fetch, whose failure is only logged. *)
Fetch(c) ==
    /\ check[c].at = "fetch"
    /\ remoteRef' \in {remoteRef, upstream}
    /\ check' = [check EXCEPT ![c].at = "head"]
    /\ UNCHANGED <<upstream, head, built, status, settings, boot, update, sidecar, crashes>>

(* Mutant of ReadHead: rev-parse of the wrong ref. *)
ReadFetched(c) ==
    /\ check[c].at = "head"
    /\ \E hash \in {remoteRef, Unknown} :
          check' = [check EXCEPT ![c].at = "remote", ![c].head = hash]
    /\ UNCHANGED <<repo, built, status, settings, boot, update, sidecar, crashes>>

(* git rev-parse, once for each hash.  One that fails prints nothing, and  *)
(* the empty string is stored for the hash.                                *)
ReadHead(c) ==
    /\ check[c].at = "head"
    /\ \E hash \in {head, Unknown} :
          check' = [check EXCEPT ![c].at = "remote", ![c].head = hash]
    /\ UNCHANGED <<repo, built, status, settings, boot, update, sidecar, crashes>>

ReadRemote(c) ==
    /\ check[c].at = "remote"
    /\ \E hash \in {remoteRef, Unknown} :
          check' = [check EXCEPT ![c].at = "store", ![c].remote = hash]
    /\ UNCHANGED <<repo, built, status, settings, boot, update, sidecar, crashes>>

(* The hashes are stored, however old they are by now. *)
StoreHashes(c) ==
    /\ check[c].at = "store"
    /\ status' = [status EXCEPT !.current = check[c].head, !.remote = check[c].remote]
    /\ check' = [check EXCEPT ![c] = IdleCheck]
    /\ boot' = IF c = BootCheck /\ boot = "check" THEN "flag" ELSE boot
    /\ UNCHANGED <<repo, built, settings, update, sidecar, crashes>>

(* What follows the first check: the flag is read, after two seconds, and  *)
(* taken down whether or not the hashes match.  A read that fails counts   *)
(* as a flag that is down.                                                 *)
ReadFlag ==
    /\ boot = "flag"
    /\ boot' \in {IF flag THEN "clear" ELSE "done", "missed"}
    /\ UNCHANGED <<repo, built, status, settings, check, update, sidecar, crashes>>

(* Mutant of ClearFlag: only an update that reached its target is cleared. *)
ClearIfReached ==
    /\ boot = "clear"
    /\ flag' = (status.current # target)
    /\ boot' = "done"
    /\ UNCHANGED <<repo, built, status, target, check, update, sidecar, crashes>>

ClearFlag ==
    /\ boot = "clear"
    /\ flag' = FALSE
    /\ boot' = "done"
    /\ UNCHANGED <<repo, built, status, target, check, update, sidecar, crashes>>

(* SQLite was busy; the error of db.UpdateSetting is ignored here as it is *)
(* in RunUpdate.                                                           *)
ClearMissed ==
    /\ boot = "clear"
    /\ boot' = "missed"
    /\ UNCHANGED <<repo, built, status, settings, check, update, sidecar, crashes>>

-----------------------------------------------------------------------------
(* RunUpdate. *)

At(u, stage) == update[u].at = stage
Go(u, stage) == update' = [update EXCEPT ![u].at = stage]

RaiseInMemory(u) ==
    /\ At(u, "idle")
    /\ status' = [status EXCEPT !.updating = TRUE]
    /\ update' = [update EXCEPT ![u] = [at |-> "raise", hash |-> status.remote, overtaken |-> FALSE]]
    /\ UNCHANGED <<repo, built, settings, boot, check, sidecar, crashes>>

RaiseFlag(u) ==
    /\ At(u, "raise")
    /\ flag' \in {flag, TRUE}
    /\ Go(u, "target")
    /\ UNCHANGED <<repo, built, status, target, boot, check, sidecar, crashes>>

(* The hash serves no more after this. *)
SetTarget(u) ==
    /\ At(u, "target")
    /\ target' \in {target, update[u].hash}
    /\ update' = [update EXCEPT ![u].at = "pull", ![u].hash = Unknown]
    /\ UNCHANGED <<repo, built, status, flag, boot, check, sidecar, crashes>>

Pull(u) ==
    /\ At(u, "pull")
    /\ head' = upstream
    /\ remoteRef' = upstream
    /\ Go(u, "launch")
    /\ UNCHANGED <<upstream, built, status, settings, boot, check, sidecar, crashes>>

(* The flag in memory is taken down, whoever else still needs it. *)
Underway(u) == update[u].at \in {"raise", "target", "pull", "launch", "sidecar"}

PullFails(u) ==
    /\ At(u, "pull")
    /\ status' = [status EXCEPT !.updating = FALSE]
    /\ update' = [v \in Updaters |-> [at |-> IF v = u THEN "lower" ELSE update[v].at,
                                      hash |-> update[v].hash,
                                      overtaken |-> update[v].overtaken \/ Underway(v)]]
    /\ UNCHANGED <<repo, built, settings, boot, check, sidecar, crashes>>

LowerFlag(u) ==
    /\ At(u, "lower")
    /\ flag' \in {flag, FALSE}
    /\ Go(u, "withdrawn")
    /\ UNCHANGED <<repo, built, status, target, boot, check, sidecar, crashes>>

(* The goroutine, two seconds after the answer: docker run, which fails if *)
(* a container of that name exists.                                        *)
Launch(u) ==
    /\ At(u, "launch")
    /\ sidecar = Nobody
    /\ sidecar' = u
    /\ Go(u, "sidecar")
    /\ UNCHANGED <<repo, built, status, settings, boot, check, crashes>>

LaunchFails(u) ==
    /\ At(u, "launch")
    /\ Go(u, "failed")
    /\ UNCHANGED <<repo, built, status, settings, boot, check, sidecar, crashes>>

(* The error is logged and the flag taken down: the persistent one only.   *)
(* Mutant of SidecarFailed: both are, as after a pull that failed.         *)
SidecarFailedAll(u) ==
    /\ At(u, "failed")
    /\ flag' \in {flag, FALSE}
    /\ status' = [status EXCEPT !.updating = FALSE]
    /\ Go(u, "cleared")
    /\ UNCHANGED <<repo, built, target, boot, check, sidecar, crashes>>

SidecarFailed(u) ==
    /\ At(u, "failed")
    /\ flag' \in {flag, FALSE}
    /\ Go(u, "cleared")
    /\ UNCHANGED <<repo, built, status, target, boot, check, sidecar, crashes>>

-----------------------------------------------------------------------------
(* The sidecar runs docker compose up --build outside the process.  Its    *)
(* end is news to the goroutine that launched it only if that one still    *)
(* waits.                                                                  *)

Report(stage) ==
    update' = [u \in Updaters |-> IF u = sidecar /\ At(u, "sidecar")
                                  THEN [update[u] EXCEPT !.at = stage] ELSE update[u]]

BuildFails ==
    /\ sidecar # Nobody
    /\ sidecar' = Nobody
    /\ Report("failed")
    /\ UNCHANGED <<repo, built, status, settings, boot, check, crashes>>

(* Nothing to rebuild: the container is left running. *)
BuildUnchanged ==
    /\ sidecar # Nobody
    /\ head = built
    /\ sidecar' = Nobody
    /\ Report("done")
    /\ UNCHANGED <<repo, built, status, settings, boot, check, crashes>>

Recreate ==
    /\ sidecar # Nobody
    /\ head # built
    /\ sidecar' = Nobody
    /\ built' = head
    /\ StartProcess
    /\ UNCHANGED <<repo, settings, crashes>>

(* restart: unless-stopped *)
Crash ==
    /\ crashes < MaxCrashes
    /\ crashes' = crashes + 1
    /\ StartProcess
    /\ UNCHANGED <<repo, built, settings, sidecar>>

Publish ==
    /\ upstream < MaxVersion
    /\ upstream' = upstream + 1
    /\ UNCHANGED <<remoteRef, head, built, status, settings, boot, check, update, sidecar, crashes>>

-----------------------------------------------------------------------------
Booting ==
    \/ Fetch(BootCheck) \/ ReadHead(BootCheck) \/ ReadRemote(BootCheck) \/ StoreHashes(BootCheck)
    \/ ReadFlag \/ ClearFlag \/ ClearMissed

UpdateNext ==
    \/ Booting
    \/ \E c \in Checks : StartCheck(c) \/ Fetch(c) \/ ReadHead(c) \/ ReadRemote(c) \/ StoreHashes(c)
    \/ \E u \in Updaters :
          \/ RaiseInMemory(u) \/ RaiseFlag(u) \/ SetTarget(u)
          \/ Pull(u) \/ PullFails(u) \/ LowerFlag(u)
          \/ Launch(u) \/ LaunchFails(u) \/ SidecarFailed(u)
    \/ BuildFails \/ BuildUnchanged \/ Recreate
    \/ Crash \/ Publish

UpdateSpec == UpdateInit /\ [][UpdateNext]_updateVars

(* The goroutine of InitUpdateChecker runs; git fetch returns. *)
FairUpdateSpec == UpdateSpec /\ WF_updateVars(Booting)

-----------------------------------------------------------------------------
(* Properties. *)

UpdateTypeOK ==
    /\ upstream \in Versions
    /\ remoteRef \in 0..upstream
    /\ head \in 0..remoteRef
    /\ built \in 0..head
    /\ status \in [current : Versions \cup {Unknown}, remote : Versions \cup {Unknown},
                   updating : BOOLEAN]
    /\ flag \in BOOLEAN
    /\ target \in Versions \cup {Unknown}
    /\ boot \in {"check", "flag", "clear", "done", "missed"}
    /\ check \in [Checks -> [at : {"idle", "fetch", "head", "remote", "store"},
                             head : Versions \cup {Unknown}, remote : Versions \cup {Unknown}]]
    /\ update \in [Updaters -> [at : {"idle", "raise", "target", "pull", "lower", "launch",
                                      "sidecar", "failed", "withdrawn", "cleared", "done"},
                                hash : Versions \cup {Unknown}, overtaken : BOOLEAN]]
    /\ sidecar \in Updaters \cup {Nobody}
    /\ crashes \in 0..MaxCrashes

(* GetUpdateStatus: what the overlay of the dashboard is shown for. *)
Reported == status.updating \/ flag

(* From its first step to the end of its sidecar an update is reported,    *)
(* although the boot goroutine of the same process may take the setting    *)
(* down in the middle of it (a long git fetch delays that past the start   *)
(* of an update), writes of the setting get lost, and RunUpdate lets       *)
(* requests overlap: what another one did before, and a sidecar of another *)
(* one that fails now, take nothing away from this one.  Only a pull that  *)
(* fails while it is under way does, since that one lowers the flag in     *)
(* memory for all of them.                                                 *)
UpdateReported == \A u \in Updaters : Underway(u) /\ ~update[u].overtaken => Reported

(* "Sidecar failed -- clear the flag so the UI doesn't stay stuck."        *)
(* (updates.go:190): once that is done, and the write was not lost, the    *)
(* update is no longer reported.                                           *)
FailedUpdateUnstuck == \A u \in Updaters : At(u, "cleared") /\ ~flag ~> ~Reported

(* The flag that a dead process leaves up is taken down by the next one,   *)
(* whatever became of the update, unless SQLite fails it right then.       *)
LeftoverCleared == flag /\ boot = "check" ~> ~flag \/ boot = "missed"

(* "Up to Date" (frontend/src/pages/Security.tsx:243) is shown when the    *)
(* two hashes of the last check are equal.  Then the commit that runs is   *)
(* the one the check found upstream, however old the check and however     *)
(* many crashes and updates ago, unless the repository holds a commit that *)
(* was pulled and not (or not yet) built: the HEAD of /repo is taken for   *)
(* the running version.  (Two hashes neither of which could be read are    *)
(* equal as well, and say nothing.)                                        *)
UpToDateUnlessUnbuilt ==
    status.current # Unknown /\ status.current = status.remote => built = status.remote \/ head # built

=============================================================================
