-------------------------- MODULE DatabaseLifecycle --------------------------
(***************************************************************************)
(* Databases, their branches and the containers behind both                *)
(* (src/backend/main.go, src/backend/proxy_access.go).                     *)
(*                                                                         *)
(* Every handler reads a row, makes a few Docker calls and writes the row, *)
(* each a step of its own; nothing is locked in between, so requests       *)
(* interleave at every step, any call may fail, and the process may die.   *)
(* So may a write to SQLite: busy_timeout is set on one of the pool's      *)
(* connections, on the others a write that meets another fails at once,    *)
(* and most handlers ignore it.                                            *)
(* A unit is a database or a branch; its container is the one its creation *)
(* made, so that rows and containers are both indexed by unit.             *)
(***************************************************************************)
EXTENDS Naturals

CONSTANTS
    Databases,
    Branches,
    Parent,      \* Branches -> Databases: database_id
    Names,       \* of branches
    Requests,
    NoUnit, NoName,
    MaxCrashes   \* bound

ASSUME UnitsAssumption ==
    /\ Databases \cap Branches = {}
    /\ NoUnit \notin Databases \cup Branches
    /\ Parent \in [Branches -> Databases]
ASSUME NamesAssumption == NoName \notin Names
ASSUME BoundAssumption == MaxCrashes \in Nat

Units == Databases \cup Branches

VARIABLES
    row,        \* Units -> the status in its row, or "none"
    container,  \* Units -> its container's state, or "none"
    name,       \* Branches -> its name
    default,    \* the branches with is_default
    used,       \* the units ever created: ids and container names are fresh
    req,        \* Requests -> the handler that runs, and how far it is
    booting,    \* the databases provisionExistingDatabaseProxyAccess has not seen yet
    bootFailed, \* it failed for one of them
    deleted,    \* history: databases whose deletion was answered with success
    broken,     \* history: units left by a failed statement or a process that died
    crashes     \* the times the process died

rows == <<row, name, default>>
boot == <<booting, bootFailed>>
history == <<deleted, broken>>
vars == <<row, container, name, default, used, req, booting, bootFailed, deleted, broken,
          crashes>>

Idle == [op |-> "none", unit |-> NoUnit, at |-> "idle", name |-> NoName, list |-> {}, cur |-> NoUnit,
         seen |-> "none"]

Init ==
    /\ row = [u \in Units |-> "none"]
    /\ container = [u \in Units |-> "none"]
    /\ name = [b \in Branches |-> NoName]
    /\ default = {}
    /\ used = {}
    /\ req = [r \in Requests |-> Idle]
    /\ booting = Databases
    /\ bootFailed = FALSE
    /\ deleted = {}
    /\ broken = {}
    /\ crashes = 0

BranchesOf(d) == {b \in Branches : Parent[b] = d}
Exists(u) == row[u] # "none"

(* A handler of operation op starts, on a row that exists where it must.   *)
Serving == booting = {} /\ ~bootFailed
Begin(r, op, u, stage) ==
    /\ Serving
    /\ req[r].at = "idle"
    /\ req' = [req EXCEPT ![r] = [Idle EXCEPT !.op = op, !.unit = u, !.at = stage]]
    /\ UNCHANGED <<rows, container, boot, history, crashes>>

At(r, stage) == req[r].at = stage
Go(r, stage) == req' = [req EXCEPT ![r].at = stage]
Return(r) == req' = [req EXCEPT ![r] = Idle]

-----------------------------------------------------------------------------
(* Creation. *)

CreateDatabase(r, d) ==
    /\ d \notin used
    /\ used' = used \cup {d}
    /\ Begin(r, "create", d, "make")

(* POST branches: the database exists and no branch of it has the name.    *)
CreateBranch(r, b, n) ==
    /\ Serving
    /\ At(r, "idle")
    /\ b \notin used
    /\ Exists(Parent[b])
    /\ ~\E c \in BranchesOf(Parent[b]) : Exists(c) /\ name[c] = n
    /\ used' = used \cup {b}
    /\ req' = [req EXCEPT ![r] = [Idle EXCEPT !.op = "create", !.unit = b, !.at = "make", !.name = n]]
    /\ UNCHANGED <<rows, container, boot, history, crashes>>

MakeContainer(r) ==
    LET u == req[r].unit IN
    /\ At(r, "make")
    /\ \/ /\ container' = [container EXCEPT ![u] = "down"]
          /\ Go(r, "launch")
       \/ Return(r) /\ UNCHANGED container
    /\ UNCHANGED <<rows, used, boot, history, crashes>>

Launch(r) ==
    LET u == req[r].unit IN
    /\ At(r, "launch")
    /\ \/ /\ container' = [container EXCEPT ![u] = "up"]
          /\ Go(r, "insert")
       \/ Go(r, "discard") /\ UNCHANGED container
    /\ UNCHANGED <<rows, used, boot, history, crashes>>

(* After a failed INSERT the container of a database is left behind, that  *)
(* of a branch is removed.                                                 *)
Insert(r) ==
    LET u == req[r].unit IN
    /\ At(r, "insert")
    /\ \/ /\ row' = [row EXCEPT ![u] = "up"]
          /\ name' = IF u \in Branches THEN [name EXCEPT ![u] = req[r].name] ELSE name
          /\ IF u \in Branches THEN Return(r) ELSE Go(r, "provision")
          /\ UNCHANGED broken
       \/ /\ IF u \in Branches THEN Go(r, "discard") /\ UNCHANGED broken
                               ELSE Return(r) /\ broken' = broken \cup {u}
          /\ UNCHANGED <<row, name>>
    /\ UNCHANGED <<container, default, used, boot, deleted, crashes>>

Discard(r) ==
    /\ At(r, "discard")
    /\ \/ container' = [container EXCEPT ![req[r].unit] = "none"] /\ UNCHANGED broken
       \/ broken' = broken \cup {req[r].unit} /\ UNCHANGED container
    /\ Return(r)
    /\ UNCHANGED <<rows, used, boot, deleted, crashes>>

-----------------------------------------------------------------------------
(* Provisioning of the proxy role, by creation, start and restart: the row *)
(* is read again and the server asked over until it is ready.              *)

Provision(r) ==
    LET d == req[r].unit IN
    /\ At(r, "provision")
    /\ \/ /\ Exists(d) /\ container[d] = "up"
          /\ Go(r, "status")
       \/ IF req[r].op = "create" THEN Go(r, "undo") ELSE Return(r)
    /\ UNCHANGED <<rows, container, used, boot, history, crashes>>

(* Mutant of Undo: the row of a database that cannot be used stays. *)
KeepRow(r) ==
    /\ At(r, "undo")
    /\ Go(r, "discard")
    /\ UNCHANGED <<rows, container, used, boot, history, crashes>>

Undo(r) ==
    /\ At(r, "undo")
    /\ \/ row' = [row EXCEPT ![req[r].unit] = "none"] /\ UNCHANGED broken
       \/ broken' = broken \cup {req[r].unit} /\ UNCHANGED row
    /\ Go(r, "discard")
    /\ UNCHANGED <<name, default, container, used, boot, deleted, crashes>>

-----------------------------------------------------------------------------
(* Start, stop and restart. *)

Control(r, op, u) ==
    /\ Exists(u)
    /\ op = "restart" => u \in Databases
    /\ Begin(r, op, u, "docker")
    /\ UNCHANGED used

DockerCall(r) ==
    LET u == req[r].unit
        op == req[r].op IN
    /\ At(r, "docker")
    /\ \/ /\ container[u] # "none"
          /\ container' = [container EXCEPT ![u] = IF op = "stop" THEN "down" ELSE "up"]
          /\ Go(r, IF op # "stop" /\ u \in Databases THEN "provision" ELSE "status")
       \/ Return(r) /\ UNCHANGED container
    /\ UNCHANGED <<rows, used, boot, history, crashes>>

(* An UPDATE whose error is ignored: the row changes if it is still there, *)
(* and if SQLite was not busy.                                             *)
WriteStatus(u, status) ==
    row' \in {row} \cup (IF Exists(u) THEN {[row EXCEPT ![u] = status]} ELSE {})

SetStatus(r) ==
    /\ At(r, "status")
    /\ IF req[r].op = "create" THEN UNCHANGED row
       ELSE WriteStatus(req[r].unit, IF req[r].op = "stop" THEN "down" ELSE "up")
    /\ Return(r)
    /\ UNCHANGED <<name, default, container, used, boot, history, crashes>>

(* GET databases, of one or all: the row is read, the container inspected, *)
(* and the row corrected if they differed.                                 *)
ReadRow(r, d) ==
    /\ Serving
    /\ At(r, "idle")
    /\ Exists(d)
    /\ req' = [req EXCEPT ![r] = [Idle EXCEPT !.op = "read", !.unit = d, !.at = "inspect", !.seen = row[d]]]
    /\ UNCHANGED <<rows, container, used, boot, history, crashes>>

InspectContainer(r) ==
    LET now == container[req[r].unit] IN
    /\ At(r, "inspect")
    /\ \/ /\ now \notin {"none", req[r].seen}
          /\ req' = [req EXCEPT ![r].at = "correct", ![r].seen = now]
       \/ Return(r)
    /\ UNCHANGED <<rows, container, used, boot, history, crashes>>

CorrectStatus(r) ==
    /\ At(r, "correct")
    /\ WriteStatus(req[r].unit, req[r].seen)
    /\ Return(r)
    /\ UNCHANGED <<name, default, container, used, boot, history, crashes>>

(* The page of all containers starts and stops them past every row. *)
ToggleContainer(u) ==
    /\ Serving
    /\ container[u] # "none"
    /\ container' = [container EXCEPT ![u] = IF @ = "up" THEN "down" ELSE "up"]
    /\ UNCHANGED <<rows, used, req, boot, history, crashes>>

-----------------------------------------------------------------------------
(* Deletion: the containers of a database and its branches, one after the  *)
(* other and whether or not Docker obeys, then the rows.                   *)

DeleteDatabase(r, d) ==
    /\ Serving
    /\ At(r, "idle")
    /\ Exists(d)
    /\ req' = [req EXCEPT ![r] = [Idle EXCEPT !.op = "delete", !.unit = d, !.at = "sweep",
                                  !.list = {d} \cup {b \in BranchesOf(d) : Exists(b)}]]
    /\ UNCHANGED <<rows, container, used, boot, history, crashes>>

DeleteBranch(r, b) ==
    /\ Serving
    /\ At(r, "idle")
    /\ Exists(b)
    /\ req' = [req EXCEPT ![r] = [Idle EXCEPT !.op = "delete", !.unit = b, !.at = "sweep", !.list = {b}]]
    /\ UNCHANGED <<rows, container, used, boot, history, crashes>>

StopListed(r, u) ==
    /\ At(r, "sweep")
    /\ u \in req[r].list
    /\ req[r].unit \in req[r].list => u = req[r].unit
    /\ container' \in {container, [container EXCEPT ![u] = IF @ = "up" THEN "down" ELSE @]}
    /\ req' = [req EXCEPT ![r].at = "force", ![r].cur = u]
    /\ UNCHANGED <<rows, used, boot, history, crashes>>

(* Mutant of RemoveListed: without Force a running container stays. *)
RemoveStopped(r) ==
    LET u == req[r].cur IN
    /\ At(r, "force")
    /\ container' = [container EXCEPT ![u] = IF @ = "up" THEN @ ELSE "none"]
    /\ req' = [req EXCEPT ![r].at = "sweep", ![r].list = @ \ {u}, ![r].cur = NoUnit]
    /\ UNCHANGED <<rows, used, boot, history, crashes>>

RemoveListed(r) ==
    LET u == req[r].cur IN
    /\ At(r, "force")
    /\ \/ container' = [container EXCEPT ![u] = "none"] /\ UNCHANGED broken
       \/ broken' = broken \cup {u} /\ UNCHANGED container
    /\ req' = [req EXCEPT ![r].at = "sweep", ![r].list = @ \ {u}, ![r].cur = NoUnit]
    /\ UNCHANGED <<rows, used, boot, deleted, crashes>>

(* DELETE FROM branches, by database or by id. *)
DropBranches(r) ==
    LET u == req[r].unit
        gone == IF u \in Databases THEN BranchesOf(u) ELSE {u} IN
    /\ At(r, "sweep")
    /\ req[r].list = {}
    /\ \/ /\ row' = [x \in Units |-> IF x \in gone THEN "none" ELSE row[x]]
          /\ name' = [b \in Branches |-> IF b \in gone THEN NoName ELSE name[b]]
          /\ default' = default \ gone
          /\ UNCHANGED broken
       \/ broken' = broken \cup gone /\ UNCHANGED rows
    /\ IF u \in Databases THEN Go(r, "drop") ELSE Return(r)
    /\ UNCHANGED <<container, used, boot, deleted, crashes>>

DropDatabase(r) ==
    LET d == req[r].unit IN
    /\ At(r, "drop")
    /\ \/ /\ row' = [row EXCEPT ![d] = "none"]
          /\ deleted' = deleted \cup {d}
          /\ UNCHANGED broken
       \/ /\ broken' = broken \cup {d} \cup BranchesOf(d)
          /\ UNCHANGED <<row, deleted>>
    /\ Return(r)
    /\ UNCHANGED <<name, default, container, used, boot, crashes>>

-----------------------------------------------------------------------------
(* Switching the default branch takes two UPDATEs. *)

Switch(r, b) ==
    /\ Exists(b)
    /\ Begin(r, "switch", b, "clear")
    /\ UNCHANGED used

ClearDefault(r) ==
    /\ At(r, "clear")
    /\ default' \in {default, default \ BranchesOf(Parent[req[r].unit])}
    /\ Go(r, "set")
    /\ UNCHANGED <<row, name, container, used, boot, history, crashes>>

(* Mutant of SetDefault: an upsert. *)
UpsertDefault(r) ==
    /\ At(r, "set")
    /\ default' = default \cup {req[r].unit}
    /\ Return(r)
    /\ UNCHANGED <<row, name, container, used, boot, history, crashes>>

SetDefault(r) ==
    LET b == req[r].unit IN
    /\ At(r, "set")
    /\ default' \in {default} \cup (IF Exists(b) THEN {default \cup {b}} ELSE {})
    /\ Return(r)
    /\ UNCHANGED <<row, name, container, used, boot, history, crashes>>

-----------------------------------------------------------------------------
(* A new process looks at every database before it serves, and gives up if *)
(* one of them is running but cannot be provisioned.                       *)

Visit(d) ==
    /\ d \in booting
    /\ booting' = booting \ {d}
    /\ IF Exists(d) /\ container[d] = "up"
       THEN /\ WriteStatus(d, "up")
            /\ bootFailed' \in {bootFailed, TRUE}
       ELSE UNCHANGED <<row, bootFailed>>
    /\ UNCHANGED <<name, default, container, used, req, history, crashes>>

(* os.Exit(1), and the container's restart policy. *)
ExitAndRestart ==
    /\ booting = {} /\ bootFailed
    /\ booting' = Databases
    /\ bootFailed' = FALSE
    /\ UNCHANGED <<rows, container, used, req, history, crashes>>

WorksOn(r, u) ==
    /\ req[r].at # "idle"
    /\ \/ u = req[r].unit
       \/ u \in Branches /\ Parent[u] = req[r].unit /\ req[r].op = "delete"

Crash ==
    /\ crashes < MaxCrashes
    /\ crashes' = crashes + 1
    /\ req' = [r \in Requests |-> Idle]
    /\ booting' = Databases
    /\ bootFailed' = FALSE
    /\ broken' = broken \cup {u \in Units : \E r \in Requests : WorksOn(r, u)}
    /\ UNCHANGED <<rows, container, used, deleted>>

-----------------------------------------------------------------------------
Accept(r) ==
    \/ \E d \in Databases : CreateDatabase(r, d) \/ DeleteDatabase(r, d) \/ ReadRow(r, d)
    \/ \E b \in Branches : DeleteBranch(r, b) \/ Switch(r, b) \/ \E n \in Names : CreateBranch(r, b, n)
    \/ \E u \in Units, op \in {"start", "stop", "restart"} : Control(r, op, u)

Step(r) ==
    \/ MakeContainer(r) \/ Launch(r) \/ Insert(r) \/ Discard(r)
    \/ Provision(r) \/ Undo(r) \/ DockerCall(r) \/ SetStatus(r)
    \/ InspectContainer(r) \/ CorrectStatus(r)
    \/ \E u \in Units : StopListed(r, u)
    \/ RemoveListed(r) \/ DropBranches(r) \/ DropDatabase(r)
    \/ ClearDefault(r) \/ SetDefault(r)

Next ==
    \/ \E r \in Requests : Accept(r) \/ Step(r)
    \/ \E u \in Units : ToggleContainer(u)
    \/ \E d \in Databases : Visit(d)
    \/ ExitAndRestart \/ Crash

Spec == Init /\ [][Next]_vars

-----------------------------------------------------------------------------
(* Properties. *)

TypeOK ==
    /\ row \in [Units -> {"none", "up", "down"}]
    /\ container \in [Units -> {"none", "up", "down"}]
    /\ name \in [Branches -> Names \cup {NoName}]
    /\ default \subseteq {b \in Branches : Exists(b)}
    /\ used \subseteq Units
    /\ req \in [Requests ->
          [op : {"none", "create", "start", "stop", "restart", "delete", "switch", "read"},
           unit : Units \cup {NoUnit},
           at : {"idle", "make", "launch", "insert", "discard", "provision", "undo", "docker",
                 "status", "inspect", "correct", "sweep", "force", "drop", "clear", "set"},
           name : Names \cup {NoName}, list : SUBSET Units, cur : Units \cup {NoUnit},
           seen : {"none", "up", "down"}]]
    /\ booting \subseteq Databases
    /\ bootFailed \in BOOLEAN
    /\ deleted \subseteq Databases
    /\ broken \subseteq Units
    /\ crashes \in 0..MaxCrashes

Creating(u) == \E r \in Requests : req[r].op = "create" /\ req[r].unit = u
Deleting(u) == \E r \in Requests : req[r].op = "delete" /\ WorksOn(r, u)

(* A row whose container is gone is one a deletion still works on, or one  *)
(* that a failed or interrupted request left: the handlers remove          *)
(* containers first and rows last, the creation that fails the other way.  *)
RowHasContainer ==
    \A u \in Units : Exists(u) /\ container[u] = "none" => u \in broken \/ Deleting(u)

(* A container without a row is being created, or was left by a failed     *)
(* INSERT or a process that died; or it is that of a branch whose database *)
(* was deleted while the branch was being created.                         *)
ContainerHasRow ==
    \A u \in Units :
        container[u] # "none" /\ ~Exists(u) =>
            \/ u \in broken \/ Creating(u)
            \/ u \in Branches /\ (~Exists(Parent[u]) \/ Deleting(Parent[u]))

(* The two together. *)
RowsMatchContainers == RowHasContainer /\ ContainerHasRow

(* A database whose deletion was answered with success stays deleted, row  *)
(* and, unless Docker would not remove it, container: whatever starts,     *)
(* restarts, creations and corrections still run on it.                    *)
DeletedStaysDeleted == \A d \in deleted : ~Exists(d) /\ (container[d] = "none" \/ d \in broken)

=============================================================================
