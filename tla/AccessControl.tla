---------------------------- MODULE AccessControl ----------------------------
(***************************************************************************)
(* Users, projects and who may use them (src/backend/main.go, db/users.go  *)
(* and auth/middleware.go).                                                *)
(*                                                                         *)
(* Every request is authenticated against the row of its user, goes        *)
(* through its handler's checks one query after the other, and writes at   *)
(* the end.  Nothing is locked in between: what a check has seen may be    *)
(* gone when the write comes.  The schema declares foreign keys, SQLite    *)
(* does not enforce them unless asked to, and nobody asks: it is up to the *)
(* handlers that no row refers to one that is gone.                        *)
(*                                                                         *)
(* A user stands for a row of users, an id that is never used twice, and   *)
(* for the email it is registered with.                                    *)
(***************************************************************************)
EXTENDS Naturals, Sequences, FiniteSets

CONSTANTS
    Users, Projects, Databases,
    Requests,
    None,        \* no row, no user
    Unassigned   \* project_id 0

ASSUME NamesAssumption == /\ None \notin Users /\ {None, Unassigned} \cap Projects = {}
                          /\ Databases \cap (Users \X Projects) = {}

VARIABLES
    users,      \* ids in users
    admins,     \* those with is_admin
    signedUp,   \* ids given out (AUTOINCREMENT)
    access,     \* user_project_access
    projects,   \* ids in projects
    started,    \* project ids given out
    home,       \* Databases -> project_id, or None without a row
    owner,      \* Databases -> owner_user_id, of a deleted row the last; None
                \* before the id is given out
    req,        \* Requests -> its handler and how far it is
    overlapped, \* history: two first registrations, two removals overlapped
    excused     \* history: references written while their target was being
                \* removed or was gone, and those SQLite refused to remove

accounts == <<users, admins, signedUp>>
projectVars == <<projects, started>>
databaseVars == <<home, owner>>
history == <<overlapped, excused>>
vars == <<users, admins, signedUp, access, projects, started,
          home, owner, req, overlapped, excused>>

(* The checks and writes of each handler, in their order.  Left out are    *)
(* the whitelist and the permissions: an administrator may change them at  *)
(* any time, and a request they refuse has done nothing.                   *)
Route ==
    [register   |-> <<"insert user">>,
     remove     |-> <<"count admins", "delete user">>,
     access     |-> <<"user and projects", "replace user's">>,
     members    |-> <<"project access", "replace project's">>,
     newProject |-> <<"insert project", "share project">>,
     delProject |-> <<"project access", "list databases", "sweep", "unshare", "drop project">>,
     create     |-> <<"may use project", "insert database">>,
     move       |-> <<"database access", "may use project", "update project">>,
     delete     |-> <<"database access", "sweep">>]

Idle == [op |-> "none", at |-> 0, user |-> None, admin |-> FALSE, who |-> None,
         proj |-> Unassigned, rows |-> {}, dbs |-> {}]

Init ==
    /\ users = {} /\ admins = {} /\ signedUp = {}
    /\ access = {}
    /\ projects = {} /\ started = {}
    /\ home = [d \in Databases |-> None]
    /\ owner = [d \in Databases |-> None]
    /\ req = [r \in Requests |-> Idle]
    /\ overlapped = {}
    /\ excused = {}

At(r, step) == req[r].op # "none" /\ Route[req[r].op][req[r].at] = step
Return(r) == req' = [req EXCEPT ![r] = Idle]

(* On to the next step, knowing no longer who asks where no step will ask. *)
Proceed(r) ==
    LET asked == req[r].op \in {"create", "move"} IN
    req' = [req EXCEPT ![r].at = @ + 1, ![r].user = IF asked THEN @ ELSE None,
                       ![r].admin = asked /\ @]

(* A query or a statement that SQLite refuses ends the request with an     *)
(* error, and so does the death of the process.                            *)
Refused(r) ==
    /\ req[r].op # "none"
    /\ Return(r)
    /\ UNCHANGED <<accounts, access, projectVars, databaseVars, history>>

(* A check: the handler goes on, or answers with an error. *)
Check(r, step, passes) ==
    /\ At(r, step)
    /\ IF passes THEN Proceed(r) ELSE Return(r)
    /\ UNCHANGED <<accounts, access, projectVars, databaseVars, history>>

-----------------------------------------------------------------------------
(* Requests arrive. *)

(* Mutant of Register: the first user is not counted. *)
RegisterTwo(r, u) ==
    /\ req[r].op = "none"
    /\ u \notin signedUp
    /\ ~\E q \in Requests : req[q].op = "register" /\ req[q].who = u
    /\ req' = [req EXCEPT ![r] = [Idle EXCEPT !.op = "register", !.at = 1, !.who = u,
                                              !.admin = (Cardinality(users) <= 1)]]
    /\ UNCHANGED <<accounts, access, projectVars, databaseVars, history>>

(* POST register, of the next id: HasAnyUser decides about the flag.       *)
Register(r, u) ==
    /\ req[r].op = "none"
    /\ u \notin signedUp
    /\ ~\E q \in Requests : req[q].op = "register" /\ req[q].who = u
    /\ req' = [req EXCEPT ![r] = [Idle EXCEPT !.op = "register", !.at = 1, !.who = u,
                                              !.admin = (users = {})]]
    /\ UNCHANGED <<accounts, access, projectVars, databaseVars, history>>

Begin(r, request) ==
    /\ req[r].op = "none"
    /\ req' = [req EXCEPT ![r] = [request EXCEPT !.at = 1]]
    /\ UNCHANGED <<accounts, access, projectVars, databaseVars, history>>

(* AuthMiddleware: the user of the session's JWT still exists; its flag is *)
(* read here, once.                                                        *)
Authenticate(r, u, request) ==
    /\ u \in users
    /\ Begin(r, [request EXCEPT !.user = u, !.admin = (u \in admins)])

(* The routes that are AdminOnly, and do not ask again who it was; nobody  *)
(* removes itself.                                                         *)
AskAdmin(r, u) ==
    /\ u \in admins
    /\ \/ \E v \in signedUp \ {u} : Begin(r, [Idle EXCEPT !.op = "remove", !.who = v])
       \/ \E v \in signedUp, S \in SUBSET started :
             Begin(r, [Idle EXCEPT !.op = "access", !.who = v, !.rows = {v} \X S])

AskAnyone(r, u) ==
    \/ Authenticate(r, u, [Idle EXCEPT !.op = "newProject"])
    \/ \E p \in started, op \in {"members", "delProject"} :
          Authenticate(r, u, [Idle EXCEPT !.op = op, !.proj = p])
    \/ \E p \in started \cup {Unassigned}, d \in Databases :
          \/ Authenticate(r, u, [Idle EXCEPT !.op = "create", !.proj = p])
          \/ home[d] # None /\ Authenticate(r, u, [Idle EXCEPT !.op = "move", !.proj = p, !.dbs = {d}])
    \/ \E d \in Databases : home[d] # None /\ Authenticate(r, u, [Idle EXCEPT !.op = "delete", !.dbs = {d}])

-----------------------------------------------------------------------------
(* The checks. *)

(* requireProjectAccess, UserCanAccessProject *)
CheckProjectAccess(r) ==
    Check(r, "project access", \/ req[r].admin
                               \/ <<req[r].user, req[r].proj>> \in access)

(* requireDatabaseAccess: by way of the project, or as the owner of a      *)
(* database that is in none.  An administrator is not asked for the row.   *)
CanAccess(u, d) ==
    \/ <<u, home[d]>> \in access
    \/ home[d] = Unassigned /\ owner[d] = u

CheckDatabaseAccess(r) ==
    Check(r, "database access", req[r].admin \/ \A d \in req[r].dbs : CanAccess(req[r].user, d))

(* The project of a new or moved database exists, and is the user's. *)
MayUseProject(r) ==
    Check(r, "may use project", \/ req[r].proj = Unassigned
                                \/ /\ req[r].proj \in projects
                                   /\ req[r].admin \/ <<req[r].user, req[r].proj>> \in access)

UserAndProjects(r) ==
    Check(r, "user and projects", /\ req[r].who \in users
                                  /\ \A row \in req[r].rows : row[2] \in projects)

(* Mutant of CountAdmins: no count. *)
CountNobody(r) == Check(r, "count admins", TRUE)

(* The user to be removed is there, and not the only administrator. *)
CountAdmins(r) ==
    Check(r, "count admins", /\ req[r].who \in users
                             /\ req[r].who \in admins => Cardinality(admins) > 1)

-----------------------------------------------------------------------------
(* The writes. *)

Others(r, step) == {q \in Requests \ {r} : At(q, step)}

(* A project that is gone, or that a deletion is done looking into. *)
Leaving(p, steps) ==
    \/ p \notin projects
    \/ \E q \in Requests : req[q].proj = p /\ \E step \in steps : At(q, step)

InsertUser(r) ==
    LET u == req[r].who IN
    /\ At(r, "insert user")
    /\ users' = users \cup {u}
    /\ signedUp' = signedUp \cup {u}
    /\ admins' = IF req[r].admin THEN admins \cup {u} ELSE admins
    /\ overlapped' = overlapped \cup
          {"registrations" : q \in IF users = {} THEN Others(r, "insert user") ELSE {}}
    /\ Return(r)
    /\ UNCHANGED <<access, projectVars, databaseVars, excused>>

(* Mutant of DeleteUser: the user's access rows stay. *)
DeleteUserOnly(r) ==
    LET u == req[r].who IN
    /\ At(r, "delete user")
    /\ users' = users \ {u} /\ admins' = admins \ {u}
    /\ overlapped' = overlapped \cup {"removals" : q \in Others(r, "delete user")}
    /\ Return(r)
    /\ UNCHANGED <<signedUp, access, projectVars, databaseVars, excused>>

(* DeleteUserByID, a transaction over three tables. *)
DeleteUser(r) ==
    LET u == req[r].who IN
    /\ At(r, "delete user")
    /\ users' = users \ {u} /\ admins' = admins \ {u}
    /\ access' = {row \in access : row[1] # u}
    /\ overlapped' = overlapped \cup {"removals" : q \in Others(r, "delete user")}
    /\ Return(r)
    /\ UNCHANGED <<signedUp, projectVars, databaseVars, excused>>

Astray(rows) == {row \in rows : row[1] \notin users \/ Leaving(row[2], {"drop project"})}

(* Rows replaced by others, in a transaction. *)
Replace(r, old, new) ==
    /\ access' = (access \ old) \cup new
    /\ excused' = (excused \ new) \cup Astray(new)
    /\ Return(r)
    /\ UNCHANGED <<accounts, projectVars, databaseVars, overlapped>>

(* SetUserProjectAccess *)
ReplaceUserAccess(r) ==
    /\ At(r, "replace user's")
    /\ Replace(r, {row \in access : row[1] = req[r].who}, req[r].rows)

(* SetProjectUsers, of ids that nobody has looked up. *)
ReplaceProjectUsers(r) ==
    /\ At(r, "replace project's")
    /\ \E S \in SUBSET Users :
          Replace(r, {row \in access : row[2] = req[r].proj}, S \X {req[r].proj})

InsertProject(r, p) ==
    /\ At(r, "insert project")
    /\ p \notin started
    /\ projects' = projects \cup {p}
    /\ started' = started \cup {p}
    /\ IF req[r].admin THEN Return(r)
       ELSE req' = [req EXCEPT ![r].at = @ + 1, ![r].proj = p]
    /\ UNCHANGED <<accounts, access, databaseVars, history>>

(* The creator's own row, a statement of its own. *)
ShareProject(r) ==
    /\ At(r, "share project")
    /\ Replace(r, {}, {<<req[r].user, req[r].proj>>})

(* DELETE project lists the databases, deletes each with everything it     *)
(* has, wherever it is by then, stops at one that is gone, and then deletes *)
(* access rows and the project.                                            *)
ListDatabases(r) ==
    /\ At(r, "list databases")
    /\ req' = [req EXCEPT ![r].at = @ + 1, ![r].dbs = {d \in Databases : home[d] = req[r].proj}]
    /\ UNCHANGED <<accounts, access, projectVars, databaseVars, history>>

(* deleteDatabaseResources *)
DeleteResources(r, d) ==
    /\ At(r, "sweep")
    /\ d \in req[r].dbs
    /\ home' = [home EXCEPT ![d] = None]
    /\ IF home[d] = None THEN Return(r) ELSE req' = [req EXCEPT ![r].dbs = @ \ {d}]
    /\ UNCHANGED <<accounts, access, projectVars, owner, history>>

Swept(r) ==
    /\ At(r, "sweep")
    /\ req[r].dbs = {}
    /\ IF req[r].op = "delete" THEN Return(r) ELSE Proceed(r)
    /\ UNCHANGED <<accounts, access, projectVars, databaseVars, history>>

(* An error of this statement is ignored, and the deletion goes on. *)
Unshare(r) ==
    LET gone == {row \in access : row[2] = req[r].proj} IN
    /\ At(r, "unshare")
    /\ \/ access' = access \ gone /\ UNCHANGED excused
       \/ excused' = excused \cup gone /\ UNCHANGED access
    /\ Proceed(r)
    /\ UNCHANGED <<accounts, projectVars, databaseVars, overlapped>>

DropProject(r) ==
    /\ At(r, "drop project")
    /\ projects' = projects \ {req[r].proj}
    /\ Return(r)
    /\ UNCHANGED <<accounts, access, started, databaseVars, history>>

Passing == {"sweep", "unshare", "drop project"}

(* POST databases: seconds of Docker calls before the INSERT. *)
InsertDatabase(r, d) ==
    LET p == req[r].proj IN
    /\ At(r, "insert database")
    /\ owner[d] = None
    /\ home' = [home EXCEPT ![d] = p]
    /\ owner' = [owner EXCEPT ![d] = req[r].user]
    /\ excused' = (excused \ {d}) \cup {x \in {d} : p \in Projects /\ Leaving(p, Passing)}
    /\ Return(r)
    /\ UNCHANGED <<accounts, access, projectVars, overlapped>>

(* PUT databases/:id/project, of a row that may be gone. *)
UpdateProject(r, d) ==
    LET p == req[r].proj IN
    /\ At(r, "update project")
    /\ d \in req[r].dbs
    /\ IF home[d] = None THEN UNCHANGED <<home, excused>>
       ELSE /\ home' = [home EXCEPT ![d] = p]
            /\ excused' = (excused \ {d}) \cup {x \in {d} : p \in Projects /\ Leaving(p, Passing)}
    /\ Return(r)
    /\ UNCHANGED <<accounts, access, projectVars, owner, overlapped>>

-----------------------------------------------------------------------------
Arrive(r) ==
    \E u \in Users : Register(r, u) \/ AskAdmin(r, u) \/ AskAnyone(r, u)

Checks(r) ==
    \/ CheckProjectAccess(r) \/ CheckDatabaseAccess(r) \/ MayUseProject(r)
    \/ UserAndProjects(r) \/ CountAdmins(r)

Writes(r) ==
    \/ InsertUser(r) \/ DeleteUser(r)
    \/ ReplaceUserAccess(r) \/ ReplaceProjectUsers(r)
    \/ \E p \in Projects : InsertProject(r, p)
    \/ ShareProject(r) \/ ListDatabases(r) \/ Swept(r) \/ Unshare(r) \/ DropProject(r)
    \/ \E d \in Databases : DeleteResources(r, d) \/ InsertDatabase(r, d) \/ UpdateProject(r, d)

Next == \E r \in Requests : Arrive(r) \/ Checks(r) \/ Writes(r) \/ Refused(r)

Spec == Init /\ [][Next]_vars

-----------------------------------------------------------------------------
(* Properties. *)

References == (Users \X Projects) \cup Databases

TypeOK ==
    /\ users \subseteq signedUp /\ admins \subseteq users /\ signedUp \subseteq Users
    /\ access \subseteq Users \X Projects
    /\ projects \subseteq started /\ started \subseteq Projects
    /\ home \in [Databases -> Projects \cup {Unassigned, None}]
    /\ owner \in [Databases -> Users \cup {None}]
    /\ \A d \in Databases : home[d] # None => owner[d] # None
    /\ req \in [Requests -> [op : DOMAIN Route \cup {"none"}, at : 0..5, user : Users \cup {None},
                             admin : BOOLEAN, who : Users \cup {None},
                             proj : Projects \cup {Unassigned},
                             rows : SUBSET (Users \X Projects), dbs : SUBSET Databases]]
    /\ overlapped \subseteq {"registrations", "removals"}
    /\ excused \subseteq References

(* "First user is Admin" (main.go:922), and nobody after it: there is one  *)
(* administrator at most, however users come and go, unless two requests   *)
(* had found no user before either of them inserted its own.               *)
OneAdmin == Cardinality(admins) <= 1 \/ "registrations" \in overlapped

(* "Cannot remove the last admin user" (main.go:1398): from the first      *)
(* registration on there is an administrator, unless two removals had both *)
(* counted before either was done.                                         *)
AdminRemains == signedUp # {} => admins # {} \/ "removals" \in overlapped

(* The foreign keys that nothing enforces: an access row and the project   *)
(* of a database refer to rows that exist, unless they were    *)
(* written when the row they name was gone or on its way out.  What was    *)
(* there before a removal began does not outlive it.                       *)
ReferencesResolve ==
    /\ \A row \in access \ excused : row[1] \in users /\ row[2] \in projects
    /\ \A d \in Databases \ excused : home[d] \in Projects => home[d] \in projects

=============================================================================
