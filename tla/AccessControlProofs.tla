------------------------- MODULE AccessControlProofs -------------------------
(***************************************************************************)
(* Administrators and references, for any number of users, projects,       *)
(* databases and overlapping requests.                                     *)
(***************************************************************************)
EXTENDS AccessControl, FiniteSetTheorems, TLAPS

Ops == {"register", "remove", "access", "members", "newProject", "delProject",
        "create", "move", "delete"}
Recs == [op : Ops \cup {"none"}, at : 0..5, user : Users \cup {None},
         admin : BOOLEAN, who : Users \cup {None}, proj : Projects \cup {Unassigned},
         rows : SUBSET (Users \X Projects), dbs : SUBSET Databases]

(* The tables, and the two history variables.                              *)
Tables ==
    /\ users \subseteq signedUp /\ admins \subseteq users /\ signedUp \subseteq Users
    /\ access \subseteq Users \X Projects
    /\ projects \subseteq started /\ started \subseteq Projects
    /\ home \in [Databases -> Projects \cup {Unassigned, None}]
    /\ owner \in [Databases -> Users \cup {None}]
    /\ \A d \in Databases : home[d] # None => owner[d] # None
    /\ overlapped \subseteq {"registrations", "removals"}
    /\ excused \subseteq References

(* A request is idle or somewhere on its route.                            *)
OnRoute(q) ==
    \/ q.op = "none"
    \/ q.op = "register" /\ q.at = 1
    \/ q.op = "remove" /\ q.at \in {1, 2}
    \/ q.op = "access" /\ q.at \in {1, 2}
    \/ q.op = "members" /\ q.at \in {1, 2}
    \/ q.op = "newProject" /\ q.at \in {1, 2}
    \/ q.op = "delProject" /\ q.at \in {1, 2, 3, 4, 5}
    \/ q.op = "create" /\ q.at \in {1, 2}
    \/ q.op = "move" /\ q.at \in {1, 2, 3}
    \/ q.op = "delete" /\ q.at \in {1, 2}

(* Who and what a request is about.                                        *)
About(q) ==
    /\ q.op = "register" => q.who \in Users /\ q.who \notin signedUp
    /\ q.op = "remove" => q.who \in signedUp
    /\ q.op \in {"newProject", "create"} => q.user \in Users
    /\ q.op \in {"delProject", "members"} \/ (q.op = "newProject" /\ q.at = 2) => q.proj \in Projects

(* What a registration has seen: no user, and then there is none yet, or   *)
(* one.  The exception is a registration that overlaps.                    *)
FirstOrNot(q) ==
    q.op = "register" =>
        /\ q.admin = FALSE => signedUp # {}
        /\ q.admin = TRUE /\ "registrations" \notin overlapped => users = {}

(* A removal that has counted leaves an administrator.                     *)
Counted(q) ==
    q.op = "remove" /\ q.at = 2 /\ "removals" \notin overlapped /\ q.who \in admins
        => \E v \in admins : v # q.who

(* What a deletion of a project has seen to: the databases that are still  *)
(* to be deleted, or excused, and then the rows of access.                 *)
SeenTo(q) ==
    q.op = "delProject" =>
        /\ q.at = 5 => \A row \in access : row[2] = q.proj => row \in excused
        /\ q.at \in {3, 4, 5} => \A d \in Databases :
              home[d] = q.proj => d \in excused \/ (q.at = 3 /\ d \in q.dbs)

Sound(q) == OnRoute(q) /\ About(q) /\ FirstOrNot(q) /\ Counted(q) /\ SeenTo(q)

(* Ids are given out once.                                                 *)
IdsDiffer ==
    \A r, q \in Requests :
        r # q /\ req[r].op = "register" /\ req[q].op = "register" => req[r].who # req[q].who

AdminsAlike == "registrations" \notin overlapped => \A u, v \in admins : u = v

IInv ==
    /\ Tables
    /\ req \in [Requests -> Recs]
    /\ \A r \in Requests : Sound(req[r])
    /\ IdsDiffer
    /\ AdminsAlike
    /\ AdminRemains
    /\ ReferencesResolve

-----------------------------------------------------------------------------
LEMMA OpsOfRoute == DOMAIN Route = Ops
  BY DEF Route, Ops

LEMMA Stages ==
    /\ Route["register"][1] = "insert user"
    /\ Route["remove"][1] = "count admins" /\ Route["remove"][2] = "delete user"
    /\ Route["access"][1] = "user and projects" /\ Route["access"][2] = "replace user's"
    /\ Route["members"][1] = "project access" /\ Route["members"][2] = "replace project's"
    /\ Route["newProject"][1] = "insert project" /\ Route["newProject"][2] = "share project"
    /\ Route["delProject"][1] = "project access" /\ Route["delProject"][2] = "list databases"
    /\ Route["delProject"][3] = "sweep" /\ Route["delProject"][4] = "unshare"
    /\ Route["delProject"][5] = "drop project"
    /\ Route["create"][1] = "may use project" /\ Route["create"][2] = "insert database"
    /\ Route["move"][1] = "database access" /\ Route["move"][2] = "may use project"
    /\ Route["move"][3] = "update project"
    /\ Route["delete"][1] = "database access" /\ Route["delete"][2] = "sweep"
  BY DEF Route

(* Where a request is, by the name of its step.                            *)
LEMMA Where ==
    ASSUME NEW r \in Requests, OnRoute(req[r])
    PROVE  /\ At(r, "insert user") <=> req[r].op = "register"
           /\ At(r, "count admins") <=> req[r].op = "remove" /\ req[r].at = 1
           /\ At(r, "delete user") <=> req[r].op = "remove" /\ req[r].at = 2
           /\ At(r, "user and projects") <=> req[r].op = "access" /\ req[r].at = 1
           /\ At(r, "replace user's") <=> req[r].op = "access" /\ req[r].at = 2
           /\ At(r, "project access") <=> req[r].op \in {"members", "delProject"} /\ req[r].at = 1
           /\ At(r, "replace project's") <=> req[r].op = "members" /\ req[r].at = 2
           /\ At(r, "insert project") <=> req[r].op = "newProject" /\ req[r].at = 1
           /\ At(r, "share project") <=> req[r].op = "newProject" /\ req[r].at = 2
           /\ At(r, "list databases") <=> req[r].op = "delProject" /\ req[r].at = 2
           /\ At(r, "sweep") <=> \/ req[r].op = "delProject" /\ req[r].at = 3
                                 \/ req[r].op = "delete" /\ req[r].at = 2
           /\ At(r, "unshare") <=> req[r].op = "delProject" /\ req[r].at = 4
           /\ At(r, "drop project") <=> req[r].op = "delProject" /\ req[r].at = 5
           /\ At(r, "may use project") <=> \/ req[r].op = "create" /\ req[r].at = 1
                                           \/ req[r].op = "move" /\ req[r].at = 2
           /\ At(r, "insert database") <=> req[r].op = "create" /\ req[r].at = 2
           /\ At(r, "database access") <=> req[r].op \in {"move", "delete"} /\ req[r].at = 1
           /\ At(r, "update project") <=> req[r].op = "move" /\ req[r].at = 3
<1>1. CASE req[r].op = "none"
  BY <1>1 DEF At
<1>2. CASE req[r].op = "register"
  <2>1. req[r].at \in {1}
    BY <1>2 DEF OnRoute
  <2>2. CASE req[r].at = 1
    BY <1>2, <2>2, Stages DEF At
  <2> QED
    BY <2>1, <2>2
<1>3. CASE req[r].op = "remove"
  <2>1. req[r].at \in {1, 2}
    BY <1>3 DEF OnRoute
  <2>2. CASE req[r].at = 1
    BY <1>3, <2>2, Stages DEF At
  <2>3. CASE req[r].at = 2
    BY <1>3, <2>3, Stages DEF At
  <2> QED
    BY <2>1, <2>2, <2>3
<1>4. CASE req[r].op = "access"
  <2>1. req[r].at \in {1, 2}
    BY <1>4 DEF OnRoute
  <2>2. CASE req[r].at = 1
    BY <1>4, <2>2, Stages DEF At
  <2>3. CASE req[r].at = 2
    BY <1>4, <2>3, Stages DEF At
  <2> QED
    BY <2>1, <2>2, <2>3
<1>5. CASE req[r].op = "members"
  <2>1. req[r].at \in {1, 2}
    BY <1>5 DEF OnRoute
  <2>2. CASE req[r].at = 1
    BY <1>5, <2>2, Stages DEF At
  <2>3. CASE req[r].at = 2
    BY <1>5, <2>3, Stages DEF At
  <2> QED
    BY <2>1, <2>2, <2>3
<1>6. CASE req[r].op = "newProject"
  <2>1. req[r].at \in {1, 2}
    BY <1>6 DEF OnRoute
  <2>2. CASE req[r].at = 1
    BY <1>6, <2>2, Stages DEF At
  <2>3. CASE req[r].at = 2
    BY <1>6, <2>3, Stages DEF At
  <2> QED
    BY <2>1, <2>2, <2>3
<1>7. CASE req[r].op = "delProject"
  <2>1. req[r].at \in {1, 2, 3, 4, 5}
    BY <1>7 DEF OnRoute
  <2>2. CASE req[r].at = 1
    BY <1>7, <2>2, Stages DEF At
  <2>3. CASE req[r].at = 2
    BY <1>7, <2>3, Stages DEF At
  <2>4. CASE req[r].at = 3
    BY <1>7, <2>4, Stages DEF At
  <2>5. CASE req[r].at = 4
    BY <1>7, <2>5, Stages DEF At
  <2>6. CASE req[r].at = 5
    BY <1>7, <2>6, Stages DEF At
  <2> QED
    BY <2>1, <2>2, <2>3, <2>4, <2>5, <2>6
<1>8. CASE req[r].op = "create"
  <2>1. req[r].at \in {1, 2}
    BY <1>8 DEF OnRoute
  <2>2. CASE req[r].at = 1
    BY <1>8, <2>2, Stages DEF At
  <2>3. CASE req[r].at = 2
    BY <1>8, <2>3, Stages DEF At
  <2> QED
    BY <2>1, <2>2, <2>3
<1>9. CASE req[r].op = "move"
  <2>1. req[r].at \in {1, 2, 3}
    BY <1>9 DEF OnRoute
  <2>2. CASE req[r].at = 1
    BY <1>9, <2>2, Stages DEF At
  <2>3. CASE req[r].at = 2
    BY <1>9, <2>3, Stages DEF At
  <2>4. CASE req[r].at = 3
    BY <1>9, <2>4, Stages DEF At
  <2> QED
    BY <2>1, <2>2, <2>3, <2>4
<1>10. CASE req[r].op = "delete"
  <2>1. req[r].at \in {1, 2}
    BY <1>10 DEF OnRoute
  <2>2. CASE req[r].at = 1
    BY <1>10, <2>2, Stages DEF At
  <2>3. CASE req[r].at = 2
    BY <1>10, <2>3, Stages DEF At
  <2> QED
    BY <2>1, <2>2, <2>3
<1> QED
  BY <1>1, <1>2, <1>3, <1>4, <1>5, <1>6, <1>7, <1>8, <1>9, <1>10 DEF OnRoute

LEMMA IdleSound == Idle \in Recs /\ Idle.op = "none" /\ Sound(Idle)
  BY DEF Idle, Recs, Sound, OnRoute, About, FirstOrNot, Counted, SeenTo

LEMMA InitOK == Init => IInv
<1> SUFFICES ASSUME Init PROVE IInv
  OBVIOUS
<1>1. Tables
  BY DEF Init, Tables
<1>2. req \in [Requests -> Recs] /\ (\A r \in Requests : Sound(req[r])) /\ IdsDiffer
  BY IdleSound DEF Init, IdsDiffer
<1>3. AdminsAlike /\ AdminRemains /\ ReferencesResolve
  BY NamesAssumption DEF Init, AdminsAlike, AdminRemains, ReferencesResolve
<1> QED
  BY <1>1, <1>2, <1>3 DEF IInv

-----------------------------------------------------------------------------
(* Steps that write nothing but their own record.                          *)
LEMMA RecordStep ==
    ASSUME IInv, NEW r \in Requests, NEW q \in Recs, req' = [req EXCEPT ![r] = q],
           UNCHANGED <<users, admins, signedUp, access, projects, started, home, owner,
                       overlapped, excused>>,
           Sound(q),
           q.op = "register" =>
              \A x \in Requests \ {r} : req[x].op = "register" => req[x].who # q.who
    PROVE  IInv'
<1>1. Tables' /\ AdminsAlike' /\ AdminRemains' /\ ReferencesResolve'
  BY DEF IInv, Tables, AdminsAlike, AdminRemains, ReferencesResolve
<1>2. req' \in [Requests -> Recs] /\ \A x \in Requests : req'[x] = IF x = r THEN q ELSE req[x]
  BY DEF IInv
<1>3. \A x \in Requests : Sound(req[x])'
  <2>1. SUFFICES ASSUME NEW x \in Requests PROVE Sound(req[x])'
    OBVIOUS
  <2>2. PICK rec : rec = req'[x] /\ Sound(rec)
    BY <1>2 DEF IInv
  <2>3. Sound(rec)'
    BY <2>2 DEF Sound, OnRoute, About, FirstOrNot, Counted, SeenTo
  <2> QED
    BY <2>2, <2>3
<1>4. IdsDiffer'
  BY <1>2 DEF IInv, IdsDiffer
<1> QED
  BY <1>1, <1>2, <1>3, <1>4 DEF IInv

LEMMA ReturnStep ==
    ASSUME IInv, NEW r \in Requests, Return(r),
           UNCHANGED <<users, admins, signedUp, access, projects, started, home, owner,
                       overlapped, excused>>
    PROVE  IInv'
  BY IdleSound, RecordStep DEF Return

(* A request that arrives.                                                 *)
LEMMA ArriveStep == ASSUME IInv, NEW r \in Requests, Arrive(r) PROVE IInv'
<1>1. Tables
  BY DEF IInv
<1>2. ASSUME NEW u \in Users, Register(r, u) PROVE IInv'
  <2>1. PICK b \in BOOLEAN : b = TRUE <=> users = {}
    OBVIOUS
  <2> DEFINE q == [Idle EXCEPT !.op = "register", !.at = 1, !.who = u, !.admin = b]
  <2>2. /\ u \notin signedUp
        /\ \A x \in Requests : req[x].op = "register" => req[x].who # u
        /\ UNCHANGED <<users, admins, signedUp, access, projects, started, home, owner, overlapped, excused>>
    BY <1>2 DEF Register, accounts, projectVars, databaseVars, history
  <2>3. req' = [req EXCEPT ![r] = q]
    <3>1. b = (users = {})
      BY <2>1
    <3> QED
      BY <1>2, <3>1, Zenon DEF Register
  <2>4. q \in Recs /\ q.op = "register" /\ q.at = 1 /\ q.who = u /\ q.admin = b
    <3>1. \A at \in 0..5 : LET x == [Idle EXCEPT !.op = "register", !.at = at, !.who = u, !.admin = b]
                           IN  x \in Recs /\ x.op = "register" /\ x.at = at /\ x.who = u /\ x.admin = b
      BY <2>1, IdleSound DEF Recs, Ops
    <3> QED
      BY <3>1
  <2> HIDE DEF q
  <2>5. Sound(q)
    BY <1>1, <2>1, <2>2, <2>4 DEF Sound, OnRoute, About, FirstOrNot, Counted, SeenTo, Tables
  <2> QED
    BY <2>2, <2>3, <2>4, <2>5, RecordStep
(* Any other request is at its first step.                                 *)
<1>3. ASSUME NEW request \in Recs, Begin(r, request),
             request.op \in Ops \ {"register"},
             request.op = "remove" => request.who \in signedUp,
             request.op \in {"newProject", "create"} => request.user \in Users,
             request.op \in {"delProject", "members"} => request.proj \in Projects
      PROVE  IInv'
  <2> DEFINE q == [request EXCEPT !.at = 1]
  <2>1. /\ req' = [req EXCEPT ![r] = q]
        /\ UNCHANGED <<users, admins, signedUp, access, projects, started, home, owner, overlapped, excused>>
    BY <1>3 DEF Begin, accounts, projectVars, databaseVars, history
  <2>2. q \in Recs /\ q.op = request.op /\ q.at = 1 /\ q.who = request.who /\ q.user = request.user
        /\ q.proj = request.proj
    BY <1>3 DEF Recs
  <2>3. OnRoute(q)
    BY <1>3, <2>2 DEF OnRoute, Ops
  <2>4. Sound(q)
    BY <1>3, <2>2, <2>3 DEF Sound, About, FirstOrNot, Counted, SeenTo
  <2> HIDE DEF q
  <2> QED
    BY <1>3, <2>1, <2>2, <2>4, RecordStep
<1>4. Idle \in Recs
  BY IdleSound
<1>5. ASSUME NEW u \in Users, AskAdmin(r, u) PROVE IInv'
  <2>1. CASE \E v \in signedUp \ {u} : Begin(r, [Idle EXCEPT !.op = "remove", !.who = v])
    <3>1. PICK v \in signedUp : Begin(r, [Idle EXCEPT !.op = "remove", !.who = v])
      BY <2>1
    <3> DEFINE q == [Idle EXCEPT !.op = "remove", !.who = v]
    <3>2. q \in Recs /\ q.op = "remove" /\ q.who = v
      BY <1>1, IdleSound DEF Recs, Ops, Tables
    <3> HIDE DEF q
    <3>3. Begin(r, q)
      BY <3>1 DEF q
    <3> QED
      BY <1>3, <3>2, <3>3 DEF Ops
  <2>2. CASE \E v \in signedUp, S \in SUBSET started :
                Begin(r, [Idle EXCEPT !.op = "access", !.who = v, !.rows = {v} \X S])
    <3>1. PICK v \in signedUp, S \in SUBSET started :
                  Begin(r, [Idle EXCEPT !.op = "access", !.who = v, !.rows = {v} \X S])
      BY <2>2
    <3> DEFINE q == [Idle EXCEPT !.op = "access", !.who = v, !.rows = {v} \X S]
    <3>2. v \in Users /\ {v} \X S \in SUBSET (Users \X Projects)
      BY <1>1 DEF Tables
    <3>3. q \in Recs /\ q.op = "access"
      BY <3>2, IdleSound DEF Recs, Ops
    <3> HIDE DEF q
    <3>4. Begin(r, q)
      BY <3>1 DEF q
    <3> QED
      BY <1>3, <3>3, <3>4 DEF Ops
  <2> QED
    BY <1>5, <2>1, <2>2 DEF AskAdmin
<1>6. ASSUME NEW u \in Users, NEW request \in Recs, Authenticate(r, u, request),
             request.op \in Ops \ {"register", "remove"},
             request.op \in {"delProject", "members"} => request.proj \in Projects
      PROVE  IInv'
  <2> DEFINE q == [request EXCEPT !.user = u, !.admin = (u \in admins)]
  <2>1. q \in Recs /\ q.op = request.op /\ q.user = u /\ q.proj = request.proj
    <3>1. (u \in admins) \in BOOLEAN
      OBVIOUS
    <3> QED
      BY <1>6, <3>1 DEF Recs
  <2>2. Begin(r, q)
    BY <1>6 DEF Authenticate
  <2> HIDE DEF q
  <2> QED
    BY <1>3, <1>6, <2>1, <2>2
<1>7. ASSUME NEW u \in Users, AskAnyone(r, u) PROVE IInv'
  <2>1. CASE Authenticate(r, u, [Idle EXCEPT !.op = "newProject"])
    <3> DEFINE q == [Idle EXCEPT !.op = "newProject"]
    <3>1. q \in Recs /\ q.op = "newProject"
      BY IdleSound DEF Recs, Ops
    <3> HIDE DEF q
    <3>2. Authenticate(r, u, q)
      BY <2>1 DEF q
    <3> QED
      BY <1>6, <3>1, <3>2 DEF Ops
  <2>2. ASSUME NEW p \in started, NEW op \in {"members", "delProject"},
               Authenticate(r, u, [Idle EXCEPT !.op = op, !.proj = p])
        PROVE  IInv'
    <3> DEFINE q == [Idle EXCEPT !.op = op, !.proj = p]
    <3>1. q \in Recs /\ q.op = op /\ q.proj = p /\ p \in Projects
      BY <1>1, IdleSound DEF Recs, Ops, Tables
    <3> HIDE DEF q
    <3>2. Authenticate(r, u, q)
      BY <2>2 DEF q
    <3> QED
      BY <1>6, <3>1, <3>2 DEF Ops
  <2>3. ASSUME NEW p \in started \cup {Unassigned},
               Authenticate(r, u, [Idle EXCEPT !.op = "create", !.proj = p])
        PROVE  IInv'
    <3> DEFINE q == [Idle EXCEPT !.op = "create", !.proj = p]
    <3>1. q \in Recs /\ q.op = "create"
      BY <1>1, IdleSound DEF Recs, Ops, Tables
    <3> HIDE DEF q
    <3>2. Authenticate(r, u, q)
      BY <2>3 DEF q
    <3> QED
      BY <1>6, <3>1, <3>2 DEF Ops
  <2>4. ASSUME NEW d \in Databases,
               Authenticate(r, u, [Idle EXCEPT !.op = "delete", !.dbs = {d}])
        PROVE  IInv'
    <3> DEFINE q == [Idle EXCEPT !.op = "delete", !.dbs = {d}]
    <3>1. q \in Recs /\ q.op = "delete"
      BY <1>1, IdleSound DEF Recs, Ops, Tables
    <3> HIDE DEF q
    <3>2. Authenticate(r, u, q)
      BY <2>4 DEF q
    <3> QED
      BY <1>6, <3>1, <3>2 DEF Ops
  <2>5. ASSUME NEW p \in started \cup {Unassigned}, NEW d \in Databases,
               Authenticate(r, u, [Idle EXCEPT !.op = "move", !.proj = p, !.dbs = {d}])
        PROVE  IInv'
    <3> DEFINE q == [Idle EXCEPT !.op = "move", !.proj = p, !.dbs = {d}]
    <3>1. q \in Recs /\ q.op = "move"
      BY <1>1, IdleSound DEF Recs, Ops, Tables
    <3> HIDE DEF q
    <3>2. Authenticate(r, u, q)
      BY <2>5 DEF q
    <3> QED
      BY <1>6, <3>1, <3>2 DEF Ops
  <2> QED
    BY <1>7, <2>1, <2>2, <2>3, <2>4, <2>5 DEF AskAnyone
<1> QED
  BY <1>2, <1>5, <1>7 DEF Arrive

(* The record of a request that goes on.                                   *)
LEMMA Proceeding ==
    ASSUME req \in [Requests -> Recs], NEW r \in Requests, Proceed(r), req[r].at + 1 \in 0..5
    PROVE  \E q \in Recs :
              /\ req' = [req EXCEPT ![r] = q]
              /\ q.op = req[r].op /\ q.at = req[r].at + 1 /\ q.who = req[r].who
              /\ q.proj = req[r].proj /\ q.dbs = req[r].dbs
              /\ q.op \in {"create", "move"} => q.user = req[r].user
<1> DEFINE asked == req[r].op \in {"create", "move"}
<1>1. req[r] \in Recs
  OBVIOUS
<1>2. PICK a \in Users \cup {None} : a = IF asked THEN req[r].user ELSE None
  BY <1>1 DEF Recs
<1>3. PICK b \in BOOLEAN : b = (asked /\ req[r].admin)
  OBVIOUS
<1> DEFINE n == req[r].at + 1
<1> DEFINE q == [req[r] EXCEPT !.at = n, !.user = a, !.admin = b]
<1>4. req' = [req EXCEPT ![r] = q]
  <2>1. req' = [req EXCEPT ![r].at = n, ![r].user = IF asked THEN @ ELSE None, ![r].admin = asked /\ @]
    BY DEF Proceed
  <2> QED
    BY <2>1, <1>1, <1>2, <1>3 DEF Recs
<1>5. q \in Recs /\ q.op = req[r].op /\ q.at = n /\ q.who = req[r].who
      /\ q.proj = req[r].proj /\ q.dbs = req[r].dbs /\ q.user = a
  <2> HIDE DEF n
  <2>1. n \in 0..5
    BY DEF n
  <2> QED
    BY <1>1, <1>2, <1>3, <2>1 DEF Recs
<1> HIDE DEF q
<1> QED
  BY <1>2, <1>4, <1>5

LEMMA GoingOn ==
    ASSUME IInv, NEW r \in Requests, Proceed(r),
           UNCHANGED <<users, admins, signedUp, access, projects, started, home, owner,
                       overlapped, excused>>,
           \/ req[r].op \in {"remove", "access", "members", "create", "delete"} /\ req[r].at = 1
           \/ req[r].op = "move" /\ req[r].at \in {1, 2}
           \/ req[r].op = "delProject" /\ req[r].at \in {1, 3},
           req[r].op = "remove" /\ req[r].who \in admins => \E v \in admins : v # req[r].who,
           req[r].op = "delProject" /\ req[r].at = 3 => req[r].dbs = {}
    PROVE  IInv'
<1>1. req \in [Requests -> Recs] /\ Sound(req[r])
  BY DEF IInv
<1>2. PICK q \in Recs :
              /\ req' = [req EXCEPT ![r] = q]
              /\ q.op = req[r].op /\ q.at = req[r].at + 1 /\ q.who = req[r].who
              /\ q.proj = req[r].proj /\ q.dbs = req[r].dbs
              /\ q.op \in {"create", "move"} => q.user = req[r].user
  <2>1. req[r].at + 1 \in 0..5
    OBVIOUS
  <2> QED
    BY <1>1, <2>1, Proceeding
<1>3. OnRoute(q)
  BY <1>2 DEF OnRoute
<1>4. About(q)
  BY <1>1, <1>2 DEF Sound, About
<1>5. FirstOrNot(q) /\ Counted(q)
  BY <1>2 DEF FirstOrNot, Counted
<1>6. SeenTo(q)
  BY <1>1, <1>2 DEF Sound, SeenTo
<1>7. q.op # "register"
  BY <1>2
<1> QED
  BY <1>2, <1>3, <1>4, <1>5, <1>6, <1>7, RecordStep DEF Sound

LEMMA TwoAdmins ==
    ASSUME NEW S, NEW x \in S, Cardinality(S) > 1
    PROVE  \E y \in S : y # x
<1> SUFFICES ASSUME \A y \in S : y = x PROVE FALSE
  OBVIOUS
<1>1. S = {x}
  OBVIOUS
<1> QED
  BY <1>1, FS_Singleton

LEMMA CheckStep == ASSUME IInv, NEW r \in Requests, Checks(r) PROVE IInv'
<1>1. OnRoute(req[r])
  BY DEF IInv, Sound
<1> USE DEF accounts, projectVars, databaseVars, history
<1>2. CASE CheckProjectAccess(r)
  <2>1. At(r, "project access") /\ (Proceed(r) \/ Return(r))
        /\ UNCHANGED <<accounts, access, projectVars, databaseVars, history>>
    BY <1>2 DEF CheckProjectAccess, Check
  <2>2. req[r].op \in {"members", "delProject"} /\ req[r].at = 1
    BY <1>1, <2>1, Where
  <2>3. UNCHANGED <<users, admins, signedUp, access, projects, started, home, owner, overlapped, excused>>
    BY <2>1
  <2>4. CASE Proceed(r) /\ req[r].op = "members"
    BY <2>2, <2>3, <2>4, GoingOn
  <2>5. CASE Proceed(r) /\ req[r].op = "delProject"
    BY <2>2, <2>3, <2>5, GoingOn
  <2>6. CASE Return(r)
    BY <2>3, <2>6, ReturnStep
  <2> QED
    BY <2>1, <2>2, <2>4, <2>5, <2>6
<1>3. CASE CheckDatabaseAccess(r)
  <2>1. At(r, "database access") /\ (Proceed(r) \/ Return(r))
        /\ UNCHANGED <<accounts, access, projectVars, databaseVars, history>>
    BY <1>3 DEF CheckDatabaseAccess, Check
  <2>2. req[r].op \in {"move", "delete"} /\ req[r].at = 1
    BY <1>1, <2>1, Where
  <2>3. UNCHANGED <<users, admins, signedUp, access, projects, started, home, owner, overlapped, excused>>
    BY <2>1
  <2>4. CASE Proceed(r) /\ req[r].op = "move"
    BY <2>2, <2>3, <2>4, GoingOn
  <2>5. CASE Proceed(r) /\ req[r].op = "delete"
    BY <2>2, <2>3, <2>5, GoingOn
  <2>6. CASE Return(r)
    BY <2>3, <2>6, ReturnStep
  <2> QED
    BY <2>1, <2>2, <2>4, <2>5, <2>6
<1>4. CASE MayUseProject(r)
  <2>1. At(r, "may use project") /\ (Proceed(r) \/ Return(r))
        /\ UNCHANGED <<accounts, access, projectVars, databaseVars, history>>
    BY <1>4 DEF MayUseProject, Check
  <2>2. (req[r].op = "create" /\ req[r].at = 1) \/ (req[r].op = "move" /\ req[r].at = 2)
    <3>1. At(r, "may use project") <=> \/ req[r].op = "create" /\ req[r].at = 1
                                       \/ req[r].op = "move" /\ req[r].at = 2
      BY <1>1, Where
    <3> QED
      BY <2>1, <3>1
  <2>3. UNCHANGED <<users, admins, signedUp, access, projects, started, home, owner, overlapped, excused>>
    BY <2>1
  <2>4. CASE Proceed(r) /\ req[r].op = "create"
    BY <2>2, <2>3, <2>4, GoingOn
  <2>5. CASE Proceed(r) /\ req[r].op = "move"
    BY <2>2, <2>3, <2>5, GoingOn
  <2>6. CASE Return(r)
    BY <2>3, <2>6, ReturnStep
  <2> QED
    BY <2>1, <2>2, <2>4, <2>5, <2>6
<1>5. CASE UserAndProjects(r)
  <2>1. At(r, "user and projects") /\ (Proceed(r) \/ Return(r))
        /\ UNCHANGED <<accounts, access, projectVars, databaseVars, history>>
    BY <1>5 DEF UserAndProjects, Check
  <2>2. req[r].op = "access" /\ req[r].at = 1
    BY <1>1, <2>1, Where
  <2> QED
    BY <2>1, <2>2, GoingOn, ReturnStep
(* Whoever is removed is an administrator that is not the only one.        *)
<1>6. CASE CountAdmins(r)
  <2>1. At(r, "count admins") /\ UNCHANGED <<accounts, access, projectVars, databaseVars, history>>
    BY <1>6 DEF CountAdmins, Check
  <2>2. req[r].op = "remove" /\ req[r].at = 1
    BY <1>1, <2>1, Where
  <2>3. \/ Return(r)
        \/ Proceed(r) /\ (req[r].who \in admins => Cardinality(admins) > 1)
    BY <1>6 DEF CountAdmins, Check
  <2>4. CASE Return(r)
    BY <2>1, <2>4, ReturnStep
  <2>5. CASE Proceed(r) /\ (req[r].who \in admins => Cardinality(admins) > 1)
    <3>1. req[r].who \in admins => \E v \in admins : v # req[r].who
      BY <2>5, TwoAdmins
    <3> QED
      BY <2>1, <2>2, <2>5, <3>1, GoingOn
  <2> QED
    BY <2>3, <2>4, <2>5
<1> QED
  BY <1>2, <1>3, <1>4, <1>5, <1>6 DEF Checks

-----------------------------------------------------------------------------
(* Steps that write to the tables: what is left to be shown of them.       *)
LEMMA WriteStep ==
    ASSUME IInv, NEW r \in Requests, NEW q \in Recs, req' = [req EXCEPT ![r] = q],
           q.op # "register", Tables', Sound(q)',
           \A x \in Requests \ {r}, rec \in Recs :
              rec = req[x] => (About(rec) /\ FirstOrNot(rec) /\ Counted(rec) /\ SeenTo(rec))',
           AdminsAlike', AdminRemains', ReferencesResolve'
    PROVE  IInv'
<1>1. req' \in [Requests -> Recs] /\ \A x \in Requests : req'[x] = IF x = r THEN q ELSE req[x]
  BY DEF IInv
<1>2. ASSUME NEW x \in Requests PROVE Sound(req[x])'
  <2>1. CASE x = r
    BY <1>1, <2>1
  <2>2. CASE x # r
    <3>1. PICK rec \in Recs : rec = req[x] /\ rec = req'[x] /\ OnRoute(rec)
      BY <1>1, <2>2 DEF IInv, Sound
    <3>2. OnRoute(rec)'
      BY <3>1 DEF OnRoute
    <3>3. (About(rec) /\ FirstOrNot(rec) /\ Counted(rec) /\ SeenTo(rec))'
      BY <2>2, <3>1
    <3>4. Sound(rec)'
      BY <3>2, <3>3 DEF Sound
    <3> QED
      BY <3>1, <3>4
  <2> QED
    BY <2>1, <2>2
<1>3. IdsDiffer'
  BY <1>1 DEF IInv, IdsDiffer
<1> QED
  BY <1>1, <1>2, <1>3 DEF IInv

LEMMA IdleNext == Sound(Idle)'
  BY DEF Idle, Recs, Sound, OnRoute, About, FirstOrNot, Counted, SeenTo

(* A user is inserted: the first one, as an administrator, or a later one. *)
LEMMA InsertUserStep == ASSUME IInv, NEW r \in Requests, InsertUser(r) PROVE IInv'
<1> DEFINE u == req[r].who
<1>1. Tables /\ IdsDiffer /\ AdminsAlike /\ AdminRemains /\ ReferencesResolve /\ Sound(req[r])
      /\ req[r] \in Recs
  BY DEF IInv
<1>2. \A x \in Requests : At(x, "insert user") <=> req[x].op = "register"
  BY Where DEF IInv, Sound
<1>3. /\ req[r].op = "register" /\ u \in Users /\ u \notin signedUp
      /\ users' = users \cup {u} /\ signedUp' = signedUp \cup {u}
      /\ admins' = IF req[r].admin THEN admins \cup {u} ELSE admins
      /\ req' = [req EXCEPT ![r] = Idle]
      /\ UNCHANGED <<access, projects, started, home, owner, excused>>
  BY <1>1, <1>2 DEF InsertUser, Return, projectVars, databaseVars, Sound, About
<1>4. /\ overlapped' \subseteq overlapped \cup {"registrations"} /\ overlapped \subseteq overlapped'
      /\ users = {} /\ (\E x \in Requests \ {r} : req[x].op = "register")
            => "registrations" \in overlapped'
  BY <1>2 DEF InsertUser, Others
<1>5. req[r].admin = TRUE \/ (req[r].admin = FALSE /\ admins' = admins)
  BY <1>1, <1>3 DEF Recs
<1> HIDE DEF u
<1>6. Tables'
  BY <1>1, <1>3, <1>4 DEF Tables, References
<1>7. ASSUME NEW x \in Requests \ {r}, NEW rec \in Recs, rec = req[x]
      PROVE  (About(rec) /\ FirstOrNot(rec) /\ Counted(rec) /\ SeenTo(rec))'
  <2>1. Sound(rec) /\ (rec.op = "register" => rec.who # u)
    BY <1>1, <1>3, <1>7 DEF IInv, IdsDiffer, u
  <2>2. About(rec)'
    BY <1>3, <2>1 DEF Sound, About
  <2>3. FirstOrNot(rec)'
    BY <1>3, <1>4, <1>7, <2>1 DEF Sound, FirstOrNot
  <2>4. Counted(rec)'
    BY <1>1, <1>3, <1>4, <2>1 DEF Sound, About, Counted, Tables
  <2>5. SeenTo(rec)'
    BY <1>3, <2>1 DEF Sound, SeenTo
  <2> QED
    BY <2>2, <2>3, <2>4, <2>5
<1>8. AdminsAlike'
  BY <1>1, <1>3, <1>4, <1>5 DEF AdminsAlike, Sound, FirstOrNot, Tables
<1>9. AdminRemains'
  BY <1>1, <1>3, <1>4, <1>5 DEF AdminRemains, Sound, FirstOrNot
<1>10. ReferencesResolve'
  BY <1>1, <1>3 DEF ReferencesResolve
<1> QED
  BY <1>3, <1>6, <1>7, <1>8, <1>9, <1>10, IdleSound, IdleNext, WriteStep

(* A user is removed with its rows.  A second removal that has counted is  *)
(* an overlap.                                                             *)
LEMMA DeleteUserStep == ASSUME IInv, NEW r \in Requests, DeleteUser(r) PROVE IInv'
<1> DEFINE u == req[r].who
<1>1. Tables /\ AdminsAlike /\ AdminRemains /\ ReferencesResolve /\ Sound(req[r])
  BY DEF IInv
<1>2. \A x \in Requests : At(x, "delete user") <=> req[x].op = "remove" /\ req[x].at = 2
  BY Where DEF IInv, Sound
<1>3. /\ req[r].op = "remove" /\ req[r].at = 2
      /\ users' = users \ {u} /\ admins' = admins \ {u}
      /\ access' = {row \in access : row[1] # u}
      /\ req' = [req EXCEPT ![r] = Idle]
      /\ UNCHANGED <<signedUp, projects, started, home, owner, excused>>
  BY <1>2 DEF DeleteUser, Return, projectVars, databaseVars
<1>4. /\ overlapped' \subseteq overlapped \cup {"removals"} /\ overlapped \subseteq overlapped'
      /\ (\E x \in Requests \ {r} : req[x].op = "remove" /\ req[x].at = 2)
            => "removals" \in overlapped'
  BY <1>2 DEF DeleteUser, Others
<1>5. "removals" \notin overlapped /\ u \in admins => \E v \in admins : v # u
  BY <1>1, <1>3 DEF Sound, Counted
<1> HIDE DEF u
<1>6. Tables'
  BY <1>1, <1>3, <1>4 DEF Tables
<1>7. ASSUME NEW x \in Requests \ {r}, NEW rec \in Recs, rec = req[x]
      PROVE  (About(rec) /\ FirstOrNot(rec) /\ Counted(rec) /\ SeenTo(rec))'
  <2>1. Sound(rec)
    BY <1>7 DEF IInv
  <2>2. About(rec)'
    BY <1>3, <2>1 DEF Sound, About
  <2>3. FirstOrNot(rec)'
    BY <1>3, <1>4, <2>1 DEF Sound, FirstOrNot
  <2>4. Counted(rec)'
    BY <1>4, <1>7 DEF Counted
  <2>5. SeenTo(rec)'
    BY <1>3, <2>1 DEF Sound, SeenTo
  <2> QED
    BY <2>2, <2>3, <2>4, <2>5
<1>8. AdminsAlike'
  BY <1>1, <1>3, <1>4 DEF AdminsAlike
<1>9. AdminRemains'
  BY <1>1, <1>3, <1>4, <1>5 DEF AdminRemains
<1>10. ReferencesResolve'
  BY <1>1, <1>3 DEF ReferencesResolve
<1> QED
  BY <1>3, <1>6, <1>7, <1>8, <1>9, <1>10, IdleSound, IdleNext, WriteStep

-----------------------------------------------------------------------------
(* What makes a project a leaving one, by how far its deletion is.         *)
LEMMA Leavers ==
    ASSUME IInv, NEW p
    PROVE  /\ Leaving(p, {"drop project"}) <=>
                 \/ p \notin projects
                 \/ \E x \in Requests : req[x].proj = p /\ req[x].op = "delProject" /\ req[x].at = 5
           /\ \A x \in Requests : req[x].proj = p /\ req[x].op = "delProject" /\ req[x].at \in {3, 4, 5}
                                    => Leaving(p, Passing)
<1>1. \A x \in Requests :
         /\ At(x, "drop project") <=> req[x].op = "delProject" /\ req[x].at = 5
         /\ At(x, "unshare") <=> req[x].op = "delProject" /\ req[x].at = 4
         /\ req[x].op = "delProject" /\ req[x].at = 3 => At(x, "sweep")
  <2>1. SUFFICES ASSUME NEW x \in Requests
                 PROVE  /\ At(x, "drop project") <=> req[x].op = "delProject" /\ req[x].at = 5
                        /\ At(x, "unshare") <=> req[x].op = "delProject" /\ req[x].at = 4
                        /\ req[x].op = "delProject" /\ req[x].at = 3 => At(x, "sweep")
    OBVIOUS
  <2>2. OnRoute(req[x])
    BY DEF IInv, Sound
  <2> QED
    BY <2>2, Where
<1> QED
  BY <1>1 DEF Leaving, Passing

(* Rows of access that replace others: those that name a project whose     *)
(* deletion has seen to its rows are excused.                              *)
LEMMA ReplaceStep ==
    ASSUME IInv, NEW r \in Requests, NEW old, NEW new \in SUBSET (Users \X Projects),
           Replace(r, old, new)
    PROVE  IInv'
<1>1. Tables /\ AdminsAlike /\ AdminRemains /\ ReferencesResolve
  BY DEF IInv
<1>2. /\ access' = (access \ old) \cup new
      /\ excused' = (excused \ new) \cup Astray(new)
      /\ req' = [req EXCEPT ![r] = Idle]
      /\ UNCHANGED <<users, admins, signedUp, projects, started, home, owner, overlapped>>
  BY DEF Replace, Return, accounts, projectVars, databaseVars
<1>3. /\ \A row \in new : row \notin Astray(new) => row[1] \in users /\ row[2] \in projects
      /\ \A row \in new, x \in Requests :
            req[x].op = "delProject" /\ req[x].at = 5 /\ req[x].proj = row[2] => row \in Astray(new)
      /\ Astray(new) \subseteq new
  <2>1. \A row \in new : Leaving(row[2], {"drop project"}) <=>
                 \/ row[2] \notin projects
                 \/ \E x \in Requests : req[x].proj = row[2] /\ req[x].op = "delProject" /\ req[x].at = 5
    BY Leavers
  <2> QED
    BY <2>1 DEF Astray
<1>4. Tables'
  BY <1>1, <1>2, <1>3 DEF Tables, References
<1>5. \A d \in Databases : d \in excused => d \in excused'
  BY <1>2, NamesAssumption
<1>6. ASSUME NEW x \in Requests \ {r}, NEW rec \in Recs, rec = req[x]
      PROVE  (About(rec) /\ FirstOrNot(rec) /\ Counted(rec) /\ SeenTo(rec))'
  <2>1. Sound(rec)
    BY <1>6 DEF IInv
  <2>2. (About(rec) /\ FirstOrNot(rec) /\ Counted(rec))'
    BY <1>2, <2>1 DEF Sound, About, FirstOrNot, Counted
  <2>3. SeenTo(rec)'
    BY <1>2, <1>3, <1>5, <1>6, <2>1 DEF Sound, SeenTo
  <2> QED
    BY <2>2, <2>3
<1>7. AdminsAlike' /\ AdminRemains'
  BY <1>1, <1>2 DEF AdminsAlike, AdminRemains
<1>8. ReferencesResolve'
  BY <1>1, <1>2, <1>3, <1>5 DEF ReferencesResolve
<1> QED
  BY <1>2, <1>4, <1>6, <1>7, <1>8, IdleSound, IdleNext, WriteStep

LEMMA AccessSteps ==
    ASSUME IInv, NEW r \in Requests,
           ReplaceUserAccess(r) \/ ReplaceProjectUsers(r) \/ ShareProject(r)
    PROVE  IInv'
<1>1. req[r] \in Recs /\ OnRoute(req[r]) /\ About(req[r])
  BY DEF IInv, Sound
<1>2. CASE ReplaceUserAccess(r)
  <2>1. req[r].rows \in SUBSET (Users \X Projects)
    BY <1>1 DEF Recs
  <2> QED
    BY <1>2, <2>1, ReplaceStep DEF ReplaceUserAccess
<1>3. CASE ReplaceProjectUsers(r)
  <2>1. At(r, "replace project's")
    BY <1>3 DEF ReplaceProjectUsers
  <2>2. req[r].op = "members"
    BY <1>1, <2>1, Where
  <2>3. req[r].proj \in Projects
    BY <1>1, <2>2 DEF About
  <2>4. PICK S \in SUBSET Users :
           Replace(r, {row \in access : row[2] = req[r].proj}, S \X {req[r].proj})
    BY <1>3 DEF ReplaceProjectUsers
  <2>5. S \X {req[r].proj} \in SUBSET (Users \X Projects)
    BY <2>3, <2>4
  <2> QED
    BY <2>4, <2>5, ReplaceStep
<1>4. CASE ShareProject(r)
  <2>1. At(r, "share project")
    BY <1>4 DEF ShareProject
  <2>2. req[r].op = "newProject" /\ req[r].at = 2
    BY <1>1, <2>1, Where
  <2>3. req[r].user \in Users /\ req[r].proj \in Projects
    BY <1>1, <2>2 DEF About
  <2>4. {<<req[r].user, req[r].proj>>} \in SUBSET (Users \X Projects)
    BY <2>3
  <2> QED
    BY <1>4, <2>4, ReplaceStep DEF ShareProject
<1> QED
  BY <1>2, <1>3, <1>4

-----------------------------------------------------------------------------
(* Projects and their databases.                                           *)
LEMMA InsertProjectStep ==
    ASSUME IInv, NEW r \in Requests, NEW p \in Projects, InsertProject(r, p)
    PROVE  IInv'
<1>1. Tables /\ AdminsAlike /\ AdminRemains /\ ReferencesResolve /\ Sound(req[r])
      /\ req[r] \in Recs /\ req \in [Requests -> Recs]
  BY DEF IInv
<1>2. At(r, "insert project")
  BY DEF InsertProject
<1>3. req[r].op = "newProject" /\ req[r].at = 1
  BY <1>1, <1>2, Where DEF Sound
<1>4. /\ p \notin started /\ projects' = projects \cup {p} /\ started' = started \cup {p}
      /\ UNCHANGED <<users, admins, signedUp, access, home, owner, overlapped, excused>>
  BY DEF InsertProject, accounts, databaseVars, history
<1>5. Tables' /\ AdminsAlike' /\ AdminRemains' /\ ReferencesResolve'
  BY <1>1, <1>4 DEF Tables, AdminsAlike, AdminRemains, ReferencesResolve
<1>6. ASSUME NEW x \in Requests \ {r}, NEW rec \in Recs, rec = req[x]
      PROVE  (About(rec) /\ FirstOrNot(rec) /\ Counted(rec) /\ SeenTo(rec))'
  <2>1. Sound(rec)
    BY <1>6 DEF IInv
  <2> QED
    BY <1>4, <2>1 DEF Sound, About, FirstOrNot, Counted, SeenTo
<1>7. PICK q \in Recs : /\ req' = [req EXCEPT ![r] = q]
                        /\ \/ q = Idle
                           \/ /\ q.op = "newProject" /\ q.at = 2 /\ q.proj = p
                              /\ q.user = req[r].user
  <2>1. CASE req[r].admin
    BY <2>1, IdleSound DEF InsertProject, Return
  <2>2. CASE ~req[r].admin
    <3>1. req' = [req EXCEPT ![r].at = @ + 1, ![r].proj = p]
      BY <2>2 DEF InsertProject
    <3>2. \A at \in 0..5 : LET x == [req[r] EXCEPT !.at = at, !.proj = p]
                           IN  x \in Recs /\ x.op = req[r].op /\ x.at = at /\ x.proj = p
                               /\ x.user = req[r].user
      BY <1>1 DEF Recs
    <3> DEFINE n == req[r].at + 1
    <3>3. n \in 0..5 /\ n = 2
      BY <1>3
    <3>4. req' = [req EXCEPT ![r] = [req[r] EXCEPT !.at = n, !.proj = p]]
      BY <1>1, <3>1 DEF Recs
    <3> HIDE DEF n
    <3> DEFINE q == [req[r] EXCEPT !.at = n, !.proj = p]
    <3>5. /\ req' = [req EXCEPT ![r] = q]
          /\ q \in Recs /\ q.op = req[r].op /\ q.at = n /\ q.proj = p /\ q.user = req[r].user
      BY <3>2, <3>3, <3>4
    <3> HIDE DEF q
    <3> QED
      BY <1>3, <3>3, <3>5
  <2> QED
    BY <2>1, <2>2
<1>8. q.op # "register" /\ Sound(q)'
  <2>1. CASE q = Idle
    BY <2>1, IdleSound, IdleNext
  <2>2. CASE q.op = "newProject" /\ q.at = 2 /\ q.proj = p /\ q.user = req[r].user
    <3>1. q.user \in Users
      BY <1>1, <1>3, <2>2 DEF Sound, About
    <3> QED
      BY <2>2, <3>1 DEF Sound, OnRoute, About, FirstOrNot, Counted, SeenTo
  <2> QED
    BY <1>7, <2>1, <2>2
<1> QED
  BY <1>5, <1>6, <1>7, <1>8, WriteStep

LEMMA ListDatabasesStep == ASSUME IInv, NEW r \in Requests, ListDatabases(r) PROVE IInv'
<1> DEFINE S == {d \in Databases : home[d] = req[r].proj}
<1> DEFINE n == req[r].at + 1
<1>1. Sound(req[r]) /\ req[r] \in Recs /\ req \in [Requests -> Recs]
  BY DEF IInv
<1>2. At(r, "list databases")
  BY DEF ListDatabases
<1>3. req[r].op = "delProject" /\ req[r].at = 2
  BY <1>1, <1>2, Where DEF Sound
<1>4. UNCHANGED <<users, admins, signedUp, access, projects, started, home, owner, overlapped, excused>>
  BY DEF ListDatabases, accounts, projectVars, databaseVars, history
<1>5. req' = [req EXCEPT ![r] = [req[r] EXCEPT !.at = n, !.dbs = S]]
  BY <1>1 DEF ListDatabases, Recs
<1>6. n \in 0..5 /\ n = 3 /\ S \in SUBSET Databases
  BY <1>3
<1>7. \A at \in 0..5 :
         LET x == [req[r] EXCEPT !.at = at, !.dbs = S]
         IN  x \in Recs /\ x.op = req[r].op /\ x.at = at /\ x.proj = req[r].proj /\ x.dbs = S
  BY <1>1 DEF Recs
<1> HIDE DEF n
<1>8. PICK q \in Recs : /\ req' = [req EXCEPT ![r] = q]
                        /\ q.op = "delProject" /\ q.at = 3 /\ q.proj = req[r].proj
                        /\ \A d \in Databases : home[d] = q.proj => d \in q.dbs
  <2> HIDE DEF S
  <2>1. PICK q \in Recs : /\ req' = [req EXCEPT ![r] = q]
                          /\ q.op = req[r].op /\ q.at = n /\ q.proj = req[r].proj /\ q.dbs = S
    <3> DEFINE q == [req[r] EXCEPT !.at = n, !.dbs = S]
    <3>1. /\ req' = [req EXCEPT ![r] = q]
          /\ q \in Recs /\ q.op = req[r].op /\ q.at = n /\ q.proj = req[r].proj /\ q.dbs = S
      BY <1>5, <1>6, <1>7
    <3> HIDE DEF q
    <3> QED
      BY <3>1
  <2> QED
    BY <1>3, <1>6, <2>1 DEF S
<1>9. Sound(q)
  BY <1>1, <1>3, <1>8 DEF Sound, OnRoute, About, FirstOrNot, Counted, SeenTo
<1> QED
  BY <1>4, <1>8, <1>9, RecordStep

(* A database is deleted: it is not in a project any more.                 *)
LEMMA DeleteResourcesStep ==
    ASSUME IInv, NEW r \in Requests, NEW d \in Databases, DeleteResources(r, d)
    PROVE  IInv'
<1>1. Tables /\ AdminsAlike /\ AdminRemains /\ ReferencesResolve /\ Sound(req[r])
      /\ req[r] \in Recs /\ req \in [Requests -> Recs]
  BY DEF IInv
<1>2. home' = [home EXCEPT ![d] = None] /\ At(r, "sweep")
      /\ UNCHANGED <<users, admins, signedUp, access, projects, started, owner, overlapped, excused>>
  BY DEF DeleteResources, accounts, projectVars, history
<1>3. /\ \A e \in Databases : home'[e] = IF e = d THEN None ELSE home[e]
      /\ home' \in [Databases -> Projects \cup {Unassigned, None}]
  BY <1>1, <1>2 DEF Tables
<1>4. Tables' /\ AdminsAlike' /\ AdminRemains' /\ ReferencesResolve'
  BY <1>1, <1>2, <1>3, NamesAssumption DEF Tables, AdminsAlike, AdminRemains, ReferencesResolve
<1>5. None \notin Projects
  BY NamesAssumption
<1>6. ASSUME NEW x \in Requests \ {r}, NEW rec \in Recs, rec = req[x]
      PROVE  (About(rec) /\ FirstOrNot(rec) /\ Counted(rec) /\ SeenTo(rec))'
  <2>1. Sound(rec)
    BY <1>6 DEF IInv
  <2> QED
    BY <1>2, <1>3, <1>5, <2>1 DEF Sound, About, FirstOrNot, Counted, SeenTo
<1>7. PICK q \in Recs : /\ req' = [req EXCEPT ![r] = q]
                        /\ \/ q = Idle
                           \/ /\ q.op = req[r].op /\ q.at = req[r].at /\ q.proj = req[r].proj
                              /\ q.dbs = req[r].dbs \ {d}
  <2>1. CASE home[d] = None
    BY <2>1, IdleSound DEF DeleteResources, Return
  <2>2. CASE home[d] # None
    <3>1. req' = [req EXCEPT ![r] = [req[r] EXCEPT !.dbs = req[r].dbs \ {d}]]
      BY <1>1, <2>2 DEF DeleteResources, Recs
    <3>2. LET x == [req[r] EXCEPT !.dbs = req[r].dbs \ {d}]
          IN  x \in Recs /\ x.op = req[r].op /\ x.at = req[r].at /\ x.proj = req[r].proj
              /\ x.dbs = req[r].dbs \ {d}
      BY <1>1 DEF Recs
    <3> QED
      BY <3>1, <3>2
  <2> QED
    BY <2>1, <2>2
<1>8. (req[r].op = "delProject" /\ req[r].at = 3) \/ (req[r].op = "delete" /\ req[r].at = 2)
  <2>1. At(r, "sweep") <=> \/ req[r].op = "delProject" /\ req[r].at = 3
                           \/ req[r].op = "delete" /\ req[r].at = 2
    BY <1>1, Where DEF Sound
  <2> QED
    BY <1>2, <2>1
<1>9. q.op # "register" /\ Sound(q)'
  <2>1. CASE q = Idle
    BY <2>1, IdleSound, IdleNext
  <2>2. CASE q.op = req[r].op /\ q.at = req[r].at /\ q.proj = req[r].proj
             /\ q.dbs = req[r].dbs \ {d}
    <3>1. OnRoute(q)' /\ FirstOrNot(q)' /\ Counted(q)' /\ q.op # "register"
      BY <1>8, <2>2 DEF OnRoute, FirstOrNot, Counted
    <3>2. About(q)'
      BY <1>1, <1>8, <2>2 DEF Sound, About
    <3>3. SeenTo(q)'
      BY <1>1, <1>2, <1>3, <1>5, <1>8, <2>2, <3>2 DEF Sound, SeenTo, About
    <3> QED
      BY <3>1, <3>2, <3>3 DEF Sound
  <2> QED
    BY <1>7, <2>1, <2>2
<1> QED
  BY <1>4, <1>6, <1>7, <1>9, WriteStep

LEMMA SweptStep == ASSUME IInv, NEW r \in Requests, Swept(r) PROVE IInv'
<1>1. OnRoute(req[r])
  BY DEF IInv, Sound
<1>2. At(r, "sweep") /\ req[r].dbs = {}
      /\ UNCHANGED <<users, admins, signedUp, access, projects, started, home, owner, overlapped, excused>>
  BY DEF Swept, accounts, projectVars, databaseVars, history
<1>3. (req[r].op = "delProject" /\ req[r].at = 3) \/ (req[r].op = "delete" /\ req[r].at = 2)
  <2>1. At(r, "sweep") <=> \/ req[r].op = "delProject" /\ req[r].at = 3
                           \/ req[r].op = "delete" /\ req[r].at = 2
    BY <1>1, Where
  <2> QED
    BY <1>2, <2>1
<1>4. CASE req[r].op = "delete"
  <2>1. Return(r)
    BY <1>4 DEF Swept
  <2> QED
    BY <1>2, <2>1, ReturnStep
<1>5. CASE req[r].op = "delProject" /\ req[r].at = 3
  <2>1. Proceed(r)
    BY <1>5 DEF Swept
  <2> QED
    BY <1>2, <1>5, <2>1, GoingOn
<1> QED
  BY <1>3, <1>4, <1>5

(* The access rows go, or, when the statement fails, stay and are excused. *)
LEMMA UnshareStep == ASSUME IInv, NEW r \in Requests, Unshare(r) PROVE IInv'
<1> DEFINE gone == {row \in access : row[2] = req[r].proj}
<1>1. Tables /\ AdminsAlike /\ AdminRemains /\ ReferencesResolve /\ Sound(req[r])
      /\ req[r] \in Recs /\ req \in [Requests -> Recs]
  BY DEF IInv
<1>2. At(r, "unshare") /\ Proceed(r)
      /\ UNCHANGED <<users, admins, signedUp, projects, started, home, owner, overlapped>>
  BY DEF Unshare, accounts, projectVars, databaseVars
<1>3. req[r].op = "delProject" /\ req[r].at = 4
  BY <1>1, <1>2, Where DEF Sound
<1>4. /\ access' \subseteq access /\ excused \subseteq excused'
      /\ excused' \subseteq excused \cup access
      /\ \A row \in access' : row[2] = req[r].proj => row \in excused'
  <2>1. CASE access' = access \ gone /\ UNCHANGED excused
    BY <2>1
  <2>2. CASE excused' = excused \cup gone /\ UNCHANGED access
    BY <2>2
  <2> QED
    BY <2>1, <2>2 DEF Unshare
<1> HIDE DEF gone
<1>5. Tables' /\ AdminsAlike' /\ AdminRemains' /\ ReferencesResolve'
  BY <1>1, <1>2, <1>4 DEF Tables, References, AdminsAlike, AdminRemains, ReferencesResolve
<1>6. ASSUME NEW x \in Requests \ {r}, NEW rec \in Recs, rec = req[x]
      PROVE  (About(rec) /\ FirstOrNot(rec) /\ Counted(rec) /\ SeenTo(rec))'
  <2>1. Sound(rec)
    BY <1>6 DEF IInv
  <2> QED
    BY <1>2, <1>4, <2>1 DEF Sound, About, FirstOrNot, Counted, SeenTo
<1>7. PICK q \in Recs :
              /\ req' = [req EXCEPT ![r] = q]
              /\ q.op = req[r].op /\ q.at = req[r].at + 1 /\ q.proj = req[r].proj
  <2>1. req[r].at + 1 \in 0..5
    BY <1>3
  <2> QED
    BY <1>1, <1>2, <2>1, Proceeding
<1>8. q.op = "delProject" /\ q.at = 5
  BY <1>3, <1>7
<1>9. Sound(q)'
  BY <1>1, <1>2, <1>3, <1>4, <1>7, <1>8 DEF Sound, OnRoute, About, FirstOrNot, Counted, SeenTo
<1> QED
  BY <1>5, <1>6, <1>7, <1>8, <1>9, WriteStep

(* The project goes when no row that is not excused names it any more.     *)
LEMMA DropProjectStep == ASSUME IInv, NEW r \in Requests, DropProject(r) PROVE IInv'
<1>1. Tables /\ AdminsAlike /\ AdminRemains /\ ReferencesResolve /\ Sound(req[r])
  BY DEF IInv
<1>2. /\ At(r, "drop project") /\ projects' = projects \ {req[r].proj}
      /\ req' = [req EXCEPT ![r] = Idle]
      /\ UNCHANGED <<users, admins, signedUp, access, started, home, owner, overlapped, excused>>
  BY DEF DropProject, Return, accounts, databaseVars, history
<1>3. req[r].op = "delProject" /\ req[r].at = 5
  BY <1>1, <1>2, Where DEF Sound
<1>4. /\ \A row \in access : row[2] = req[r].proj => row \in excused
      /\ \A d \in Databases : home[d] = req[r].proj => d \in excused
  BY <1>1, <1>3 DEF Sound, SeenTo
<1>5. Tables' /\ AdminsAlike' /\ AdminRemains' /\ ReferencesResolve'
  BY <1>1, <1>2, <1>4 DEF Tables, AdminsAlike, AdminRemains, ReferencesResolve
<1>6. ASSUME NEW x \in Requests \ {r}, NEW rec \in Recs, rec = req[x]
      PROVE  (About(rec) /\ FirstOrNot(rec) /\ Counted(rec) /\ SeenTo(rec))'
  <2>1. Sound(rec)
    BY <1>6 DEF IInv
  <2> QED
    BY <1>2, <2>1 DEF Sound, About, FirstOrNot, Counted, SeenTo
<1> QED
  BY <1>2, <1>5, <1>6, IdleSound, IdleNext, WriteStep

(* A database comes to a project: into one that is being deleted, it is    *)
(* excused.                                                                *)
LEMMA PlaceStep ==
    ASSUME IInv, NEW r \in Requests, NEW d \in Databases, NEW p \in Projects \cup {Unassigned},
           home' = [home EXCEPT ![d] = p],
           owner' \in [Databases -> Users \cup {None}], owner'[d] # None,
           \A e \in Databases : owner[e] # None => owner'[e] # None,
           excused' = (excused \ {d}) \cup {x \in {d} : p \in Projects /\ Leaving(p, Passing)},
           Return(r),
           UNCHANGED <<users, admins, signedUp, access, projects, started, overlapped>>
    PROVE  IInv'
<1>1. Tables /\ AdminsAlike /\ AdminRemains /\ ReferencesResolve
  BY DEF IInv
<1>2. /\ \A e \in Databases : home'[e] = IF e = d THEN p ELSE home[e]
      /\ home' \in [Databases -> Projects \cup {Unassigned, None}]
      /\ req' = [req EXCEPT ![r] = Idle]
  BY <1>1 DEF Tables, Return
<1>3. /\ \A row \in access : row \in excused => row \in excused'
      /\ \A row \in access : row \in excused' => row \in excused
      /\ \A e \in Databases \ {d} : e \in excused <=> e \in excused'
      /\ p \in Projects /\ Leaving(p, Passing) => d \in excused'
  BY <1>1, NamesAssumption DEF Tables
<1>4. /\ p \in Projects /\ d \notin excused' => p \in projects
      /\ \A x \in Requests : req[x].op = "delProject" /\ req[x].at \in {3, 4, 5}
                               /\ req[x].proj = p /\ p \in Projects => d \in excused'
  <2>1. p \notin projects => Leaving(p, Passing)
    BY DEF Leaving
  <2>2. \A x \in Requests : req[x].proj = p /\ req[x].op = "delProject" /\ req[x].at \in {3, 4, 5}
                              => Leaving(p, Passing)
    BY Leavers
  <2> QED
    BY <1>3, <2>1, <2>2
<1>5. Tables'
  <2>1. excused' \subseteq References
    BY <1>1 DEF Tables, References
  <2>2. \A e \in Databases : home'[e] # None => owner'[e] # None
    BY <1>1, <1>2 DEF Tables
  <2> QED
    BY <1>1, <1>2, <2>1, <2>2 DEF Tables, References
<1>6. AdminsAlike' /\ AdminRemains'
  BY <1>1 DEF AdminsAlike, AdminRemains
<1>7. ReferencesResolve'
  BY <1>1, <1>2, <1>3, <1>4 DEF ReferencesResolve
<1>8. ASSUME NEW x \in Requests \ {r}, NEW rec \in Recs, rec = req[x]
      PROVE  (About(rec) /\ FirstOrNot(rec) /\ Counted(rec) /\ SeenTo(rec))'
  <2>1. Sound(rec)
    BY <1>8 DEF IInv
  <2>2. (About(rec) /\ FirstOrNot(rec) /\ Counted(rec))'
    BY <2>1 DEF Sound, About, FirstOrNot, Counted
  <2>3. SeenTo(rec)'
    BY <1>2, <1>3, <1>4, <1>8, <2>1 DEF Sound, SeenTo, About
  <2> QED
    BY <2>2, <2>3
<1> QED
  BY <1>2, <1>5, <1>6, <1>7, <1>8, IdleSound, IdleNext, WriteStep

LEMMA PlaceSteps ==
    ASSUME IInv, NEW r \in Requests, NEW d \in Databases,
           InsertDatabase(r, d) \/ UpdateProject(r, d)
    PROVE  IInv'
<1> DEFINE p == req[r].proj
<1>1. Tables /\ Sound(req[r]) /\ req[r] \in Recs
  BY DEF IInv
<1>2. p \in Projects \cup {Unassigned}
  BY <1>1 DEF Recs
<1>3. CASE InsertDatabase(r, d)
  <2>1. At(r, "insert database") /\ home' = [home EXCEPT ![d] = p]
        /\ owner' = [owner EXCEPT ![d] = req[r].user]
        /\ excused' = (excused \ {d}) \cup {x \in {d} : p \in Projects /\ Leaving(p, Passing)}
        /\ Return(r)
        /\ UNCHANGED <<users, admins, signedUp, access, projects, started, overlapped>>
    BY <1>3 DEF InsertDatabase, accounts, projectVars
  <2>2. req[r].op = "create"
    BY <1>1, <2>1, Where DEF Sound
  <2>3. req[r].user \in Users /\ req[r].user # None
    BY <1>1, <2>2, NamesAssumption DEF Sound, About
  <2>4. owner' \in [Databases -> Users \cup {None}] /\ owner'[d] # None
        /\ \A e \in Databases : owner[e] # None => owner'[e] # None
    BY <1>1, <2>1, <2>3 DEF Tables
  <2> HIDE DEF p
  <2> QED
    BY <1>2, <2>1, <2>4, PlaceStep
<1>4. CASE UpdateProject(r, d) /\ home[d] = None
  <2>1. Return(r)
        /\ UNCHANGED <<users, admins, signedUp, access, projects, started, home, owner, overlapped, excused>>
    BY <1>4 DEF UpdateProject, accounts, projectVars
  <2> QED
    BY <2>1, ReturnStep
<1>5. CASE UpdateProject(r, d) /\ home[d] # None
  <2>1. home' = [home EXCEPT ![d] = p]
        /\ excused' = (excused \ {d}) \cup {x \in {d} : p \in Projects /\ Leaving(p, Passing)}
        /\ Return(r)
        /\ UNCHANGED <<users, admins, signedUp, access, projects, started, owner, overlapped>>
    BY <1>5 DEF UpdateProject, accounts, projectVars
  <2>2. owner' \in [Databases -> Users \cup {None}] /\ owner'[d] # None
        /\ \A e \in Databases : owner[e] # None => owner'[e] # None
    BY <1>1, <1>5, <2>1 DEF Tables
  <2> HIDE DEF p
  <2> QED
    BY <1>2, <2>1, <2>2, PlaceStep
<1> QED
  BY <1>3, <1>4, <1>5

-----------------------------------------------------------------------------
LEMMA Inductive == IInv /\ [Next]_vars => IInv'
<1> SUFFICES ASSUME IInv, [Next]_vars PROVE IInv'
  OBVIOUS
<1>1. CASE UNCHANGED vars
  <2>1. UNCHANGED <<users, admins, signedUp, access, projects, started, home, owner, req,
                    overlapped, excused>>
    BY <1>1 DEF vars
  <2>2. Tables' /\ IdsDiffer' /\ AdminsAlike' /\ AdminRemains' /\ ReferencesResolve'
    BY <2>1 DEF IInv, Tables, IdsDiffer, AdminsAlike, AdminRemains, ReferencesResolve
  <2>3. ASSUME NEW x \in Requests PROVE Sound(req[x])'
    <3>1. Sound(req[x])
      BY DEF IInv
    <3> QED
      BY <2>1, <3>1 DEF Sound, OnRoute, About, FirstOrNot, Counted, SeenTo
  <2> QED
    BY <2>1, <2>2, <2>3 DEF IInv
<1>2. ASSUME NEW r \in Requests, Arrive(r) \/ Checks(r) \/ Writes(r) \/ Refused(r) PROVE IInv'
  <2>1. CASE Arrive(r)
    BY <2>1, ArriveStep
  <2>2. CASE Checks(r)
    BY <2>2, CheckStep
  <2>3. CASE Refused(r)
    BY <2>3, ReturnStep DEF Refused, accounts, projectVars, databaseVars, history
  <2>4. CASE Writes(r)
    <3>1. CASE InsertUser(r) \/ DeleteUser(r)
      BY <3>1, InsertUserStep, DeleteUserStep
    <3>2. CASE ReplaceUserAccess(r) \/ ReplaceProjectUsers(r) \/ ShareProject(r)
      BY <3>2, AccessSteps
    <3>3. CASE (\E p \in Projects : InsertProject(r, p)) \/ ListDatabases(r) \/ Swept(r)
               \/ Unshare(r) \/ DropProject(r)
      BY <3>3, InsertProjectStep, ListDatabasesStep, SweptStep, UnshareStep, DropProjectStep
    <3>4. CASE \E d \in Databases : DeleteResources(r, d) \/ InsertDatabase(r, d) \/ UpdateProject(r, d)
      BY <3>4, DeleteResourcesStep, PlaceSteps
    <3> QED
      BY <2>4, <3>1, <3>2, <3>3, <3>4 DEF Writes
  <2> QED
    BY <1>2, <2>1, <2>2, <2>3, <2>4
<1> QED
  BY <1>1, <1>2 DEF Next

LEMMA Invariance == Spec => []IInv
  BY InitOK, Inductive, PTL DEF Spec

(* Tables and requests are what their declarations say, and no request is  *)
(* at a step its handler does not have.                                    *)
THEOREM TypeCorrect == Spec => []TypeOK
<1>1. IInv => TypeOK
  BY OpsOfRoute DEF IInv, Tables, TypeOK, Recs
<1> QED
  BY <1>1, Invariance, PTL

(* Two registrations make one administrator at most unless they overlap    *)
(* before the first user, whoever is removed or registered in between.     *)
THEOREM OneAdministrator == Spec => []OneAdmin
<1>1. IInv => OneAdmin
  <2> SUFFICES ASSUME IInv, "registrations" \notin overlapped PROVE Cardinality(admins) <= 1
    BY DEF OneAdmin
  <2>1. \A u, v \in admins : u = v
    BY DEF IInv, AdminsAlike
  <2>2. CASE admins = {}
    BY <2>2, FS_EmptySet
  <2>3. CASE admins # {}
    <3>1. PICK u \in admins : TRUE
      BY <2>3
    <3>2. admins = {u}
      BY <2>1, <3>1
    <3> QED
      BY <3>2, FS_Singleton
  <2> QED
    BY <2>2, <2>3
<1> QED
  BY <1>1, Invariance, PTL

(* From the first registration on somebody administers, unless two         *)
(* removals overlap.                                                       *)
THEOREM Administered == Spec => []AdminRemains
<1>1. IInv => AdminRemains
  BY DEF IInv
<1> QED
  BY <1>1, Invariance, PTL

(* References are to rows that exist, but for those written while their    *)
(* target was being removed.                                               *)
THEOREM NothingDangles == Spec => []ReferencesResolve
<1>1. IInv => ReferencesResolve
  BY DEF IInv
<1> QED
  BY <1>1, Invariance, PTL
=============================================================================
