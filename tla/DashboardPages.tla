---------------------------- MODULE DashboardPages ----------------------------
(***************************************************************************)
(* The dashboard's pages: which one a behaviour is about is chosen at the  *)
(* start, since they share nothing but the server.                         *)
(***************************************************************************)
EXTENDS MonitoringPage, NotificationsPage, ConnectionsPage,
        LimitsPage, BranchesPage, WebServerPage, SQLPage, ProfilePage, UsersPage,
        UserAccessDialog, UpdatesPage, BackupSettingsPage, BackupListPage, TablesPage,
        DatabasePage, NavigationPage, ProjectDialog, ContainersPage, TopologyCardsPage

CONSTANT Pages      \* the pages this run is about

(* The flags the pages raise.  In the code a flag is a hook of its own, and*)
(* what it holds may be an item: none of the items is called like a flag.  *)
FlagNames ==
    {"load", "list", "rows", "save", "create", "start", "stop", "restart", "delete", "secure",
     "rotate", "action", "add", "remove", "rename", "whitelist", "access", "logs", "exec",
     "assign", "email", "discord", "profile", "password", "key", "check", "backup", "rollback",
     "restore file", "restore connection", "decrypt", "run", "assistant", "users", "status",
     "avatar", "connection", "poll", "link", "effect", Proxy}

ASSUME PagesAssumption ==
    /\ (Items \cup {None}) \cap FlagNames = {} /\ None \notin Items \cup Branches
    /\ Pages \subseteq
         {"monitoring", "notifications", "preferences", "connections", "limits", "branches",
          "webserver", "sql", "profile", "users", "user access", "updates", "backup settings",
          "backups", "tables", "relations", "database", "connection string", "navigation",
          "projects", "project", "containers", "moves", "logs", "terminal", "cards",
          "card removal"}

(* What the server can hold for a page when it is first opened.            *)
Stored(p) ==
    CASE p = "monitoring" -> [{Server} -> [on : {TRUE}, rate : Vals]]
      [] p = "notifications" -> [{Server} -> [channels : {Default}, events : Vals, master : {FALSE}]]
      [] p \in {"preferences", "limits"} -> [Dbs -> Vals]
      [] p = "connections" -> [Dbs -> {Items}]
      [] p = "branches" -> [Dbs -> {NoBranches}]
      [] p = "webserver" -> [{Server} -> [domain : Vals \cup {None}, ssl : {FALSE}, cert : {None}]]
      [] p = "profile" -> [{Server} -> [name : {Default}, avatar : {Default}, key : BOOLEAN]]
      [] p = "users" -> [{Server} -> [mail : BOOLEAN, users : {Items}]]
      [] p = "user access" ->
            [{Server} -> [Items -> {[projects |-> Default, permissions |-> Default]}]]
      [] p = "updates" -> [{Server} -> [checking : BOOLEAN, available : {FALSE}]]
      [] p = "backup settings" -> {[d \in Dbs |-> [FreshForm(d) EXCEPT !.access = Default]]}
      [] p = "backups" -> [Dbs -> [Backups -> {"none", "completed"}]]
      [] p \in DatabasePages -> [Dbs -> [status : {"active"}, token : {0}]]
      [] p \in TablesPages -> [Dbs -> Items]
      [] p = "navigation" -> [{Server} -> [dbs : SUBSET Dbs, project : {None}]]
      [] p = "projects" -> [{Server} -> [dbs : {Dbs}, project : {Default}]]
      [] p = "project" -> [Dbs -> [name : {Default}, users : {Default}]]
      [] p = "sql" -> [Dbs -> {Ok}]
      [] p = "containers" ->
            [{Server} -> [Items -> [running : BOOLEAN, project : {Default}]]]
      [] p \in {"moves", "logs", "terminal"} ->
            [{Server} -> [Items -> {[running |-> TRUE, project |-> Default]}]]
      [] p = "cards" ->
            [{Server} -> [dbs : {Dbs}, settings : [Dbs -> {"off", "on", "auto"}], doc : {NoCards}]]
      [] p = "card removal" ->
            [{Server} -> [dbs : {Dbs}, settings : [Dbs -> {"off", "auto"}], doc : CardsBefore]]

(* What outlives a page, before it is first opened.                        *)
Remembered(p) ==
    LET nothing == [d \in Dbs |-> None] IN
    CASE p = "profile" -> [name |-> Default, avatar |-> Default]
      [] p = "backup settings" -> [settings |-> nothing, stale |-> {}]
      [] p = "backups" -> [backups |-> nothing, stale |-> {}]
      [] p \in DatabasePages -> [detail |-> nothing, stale |-> {}, broken |-> {}]
      [] OTHER -> None

PagesInit ==
    /\ page \in Pages
    /\ at = None /\ view = Gone /\ net = {} /\ upset = FALSE
    /\ kept = Remembered(page)
    /\ srv \in Stored(page)

OpenPage ==
    \/ OpenMonitoring \/ OpenNotifications \/ OpenPreferences \/ OpenConnections \/ OpenLimits
    \/ OpenBranches \/ OpenWebServer \/ OpenSQL \/ OpenProfile \/ OpenUsers \/ OpenPanel
    \/ OpenUpdates
    \/ OpenBackupSettings \/ OpenBackupList \/ OpenTables \/ OpenDatabase
    \/ OpenNavigation \/ OpenProject \/ OpenContainers \/ OpenTopology

PagesNext ==
    \/ OpenPage \/ Leave
    \/ MonitoringNext \/ NotificationsNext \/ PreferencesNext \/ ConnectionsNext \/ LimitsNext
    \/ BranchesNext \/ WebServerNext \/ SQLNext \/ ProfileNext \/ UsersNext \/ AccessNext
    \/ UpdatesNext
    \/ BackupSettingsNext \/ BackupListNext \/ TablesNext \/ DatabaseNext
    \/ NavigationNext \/ ProjectsNext \/ ProjectNext \/ ContainersNext \/ TopologyNext

PagesSpec == PagesInit /\ [][PagesNext]_pageVars

-----------------------------------------------------------------------------
Own == {r \in net : r.mine}

(* The flags a request's handler, or one it leads to, takes down.          *)
Ends(r) ==
    IF page = "limits" THEN (IF r.op = "database" THEN {"load"} ELSE {r.op} \ {"load"})
    ELSE IF page = "connections" THEN (IF r.op = "list" THEN {"load"} ELSE {r.arg})
    ELSE IF page = "branches"
    THEN (IF r.op = "list" THEN {"load", r.arg.then}
          ELSE IF r.op = "create" THEN {"create"} ELSE BranchActions)
    ELSE IF page = "webserver" THEN (IF r.op = "load" THEN {"load", r.arg} ELSE {"action"})
    ELSE IF page = "users"
    THEN (IF r.op # "list" THEN {r.arg}
          ELSE {r.arg.then} \cup (IF r.arg.what = "mail" THEN {"whitelist"} ELSE {}))
    ELSE IF page = "user access" THEN (IF r.op = "access" THEN {"access"} ELSE {"save"})
    ELSE IF page = "notifications"
    THEN (IF r.op \in {"load"} \cup Tests THEN {r.op} ELSE {"save"})
    ELSE IF page = "profile" THEN (IF r.op = "load" THEN {"status"} ELSE {r.op})
    ELSE IF page \in DatabasePages
    THEN (IF r.op = "load" THEN {"connection"}
          ELSE IF r.op = "detail" THEN {"secure"}
          ELSE IF r.op = "rotate" THEN {"rotate"} ELSE DatabaseActions)
    ELSE IF page = "navigation"
    THEN (IF r.op = "create database" THEN {"create"} ELSE {r.op})
    ELSE IF page = "projects"
    THEN (IF r.op = "load" THEN {r.arg}
          ELSE IF r.op = "rename" THEN {"rename"} ELSE {"create"})
    ELSE IF page = "project" THEN (IF r.op = "load" THEN {"users"} ELSE {"save"})
    ELSE IF page \in ContainersPages
    THEN (IF r.op \in {"load", "logs"} THEN {r.op, r.arg}
          ELSE IF r.op = "exec" THEN {"exec"}
          ELSE IF r.op = "move" THEN {} ELSE {r.arg})
    ELSE IF page \in TopologyPages
    THEN (IF r.op = "load" THEN {"load", r.arg}
          ELSE IF r.op = "list" THEN {"load", r.arg.then}
          ELSE IF r.op = "create" THEN {"create"}
          ELSE IF r.op = "apply" THEN {"assign"}
          ELSE IF r.op \in {"save cards", "automate"} THEN {r.arg.then} \ {"link"}
          ELSE {"remove"})
    ELSE {r.op}

(* A page is never left with a spinner, or a disabled button, that no      *)
(* answer will end: whatever order answers come in, whatever fails, and    *)
(* wherever the user has moved in the meantime.                            *)
SpinnerHasRequest ==
    \A flag \in view.busy : \E r \in Own : flag \in Ends(r)

(* The reads that are not in Reads, and the writes no control guards: the  *)
(* restart of the limits, the input of the picture, the map's own save of  *)
(* its cards.                                                              *)
Unguarded == {"rows", "access", "logs", "restart", "avatar", "save cards"}

(* Two requests of one kind of change are never out together: a button that*)
(* starts one stays disabled until its handler is over, on the database the*)
(* user moved to as well (see Unguarded for the exceptions).               *)
OneWriteAtATime ==
    \A r, q \in Own :
        r # q /\ {r.op, q.op} \cap (Reads \cup Unguarded) = {}
            => Ends(r) \cap Ends(q) = {}

(* What the mounted page says is stored, where nothing else changes it.    *)
Agrees ==
    LET w == srv[at] IN
    CASE page = "monitoring" -> view.stored.on = w.on /\ view.stored.rate = w.rate
      [] page = "notifications" -> view.stored = w
      [] page \in {"preferences", "limits"} -> view.stored = w
      [] page = "branches" -> view.list = w
      [] page = "webserver" -> view.status.domain = w.domain /\ view.status.ssl = w.ssl
      [] page = "profile" ->
            kept = [name |-> w.name, avatar |-> w.avatar] /\ view.configured = w.key
      [] page = "users" -> view.mail = w.mail /\ view.users = w.users
      [] page = "user access" -> view.open => view.from = view.active
      [] page = "backup settings" ->
            kept["settings"][at] = [w EXCEPT !.access = IF @ = None THEN None ELSE Mask]
      [] page \in DatabasePages ->
            /\ w.status # "gone" => kept["detail"][at].status = w.status
            /\ view.string # None /\ view.string.of = at => view.string.token = w.token
      [] page \in TablesPages ->
            view.active /\ view.data # None => view.data = Rows(at, view.selected, view.window)
      [] page = "navigation" ->
            /\ view.dbs = w.dbs
            /\ view.selected \in w.dbs \cup {None}
            /\ view.selected = None => w.dbs = {}
            /\ view.route.db \in w.dbs => view.selected = view.route.db
      [] page = "projects" -> view.project = w.project
      [] page = "project" -> view.from = at
      [] page \in {"containers", "moves"} -> view.containers = w
      [] page = "logs" -> view.logs.text = view.logs.name
      [] page \in TopologyPages ->
            view.hydrated => view.doc = w.doc /\ view.last = w.doc
      [] OTHER -> TRUE

(* A page at rest says what is stored: every change is followed by what it *)
(* takes to show it, and nothing that was on its way for something else is *)
(* left on the screen.  Excused are a failure and two requests that        *)
(* overlap (see Crossed), until the page is opened again.                  *)
KnowsWhatIsStored == at # None /\ net = {} /\ ~upset => Agrees

(* The settings of one database's backups are never saved as another's,    *)
(* though the form outlives a move between them and is only replaced when  *)
(* the new settings arrive.                                                *)
SavedToItsOwnDatabase ==
    page = "backup settings" => \A r \in net : r.op = "save" => r.arg.of = r.at

(* The master switch is stored last: when it is sent, the channels and the *)
(* events chosen with it are stored, so nothing is announced by the old    *)
(* ones.                                                                   *)
MasterComesLast ==
    page = "notifications" /\ ~upset =>
        \A r \in net : r.op = "master" => /\ srv[r.at].channels = r.arg.form.channels
                                          /\ srv[r.at].events = r.arg.form.events

(* "Stored securely. Enter a new key to replace it." (Backup.tsx, under the*)
(* access key): what a save stores is a key the user typed, or the old one.*)
KeyReplacedOnlyByNewKey ==
    page = "backup settings" => \A d \in Dbs : srv[d].access # Mask
=============================================================================
