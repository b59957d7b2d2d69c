----------------------------- MODULE NavigationPage -----------------------------
(***************************************************************************)
(* What surrounds the pages: the side bar and the mobile dock (components/ *)
(* dashboard), the home page, the lists of DatabaseContext and             *)
(* ProjectContext they show, and the dialogs that add to those lists.  The *)
(* databases (page "navigation") and the projects (page "projects") share  *)
(* no hook, and are two pages here.  One address stands for those of a     *)
(* kind: "dashboard" for the pages of a database anyone may open, "backup" *)
(* for those that want a permission, "server" for those of the server and  *)
(* of the administrator.  Vals are the names of a project.  The providers  *)
(* are outside of Routes, so the `id` they read from the address is never  *)
(* there.                                                                  *)
(***************************************************************************)
EXTENDS DashboardPage

Home == [page |-> "home", db |-> None]

NavigationHooks(may) ==
    [busy |-> {}, may |-> may, route |-> Home, dbs |-> {}, selected |-> None, project |-> None,
     edited |-> None, dialog |-> FALSE, crashed |-> FALSE]

(* The providers fetch their lists.  fetchDatabases goes by the selection  *)
(* of the render it was called in.                                         *)
OpenNavigation ==
    \E may \in {{}, {"backup", "server", "create", "edit"}} :
       \/ /\ page = "navigation"
          /\ OpenAt(Server, NavigationHooks(may), {Request("list", None)})
       \/ /\ page = "projects"
          /\ OpenAt(Server, NavigationHooks(may), {Request("load", None)})

(* A dialog of the create menu is modal; an application that crashed shows *)
(* nothing.                                                                *)
Shown == ~view.crashed /\ ~view.dialog

(* The effect of the side bar on the address, the databases and the        *)
(* selection, and the redirection of BackupRoute.                          *)
Settled(v) ==
    LET w == IF v.route.page = "backup" /\ "backup" \notin v.may
             THEN [v EXCEPT !.route.page = "dashboard"] ELSE v IN
    IF w.route.db \in w.dbs THEN [w EXCEPT !.selected = w.route.db] ELSE w

(* The links of the side bar.  Those of a database are for the selected    *)
(* one, which need not be the one of the address, or in the list.          *)
SidebarLinks ==
    {Home} \cup
    (IF view.selected = None THEN {}
     ELSE {[page |-> p, db |-> view.selected] : p \in {"dashboard"} \cup ({"backup"} \cap view.may)})
    \cup {[page |-> p, db |-> None] : p \in {"server"} \cap view.may}

(* The links of the dock: none at all while no database is selected.       *)
DockLinks == IF view.selected = None THEN {} ELSE SidebarLinks \ {Home}

(* The cards of the home page.                                             *)
HomeLinks ==
    IF view.route = Home THEN {[page |-> "dashboard", db |-> d] : d \in view.dbs} ELSE {}

FollowLink(l) ==
    /\ Shown /\ l # view.route
    /\ l \in SidebarLinks \cup DockLinks \cup HomeLinks
    /\ Act(Settled([view EXCEPT !.route = l]), {})

(* An address that was kept elsewhere.                                     *)
TypeAddress(d) ==
    /\ Shown /\ view.route.db # d
    /\ Act(Settled([view EXCEPT !.route = [page |-> "backup", db |-> d]]), {})

(* The selector: getDatabaseSwitchPath keeps the page of a database.       *)
PickDatabase(d) ==
    /\ Shown /\ d \in view.dbs /\ d # view.selected
    /\ Act(Settled([view EXCEPT !.selected = d, !.route =
                       [page |-> IF @.db = None THEN "dashboard" ELSE @.page, db |-> d]]), {})

(* fetchDatabases goes on.  An error answer has a body too: it is taken for*)
(* the list, which the side bar cannot render, and the application is gone *)
(* until it is loaded again.  Only a request that threw leaves all alone.  *)
DatabasesListed(r) ==
    /\ r.op = "list" /\ Back(r)
    /\ IF r.ans = Failed
       THEN Handle(r, view, {}) \/ Handle(r, [view EXCEPT !.crashed = TRUE], {})
       ELSE \E first \in IF r.ans.dbs = {} THEN {None} ELSE r.ans.dbs :
              Handle(r, Settled([view EXCEPT
                                    !.dbs = r.ans.dbs,
                                    !.selected = IF r.arg \in r.ans.dbs THEN @
                                                 ELSE IF r.arg = None /\ r.ans.dbs = {} THEN @
                                                 ELSE first]), {})

(* fetchProjects goes on, awaited by saveProjectEdit or by nobody.         *)
ProjectsListed(r) ==
    /\ r.op = "load" /\ Back(r)
    /\ LET v == IF r.arg = "rename" THEN [Idle(view, "rename") EXCEPT !.edited = None] ELSE view IN
       IF r.ans = Failed
       THEN Handle(r, v, {}) \/ Handle(r, [v EXCEPT !.crashed = TRUE], {})
       ELSE Handle(r, [v EXCEPT !.project = r.ans.project], {})

(* The name of a project in the selector of the side bar.  The input and   *)
(* its buttons are disabled while it is saved; Cancel never is.            *)
ProjectControls ==
    IF ~Shown THEN {}
    ELSE IF view.edited = None
    THEN IF "edit" \in view.may /\ view.project # None THEN {"start"} ELSE {}
    ELSE {"cancel"} \cup (IF "rename" \in view.busy THEN {} ELSE {"type", "save"})

EditProject ==
    \/ "start" \in ProjectControls /\ Act([view EXCEPT !.edited = view.project], {})
    \/ "cancel" \in ProjectControls /\ Act([view EXCEPT !.edited = None], {})
    \/ /\ "type" \in ProjectControls
       /\ \E v \in Vals \ {view.edited} : Act([view EXCEPT !.edited = v], {})

(* saveProjectEdit: a name that did not change is not sent.                *)
SaveProject ==
    /\ "save" \in ProjectControls
    /\ IF view.edited = view.project THEN Act([view EXCEPT !.edited = None], {})
       ELSE Act(Busy(view, "rename"), {Request("rename", view.edited)})

(* updateProjectName goes on; a failure leaves the input open.             *)
ProjectSaved(r) ==
    /\ r.op = "rename"
    /\ IF r.ans = Failed THEN Handle(r, Idle(view, "rename"), {})
       ELSE Handle(r, view, Sent(r.at, {Request("load", "rename")}))

(* The menu that creates a project or a database, and its dialogs, which   *)
(* can be closed at any time; closing them stops nothing.                  *)
CreateControls ==
    IF view.crashed \/ "create" \notin view.may THEN {}
    ELSE IF view.dialog THEN {"close"} \cup ({"create"} \ view.busy)
    ELSE {"open"}

OpenCreate ==
    \/ "open" \in CreateControls /\ Act([view EXCEPT !.dialog = TRUE], {})
    \/ "close" \in CreateControls /\ Act([view EXCEPT !.dialog = FALSE], {})

(* handleSubmit of the two dialogs.                                        *)
SubmitProject ==
    /\ page = "projects" /\ "create" \in CreateControls
    /\ Act(Busy(view, "create"), {Request("create project", None)})

SubmitDatabase ==
    /\ page = "navigation" /\ "create" \in CreateControls
    /\ Act(Busy(view, "create"), {Request("create database", view.selected)})

CreateEnds(v) == [Idle(v, "create") EXCEPT !.dialog = FALSE]

ProjectCreated(r) ==
    /\ r.op = "create project"
    /\ IF r.ans = Failed THEN Handle(r, Idle(view, "create"), {})
       ELSE Handle(r, CreateEnds(view), Sent(r.at, {Request("load", None)}))

(* The stream ends with the new database: it is selected and opened before *)
(* the list has it, and the list is asked for.                             *)
DatabaseCreated(r) ==
    /\ r.op = "create database"
    /\ IF r.ans = Failed THEN Handle(r, Idle(view, "create"), {})
       ELSE Handle(r, Settled([CreateEnds(view) EXCEPT
                                  !.selected = r.ans.new,
                                  !.route = [page |-> "dashboard", db |-> r.ans.new]]),
                   Sent(r.at, {Request("list", r.arg)}))

(* handleAction("delete") of DatabaseDetail.tsx, for what it does here.    *)
DeleteShown ==
    /\ Shown /\ view.route.page = "dashboard" /\ view.route.db \in view.dbs
    /\ "delete" \notin view.busy
    /\ Act(Busy(view, "delete"), {Request("delete", [db |-> view.route.db, selected |-> view.selected])})

ShownDeleted(r) ==
    /\ r.op = "delete"
    /\ IF r.ans = Failed THEN Handle(r, Idle(view, "delete"), {})
       ELSE Handle(r, [Idle(view, "delete") EXCEPT !.route = Home],
                   Sent(r.at, {Request("list", r.arg.selected)}))

NavigationServer(r) ==
    LET w == srv[r.at]
        did(s, a) == ServerAnswers(r, s, a) \/ ServerFails(r, s) IN
    \/ r.op \in {"list", "load"} /\ did(srv, [dbs |-> w.dbs, project |-> w.project])
    \/ r.op = "rename" /\ did([srv EXCEPT ![r.at].project = r.arg], Ok)
    \/ r.op = "create project" /\ did(srv, Ok)
    \/ /\ r.op = "create database"
       /\ \/ \E d \in Dbs \ w.dbs : did([srv EXCEPT ![r.at].dbs = @ \cup {d}], [new |-> d])
          \/ ServerAnswers(r, srv, Failed)
    \/ r.op = "delete" /\ did([srv EXCEPT ![r.at].dbs = @ \ {r.arg.db}], Ok)

NavigationNext ==
    /\ page = "navigation"
    /\ \/ /\ at # None
          /\ \/ \E l \in SidebarLinks \cup HomeLinks : FollowLink(l)
             \/ \E d \in Dbs : TypeAddress(d) \/ PickDatabase(d)
             \/ OpenCreate \/ SubmitDatabase \/ DeleteShown
       \/ \E r \in net : \/ DatabasesListed(r) \/ DatabaseCreated(r) \/ ShownDeleted(r)
                         \/ NavigationServer(r)

ProjectsNext ==
    /\ page = "projects"
    /\ \/ at # None /\ (EditProject \/ SaveProject \/ OpenCreate \/ SubmitProject)
       \/ \E r \in net : \/ ProjectsListed(r) \/ ProjectSaved(r) \/ ProjectCreated(r)
                         \/ NavigationServer(r)

=============================================================================
