------------------------------ MODULE ProjectDialog ------------------------------
(***************************************************************************)
(* The drawer of a project (components/ManageProjectDialog.tsx): its name, *)
(* and for an administrator the users who see it.  The drawer outlives the *)
(* project it is open for: Dbs are the projects here, and opening it for   *)
(* another one is the move.  A value of Vals is a name, or a selection of  *)
(* users.  `from` is whose users are selected.                             *)
(***************************************************************************)
EXTENDS DashboardPage

(* The effect on [project, open]: the name comes with the project, the     *)
(* users are asked for, and those of the last project stay until they are  *)
(* there.                                                                  *)
ShowProject(v, d) == [Busy(v, "users") EXCEPT !.name = srv[d].name]

ProjectHooks(may) == [busy |-> {}, may |-> may, name |-> Default, users |-> Default, from |-> None]

OpenProject ==
    /\ page = "project"
    /\ \E d \in Dbs, may \in {{"name"}, {"name", "users"}} :
         OpenAt(d, ShowProject(ProjectHooks(may), d), {Request("load", None)})

SwitchProject ==
    /\ page = "project"
    /\ \E d \in Dbs : SwitchTo(d, ShowProject(view, d), {Request("load", None)})

(* Neither the inputs nor Save wait for the users.                         *)
ProjectDialogControls ==
    ({"name"} \cap view.may)
    \cup (IF "users" \in view.busy THEN {} ELSE {"users"} \cap view.may)
    \cup (IF view.may = {} THEN {} ELSE {"save"} \ view.busy)

(* fetchProjectData goes on: an error leaves the users of the last project.*)
ProjectLoaded(r) ==
    /\ r.op = "load"
    /\ Handle(r, IF r.ans = Failed THEN Idle(view, "users")
                 ELSE [Idle(view, "users") EXCEPT !.users = r.ans.users, !.from = r.at], {})

EditProjectDialog ==
    \/ /\ "name" \in ProjectDialogControls
       /\ \E v \in Vals \ {view.name} : Act([view EXCEPT !.name = v], {})
    \/ /\ "users" \in ProjectDialogControls
       /\ \E v \in Vals \ {view.users} : Act([view EXCEPT !.users = v], {})

(* handleSave: the name first, then the users, each if it is allowed.      *)
SaveProjectDialog ==
    /\ "save" \in ProjectDialogControls
    /\ Act(Busy(view, "save"),
           {Request(IF "name" \in view.may THEN "name" ELSE "users",
                    [name |-> view.name, users |-> view.users, both |-> "users" \in view.may])})

(* It goes on; when all is stored the drawer closes.                       *)
ProjectPartSaved(r) ==
    /\ r.op \in {"name", "users"}
    /\ IF r.ans = Failed THEN Handle(r, Idle(view, "save"), {})
       ELSE IF r.op = "name" /\ r.arg.both
       THEN Handle(r, view, Sent(r.at, {Request("users", r.arg)}))
       ELSE IF r.mine
       THEN /\ Back(r)
            /\ at' = None /\ view' = Gone /\ net' = Left(net \ {r})
            /\ UNCHANGED <<page, kept, srv, upset>>
       ELSE Handle(r, view, {})

ProjectServer(r) ==
    LET s == IF r.op = "load" THEN srv ELSE [srv EXCEPT ![r.at][r.op] = r.arg[r.op]] IN
    ServerAnswers(r, s, srv[r.at]) \/ ServerFails(r, s)

ProjectNext ==
    /\ page = "project"
    /\ \/ at # None /\ (SwitchProject \/ EditProjectDialog \/ SaveProjectDialog)
       \/ \E r \in net : ProjectLoaded(r) \/ ProjectPartSaved(r) \/ ProjectServer(r)

=============================================================================
