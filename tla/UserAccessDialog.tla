---------------------------- MODULE UserAccessDialog ----------------------------
(***************************************************************************)
(* The dialog with one user's projects and permissions (components/users/  *)
(* UserManagementPanel.tsx).  They are two documents of the user; Default  *)
(* stands for a selection, the same one for both, and 0 for an empty one.  *)
(* The selections are hooks of the panel, not of the dialog: `from` is the *)
(* user they were loaded for.                                              *)
(***************************************************************************)
EXTENDS DashboardPage

AccessHooks ==
    [busy |-> {}, open |-> FALSE, active |-> None, selected |-> 0, from |-> None]

OpenPanel == page = "user access" /\ OpenAt(Server, AccessHooks, {})

(* The dialog is a spinner while `access` is up; it can be closed at any   *)
(* time, and covers the list of users.                                     *)
AccessControls ==
    IF ~view.open THEN {"open"}
    ELSE {"close"} \cup (IF "access" \in view.busy THEN {}
                         ELSE {"toggle"} \cup ({"save"} \ view.busy))

(* openPermissionsDialog: the selections stay what they were until the     *)
(* answers are back.                                                       *)
OpenAccess(u) ==
    /\ "open" \in AccessControls
    /\ Act([Busy(view, "access") EXCEPT !.open = TRUE, !.active = u],
           {Request("access", [user |-> u])})

CloseAccess == "close" \in AccessControls /\ Act([view EXCEPT !.open = FALSE], {})

(* It goes on, whichever user the dialog shows by now; a failure empties   *)
(* the selections, and the dialog can be saved all the same.               *)
AccessLoaded(r) ==
    /\ r.op = "access"
    /\ Handle(r, [Idle(view, "access") EXCEPT
                     !.selected = IF r.ans = Failed THEN 0 ELSE r.ans, !.from = r.arg.user], {})

ToggleAccess(v) ==
    /\ "toggle" \in AccessControls /\ v # view.selected
    /\ Act([view EXCEPT !.selected = v], {})

SaveAccess ==
    /\ "save" \in AccessControls
    /\ Act(Busy(view, "save"),
           {Request("projects", [user |-> view.active, selected |-> view.selected,
                                 from |-> view.from])})

(* Projects first, then permissions; the dialog closes when both are       *)
(* stored, whichever user it shows by now.                                 *)
AccessSaved(r) ==
    /\ r.op \in {"projects", "permissions"}
    /\ IF r.ans = Failed THEN Handle(r, Idle(view, "save"), {})
       ELSE IF r.op = "projects"
       THEN Handle(r, view, Sent(r.at, {Request("permissions", r.arg)}))
       ELSE Handle(r, [Idle(view, "save") EXCEPT !.open = FALSE], {})

(* GET answers with both documents; that they may be of different saves is *)
(* left out, as the selections are one value.                              *)
AccessServer(r) ==
    LET s == IF r.op = "access" THEN srv
             ELSE [srv EXCEPT ![r.at][r.arg.user][r.op] = r.arg.selected] IN
    \/ \E op \in {"projects", "permissions"} :
         ServerAnswers(r, s, IF r.op = "access" THEN srv[r.at][r.arg.user][op] ELSE Ok)
    \/ ServerFails(r, s)

AccessNext ==
    /\ page = "user access"
    /\ \/ /\ at # None
          /\ \/ CloseAccess \/ SaveAccess
             \/ \E u \in Items : OpenAccess(u)
             \/ \E v \in {0, Default} : ToggleAccess(v)
       \/ \E r \in net : AccessLoaded(r) \/ AccessSaved(r) \/ AccessServer(r)

=============================================================================
