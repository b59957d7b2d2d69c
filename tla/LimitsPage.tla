------------------------------ MODULE LimitsPage ------------------------------
(***************************************************************************)
(* The CPU, memory and storage limits of a database (pages/Settings.tsx).  *)
(* A draft of 0 stands for any value the server refuses.                   *)
(***************************************************************************)
EXTENDS DashboardPage

LimitsHooks ==
    [busy |-> {"load"}, database |-> FALSE, draft |-> Default, stored |-> Default,
     error |-> FALSE, restart |-> FALSE]

LimitsRequests == {Request("database", None), Request("load", None)}

OpenLimits ==
    page = "limits" /\ \E d \in Dbs : OpenAt(d, LimitsHooks, LimitsRequests)

(* The effect depends on id alone and resets nothing: the limits and the   *)
(* draft of the old database are shown until the new ones arrive.          *)
SwitchLimits ==
    page = "limits" /\ \E d \in Dbs : SwitchTo(d, view, LimitsRequests)

(* The spinner ends with the database, not with the limits; an error hides *)
(* the form only if there is no database.  The inputs and the restart      *)
(* button are never disabled.                                              *)
LimitsControls ==
    IF "load" \in view.busy \/ (view.error /\ ~view.database) THEN {}
    ELSE {"edit"} \cup (IF view.restart THEN {"restart"} ELSE {})
                  \cup (IF view.draft # view.stored /\ "save" \notin view.busy
                        THEN {"reset", "save"} ELSE {})

LimitsDatabase(r) ==
    /\ r.op = "database"
    /\ Handle(r, IF r.ans = Failed THEN [Idle(view, "load") EXCEPT !.error = TRUE]
                 ELSE [Idle(view, "load") EXCEPT !.database = TRUE], {})

LimitsLoaded(r) ==
    /\ r.op = "load"
    /\ Handle(r, IF r.ans = Failed THEN view
                 ELSE [view EXCEPT !.draft = r.ans.v, !.stored = r.ans.v], {})

LimitsEdit(v) ==
    /\ "edit" \in LimitsControls
    /\ v # view.draft
    /\ Act([view EXCEPT !.draft = v], {})

(* handleSave uses the id of the address now, and the draft as it is.      *)
LimitsSave ==
    /\ "save" \in LimitsControls
    /\ Act([Busy(view, "save") EXCEPT !.error = FALSE], {Request("save", view.draft)})

LimitsSaved(r) ==
    /\ r.op = "save"
    /\ Handle(r, IF r.ans = Failed THEN [Idle(view, "save") EXCEPT !.error = TRUE]
                 ELSE [Idle(view, "save") EXCEPT !.stored = r.arg,
                           !.restart = r.ans.restart], {})

LimitsReset ==
    /\ "reset" \in LimitsControls
    /\ Act([view EXCEPT !.draft = view.stored, !.error = FALSE], {})

LimitsRestart ==
    /\ "restart" \in LimitsControls
    /\ Act(view, {Request("restart", None)})

(* The answer's status is not looked at: only a request that threw is an   *)
(* error, a refused restart is announced as done.                          *)
LimitsRestarted(r) ==
    /\ r.op = "restart"
    /\ \/ Handle(r, [view EXCEPT !.restart = FALSE], {})
       \/ r.ans = Failed /\ Handle(r, [view EXCEPT !.error = TRUE], {})

(* PUT refuses what is out of bounds, stores the rest, and asks for a      *)
(* restart when the database runs.                                         *)
LimitsServer(r) ==
    \/ /\ r.op \in {"load", "database", "restart"}
       /\ \/ ServerAnswers(r, srv, [v |-> srv[r.at], restart |-> FALSE])
          \/ ServerFails(r, srv)
    \/ r.op = "save" /\ r.arg = 0 /\ ServerAnswers(r, srv, Failed)
    \/ /\ r.op = "save" /\ r.arg # 0
       /\ LET s == [srv EXCEPT ![r.at] = r.arg] IN
            \/ \E b \in BOOLEAN : ServerAnswers(r, s, [v |-> r.arg, restart |-> b])
            \/ ServerFails(r, s)

LimitsNext ==
    /\ page = "limits"
    /\ \/ at # None /\ \/ SwitchLimits \/ LimitsSave \/ LimitsReset \/ LimitsRestart
                         \/ \E v \in Vals \cup {0} : LimitsEdit(v)
       \/ \E r \in net : \/ LimitsDatabase(r) \/ LimitsLoaded(r) \/ LimitsSaved(r)
                         \/ LimitsRestarted(r) \/ LimitsServer(r)

=============================================================================
