------------------------------ MODULE UpdatesPage ------------------------------
(***************************************************************************)
(* The update status of the server (pages/Security.tsx).  The server keeps *)
(* it (SystemUpdate.tla): `checking` while it looks for a new version, and *)
(* whether one is available.  The page asks once when it is opened, and    *)
(* when the button starts a check, which answers with the status after it. *)
(***************************************************************************)
EXTENDS DashboardPage

UpdatesHooks ==
    [busy |-> {"load"}, status |-> [checking |-> FALSE, available |-> None], section |-> "baseful"]

OpenUpdates ==
    page = "updates" /\ OpenAt(Server, UpdatesHooks, {Request("load", None)})

UpdatesControls ==
    IF "load" \in view.busy THEN {}
    ELSE {"section"} \cup
         (IF view.section = "baseful" /\ "check" \notin view.busy /\ ~view.status.checking
          THEN {"check"} ELSE {})

(* fetchUpdateStatus, unforced and forced.                                 *)
UpdateStatusFetched(r) ==
    /\ r.op \in {"load", "check"}
    /\ LET v == [view EXCEPT !.busy = @ \ {"load", r.op}] IN
       Handle(r, IF r.ans = Failed THEN v ELSE [v EXCEPT !.status = r.ans], {})

CheckUpdates ==
    /\ "check" \in UpdatesControls
    /\ Act(Busy(view, "check"), {Request("check", None)})

ChooseSection ==
    /\ "section" \in UpdatesControls
    /\ Act([view EXCEPT !.section = IF @ = "baseful" THEN "system" ELSE "baseful"], {})

(* A check of the server, its half-hourly one too, begins and ends by itself.   *)
ServerChecks ==
    /\ \/ /\ ~srv[Server].checking
          /\ srv' = [srv EXCEPT ![Server].checking = TRUE]
       \/ /\ srv[Server].checking
          /\ \E b \in BOOLEAN : srv' = [srv EXCEPT ![Server] = [checking |-> FALSE, available |-> b]]
    /\ UNCHANGED <<page, at, view, kept, net, upset>>

UpdatesServer(r) ==
    \/ ServerAnswers(r, srv, srv[r.at])
    \/ ServerFails(r, srv)
    \/ /\ r.op = "check"
       /\ \E b \in BOOLEAN :
            LET done == [checking |-> FALSE, available |-> b] IN
            ServerAnswers(r, [srv EXCEPT ![r.at] = done], done)

UpdatesNext ==
    /\ page = "updates"
    /\ \/ ServerChecks
       \/ at # None /\ (CheckUpdates \/ ChooseSection)
       \/ \E r \in net : UpdateStatusFetched(r) \/ UpdatesServer(r)

=============================================================================
