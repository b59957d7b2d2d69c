---------------------------- MODULE ConnectionsPage ----------------------------
(***************************************************************************)
(* The sessions of one database's PostgreSQL (pages/                       *)
(* DatabaseConnections.tsx): a list polled every five seconds, and a       *)
(* button on each row that terminates it after a confirmation.             *)
(***************************************************************************)
EXTENDS DashboardPage

ConnectionsHooks ==
    [busy |-> {"load"}, database |-> FALSE, error |-> FALSE,
     list |-> {}, confirm |-> None]

(* fetchDatabase and fetchConnections, on [id]; nothing resets the hooks.  *)
ConnectionsRequests == {Request("database", None), Request("list", None)}

OpenConnections ==
    page = "connections" /\ \E d \in Dbs : OpenAt(d, ConnectionsHooks, ConnectionsRequests)

SwitchConnections ==
    page = "connections" /\ \E d \in Dbs : SwitchTo(d, view, ConnectionsRequests)

(* The interval of the effect.                                             *)
PollConnections ==
    /\ at # None
    /\ Act(view, {Request("list", None)})

(* Nothing to press while loading or in error.  With the dialog open the   *)
(* rest is behind it, and its buttons are disabled while any termination   *)
(* is out; Escape closes it all the same.                                  *)
ConnectionsControls ==
    IF view.error \/ ~view.database THEN {}
    ELSE IF view.confirm = None
         THEN {<<"ask", p>> : p \in view.list \ view.busy}
         ELSE {<<"close", view.confirm>>}
              \cup (IF view.busy \cap Items = {} THEN {<<"terminate", view.confirm>>} ELSE {})

AskTermination(p) ==
    /\ <<"ask", p>> \in ConnectionsControls
    /\ Act([view EXCEPT !.confirm = p], {})

CloseTermination(p) ==
    /\ <<"close", p>> \in ConnectionsControls
    /\ Act([view EXCEPT !.confirm = None], {})

(* setTerminatingPid holds one pid: a second would replace the first.      *)
Terminate(p) ==
    /\ <<"terminate", p>> \in ConnectionsControls
    /\ Act([view EXCEPT !.busy = (@ \ Items) \cup {p}], {Request("terminate", p)})

(* terminateConnection goes on: the list is fetched again, for the database*)
(* the handler started with, and the dialog closes.                        *)
Terminated(r) ==
    /\ r.op = "terminate"
    /\ Handle(r, [view EXCEPT !.busy = @ \ Items, !.confirm = None],
              IF r.ans = Failed THEN {} ELSE Sent(r.at, {Request("list", None)}))

ConnectionsListed(r) ==
    /\ r.op = "list"
    /\ Handle(r, IF r.ans = Failed THEN Idle(view, "load")
                 ELSE [Idle(view, "load") EXCEPT !.list = r.ans], {})

(* An error is never cleared: the page shows it until it is left.          *)
DatabaseNamed(r) ==
    /\ r.op = "database"
    /\ Handle(r, IF r.ans = Failed THEN [view EXCEPT !.error = TRUE]
                 ELSE [view EXCEPT !.database = TRUE], {})

ConnectionsServer(r) ==
    LET s == IF r.op = "terminate" THEN [srv EXCEPT ![r.at] = @ \ {r.arg}] ELSE srv IN
    \/ ServerAnswers(r, s, IF r.op = "list" THEN srv[r.at] ELSE Ok)
    \/ ServerFails(r, s)

(* Sessions come and go by themselves.                                     *)
SessionsChange ==
    /\ \E d \in Dbs, p \in Items :
         srv' = [srv EXCEPT ![d] = IF p \in @ THEN @ \ {p} ELSE @ \cup {p}]
    /\ UNCHANGED <<page, at, view, kept, net, upset>>

ConnectionsNext ==
    /\ page = "connections"
    /\ \/ SessionsChange
       \/ at # None /\ \/ SwitchConnections \/ PollConnections
                         \/ \E p \in Items : \/ AskTermination(p) \/ CloseTermination(p)
                                             \/ Terminate(p)
       \/ \E r \in net : \/ Terminated(r) \/ ConnectionsListed(r) \/ DatabaseNamed(r)
                         \/ ConnectionsServer(r)

=============================================================================
