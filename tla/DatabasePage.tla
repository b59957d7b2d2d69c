------------------------------ MODULE DatabasePage ------------------------------
(***************************************************************************)
(* The dashboard of one database (pages/DatabaseDetail.tsx): its status,   *)
(* polled into the query cache every five seconds, the actions on it, and  *)
(* the dialog with its connection string.  The charts, which are polled in *)
(* the same way and decide nothing, and the global switch that hides them  *)
(* are left out, and so are the vacuum, an action that stores nothing, and *)
(* whether the ports are bound as old installations bound them: securing   *)
(* them is always offered.                                                 *)
(* The dialog shares nothing with the actions but the screen it covers: a  *)
(* behaviour follows either the actions (page "database") or the dialog    *)
(* (page "connection string").                                             *)
(* `broken` are the databases whose last fetch failed: their page is an    *)
(* error.                                                                  *)
(***************************************************************************)
EXTENDS DashboardPage

(* "restart" is start as well: it is the one that is always offered.       *)
DatabaseActions == {"restart", "stop", "delete", "secure"}

DatabaseHooks ==
    [busy |-> {}, connect |-> FALSE, string |-> None, confirm |-> None]

DatabasePages == {"database", "connection string"}

OpenDatabase ==
    /\ page \in DatabasePages
    /\ \E d \in Dbs : \E asked \in MayRefetch("detail", d) : OpenAt(d, DatabaseHooks, asked)

(* The string, the dialogs and the flags stay.                             *)
SwitchDatabase ==
    /\ page \in DatabasePages
    /\ \E d \in Dbs : \E asked \in MayRefetch("detail", d) : SwitchTo(d, view, asked)

PollDatabase == Refetch("detail", at) # {} /\ Act(view, Refetch("detail", at))

(* What can be pressed: a confirmation covers the page and the dialog, the *)
(* dialog covers the page.  actionLoading holds one action and disables the*)
(* buttons of all; a confirmation is disabled by its own action only.      *)
DatabaseControls ==
    LET db == kept["detail"][at]
        idle == view.busy \cap DatabaseActions = {} IN
    IF at \in kept.broken THEN {}
    ELSE IF view.confirm # None
    THEN {"close confirm"} \cup ({view.confirm} \ view.busy)
    ELSE IF view.connect
    THEN {"close"} \cup (IF view.string # None /\ {"connection", "rotate"} \cap view.busy = {}
                         THEN {"ask rotate"} ELSE {})
    ELSE IF page = "connection string" THEN {"connect"}
    ELSE IF ~idle \/ Loading("detail") \/ db = None THEN {}
    ELSE {"restart", "ask delete", "ask secure"} \cup (IF db.status = "stopped" THEN {} ELSE {"stop"})

DetailFetched(r) ==
    /\ r.op = "detail"
    /\ LET secured == "secure" \in view.busy /\ ~\E q \in net : q.mine /\ q.op = "secure" IN
       Settle(r, IF secured THEN [Idle(view, "secure") EXCEPT
                                     !.confirm = IF @ = "secure" THEN None ELSE @] ELSE view,
              [Fetched(r) EXCEPT !.broken = IF r.ans = Failed THEN @ \cup {r.at} ELSE @ \ {r.at}],
              {}, {})

(* handleAction, secureLegacyBindings and rotateConnectionToken.           *)
DatabaseAction(op) ==
    /\ op \in DatabaseControls \cap (DatabaseActions \cup {"rotate"})
    /\ Act(Busy(view, op), {Request(op, None)})

AskConfirmation ==
    \E c \in {<<"ask delete", "delete">>, <<"ask secure", "secure">>, <<"ask rotate", "rotate">>} :
        /\ c[1] \in DatabaseControls
        /\ Act([view EXCEPT !.confirm = c[2]], {})

CloseDialogs ==
    \/ "close confirm" \in DatabaseControls /\ Act([view EXCEPT !.confirm = None], {})
    \/ "close" \in DatabaseControls /\ Act([view EXCEPT !.connect = FALSE], {})

(* What the handler of op leaves behind: no action is loading, and its     *)
(* confirmation is closed.                                                 *)
ActionEnds(v, op) ==
    [v EXCEPT !.busy = @ \ (IF op = "rotate" THEN {"rotate"} ELSE DatabaseActions),
              !.confirm = IF @ = op THEN None ELSE @]

(* The database is fetched again, whichever the page shows by then; the    *)
(* handler of "secure" waits for that (see DetailFetched).                 *)
ActionDone(r) ==
    /\ r.op \in DatabaseActions \ {"delete"}
    /\ IF r.ans = Failed THEN Handle(r, ActionEnds(view, r.op), {})
       ELSE Invalidate(r, IF r.op = "secure" THEN view ELSE ActionEnds(view, r.op), "detail")

(* navigate("/"), wherever the user is by now.                             *)
DeleteDone(r) ==
    /\ r.op = "delete"
    /\ IF r.ans = Failed THEN Handle(r, ActionEnds(view, "delete"), {})
       ELSE /\ Back(r)
            /\ at' = None /\ view' = Gone
            /\ net' = Left(net \ {r})
            /\ UNCHANGED <<page, kept, srv, upset>>

(* fetchConnectionString: the old string stays if it fails.                *)
OpenConnect ==
    /\ "connect" \in DatabaseControls
    /\ Act([Busy(view, "connection") EXCEPT !.connect = TRUE], {Request("load", None)})

ConnectionStringFetched(r) ==
    /\ r.op = "load"
    /\ Handle(r, IF r.ans = Failed THEN Idle(view, "connection")
                 ELSE [Idle(view, "connection") EXCEPT !.string = r.ans.string], {})

TokenRotated(r) ==
    /\ r.op = "rotate"
    /\ Handle(r, IF r.ans = Failed THEN ActionEnds(view, "rotate")
                 ELSE [ActionEnds(view, "rotate") EXCEPT !.string = r.ans.string], {})

(* A database that was deleted answers nothing any more.                   *)
DatabaseServer(r) ==
    LET w == srv[r.at]
        after == [w EXCEPT !.status = IF r.op = "stop" THEN "stopped"
                                      ELSE IF r.op = "restart" THEN "active"
                                      ELSE IF r.op = "delete" THEN "gone" ELSE @,
                           !.token = IF r.op = "rotate" THEN 1 - @ ELSE @]
        s == [srv EXCEPT ![r.at] = after]
        answer == IF r.op = "detail" THEN [status |-> w.status]
                  ELSE [string |-> [of |-> r.at, token |-> after.token]] IN
    IF w.status = "gone" THEN ServerAnswers(r, srv, Failed)
    ELSE ServerAnswers(r, s, answer) \/ ServerFails(r, s)

DatabaseNext ==
    /\ page \in DatabasePages
    /\ \/ /\ at # None
          /\ \/ SwitchDatabase \/ PollDatabase \/ AskConfirmation \/ CloseDialogs
             \/ OpenConnect \/ \E op \in DatabaseControls : DatabaseAction(op)
       \/ \E r \in net : \/ DetailFetched(r) \/ ActionDone(r) \/ DeleteDone(r)
                         \/ ConnectionStringFetched(r) \/ TokenRotated(r) \/ DatabaseServer(r)

=============================================================================
