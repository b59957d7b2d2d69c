----------------------------- MODULE BranchesPage -----------------------------
(***************************************************************************)
(* The branches of a database (pages/branches/Branches.tsx): a list that   *)
(* is fetched when the page is opened and again after each operation.  The *)
(* default branch, which nothing removes, is not among Branches.           *)
(***************************************************************************)
EXTENDS DashboardPage

CONSTANT Branches     \* the names of the other branches

BranchActions == {"start", "stop", "restart", "delete"}
NoBranches == [b \in Branches |-> "none"]

BranchesHooks ==
    [busy |-> {"load"}, list |-> NoBranches, error |-> FALSE, dialog |-> None]

(* fetchBranches, called by the handler whose flag is `then` (or None).    *)
FetchBranches(then) == {Request("list", [branch |-> None, then |-> then])}
Fetching(v) == [Busy(v, "load") EXCEPT !.error = FALSE]

OpenBranches ==
    page = "branches" /\ \E d \in Dbs : OpenAt(d, BranchesHooks, FetchBranches(None))

SwitchBranches ==
    page = "branches" /\ \E d \in Dbs : SwitchTo(d, Fetching(view), FetchBranches(None))

(* While a list is being fetched, or failed, there is nothing but a text,  *)
(* dialogs included.  An open dialog covers the rows.  One operation at a  *)
(* time: actionLoading disables every row, and the dialog only while it    *)
(* holds a deletion.                                                       *)
BranchesControls ==
    IF "load" \in view.busy \/ view.error THEN {}
    ELSE IF view.dialog = "create"
         THEN {<<"close", None>>} \cup
              (IF "create" \in view.busy THEN {} ELSE {<<"create", b>> : b \in Branches})
    ELSE IF view.dialog \in Branches
         THEN {<<"close", None>>} \cup
              (IF "delete" \in view.busy THEN {} ELSE {<<"delete", view.dialog>>})
    ELSE {<<"open create", None>>} \cup
         (IF view.busy \cap BranchActions # {} THEN {}
          ELSE {c \in {"start", "stop", "restart", "open delete"} \X Branches :
                  /\ view.list[c[2]] # "none"
                  /\ c[1] = "start" => view.list[c[2]] = "stopped"
                  /\ c[1] \in {"stop"} => view.list[c[2]] # "stopped"})

OpenBranchDialog ==
    \/ /\ <<"open create", None>> \in BranchesControls
       /\ Act([view EXCEPT !.dialog = "create"], {})
    \/ \E b \in Branches : /\ <<"open delete", b>> \in BranchesControls
                        /\ Act([view EXCEPT !.dialog = b], {})

CloseBranchDialog ==
    /\ <<"close", None>> \in BranchesControls
    /\ Act([view EXCEPT !.dialog = None], {})

BranchAction(b, what) ==
    /\ <<what, b>> \in BranchesControls
    /\ Act(Busy(view, what), {Request(what, [branch |-> b, then |-> what])})

CreateBranch(b) ==
    /\ <<"create", b>> \in BranchesControls
    /\ Act(Busy(view, "create"), {Request("create", [branch |-> b, then |-> "create"])})

(* setActionLoading(null), or setCreateLoading(false): the end of a handler*)
(* that began with `flag`.  A deletion then closes its dialog.             *)
BranchHandlerEnds(v, flag) ==
    [v EXCEPT !.busy = IF flag \in BranchActions THEN @ \ BranchActions ELSE @ \ {flag},
              !.dialog = IF flag = "delete" /\ @ # "create" THEN None ELSE @]

(* handleBranchAction and handleCreateBranch go on: the list is fetched    *)
(* again for the id they started with, and they wait for it.               *)
BranchOperationDone(r) ==
    /\ r.op \in BranchActions \cup {"create"}
    /\ IF r.ans = Failed
       THEN Handle(r, BranchHandlerEnds(view, r.op), {})
       ELSE Handle(r, [Fetching(view) EXCEPT !.dialog =
                          IF r.op = "create" /\ @ = "create" THEN None ELSE @],
                   Sent(r.at, FetchBranches(r.op)))

BranchesListed(r) ==
    /\ r.op = "list"
    /\ LET failed == r.ans = Failed
           fetched == [Idle(view, "load") EXCEPT !.list = IF failed THEN NoBranches ELSE r.ans,
                                                 !.error = @ \/ failed] IN
       Handle(r, IF r.arg.then = None THEN fetched
                 ELSE BranchHandlerEnds(fetched, r.arg.then), {})

(* A name that exists, or a branch that is gone, is refused.               *)
BranchesServer(r) ==
    LET b == r.arg.branch
        exists == srv[r.at][b] # "none"
        becomes(status) == [srv EXCEPT ![r.at][b] = status]
        done(s) == ServerAnswers(r, s, Ok) \/ ServerFails(r, s) IN
    \/ r.op = "list" /\ (ServerAnswers(r, srv, srv[r.at]) \/ ServerFails(r, srv))
    \/ r.op = "create" /\ ~exists /\ done(becomes("running"))
    \/ r.op = "delete" /\ exists /\ done(becomes("none"))
    \/ r.op \in {"start", "restart"} /\ exists /\ done(becomes("running"))
    \/ r.op = "stop" /\ exists /\ done(becomes("stopped"))
    \/ r.op # "list" /\ (exists <=> r.op = "create") /\ ServerAnswers(r, srv, Failed)

BranchesNext ==
    /\ page = "branches"
    /\ \/ /\ at # None
          /\ \/ SwitchBranches \/ OpenBranchDialog \/ CloseBranchDialog
             \/ \E b \in Branches : CreateBranch(b) \/ \E a \in BranchActions : BranchAction(b, a)
       \/ \E r \in net : BranchOperationDone(r) \/ BranchesListed(r) \/ BranchesServer(r)

=============================================================================
