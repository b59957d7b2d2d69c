------------------------------- MODULE UsersPage -------------------------------
(***************************************************************************)
(* The administrator's panel (components/users/UserManagementPanel.tsx):   *)
(* the white-list of addresses and the list of users.  Items are users;    *)
(* `mail` is the white-listed address this behaviour is about.  The dialog *)
(* with a user's access is UserAccessDialog.                               *)
(***************************************************************************)
EXTENDS DashboardPage

UsersHooks == [busy |-> {"whitelist"}, mail |-> FALSE, users |-> {}, confirm |-> None]

(* fetchWhitelist and fetchUsersAndProjects, from the effect or awaited by *)
(* the handler whose flag is `then`.                                       *)
FetchWhitelist(then) == {Request("list", [what |-> "mail", then |-> then])}
FetchUsers(then) == {Request("list", [what |-> "users", then |-> then])}

OpenUsers ==
    page = "users" /\ OpenAt(Server, UsersHooks, FetchWhitelist(None) \cup FetchUsers(None))

(* What can be pressed.  A confirmation covers the rest; it is disabled    *)
(* while a removal of its kind is out, and can be closed at any time.      *)
(* One's own account, which cannot be kicked, is not among Items.          *)
UsersControls ==
    IF view.confirm # None
    THEN {<<"close", None>>}
         \cup (IF (IF view.confirm = "mail" THEN {"remove"} ELSE Items) \cap view.busy = {}
               THEN {<<"confirm", view.confirm>>} ELSE {})
    ELSE ({"ask"} \X (view.users \ view.busy)) \cup (({"add"} \ view.busy) \X {None})
         \cup (IF view.mail /\ "remove" \notin view.busy THEN {<<"ask", "mail">>} ELSE {})

(* The end of a handler that began with `flag`: the flag goes down, and a  *)
(* confirmation of its kind closes, whatever it asks by now.  kickingUserId*)
(* holds one user.                                                         *)
UsersEnd(v, flag) ==
    LET kind == IF flag = "remove" THEN {"mail"} ELSE IF flag \in Items THEN Items ELSE {} IN
    [v EXCEPT !.busy = @ \ ({flag} \cup (kind \ {"mail"})),
              !.confirm = IF @ \in kind THEN None ELSE @]

(* A list that did not arrive is not replaced.                             *)
UsersListed(r) ==
    /\ r.op = "list"
    /\ LET v == UsersEnd(view, r.arg.then) IN
       Handle(r, IF r.arg.what = "users"
                 THEN [v EXCEPT !.users = IF r.ans = Failed THEN @ ELSE r.ans.users]
                 ELSE [Idle(v, "whitelist") EXCEPT
                          !.mail = IF r.ans = Failed THEN @ ELSE r.ans.mail], {})

AddEmail ==
    /\ <<"add", None>> \in UsersControls
    /\ Act(Busy(view, "add"), {Request("add", "add")})

AskToRemove(x) ==
    /\ <<"ask", x>> \in UsersControls
    /\ Act([view EXCEPT !.confirm = x], {})

CloseConfirmation ==
    /\ <<"close", None>> \in UsersControls
    /\ Act([view EXCEPT !.confirm = None], {})

(* handleDeleteEmail and handleKickUser.                                   *)
ConfirmRemoval(x) ==
    /\ <<"confirm", x>> \in UsersControls
    /\ IF x = "mail" THEN Act(Busy(view, "remove"), {Request("remove", "remove")})
                     ELSE Act(Busy(view, x), {Request("kick", x)})

(* They, and handleAddEmail, go on and wait for the list.                  *)
UsersChanged(r) ==
    /\ r.op \in {"add", "remove", "kick"}
    /\ IF r.ans = Failed THEN Handle(r, UsersEnd(view, r.arg), {})
       ELSE Handle(r, view, Sent(r.at, IF r.op = "kick" THEN FetchUsers(r.arg)
                                                        ELSE FetchWhitelist(r.arg)))

UsersServer(r) ==
    LET w == srv[r.at]
        s == IF r.op = "list" THEN srv
             ELSE IF r.op = "kick" THEN [srv EXCEPT ![r.at].users = @ \ {r.arg}]
             ELSE [srv EXCEPT ![r.at].mail = r.op = "add"] IN
    ServerAnswers(r, s, IF r.op = "list" THEN w ELSE Ok) \/ ServerFails(r, s)

UsersNext ==
    /\ page = "users"
    /\ \/ /\ at # None
          /\ \/ AddEmail \/ CloseConfirmation
             \/ \E x \in Items \cup {"mail"} : AskToRemove(x) \/ ConfirmRemoval(x)
       \/ \E r \in net : UsersListed(r) \/ UsersChanged(r) \/ UsersServer(r)

=============================================================================
