------------------------------ MODULE UserSession ------------------------------
(***************************************************************************)
(* The session of the dashboard: AuthContext, AuthGuard, the login and the *)
(* register page, what the profile page does to the user, the effects of   *)
(* the two list providers that hang on the token, and UpdateOverlay, which *)
(* the guard mounts with the pages.  Who is logged in is kept in four      *)
(* places: the browser's cookie (HttpOnly, set and cleared by answers),    *)
(* the state of AuthContext, the profile in localStorage, and the lists    *)
(* that were fetched for somebody.  A request carries the cookie of the    *)
(* moment it is sent.                                                      *)
(*                                                                         *)
(* A member of Users is an account, so one that was deleted never comes    *)
(* back.  The bearer token older versions left in localStorage is left out,*)
(* and every user may access the server.  A behaviour follows either the   *)
(* accounts or the updates of the server.                                  *)
(***************************************************************************)
EXTENDS Naturals, FiniteSets

CONSTANTS
    Users,
    None,
    Failed,      \* a request that threw, or a 500
    MaxNet,      \* bound: requests in flight when the user or a timer sends one
    MaxHash      \* bound: pulls of the server

ASSUME SessionAssumption == /\ MaxNet \in Nat /\ MaxHash \in Nat
                            /\ None # Failed /\ {None, Failed} \cap Users = {}

VARIABLES
    server,      \* the accounts, the HEAD of /repo, and what update-status reports
    cookie,      \* whose session the browser's cookie is
    stored,      \* baseful_user in localStorage
    app,         \* the state of the loaded application
    requests,    \* in flight
    crossed      \* history: see Crossing

sessionVars == <<server, cookie, stored, app, requests, crossed>>

Active(u) == u # None /\ server.account[u] = "active"
Initialized == \E u \in Users : server.account[u] = "active"

Send(op, arg) ==
    [op |-> op, as |-> cookie, arg |-> arg, sent |-> TRUE, ans |-> None]

(* Two requests cross when one of them decides who is logged in.  A crossed*)
(* application, or one that met a failed request, may disagree with its    *)
(* cookie until it is loaded again.                                        *)
Deciders == {"me", "login", "register", "logout"}
Crossing(out, new) ==
    new # {} /\ out # {} /\ \E r \in out \cup new : r.op \in Deciders

-----------------------------------------------------------------------------
(* The hooks of a freshly mounted UpdateOverlay.                           *)
Mounted(a) == [a EXCEPT !.updating = FALSE, !.hash = None]

(* The application as it is loaded: init() of AuthContext takes the stored *)
(* profile at once and asks for the real one.  "revived" is for the        *)
(* properties: see ProfileSaved.                                           *)
Loaded(route) ==
    [user |-> stored, token |-> FALSE, loading |-> TRUE, initialized |-> FALSE,
     route |-> route, lists |-> None, revived |-> FALSE,
     updating |-> FALSE, hash |-> None, reload |-> FALSE]

SessionInit ==
    /\ \E known \in SUBSET Users, follows \in {"session", "update"} :
         server = [account |-> [u \in Users |-> IF u \in known THEN "active" ELSE "new"],
                   head |-> 0, hash |-> 0, updating |-> FALSE, follows |-> follows]
    /\ cookie \in {None} \cup {u \in Users : server.account[u] = "active"}
    /\ stored \in {None, cookie}
    /\ \E route \in {"home", "login"} : app = Loaded(route)
    /\ requests = {Send("me", None)}
    /\ crossed = FALSE

Load ==
    /\ \E route \in {"home", "login"} : app' = Loaded(route)
    /\ requests' = {Send("me", None)}
    /\ crossed' = FALSE
    /\ UNCHANGED <<server, cookie, stored>>

(* What a handler leaves behind: the application a, the profile p, and the *)
(* requests in asked.  A token that was not there makes the two providers  *)
(* fetch their lists (one request here), with the cookie the answer set.   *)
(* A page that is left takes its overlay with it, but not the checks that  *)
(* are in flight.                                                          *)
Orphaned(out) == {IF r.op = "check" THEN [r EXCEPT !.op = "orphan"] ELSE r : r \in out}

Become(a, p, out, asked) ==
    LET lists == IF a.token /\ ~app.token
                 THEN {[Send("lists", None) EXCEPT !.as = cookie']} ELSE {}
        new == asked \cup lists IN
    /\ app' = IF a.route = "home" THEN a ELSE Mounted(a)
    /\ stored' = p
    /\ requests' = (IF a.route = "home" THEN out ELSE Orphaned(out)) \cup new
    /\ crossed' = (crossed \/ Crossing(out, new))

(* Mutant of LoggedOut: only the token is forgotten.                       *)
TokenForgotten(a) == [a EXCEPT !.token = FALSE]

LoggedIn(a, u) == [a EXCEPT !.token = TRUE, !.user = u, !.revived = FALSE]
LoggedOut(a) == [a EXCEPT !.token = FALSE, !.user = None, !.revived = FALSE]

Room == Cardinality(requests) < MaxNet

Arrived(r) == r \in requests /\ ~r.sent
Out(r) == requests \ {r}

(* init() goes on: any failure is a session that is no longer valid.       *)
MeAnswered(r) ==
    /\ r.op = "me" /\ Arrived(r)
    /\ UNCHANGED <<server, cookie>>
    /\ IF r.ans \in {None, Failed}
       THEN Become(LoggedOut(app), None, Out(r), {Send("status", None)})
       ELSE Become(LoggedIn(app, r.ans), r.ans, Out(r), {Send("status", None)})

(* Mutant of StatusAnswered: a request that throws skips the last line.    *)
StatusOrStuck(r) ==
    /\ r.op = "status" /\ Arrived(r)
    /\ UNCHANGED <<server, cookie>>
    /\ Become([app EXCEPT !.initialized = r.ans = TRUE, !.loading = r.ans = Failed],
              stored, Out(r), {})

(* refreshStatus, and the end of init().  It is not called again.          *)
StatusAnswered(r) ==
    /\ r.op = "status" /\ Arrived(r)
    /\ UNCHANGED <<server, cookie>>
    /\ Become([app EXCEPT !.initialized = r.ans = TRUE, !.loading = FALSE], stored, Out(r), {})

(* Mutant of GuardTarget: nobody asks whether there is a user.             *)
GuardWithoutUser == IF app.loading \/ app.initialized THEN "home" ELSE "register"

(* Where the effects of the mounted page navigate: AuthGuard's, around     *)
(* every page but two, and those two pages'. Of the two navigations of the *)
(* login page the second wins; neither waits for loading to end.  Effects  *)
(* run before the user can do anything.                                    *)
GuardTarget ==
    IF app.loading THEN "home"
    ELSE IF ~app.initialized THEN "register"
    ELSE IF app.user = None THEN "login" ELSE "home"

Target ==
    CASE app.route = "home" -> GuardTarget
      [] app.route = "login" /\ ~app.initialized -> "register"
      [] app.route # "home" /\ app.user # None /\ (app.route = "login" => app.initialized) -> "home"
      [] OTHER -> app.route

Redirect ==
    /\ Target # app.route
    /\ UNCHANGED <<server, cookie>>
    /\ Become([app EXCEPT !.route = Target], stored, requests, {})

Settled == Target = app.route

(* Bound: the user waits for a page that is loading.                       *)
Reload == ~app.loading /\ Settled /\ Load

(* handleSubmit of the two forms; the button is disabled until it is over  *)
(* (bound: also that of a form opened anew).  A form that is not shown any *)
(* more goes on nevertheless.                                              *)
Submit(op, u) ==
    /\ server.follows = "session"
    /\ app.route = op /\ Settled /\ Room
    /\ ~\E r \in requests : r.op \in {"login", "register"}
    /\ UNCHANGED <<server, cookie>>
    /\ Become(app, stored, requests, {Send(op, u)})

FormAnswered(r) ==
    /\ r.op \in {"login", "register"} /\ Arrived(r)
    /\ IF r.ans \in {None, Failed}
       THEN UNCHANGED cookie /\ Become(app, stored, Out(r), {})
       ELSE /\ cookie' = r.ans
            /\ Become([LoggedIn(app, r.ans) EXCEPT !.route = "home"], r.ans, Out(r), {})
    /\ UNCHANGED server

(* logout(): the POST is not waited for, and clears the cookie when it is  *)
(* answered.                                                               *)
Logout ==
    /\ app.token /\ app.route = "home" /\ ~app.loading /\ Settled /\ Room
    /\ UNCHANGED <<server, cookie>>
    /\ Become(LoggedOut(app), None, requests, {Send("logout", None)})

(* Mutant of LogoutAnswered: the answer does not clear the cookie.         *)
LogoutKeepsCookie(r) ==
    /\ r.op = "logout" /\ Arrived(r)
    /\ UNCHANGED <<server, cookie>>
    /\ Become(app, stored, Out(r), {})

LogoutAnswered(r) ==
    /\ r.op = "logout" /\ Arrived(r)
    /\ cookie' = IF r.ans = Failed THEN cookie ELSE None
    /\ Become(app, stored, Out(r), {})
    /\ UNCHANGED server

(* The lists, asked for by the providers and by every refresh of a page.   *)
Refresh ==
    /\ app.token /\ app.route = "home" /\ Settled /\ Room
    /\ Send("lists", None) \notin requests
    /\ UNCHANGED <<server, cookie>>
    /\ Become(app, stored, requests, {Send("lists", None)})

(* The forms of the profile page send what the user was when they were     *)
(* shown, and put that back (updateUser) when the answer comes, whoever is *)
(* logged in by then.  The page may be left meanwhile.                     *)
SaveProfile ==
    /\ app.token /\ app.route = "home" /\ ~app.loading /\ Settled /\ Room
    /\ Send("profile", app.user) \notin requests
    /\ UNCHANGED <<server, cookie>>
    /\ Become(app, stored, requests, {Send("profile", app.user)})

(* Nobody may be: the user is back then, and the token is not.             *)
ProfileSaved(r) ==
    /\ r.op = "profile" /\ Arrived(r) /\ r.ans = TRUE
    /\ UNCHANGED <<server, cookie>>
    /\ Become([app EXCEPT !.user = r.arg, !.revived = ~app.token], r.arg, Out(r), {})

(* A 401 logs out whoever is logged in by now (authFetch, and the provider *)
(* once more; one request stands for both); another failure changes        *)
(* nothing.                                                                *)
Refused(r) ==
    /\ r.op \in {"lists", "profile", "check", "orphan"} /\ Arrived(r) /\ r.ans \in {None, Failed}
    /\ UNCHANGED <<server, cookie>>
    /\ IF r.ans = None THEN Become(LoggedOut(app), None, Out(r), {Send("logout", None)})
       ELSE Become(app, stored, Out(r), {})

ListsAnswered(r) ==
    /\ r.op = "lists" /\ Arrived(r) /\ r.ans \in Users
    /\ UNCHANGED <<server, cookie>>
    /\ Become([app EXCEPT !.lists = r.ans], stored, Out(r), {})

-----------------------------------------------------------------------------
(* The links between the two pages.                                        *)
FollowFormLink ==
    /\ app.route \in {"login", "register"} /\ Settled
    /\ UNCHANGED <<server, cookie>>
    /\ \E route \in {"login", "register"} \ {app.route} :
         Become([app EXCEPT !.route = route], stored, requests, {})

(* UpdateOverlay: checkStatus runs at once and then every 2 or 10 seconds, *)
(* with the hash of the render it was started in (bound: one at a time for *)
(* each, and none while that of a page that was left is in flight).        *)
MayCheck ==
    /\ server.follows = "update"
    /\ app.route = "home" /\ ~app.loading /\ app.token /\ ~app.reload
    /\ ~\E r \in requests : r.op = "orphan" \/ (r.op = "check" /\ r.arg = app.hash)

(* Mutant of CheckStatus: no more checks while the overlay is shown.       *)
CheckUntilUpdating ==
    /\ MayCheck /\ ~app.updating
    /\ UNCHANGED <<server, cookie>>
    /\ Become(app, stored, requests, {Send("check", app.hash)})

CheckStatus ==
    /\ MayCheck
    /\ UNCHANGED <<server, cookie>>
    /\ Become(app, stored, requests, {Send("check", app.hash)})

(* A hash that changed is an update that ended: the page is loaded again,  *)
(* the one that was left included; nothing else comes of that one's check. *)
(* A process that just started has no hash, which is a changed one too.    *)
StatusChecked(r) ==
    /\ r.op \in {"check", "orphan"} /\ Arrived(r) /\ r.ans \notin {None, Failed}
    /\ UNCHANGED <<server, cookie>>
    /\ LET a == IF r.arg # None /\ r.ans.hash # r.arg
                THEN [app EXCEPT !.updating = FALSE, !.reload = TRUE]
                ELSE IF r.op = "check"
                     THEN [app EXCEPT !.hash = r.ans.hash, !.updating = r.ans.updating]
                     ELSE app IN
       Become(a, stored, Out(r), {})

ReloadAfterUpdate == app.reload /\ Load

-----------------------------------------------------------------------------
(* The server.  None as an answer is a refusal (401, 403).                 *)
Answer(r, s, a) ==
    /\ r \in requests /\ r.sent
    /\ requests' = Out(r) \cup {[r EXCEPT !.sent = FALSE, !.ans = a]}
    /\ server' = s
    /\ crossed' = (crossed \/ a = Failed)
    /\ UNCHANGED <<cookie, stored, app>>

AnswerSession(r) ==
    \/ r.op = "status" /\ Answer(r, server, Initialized)
    \/ r.op = "logout" /\ Answer(r, server, TRUE)
    \/ r.op \in {"me", "lists"} /\ Answer(r, server, IF Active(r.as) THEN r.as ELSE None)
    \/ r.op = "profile" /\ Answer(r, server, IF Active(r.as) THEN TRUE ELSE None)
    \/ /\ r.op \in {"check", "orphan"}
       /\ Answer(r, server, IF Active(r.as) THEN [hash |-> server.hash, updating |-> server.updating]
                            ELSE None)

(* A wrong password, an address that is not on the whitelist.              *)
AnswerForm(r) ==
    \/ /\ r.op = "login" /\ Active(r.arg)
       /\ Answer(r, server, r.arg)
    \/ /\ r.op = "register" /\ server.account[r.arg] = "new"
       /\ Answer(r, [server EXCEPT !.account[r.arg] = "active"], r.arg)
    \/ /\ r.op \in {"login", "register"}
       /\ (r.op = "register" => Initialized)
       /\ Answer(r, server, None)

(* The network, or a 500.                                                  *)
Fault(r) == ~crossed /\ Answer(r, server, Failed)

(* An administrator deletes an account.                                    *)
Kick(u) ==
    /\ server.follows = "session" /\ Active(u) /\ \E v \in Users \ {u} : Active(v)
    /\ server' = [server EXCEPT !.account[u] = "deleted"]
    /\ UNCHANGED <<cookie, stored, app, requests, crossed>>

(* What GetUpdateStatus reports of the updates that SystemUpdate models.   *)
(* Nothing but a failed pull, a reset setting or a restart ends the report *)
(* of one, and HEAD is reported when a check read it.                      *)
Reports(s) ==
    /\ server.follows = "update"
    /\ server' = s
    /\ UNCHANGED <<cookie, stored, app, requests, crossed>>

UpdateStarts == ~server.updating /\ Reports([server EXCEPT !.updating = TRUE])

Pulled == /\ server.updating /\ server.head < MaxHash
          /\ Reports([server EXCEPT !.head = @ + 1])

HeadStored == server.hash # server.head /\ Reports([server EXCEPT !.hash = server.head])

Withdrawn == server.updating /\ Reports([server EXCEPT !.updating = FALSE])

ServerRestarts ==
    \E updating \in {server.updating, FALSE} :
       Reports([server EXCEPT !.hash = None, !.updating = updating])

-----------------------------------------------------------------------------
Handles(r) ==
    \/ MeAnswered(r) \/ StatusAnswered(r) \/ FormAnswered(r) \/ LogoutAnswered(r)
    \/ Refused(r) \/ ListsAnswered(r) \/ ProfileSaved(r) \/ StatusChecked(r)

SessionNext ==
    \/ Reload \/ Logout \/ Refresh \/ SaveProfile \/ FollowFormLink \/ CheckStatus \/ ReloadAfterUpdate
    \/ \E u \in Users : Submit("login", u) \/ Submit("register", u) \/ Kick(u)
    \/ Redirect
    \/ \E r \in requests : Handles(r) \/ AnswerSession(r) \/ AnswerForm(r) \/ Fault(r)
    \/ UpdateStarts \/ Pulled \/ HeadStored \/ Withdrawn \/ ServerRestarts

(* Every request of init and of the overlay is answered or fails, and its  *)
(* handler goes on; effects run; the interval of the overlay and its timer *)
(* fire.  Nothing says that an update ends.                                *)
Answered(op) == \E r \in requests : r.op = op /\ AnswerSession(r)
Handled(op) == \E r \in requests : r.op = op /\ Handles(r)

SessionSpec ==
    /\ SessionInit /\ [][SessionNext]_sessionVars
    /\ \A op \in {"me", "status", "check", "orphan"} :
          WF_sessionVars(Answered(op)) /\ WF_sessionVars(Handled(op))
    /\ WF_sessionVars(Redirect)
    /\ WF_sessionVars(CheckStatus) /\ WF_sessionVars(ReloadAfterUpdate)

-----------------------------------------------------------------------------
(* AuthContext names a user exactly when localStorage does, and once       *)
(* loading is over it has a token exactly when it has a user, whatever     *)
(* order init, a login, a logout and a late 401 come in.  The one          *)
(* exception is a profile that was saved after its user was logged out:    *)
(* updateUser brings the user back without a token.                        *)
SignedInTogether ==
    /\ app.user = stored
    /\ app.token => app.user # None
    /\ ~app.loading /\ app.user # None => app.token \/ app.revived

(* An application at rest shows the account its cookie is for, with lists  *)
(* that were fetched for that account, though lists outlive a logout.      *)
SessionAgrees ==
    ~crossed /\ requests = {} => /\ app.user # None => cookie = app.user /\ app.lists = app.user
                                 /\ app.user = None => ~Active(cookie)

(* The spinner of AuthGuard ends, whether or not there was a session.      *)
LoadingEnds == app.loading ~> ~app.loading

(* Nobody stays on a page without a session.                               *)
VisitorLeaves ==
    (app.route = "home" /\ ~app.loading /\ app.user = None)
        ~> (app.route # "home" \/ app.user # None)

(* Once the server no longer reports an update its overlay goes, in a      *)
(* session that goes on: the checks outlast the overlay, a failed one and  *)
(* the process that restarts, and an older answer is corrected by a later  *)
(* one.  (An update whose sidecar failed is reported, and shown, until the *)
(* process restarts.)                                                      *)
OverlayEnds ==
    app.updating /\ app.token /\ ~server.updating
        ~> ~app.updating \/ ~app.token \/ server.updating

(* "System not setup yet, send to register" (AuthGuard.tsx:14): nobody is  *)
(* sent there by a guard that was told the truth once there is an account. *)
OnlySetupRegisters ==
    [][Redirect /\ app.route = "home" /\ app'.route = "register" /\ ~crossed
         => ~Initialized]_sessionVars

=============================================================================
