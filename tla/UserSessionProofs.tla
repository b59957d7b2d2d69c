--------------------------- MODULE UserSessionProofs ---------------------------
(***************************************************************************)
(* That the application never half knows who is logged in, for any number  *)
(* of accounts, of requests in flight and of updates.                      *)
(***************************************************************************)
EXTENDS UserSession, TLAPS

Kinds == {"me", "status", "login", "register", "logout", "lists", "profile", "check", "orphan"}
Routes == {"home", "login", "register"}
ServerVersions == [hash : Nat \cup {None}, updating : BOOLEAN]

Servers == [account : [Users -> {"new", "active", "deleted"}], head : Nat, hash : Nat \cup {None},
            updating : BOOLEAN, follows : {"session", "update"}]
Applications == [user : Users \cup {None}, token : BOOLEAN, loading : BOOLEAN,
                 initialized : BOOLEAN, route : Routes, lists : Users \cup {None},
                 revived : BOOLEAN, updating : BOOLEAN, hash : Nat \cup {None}, reload : BOOLEAN]
Messages == [op : Kinds, as : Users \cup {None}, arg : Users \cup {None} \cup Nat, sent : BOOLEAN,
             ans : Users \cup {None, Failed} \cup BOOLEAN \cup ServerVersions]

(* What a request asks and can be answered with, as far as it is used.     *)
Requests == {r \in Messages :
               /\ r.op \in {"login", "register", "profile"} => r.arg \in Users
               /\ r.op \in {"me", "login", "register"} => r.ans \in Users \cup {None, Failed}
               /\ r.op \in {"check", "orphan"} => r.ans \in ServerVersions \cup {None, Failed}}

TypeOK ==
    /\ server \in Servers
    /\ cookie \in Users \cup {None}
    /\ stored \in Users \cup {None}
    /\ app \in Applications
    /\ requests \subseteq Requests
    /\ crossed \in BOOLEAN

(* The application a with the stored profile p: a profile without a token  *)
(* was revived, or it is the one the application was loaded with, which    *)
(* init is still asking about, so that the status, whose answer ends the   *)
(* loading, was not asked for yet.                                         *)
KnowsWho(a, p, out) ==
    /\ a.user = p
    /\ a.token = TRUE => a.user # None
    /\ a.user # None /\ a.token = FALSE /\ a.revived = FALSE
          => a.loading = TRUE /\ \A r \in out : r.op # "status"

IInv == TypeOK /\ KnowsWho(app, stored, requests)

-----------------------------------------------------------------------------
LEMMA Asking ==
    ASSUME cookie \in Users \cup {None}, NEW op \in Kinds, NEW arg \in Users \cup {None} \cup Nat,
           op \in {"login", "register", "profile"} => arg \in Users
    PROVE  Send(op, arg) \in Requests /\ Send(op, arg).op = op
  BY DEF Send, Requests, Messages

LEMMA Loading ==
    ASSUME stored \in Users \cup {None}, NEW route \in {"home", "login"}
    PROVE  /\ Loaded(route) \in Applications
           /\ Loaded(route).user = stored /\ Loaded(route).token = FALSE /\ Loaded(route).loading = TRUE
           /\ Loaded(route).revived = FALSE
  BY DEF Loaded, Applications, Routes

LEMMA InitOK == SessionInit => IInv
<1> SUFFICES ASSUME SessionInit PROVE IInv
  OBVIOUS
<1>1. PICK known \in SUBSET Users, follows \in {"session", "update"} :
         server = [account |-> [u \in Users |-> IF u \in known THEN "active" ELSE "new"],
                   head |-> 0, hash |-> 0, updating |-> FALSE, follows |-> follows]
  BY DEF SessionInit
<1>2. server \in Servers
  BY <1>1 DEF Servers
<1>3. cookie \in Users \cup {None} /\ stored \in Users \cup {None}
  BY DEF SessionInit
<1>4. PICK route \in {"home", "login"} : app = Loaded(route)
  BY DEF SessionInit
<1>5. Send("me", None) \in Requests /\ Send("me", None).op = "me"
  BY <1>3, Asking DEF Kinds
<1>6. requests = {Send("me", None)} /\ crossed = FALSE
  BY DEF SessionInit
<1> QED
  BY <1>2, <1>3, <1>4, <1>5, <1>6, Loading DEF IInv, TypeOK, KnowsWho

(* The requests that stay in flight when a handler is through: those of an *)
(* overlay that is left change hands, and nothing else.                    *)
Staying(a, out) == IF a.route = "home" THEN out ELSE Orphaned(out)

LEMMA Stay ==
    ASSUME NEW a, NEW out \in SUBSET Requests
    PROVE  /\ Staying(a, out) \subseteq Requests
           /\ \A r \in Staying(a, out) :
                 \/ r \in out
                 \/ \E q \in out : /\ q.op = "check" /\ r.op = "orphan"
                                  /\ r.as = q.as /\ r.sent = q.sent /\ r.ans = q.ans
           /\ \A r \in out : r.op # "check" => r \in Staying(a, out)
<1>1. CASE a.route = "home"
  BY <1>1 DEF Staying
<1>2. CASE a.route # "home"
  <2>1. Staying(a, out) = {IF r.op = "check" THEN [r EXCEPT !.op = "orphan"] ELSE r : r \in out}
    BY <1>2 DEF Staying, Orphaned
  <2>2. ASSUME NEW q \in out, q.op = "check"
        PROVE  /\ [q EXCEPT !.op = "orphan"] \in Requests
               /\ [q EXCEPT !.op = "orphan"].op = "orphan"
               /\ [q EXCEPT !.op = "orphan"].as = q.as /\ [q EXCEPT !.op = "orphan"].sent = q.sent
               /\ [q EXCEPT !.op = "orphan"].ans = q.ans
    BY <2>2 DEF Requests, Messages, Kinds
  <2>3. ASSUME NEW r \in Staying(a, out)
        PROVE  /\ r \in Requests
               /\ \/ r \in out
                  \/ \E q \in out : /\ q.op = "check" /\ r.op = "orphan"
                                   /\ r.as = q.as /\ r.sent = q.sent /\ r.ans = q.ans
    <3>1. PICK q \in out : r = IF q.op = "check" THEN [q EXCEPT !.op = "orphan"] ELSE q
      BY <2>1, <2>3
    <3>2. CASE q.op = "check"
      BY <2>2, <3>1, <3>2
    <3>3. CASE q.op # "check"
      BY <3>1, <3>3
    <3> QED
      BY <3>2, <3>3
  <2>4. \A r \in out : r.op # "check" => r \in Staying(a, out)
    BY <2>1
  <2> QED
    BY <2>3, <2>4
<1> QED
  BY <1>1, <1>2

(* A handler may leave any application behind that knows who it is.        *)
LEMMA Becoming ==
    ASSUME TypeOK, server' \in Servers, cookie' \in Users \cup {None},
           NEW a \in Applications, NEW p \in Users \cup {None},
           NEW out \in SUBSET requests, NEW asked \in SUBSET Requests,
           Become(a, p, out, asked), KnowsWho(a, p, out \cup asked)
    PROVE  IInv'
<1> DEFINE lists == [Send("lists", None) EXCEPT !.as = cookie']
<1>1. lists \in Requests /\ lists.op = "lists"
  <2>1. Send("lists", None) \in Requests /\ Send("lists", None).op = "lists"
    BY Asking DEF TypeOK, Kinds
  <2> QED
    BY <2>1 DEF Requests, Messages
<1>2. Mounted(a) \in Applications /\ Mounted(a).user = a.user /\ Mounted(a).token = a.token
      /\ Mounted(a).loading = a.loading /\ Mounted(a).revived = a.revived
  BY DEF Mounted, Applications
<1>3. app' \in {a, Mounted(a)} /\ stored' = p
  BY DEF Become
<1>4. requests' \subseteq (Staying(a, out) \cup asked \cup {lists})
  BY DEF Become, Staying
<1>9. out \in SUBSET Requests
  BY DEF TypeOK
<1>10. /\ Staying(a, out) \subseteq Requests
       /\ \A r \in Staying(a, out) : r.op = "status" => r \in out
  BY <1>9, Stay
<1>5. crossed' \in BOOLEAN
  BY DEF Become, TypeOK
<1>6. TypeOK'
  BY <1>1, <1>2, <1>3, <1>4, <1>5, <1>10 DEF TypeOK
<1>7. \A r \in requests' : r.op = "status" => r \in out \cup asked
  BY <1>1, <1>4, <1>10
<1>8. KnowsWho(app, stored, requests)'
  BY <1>2, <1>3, <1>7 DEF KnowsWho
<1> QED
  BY <1>6, <1>8 DEF IInv

LEMMA LogInOut ==
    ASSUME app \in Applications
    PROVE  /\ LoggedOut(app) \in Applications
           /\ LoggedOut(app).user = None /\ LoggedOut(app).token = FALSE
           /\ \A u \in Users : /\ LoggedIn(app, u) \in Applications
                               /\ LoggedIn(app, u).user = u /\ LoggedIn(app, u).token = TRUE
  BY DEF LoggedOut, LoggedIn, Applications

(* The handlers of answers.                                                *)
LEMMA HandlerStep == ASSUME IInv, NEW r \in requests, Handles(r) PROVE IInv'
<1>1. /\ TypeOK /\ KnowsWho(app, stored, requests)
      /\ server \in Servers /\ cookie \in Users \cup {None} /\ stored \in Users \cup {None}
      /\ app \in Applications /\ r \in Requests
  BY DEF IInv, TypeOK
<1>2. Out(r) \in SUBSET requests /\ {} \in SUBSET Requests
  BY DEF Out
<1>3. KnowsWho(app, stored, Out(r) \cup {})
  BY <1>1, <1>2 DEF KnowsWho
<1>4. \A out : KnowsWho(LoggedOut(app), None, out)
  BY <1>1, LogInOut DEF KnowsWho
<1>5. None \notin Users
  BY SessionAssumption
<1>6. CASE MeAnswered(r)
  <2>1. {Send("status", None)} \in SUBSET Requests
    BY <1>1, Asking DEF Kinds
  <2>2. UNCHANGED <<server, cookie>> /\ r.op = "me"
    BY <1>6 DEF MeAnswered
  <2>3. CASE r.ans \in {None, Failed}
    <3>1. Become(LoggedOut(app), None, Out(r), {Send("status", None)})
      BY <1>6, <2>3 DEF MeAnswered
    <3> QED
      BY <1>1, <1>2, <1>4, <2>1, <2>2, <3>1, LogInOut, Becoming
  <2>4. CASE r.ans \notin {None, Failed}
    <3>1. Become(LoggedIn(app, r.ans), r.ans, Out(r), {Send("status", None)})
      BY <1>6, <2>4 DEF MeAnswered
    <3>2. r.ans \in Users
      BY <1>1, <2>2, <2>4 DEF Requests
    <3>3. KnowsWho(LoggedIn(app, r.ans), r.ans, Out(r) \cup {Send("status", None)})
      BY <1>1, <1>5, <3>2, LogInOut DEF KnowsWho
    <3> QED
      BY <1>1, <1>2, <2>1, <2>2, <3>1, <3>2, <3>3, LogInOut, Becoming
  <2> QED
    BY <2>3, <2>4
(* Loading ends: whoever is there has a token by then.                     *)
<1>7. CASE StatusAnswered(r)
  <2> DEFINE a == [app EXCEPT !.initialized = (r.ans = TRUE), !.loading = FALSE]
  <2>1. UNCHANGED <<server, cookie>> /\ r.op = "status" /\ Become(a, stored, Out(r), {})
    BY <1>7 DEF StatusAnswered
  <2>2. a \in Applications /\ a.user = app.user /\ a.token = app.token /\ a.revived = app.revived
    BY <1>1 DEF Applications
  <2>3. KnowsWho(a, stored, Out(r) \cup {})
    BY <1>1, <2>1, <2>2 DEF KnowsWho, Applications
  <2> HIDE DEF a
  <2> QED
    BY <1>1, <1>2, <2>1, <2>2, <2>3, Becoming
<1>8. CASE FormAnswered(r)
  <2>1. UNCHANGED server /\ r.op \in {"login", "register"}
    BY <1>8 DEF FormAnswered
  <2>2. CASE r.ans \in {None, Failed}
    <3>1. UNCHANGED cookie /\ Become(app, stored, Out(r), {})
      BY <1>8, <2>2 DEF FormAnswered
    <3> QED
      BY <1>1, <1>2, <1>3, <2>1, <3>1, Becoming
  <2>3. CASE r.ans \notin {None, Failed}
    <3> DEFINE a == [LoggedIn(app, r.ans) EXCEPT !.route = "home"]
    <3>1. cookie' = r.ans /\ Become(a, r.ans, Out(r), {})
      BY <1>8, <2>3 DEF FormAnswered
    <3>2. r.ans \in Users
      BY <1>1, <2>1, <2>3 DEF Requests
    <3>3. LoggedIn(app, r.ans) \in Applications /\ LoggedIn(app, r.ans).user = r.ans
          /\ LoggedIn(app, r.ans).token = TRUE
      BY <1>1, <3>2, LogInOut
    <3>4. a \in Applications /\ a.user = r.ans /\ a.token = TRUE
      BY <3>3 DEF Applications, Routes
    <3>5. KnowsWho(a, r.ans, Out(r) \cup {})
      BY <1>5, <3>2, <3>4 DEF KnowsWho
    <3> HIDE DEF a
    <3> QED
      BY <1>1, <1>2, <2>1, <3>1, <3>2, <3>4, <3>5, Becoming
  <2> QED
    BY <2>2, <2>3
<1>9. CASE LogoutAnswered(r)
  <2>1. UNCHANGED server /\ cookie' \in Users \cup {None} /\ Become(app, stored, Out(r), {})
    BY <1>1, <1>9 DEF LogoutAnswered
  <2> QED
    BY <1>1, <1>2, <1>3, <2>1, Becoming
<1>10. CASE Refused(r)
  <2>1. UNCHANGED <<server, cookie>>
    BY <1>10 DEF Refused
  <2>2. CASE r.ans = None
    <3>1. Become(LoggedOut(app), None, Out(r), {Send("logout", None)})
      BY <1>10, <2>2 DEF Refused
    <3>2. {Send("logout", None)} \in SUBSET Requests
      BY <1>1, Asking DEF Kinds
    <3> QED
      BY <1>1, <1>2, <1>4, <2>1, <3>1, <3>2, LogInOut, Becoming
  <2>3. CASE r.ans # None
    <3>1. Become(app, stored, Out(r), {})
      BY <1>10, <2>3 DEF Refused
    <3> QED
      BY <1>1, <1>2, <1>3, <2>1, <3>1, Becoming
  <2> QED
    BY <2>2, <2>3
<1>11. CASE ListsAnswered(r)
  <2> DEFINE a == [app EXCEPT !.lists = r.ans]
  <2>1. UNCHANGED <<server, cookie>> /\ r.ans \in Users /\ Become(a, stored, Out(r), {})
    BY <1>11 DEF ListsAnswered
  <2>2. a \in Applications /\ a.user = app.user /\ a.token = app.token /\ a.loading = app.loading
        /\ a.revived = app.revived
    BY <1>1, <2>1 DEF Applications
  <2>3. KnowsWho(a, stored, Out(r) \cup {})
    BY <1>3, <2>2 DEF KnowsWho
  <2> HIDE DEF a
  <2> QED
    BY <1>1, <1>2, <2>1, <2>2, <2>3, Becoming
<1>12. CASE StatusChecked(r)
  <2> DEFINE b == [app EXCEPT !.updating = FALSE, !.reload = TRUE]
  <2> DEFINE c == [app EXCEPT !.hash = r.ans.hash, !.updating = r.ans.updating]
  <2>1. UNCHANGED <<server, cookie>> /\ r.op \in {"check", "orphan"} /\ r.ans \notin {None, Failed}
    BY <1>12 DEF StatusChecked
  <2>2. r.ans.hash \in Nat \cup {None} /\ r.ans.updating \in BOOLEAN
    BY <1>1, <2>1 DEF Requests, ServerVersions
  <2>3. PICK a \in {app, b, c} : Become(a, stored, Out(r), {})
    BY <1>12 DEF StatusChecked
  <2>4. a \in Applications /\ a.user = app.user /\ a.token = app.token /\ a.loading = app.loading
        /\ a.revived = app.revived
    BY <1>1, <2>2, <2>3 DEF Applications
  <2>5. KnowsWho(a, stored, Out(r) \cup {})
    BY <1>3, <2>4 DEF KnowsWho
  <2> HIDE DEF b, c
  <2> QED
    BY <1>1, <1>2, <2>1, <2>3, <2>4, <2>5, Becoming
(* The user is put back, with or without a token.                          *)
<1>13. CASE ProfileSaved(r)
  <2> DEFINE a == [app EXCEPT !.user = r.arg, !.revived = ~app.token]
  <2>1. UNCHANGED <<server, cookie>> /\ r.op = "profile" /\ Become(a, r.arg, Out(r), {})
    BY <1>13 DEF ProfileSaved
  <2>2. r.arg \in Users
    BY <1>1, <2>1 DEF Requests
  <2>3. app.token \in BOOLEAN /\ (~app.token) \in BOOLEAN
    BY <1>1 DEF Applications
  <2>4. a \in Applications /\ a.user = r.arg /\ a.token = app.token /\ a.revived = ~app.token
    BY <1>1, <2>2, <2>3 DEF Applications
  <2>5. KnowsWho(a, r.arg, Out(r) \cup {})
    BY <1>5, <2>2, <2>3, <2>4 DEF KnowsWho
  <2> HIDE DEF a
  <2> QED
    BY <1>1, <1>2, <2>1, <2>2, <2>4, <2>5, Becoming
<1> QED
  BY <1>6, <1>7, <1>8, <1>9, <1>10, <1>11, <1>12, <1>13 DEF Handles

(* The user, timers and effects of the page.                               *)
LEMMA UserStep ==
    ASSUME IInv,
           \/ Reload \/ Logout \/ Refresh \/ SaveProfile \/ FollowFormLink \/ CheckStatus \/ ReloadAfterUpdate
           \/ Redirect \/ \E u \in Users : Submit("login", u) \/ Submit("register", u)
    PROVE  IInv'
<1>1. /\ TypeOK /\ KnowsWho(app, stored, requests)
      /\ server \in Servers /\ cookie \in Users \cup {None} /\ stored \in Users \cup {None}
      /\ app \in Applications
  BY DEF IInv, TypeOK
<1>2. requests \in SUBSET requests /\ {} \in SUBSET Requests
  OBVIOUS
(* A request that is not about the status is sent, and nothing else.       *)
<1>3. ASSUME NEW op \in Kinds \ {"status"}, NEW arg \in Users \cup {None} \cup Nat,
             op \in {"login", "register", "profile"} => arg \in Users,
             Become(app, stored, requests, {Send(op, arg)}), UNCHANGED <<server, cookie>>
      PROVE  IInv'
  <2>1. Send(op, arg) \in Requests /\ Send(op, arg).op # "status"
    BY <1>1, <1>3, Asking
  <2>2. KnowsWho(app, stored, requests \cup {Send(op, arg)})
    BY <1>1, <2>1 DEF KnowsWho
  <2> QED
    BY <1>1, <1>2, <1>3, <2>1, <2>2, Becoming
(* The user is taken to another page.                                      *)
<1>4. ASSUME NEW route \in Routes, UNCHANGED <<server, cookie>>,
             Become([app EXCEPT !.route = route], stored, requests, {})
      PROVE  IInv'
  <2> DEFINE a == [app EXCEPT !.route = route]
  <2>1. a \in Applications /\ a.user = app.user /\ a.token = app.token /\ a.loading = app.loading
        /\ a.revived = app.revived
    BY <1>1, <1>4 DEF Applications
  <2>2. KnowsWho(a, stored, requests \cup {})
    BY <1>1, <2>1 DEF KnowsWho
  <2> HIDE DEF a
  <2>3. Become(a, stored, requests, {})
    BY <1>4 DEF a
  <2> QED
    BY <1>1, <1>2, <1>4, <2>1, <2>2, <2>3, Becoming
<1>5. CASE Load
  <2>1. PICK route \in {"home", "login"} : app' = Loaded(route)
    BY <1>5 DEF Load
  <2>2. requests' = {Send("me", None)} /\ crossed' = FALSE /\ UNCHANGED <<server, cookie, stored>>
    BY <1>5 DEF Load
  <2>3. Send("me", None) \in Requests /\ Send("me", None).op = "me"
    BY <1>1, Asking DEF Kinds
  <2> QED
    BY <1>1, <2>1, <2>2, <2>3, Loading DEF IInv, TypeOK, KnowsWho
<1>6. CASE Logout
  <2>1. UNCHANGED <<server, cookie>> /\ Become(LoggedOut(app), None, requests, {Send("logout", None)})
    BY <1>6 DEF Logout
  <2>2. {Send("logout", None)} \in SUBSET Requests
    BY <1>1, Asking DEF Kinds
  <2>3. KnowsWho(LoggedOut(app), None, requests \cup {Send("logout", None)})
    BY <1>1, LogInOut DEF KnowsWho
  <2> QED
    BY <1>1, <1>2, <2>1, <2>2, <2>3, LogInOut, Becoming
<1>7. CASE Refresh
  BY <1>3, <1>7 DEF Refresh, Kinds
<1>8. CASE CheckStatus
  <2>1. app.hash \in Users \cup {None} \cup Nat
    BY <1>1 DEF Applications
  <2> QED
    BY <1>3, <1>8, <2>1 DEF CheckStatus, Kinds
<1>12. CASE SaveProfile
  <2>1. app.user \in Users
    BY <1>1, <1>12 DEF SaveProfile, KnowsWho, Applications
  <2> QED
    BY <1>3, <1>12, <2>1 DEF SaveProfile, Kinds
<1>9. CASE FollowFormLink
  BY <1>4, <1>9 DEF FollowFormLink, Routes
<1>10. CASE Redirect
  <2>1. Target \in Routes
    BY <1>1 DEF Target, GuardTarget, Applications, Routes
  <2>2. UNCHANGED <<server, cookie>> /\ Become([app EXCEPT !.route = Target], stored, requests, {})
    BY <1>10 DEF Redirect
  <2> QED
    BY <1>4, <2>1, <2>2
<1>11. ASSUME NEW u \in Users, Submit("login", u) \/ Submit("register", u) PROVE IInv'
  BY <1>3, <1>11 DEF Submit, Kinds
<1> QED
  BY <1>5, <1>6, <1>7, <1>8, <1>9, <1>10, <1>11, <1>12 DEF Reload, ReloadAfterUpdate

(* An update of the server leaves the accounts and the application alone.  *)
LEMMA Reporting ==
    ASSUME server \in Servers, UpdateStarts \/ Pulled \/ HeadStored \/ Withdrawn \/ ServerRestarts
    PROVE  /\ server' \in Servers /\ server'.account = server.account
           /\ UNCHANGED <<cookie, stored, app, requests, crossed>>
<1>1. server.head \in Nat /\ server.head + 1 \in Nat /\ server.updating \in BOOLEAN
  BY DEF Servers
<1>2. CASE UpdateStarts
  BY <1>2 DEF UpdateStarts, Reports, Servers
<1>3. CASE Pulled
  BY <1>1, <1>3 DEF Pulled, Reports, Servers
<1>4. CASE HeadStored
  BY <1>1, <1>4 DEF HeadStored, Reports, Servers
<1>5. CASE Withdrawn
  BY <1>5 DEF Withdrawn, Reports, Servers
<1>6. CASE ServerRestarts
  <2>1. PICK updating \in {server.updating, FALSE} :
           Reports([server EXCEPT !.hash = None, !.updating = updating])
    BY <1>6 DEF ServerRestarts
  <2> QED
    BY <1>1, <2>1 DEF Reports, Servers
<1> QED
  BY <1>2, <1>3, <1>4, <1>5, <1>6

(* The server, and what becomes of a request on the way.                   *)
LEMMA ServerStep ==
    ASSUME IInv,
           \/ \E r \in requests : AnswerSession(r) \/ AnswerForm(r) \/ Fault(r)
           \/ \E u \in Users : Kick(u)
           \/ UpdateStarts \/ Pulled \/ HeadStored \/ Withdrawn \/ ServerRestarts
    PROVE  IInv'
<1>1. /\ TypeOK /\ KnowsWho(app, stored, requests)
      /\ server \in Servers /\ cookie \in Users \cup {None} /\ stored \in Users \cup {None}
      /\ app \in Applications /\ requests \subseteq Requests
  BY DEF IInv, TypeOK
<1>2. ASSUME NEW r \in requests, NEW s \in Servers, NEW a, Answer(r, s, a),
             a \in Users \cup {None, Failed} \cup BOOLEAN \cup ServerVersions,
             r.op \in {"me", "login", "register"} => a \in Users \cup {None, Failed},
             r.op \in {"check", "orphan"} => a \in ServerVersions \cup {None, Failed}
      PROVE  IInv'
  <2> DEFINE q == [r EXCEPT !.sent = FALSE, !.ans = a]
  <2>1. q \in Requests /\ q.op = r.op
    BY <1>1, <1>2 DEF Requests, Messages
  <2> HIDE DEF q
  <2>2. requests' = Out(r) \cup {q} /\ server' = s /\ UNCHANGED <<cookie, stored, app>>
        /\ crossed' = (crossed \/ a = Failed)
    BY <1>2 DEF Answer, q
  <2>3. TypeOK'
    BY <1>1, <2>1, <2>2 DEF TypeOK, Out
  <2>4. KnowsWho(app, stored, requests)'
    BY <1>1, <2>1, <2>2 DEF KnowsWho, Out
  <2> QED
    BY <2>3, <2>4 DEF IInv
<1>3. ASSUME NEW r \in requests, AnswerSession(r) PROVE IInv'
  <2>1. r.as \in Users \cup {None}
    BY <1>1 DEF Requests, Messages
  <2>2. CASE r.op = "status" /\ Answer(r, server, Initialized)
    <3>1. Initialized \in BOOLEAN
      BY DEF Initialized
    <3> QED
      BY <1>1, <1>2, <2>2, <3>1
  <2>3. CASE r.op = "logout" /\ Answer(r, server, TRUE)
    BY <1>1, <1>2, <2>3
  <2>4. CASE r.op \in {"me", "lists"} /\ Answer(r, server, IF Active(r.as) THEN r.as ELSE None)
    BY <1>1, <1>2, <2>1, <2>4
  <2>6. CASE r.op = "profile" /\ Answer(r, server, IF Active(r.as) THEN TRUE ELSE None)
    BY <1>1, <1>2, <2>6
  <2>5. CASE /\ r.op \in {"check", "orphan"}
             /\ Answer(r, server, IF Active(r.as) THEN [hash |-> server.hash, updating |-> server.updating]
                                  ELSE None)
    <3>1. [hash |-> server.hash, updating |-> server.updating] \in ServerVersions
      BY <1>1 DEF Servers, ServerVersions
    <3> QED
      BY <1>1, <1>2, <2>5, <3>1
  <2> QED
    BY <1>3, <2>2, <2>3, <2>4, <2>5, <2>6 DEF AnswerSession
<1>4. ASSUME NEW r \in requests, AnswerForm(r) PROVE IInv'
  <2>1. CASE r.op = "login" /\ Active(r.arg) /\ Answer(r, server, r.arg)
    <3>1. r.arg \in Users
      BY <1>1, <2>1 DEF Requests
    <3> QED
      BY <1>1, <1>2, <2>1, <3>1
  <2>2. CASE /\ r.op = "register" /\ server.account[r.arg] = "new"
             /\ Answer(r, [server EXCEPT !.account[r.arg] = "active"], r.arg)
    <3>1. r.arg \in Users
      BY <1>1, <2>2 DEF Requests
    <3>2. [server EXCEPT !.account[r.arg] = "active"] \in Servers
      BY <1>1, <3>1 DEF Servers
    <3> QED
      BY <1>1, <1>2, <2>2, <3>1, <3>2
  <2>3. CASE r.op \in {"login", "register"} /\ Answer(r, server, None)
    BY <1>1, <1>2, <2>3
  <2> QED
    BY <1>4, <2>1, <2>2, <2>3 DEF AnswerForm
<1>5. ASSUME NEW r \in requests, Fault(r) PROVE IInv'
  BY <1>1, <1>2, <1>5 DEF Fault
<1>6. ASSUME server' \in Servers, UNCHANGED <<cookie, stored, app, requests, crossed>> PROVE IInv'
  BY <1>1, <1>6 DEF IInv, TypeOK, KnowsWho
<1>7. ASSUME NEW u \in Users, Kick(u) PROVE IInv'
  <2>1. server' = [server EXCEPT !.account[u] = "deleted"]
        /\ UNCHANGED <<cookie, stored, app, requests, crossed>>
    BY <1>7 DEF Kick
  <2>2. server' \in Servers
    BY <1>1, <2>1 DEF Servers
  <2> QED
    BY <1>6, <2>1, <2>2
<1>8. CASE UpdateStarts \/ Pulled \/ HeadStored \/ Withdrawn \/ ServerRestarts
  <2>1. /\ server' \in Servers /\ server'.account = server.account
        /\ UNCHANGED <<cookie, stored, app, requests, crossed>>
    BY <1>1, <1>8, Reporting
  <2> QED
    BY <1>6, <2>1
<1> QED
  BY <1>3, <1>4, <1>5, <1>7, <1>8

LEMMA Inductive == IInv /\ [SessionNext]_sessionVars => IInv'
<1> SUFFICES ASSUME IInv, [SessionNext]_sessionVars PROVE IInv'
  OBVIOUS
<1>1. CASE \/ Reload \/ Logout \/ Refresh \/ SaveProfile \/ FollowFormLink
          \/ CheckStatus \/ ReloadAfterUpdate \/ Redirect
  BY <1>1, UserStep
<1>2. CASE \E u \in Users : Submit("login", u) \/ Submit("register", u) \/ Kick(u)
  BY <1>2, UserStep, ServerStep
<1>3. CASE \E r \in requests : Handles(r) \/ AnswerSession(r) \/ AnswerForm(r) \/ Fault(r)
  BY <1>3, HandlerStep, ServerStep
<1>4. CASE UpdateStarts \/ Pulled \/ HeadStored \/ Withdrawn \/ ServerRestarts
  BY <1>4, ServerStep
<1>5. CASE UNCHANGED sessionVars
  BY <1>5 DEF sessionVars, IInv, TypeOK, KnowsWho
<1> QED
  BY <1>1, <1>2, <1>3, <1>4, <1>5 DEF SessionNext

LEMMA Invariance == SessionInit /\ [][SessionNext]_sessionVars => []IInv
  BY InitOK, Inductive, PTL

LEMMA SpecIsSafe == SessionSpec => SessionInit /\ [][SessionNext]_sessionVars
  BY PTL DEF SessionSpec

-----------------------------------------------------------------------------
(* What an application that did not cross knows of its cookie.  One that   *)
(* decides who is logged in is alone, so that nothing it is about to change*)
(* was asked with what it replaces; otherwise the user is the cookie's, and*)
(* the lists are that user's or on their way.                              *)
Agreed(a, c, out) ==
    /\ a.user # None => c = a.user /\ (a.lists = a.user \/ \E r \in out : r.op = "lists")
    /\ a.user = None => ~Active(c)

Quiet(a, c, out) ==
    /\ \A r \in out :
          /\ r.op \in Deciders => out = {r}
          /\ r.ans # Failed
          /\ r.op \in {"me", "lists"} => r.as = c /\ (r.ans \in Users => r.ans = c)
          /\ r.op = "me" => a.token = FALSE /\ (r.sent = FALSE /\ r.ans = None => ~Active(c))
          /\ r.op \in {"login", "register", "logout"} => a.user = None
          /\ r.op = "profile" => r.arg = a.user
    /\ (\A r \in out : r.op \notin {"me", "logout"}) => Agreed(a, c, out)

(* A cookie, and one that is on its way, is of somebody who registered: no *)
(* later registration makes it valid again.                                *)
Registered ==
    /\ cookie # None => server.account[cookie] # "new"
    /\ \A r \in requests :
          r.op \in {"login", "register"} /\ r.ans \in Users => server.account[r.ans] # "new"

Alike == Registered /\ (crossed = FALSE => Quiet(app, cookie, requests))

LEMMA InitAlike == SessionInit => Alike
<1> SUFFICES ASSUME SessionInit PROVE Alike
  OBVIOUS
<1>1. /\ IInv /\ requests = {Send("me", None)}
      /\ cookie \in {None} \cup {u \in Users : server.account[u] = "active"}
  BY InitOK DEF SessionInit
<1>2. PICK route \in {"home", "login"} : app = Loaded(route)
  BY DEF SessionInit
<1>3. app.token = FALSE
  BY <1>1, <1>2, Loading DEF IInv, TypeOK
<1>4. /\ Send("me", None).op = "me" /\ Send("me", None).as = cookie
      /\ Send("me", None).sent = TRUE /\ Send("me", None).ans = None
  BY DEF Send
<1>5. None \notin Users /\ None # Failed
  BY SessionAssumption
<1>6. Registered
  BY <1>1, <1>4 DEF Registered
<1>7. Quiet(app, cookie, requests)
  BY <1>1, <1>3, <1>4, <1>5 DEF Quiet
<1> QED
  BY <1>6, <1>7 DEF Alike

(* What a handler adds to the requests it was told to send.                *)
Lists == [Send("lists", None) EXCEPT !.as = cookie']
Provided(a) == IF a.token = TRUE /\ app.token = FALSE THEN {Lists} ELSE {}

LEMMA ListsSent ==
    ASSUME cookie \in Users \cup {None}
    PROVE  Lists.op = "lists" /\ Lists.as = cookie' /\ Lists.sent = TRUE /\ Lists.ans = None
  BY DEF Lists, Send

(* It is enough that the application and the requests a handler leaves     *)
(* behind agree, if the requests did not cross.                            *)
LEMMA Leaving ==
    ASSUME TypeOK, UNCHANGED server, NEW a \in Applications, NEW p,
           NEW out \in SUBSET requests, NEW asked, Become(a, p, out, asked),
           Registered,
           cookie' # None => server.account[cookie'] # "new",
           \A r \in asked : r.ans \notin Users,
           /\ crossed = FALSE
           /\ out = {} \/ asked \cup Provided(a) = {}
              \/ \A r \in out \cup asked : r.op \notin Deciders
           => Quiet(a, cookie', out \cup asked \cup Provided(a))
    PROVE  Alike'
<1> DEFINE new == asked \cup Provided(a)
<1>1. app \in Applications /\ cookie \in Users \cup {None} /\ crossed \in BOOLEAN
  BY DEF TypeOK
<1>2. a.token \in BOOLEAN /\ app.token \in BOOLEAN
  BY <1>1 DEF Applications
<1>3. (IF a.token /\ ~app.token THEN {Lists} ELSE {}) = Provided(a)
  BY <1>2, Zenon DEF Provided
<1>4. /\ app' = (IF a.route = "home" THEN a ELSE Mounted(a))
      /\ requests' = Staying(a, out) \cup new
      /\ crossed' = (crossed \/ Crossing(out, new))
  BY <1>3 DEF Become, Lists, Staying
<1>12. out \in SUBSET Requests
  BY DEF TypeOK
<1>13. /\ \A r \in Staying(a, out) :
             r \in out \/ \E q \in out : /\ q.op = "check" /\ r.op = "orphan"
                                        /\ r.as = q.as /\ r.sent = q.sent /\ r.ans = q.ans
       /\ \A r \in out : r.op # "check" => r \in Staying(a, out)
  BY <1>12, Stay
<1>5. app'.user = a.user /\ app'.token = a.token /\ app'.lists = a.lists
  BY <1>4 DEF Mounted, Applications
<1>6. Lists.op = "lists" /\ Lists.ans = None /\ None \notin Users
  BY <1>1, ListsSent, SessionAssumption
<1>7. \A r \in new : r.ans \notin Users
  BY <1>6 DEF Provided
<1>8. Registered'
  <2>1. ASSUME NEW r \in requests', r.op \in {"login", "register"}, r.ans \in Users
        PROVE  r \in requests
    BY <1>4, <1>7, <1>13, <2>1
  <2> QED
    BY <2>1 DEF Registered
<1>9. ASSUME crossed' = FALSE PROVE Quiet(app', cookie', requests')
  <2>1. crossed = FALSE /\ ~Crossing(out, new)
    BY <1>1, <1>4, <1>9
  <2>2. Quiet(a, cookie', out \cup new)
    BY <2>1 DEF Crossing
  <2> HIDE DEF new
  <2>3. /\ \A r \in requests' : \/ r \in out \cup new
                                \/ /\ r.op = "orphan" /\ r.ans # Failed
                                   /\ \E q \in out \cup new : q.op = "check"
        /\ \A r \in out \cup new : r.op # "check" => r \in requests'
    BY <1>4, <1>13, <2>2 DEF Quiet
  <2>4. ASSUME NEW r \in requests' PROVE r.op \in Deciders => requests' = {r}
    <3> SUFFICES ASSUME r.op \in Deciders PROVE requests' = {r}
      OBVIOUS
    <3>1. r \in out \cup new /\ out \cup new = {r} /\ r.op # "check"
      BY <2>2, <2>3 DEF Quiet, Deciders
    <3> QED
      BY <2>3, <2>4, <3>1
  <2>6. \A r \in requests' : \/ r \in out \cup new
                             \/ r.op = "orphan" /\ r.ans # Failed
    BY <2>3
  <2>5. (\A r \in requests' : r.op \notin {"me", "logout"}) => Agreed(app', cookie', requests')
    <3> SUFFICES ASSUME \A r \in requests' : r.op \notin {"me", "logout"}
                 PROVE  Agreed(app', cookie', requests')
      OBVIOUS
    <3>1. \A r \in out \cup new : r.op \notin {"me", "logout"}
      BY <2>3
    <3>2. Agreed(a, cookie', out \cup new)
      BY <2>2, <3>1 DEF Quiet
    <3> QED
      BY <1>5, <2>3, <3>2 DEF Agreed
  <2> QED
    BY <1>5, <2>2, <2>4, <2>5, <2>6 DEF Quiet
<1>10. Active(cookie)' <=> Active(cookie')
  BY DEF Active
<1>11. crossed' = FALSE => Quiet(app, cookie, requests)'
  BY <1>9, <1>10 DEF Quiet, Agreed, Active
<1> QED
  BY <1>8, <1>11 DEF Alike

LEMMA LeavingAlone ==
    ASSUME TypeOK, UNCHANGED server, NEW a \in Applications, NEW p,
           NEW out \in SUBSET requests, Become(a, p, out, {}),
           Registered,
           cookie' # None => server.account[cookie'] # "new",
           crossed = FALSE => Quiet(a, cookie', out \cup Provided(a))
    PROVE  Alike'
<1> DEFINE none == {}
<1>1. (out \cup none) \cup Provided(a) = out \cup Provided(a)
  OBVIOUS
<1>2. \A r \in none : r.ans \notin Users
  OBVIOUS
<1>3. Become(a, p, out, none)
  OBVIOUS
<1> HIDE DEF none
<1> QED
  BY <1>1, <1>2, <1>3, Leaving

(* The answers that reach a page that did not cross.                       *)
LEMMA AloneOrNot ==
    ASSUME NEW a, NEW c, NEW out, Quiet(a, c, out), NEW r \in out
    PROVE  /\ r.op \in Deciders => out \ {r} = {}
           /\ r.op \notin Deciders =>
                 (\A q \in out : q.op \notin Deciders) /\ Agreed(a, c, out)
<1>1. r.op \in Deciders => out \ {r} = {}
  BY DEF Quiet
<1>2. ASSUME r.op \notin Deciders
      PROVE  (\A q \in out : q.op \notin Deciders) /\ Agreed(a, c, out)
  <2>1. \A q \in out : q.op \notin Deciders
    BY <1>2 DEF Quiet
  <2> QED
    BY <2>1 DEF Quiet, Deciders
<1> QED
  BY <1>1, <1>2

LEMMA HandlerAlike == ASSUME IInv, Alike, NEW r \in requests, Handles(r) PROVE Alike'
<1>1. /\ TypeOK /\ KnowsWho(app, stored, requests) /\ Registered
      /\ cookie \in Users \cup {None} /\ app \in Applications /\ r \in Requests
  BY DEF IInv, TypeOK, Alike
<1>2. /\ crossed = FALSE => Quiet(app, cookie, requests)
      /\ crossed = FALSE => r.ans # Failed
  BY DEF Alike, Quiet
<1>3. Out(r) \in SUBSET requests /\ Out(r) = requests \ {r}
  BY DEF Out
<1>4. cookie # None => server.account[cookie] # "new"
  BY <1>1 DEF Registered
<1>5. None \notin Users /\ Failed \notin Users /\ None # Failed
  BY SessionAssumption
<1>6. app.token = FALSE => app.token # TRUE
  OBVIOUS
(* A handler that leaves the user alone and asks for nothing.              *)
<1>7. ASSUME NEW a \in Applications, a.user = app.user, a.token = app.token,
             Become(a, stored, Out(r), {}), UNCHANGED <<server, cookie>>,
             r.op # "me", r.op # "logout",
             r.op # "lists" => a.lists = app.lists,
             r.op = "lists" => r.ans \in Users /\ a.lists = r.ans
      PROVE  Alike'
  <2>1. Provided(a) = {}
    BY <1>7 DEF Provided
  <2>2. ASSUME crossed = FALSE PROVE Quiet(a, cookie', Out(r) \cup Provided(a))
    <3>1. Quiet(app, cookie, requests)
      BY <1>2, <2>2
    <3>2. Agreed(app, cookie, requests)
      <4>1. CASE r.op \in Deciders
        BY <1>7, <3>1, <4>1 DEF Quiet, Deciders
      <4>2. CASE r.op \notin Deciders
        BY <3>1, <4>2, AloneOrNot
      <4> QED
        BY <4>1, <4>2
    <3>3. Agreed(a, cookie, Out(r))
      <4>1. r.op = "lists" /\ r.ans \in Users => r.ans = cookie
        BY <3>1 DEF Quiet
      <4> QED
        BY <1>3, <1>7, <3>2, <4>1 DEF Agreed
    <3>4. Quiet(a, cookie, Out(r))
      BY <1>3, <1>7, <3>1, <3>3 DEF Quiet
    <3> QED
      BY <1>7, <2>1, <3>4
  <2>3. cookie' # None => server.account[cookie'] # "new"
    BY <1>4, <1>7
  <2> QED
    BY <1>1, <1>3, <1>7, <2>2, <2>3, LeavingAlone
<1>8. CASE MeAnswered(r)
  <2>1. UNCHANGED <<server, cookie>> /\ r.op = "me" /\ r.ans \in Users \cup {None, Failed}
    BY <1>1, <1>8 DEF MeAnswered, Requests
  <2> DEFINE S == Send("status", None)
  <2>2. S.op = "status" /\ S.ans = None /\ S.sent = TRUE
    BY DEF Send
  <2> HIDE DEF S
  <2>3. ASSUME crossed = FALSE
        PROVE  /\ Out(r) = {} /\ app.token = FALSE
               /\ r.ans \in Users => r.ans = cookie
               /\ r.ans = None => ~Active(cookie)
    <3>1. Quiet(app, cookie, requests)
      BY <1>2, <2>3
    <3>2. r.sent = FALSE
      BY <1>1, <1>8 DEF MeAnswered, Arrived, Requests, Messages
    <3>3. Out(r) = {}
      BY <1>3, <2>1, <3>1, AloneOrNot DEF Deciders
    <3> QED
      BY <2>1, <3>1, <3>2, <3>3 DEF Quiet
  <2>4. CASE r.ans \in {None, Failed}
    <3> DEFINE a == LoggedOut(app)
    <3>1. Become(a, None, Out(r), {S})
      BY <1>8, <2>4 DEF MeAnswered, S
    <3>2. /\ a \in Applications
          /\ a.user = None /\ a.token = FALSE
      BY <1>1, LogInOut
    <3> HIDE DEF a
    <3>3. Provided(a) = {}
      BY <3>2 DEF Provided
    <3>4. ASSUME crossed = FALSE
          PROVE  Quiet(a, cookie', Out(r) \cup {S} \cup Provided(a))
      <4>1. Out(r) = {} /\ ~Active(cookie)
        BY <1>2, <2>3, <2>4, <3>4
      <4>2. Agreed(a, cookie, {S})
        BY <3>2, <4>1 DEF Agreed
      <4>3. Quiet(a, cookie, {S})
        BY <1>5, <2>2, <4>2 DEF Quiet, Deciders
      <4>4. Out(r) \cup {S} \cup Provided(a) = {S} /\ cookie' = cookie
        BY <2>1, <3>3, <4>1
      <4> QED
        BY <4>3, <4>4
    <3>5. cookie' # None => server.account[cookie'] # "new"
      BY <1>4, <2>1
    <3>6. \A q \in {S} : q.ans \notin Users
      BY <1>5, <2>2
    <3>7. crossed = FALSE => Quiet(a, cookie', Out(r) \cup {S} \cup Provided(a))
      BY <3>4
    <3> QED
      BY <1>1, <1>3, <2>1, <3>1, <3>2, <3>5, <3>6, <3>7, Leaving
  <2>5. CASE r.ans \notin {None, Failed}
    <3> DEFINE a == LoggedIn(app, r.ans)
    <3>1. Become(a, r.ans, Out(r), {S})
      BY <1>8, <2>5 DEF MeAnswered, S
    <3>2. r.ans \in Users
      BY <2>1, <2>5
    <3>3. a \in Applications /\ a.user = r.ans /\ a.token = TRUE
      BY <1>1, <3>2, LogInOut
    <3> HIDE DEF a
    <3>4. ASSUME crossed = FALSE PROVE Quiet(a, cookie', Out(r) \cup {S} \cup Provided(a))
      <4>1. Out(r) = {} /\ Provided(a) = {Lists} /\ r.ans = cookie
        BY <2>3, <3>2, <3>3, <3>4 DEF Provided
      <4>2. Lists.op = "lists" /\ Lists.as = cookie' /\ Lists.sent = TRUE /\ Lists.ans = None
        BY <1>1, ListsSent
      <4>3. Agreed(a, cookie', {S, Lists})
        BY <1>5, <2>1, <3>2, <3>3, <4>1, <4>2 DEF Agreed
      <4>4. Quiet(a, cookie', {S, Lists})
        BY <1>5, <2>2, <4>2, <4>3 DEF Quiet, Deciders
      <4> QED
        BY <4>1, <4>4
    <3> QED
      BY <1>1, <1>3, <1>4, <1>5, <2>1, <2>2, <3>1, <3>3, <3>4, Leaving
  <2> QED
    BY <2>4, <2>5
<1>9. CASE StatusAnswered(r)
  <2> DEFINE a == [app EXCEPT !.initialized = (r.ans = TRUE), !.loading = FALSE]
  <2>1. UNCHANGED <<server, cookie>> /\ r.op = "status" /\ Become(a, stored, Out(r), {})
    BY <1>9 DEF StatusAnswered
  <2>2. a \in Applications /\ a.user = app.user /\ a.token = app.token /\ a.lists = app.lists
    BY <1>1 DEF Applications
  <2> HIDE DEF a
  <2> QED
    BY <1>7, <2>1, <2>2
<1>10. CASE FormAnswered(r)
  <2>1. UNCHANGED server /\ r.op \in {"login", "register"}
    BY <1>10 DEF FormAnswered
  <2>2. CASE r.ans \in {None, Failed}
    <3>1. UNCHANGED cookie /\ Become(app, stored, Out(r), {})
      BY <1>10, <2>2 DEF FormAnswered
    <3> QED
      BY <1>1, <1>7, <2>1, <3>1
  <2>3. CASE r.ans \notin {None, Failed}
    <3> DEFINE a == [LoggedIn(app, r.ans) EXCEPT !.route = "home"]
    <3>1. cookie' = r.ans /\ Become(a, r.ans, Out(r), {})
      BY <1>10, <2>3 DEF FormAnswered
    <3>2. r.ans \in Users
      BY <1>1, <2>1, <2>3 DEF Requests
    <3>3. LoggedIn(app, r.ans) \in Applications /\ LoggedIn(app, r.ans).user = r.ans
          /\ LoggedIn(app, r.ans).token = TRUE
      BY <1>1, <3>2, LogInOut
    <3>4. a \in Applications /\ a.user = r.ans /\ a.token = TRUE
      BY <3>3 DEF Applications, Routes
    <3>5. server.account[r.ans] # "new"
      BY <1>1, <2>1, <3>2 DEF Registered
    <3> HIDE DEF a
    <3>6. ASSUME crossed = FALSE PROVE Quiet(a, cookie', Out(r) \cup Provided(a))
      <4>1. Quiet(app, cookie, requests)
        BY <1>2, <3>6
      <4>2. Out(r) = {}
        BY <1>3, <2>1, <4>1, AloneOrNot DEF Deciders
      <4>3. app.token = FALSE
        <5>1. app.user = None
          BY <2>1, <4>1 DEF Quiet
        <5> QED
          BY <1>1, <5>1 DEF KnowsWho, Applications
      <4>4. Provided(a) = {Lists}
        BY <3>4, <4>3 DEF Provided
      <4>5. Lists.op = "lists" /\ Lists.as = cookie' /\ Lists.sent = TRUE /\ Lists.ans = None
        BY <1>1, ListsSent
      <4>6. Agreed(a, cookie', {Lists})
        BY <1>5, <3>1, <3>2, <3>4, <4>5 DEF Agreed
      <4>7. Quiet(a, cookie', {Lists})
        BY <1>5, <4>5, <4>6 DEF Quiet, Deciders
      <4> QED
        BY <4>2, <4>4, <4>7
    <3> QED
      BY <1>1, <1>3, <2>1, <3>1, <3>4, <3>5, <3>6, LeavingAlone
  <2> QED
    BY <2>2, <2>3
<1>11. CASE LogoutAnswered(r)
  <2>1. /\ UNCHANGED server /\ r.op = "logout" /\ Become(app, stored, Out(r), {})
        /\ cookie' = IF r.ans = Failed THEN cookie ELSE None
    BY <1>11 DEF LogoutAnswered
  <2>2. cookie' # None => server.account[cookie'] # "new"
    BY <1>4, <2>1
  <2>3. Provided(app) = {}
    BY DEF Provided
  <2>4. ASSUME crossed = FALSE PROVE Quiet(app, cookie', Out(r) \cup Provided(app))
    <3>1. Quiet(app, cookie, requests) /\ cookie' = None
      BY <1>2, <2>1, <2>4
    <3>2. Out(r) = {}
      BY <1>3, <2>1, <3>1, AloneOrNot DEF Deciders
    <3>3. app.user = None
      BY <2>1, <3>1 DEF Quiet
    <3>4. Agreed(app, cookie', {})
      BY <3>1, <3>3 DEF Agreed, Active
    <3> QED
      BY <2>3, <3>2, <3>4 DEF Quiet
  <2> QED
    BY <1>1, <1>3, <2>1, <2>2, <2>4, LeavingAlone
<1>12. CASE Refused(r)
  <2>1. UNCHANGED <<server, cookie>> /\ r.op \in {"lists", "profile", "check", "orphan"}
        /\ r.ans \in {None, Failed}
    BY <1>12 DEF Refused
  <2>2. CASE r.ans = None
    <3> DEFINE S == Send("logout", None)
    <3>1. Become(LoggedOut(app), None, Out(r), {S})
      BY <1>12, <2>2 DEF Refused
    <3>2. S.op = "logout" /\ S.ans = None
      BY DEF Send
    <3> HIDE DEF S
    <3>3. /\ LoggedOut(app) \in Applications
          /\ LoggedOut(app).user = None /\ LoggedOut(app).token = FALSE
      BY <1>1, LogInOut
    <3>4. Provided(LoggedOut(app)) = {}
      BY <3>3 DEF Provided
    <3>5. Quiet(LoggedOut(app), cookie, {S})
      BY <1>5, <3>2, <3>3 DEF Quiet
    <3>6. (Out(r) = {} \/ {S} \cup Provided(LoggedOut(app)) = {}
             \/ \A q \in Out(r) \cup {S} : q.op \notin Deciders)
          => Quiet(LoggedOut(app), cookie', Out(r) \cup {S} \cup Provided(LoggedOut(app)))
      BY <2>1, <3>2, <3>4, <3>5 DEF Deciders
    <3>7. cookie' # None => server.account[cookie'] # "new"
      BY <1>4, <2>1
    <3> QED
      BY <1>1, <1>3, <1>5, <2>1, <3>1, <3>2, <3>3, <3>6, <3>7, Leaving
(* A request that failed was noted when it did.                            *)
  <2>3. CASE r.ans # None
    <3>1. Become(app, stored, Out(r), {}) /\ crossed # FALSE
      BY <1>2, <1>12, <2>1, <2>3 DEF Refused
    <3> QED
      BY <1>1, <1>3, <1>4, <2>1, <3>1, LeavingAlone
  <2> QED
    BY <2>2, <2>3
<1>13. CASE ListsAnswered(r)
  <2> DEFINE a == [app EXCEPT !.lists = r.ans]
  <2>1. UNCHANGED <<server, cookie>> /\ r.op = "lists" /\ r.ans \in Users /\ Become(a, stored, Out(r), {})
    BY <1>13 DEF ListsAnswered
  <2>2. a \in Applications /\ a.user = app.user /\ a.token = app.token /\ a.lists = r.ans
    BY <1>1, <2>1 DEF Applications
  <2> HIDE DEF a
  <2> QED
    BY <1>7, <2>1, <2>2
<1>14. CASE StatusChecked(r)
  <2> DEFINE b == [app EXCEPT !.updating = FALSE, !.reload = TRUE]
  <2> DEFINE c == [app EXCEPT !.hash = r.ans.hash, !.updating = r.ans.updating]
  <2>1. UNCHANGED <<server, cookie>> /\ r.op \in {"check", "orphan"} /\ r.ans \notin {None, Failed}
    BY <1>14 DEF StatusChecked
  <2>2. r.ans.hash \in Nat \cup {None} /\ r.ans.updating \in BOOLEAN
    BY <1>1, <2>1 DEF Requests, ServerVersions
  <2>3. PICK a \in {app, b, c} : Become(a, stored, Out(r), {})
    BY <1>14 DEF StatusChecked
  <2>4. a \in Applications /\ a.user = app.user /\ a.token = app.token /\ a.lists = app.lists
    BY <1>1, <2>2, <2>3 DEF Applications
  <2> HIDE DEF b, c
  <2> QED
    BY <1>7, <2>1, <2>3, <2>4
(* Without a crossing the user is the one the profile was sent for.        *)
<1>15. CASE ProfileSaved(r)
  <2> DEFINE a == [app EXCEPT !.user = r.arg, !.revived = ~app.token]
  <2>1. UNCHANGED <<server, cookie>> /\ r.op = "profile" /\ Become(a, r.arg, Out(r), {})
    BY <1>15 DEF ProfileSaved
  <2>2. r.arg \in Users
    BY <1>1, <2>1 DEF Requests
  <2>3. app.token \in BOOLEAN /\ (~app.token) \in BOOLEAN
    BY <1>1 DEF Applications
  <2>4. /\ a \in Applications
        /\ a.user = r.arg /\ a.token = app.token /\ a.lists = app.lists
    BY <1>1, <2>2, <2>3 DEF Applications
  <2> HIDE DEF a
  <2>5. Provided(a) = {}
    BY <2>4 DEF Provided
  <2>6. ASSUME crossed = FALSE PROVE Quiet(a, cookie', Out(r) \cup Provided(a))
    <3>1. Quiet(app, cookie, requests)
      BY <1>2, <2>6
    <3>2. /\ \A q \in requests : q.op \notin Deciders
          /\ Agreed(app, cookie, requests)
      BY <2>1, <3>1, AloneOrNot DEF Deciders
    <3>3. r.arg = app.user
      BY <2>1, <3>1 DEF Quiet
    <3>4. Agreed(a, cookie, Out(r))
      BY <1>3, <2>1, <2>4, <3>2, <3>3 DEF Agreed
    <3>5. Quiet(a, cookie, Out(r))
      BY <1>3, <2>4, <3>1, <3>2, <3>3, <3>4 DEF Quiet
    <3> QED
      BY <2>1, <2>5, <3>5
  <2>7. cookie' # None => server.account[cookie'] # "new"
    BY <1>4, <2>1
  <2> QED
    BY <1>1, <1>3, <2>1, <2>4, <2>6, <2>7, LeavingAlone
<1> QED
  BY <1>8, <1>9, <1>10, <1>11, <1>12, <1>13, <1>14, <1>15 DEF Handles

(* A form is open to somebody who is not logged in.                        *)
LEMMA FormOfVisitor ==
    ASSUME app.route \in {"login", "register"}, Settled PROVE app.user = None
  BY DEF Settled, Target

LEMMA UserAlike ==
    ASSUME IInv, Alike,
           \/ Reload \/ Logout \/ Refresh \/ SaveProfile \/ FollowFormLink \/ CheckStatus \/ ReloadAfterUpdate
           \/ Redirect \/ \E u \in Users : Submit("login", u) \/ Submit("register", u)
    PROVE  Alike'
<1>1. /\ TypeOK /\ KnowsWho(app, stored, requests) /\ Registered
      /\ cookie \in Users \cup {None} /\ stored \in Users \cup {None} /\ app \in Applications
  BY DEF IInv, TypeOK, Alike
<1>2. crossed = FALSE => Quiet(app, cookie, requests)
  BY DEF Alike
<1>3. requests \in SUBSET requests
  OBVIOUS
<1>4. cookie # None => server.account[cookie] # "new"
  BY <1>1 DEF Registered
<1>5. None \notin Users /\ None # Failed
  BY SessionAssumption
(* A request is sent, one that decides only by a visitor.                  *)
<1>6. ASSUME NEW op \in Kinds \ {"me"}, NEW arg, NEW a \in Applications, NEW p,
             Become(a, p, requests, {Send(op, arg)}), UNCHANGED <<server, cookie>>,
             \/ a = app
             \/ op = "logout" /\ a.token = FALSE,
             op \in Deciders => a.user = None,
             op = "profile" => arg = a.user
      PROVE  Alike'
  <2> DEFINE S == Send(op, arg)
  <2>1. S.op = op /\ S.as = cookie /\ S.arg = arg /\ S.ans = None /\ S.sent = TRUE
    BY DEF Send
  <2> HIDE DEF S
  <2>2. /\ Provided(a) = {} /\ cookie' = cookie
        /\ requests \cup {S} \cup Provided(a) = requests \cup {S}
    BY <1>6 DEF Provided
  <2>3. ASSUME crossed = FALSE,
               requests = {} \/ {S} \cup Provided(a) = {} \/ \A q \in requests \cup {S} : q.op \notin Deciders
        PROVE  Quiet(a, cookie', requests \cup {S} \cup Provided(a))
    <3>1. Quiet(app, cookie, requests)
      BY <1>2, <2>3
    <3>2. CASE op \notin Deciders
      <4>0. a = app /\ op \notin {"me", "login", "register", "logout"}
        BY <1>6, <3>2 DEF Deciders
      <4>1. \A q \in requests : q.op \notin Deciders
        BY <2>3
      <4>2. Agreed(app, cookie, requests)
        BY <3>1, <4>1 DEF Quiet, Deciders
      <4>3. Agreed(app, cookie, requests \cup {S})
        BY <4>2 DEF Agreed
      <4>4. Quiet(a, cookie, requests \cup {S})
        BY <1>5, <1>6, <2>1, <3>1, <3>2, <4>0, <4>1, <4>3 DEF Quiet
      <4> QED
        BY <2>2, <4>4
    <3>3. CASE op \in Deciders
      <4>1. requests = {}
        BY <2>1, <2>3, <3>3
      <4>2. op # "logout" => Agreed(a, cookie, {S})
        <5>1. Agreed(app, cookie, {})
          BY <3>1, <4>1 DEF Quiet
        <5> QED
          BY <1>6, <5>1 DEF Agreed
      <4>3. Quiet(a, cookie, {S})
        BY <1>5, <1>6, <2>1, <3>3, <4>2 DEF Quiet, Deciders
      <4>4. requests \cup {S} \cup Provided(a) = {S}
        BY <2>2, <4>1
      <4> QED
        BY <2>2, <4>3, <4>4
    <3> QED
      BY <3>2, <3>3
  <2>4. Become(a, p, requests, {S})
    BY <1>6 DEF S
  <2>5. cookie' # None => server.account[cookie'] # "new"
    BY <1>4, <2>2
  <2>6. \A q \in {S} : q.ans \notin Users
    BY <1>5, <2>1
  <2>7. /\ crossed = FALSE
        /\ requests = {} \/ {S} \cup Provided(a) = {} \/ \A q \in requests \cup {S} : q.op \notin Deciders
        => Quiet(a, cookie', requests \cup {S} \cup Provided(a))
    BY <2>3
  <2> QED
    BY <1>1, <1>3, <1>6, <2>4, <2>5, <2>6, <2>7, Leaving
(* The user is taken to another page.                                      *)
<1>7. ASSUME NEW route \in Routes, UNCHANGED <<server, cookie>>,
             Become([app EXCEPT !.route = route], stored, requests, {})
      PROVE  Alike'
  <2> DEFINE a == [app EXCEPT !.route = route]
  <2>1. a \in Applications /\ a.user = app.user /\ a.token = app.token /\ a.lists = app.lists
    BY <1>1, <1>7 DEF Applications
  <2> HIDE DEF a
  <2>2. Become(a, stored, requests, {}) /\ Provided(a) = {}
    BY <1>7, <2>1 DEF a, Provided
  <2>3. ASSUME crossed = FALSE PROVE Quiet(a, cookie', requests \cup Provided(a))
    <3>1. requests \cup Provided(a) = requests /\ cookie' = cookie
      BY <1>7, <2>2
    <3>2. Quiet(a, cookie, requests)
      BY <1>2, <2>1, <2>3 DEF Quiet, Agreed
    <3> QED
      BY <3>1, <3>2
  <2> QED
    BY <1>1, <1>3, <1>4, <1>7, <2>1, <2>2, <2>3, LeavingAlone
<1>8. CASE Load
  <2>1. PICK route \in {"home", "login"} : app' = Loaded(route)
    BY <1>8 DEF Load
  <2>2. requests' = {Send("me", None)} /\ crossed' = FALSE /\ UNCHANGED <<server, cookie, stored>>
    BY <1>8 DEF Load
  <2>3. app'.token = FALSE
    BY <1>1, <2>1, Loading
  <2>4. /\ Send("me", None).op = "me" /\ Send("me", None).as = cookie
        /\ Send("me", None).sent = TRUE /\ Send("me", None).ans = None
    BY DEF Send
  <2>5. Registered'
    BY <1>1, <1>5, <2>2, <2>4 DEF Registered
  <2>6. Quiet(app, cookie, requests)'
    BY <1>5, <2>2, <2>3, <2>4 DEF Quiet
  <2> QED
    BY <2>5, <2>6 DEF Alike
<1>9. CASE Logout
  <2>1. UNCHANGED <<server, cookie>> /\ Become(LoggedOut(app), None, requests, {Send("logout", None)})
    BY <1>9 DEF Logout
  <2>2. /\ LoggedOut(app) \in Applications
        /\ LoggedOut(app).user = None /\ LoggedOut(app).token = FALSE
    BY <1>1, LogInOut
  <2> QED
    BY <1>6, <2>1, <2>2 DEF Kinds
<1>10. CASE Refresh
  BY <1>1, <1>6, <1>10 DEF Refresh, Kinds, Deciders
<1>15. CASE SaveProfile
  BY <1>1, <1>6, <1>15 DEF SaveProfile, Kinds, Deciders
<1>11. CASE CheckStatus
  BY <1>1, <1>6, <1>11 DEF CheckStatus, Kinds, Deciders
<1>12. CASE FollowFormLink
  BY <1>7, <1>12 DEF FollowFormLink, Routes
<1>13. CASE Redirect
  <2>1. Target \in Routes
    BY <1>1 DEF Target, GuardTarget, Applications, Routes
  <2>2. UNCHANGED <<server, cookie>> /\ Become([app EXCEPT !.route = Target], stored, requests, {})
    BY <1>13 DEF Redirect
  <2> QED
    BY <1>7, <2>1, <2>2
<1>14. ASSUME NEW u \in Users, NEW op \in {"login", "register"}, Submit(op, u) PROVE Alike'
  <2>1. app.user = None
    BY <1>14, FormOfVisitor DEF Submit
  <2> QED
    BY <1>1, <1>6, <1>14, <2>1 DEF Submit, Kinds
<1> QED
  BY <1>8, <1>9, <1>10, <1>11, <1>12, <1>13, <1>14, <1>15 DEF Reload, ReloadAfterUpdate

(* The server answers, and touches only accounts that are new.             *)
LEMMA Answering ==
    ASSUME IInv, Alike, NEW r \in requests, NEW s, NEW a, Answer(r, s, a),
           \A u \in Users : server.account[u] # "new" => s.account[u] = server.account[u],
           r.op \in {"me", "lists"} /\ a # Failed => a = IF Active(r.as) THEN r.as ELSE None,
           r.op \in {"login", "register"} /\ a \in Users => s.account[a] # "new"
    PROVE  Alike'
<1> DEFINE q == [r EXCEPT !.sent = FALSE, !.ans = a]
<1>1. /\ cookie \in Users \cup {None} /\ r \in Requests /\ Registered /\ crossed \in BOOLEAN
      /\ crossed = FALSE => Quiet(app, cookie, requests)
  BY DEF IInv, TypeOK, Alike
<1>2. q.op = r.op /\ q.as = r.as /\ q.arg = r.arg /\ q.ans = a /\ q.sent = FALSE
  BY <1>1 DEF Requests, Messages
<1>3. /\ requests' = Out(r) \cup {q} /\ server' = s /\ UNCHANGED <<cookie, stored, app>>
      /\ crossed' = (crossed \/ a = Failed)
  BY DEF Answer
<1> HIDE DEF q
<1>4. None \notin Users /\ Failed \notin Users
  BY SessionAssumption
<1>5. Registered'
  <2>1. cookie' # None => server'.account[cookie'] # "new"
    BY <1>1, <1>3 DEF Registered
  <2>2. ASSUME NEW p \in requests', p.op \in {"login", "register"}, p.ans \in Users
        PROVE  server'.account[p.ans] # "new"
    BY <1>1, <1>2, <1>3, <2>2 DEF Registered, Out
  <2> QED
    BY <2>1, <2>2 DEF Registered
<1>6. Active(cookie)' <=> Active(cookie)
  BY <1>1, <1>3 DEF Registered, Active
<1>7. ASSUME crossed' = FALSE PROVE Quiet(app, cookie, requests)'
  <2>1. Quiet(app, cookie, requests) /\ a # Failed
    BY <1>1, <1>3, <1>7
  <2>2. \A p \in requests' : p.op \in Deciders => requests' = {p}
    BY <1>2, <1>3, <2>1 DEF Quiet, Out
  <2>3. \A p \in requests' : p.ans # Failed
    BY <1>2, <1>3, <2>1 DEF Quiet, Out
  <2>4. \A p \in requests' :
           p.op \in {"me", "lists"} => p.as = cookie' /\ (p.ans \in Users => p.ans = cookie')
    BY <1>2, <1>3, <1>4, <2>1 DEF Quiet, Out
  <2>5. \A p \in requests' :
           p.op = "me" => app'.token = FALSE /\ (p.sent = FALSE /\ p.ans = None => ~Active(cookie)')
    <3>1. r.op = "me" /\ a = None => ~Active(cookie)
      BY <1>1, <1>4, <2>1 DEF Quiet, Active
    <3> QED
      BY <1>2, <1>3, <1>6, <2>1, <3>1 DEF Quiet, Out
  <2>6. \A p \in requests' : p.op \in {"login", "register", "logout"} => app'.user = None
    BY <1>2, <1>3, <2>1 DEF Quiet, Out
  <2>8. \A p \in requests' : p.op = "profile" => p.arg = app'.user
    BY <1>2, <1>3, <2>1 DEF Quiet, Out
  <2>7. (\A p \in requests' : p.op \notin {"me", "logout"}) => Agreed(app, cookie, requests)'
    <3> SUFFICES ASSUME \A p \in requests' : p.op \notin {"me", "logout"}
                 PROVE  Agreed(app, cookie, requests)'
      OBVIOUS
    <3>1. \A p \in requests : p.op \notin {"me", "logout"}
      BY <1>2, <1>3 DEF Out
    <3>2. Agreed(app, cookie, requests)
      BY <2>1, <3>1 DEF Quiet
    <3>3. (\E p \in requests : p.op = "lists") => \E p \in requests' : p.op = "lists"
      BY <1>2, <1>3 DEF Out
    <3> QED
      BY <1>3, <1>6, <3>2, <3>3 DEF Agreed
  <2> QED
    BY <2>2, <2>3, <2>4, <2>5, <2>6, <2>7, <2>8 DEF Quiet
<1> QED
  BY <1>5, <1>7 DEF Alike

LEMMA ServerAlike ==
    ASSUME IInv, Alike,
           \/ \E r \in requests : AnswerSession(r) \/ AnswerForm(r) \/ Fault(r)
           \/ \E u \in Users : Kick(u)
           \/ UpdateStarts \/ Pulled \/ HeadStored \/ Withdrawn \/ ServerRestarts
    PROVE  Alike'
<1>1. /\ server \in Servers /\ cookie \in Users \cup {None} /\ requests \subseteq Requests
      /\ \A u \in Users : server.account[u] # "new" => server.account[u] = server.account[u]
  BY DEF IInv, TypeOK
<1>2. None \notin Users /\ Failed \notin Users /\ None # Failed
  BY SessionAssumption
<1>3. ASSUME NEW r \in requests, AnswerSession(r) PROVE Alike'
  <2>1. PICK a : /\ Answer(r, server, a) /\ r.op \notin {"login", "register"}
                 /\ r.op \in {"me", "lists"} => a = IF Active(r.as) THEN r.as ELSE None
    BY <1>3 DEF AnswerSession
  <2> QED
    BY <1>1, <2>1, Answering
<1>4. ASSUME NEW r \in requests, AnswerForm(r) PROVE Alike'
  <2>0. /\ r.op \in {"login", "register"} /\ r.arg \in Users /\ r.op \notin {"me", "lists"}
        /\ server.account[r.arg] \in {"new", "active", "deleted"}
    BY <1>1, <1>4 DEF AnswerForm, Requests, Servers
  <2>1. CASE Active(r.arg) /\ Answer(r, server, r.arg)
    <3>1. server.account[r.arg] # "new"
      BY <2>1 DEF Active
    <3> QED
      BY <1>1, <2>0, <2>1, <3>1, Answering
  <2>2. CASE /\ server.account[r.arg] = "new"
             /\ Answer(r, [server EXCEPT !.account[r.arg] = "active"], r.arg)
    <3> DEFINE s == [server EXCEPT !.account[r.arg] = "active"]
    <3>1. /\ s.account[r.arg] # "new"
          /\ \A u \in Users : server.account[u] # "new" => s.account[u] = server.account[u]
      BY <1>1, <2>0, <2>2 DEF Servers
    <3>2. Answer(r, s, r.arg)
      BY <2>2
    <3> HIDE DEF s
    <3> QED
      BY <2>0, <3>1, <3>2, Answering
  <2>3. CASE Answer(r, server, None)
    BY <1>1, <1>2, <2>0, <2>3, Answering
  <2> QED
    BY <1>4, <2>1, <2>2, <2>3 DEF AnswerForm
<1>5. ASSUME NEW r \in requests, Fault(r) PROVE Alike'
  BY <1>1, <1>2, <1>5, Answering DEF Fault
<1>6. ASSUME \A u \in Users : \/ server'.account[u] = server.account[u]
                              \/ server'.account[u] = "deleted",
             UNCHANGED <<cookie, stored, app, requests, crossed>>
      PROVE  Alike'
  <2>1. Registered /\ (crossed = FALSE => Quiet(app, cookie, requests))
    BY DEF Alike
  <2>2. Active(cookie)' => Active(cookie)
    BY <1>1, <1>6 DEF Active
  <2>3. Registered'
    <3>1. \A u \in Users : server.account[u] # "new" => server'.account[u] # "new"
      BY <1>6
    <3> QED
      BY <1>1, <1>6, <2>1, <3>1 DEF Registered
  <2>4. Quiet(app, cookie, requests) => Quiet(app, cookie, requests)'
    BY <1>6, <2>2 DEF Quiet, Agreed
  <2> QED
    BY <1>6, <2>1, <2>3, <2>4 DEF Alike
<1>7. ASSUME NEW u \in Users, Kick(u) PROVE Alike'
  <2>1. /\ server' = [server EXCEPT !.account[u] = "deleted"]
        /\ UNCHANGED <<cookie, stored, app, requests, crossed>>
    BY <1>7 DEF Kick
  <2>2. \A v \in Users : server'.account[v] = server.account[v] \/ server'.account[v] = "deleted"
    BY <1>1, <2>1 DEF Servers
  <2> QED
    BY <1>6, <2>1, <2>2
<1>8. ASSUME UpdateStarts \/ Pulled \/ HeadStored \/ Withdrawn \/ ServerRestarts PROVE Alike'
  <2>1. server'.account = server.account /\ UNCHANGED <<cookie, stored, app, requests, crossed>>
    BY <1>1, <1>8, Reporting
  <2> QED
    BY <1>6, <2>1
<1> QED
  BY <1>3, <1>4, <1>5, <1>7, <1>8

LEMMA AlikeInductive == IInv /\ Alike /\ [SessionNext]_sessionVars => Alike'
<1> SUFFICES ASSUME IInv, Alike, [SessionNext]_sessionVars PROVE Alike'
  OBVIOUS
<1>1. CASE \/ Reload \/ Logout \/ Refresh \/ SaveProfile \/ FollowFormLink
          \/ CheckStatus \/ ReloadAfterUpdate \/ Redirect
  BY <1>1, UserAlike
<1>2. CASE \E u \in Users : Submit("login", u) \/ Submit("register", u) \/ Kick(u)
  BY <1>2, UserAlike, ServerAlike
<1>3. CASE \E r \in requests : Handles(r) \/ AnswerSession(r) \/ AnswerForm(r) \/ Fault(r)
  BY <1>3, HandlerAlike, ServerAlike
<1>4. CASE UpdateStarts \/ Pulled \/ HeadStored \/ Withdrawn \/ ServerRestarts
  BY <1>4, ServerAlike
<1>5. CASE UNCHANGED sessionVars
  BY <1>5 DEF sessionVars, Alike, Registered, Quiet, Agreed, Active
<1> QED
  BY <1>1, <1>2, <1>3, <1>4, <1>5 DEF SessionNext

-----------------------------------------------------------------------------
(* Every variable keeps its type; a handler finds in its answer what it    *)
(* takes from it.                                                          *)
THEOREM TypeCorrect == SessionSpec => []TypeOK
<1>1. IInv => TypeOK
  BY DEF IInv
<1> QED
  BY <1>1, Invariance, SpecIsSafe, PTL

(* AuthContext and localStorage name the same user in every state, and once*)
(* loading is over there is a token exactly when there is a user, except   *)
(* after a profile was saved whose user had been logged out (updateUser).  *)
THEOREM KnownTogether == SessionSpec => []SignedInTogether
<1>1. IInv => SignedInTogether
  <2> SUFFICES ASSUME IInv PROVE SignedInTogether
    OBVIOUS
  <2>1. /\ KnowsWho(app, stored, requests)
        /\ app.token \in BOOLEAN /\ app.loading \in BOOLEAN /\ app.revived \in BOOLEAN
    BY DEF IInv, TypeOK, Applications
  <2>2. app.user = stored /\ (app.token => app.user # None)
    BY <2>1 DEF KnowsWho
  <2>3. ~app.loading /\ app.user # None => app.token \/ app.revived
    BY <2>1 DEF KnowsWho
  <2> QED
    BY <2>2, <2>3, Zenon DEF SignedInTogether
<1> QED
  BY <1>1, Invariance, SpecIsSafe, PTL

(* An application at rest shows the account its cookie is for, with lists  *)
(* fetched for that account: no login, registration, logout, late 401 or   *)
(* deletion of an account leaves it with somebody else's, unless a request *)
(* that decides who is logged in crossed another one, or failed.           *)
THEOREM RestingAgrees == SessionSpec => []SessionAgrees
<1>1. IInv /\ Alike => SessionAgrees
  <2> SUFFICES ASSUME IInv, Alike, crossed = FALSE, requests = {}
               PROVE  /\ app.user # None => cookie = app.user /\ app.lists = app.user
                      /\ app.user = None => ~Active(cookie)
    BY DEF SessionAgrees, IInv, TypeOK
  <2>1. Quiet(app, cookie, {})
    BY DEF Alike
  <2> QED
    BY <2>1 DEF Quiet, Agreed
<1>2. SessionInit /\ [][SessionNext]_sessionVars => []Alike
  BY InitAlike, AlikeInductive, Invariance, PTL
<1> QED
  BY <1>1, <1>2, Invariance, SpecIsSafe, PTL
=============================================================================
