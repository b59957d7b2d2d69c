------------------------- MODULE DashboardPagesProofs -------------------------
(***************************************************************************)
(* Proofs about the pages of the dashboard, for any number of requests in  *)
(* flight and of items, whatever fails and wherever the user moves: a flag *)
(* always has a request that ends it (SpinnerHasRequest), and no two       *)
(* changes of a kind are out together (OneWriteAtATime).                   *)
(*                                                                         *)
(* The invariant is about three things: the page, its requests and its     *)
(* flags.  `Raised` says which flag the handler of a request holds up,     *)
(* `Spins` which spinner its answer ends, `Group` which flags live in one  *)
(* hook.  A handler that is waiting owns its hook: the flag in it is its   *)
(* own, and no other handler waits for that flag.  A few lemmas say what   *)
(* the building blocks of DashboardPage (Act, Handle, ...) do to that, and *)
(* each page is then a matter of its flags.                                *)
(***************************************************************************)
EXTENDS DashboardPages, TLAPS

(* A request, as Request and what becomes of it make it.                   *)
RequestFields == {"op", "at", "arg", "sent", "ans", "mine", "twin"}
IsRequest(r) ==
    /\ DOMAIN r = RequestFields
    /\ r = [f \in RequestFields |-> r[f]]
    /\ r.mine \in BOOLEAN

(* The flag that the handler r belongs to holds up, as a set: what its     *)
(* button waits for.  A request that only reads holds none.  {None} is for *)
(* requests that are never sent: None is no flag (see Sound).              *)
Raised(p, r) ==
    IF r.op \in Queries THEN {}
    ELSE IF p = "connections" THEN (IF r.op \in {"list", "database"} THEN {} ELSE {r.arg})
    ELSE IF p = "branches"
    THEN (IF r.op = "list" THEN {r.arg.then} \ {None} ELSE {r.op})
    ELSE IF p = "webserver"
    THEN (IF r.op = "load" THEN {r.arg} \ {None} ELSE {"action"})
    ELSE IF p = "users"
    THEN (IF r.op = "list" THEN {r.arg.then} \ {None} ELSE {r.arg})
    ELSE IF p = "user access" THEN (IF r.op = "access" THEN {} ELSE {"save"})
    ELSE IF p = "notifications"
    THEN (IF r.op = "load" THEN {} ELSE IF r.op \in Tests THEN {r.op} ELSE {"save"})
    ELSE IF p = "navigation"
    THEN (IF r.op = "list" THEN {}
          ELSE IF r.op = "create database" THEN {"create"} ELSE {r.op})
    ELSE IF p = "projects"
    THEN (IF r.op = "load" THEN {r.arg} \cap {"rename"}
          ELSE IF r.op = "rename" THEN {"rename"} ELSE {"create"})
    ELSE IF p = "project" THEN (IF r.op = "load" THEN {} ELSE {"save"})
    ELSE IF p \in ContainersPages
    THEN (IF r.op \in {"load", "logs"} THEN {r.arg} \ {None}
          ELSE IF r.op = "exec" THEN {"exec"}
          ELSE IF r.op = "move" THEN {} ELSE {r.arg})
    ELSE IF p \in TopologyPages
    THEN (IF r.op = "load" THEN {r.arg} \cap {"assign", "remove"}
          ELSE IF r.op = "list" THEN {r.arg.then} \cap {"assign", "remove"}
          ELSE IF r.op = "create" THEN {"create"}
          ELSE IF r.op = "apply" THEN (IF r.arg.then = "assign" THEN {"assign"} ELSE {None})
          ELSE IF r.op = "automate"
          THEN (IF r.arg.then = "assign" THEN {"assign"}
                ELSE IF r.arg.then = "link" THEN {} ELSE {None})
          ELSE IF r.op = "save cards" THEN {r.arg.then} \cap {"assign", "remove"}
          ELSE {"remove"})
    ELSE IF p \in DatabasePages THEN (IF r.op = "load" THEN {} ELSE {r.op})
    ELSE IF r.op \in Reads \cup {"rows", "restart", "avatar"} THEN {} ELSE {r.op}

(* The spinner, or the flag nothing is disabled by, that r takes down.     *)
Spins(p, r) ==
    IF p = "users"
    THEN (IF r.op = "list" THEN (IF r.arg.what = "mail" THEN {"whitelist"} ELSE {}) ELSE {})
    ELSE IF p = "connections" \/ p = "branches"
    THEN (IF r.op = "list" THEN {"load"} ELSE {})
    ELSE IF p \in TopologyPages THEN (IF r.op \in {"load", "list"} THEN {"load"} ELSE {})
    ELSE IF p = "limits" THEN (IF r.op = "database" THEN {"load"} ELSE {})
    ELSE IF p = "user access" THEN (IF r.op = "access" THEN {"access"} ELSE {})
    ELSE IF p = "profile"
    THEN (IF r.op = "load" THEN {"status"} ELSE IF r.op = "avatar" THEN {"avatar"} ELSE {})
    ELSE IF p \in TablesPages THEN (IF r.op \in {"list", "rows"} THEN {r.op} ELSE {})
    ELSE IF p \in DatabasePages
    THEN (IF r.op = "load" THEN {"connection"} ELSE IF r.op = "detail" THEN {"secure"} ELSE {})
    ELSE IF p = "project" THEN (IF r.op = "load" THEN {"users"} ELSE {})
    ELSE IF p \in ContainersPages THEN (IF r.op \in {"load", "logs"} THEN {r.op} ELSE {})
    ELSE IF p \in {"navigation", "projects", "sql", "backups", "backup settings"} THEN {}
    ELSE IF r.op = "load" THEN {"load"} ELSE {}

Clears(p, r) == Raised(p, r) \cup Spins(p, r)

(* The flags a handler of the page can hold up.                            *)
Flags(p) ==
    IF p = "connections" THEN Items
    ELSE IF p = "users" THEN Items \cup {"add", "remove"}
    ELSE IF p \in ContainersPages THEN Items \cup {"exec", Proxy}
    ELSE IF p = "branches" THEN BranchActions \cup {"create"}
    ELSE IF p \in DatabasePages THEN DatabaseActions \cup {"rotate"}
    ELSE {"save", "email", "discord", "action", "profile", "password", "key", "check", "backup",
          "rollback", "restore file", "restore connection", "decrypt", "run", "assistant", "create", "delete",
          "rename", "assign", "remove"}

(* The flags that share a hook with f: they disable the same buttons.      *)
Group(p, f) ==
    IF p \in {"connections", "users"} /\ f \in Items THEN Items
    ELSE IF p = "branches" /\ f \in BranchActions THEN BranchActions
    ELSE IF p \in DatabasePages /\ f \in DatabaseActions THEN DatabaseActions
    ELSE {f}

(* The requests n and the flags b of page p agree.                         *)
Sound(p, n, b) ==
    /\ \A r \in n : IsRequest(r) /\ Raised(p, r) \subseteq Flags(p)
    /\ \A f \in b : \E r \in n : r.mine = TRUE /\ f \in Clears(p, r)
    /\ \A r \in n : r.mine = TRUE => \A f \in Raised(p, r) : b \cap Group(p, f) = {f}
    /\ \A r \in n, q \in n :
          r.mine = TRUE /\ q.mine = TRUE /\ r # q => Raised(p, r) \cap Raised(p, q) = {}

(* The same of the state.  A handler that holds a flag up has its page.    *)
Core ==
    /\ "busy" \in DOMAIN view
    /\ Sound(page, net, view.busy)
    /\ at = None => \A r \in net : r.mine = TRUE => Raised(page, r) = {}

(* A confirmation covers the buttons that would start another action.      *)
Guards(v) ==
    /\ "confirm" \in DOMAIN v
    /\ v.confirm \in DatabaseActions \cup {"rotate", None}
    /\ v.confirm \in DatabaseActions => v.busy \cap DatabaseActions \subseteq {v.confirm}

(* What a confirmation of the map is asked for.                            *)
Asks(v) ==
    /\ "pending" \in DOMAIN v
    /\ v.pending # None => v.pending.of \in Items /\ v.pending.op \in ContainerActions

Covered ==
    at # None =>
        /\ page = "branches" =>
              /\ "dialog" \in DOMAIN view
              /\ view.dialog \in Branches \ {"create"} =>
                    view.busy \cap BranchActions \subseteq {"delete"}
        /\ page \in DatabasePages => Guards(view)
        /\ page \in ContainersPages => Asks(view)

(* Which document of the notifications comes after the one sent.           *)
Numbered ==
    page = "notifications" =>
        \A r \in net : \/ r.op \in {"load"} \cup Tests
                        \/ (r.op = "channels" /\ r.arg.next = 2)
                        \/ (r.op = "events" /\ r.arg.next = 3)
                        \/ (r.op = "master" /\ r.arg.next = 4)

PagesInv == Core /\ Covered /\ Numbered

-----------------------------------------------------------------------------
(* Requests.                                                               *)

Is(q, op, arg) == IsRequest(q) /\ q.op = op /\ q.arg = arg /\ q.mine = TRUE
One(asked, op, arg) == \E q : asked = {q} /\ Is(q, op, arg)

(* An answer changes nothing else of a request.                            *)
LEMMA Answering ==
    ASSUME NEW r, IsRequest(r), NEW a, NEW q, q = [r EXCEPT !.sent = FALSE, !.ans = a]
    PROVE  IsRequest(q) /\ q.op = r.op /\ q.arg = r.arg /\ q.mine = r.mine /\ q.at = r.at
BY DEF IsRequest, RequestFields

(* Nor does the unmounting of the component that sent it.                  *)
LEMMA Owning ==
    ASSUME NEW r, IsRequest(r), NEW b \in BOOLEAN, NEW q, q = [r EXCEPT !.mine = b]
    PROVE  IsRequest(q) /\ q.op = r.op /\ q.arg = r.arg /\ q.mine = b /\ q.at = r.at
BY DEF IsRequest, RequestFields

(* Nor does sending it for another database.                               *)
LEMMA Directing ==
    ASSUME NEW r, IsRequest(r), NEW d, NEW q, q = [r EXCEPT !.at = d]
    PROVE  IsRequest(q) /\ q.op = r.op /\ q.arg = r.arg /\ q.mine = r.mine /\ q.at = d
BY DEF IsRequest, RequestFields

(* The record Request makes is a request, whichever twin it is.            *)
LEMMA Tagging ==
    ASSUME NEW op, NEW arg, NEW a, NEW b
    PROVE  LET r == [op |-> op, at |-> a, arg |-> arg, sent |-> TRUE, ans |-> None,
                     mine |-> TRUE, twin |-> FALSE]
               q == [r EXCEPT !.twin = b] IN
           Is(q, op, arg) /\ q.at = a
BY DEF Is, IsRequest, RequestFields

(* So is what Request returns.                                             *)
LEMMA Requested ==
    ASSUME NEW op, NEW arg
    PROVE  Is(Request(op, arg), op, arg) /\ Request(op, arg).at = at
  <1> DEFINE r == [op |-> op, at |-> at, arg |-> arg, sent |-> TRUE, ans |-> None,
                   mine |-> TRUE, twin |-> FALSE]
             b == r \in net
  <1>1. Request(op, arg) = [r EXCEPT !.twin = b] BY DEF Request
  <1> HIDE DEF b
  <1> QED BY <1>1, Tagging

(* A handler asks for one thing, here or at another database.              *)
LEMMA Asking ==
    ASSUME NEW op, NEW arg
    PROVE  /\ One({Request(op, arg)}, op, arg)
           /\ \A d : One(Sent(d, {Request(op, arg)}), op, arg)
  <1> DEFINE q == Request(op, arg)
  <1>1. Is(q, op, arg) BY Requested
  <1> HIDE DEF q
  <1>2. ASSUME NEW d PROVE One(Sent(d, {q}), op, arg)
    <2> DEFINE s == [q EXCEPT !.at = d]
    <2>1. Is(s, op, arg) BY <1>1, Directing DEF Is
    <2>2. Sent(d, {q}) = {s} BY DEF Sent
    <2> HIDE DEF s
    <2> QED BY <2>1, <2>2 DEF One
  <1>3. One({q}, op, arg) BY <1>1 DEF One
  <1>4. \A d : One(Sent(d, {q}), op, arg) BY <1>2
  <1> QED BY <1>3, <1>4 DEF q

(* Which flags a request is about is told by what it asks.                 *)
LEMMA Alike ==
    ASSUME NEW p, NEW r, NEW q, r.op = q.op, r.arg = q.arg
    PROVE  Raised(p, r) = Raised(p, q) /\ Clears(p, r) = Clears(p, q)
  <1>1. Raised(p, r) = Raised(p, q) BY DEF Raised
  <1>2. Spins(p, r) = Spins(p, q) BY DEF Spins
  <1> QED BY <1>1, <1>2 DEF Clears

(* The hooks of a page share no flag.                                      *)
LEMMA Hooks ==
    ASSUME NEW p, NEW f, NEW g, NEW x \in Group(p, f), x \in Group(p, g)
    PROVE  Group(p, f) = Group(p, g)
BY DEF Group, DatabasePages

(* A flag is in its own hook.                                              *)
LEMMA OwnHook ==
    ASSUME NEW p, NEW f PROVE f \in Group(p, f)
BY DEF Group

(* A hook with a flag something waits for has only such flags.             *)
LEMMA HooksOfFlags ==
    ASSUME NEW p, NEW f \in Flags(p) PROVE Group(p, f) \subseteq Flags(p)
BY DEF Group, Flags, ContainersPages, DatabasePages, BranchActions, DatabaseActions

-----------------------------------------------------------------------------
(* What becomes of requests and flags.                                     *)

LEMMA AnswerSound ==
    ASSUME NEW p, NEW n, NEW b, Sound(p, n, b), NEW r \in n, NEW a
    PROVE  Sound(p, (n \ {r}) \cup {[r EXCEPT !.sent = FALSE, !.ans = a]}, b)
  <1> DEFINE q == [r EXCEPT !.sent = FALSE, !.ans = a]
             m == (n \ {r}) \cup {q}
  <1>a. IsRequest(r) BY DEF Sound
  <1>1. IsRequest(q) /\ q.op = r.op /\ q.arg = r.arg /\ q.mine = r.mine
    BY <1>a, Answering
  <1>2. Raised(p, q) = Raised(p, r) /\ Clears(p, q) = Clears(p, r) BY <1>1, Alike
  <1> HIDE DEF q
  <1>3. \A x \in m : IsRequest(x) /\ Raised(p, x) \subseteq Flags(p)
    BY <1>1, <1>2 DEF Sound
  <1>4. \A f \in b : \E x \in m : x.mine = TRUE /\ f \in Clears(p, x)
    BY <1>1, <1>2 DEF Sound
  <1>5. \A x \in m : x.mine = TRUE => \A f \in Raised(p, x) : b \cap Group(p, f) = {f}
    BY <1>1, <1>2 DEF Sound
  <1>6. \A x \in m, y \in m :
          x.mine = TRUE /\ y.mine = TRUE /\ x # y => Raised(p, x) \cap Raised(p, y) = {}
    BY <1>1, <1>2 DEF Sound
  <1> QED BY <1>3, <1>4, <1>5, <1>6 DEF Sound, q

(* The user presses a button, or a timer or an effect fires: the requests  *)
(* in asked are sent, and the flags become c.                              *)
LEMMA PressSound ==
    ASSUME NEW p, NEW n, NEW b, Sound(p, n, b), NEW asked, NEW c,
           \A q \in asked : IsRequest(q) /\ q.mine = TRUE /\ Raised(p, q) \subseteq Flags(p),
           \A f \in c : f \in b \/ \E q \in asked : f \in Clears(p, q),
           \A r \in n : r.mine = TRUE => \A f \in Raised(p, r) : c \cap Group(p, f) = {f},
           \A q \in asked : \A f \in Raised(p, q) :
                b \cap Group(p, f) = {} /\ c \cap Group(p, f) = {f},
           \A r \in asked, q \in asked : r # q => Raised(p, r) \cap Raised(p, q) = {}
    PROVE  Sound(p, n \cup asked, c)
  <1> DEFINE m == n \cup asked
  <1>1. \A x \in m : IsRequest(x) /\ Raised(p, x) \subseteq Flags(p) BY DEF Sound
  <1>2. \A f \in c : \E x \in m : x.mine = TRUE /\ f \in Clears(p, x) BY DEF Sound
  <1>3. \A x \in m : x.mine = TRUE => \A f \in Raised(p, x) : c \cap Group(p, f) = {f}
    OBVIOUS
  <1>4. ASSUME NEW x \in n, x.mine = TRUE, NEW y \in asked
        PROVE  Raised(p, x) \cap Raised(p, y) = {}
    BY <1>4 DEF Sound
  <1>5. ASSUME NEW x \in m, NEW y \in m, x.mine = TRUE, y.mine = TRUE, x # y
        PROVE  Raised(p, x) \cap Raised(p, y) = {}
    BY <1>4, <1>5 DEF Sound
  <1> QED BY <1>1, <1>2, <1>3, <1>5 DEF Sound

(* A handler that r belongs to goes on: the requests in asked follow r, if *)
(* its page is still there the flags become c.                             *)
Followers(r, asked) == {[q EXCEPT !.mine = r.mine \/ q.op \in Queries] : q \in asked}

Follows(x, q, r) ==
    /\ IsRequest(x) /\ x.op = q.op /\ x.arg = q.arg /\ x.at = q.at
    /\ x.mine = TRUE <=> r.mine = TRUE \/ q.op \in Queries

(* What a handler sends next, and what becomes of it: one for one.         *)
LEMMA Following ==
    ASSUME NEW r, IsRequest(r), NEW asked, \A q \in asked : IsRequest(q)
    PROVE  /\ \A x \in Followers(r, asked) : \E q \in asked : Follows(x, q, r)
           /\ \A q \in asked : \E x \in Followers(r, asked) : Follows(x, q, r)
  <1> DEFINE b(q) == r.mine \/ q.op \in Queries
             x(q) == [q EXCEPT !.mine = b(q)]
  <1>1. \A q : b(q) \in BOOLEAN /\ (b(q) = TRUE <=> r.mine = TRUE \/ q.op \in Queries)
    BY DEF IsRequest
  <1>2. Followers(r, asked) = {x(q) : q \in asked} BY DEF Followers
  <1> HIDE DEF b
  <1>3. \A q \in asked : /\ IsRequest(x(q)) /\ x(q).op = q.op /\ x(q).arg = q.arg
                         /\ x(q).at = q.at /\ x(q).mine = b(q)
    BY <1>1, Owning
  <1> HIDE DEF x
  <1>4. \A q \in asked : Follows(x(q), q, r) BY <1>1, <1>3 DEF Follows
  <1> QED BY <1>2, <1>4

(* A handler is over and what it asks next takes its place: it may hold up *)
(* the flag that was its own.                                              *)
LEMMA FollowSound ==
    ASSUME NEW p, NEW n, NEW b, Sound(p, n, b), NEW r \in n, NEW asked, NEW c,
           \A q \in asked : IsRequest(q) /\ Raised(p, q) \subseteq Flags(p) /\ q.op \notin Queries,
           r.mine = TRUE =>
              /\ \A f \in c : (f \in b /\ f \notin Clears(p, r)) \/ \E q \in asked : f \in Clears(p, q)
              /\ \A x \in n \ {r} : x.mine = TRUE =>
                    \A f \in Raised(p, x) : c \cap Group(p, f) = {f}
              /\ \A q \in asked : \A f \in Raised(p, q) :
                    f \in Raised(p, r) /\ c \cap Group(p, f) = {f},
           \A x \in asked, q \in asked : x # q => Raised(p, x) \cap Raised(p, q) = {}
    PROVE  Sound(p, (n \ {r}) \cup Followers(r, asked), IF r.mine THEN c ELSE b)
  <1> DEFINE m == (n \ {r}) \cup Followers(r, asked)
             e == IF r.mine THEN c ELSE b
  <1>a. IsRequest(r) BY DEF Sound
  <1>b. \A q \in asked : IsRequest(q) OBVIOUS
  <1>1. \A x \in Followers(r, asked) : \E q \in asked : Follows(x, q, r)
    BY <1>a, <1>b, Following
  <1>2. \A q \in asked : \E x \in Followers(r, asked) : Follows(x, q, r)
    BY <1>a, <1>b, Following
  <1>3. \A x \in Followers(r, asked) : \E q \in asked :
           /\ IsRequest(x)
           /\ x.mine = TRUE <=> r.mine = TRUE
           /\ Raised(p, x) = Raised(p, q)
    BY <1>1, Alike DEF Follows
  <1>4. \A q \in asked : \E x \in Followers(r, asked) :
           /\ x.mine = TRUE <=> r.mine = TRUE
           /\ Clears(p, x) = Clears(p, q)
    BY <1>2, Alike DEF Follows
  <1>5. \A x \in m : IsRequest(x) /\ Raised(p, x) \subseteq Flags(p)
    BY <1>3 DEF Sound
  <1>6. CASE r.mine = TRUE
    <2>1. e = c BY <1>6
    <2>2. \A f \in c : \E x \in m : x.mine = TRUE /\ f \in Clears(p, x)
      BY <1>6, <1>4 DEF Sound
    <2>3. \A x \in m : x.mine = TRUE => \A f \in Raised(p, x) : c \cap Group(p, f) = {f}
      BY <1>6, <1>3
    <2>4. ASSUME NEW x \in n \ {r}, x.mine = TRUE, NEW y \in Followers(r, asked)
          PROVE  Raised(p, x) \cap Raised(p, y) = {}
      <3>1. Raised(p, y) \subseteq Raised(p, r) BY <1>3, <1>6
      <3>2. Raised(p, x) \cap Raised(p, r) = {} BY <1>6, <2>4 DEF Sound
      <3> QED BY <3>1, <3>2
    <2>5. ASSUME NEW x \in Followers(r, asked), NEW y \in Followers(r, asked), x # y
          PROVE  Raised(p, x) \cap Raised(p, y) = {}
      <3> DEFINE g(q) == [q EXCEPT !.mine = r.mine \/ q.op \in Queries]
      <3>1. PICK q \in asked : x = g(q) BY DEF Followers
      <3>2. PICK s \in asked : y = g(s) BY DEF Followers
      <3>3. q # s BY <3>1, <3>2, <2>5
      <3>4. Raised(p, q) \cap Raised(p, s) = {} BY <3>3
      <3>6. x.op = q.op /\ x.arg = q.arg
        <4> DEFINE t == r.mine \/ q.op \in Queries
        <4>1. t \in BOOLEAN /\ x = [q EXCEPT !.mine = t] BY <3>1
        <4> HIDE DEF t
        <4> QED BY <4>1, Owning
      <3>7. y.op = s.op /\ y.arg = s.arg
        <4> DEFINE t == r.mine \/ s.op \in Queries
        <4>1. t \in BOOLEAN /\ y = [s EXCEPT !.mine = t] BY <3>2
        <4> HIDE DEF t
        <4> QED BY <4>1, Owning
      <3> HIDE DEF g
      <3>8. Raised(p, x) = Raised(p, q) BY <3>6, Alike
      <3>9. Raised(p, y) = Raised(p, s) BY <3>7, Alike
      <3> QED BY <3>4, <3>8, <3>9
    <2>6. ASSUME NEW x \in m, NEW y \in m, x.mine = TRUE, y.mine = TRUE, x # y
          PROVE  Raised(p, x) \cap Raised(p, y) = {}
      <3>1. CASE x \in n \ {r} /\ y \in n \ {r} BY <3>1, <2>6 DEF Sound
      <3>2. CASE x \in n \ {r} /\ y \in Followers(r, asked) BY <3>2, <2>4, <2>6
      <3>3. CASE y \in n \ {r} /\ x \in Followers(r, asked) BY <3>3, <2>4, <2>6
      <3>4. CASE x \in Followers(r, asked) /\ y \in Followers(r, asked) BY <3>4, <2>5, <2>6
      <3> QED BY <3>1, <3>2, <3>3, <3>4
    <2> HIDE DEF m
    <2>7. Sound(p, m, c) BY <1>5, <2>2, <2>3, <2>6 DEF Sound
    <2> QED BY <2>1, <2>7 DEF m
  <1>7. CASE r.mine # TRUE
    <2>1. e = b BY <1>7, <1>a DEF IsRequest
    <2>2. \A x \in m : x.mine = TRUE => x \in n BY <1>7, <1>3
    <2>3. \A x \in n : x.mine = TRUE => x \in m BY <1>7
    <2>4. \A f \in b : \E x \in m : x.mine = TRUE /\ f \in Clears(p, x)
      BY <2>3 DEF Sound
    <2> HIDE DEF m
    <2>5. \A x \in m : x.mine = TRUE => \A f \in Raised(p, x) : b \cap Group(p, f) = {f}
      BY <2>2 DEF Sound
    <2>6. \A x \in m, y \in m :
             x.mine = TRUE /\ y.mine = TRUE /\ x # y => Raised(p, x) \cap Raised(p, y) = {}
      BY <2>2 DEF Sound
    <2>7. Sound(p, m, b) BY <1>5, <2>4, <2>5, <2>6 DEF Sound
    <2> QED BY <2>1, <2>7 DEF m
  <1> QED BY <1>6, <1>7

(* A flag that goes down is the handler's own, or nobody waits for it.     *)
KeepsToItself(p, b, r, c) ==
    \A g : \/ g \in b <=> g \in c
           \/ g \notin Flags(p)
           \/ g \notin c /\ \E f \in Raised(p, r) : g \in Group(p, f)

Alone(p, c, x) == \A f \in Raised(p, x) : c \cap Group(p, f) = {f}

(* A handler that touches only its own hook leaves those of the others     *)
(* alone.                                                                  *)
LEMMA Others ==
    ASSUME NEW p, NEW n, NEW b, Sound(p, n, b), NEW r \in n, r.mine = TRUE, NEW c,
           KeepsToItself(p, b, r, c)
    PROVE  \A x \in n \ {r} : x.mine = TRUE => Alone(p, c, x)
  <1> SUFFICES ASSUME NEW x \in n \ {r}, x.mine = TRUE, NEW f \in Raised(p, x)
               PROVE  c \cap Group(p, f) = {f}
    BY DEF Alone
  <1>1. b \cap Group(p, f) = {f} /\ f \in Flags(p) BY DEF Sound
  <1>2. Group(p, f) \subseteq Flags(p) BY <1>1, HooksOfFlags
  <1>3. f \notin Raised(p, r) BY DEF Sound
  <1>4. ASSUME NEW g \in Group(p, f), NEW h \in Raised(p, r), g \in Group(p, h) PROVE FALSE
    <2>1. Group(p, f) = Group(p, h) BY <1>4, Hooks
    <2>2. b \cap Group(p, h) = {h} BY DEF Sound
    <2>3. f = h BY <1>1, <2>1, <2>2
    <2> QED BY <2>3, <1>3
  <1>5. \A g \in Group(p, f) : g \in b <=> g \in c BY <1>2, <1>4 DEF KeepsToItself
  <1> QED BY <1>1, <1>5

(* A handler goes on and is over, or waits for what it asks next.          *)
LEMMA HandlerSound ==
    ASSUME NEW p, NEW n, NEW b, Sound(p, n, b), NEW r \in n, NEW asked, NEW c,
           \A q \in asked : IsRequest(q) /\ q.op \notin Queries,
           \A q \in asked : Raised(p, q) = {} \/ Raised(p, q) = Raised(p, r),
           r.mine = TRUE =>
              /\ \A f \in c : (f \in b /\ f \notin Clears(p, r)) \/ \E q \in asked : f \in Clears(p, q)
              /\ KeepsToItself(p, b, r, c)
              /\ \A q \in asked : Raised(p, q) # {} =>
                    \A f \in Raised(p, r) : \A g \in Group(p, f) : g \in b <=> g \in c,
           \A x \in asked, q \in asked : x # q => Raised(p, x) \cap Raised(p, q) = {}
    PROVE  Sound(p, (n \ {r}) \cup Followers(r, asked), IF r.mine THEN c ELSE b)
  <1>1. \A q \in asked : Raised(p, q) \subseteq Flags(p) BY DEF Sound
  <1>2. ASSUME r.mine = TRUE, NEW x \in n \ {r}, x.mine = TRUE, NEW f \in Raised(p, x)
        PROVE  c \cap Group(p, f) = {f}
    <2>1. KeepsToItself(p, b, r, c) BY <1>2
    <2>2. \A s \in n \ {r} : s.mine = TRUE => Alone(p, c, s) BY <1>2, <2>1, Others
    <2> QED BY <1>2, <2>2 DEF Alone
  <1>3. ASSUME r.mine = TRUE, NEW q \in asked, NEW f \in Raised(p, q)
        PROVE  f \in Raised(p, r) /\ c \cap Group(p, f) = {f}
    <2>1. f \in Raised(p, r) BY <1>3
    <2>2. b \cap Group(p, f) = {f} BY <2>1, <1>3 DEF Sound
    <2>3. \A g \in Group(p, f) : g \in b <=> g \in c BY <1>3, <2>1
    <2> QED BY <2>1, <2>2, <2>3
  <1> QED BY <1>1, <1>2, <1>3, FollowSound

(* A mutation is answered: a query in flight is given up for a new one.    *)
LEMMA InvalidateSound ==
    ASSUME NEW p, NEW n, NEW b, Sound(p, n, b), NEW r \in n, NEW c,
           NEW op \in Queries, NEW D \in SUBSET n, \A x \in D : x.op = op,
           NEW q, Is(q, op, None),
           r.mine = TRUE =>
              /\ \A f \in c : f \in b /\ (f \notin Clears(p, r) \/ f \in Clears(p, q))
              /\ KeepsToItself(p, b, r, c)
    PROVE  Sound(p, (n \ ({r} \cup D)) \cup Followers(r, {q}), IF r.mine THEN c ELSE b)
  <1> DEFINE m == (n \ ({r} \cup D)) \cup Followers(r, {q})
             e == IF r.mine THEN c ELSE b
  <1>a. IsRequest(r) /\ IsRequest(q) BY DEF Sound, Is
  <1>1. PICK y : /\ Followers(r, {q}) = {y} /\ IsRequest(y) /\ y.op = op /\ y.arg = None
                 /\ y.mine = TRUE
    <2> DEFINE t == r.mine \/ q.op \in Queries
               y == [q EXCEPT !.mine = t]
    <2>1. t \in BOOLEAN /\ t = TRUE BY DEF Is
    <2>2. Followers(r, {q}) = {y} BY DEF Followers
    <2> HIDE DEF t
    <2>3. IsRequest(y) /\ y.op = q.op /\ y.arg = q.arg /\ y.mine = t BY <1>a, <2>1, Owning
    <2> HIDE DEF y
    <2> QED BY <2>1, <2>2, <2>3 DEF Is
  <1>2. Raised(p, y) = {} BY <1>1 DEF Raised
  <1>3. Clears(p, y) = Clears(p, q) BY <1>1, Alike DEF Is
  <1>4. \A x \in D : Clears(p, x) = Clears(p, y)
    <2>1. ASSUME NEW x \in D PROVE Clears(p, x) = Clears(p, y)
      <3>1. Raised(p, x) = {} BY DEF Raised
      <3>2. Spins(p, x) = Spins(p, y) BY <1>1 DEF Spins, Queries
      <3> QED BY <3>1, <3>2, <1>2 DEF Clears
    <2> QED BY <2>1
  <1>5. \A x \in m : IsRequest(x) /\ Raised(p, x) \subseteq Flags(p)
    BY <1>1, <1>2 DEF Sound
  <1>6. \A f \in e : \E x \in m : x.mine = TRUE /\ f \in Clears(p, x)
    <2>1. ASSUME NEW f \in e PROVE \E x \in m : x.mine = TRUE /\ f \in Clears(p, x)
      <3>1. f \in b BY <2>1, <1>a DEF IsRequest
      <3>2. PICK x \in n : x.mine = TRUE /\ f \in Clears(p, x) BY <3>1 DEF Sound
      <3>3. CASE x \in D BY <3>3, <3>2, <1>4, <1>1
      <3>4. CASE x = r BY <3>4, <3>2, <2>1, <1>1, <1>3
      <3>5. CASE x \notin D /\ x # r BY <3>5, <3>2
      <3> QED BY <3>3, <3>4, <3>5
    <2> QED BY <2>1
  <1>7. ASSUME NEW x \in m, x.mine = TRUE, NEW f \in Raised(p, x)
        PROVE  e \cap Group(p, f) = {f}
    <2>1. x \in n \ {r} BY <1>7, <1>1, <1>2
    <2>2. CASE r.mine = TRUE
      <3>1. KeepsToItself(p, b, r, c) BY <2>2
      <3>2. \A s \in n \ {r} : s.mine = TRUE => Alone(p, c, s) BY <2>2, <3>1, Others
      <3>3. e = c BY <2>2
      <3> QED BY <1>7, <2>1, <3>2, <3>3 DEF Alone
    <2>3. CASE r.mine # TRUE
      <3>1. e = b BY <2>3, <1>a DEF IsRequest
      <3> QED BY <3>1, <2>1, <1>7 DEF Sound
    <2> QED BY <2>2, <2>3
  <1>8. ASSUME NEW x \in m, NEW z \in m, x.mine = TRUE, z.mine = TRUE, x # z
        PROVE  Raised(p, x) \cap Raised(p, z) = {}
    <2>1. CASE x = y \/ z = y BY <2>1, <1>2
    <2>2. CASE x # y /\ z # y
      <3>1. x \in n /\ z \in n BY <2>2, <1>1, <1>8
      <3> QED BY <3>1, <1>8 DEF Sound
    <2> QED BY <2>1, <2>2
  <1> HIDE DEF m, e
  <1>9. Sound(p, m, e) BY <1>5, <1>6, <1>7, <1>8 DEF Sound
  <1> QED BY <1>9 DEF m, e

(* The page is left.                                                       *)
LEMMA LeftSound ==
    ASSUME NEW p, NEW n, NEW b, Sound(p, n, b), NEW S
    PROVE  /\ Sound(p, Left(n \ S), {})
           /\ \A r \in Left(n \ S) : r.mine = TRUE => Raised(p, r) = {}
  <1> DEFINE m == Left(n \ S)
  <1>1. ASSUME NEW x \in m
        PROVE  /\ IsRequest(x) /\ Raised(p, x) \subseteq Flags(p)
               /\ x.mine = TRUE => Raised(p, x) = {}
    <2>1. PICK r \in n : x = [r EXCEPT !.mine = r.op \in Queries] BY DEF Left
    <2> DEFINE t == r.op \in Queries
    <2>2. t \in BOOLEAN /\ x = [r EXCEPT !.mine = t] BY <2>1
    <2>3. t = TRUE <=> r.op \in Queries OBVIOUS
    <2> HIDE DEF t
    <2>4. IsRequest(r) /\ Raised(p, r) \subseteq Flags(p) BY DEF Sound
    <2>5. IsRequest(x) /\ x.op = r.op /\ x.arg = r.arg /\ x.mine = t BY <2>2, <2>4, Owning
    <2>6. Raised(p, x) = Raised(p, r) BY <2>5, Alike
    <2>7. r.op \in Queries => Raised(p, r) = {} BY DEF Raised
    <2> QED BY <2>3, <2>4, <2>5, <2>6, <2>7
  <1> HIDE DEF m
  <1>2. Sound(p, m, {}) BY <1>1 DEF Sound
  <1>3. \A r \in m : r.mine = TRUE => Raised(p, r) = {} BY <1>1
  <1> QED BY <1>2, <1>3 DEF m

(* Requests that only read disturb no flag that something waits for.       *)
LEMMA ReadSound ==
    ASSUME NEW p, NEW n, NEW b, Sound(p, n, b), NEW asked, NEW c,
           \A q \in asked : IsRequest(q) /\ q.mine = TRUE /\ Raised(p, q) = {},
           \A f \in c : f \in b \/ \E q \in asked : f \in Clears(p, q),
           \A f \in Flags(p) : f \in b <=> f \in c
    PROVE  Sound(p, n \cup asked, c)
  <1>1. ASSUME NEW r \in n, r.mine = TRUE, NEW f \in Raised(p, r)
        PROVE  c \cap Group(p, f) = {f}
    <2>1. f \in Flags(p) /\ b \cap Group(p, f) = {f} BY <1>1 DEF Sound
    <2>2. Group(p, f) \subseteq Flags(p) BY <2>1, HooksOfFlags
    <2>3. \A g \in Group(p, f) : g \in b <=> g \in c BY <2>2
    <2> QED BY <2>1, <2>3
  <1> QED BY <1>1, PressSound

-----------------------------------------------------------------------------
(* The same for the building blocks of DashboardPage.                      *)

(* A request has its answer.                                               *)
LEMMA AnswerKeeps ==
    ASSUME Core, NEW r \in net, NEW a,
           net' = (net \ {r}) \cup {[r EXCEPT !.sent = FALSE, !.ans = a]},
           UNCHANGED <<page, at, view>>
    PROVE  Core'
  <1> DEFINE q == [r EXCEPT !.sent = FALSE, !.ans = a]
  <1>1. Sound(page, net', view.busy) BY AnswerSound DEF Core
  <1>a. IsRequest(r) BY DEF Core, Sound
  <1>2. q.op = r.op /\ q.arg = r.arg /\ q.mine = r.mine BY <1>a, Answering
  <1>3. Raised(page, q) = Raised(page, r) BY <1>2, Alike
  <1>4. net' = (net \ {r}) \cup {q} OBVIOUS
  <1> HIDE DEF q
  <1>5. at = None => \A x \in net' : x.mine = TRUE => Raised(page, x) = {}
    BY <1>2, <1>3, <1>4 DEF Core
  <1> QED BY <1>1, <1>5 DEF Core

(* The requests that are out after a step are those that were, and those   *)
(* asked for: only their answers, and who waits for them, change.          *)
Same(x, q) == x.op = q.op /\ x.arg = q.arg /\ x.at = q.at
Inherits(asked) == \A x \in net' : \E q \in net \cup asked : Same(x, q)

(* An answer makes no new request.                                         *)
LEMMA AnswerInherits ==
    ASSUME Core, NEW r \in net, NEW a,
           net' = (net \ {r}) \cup {[r EXCEPT !.sent = FALSE, !.ans = a]}
    PROVE  Inherits({})
  <1> DEFINE q == [r EXCEPT !.sent = FALSE, !.ans = a]
  <1>1. IsRequest(r) BY DEF Core, Sound
  <1>2. Same(q, r) BY <1>1, Answering DEF Same
  <1>3. net' = (net \ {r}) \cup {q} OBVIOUS
  <1>4. \A x : Same(x, x) BY DEF Same
  <1> HIDE DEF q
  <1> QED BY <1>2, <1>3, <1>4 DEF Inherits

(* Nor does the server.                                                    *)
LEMMA ServerInherits ==
    ASSUME Core, NEW r \in net, NEW s, NEW a, ServerAnswers(r, s, a) \/ ServerFails(r, s)
    PROVE  Inherits({})
  <1>1. PICK b : net' = (net \ {r}) \cup {[r EXCEPT !.sent = FALSE, !.ans = b]}
    BY DEF ServerAnswers, ServerFails
  <1> QED BY <1>1, AnswerInherits

(* A click makes those it sends.                                           *)
LEMMA ActInherits ==
    ASSUME NEW v, NEW asked, Act(v, asked) PROVE Inherits(asked)
BY DEF Act, Inherits, Same

(* So does opening a page, or moving to another database.                  *)
LEMMA OpenInherits ==
    ASSUME NEW d, NEW v, NEW asked, OpenAt(d, v, asked) \/ SwitchTo(d, v, asked)
    PROVE  Inherits(Sent(d, asked))
BY DEF OpenAt, SwitchTo, Inherits, Same

(* A handler that goes on makes those it asks.                             *)
LEMMA SettleInherits ==
    ASSUME Core, NEW r \in net, NEW v, NEW k, NEW D, NEW asked, Settle(r, v, k, D, asked),
           \A q \in asked : IsRequest(q)
    PROVE  Inherits(asked)
  <1>1. net' = (net \ ({r} \cup D)) \cup Followers(r, asked) BY DEF Settle, Followers
  <1>2. IsRequest(r) BY DEF Core, Sound
  <1>3. \A x \in Followers(r, asked) : \E q \in asked : Follows(x, q, r)
    BY <1>2, Following
  <1>5. \A x \in Followers(r, asked) : \E q \in asked : Same(x, q)
    BY <1>3 DEF Follows, Same
  <1>4. \A x : Same(x, x) BY DEF Same
  <1> QED BY <1>1, <1>5, <1>4 DEF Inherits

(* Leaving a page makes none.                                              *)
LEMMA LeftInherits ==
    ASSUME Core, NEW S, net' = Left(net \ S) PROVE Inherits({})
  <1>1. ASSUME NEW x \in net' PROVE \E q \in net : Same(x, q)
    <2>1. PICK q \in net : x = [q EXCEPT !.mine = q.op \in Queries] BY DEF Left
    <2> DEFINE t == q.op \in Queries
    <2>2. t \in BOOLEAN /\ x = [q EXCEPT !.mine = t] BY <2>1
    <2> HIDE DEF t
    <2>3. IsRequest(q) BY DEF Core, Sound
    <2>4. Same(x, q) BY <2>2, <2>3, Owning DEF Same
    <2> QED BY <2>4
  <1> QED BY <1>1 DEF Inherits

(* The server answers a request, or fails it: the page sees nothing of it  *)
(* yet.                                                                    *)
LEMMA ServerKeeps ==
    ASSUME Core, NEW r \in net, NEW s, NEW a, ServerAnswers(r, s, a)
    PROVE  Core' /\ UNCHANGED <<page, at, view>>
  <1>1. Core' BY AnswerKeeps DEF ServerAnswers
  <1> QED BY <1>1 DEF ServerAnswers

(* The server fails.                                                       *)
LEMMA FailKeeps ==
    ASSUME Core, NEW r \in net, NEW s, ServerFails(r, s)
    PROVE  Core' /\ UNCHANGED <<page, at, view>>
  <1>1. PICK t : ServerAnswers(r, t, Failed) BY DEF ServerFails
  <1> QED BY <1>1, ServerKeeps

(* Something else than the page moves.                                     *)
LEMMA IdleKeeps ==
    ASSUME PagesInv, UNCHANGED <<page, at, view, net>> PROVE PagesInv'
BY DEF PagesInv, Core, Covered, Numbered

(* The user does something, a timer fires: nothing is changed by it.       *)
LEMMA Reading ==
    ASSUME Core, NEW v, NEW asked, Act(v, asked), "busy" \in DOMAIN v,
           \A q \in asked : IsRequest(q) /\ q.mine = TRUE /\ Raised(page, q) = {},
           \A f \in v.busy : f \in view.busy \/ \E q \in asked : f \in Clears(page, q),
           \A f \in Flags(page) : f \in view.busy <=> f \in v.busy
    PROVE  Core' /\ page' = page /\ at' = at /\ view' = v
  <1>1. Sound(page, net, view.busy) BY DEF Core
  <1>2. Sound(page, net \cup asked, v.busy) BY <1>1, ReadSound
  <1> QED BY <1>2 DEF Core, Act

(* v is the page with the flags of G down and those of S up.               *)
Shows(v, G, S) == "busy" \in DOMAIN v /\ v.busy = (view.busy \ G) \cup S

(* The user changes a form.                                                *)
LEMMA Editing ==
    ASSUME Core, NEW v, Act(v, {}), Shows(v, {}, {})
    PROVE  Core' /\ page' = page /\ at' = at /\ view' = v
  <1>1. "busy" \in DOMAIN v /\ v.busy = view.busy BY DEF Shows
  <1> QED BY <1>1 DEF Core, Act

(* A request that only reads, and the spinners S that wait for it.         *)
Reader(op, arg, S) ==
    /\ S \cap Flags(page) = {}
    /\ \A q : Is(q, op, arg) => Raised(page, q) = {} /\ S \subseteq Clears(page, q)

(* A click that only reads.                                                *)
LEMMA Querying ==
    ASSUME Core, NEW v, NEW asked, NEW op, NEW arg, NEW S,
           Act(v, asked), One(asked, op, arg), Shows(v, {}, S), Reader(op, arg, S)
    PROVE  Core' /\ page' = page /\ at' = at /\ view' = v
  <1>1. PICK q : asked = {q} /\ Is(q, op, arg) BY DEF One
  <1>2. IsRequest(q) /\ q.mine = TRUE /\ Raised(page, q) = {} /\ S \subseteq Clears(page, q)
    BY <1>1 DEF Is, Reader
  <1>3. \A x \in asked : IsRequest(x) /\ x.mine = TRUE /\ Raised(page, x) = {} BY <1>1, <1>2
  <1>4. \A f \in v.busy : f \in view.busy \/ \E x \in asked : f \in Clears(page, x)
    BY <1>1, <1>2 DEF Shows
  <1>5. \A f \in Flags(page) : f \in view.busy <=> f \in v.busy BY DEF Shows, Reader
  <1>6. "busy" \in DOMAIN v BY DEF Shows
  <1> QED BY <1>3, <1>4, <1>5, <1>6, Reading

(* A button that is not disabled starts a handler with the flag f, and the *)
(* spinners that T has besides.                                            *)
Starts(op, arg, f, T) ==
    /\ f \in Flags(page) \cap T /\ view.busy \cap Group(page, f) = {}
    /\ T \cap Flags(page) \subseteq {f}
    /\ \A q : Is(q, op, arg) => Raised(page, q) = {f} /\ T \subseteq Clears(page, q)

(* A click that starts a change: its flag is raised, in a hook that was    *)
(* free.                                                                   *)
LEMMA Pressing ==
    ASSUME Core, NEW v, NEW asked, NEW op, NEW arg, NEW f, NEW T,
           Act(v, asked), One(asked, op, arg), Shows(v, {}, T), Starts(op, arg, f, T)
    PROVE  Core' /\ page' = page /\ at' = at /\ view' = v
  <1>0. /\ f \in Flags(page) /\ f \in T /\ view.busy \cap Group(page, f) = {}
        /\ T \cap Flags(page) \subseteq {f}
        /\ "busy" \in DOMAIN v /\ v.busy = view.busy \cup T
    BY DEF Shows, Starts
  <1>1. PICK q : asked = {q} /\ Is(q, op, arg) BY DEF One
  <1>2. IsRequest(q) /\ q.mine = TRUE /\ Raised(page, q) = {f} /\ T \subseteq Clears(page, q)
    BY <1>1 DEF Is, Starts
  <1>3. Sound(page, net, view.busy) BY DEF Core
  <1>4. \A x \in asked : IsRequest(x) /\ x.mine = TRUE /\ Raised(page, x) \subseteq Flags(page)
    BY <1>0, <1>1, <1>2
  <1>5. \A g \in v.busy : g \in view.busy \/ \E x \in asked : g \in Clears(page, x)
    BY <1>0, <1>1, <1>2
  <1>6. ASSUME NEW r \in net, r.mine = TRUE, NEW g \in Raised(page, r)
        PROVE  v.busy \cap Group(page, g) = {g}
    <2>1. g \in Flags(page) /\ view.busy \cap Group(page, g) = {g} BY <1>3, <1>6 DEF Sound
    <2>2. Group(page, g) \subseteq Flags(page) BY <2>1, HooksOfFlags
    <2>3. f \notin Group(page, g)
      <3>1. SUFFICES ASSUME f \in Group(page, g) PROVE FALSE OBVIOUS
      <3>2. f \in Group(page, f) BY OwnHook
      <3>3. Group(page, f) = Group(page, g) BY <3>1, <3>2, Hooks
      <3> QED BY <1>0, <2>1, <3>3
    <2> QED BY <1>0, <2>1, <2>2, <2>3
  <1>7. ASSUME NEW x \in asked, NEW g \in Raised(page, x)
        PROVE  view.busy \cap Group(page, g) = {} /\ v.busy \cap Group(page, g) = {g}
    <2>1. g = f BY <1>1, <1>2, <1>7
    <2>2. Group(page, f) \subseteq Flags(page) /\ f \in Group(page, f)
      BY <1>0, HooksOfFlags, OwnHook
    <2> QED BY <1>0, <2>1, <2>2
  <1>8. \A x \in asked, y \in asked : x # y => Raised(page, x) \cap Raised(page, y) = {}
    BY <1>1
  <1>9. /\ \A r \in net : r.mine = TRUE =>
              \A g \in Raised(page, r) : v.busy \cap Group(page, g) = {g}
        /\ \A x \in asked : \A g \in Raised(page, x) :
              view.busy \cap Group(page, g) = {} /\ v.busy \cap Group(page, g) = {g}
    BY <1>6, <1>7
  <1> DEFINE c == v.busy
             b == view.busy
  <1>10. /\ \A g \in c : g \in b \/ \E x \in asked : g \in Clears(page, x)
         /\ \A r \in net : r.mine = TRUE =>
              \A g \in Raised(page, r) : c \cap Group(page, g) = {g}
         /\ \A x \in asked : \A g \in Raised(page, x) :
              b \cap Group(page, g) = {} /\ c \cap Group(page, g) = {g}
         /\ Sound(page, net, b)
    BY <1>3, <1>5, <1>9
  <1> HIDE DEF c, b
  <1>11. Sound(page, net \cup asked, c)
    BY <1>4, <1>8, <1>10, PressSound
  <1> QED BY <1>0, <1>11 DEF Core, Act, c

(* The page is opened, or moves to another database.                       *)
LEMMA Opening ==
    ASSUME Core, NEW d, NEW v, NEW asked, OpenAt(d, v, asked), "busy" \in DOMAIN v,
           \A q \in Sent(d, asked) : IsRequest(q) /\ q.mine = TRUE /\ Raised(page, q) = {},
           \A f \in v.busy : \E q \in Sent(d, asked) : f \in Clears(page, q)
    PROVE  Core' /\ page' = page /\ at' = d /\ view' = v
  <1> DEFINE new == Sent(d, asked)
  <1>1. at = None /\ net' = net \cup new /\ view' = v /\ at' = d /\ page' = page
    BY DEF OpenAt
  <1>2. \A r \in net : r.mine = TRUE => Raised(page, r) = {} BY <1>1 DEF Core
  <1>3. Sound(page, net, {}) BY <1>2 DEF Core, Sound
  <1> HIDE DEF new
  <1>4. \A q \in new : IsRequest(q) /\ q.mine = TRUE /\ Raised(page, q) = {} BY DEF new
  <1>5. \A f \in v.busy : \E q \in new : f \in Clears(page, q) BY DEF new
  <1>6. Sound(page, net \cup new, v.busy)
    BY <1>2, <1>3, <1>4, <1>5, PressSound
  <1>7. \A r \in net \cup new : r.mine = TRUE => Raised(page, r) = {} BY <1>2, <1>4
  <1> QED BY <1>1, <1>6, <1>7 DEF Core

(* The same page for another database: flags stay as they are, spinners    *)
(* may be raised.                                                          *)
LEMMA Switching ==
    ASSUME Core, NEW d \in Dbs, NEW v, NEW asked, SwitchTo(d, v, asked), "busy" \in DOMAIN v,
           \A q \in Sent(d, asked) : IsRequest(q) /\ q.mine = TRUE /\ Raised(page, q) = {},
           \A f \in v.busy : f \in view.busy \/ \E q \in Sent(d, asked) : f \in Clears(page, q),
           \A f \in Flags(page) : f \in view.busy <=> f \in v.busy
    PROVE  Core' /\ page' = page /\ at' = d /\ d # None /\ at # None /\ view' = v
  <1> DEFINE new == Sent(d, asked)
  <1>1. /\ net' = net \cup new /\ view' = v /\ at' = d /\ page' = page
        /\ at # None /\ d # None
    BY PageAssumption DEF SwitchTo
  <1>2. Sound(page, net, view.busy) BY DEF Core
  <1> HIDE DEF new
  <1>3. \A q \in new : IsRequest(q) /\ q.mine = TRUE /\ Raised(page, q) = {} BY DEF new
  <1>4. \A f \in v.busy : f \in view.busy \/ \E q \in new : f \in Clears(page, q) BY DEF new
  <1>5. Sound(page, net \cup new, v.busy) BY <1>2, <1>3, <1>4, ReadSound
  <1> QED BY <1>1, <1>5 DEF Core

(* With one request.                                                       *)
LEMMA OpeningOne ==
    ASSUME Core, NEW d, NEW v, NEW asked, NEW op, NEW arg,
           OpenAt(d, v, asked), One(Sent(d, asked), op, arg), "busy" \in DOMAIN v,
           Reader(op, arg, v.busy)
    PROVE  Core' /\ page' = page /\ at' = d /\ view' = v
  <1> DEFINE new == Sent(d, asked)
  <1>1. PICK q : new = {q} /\ Is(q, op, arg) BY DEF One
  <1>2. IsRequest(q) /\ q.mine = TRUE /\ Raised(page, q) = {} /\ v.busy \subseteq Clears(page, q)
    BY <1>1 DEF Is, Reader
  <1>3. \A x \in new : IsRequest(x) /\ x.mine = TRUE /\ Raised(page, x) = {} BY <1>1, <1>2
  <1>4. \A f \in v.busy : \E x \in new : f \in Clears(page, x) BY <1>1, <1>2
  <1> QED BY <1>3, <1>4, Opening

(* It moves, with one request.                                             *)
LEMMA SwitchingOne ==
    ASSUME Core, NEW d \in Dbs, NEW v, NEW asked, NEW op, NEW arg, NEW S,
           SwitchTo(d, v, asked), One(Sent(d, asked), op, arg), Shows(v, {}, S),
           Reader(op, arg, S)
    PROVE  Core' /\ page' = page /\ at' = d /\ d # None /\ at # None /\ view' = v
  <1> DEFINE new == Sent(d, asked)
  <1>1. PICK q : new = {q} /\ Is(q, op, arg) BY DEF One
  <1>2. IsRequest(q) /\ q.mine = TRUE /\ Raised(page, q) = {} /\ S \subseteq Clears(page, q)
    BY <1>1 DEF Is, Reader
  <1>3. \A x \in new : IsRequest(x) /\ x.mine = TRUE /\ Raised(page, x) = {} BY <1>1, <1>2
  <1>4. \A f \in v.busy : f \in view.busy \/ \E x \in new : f \in Clears(page, x)
    BY <1>1, <1>2 DEF Shows
  <1>5. \A f \in Flags(page) : f \in view.busy <=> f \in v.busy BY DEF Shows, Reader
  <1>6. "busy" \in DOMAIN v BY DEF Shows
  <1> QED BY <1>3, <1>4, <1>5, <1>6, Switching

(* A handler goes on.                                                      *)
LEMMA Settling ==
    ASSUME Core, NEW r \in net, NEW v, NEW k, NEW asked, Settle(r, v, k, {}, asked),
           "busy" \in DOMAIN v,
           \A q \in asked : IsRequest(q) /\ q.op \notin Queries,
           \A q \in asked : Raised(page, q) = {} \/ Raised(page, q) = Raised(page, r),
           r.mine = TRUE =>
              /\ \A f \in v.busy : \/ f \in view.busy /\ f \notin Clears(page, r)
                                   \/ \E q \in asked : f \in Clears(page, q)
              /\ KeepsToItself(page, view.busy, r, v.busy)
              /\ \A q \in asked : Raised(page, q) # {} =>
                    \A f \in Raised(page, r) : \A g \in Group(page, f) :
                        g \in view.busy <=> g \in v.busy,
           \A x \in asked, q \in asked : x # q => Raised(page, x) \cap Raised(page, q) = {}
    PROVE  Core' /\ page' = page /\ at' = at /\ view' = IF r.mine THEN v ELSE view
  <1> DEFINE c == v.busy
             e == IF r.mine THEN c ELSE view.busy
             m == (net \ {r}) \cup Followers(r, asked)
  <1>1. /\ page' = page /\ at' = at /\ view' = (IF r.mine THEN v ELSE view)
        /\ net' = m
    BY DEF Settle, Followers
  <1>2. Sound(page, net, view.busy) BY DEF Core
  <1>3. Sound(page, m, e) BY <1>2, HandlerSound
  <1>4. view'.busy = e BY <1>1
  <1>5. "busy" \in DOMAIN view' BY <1>1 DEF Core
  <1>6. ASSUME at = None PROVE \A x \in m : x.mine = TRUE => Raised(page, x) = {}
    <2>1. IsRequest(r) /\ \A q \in asked : IsRequest(q) BY <1>2 DEF Sound
    <2>2. \A x \in Followers(r, asked) : \E q \in asked : Follows(x, q, r) BY <2>1, Following
    <2>3. \A x \in Followers(r, asked) : \E q \in asked :
             (x.mine = TRUE => r.mine = TRUE) /\ Raised(page, x) = Raised(page, q)
      BY <2>2, Alike DEF Follows
    <2>4. \A x \in net : x.mine = TRUE => Raised(page, x) = {} BY <1>6 DEF Core
    <2> QED BY <2>3, <2>4
  <1> HIDE DEF m, e
  <1> QED BY <1>1, <1>3, <1>4, <1>5, <1>6 DEF Core

(* The handler of r gives back what it holds with the flags of G.          *)
Frees(r, G) ==
    \A g \in G : g \notin Flags(page) \/ \E f \in Raised(page, r) : g \in Group(page, f)
Over(r, G) == view.busy \cap Clears(page, r) \subseteq G /\ Frees(r, G)

(* A handler that is over takes its flag down.                             *)
LEMMA Ending ==
    ASSUME Core, NEW r \in net, NEW v, NEW k, NEW G,
           Settle(r, v, k, {}, {}), Shows(v, G, {}), Over(r, G)
    PROVE  Core' /\ page' = page /\ at' = at /\ view' = IF r.mine THEN v ELSE view
  <1>1. KeepsToItself(page, view.busy, r, v.busy) BY DEF KeepsToItself, Shows, Over, Frees
  <1>2. \A f \in v.busy : f \in view.busy /\ f \notin Clears(page, r) BY DEF Shows, Over
  <1>3. "busy" \in DOMAIN v BY DEF Shows
  <1> QED BY <1>1, <1>2, <1>3, Settling

(* It goes on and asks for one thing more: what it waits for now it waited *)
(* for before, or nobody does.                                             *)
Goes(r, op, arg, G, S) ==
    /\ op \notin Queries /\ S \cap Flags(page) = {} /\ Frees(r, G)
    /\ \A q : Is(q, op, arg) =>
          /\ \/ Raised(page, q) = {}
             \/ Raised(page, q) = Raised(page, r) /\ G \cap Flags(page) = {}
          /\ S \subseteq Clears(page, q)
          /\ r.mine = TRUE => view.busy \cap Clears(page, r) \subseteq G \cup Clears(page, q)

(* A handler that goes on with one more request.                           *)
LEMMA Continuing ==
    ASSUME Core, NEW r \in net, NEW v, NEW k, NEW asked, NEW op, NEW arg, NEW G, NEW S,
           Settle(r, v, k, {}, asked), One(asked, op, arg), Shows(v, G, S),
           Goes(r, op, arg, G, S)
    PROVE  Core' /\ page' = page /\ at' = at /\ view' = IF r.mine THEN v ELSE view
  <1>1. PICK q : asked = {q} /\ Is(q, op, arg) BY DEF One
  <1>2. \A x \in asked : IsRequest(x) /\ x.op \notin Queries BY <1>1 DEF Is, Goes
  <1>3. \/ Raised(page, q) = {}
        \/ Raised(page, q) = Raised(page, r) /\ G \cap Flags(page) = {}
    BY <1>1 DEF Goes
  <1>4. \A x \in asked : Raised(page, x) = {} \/ Raised(page, x) = Raised(page, r)
    BY <1>1, <1>3
  <1>5. ASSUME r.mine = TRUE, NEW f \in v.busy
        PROVE  (f \in view.busy /\ f \notin Clears(page, r)) \/ \E x \in asked : f \in Clears(page, x)
    BY <1>1, <1>5 DEF Goes, Shows
  <1>6. KeepsToItself(page, view.busy, r, v.busy) BY DEF KeepsToItself, Goes, Shows, Frees
  <1>7. ASSUME NEW x \in asked, Raised(page, x) # {}, NEW f \in Raised(page, r),
               NEW g \in Group(page, f)
        PROVE  g \in view.busy <=> g \in v.busy
    <2>1. f \in Flags(page) BY DEF Core, Sound
    <2>2. g \in Flags(page) BY <2>1, HooksOfFlags
    <2>3. G \cap Flags(page) = {} BY <1>1, <1>3, <1>7
    <2> QED BY <2>2, <2>3 DEF Shows, Goes
  <1>8. \A x \in asked, y \in asked : x # y => Raised(page, x) \cap Raised(page, y) = {}
    BY <1>1
  <1>9. "busy" \in DOMAIN v BY DEF Shows
  <1> QED BY <1>2, <1>4, <1>5, <1>6, <1>7, <1>8, <1>9, Settling

(* The handler goes on after its page is gone.                             *)
LEMMA Unseen ==
    ASSUME Core, NEW r \in net, r.mine # TRUE, NEW v, NEW k, NEW asked, Settle(r, v, k, {}, asked),
           \A q \in asked : IsRequest(q) /\ q.op \notin Queries,
           \A q \in asked : Raised(page, q) = {} \/ Raised(page, q) = Raised(page, r),
           \A x \in asked, q \in asked : x # q => Raised(page, x) \cap Raised(page, q) = {}
    PROVE  Core' /\ page' = page /\ at' = at /\ view' = view
  <1>1. r.mine = FALSE BY DEF Core, Sound, IsRequest
  <1>2. Settle(r, view, k, {}, asked) BY <1>1 DEF Settle
  <1>3. "busy" \in DOMAIN view BY DEF Core
  <1> QED BY <1>1, <1>2, <1>3, Settling

(* A mutation was answered and a query is asked for again.                 *)
Yields(r, op, G) ==
    /\ Raised(page, r) # {} /\ Frees(r, G)
    /\ \A q : Is(q, op, None) => view.busy \cap Clears(page, r) \subseteq G \cup Clears(page, q)

(* A handler whose change makes a cached query stale.                      *)
LEMMA Invalidating ==
    ASSUME Core, NEW r \in net, NEW v, NEW op \in Queries, NEW G,
           Invalidate(r, v, op), Shows(v, G, {}), Yields(r, op, G)
    PROVE  Core' /\ page' = page /\ at' = at /\ view' = IF r.mine THEN v ELSE view
  <1> DEFINE d == IF r.mine THEN at ELSE r.at
             D == InFlight(op, d)
             new == Sent(d, {Request(op, None)})
             e == IF r.mine THEN v.busy ELSE view.busy
             m == (net \ ({r} \cup D)) \cup Followers(r, new)
  <1>0. "busy" \in DOMAIN v /\ v.busy = view.busy \ G BY DEF Shows
  <1>1. Sound(page, net, view.busy) BY DEF Core
  <1>2. IsRequest(r) BY <1>1 DEF Sound
  <1>3. PICK q : new = {q} /\ Is(q, op, None) BY Asking DEF One
  <1>4. KeepsToItself(page, view.busy, r, v.busy) BY <1>0 DEF KeepsToItself, Yields, Frees
  <1>5. r.mine = TRUE => at # None BY DEF Core, Yields
  <1>6. CASE at = d
    <2>1. /\ page' = page /\ at' = at /\ view' = (IF r.mine THEN v ELSE view)
          /\ net' = m
      BY <1>6 DEF Invalidate, Settle, Followers
    <2>2. D \in SUBSET net /\ \A x \in D : x.op = op BY DEF InFlight
    <2> HIDE DEF D
    <2>3. r.mine = TRUE => \A f \in v.busy : f \in view.busy /\ (f \notin Clears(page, r) \/ f \in Clears(page, q))
      BY <1>0, <1>3 DEF Yields
    <2> HIDE DEF new, d
    <2>4. Sound(page, (net \ ({r} \cup D)) \cup Followers(r, {q}), e)
      BY <1>1, <1>3, <1>4, <2>2, <2>3, InvalidateSound
    <2>5. Sound(page, m, e) BY <2>4, <1>3
    <2>6. view'.busy = e BY <2>1
    <2>7. "busy" \in DOMAIN view' BY <1>0, <2>1 DEF Core
    <2>8. ASSUME at = None PROVE \A x \in m : x.mine = TRUE => Raised(page, x) = {}
      <3> DEFINE t == r.mine \/ q.op \in Queries
                 y == [q EXCEPT !.mine = t]
      <3>1. t \in BOOLEAN BY <1>2 DEF IsRequest
      <3>2. Followers(r, new) = {y} BY <1>3 DEF Followers
      <3> HIDE DEF t
      <3>3. y.op = op BY <1>3, <3>1, Owning DEF Is
      <3> HIDE DEF y
      <3>4. Raised(page, y) = {} BY <3>3 DEF Raised
      <3> QED BY <2>8, <3>2, <3>4 DEF Core
    <2> HIDE DEF m, e
    <2> QED BY <2>1, <2>5, <2>6, <2>7, <2>8 DEF Core
  <1>7. CASE at # d
    <2>1. r.mine # TRUE BY <1>7
    <2>2. PICK k : Settle(r, v, k, {}, {}) BY <1>7 DEF Invalidate
    <2>3. r.mine = TRUE => \A f \in v.busy : \/ f \in view.busy /\ f \notin Clears(page, r)
                                            \/ \E x \in {} : f \in Clears(page, x)
      BY <2>1
    <2> HIDE DEF d, D, new, e, m
    <2> QED BY <1>0, <2>1, <2>2, Settling
  <1> QED BY <1>6, <1>7

(* The page is left: nobody waits for anything there.                      *)
LEMMA Leaving ==
    ASSUME PagesInv, NEW S, net' = Left(net \ S), view' = Gone, at' = None, page' = page
    PROVE  PagesInv'
  <1>1. Sound(page, net, view.busy) BY DEF PagesInv, Core
  <1>2. Sound(page, Left(net \ S), {}) BY <1>1, LeftSound
  <1>3. \A r \in Left(net \ S) : r.mine = TRUE => Raised(page, r) = {} BY <1>1, LeftSound
  <1>4. "busy" \in DOMAIN view' /\ view'.busy = {} BY DEF Gone
  <1>5. Core' BY <1>2, <1>3, <1>4 DEF Core
  <1>6. Inherits({}) BY LeftInherits DEF PagesInv
  <1>7. Numbered' BY <1>6 DEF PagesInv, Numbered, Inherits, Same
  <1> QED BY <1>5, <1>7 DEF PagesInv, Covered

(* Most pages have nothing for Covered and Numbered to say.                *)
LEMMA NothingCovered ==
    ASSUME Core', page' = page, page # "branches", page # "notifications",
           page \notin DatabasePages \cup ContainersPages
    PROVE  PagesInv'
BY DEF PagesInv, Covered, Numbered

-----------------------------------------------------------------------------
(* Two reads at once, and the hooks of the pages.                          *)

Two(asked, op, arg, op2, arg2) ==
    \E q, x : asked = {q, x} /\ Is(q, op, arg) /\ Is(x, op2, arg2)

(* Two requests at once, here or at another database.                      *)
LEMMA AskingTwice ==
    ASSUME NEW op, NEW arg, NEW op2, NEW arg2
    PROVE  \A d : Two(Sent(d, {Request(op, arg), Request(op2, arg2)}), op, arg, op2, arg2)
  <1> DEFINE q == Request(op, arg)
             x == Request(op2, arg2)
  <1>1. Is(q, op, arg) /\ Is(x, op2, arg2) BY Requested
  <1> HIDE DEF q, x
  <1>2. ASSUME NEW d PROVE Two(Sent(d, {q, x}), op, arg, op2, arg2)
    <2> DEFINE s == [q EXCEPT !.at = d]
               t == [x EXCEPT !.at = d]
    <2>1. Is(s, op, arg) BY <1>1, Directing DEF Is
    <2>2. Is(t, op2, arg2) BY <1>1, Directing DEF Is
    <2>3. Sent(d, {q, x}) = {s, t} BY DEF Sent
    <2> HIDE DEF s, t
    <2> QED BY <2>1, <2>2, <2>3 DEF Two
  <1> QED BY <1>2 DEF q, x

(* A page that opens with two requests.                                    *)
LEMMA OpeningTwo ==
    ASSUME Core, NEW d, NEW v, NEW asked, NEW op, NEW arg, NEW op2, NEW arg2, NEW S, NEW T,
           OpenAt(d, v, asked), Two(Sent(d, asked), op, arg, op2, arg2), "busy" \in DOMAIN v,
           v.busy \subseteq S \cup T, Reader(op, arg, S), Reader(op2, arg2, T)
    PROVE  Core' /\ page' = page /\ at' = d /\ view' = v
  <1> DEFINE new == Sent(d, asked)
  <1>1. PICK q, y : new = {q, y} /\ Is(q, op, arg) /\ Is(y, op2, arg2) BY DEF Two
  <1>2. IsRequest(q) /\ q.mine = TRUE /\ Raised(page, q) = {} /\ S \subseteq Clears(page, q)
    BY <1>1 DEF Is, Reader
  <1>3. IsRequest(y) /\ y.mine = TRUE /\ Raised(page, y) = {} /\ T \subseteq Clears(page, y)
    BY <1>1 DEF Is, Reader
  <1>4. \A x \in new : IsRequest(x) /\ x.mine = TRUE /\ Raised(page, x) = {}
    BY <1>1, <1>2, <1>3
  <1>5. \A f \in v.busy : \E x \in new : f \in Clears(page, x) BY <1>1, <1>2, <1>3
  <1> QED BY <1>4, <1>5, Opening

(* A page that moves with two requests.                                    *)
LEMMA SwitchingTwo ==
    ASSUME Core, NEW d \in Dbs, NEW v, NEW asked, NEW op, NEW arg, NEW op2, NEW arg2, NEW S, NEW T,
           SwitchTo(d, v, asked), Two(Sent(d, asked), op, arg, op2, arg2), Shows(v, {}, S \cup T),
           Reader(op, arg, S), Reader(op2, arg2, T)
    PROVE  Core' /\ page' = page /\ at' = d /\ d # None /\ at # None /\ view' = v
  <1> DEFINE new == Sent(d, asked)
  <1>1. PICK q, y : new = {q, y} /\ Is(q, op, arg) /\ Is(y, op2, arg2) BY DEF Two
  <1>2. IsRequest(q) /\ q.mine = TRUE /\ Raised(page, q) = {} /\ S \subseteq Clears(page, q)
    BY <1>1 DEF Is, Reader
  <1>3. IsRequest(y) /\ y.mine = TRUE /\ Raised(page, y) = {} /\ T \subseteq Clears(page, y)
    BY <1>1 DEF Is, Reader
  <1>4. \A x \in new : IsRequest(x) /\ x.mine = TRUE /\ Raised(page, x) = {}
    BY <1>1, <1>2, <1>3
  <1>5. \A f \in v.busy : f \in view.busy \/ \E x \in new : f \in Clears(page, x)
    BY <1>1, <1>2, <1>3 DEF Shows
  <1>6. \A f \in Flags(page) : f \in view.busy <=> f \in v.busy BY DEF Shows, Reader
  <1>7. "busy" \in DOMAIN v BY DEF Shows
  <1> QED BY <1>4, <1>5, <1>6, <1>7, Switching

(* It is opened, or moves, and asks for nothing.                           *)
LEMMA OpeningIdle ==
    ASSUME Core, NEW d, NEW v, OpenAt(d, v, {}), "busy" \in DOMAIN v, v.busy = {}
    PROVE  Core' /\ page' = page /\ at' = d /\ view' = v
  <1> DEFINE asked == {}
  <1>1. Sent(d, asked) = {} BY DEF Sent
  <1>2. OpenAt(d, v, asked) OBVIOUS
  <1> HIDE DEF asked
  <1> QED BY <1>1, <1>2, Opening

(* It moves and asks for nothing.                                          *)
LEMMA SwitchingIdle ==
    ASSUME Core, NEW d \in Dbs, NEW v, SwitchTo(d, v, {}), Shows(v, {}, {})
    PROVE  Core' /\ page' = page /\ at' = d /\ d # None /\ at # None /\ view' = v
  <1> DEFINE asked == {}
  <1>1. Sent(d, asked) = {} BY DEF Sent
  <1>2. SwitchTo(d, v, asked) OBVIOUS
  <1>3. "busy" \in DOMAIN v /\ v.busy = view.busy BY DEF Shows
  <1> HIDE DEF asked
  <1> QED BY <1>1, <1>2, <1>3, Switching

(* Raising and taking down one flag.                                       *)
LEMMA Flagging ==
    ASSUME Core, NEW f
    PROVE  /\ Shows(Busy(view, f), {}, {f}) /\ Shows(Idle(view, f), {f}, {})
           /\ Shows(view, {}, {})
BY DEF Core, Shows, Busy, Idle

(* The pages whose requests are called like the flags they hold up.        *)
PlainPages ==
    {"monitoring", "preferences", "limits", "sql", "profile", "updates", "backup settings",
     "backups"} \cup TablesPages

PlainNames ==
    {"save", "profile", "password", "key", "check", "backup", "rollback", "restore file",
     "restore connection", "decrypt", "run", "assistant"}

(* On most pages a flag is called like the change that raises it and has a *)
(* hook of its own.                                                        *)
LEMMA PlainFlags ==
    ASSUME page \in PlainPages
    PROVE  /\ \A r : Raised(page, r) = IF r.op \in Reads \cup {"rows", "restart", "avatar"}
                                       THEN {} ELSE {r.op}
           /\ \A f : Group(page, f) = {f}
           /\ PlainNames \subseteq Flags(page)
           /\ {"load", "status", "avatar", "list", "rows"} \cap Flags(page) = {}
           /\ page # "branches" /\ page # "notifications"
           /\ page \notin DatabasePages \cup ContainersPages
  <1>1. /\ page \notin {"connections", "branches", "webserver", "users", "user access",
                        "notifications", "navigation", "projects", "project"}
        /\ page \notin ContainersPages \cup TopologyPages \cup DatabasePages
    BY DEF PlainPages, TablesPages, ContainersPages, TopologyPages, DatabasePages
  <1>2. \A f : Group(page, f) = {f} BY <1>1 DEF Group
  <1>3. /\ PlainNames \subseteq Flags(page)
        /\ {"load", "status", "avatar", "list", "rows"} \cap Flags(page) = {}
    BY <1>1 DEF Flags, PlainNames
  <1>4. \A r : Raised(page, r) = IF r.op \in Reads \cup {"rows", "restart", "avatar"}
                                 THEN {} ELSE {r.op}
    BY <1>1 DEF Raised, Reads
  <1> QED BY <1>1, <1>2, <1>3, <1>4

(* There a change ends no spinner.                                         *)
LEMMA PlainSpinners ==
    ASSUME page \in PlainPages, NEW r, r.op \in PlainNames PROVE Spins(page, r) = {}
  <1>1. /\ page \notin {"connections", "branches", "users", "user access", "project"}
        /\ page \notin ContainersPages \cup TopologyPages \cup DatabasePages
    BY DEF PlainPages, TablesPages, ContainersPages, TopologyPages, DatabasePages
  <1> QED BY <1>1 DEF Spins, PlainNames

(* There a button raises the flag of its change.                           *)
LEMMA PlainPressing ==
    ASSUME Core, page \in PlainPages, NEW f \in PlainNames, f \notin view.busy, NEW v, NEW arg,
           Act(v, {Request(f, arg)}), Shows(v, {}, {f})
    PROVE  Core' /\ page' = page
  <1>1. One({Request(f, arg)}, f, arg) BY Asking
  <1>2. f \notin Reads \cup {"rows", "restart", "avatar"} BY DEF PlainNames, Reads, Queries
  <1>3. Starts(f, arg, f, {f}) BY <1>2, PlainFlags DEF Starts, Is, Clears
  <1> QED BY <1>1, <1>3, Pressing

(* There the handler of a change takes its flag down.                      *)
LEMMA PlainEnding ==
    ASSUME Core, page \in PlainPages, NEW r \in net, r.op \in PlainNames, NEW v, NEW k,
           Settle(r, v, k, {}, {}), Shows(v, {r.op}, {})
    PROVE  Core' /\ page' = page
  <1>1. r.op \notin Reads \cup {"rows", "restart", "avatar"} BY DEF PlainNames, Reads, Queries
  <1>2. Clears(page, r) = {r.op} /\ Raised(page, r) = {r.op}
    BY <1>1, PlainFlags, PlainSpinners DEF Clears
  <1>3. Over(r, {r.op}) BY <1>2, PlainFlags DEF Over, Frees
  <1> QED BY <1>3, Ending

(* A query that the cache may ask for.                                     *)
LEMMA SendingOne ==
    ASSUME NEW asked, NEW op, NEW arg, One(asked, op, arg), NEW d
    PROVE  One(Sent(d, asked), op, arg)
  <1>1. PICK q : asked = {q} /\ Is(q, op, arg) BY DEF One
  <1> DEFINE s == [q EXCEPT !.at = d]
  <1>2. Is(s, op, arg) BY <1>1, Directing DEF Is
  <1>3. Sent(d, asked) = {s} BY <1>1 DEF Sent
  <1> HIDE DEF s
  <1> QED BY <1>2, <1>3 DEF One

(* The cache asks for a query once or not at all.                          *)
LEMMA Refetching ==
    ASSUME NEW op, NEW d
    PROVE  /\ Refetch(op, d) = {} \/ One(Refetch(op, d), op, None)
           /\ \A asked \in MayRefetch(op, d) : asked = {} \/ One(asked, op, None)
  <1>1. One(Sent(d, {Request(op, None)}), op, None) BY Asking
  <1>2. Refetch(op, d) = {} \/ One(Refetch(op, d), op, None) BY <1>1 DEF Refetch
  <1> QED BY <1>2 DEF MayRefetch

(* A query only reads.                                                     *)
LEMMA QueryReads ==
    ASSUME NEW op \in Queries PROVE Reader(op, None, {})
BY DEF Reader, Is, Raised

(* A page that opens with a query, if the cache needs it.                  *)
LEMMA OpeningQuery ==
    ASSUME Core, NEW op \in Queries, NEW d, NEW v, NEW asked \in MayRefetch(op, d),
           OpenAt(d, v, asked), "busy" \in DOMAIN v, v.busy = {}
    PROVE  Core' /\ page' = page /\ at' = d /\ view' = v
  <1>1. CASE asked = {}
    <2>1. OpenAt(d, v, {}) BY <1>1
    <2> QED BY <2>1, OpeningIdle
  <1>2. CASE One(asked, op, None)
    <2>1. One(Sent(d, asked), op, None) BY <1>2, SendingOne
    <2>2. Reader(op, None, v.busy) BY QueryReads
    <2> QED BY <2>1, <2>2, OpeningOne
  <1> QED BY <1>1, <1>2, Refetching

(* A page that moves with a query, if the cache needs it.                  *)
LEMMA SwitchingQuery ==
    ASSUME Core, NEW op \in Queries, NEW d \in Dbs, NEW v, NEW asked \in MayRefetch(op, d),
           SwitchTo(d, v, asked), Shows(v, {}, {})
    PROVE  Core' /\ page' = page /\ at' = d /\ d # None /\ at # None /\ view' = v
  <1>1. CASE asked = {}
    <2>1. SwitchTo(d, v, {}) BY <1>1
    <2> QED BY <2>1, SwitchingIdle
  <1>2. CASE One(asked, op, None)
    <2>1. One(Sent(d, asked), op, None) BY <1>2, SendingOne
    <2>2. Reader(op, None, {}) BY QueryReads
    <2> QED BY <2>1, <2>2, SwitchingOne
  <1> QED BY <1>1, <1>2, Refetching

(* A query is sent again by its timer.                                     *)
LEMMA Polling ==
    ASSUME Core, NEW op \in Queries, Act(view, Refetch(op, at))
    PROVE  Core' /\ page' = page /\ at' = at /\ view' = view
  <1> DEFINE asked == Refetch(op, at)
  <1>1. Shows(view, {}, {}) BY Flagging
  <1>2. Act(view, asked) OBVIOUS
  <1>3. asked = {} \/ One(asked, op, None) BY Refetching
  <1> HIDE DEF asked
  <1>4. CASE asked = {}
    <2>1. Act(view, {}) BY <1>2, <1>4
    <2> QED BY <1>1, <2>1, Editing
  <1>5. CASE One(asked, op, None) BY <1>1, <1>2, <1>5, QueryReads, Querying
  <1> QED BY <1>3, <1>4, <1>5

-----------------------------------------------------------------------------
(* The pages, one by one: opening one, what the user does there, its       *)
(* handlers and the server's answers.                                      *)

LEMMA MonitoringKeeps ==
    ASSUME PagesInv, page = "monitoring", OpenMonitoring \/ MonitoringNext
    PROVE  PagesInv'
  <1>1. page \in PlainPages BY DEF PlainPages
  <1>2. \A r : Spins(page, r) = IF r.op = "load" THEN {"load"} ELSE {}
    BY DEF Spins, ContainersPages, TopologyPages, DatabasePages, TablesPages
  <1>3. Core BY DEF PagesInv
  <1> SUFFICES Core' /\ page' = page BY <1>1, PlainFlags, NothingCovered
  <1>4. CASE OpenMonitoring
    <2>1. One(Sent(Server, {Request("load", None)}), "load", None) BY Asking
    <2>2. "busy" \in DOMAIN MonitoringHooks /\ MonitoringHooks.busy = {"load"} BY DEF MonitoringHooks
    <2>3. Reader("load", None, MonitoringHooks.busy)
      BY <1>1, <1>2, <2>2, PlainFlags DEF Reader, Is, Reads, Clears
    <2> QED BY <1>3, <1>4, <2>1, <2>2, <2>3, OpeningOne DEF OpenMonitoring
  <1>5. CASE MonitoringEdit \/ MonitoringReset
    <2>1. PICK x : Act([view EXCEPT !.draft = x], {})
      BY <1>5, Zenon DEF MonitoringEdit, MonitoringReset
    <2>2. Shows([view EXCEPT !.draft = x], {}, {}) BY <1>3 DEF Core, Shows
    <2> QED BY <1>3, <2>1, <2>2, Editing
  <1>6. CASE MonitoringSave
    <2>1. /\ Act(Busy(view, "save"), {Request("save", view.draft)})
          /\ "save" \notin view.busy
      BY <1>6 DEF MonitoringSave, MonitoringControls
    <2>2. Shows(Busy(view, "save"), {}, {"save"}) BY <1>3, Flagging
    <2> QED BY <1>1, <1>3, <2>1, <2>2, PlainPressing DEF PlainNames
  <1>7. ASSUME NEW r \in net, MonitoringLoaded(r) PROVE Core' /\ page' = page
    <2> DEFINE v == IF r.ans = Failed THEN Idle(view, "load")
                    ELSE [Idle(view, "load") EXCEPT !.draft = r.ans, !.stored = r.ans]
    <2>1. Settle(r, v, kept, {}, {}) BY <1>7 DEF MonitoringLoaded, Handle
    <2>2. Shows(v, {"load"}, {}) BY <1>3 DEF Core, Idle, Shows
    <2>3. Over(r, {"load"})
      BY <1>1, <1>2, <1>7, PlainFlags DEF MonitoringLoaded, Reads, Over, Frees, Clears
    <2> HIDE DEF v
    <2> QED BY <1>3, <2>1, <2>2, <2>3, Ending
  <1>8. ASSUME NEW r \in net, MonitoringSaved(r) PROVE Core' /\ page' = page
    <2> DEFINE v == IF r.ans = Failed THEN Idle(view, "save")
                    ELSE [Idle(view, "save") EXCEPT !.stored = r.arg]
    <2>1. Settle(r, v, kept, {}, {}) BY <1>8 DEF MonitoringSaved, Handle
    <2>2. Shows(v, {"save"}, {}) BY <1>3 DEF Core, Idle, Shows
    <2>3. r.op = "save" BY <1>8 DEF MonitoringSaved
    <2> HIDE DEF v
    <2> QED BY <1>1, <1>3, <2>1, <2>2, <2>3, PlainEnding DEF PlainNames
  <1>9. ASSUME NEW r \in net, MonitoringServer(r) PROVE Core' /\ page' = page
    BY <1>3, <1>9, ServerKeeps, FailKeeps DEF MonitoringServer
  <1> QED BY <1>4, <1>5, <1>6, <1>7, <1>8, <1>9 DEF MonitoringNext

(* The notifications of a database (NotificationsPage).                    *)
LEMMA PreferencesKeeps ==
    ASSUME PagesInv, page = "preferences", OpenPreferences \/ PreferencesNext
    PROVE  PagesInv'
  <1>1. page \in PlainPages BY DEF PlainPages
  <1>2. \A r : Spins(page, r) = IF r.op = "load" THEN {"load"} ELSE {}
    BY DEF Spins, ContainersPages, TopologyPages, DatabasePages, TablesPages
  <1>3. Core BY DEF PagesInv
  <1> SUFFICES Core' /\ page' = page BY <1>1, PlainFlags, NothingCovered
  <1>a. \A d : One(Sent(d, {Request("load", None)}), "load", None) BY Asking
  <1>b. Reader("load", None, {"load"}) BY <1>1, <1>2, PlainFlags DEF Reader, Is, Reads, Clears
  <1>4. CASE OpenPreferences
    <2>1. PICK d \in Dbs : OpenAt(d, PreferencesHooks, {Request("load", None)})
      BY <1>4 DEF OpenPreferences
    <2>2. "busy" \in DOMAIN PreferencesHooks /\ PreferencesHooks.busy = {"load"}
      BY DEF PreferencesHooks
    <2>3. Reader("load", None, PreferencesHooks.busy) BY <1>b, <2>2
    <2> QED BY <1>3, <1>a, <2>1, <2>2, <2>3, OpeningOne
  <1>5. CASE SwitchPreferences
    <2>1. PICK d \in Dbs : SwitchTo(d, Busy(view, "load"), {Request("load", None)})
      BY <1>5 DEF SwitchPreferences
    <2>2. Shows(Busy(view, "load"), {}, {"load"}) BY <1>3, Flagging
    <2> QED BY <1>3, <1>a, <1>b, <2>1, <2>2, SwitchingOne
  <1>6. ASSUME NEW x, PreferencesEdit(x) PROVE Core' /\ page' = page
    <2>1. Act([view EXCEPT !.draft = x], {}) BY <1>6 DEF PreferencesEdit
    <2>2. Shows([view EXCEPT !.draft = x], {}, {}) BY <1>3 DEF Core, Shows
    <2> QED BY <1>3, <2>1, <2>2, Editing
  <1>7. CASE PreferencesSave
    <2>1. /\ Act(Busy(view, "save"), {Request("save", view.draft)})
          /\ "save" \notin view.busy
      BY <1>7 DEF PreferencesSave, PreferencesControls
    <2>2. Shows(Busy(view, "save"), {}, {"save"}) BY <1>3, Flagging
    <2> QED BY <1>1, <1>3, <2>1, <2>2, PlainPressing DEF PlainNames
  <1>8. ASSUME NEW r \in net, PreferencesLoaded(r) PROVE Core' /\ page' = page
    <2> DEFINE v == IF r.ans = Failed THEN Idle(view, "load")
                    ELSE [Idle(view, "load") EXCEPT !.draft = r.ans.prefs,
                              !.stored = r.ans.prefs, !.master = r.ans.master]
    <2>1. Settle(r, v, kept, {}, {}) BY <1>8 DEF PreferencesLoaded, Handle
    <2>2. Shows(v, {"load"}, {}) BY <1>3 DEF Core, Idle, Shows
    <2>3. Over(r, {"load"})
      BY <1>1, <1>2, <1>8, PlainFlags DEF PreferencesLoaded, Reads, Over, Frees, Clears
    <2> HIDE DEF v
    <2> QED BY <1>3, <2>1, <2>2, <2>3, Ending
  <1>9. ASSUME NEW r \in net, PreferencesSaved(r) PROVE Core' /\ page' = page
    <2> DEFINE v == IF r.ans = Failed THEN Idle(view, "save")
                    ELSE [Idle(view, "save") EXCEPT !.draft = r.ans.prefs,
                              !.stored = r.ans.prefs]
    <2>1. Settle(r, v, kept, {}, {}) BY <1>9 DEF PreferencesSaved, Handle
    <2>2. Shows(v, {"save"}, {}) BY <1>3 DEF Core, Idle, Shows
    <2>3. r.op = "save" BY <1>9 DEF PreferencesSaved
    <2> HIDE DEF v
    <2> QED BY <1>1, <1>3, <2>1, <2>2, <2>3, PlainEnding DEF PlainNames
  <1>10. ASSUME NEW r \in net, PreferencesServer(r) PROVE Core' /\ page' = page
    BY <1>3, <1>10, ServerKeeps, FailKeeps DEF PreferencesServer
  <1> QED BY <1>4, <1>5, <1>6, <1>7, <1>8, <1>9, <1>10 DEF PreferencesNext

(* The limits of a database (LimitsPage).                                  *)
LEMMA LimitsKeep ==
    ASSUME PagesInv, page = "limits", OpenLimits \/ LimitsNext
    PROVE  PagesInv'
  <1>1. page \in PlainPages BY DEF PlainPages
  <1>2. \A r : Spins(page, r) = IF r.op = "database" THEN {"load"} ELSE {}
    BY DEF Spins, ContainersPages, TopologyPages, DatabasePages, TablesPages
  <1>3. Core BY DEF PagesInv
  <1> SUFFICES Core' /\ page' = page BY <1>1, PlainFlags, NothingCovered
  <1>a. \A d : Two(Sent(d, LimitsRequests), "database", None, "load", None)
    BY AskingTwice DEF LimitsRequests
  <1>b. /\ Reader("database", None, {"load"}) /\ Reader("database", None, {})
        /\ Reader("load", None, {}) /\ Reader("restart", None, {})
    BY <1>1, <1>2, PlainFlags DEF Reader, Is, Reads, Clears
  <1>4. CASE OpenLimits
    <2>1. PICK d \in Dbs : OpenAt(d, LimitsHooks, LimitsRequests) BY <1>4 DEF OpenLimits
    <2>2. "busy" \in DOMAIN LimitsHooks /\ LimitsHooks.busy \subseteq {"load"} \cup {}
      BY DEF LimitsHooks
    <2> QED BY <1>3, <1>a, <1>b, <2>1, <2>2, OpeningTwo
  <1>5. CASE SwitchLimits
    <2>1. PICK d \in Dbs : SwitchTo(d, view, LimitsRequests) BY <1>5 DEF SwitchLimits
    <2>2. Shows(view, {}, {} \cup {}) BY <1>3, Flagging DEF Shows
    <2> QED BY <1>3, <1>a, <1>b, <2>1, <2>2, SwitchingTwo
  <1>6. CASE LimitsReset \/ \E v \in Vals \cup {0} : LimitsEdit(v)
    <2>1. PICK x, e : Act([view EXCEPT !.draft = x, !.error = e], {}) \/ Act([view EXCEPT !.draft = x], {})
      BY <1>6 DEF LimitsReset, LimitsEdit
    <2>2. /\ Shows([view EXCEPT !.draft = x, !.error = e], {}, {})
          /\ Shows([view EXCEPT !.draft = x], {}, {})
      BY <1>3 DEF Core, Shows
    <2> QED BY <1>3, <2>1, <2>2, Editing
  <1>7. CASE LimitsSave
    <2> DEFINE v == [Busy(view, "save") EXCEPT !.error = FALSE]
    <2>1. Act(v, {Request("save", view.draft)}) /\ "save" \notin view.busy
      BY <1>7 DEF LimitsSave, LimitsControls
    <2>2. Shows(v, {}, {"save"}) BY <1>3 DEF Core, Shows, Busy
    <2> HIDE DEF v
    <2> QED BY <1>1, <1>3, <2>1, <2>2, PlainPressing DEF PlainNames
  <1>8. CASE LimitsRestart
    <2>1. Act(view, {Request("restart", None)}) BY <1>8 DEF LimitsRestart
    <2>2. One({Request("restart", None)}, "restart", None) BY Asking
    <2>3. Shows(view, {}, {}) BY <1>3, Flagging
    <2> QED BY <1>3, <1>b, <2>1, <2>2, <2>3, Querying
  <1>9. ASSUME NEW r \in net, LimitsDatabase(r) PROVE Core' /\ page' = page
    <2> DEFINE v == IF r.ans = Failed THEN [Idle(view, "load") EXCEPT !.error = TRUE]
                    ELSE [Idle(view, "load") EXCEPT !.database = TRUE]
    <2>1. Settle(r, v, kept, {}, {}) BY <1>9 DEF LimitsDatabase, Handle
    <2>2. Shows(v, {"load"}, {}) BY <1>3 DEF Core, Idle, Shows
    <2>3. Over(r, {"load"})
      BY <1>1, <1>2, <1>9, PlainFlags DEF LimitsDatabase, Reads, Over, Frees, Clears
    <2> HIDE DEF v
    <2> QED BY <1>3, <2>1, <2>2, <2>3, Ending
  <1>10. ASSUME NEW r \in net, LimitsLoaded(r) \/ LimitsRestarted(r) PROVE Core' /\ page' = page
    <2>1. PICK v : Settle(r, v, kept, {}, {}) /\ Shows(v, {}, {})
      <3> DEFINE w == IF r.ans = Failed THEN view
                      ELSE [view EXCEPT !.draft = r.ans.v, !.stored = r.ans.v]
      <3>1. /\ Shows(w, {}, {})
            /\ Shows([view EXCEPT !.restart = FALSE], {}, {})
            /\ Shows([view EXCEPT !.error = TRUE], {}, {})
        BY <1>3 DEF Core, Shows
      <3>2. \/ Settle(r, w, kept, {}, {})
            \/ Settle(r, [view EXCEPT !.restart = FALSE], kept, {}, {})
            \/ Settle(r, [view EXCEPT !.error = TRUE], kept, {}, {})
        BY <1>10 DEF LimitsLoaded, LimitsRestarted, Handle
      <3> HIDE DEF w
      <3> QED BY <3>1, <3>2
    <2>2. Over(r, {})
      BY <1>1, <1>2, <1>10, PlainFlags DEF LimitsLoaded, LimitsRestarted, Reads, Over, Frees, Clears
    <2> QED BY <1>3, <2>1, <2>2, Ending
  <1>11. ASSUME NEW r \in net, LimitsSaved(r) PROVE Core' /\ page' = page
    <2> DEFINE v == IF r.ans = Failed THEN [Idle(view, "save") EXCEPT !.error = TRUE]
                    ELSE [Idle(view, "save") EXCEPT !.stored = r.arg,
                              !.restart = r.ans.restart]
    <2>1. Settle(r, v, kept, {}, {}) BY <1>11 DEF LimitsSaved, Handle
    <2>2. Shows(v, {"save"}, {}) BY <1>3 DEF Core, Idle, Shows
    <2>3. r.op = "save" BY <1>11 DEF LimitsSaved
    <2> HIDE DEF v
    <2> QED BY <1>1, <1>3, <2>1, <2>2, <2>3, PlainEnding DEF PlainNames
  <1>12. ASSUME NEW r \in net, LimitsServer(r) PROVE Core' /\ page' = page
    BY <1>3, <1>12, ServerKeeps, FailKeeps DEF LimitsServer
  <1> QED
    BY <1>4, <1>5, <1>6, <1>7, <1>8, <1>9, <1>10, <1>11, <1>12 DEF LimitsNext

(* The SQL editor and its assistant (SQLPage).                             *)
LEMMA SQLKeeps ==
    ASSUME PagesInv, page = "sql", OpenSQL \/ SQLNext
    PROVE  PagesInv'
  <1>1. page \in PlainPages BY DEF PlainPages
  <1>3. Core BY DEF PagesInv
  <1> SUFFICES Core' /\ page' = page BY <1>1, PlainFlags, NothingCovered
  <1>4. CASE OpenSQL
    <2>1. PICK d \in Dbs : OpenAt(d, SQLHooks, {}) BY <1>4 DEF OpenSQL
    <2>2. "busy" \in DOMAIN SQLHooks /\ SQLHooks.busy = {} BY DEF SQLHooks
    <2> QED BY <1>3, <2>1, <2>2, OpeningIdle
  <1>5. CASE SwitchSQL
    <2>1. PICK d \in Dbs : SwitchTo(d, view, {}) BY <1>5 DEF SwitchSQL
    <2>2. Shows(view, {}, {}) BY <1>3, Flagging
    <2> QED BY <1>3, <2>1, <2>2, SwitchingIdle
  <1>6. CASE ContextSaysActive \/ EditSQL \/ WritePrompt \/ ClearHistory
    <2>1. PICK x : \/ Act([view EXCEPT !.active = x], {}) \/ Act([view EXCEPT !.query = x], {})
                   \/ Act([view EXCEPT !.prompt = x], {}) \/ Act([view EXCEPT !.history = x], {})
      BY <1>6 DEF ContextSaysActive, EditSQL, WritePrompt, ClearHistory
    <2>2. /\ Shows([view EXCEPT !.active = x], {}, {}) /\ Shows([view EXCEPT !.query = x], {}, {})
          /\ Shows([view EXCEPT !.prompt = x], {}, {}) /\ Shows([view EXCEPT !.history = x], {}, {})
      BY <1>3 DEF Core, Shows
    <2> QED BY <1>3, <2>1, <2>2, Editing
  <1>7. CASE RunQuery
    <2> DEFINE v == [Busy(view, "run") EXCEPT !.error = FALSE, !.result = None]
    <2>1. Act(v, {Request("run", view.query)}) /\ "run" \notin view.busy
      BY <1>7 DEF RunQuery, SQLControls
    <2>2. Shows(v, {}, {"run"}) BY <1>3 DEF Core, Shows, Busy
    <2> HIDE DEF v
    <2> QED BY <1>1, <1>3, <2>1, <2>2, PlainPressing DEF PlainNames
  <1>8. CASE AskAssistant
    <2>1. /\ Act(Busy(view, "assistant"), {Request("assistant", view.query)})
          /\ "assistant" \notin view.busy
      BY <1>8 DEF AskAssistant, SQLControls
    <2>2. Shows(Busy(view, "assistant"), {}, {"assistant"}) BY <1>3, Flagging
    <2> QED BY <1>1, <1>3, <2>1, <2>2, PlainPressing DEF PlainNames
  <1>9. ASSUME NEW r \in net, QueryDone(r) PROVE Core' /\ page' = page
    <2>1. PICK a, e, h :
             Settle(r, [Idle(view, "run") EXCEPT !.result = a, !.error = e, !.history = h],
                    kept, {}, {})
      BY <1>9, Zenon DEF QueryDone, Handle
    <2> DEFINE v == [Idle(view, "run") EXCEPT !.result = a, !.error = e, !.history = h]
    <2>2. Shows(v, {"run"}, {}) BY <1>3 DEF Core, Idle, Shows
    <2>3. r.op = "run" BY <1>9 DEF QueryDone
    <2> HIDE DEF v
    <2> QED BY <1>1, <1>3, <2>1, <2>2, <2>3, PlainEnding DEF PlainNames, v
  <1>10. ASSUME NEW r \in net, AssistantDone(r) PROVE Core' /\ page' = page
    <2> DEFINE v == IF r.ans = Failed THEN Idle(view, "assistant")
                    ELSE [Idle(view, "assistant") EXCEPT !.query = r.ans, !.prompt = FALSE]
    <2>1. Settle(r, v, kept, {}, {}) BY <1>10 DEF AssistantDone, Handle
    <2>2. Shows(v, {"assistant"}, {}) BY <1>3 DEF Core, Idle, Shows
    <2>3. r.op = "assistant" BY <1>10 DEF AssistantDone
    <2> HIDE DEF v
    <2> QED BY <1>1, <1>3, <2>1, <2>2, <2>3, PlainEnding DEF PlainNames
  <1>11. ASSUME NEW r \in net, SQLServer(r) PROVE Core' /\ page' = page
    BY <1>3, <1>11, ServerKeeps, FailKeeps DEF SQLServer
  <1> QED BY <1>4, <1>5, <1>6, <1>7, <1>8, <1>9, <1>10, <1>11 DEF SQLNext

(* The page of the updates (UpdatesPage).                                  *)
LEMMA UpdatesKeep ==
    ASSUME PagesInv, page = "updates", OpenUpdates \/ UpdatesNext
    PROVE  PagesInv'
  <1>1. page \in PlainPages BY DEF PlainPages
  <1>2. \A r : Spins(page, r) = IF r.op = "load" THEN {"load"} ELSE {}
    BY DEF Spins, ContainersPages, TopologyPages, DatabasePages, TablesPages
  <1>3. Core BY DEF PagesInv
  <1> SUFFICES Core' /\ page' = page BY <1>1, PlainFlags, NothingCovered
  <1>4. CASE OpenUpdates
    <2>1. One(Sent(Server, {Request("load", None)}), "load", None) BY Asking
    <2>2. "busy" \in DOMAIN UpdatesHooks /\ UpdatesHooks.busy = {"load"} BY DEF UpdatesHooks
    <2>3. Reader("load", None, UpdatesHooks.busy)
      BY <1>1, <1>2, <2>2, PlainFlags DEF Reader, Is, Reads, Clears
    <2> QED BY <1>3, <1>4, <2>1, <2>2, <2>3, OpeningOne DEF OpenUpdates
  <1>5. CASE ServerChecks BY <1>5, IdleKeeps DEF ServerChecks, PagesInv
  <1>6. CASE ChooseSection
    <2>1. PICK x : Act([view EXCEPT !.section = x], {}) BY <1>6 DEF ChooseSection
    <2>2. Shows([view EXCEPT !.section = x], {}, {}) BY <1>3 DEF Core, Shows
    <2> QED BY <1>3, <2>1, <2>2, Editing
  <1>7. CASE CheckUpdates
    <2>1. Act(Busy(view, "check"), {Request("check", None)}) /\ "check" \notin view.busy
      BY <1>7 DEF CheckUpdates, UpdatesControls
    <2>2. Shows(Busy(view, "check"), {}, {"check"}) BY <1>3, Flagging
    <2> QED BY <1>1, <1>3, <2>1, <2>2, PlainPressing DEF PlainNames
  <1>8. ASSUME NEW r \in net, UpdateStatusFetched(r) PROVE Core' /\ page' = page
    <2> DEFINE w == [view EXCEPT !.busy = @ \ {"load", r.op}]
               v == IF r.ans = Failed THEN w ELSE [w EXCEPT !.status = r.ans]
    <2>1. Settle(r, v, kept, {}, {}) BY <1>8 DEF UpdateStatusFetched, Handle
    <2>2. Shows(v, {"load", r.op}, {}) BY <1>3 DEF Core, Shows
    <2>3. Over(r, {"load", r.op})
      BY <1>1, <1>2, <1>8, PlainFlags DEF UpdateStatusFetched, Reads, Queries, Over, Frees, Clears
    <2> HIDE DEF v
    <2> QED BY <1>3, <2>1, <2>2, <2>3, Ending
  <1>9. ASSUME NEW r \in net, UpdatesServer(r) PROVE Core' /\ page' = page
    BY <1>3, <1>9, ServerKeeps, FailKeeps DEF UpdatesServer
  <1> QED BY <1>4, <1>5, <1>6, <1>7, <1>8, <1>9 DEF UpdatesNext

(* The user's own profile (ProfilePage).                                   *)
LEMMA ProfileKeeps ==
    ASSUME PagesInv, page = "profile", OpenProfile \/ ProfileNext
    PROVE  PagesInv'
  <1>1. page \in PlainPages BY DEF PlainPages
  <1>2. \A r : Spins(page, r) = IF r.op = "load" THEN {"status"}
                                ELSE IF r.op = "avatar" THEN {"avatar"} ELSE {}
    BY DEF Spins, ContainersPages, TopologyPages, DatabasePages, TablesPages
  <1>3. Core BY DEF PagesInv
  <1> SUFFICES Core' /\ page' = page BY <1>1, PlainFlags, NothingCovered
  <1>4. CASE OpenProfile
    <2>1. One(Sent(Server, {Request("load", None)}), "load", None) BY Asking
    <2>2. "busy" \in DOMAIN ProfileHooks /\ ProfileHooks.busy = {"status"} BY DEF ProfileHooks
    <2>3. Reader("load", None, ProfileHooks.busy)
      BY <1>1, <1>2, <2>2, PlainFlags DEF Reader, Is, Reads, Clears
    <2> QED BY <1>3, <1>4, <2>1, <2>2, <2>3, OpeningOne DEF OpenProfile
  <1>5. CASE EditProfile
    <2>1. PICK x : Act([view EXCEPT !.name = x], {}) BY <1>5 DEF EditProfile
    <2>2. Shows([view EXCEPT !.name = x], {}, {}) BY <1>3 DEF Core, Shows
    <2> QED BY <1>3, <2>1, <2>2, Editing
  <1>6. CASE UpdateProfile \/ ChangePassword \/ \E x \in {None, "typed"} : SaveKey(x)
    <2>1. PICK f, arg : /\ f \in {"profile", "password", "key"}
                         /\ Act(Busy(view, f), {Request(f, arg)}) /\ f \notin view.busy
      BY <1>6 DEF UpdateProfile, ChangePassword, SaveKey, ProfileControls
    <2> DEFINE v == Busy(view, f)
    <2>2. Shows(v, {}, {f}) BY <1>3, Flagging
    <2>3. f \in PlainNames BY <2>1 DEF PlainNames
    <2>4. Act(v, {Request(f, arg)}) /\ f \notin view.busy BY <2>1
    <2> HIDE DEF v
    <2> QED BY <1>1, <1>3, <2>2, <2>3, <2>4, PlainPressing
  <1>7. CASE UploadAvatar
    <2>1. Act(Busy(view, "avatar"), {Request("avatar", kept)}) BY <1>7 DEF UploadAvatar
    <2>2. One({Request("avatar", kept)}, "avatar", kept) BY Asking
    <2>3. Shows(Busy(view, "avatar"), {}, {"avatar"}) BY <1>3, Flagging
    <2>4. Reader("avatar", kept, {"avatar"})
      BY <1>1, <1>2, PlainFlags DEF Reader, Is, Reads, Clears
    <2> QED BY <1>3, <2>1, <2>2, <2>3, <2>4, Querying
  <1>8. ASSUME NEW r \in net, UserSaved(r) PROVE Core' /\ page' = page
    <2>0. r.op \in {"profile", "avatar"} BY <1>8 DEF UserSaved
    <2>1. Raised(page, r) = {r.op} \ {"avatar"} /\ Clears(page, r) = {r.op}
      BY <1>1, <1>2, <2>0, PlainFlags DEF Reads, Queries, Clears
    <2>2. Frees(r, {r.op}) BY <1>1, <2>0, <2>1, PlainFlags DEF Frees
    <2>3. CASE r.ans = Failed
      <3>1. Settle(r, Idle(view, r.op), kept, {}, {}) BY <1>8, <2>3 DEF UserSaved, Handle
      <3>2. Shows(Idle(view, r.op), {r.op}, {}) BY <1>3, Flagging
      <3>3. Over(r, {r.op}) BY <2>1, <2>2 DEF Over
      <3> QED BY <1>3, <3>1, <3>2, <3>3, Ending
    <2>4. CASE r.ans # Failed
      <3> DEFINE v == Busy(Idle(view, r.op), "status")
      <3>1. PICK k : Settle(r, v, k, {}, IF r.mine THEN {Request("load", None)} ELSE {})
        BY <1>8, <2>4 DEF UserSaved
      <3>2. Shows(v, {r.op}, {"status"}) BY <1>3 DEF Core, Shows, Busy, Idle
      <3>3. CASE r.mine
        <4>1. Settle(r, v, k, {}, {Request("load", None)}) BY <3>1, <3>3
        <4>2. One({Request("load", None)}, "load", None) BY Asking
        <4>3. Goes(r, "load", None, {r.op}, {"status"})
          BY <1>1, <1>2, <2>1, <2>2, PlainFlags DEF Goes, Is, Reads, Queries, Clears
        <4> HIDE DEF v
        <4> QED BY <1>3, <3>2, <4>1, <4>2, <4>3, Continuing
      <3>4. CASE ~r.mine
        <4>1. Settle(r, v, k, {}, {}) BY <3>1, <3>4
        <4> HIDE DEF v
        <4> QED BY <1>3, <3>4, <4>1, Unseen
      <3> QED BY <3>3, <3>4
    <2> QED BY <2>3, <2>4
  <1>9. ASSUME NEW r \in net, PasswordChanged(r) \/ KeySaved(r) PROVE Core' /\ page' = page
    <2> DEFINE v == IF r.op = "password" \/ r.ans = Failed THEN Idle(view, r.op)
                    ELSE [Idle(view, r.op) EXCEPT !.configured = r.ans.key]
    <2>1. Settle(r, v, kept, {}, {}) BY <1>9 DEF PasswordChanged, KeySaved, Handle
    <2>2. Shows(v, {r.op}, {}) BY <1>3 DEF Core, Idle, Shows
    <2>3. r.op \in PlainNames BY <1>9 DEF PasswordChanged, KeySaved, PlainNames
    <2> HIDE DEF v
    <2> QED BY <1>1, <1>3, <2>1, <2>2, <2>3, PlainEnding
  <1>10. ASSUME NEW r \in net, KeyStatusLoaded(r) PROVE Core' /\ page' = page
    <2> DEFINE v == IF r.ans = Failed THEN Idle(view, "status")
                    ELSE [Idle(view, "status") EXCEPT !.configured = r.ans.key]
    <2>1. Settle(r, v, kept, {}, {}) BY <1>10 DEF KeyStatusLoaded, Handle
    <2>2. Shows(v, {"status"}, {}) BY <1>3 DEF Core, Idle, Shows
    <2>3. Over(r, {"status"})
      BY <1>1, <1>2, <1>10, PlainFlags DEF KeyStatusLoaded, Reads, Over, Frees, Clears
    <2> HIDE DEF v
    <2> QED BY <1>3, <2>1, <2>2, <2>3, Ending
  <1>11. ASSUME NEW r \in net, ProfileServer(r) PROVE Core' /\ page' = page
    BY <1>3, <1>11, ServerKeeps, FailKeeps DEF ProfileServer
  <1> QED BY <1>4, <1>5, <1>6, <1>7, <1>8, <1>9, <1>10, <1>11 DEF ProfileNext

(* What is sent next is the next document.                                 *)
LEMMA NumberedKeeps ==
    ASSUME PagesInv, page = "notifications", page' = page,
           OpenNotifications \/ NotificationsNext
    PROVE  Numbered'
  <1>1. Core /\ Numbered BY DEF PagesInv
  <1>2. SUFFICES ASSUME NEW asked, Inherits(asked),
                        \A q \in asked : \/ q.op \in {"load"} \cup Tests
                                         \/ (q.op = "channels" /\ q.arg.next = 2)
                                         \/ (q.op = "events" /\ q.arg.next = 3)
                                         \/ (q.op = "master" /\ q.arg.next = 4)
                 PROVE  Numbered'
    <2>a. \A op, arg : One({Request(op, arg)}, op, arg) BY Asking
    <2>b. \A d, op, arg : One(Sent(d, {Request(op, arg)}), op, arg) BY Asking
    <2>1. CASE OpenNotifications
      <3> DEFINE new == Sent(Server, {Request("load", None)})
      <3>1. Inherits(new) BY <2>1, OpenInherits DEF OpenNotifications
      <3>2. One(new, "load", None) BY <2>b
      <3> QED BY <1>2, <3>1, <3>2 DEF One, Is
    <2>2. CASE EditMaster \/ \E x \in Vals : EditChannels(x)
      <3>1. PICK v : Act(v, {}) BY <2>2, Zenon DEF EditMaster, EditChannels
      <3>2. Inherits({}) BY <3>1, ActInherits
      <3> QED BY <1>2, <3>2
    <2>3. CASE SaveNotifications \/ \E channel \in Tests : TestChannel(channel)
      <3>1. PICK v, op, arg : /\ Act(v, {Request(op, arg)})
                              /\ op \in Tests \/ (op = "channels" /\ arg.next = 2)
        <4> DEFINE arg == [form |-> view.draft, next |-> 2]
        <4>1. Documents[1] = "channels" BY DEF Documents
        <4>2. SaveDocument(1, view.draft) = Request("channels", arg) BY <4>1 DEF SaveDocument
        <4>3. CASE SaveNotifications
          <5>1. Act(Busy(view, "save"), {Request("channels", arg)})
            BY <4>2, <4>3 DEF SaveNotifications
          <5>2. arg.next = 2 OBVIOUS
          <5> HIDE DEF arg
          <5> QED BY <5>1, <5>2
        <4>4. CASE \E channel \in Tests : TestChannel(channel) BY <4>4, Zenon DEF TestChannel
        <4> QED BY <2>3, <4>3, <4>4
      <3> DEFINE new == {Request(op, arg)}
      <3>2. Inherits(new) BY <3>1, ActInherits
      <3>3. One(new, op, arg) BY <2>a
      <3> HIDE DEF new
      <3> QED BY <1>2, <3>1, <3>2, <3>3 DEF One, Is
    <2>4. ASSUME NEW r \in net, NotificationsLoaded(r) \/ ChannelTested(r) PROVE Numbered'
      <3>1. PICK v, k : Settle(r, v, k, {}, {})
        BY <2>4 DEF NotificationsLoaded, ChannelTested, Handle
      <3>2. Inherits({}) BY <1>1, <3>1, SettleInherits
      <3> QED BY <1>2, <3>2
    <2>5. ASSUME NEW r \in net, DocumentSaved(r) PROVE Numbered'
      <3>1. \/ (r.op = "channels" /\ r.arg.next = 2) \/ (r.op = "events" /\ r.arg.next = 3)
            \/ (r.op = "master" /\ r.arg.next = 4)
        BY <1>1, <2>5 DEF Numbered, DocumentSaved, Tests
      <3>2. CASE \E v, k : Settle(r, v, k, {}, {})
        <4>1. Inherits({}) BY <1>1, <3>2, SettleInherits
        <4> QED BY <1>2, <4>1
      <3>3. CASE \E v, k : /\ r.arg.next <= Len(Documents)
                           /\ Settle(r, v, k, {}, Sent(r.at, {SaveDocument(r.arg.next, r.arg.form)}))
        <4>1. r.arg.next \in {2, 3} BY <3>1, <3>3 DEF Documents
        <4> DEFINE op == Documents[r.arg.next]
                   arg == [form |-> r.arg.form, next |-> r.arg.next + 1]
                   new == Sent(r.at, {Request(op, arg)})
        <4>2. PICK v, k : Settle(r, v, k, {}, new) BY <3>3 DEF SaveDocument
        <4>3. (op = "events" /\ arg.next = 3) \/ (op = "master" /\ arg.next = 4)
          BY <4>1 DEF Documents
        <4> HIDE DEF op, arg
        <4>4. One(new, op, arg) BY <2>b
        <4> HIDE DEF new
        <4>5. \A q \in new : IsRequest(q) BY <4>4 DEF One, Is
        <4>6. Inherits(new) BY <1>1, <4>2, <4>5, SettleInherits
        <4> QED BY <1>2, <4>3, <4>4, <4>6 DEF One, Is
      <3> QED BY <2>5, <3>2, <3>3 DEF DocumentSaved, Handle
    <2>6. ASSUME NEW r \in net, NotificationsServer(r) PROVE Numbered'
      <3>1. PICK s, a : ServerAnswers(r, s, a) \/ ServerFails(r, s)
        BY <2>6 DEF NotificationsServer
      <3>2. Inherits({}) BY <1>1, <3>1, ServerInherits
      <3> QED BY <1>2, <3>2
    <2> QED BY <2>1, <2>2, <2>3, <2>4, <2>5, <2>6 DEF NotificationsNext
  <1> QED BY <1>1, <1>2 DEF Numbered, Inherits, Same

(* The notifications of the server: one save, three documents              *)
(* (NotificationsPage).                                                    *)
LEMMA NotificationsKeep ==
    ASSUME PagesInv, page = "notifications", OpenNotifications \/ NotificationsNext
    PROVE  PagesInv'
  <1>1. \A r : /\ Raised(page, r) = IF r.op \in Queries \cup {"load"} THEN {}
                                    ELSE IF r.op \in Tests THEN {r.op} ELSE {"save"}
               /\ Spins(page, r) = IF r.op = "load" THEN {"load"} ELSE {}
    BY DEF Raised, Spins, ContainersPages, TopologyPages, DatabasePages, TablesPages
  <1>2. /\ {"save"} \cup Tests \subseteq Flags(page) /\ "load" \notin Flags(page)
        /\ \A f : Group(page, f) = {f}
    BY DEF Tests, Flags, Group, ContainersPages, DatabasePages
  <1>3. Core /\ Numbered BY DEF PagesInv
  <1> SUFFICES Core' /\ page' = page BY NumberedKeeps DEF PagesInv, Covered, DatabasePages, ContainersPages
  <1>4. CASE OpenNotifications
    <2>1. One(Sent(Server, {Request("load", None)}), "load", None) BY Asking
    <2>2. "busy" \in DOMAIN NotificationsHooks /\ NotificationsHooks.busy = {"load"}
      BY DEF NotificationsHooks
    <2>3. Reader("load", None, NotificationsHooks.busy) BY <1>1, <1>2, <2>2 DEF Reader, Is, Clears
    <2> QED BY <1>3, <1>4, <2>1, <2>2, <2>3, OpeningOne DEF OpenNotifications
  <1>5. CASE EditMaster \/ \E x \in Vals : EditChannels(x)
    <2>1. PICK x : Act([view EXCEPT !.draft = x], {}) BY <1>5, Zenon DEF EditMaster, EditChannels
    <2>2. Shows([view EXCEPT !.draft = x], {}, {}) BY <1>3 DEF Core, Shows
    <2> QED BY <1>3, <2>1, <2>2, Editing
  <1>6. CASE SaveNotifications \/ \E channel \in Tests : TestChannel(channel)
    <2>1. PICK f, op, arg :
             /\ Act(Busy(view, f), {Request(op, arg)}) /\ f \notin view.busy
             /\ <<f, op>> \in {<<"save", "channels">>, <<"email", "email">>, <<"discord", "discord">>}
      BY <1>6 DEF SaveNotifications, TestChannel, Tests, SaveDocument, Documents, NotificationsControls
    <2>2. One({Request(op, arg)}, op, arg) BY Asking
    <2> DEFINE v == Busy(view, f)
    <2>3. Shows(v, {}, {f}) BY <1>3, Flagging
    <2>4. Starts(op, arg, f, {f}) BY <1>1, <1>2, <2>1 DEF Starts, Is, Queries, Clears, Tests
    <2>5. Act(v, {Request(op, arg)}) BY <2>1
    <2> HIDE DEF v
    <2> QED BY <1>3, <2>2, <2>3, <2>4, <2>5, Pressing
  <1>7. ASSUME NEW r \in net, NotificationsLoaded(r) PROVE Core' /\ page' = page
    <2> DEFINE v == IF r.ans = Failed THEN Idle(view, "load")
                    ELSE [Idle(view, "load") EXCEPT !.draft = r.ans, !.stored = r.ans]
    <2>1. Settle(r, v, kept, {}, {}) BY <1>7 DEF NotificationsLoaded, Handle
    <2>2. Shows(v, {"load"}, {}) BY <1>3 DEF Core, Idle, Shows
    <2>3. Over(r, {"load"}) BY <1>1, <1>2, <1>7 DEF NotificationsLoaded, Over, Frees, Clears
    <2> HIDE DEF v
    <2> QED BY <1>3, <2>1, <2>2, <2>3, Ending
  <1>8. ASSUME NEW r \in net, DocumentSaved(r) PROVE Core' /\ page' = page
    <2>0. r.op \in {"channels", "events", "master"} /\ Raised(page, r) = {"save"}
                                                    /\ Clears(page, r) = {"save"}
      BY <1>1, <1>8 DEF DocumentSaved, Queries, Clears, Tests
    <2>1. CASE r.ans = Failed \/ r.arg.next > Len(Documents)
      <3>0. r.ans # Failed => ~(r.arg.next <= Len(Documents))
        BY <1>3, <2>0, <2>1 DEF Numbered, Documents, Tests
      <3>1. PICK x, y : \/ Settle(r, Idle(view, "save"), kept, {}, {})
                        \/ Settle(r, [Idle(view, "save") EXCEPT !.draft = x, !.stored = y], kept, {}, {})
        BY <1>8, <3>0 DEF DocumentSaved, Handle
      <3>2. /\ Shows(Idle(view, "save"), {"save"}, {})
            /\ Shows([Idle(view, "save") EXCEPT !.draft = x, !.stored = y], {"save"}, {})
        BY <1>3 DEF Core, Idle, Shows
      <3>3. Over(r, {"save"}) BY <1>2, <2>0 DEF Over, Frees
      <3> QED BY <1>3, <3>1, <3>2, <3>3, Ending
    <2>2. CASE ~(r.ans = Failed \/ r.arg.next > Len(Documents))
      <3> DEFINE op == Documents[r.arg.next]
                 arg == [form |-> r.arg.form, next |-> r.arg.next + 1]
                 new == Sent(r.at, {Request(op, arg)})
      <3>1. r.arg.next \in {2, 3} BY <1>3, <2>0, <2>2 DEF Numbered, Documents, Tests
      <3>2. Settle(r, view, kept, {}, new)
        BY <1>8, <2>2, <3>1 DEF DocumentSaved, SaveDocument, Handle
      <3>3. op \in {"events", "master"} BY <3>1 DEF Documents
      <3> HIDE DEF op, arg
      <3>4. One(new, op, arg) BY Asking
      <3>5. Shows(view, {}, {}) BY <1>3, Flagging
      <3>6. Goes(r, op, arg, {}, {}) BY <1>1, <2>0, <3>3 DEF Goes, Is, Queries, Frees, Clears, Tests
      <3> HIDE DEF new
      <3> QED BY <1>3, <3>2, <3>4, <3>5, <3>6, Continuing
    <2> QED BY <2>1, <2>2
  <1>9. ASSUME NEW r \in net, ChannelTested(r) PROVE Core' /\ page' = page
    <2>1. Settle(r, Idle(view, r.op), kept, {}, {}) BY <1>9 DEF ChannelTested, Handle
    <2>2. Shows(Idle(view, r.op), {r.op}, {}) BY <1>3, Flagging
    <2>3. Over(r, {r.op}) BY <1>1, <1>2, <1>9 DEF ChannelTested, Over, Frees, Clears, Queries, Tests
    <2> QED BY <1>3, <2>1, <2>2, <2>3, Ending
  <1>10. ASSUME NEW r \in net, NotificationsServer(r) PROVE Core' /\ page' = page
    BY <1>3, <1>10, ServerKeeps, FailKeeps DEF NotificationsServer
  <1> QED BY <1>4, <1>5, <1>6, <1>7, <1>8, <1>9, <1>10 DEF NotificationsNext

(* The connections of a database (ConnectionsPage).                        *)
LEMMA ConnectionsKeep ==
    ASSUME PagesInv, page = "connections", OpenConnections \/ ConnectionsNext
    PROVE  PagesInv'
  <1>1. \A r : /\ Raised(page, r) = IF r.op \in Queries \cup {"list", "database"} THEN {} ELSE {r.arg}
               /\ Spins(page, r) = IF r.op = "list" THEN {"load"} ELSE {}
    BY DEF Raised, Spins
  <1>2. Flags(page) = Items /\ "load" \notin Items /\ \A f \in Items : Group(page, f) = Items
    BY PagesAssumption DEF Flags, Group, FlagNames
  <1>3. Core BY DEF PagesInv
  <1> SUFFICES Core' /\ page' = page BY NothingCovered DEF DatabasePages, ContainersPages
  <1>a. \A d : Two(Sent(d, ConnectionsRequests), "database", None, "list", None)
    BY AskingTwice DEF ConnectionsRequests
  <1>b. /\ Reader("database", None, {}) /\ Reader("list", None, {"load"})
        /\ Reader("list", None, {})
    BY <1>1, <1>2 DEF Reader, Is, Clears
  <1>4. CASE OpenConnections
    <2>1. PICK d \in Dbs : OpenAt(d, ConnectionsHooks, ConnectionsRequests)
      BY <1>4 DEF OpenConnections
    <2>2. "busy" \in DOMAIN ConnectionsHooks /\ ConnectionsHooks.busy \subseteq {} \cup {"load"}
      BY DEF ConnectionsHooks
    <2> QED BY <1>3, <1>a, <1>b, <2>1, <2>2, OpeningTwo
  <1>5. CASE SwitchConnections
    <2>1. PICK d \in Dbs : SwitchTo(d, view, ConnectionsRequests) BY <1>5 DEF SwitchConnections
    <2>2. Shows(view, {}, {} \cup {}) BY <1>3, Flagging DEF Shows
    <2> QED BY <1>3, <1>a, <1>b, <2>1, <2>2, SwitchingTwo
  <1>6. CASE PollConnections
    <2>1. Act(view, {Request("list", None)}) BY <1>6 DEF PollConnections
    <2>2. One({Request("list", None)}, "list", None) BY Asking
    <2>3. Shows(view, {}, {}) BY <1>3, Flagging
    <2> QED BY <1>3, <1>b, <2>1, <2>2, <2>3, Querying
  <1>7. ASSUME NEW p \in Items, AskTermination(p) \/ CloseTermination(p)
        PROVE  Core' /\ page' = page
    <2>1. PICK x : Act([view EXCEPT !.confirm = x], {})
      BY <1>7 DEF AskTermination, CloseTermination
    <2>2. Shows([view EXCEPT !.confirm = x], {}, {}) BY <1>3 DEF Core, Shows
    <2> QED BY <1>3, <2>1, <2>2, Editing
  <1>8. ASSUME NEW p \in Items, Terminate(p) PROVE Core' /\ page' = page
    <2> DEFINE v == [view EXCEPT !.busy = (@ \ Items) \cup {p}]
    <2>1. Act(v, {Request("terminate", p)}) /\ view.busy \cap Items = {}
      BY <1>8 DEF Terminate, ConnectionsControls
    <2>2. One({Request("terminate", p)}, "terminate", p) BY Asking
    <2>3. Shows(v, {}, {p}) BY <1>3, <2>1 DEF Core, Shows
    <2>4. Starts("terminate", p, p, {p}) BY <1>1, <1>2, <2>1 DEF Starts, Is, Clears, Queries
    <2> HIDE DEF v
    <2> QED BY <1>3, <2>1, <2>2, <2>3, <2>4, Pressing
  <1>9. ASSUME NEW r \in net, Terminated(r) PROVE Core' /\ page' = page
    <2> DEFINE v == [view EXCEPT !.busy = @ \ Items, !.confirm = None]
    <2>1. Raised(page, r) = {r.arg} /\ Clears(page, r) = {r.arg} /\ r.arg \in Items
      <3>1. Raised(page, r) \subseteq Flags(page) BY <1>3 DEF Core, Sound
      <3> QED BY <1>1, <1>2, <1>9, <3>1 DEF Terminated, Clears, Queries
    <2>2. Shows(v, Items, {}) BY <1>3 DEF Core, Shows
    <2>3. Frees(r, Items) BY <1>2, <2>1 DEF Frees
    <2>4. CASE r.ans = Failed
      <3>1. Settle(r, v, kept, {}, {}) BY <1>9, <2>4 DEF Terminated, Handle
      <3>2. Over(r, Items) BY <2>1, <2>3 DEF Over
      <3> HIDE DEF v
      <3> QED BY <1>3, <2>2, <3>1, <3>2, Ending
    <2>5. CASE r.ans # Failed
      <3> DEFINE new == Sent(r.at, {Request("list", None)})
      <3>1. Settle(r, v, kept, {}, new) BY <1>9, <2>5 DEF Terminated, Handle
      <3>2. One(new, "list", None) BY Asking
      <3>3. Goes(r, "list", None, Items, {})
        BY <1>1, <2>1, <2>3 DEF Goes, Is, Queries
      <3> HIDE DEF v, new
      <3> QED BY <1>3, <2>2, <3>1, <3>2, <3>3, Continuing
    <2> QED BY <2>4, <2>5
  <1>10. ASSUME NEW r \in net, ConnectionsListed(r) PROVE Core' /\ page' = page
    <2> DEFINE v == IF r.ans = Failed THEN Idle(view, "load")
                    ELSE [Idle(view, "load") EXCEPT !.list = r.ans]
    <2>1. Settle(r, v, kept, {}, {}) BY <1>10 DEF ConnectionsListed, Handle
    <2>2. Shows(v, {"load"}, {}) BY <1>3 DEF Core, Idle, Shows
    <2>3. Over(r, {"load"}) BY <1>1, <1>2, <1>10 DEF ConnectionsListed, Over, Frees, Clears
    <2> HIDE DEF v
    <2> QED BY <1>3, <2>1, <2>2, <2>3, Ending
  <1>11. ASSUME NEW r \in net, DatabaseNamed(r) PROVE Core' /\ page' = page
    <2> DEFINE v == IF r.ans = Failed THEN [view EXCEPT !.error = TRUE]
                    ELSE [view EXCEPT !.database = TRUE]
    <2>1. Settle(r, v, kept, {}, {}) BY <1>11 DEF DatabaseNamed, Handle
    <2>2. Shows(v, {}, {}) BY <1>3 DEF Core, Shows
    <2>3. Over(r, {}) BY <1>1, <1>11 DEF DatabaseNamed, Over, Frees, Clears
    <2> HIDE DEF v
    <2> QED BY <1>3, <2>1, <2>2, <2>3, Ending
  <1>12. ASSUME NEW r \in net, ConnectionsServer(r) PROVE Core' /\ page' = page
    BY <1>3, <1>12, ServerKeeps, FailKeeps DEF ConnectionsServer
  <1>13. CASE SessionsChange BY <1>13, IdleKeeps DEF SessionsChange, PagesInv
  <1> QED BY <1>4, <1>5, <1>6, <1>7, <1>8, <1>9, <1>10, <1>11, <1>12, <1>13
          DEF ConnectionsNext

(* The branches of a database: a hook that names which action runs         *)
(* (BranchesPage).                                                         *)
LEMMA BranchesKeep ==
    ASSUME PagesInv, page = "branches", OpenBranches \/ BranchesNext
    PROVE  PagesInv'
  <1>1. \A r : /\ Raised(page, r) = IF r.op \in Queries THEN {}
                                    ELSE IF r.op = "list" THEN {r.arg.then} \ {None} ELSE {r.op}
               /\ Spins(page, r) = IF r.op = "list" THEN {"load"} ELSE {}
    BY DEF Raised, Spins
  <1>2. /\ Flags(page) = BranchActions \cup {"create"}
        /\ \A f : Group(page, f) = IF f \in BranchActions THEN BranchActions ELSE {f}
        /\ None \notin Flags(page) /\ "load" \notin Flags(page) /\ None \notin Branches
    BY PagesAssumption DEF Flags, Group, FlagNames, BranchActions, DatabasePages, ContainersPages
  <1>3. /\ Core
        /\ at # None =>
              /\ "dialog" \in DOMAIN view
              /\ view.dialog \in Branches \ {"create"} =>
                    view.busy \cap BranchActions \subseteq {"delete"}
    BY DEF PagesInv, Covered
  <1>4. SUFFICES /\ Core' /\ page' = page
                 /\ at' # None =>
                       /\ "dialog" \in DOMAIN view'
                       /\ view'.dialog \in Branches \ {"create"} =>
                             view'.busy \cap BranchActions \subseteq {"delete"}
    BY DEF PagesInv, Covered, Numbered, DatabasePages, ContainersPages
  <1>a. \A then : FetchBranches(then) = {Request("list", [branch |-> None, then |-> then])}
    BY DEF FetchBranches
  <1>b. \A d, then : One(Sent(d, FetchBranches(then)), "list", [branch |-> None, then |-> then])
    BY <1>a, Asking
  <1>c. Reader("list", [branch |-> None, then |-> None], {"load"})
    BY <1>1, <1>2 DEF Reader, Is, Queries, Clears
  <1>5. CASE OpenBranches
    <2>1. PICK d \in Dbs : OpenAt(d, BranchesHooks, FetchBranches(None)) BY <1>5 DEF OpenBranches
    <2>2. /\ "busy" \in DOMAIN BranchesHooks /\ BranchesHooks.busy = {"load"}
          /\ "dialog" \in DOMAIN BranchesHooks /\ BranchesHooks.dialog = None
      BY DEF BranchesHooks
    <2>3. Reader("list", [branch |-> None, then |-> None], BranchesHooks.busy) BY <1>c, <2>2
    <2>4. Core' /\ page' = page /\ view' = BranchesHooks
      BY <1>3, <1>b, <2>1, <2>2, <2>3, OpeningOne
    <2> QED BY <1>2, <2>2, <2>4
  <1>6. CASE SwitchBranches
    <2> DEFINE v == Fetching(view)
    <2>1. PICK d \in Dbs : SwitchTo(d, v, FetchBranches(None)) BY <1>6 DEF SwitchBranches
    <2>2. Shows(v, {}, {"load"}) /\ at # None
      BY <1>3, <2>1, PageAssumption DEF Core, Shows, Fetching, Busy, SwitchTo
    <2>3. "dialog" \in DOMAIN v /\ v.dialog = view.dialog BY <1>3, <2>2 DEF Fetching, Busy
    <2> HIDE DEF v
    <2>4. Core' /\ page' = page /\ view' = v BY <1>3, <1>b, <1>c, <2>1, <2>2, SwitchingOne
    <2> QED BY <1>2, <1>3, <2>2, <2>3, <2>4 DEF Shows
  <1>7. CASE OpenBranchDialog \/ CloseBranchDialog
    <2>1. PICK x : /\ Act([view EXCEPT !.dialog = x], {})
                   /\ x \in Branches \ {"create"} => view.busy \cap BranchActions = {}
      BY <1>2, <1>7 DEF OpenBranchDialog, CloseBranchDialog, BranchesControls
    <2> DEFINE v == [view EXCEPT !.dialog = x]
    <2>2. at # None BY <2>1 DEF Act
    <2>3. Shows(v, {}, {}) /\ "dialog" \in DOMAIN v /\ v.dialog = x /\ v.busy = view.busy
      BY <1>3, <2>2 DEF Core, Shows
    <2>4. Act(v, {}) BY <2>1
    <2> HIDE DEF v
    <2>5. Core' /\ page' = page /\ view' = v BY <1>3, <2>3, <2>4, Editing
    <2> QED BY <2>1, <2>3, <2>5
  <1>8. ASSUME NEW b \in Branches, NEW what \in BranchActions \cup {"create"},
               <<what, b>> \in BranchesControls, NEW arg,
               Act(Busy(view, what), {Request(what, arg)})
        PROVE  /\ Core' /\ page' = page
               /\ "dialog" \in DOMAIN view'
               /\ view'.dialog \in Branches \ {"create"} =>
                     view'.busy \cap BranchActions \subseteq {"delete"}
    <2> DEFINE v == Busy(view, what)
    <2>1. at # None BY <1>8 DEF Act
    <2>2. /\ "dialog" \in DOMAIN v /\ v.dialog = view.dialog /\ v.busy = view.busy \cup {what}
      BY <1>3, <2>1 DEF Core, Busy
    <2>3. /\ view.busy \cap Group(page, what) = {}
          /\ view.dialog \in Branches \ {"create"} => what = "delete"
      <3>1. view.dialog \in Branches \ {"create"} => view.busy \cap BranchActions \subseteq {"delete"}
        BY <1>3, <2>1
      <3>2. CASE view.dialog = "create"
        <4>1. what = "create" /\ "create" \notin view.busy
          BY <1>8, <3>2 DEF BranchesControls, BranchActions
        <4> QED BY <1>2, <3>2, <4>1 DEF BranchActions
      <3>3. CASE view.dialog # "create" /\ view.dialog \in Branches
        <4>1. what = "delete" /\ "delete" \notin view.busy
          BY <1>8, <3>3 DEF BranchesControls, BranchActions
        <4> QED BY <1>2, <3>1, <3>3, <4>1 DEF BranchActions
      <3>4. CASE view.dialog # "create" /\ view.dialog \notin Branches
        <4>1. what \in BranchActions /\ view.busy \cap BranchActions = {}
          BY <1>8, <3>4 DEF BranchesControls, BranchActions
        <4> QED BY <1>2, <3>4, <4>1
      <3> QED BY <3>2, <3>3, <3>4
    <2>4. Act(v, {Request(what, arg)}) BY <1>8
    <2>5. One({Request(what, arg)}, what, arg) BY Asking
    <2>6. Shows(v, {}, {what}) BY <1>3, Flagging
    <2>7. Starts(what, arg, what, {what})
      BY <1>1, <1>2, <2>3 DEF Starts, Is, Clears, BranchActions, Queries
    <2> HIDE DEF v
    <2>8. Core' /\ page' = page /\ view' = v BY <1>3, <2>4, <2>5, <2>6, <2>7, Pressing
    <2> QED BY <1>2, <1>3, <2>1, <2>2, <2>3, <2>8 DEF BranchActions
  (* How a handler ends, and what that leaves of the page.                 *)
  <1> DEFINE Of(flag) == IF flag \in BranchActions THEN BranchActions ELSE {flag}
  <1>9. ASSUME NEW r \in net, NEW v, NEW G, Shows(v, G, {}),
               "dialog" \in DOMAIN view => "dialog" \in DOMAIN v /\ v.dialog \in {None, view.dialog},
               Core', page' = page, at' = at, view' = IF r.mine THEN v ELSE view
        PROVE  /\ Core' /\ page' = page
               /\ at' # None =>
                     /\ "dialog" \in DOMAIN view'
                     /\ view'.dialog \in Branches \ {"create"} =>
                           view'.busy \cap BranchActions \subseteq {"delete"}
    <2>1. at' # None => /\ "dialog" \in DOMAIN view'
                        /\ view'.dialog \in {None, view.dialog} /\ view'.busy \subseteq view.busy
      BY <1>3, <1>9 DEF Shows
    <2> QED BY <1>2, <1>3, <1>9, <2>1
  <1>10. ASSUME NEW r \in net, BranchOperationDone(r)
         PROVE  /\ Core' /\ page' = page
                /\ at' # None =>
                      /\ "dialog" \in DOMAIN view'
                      /\ view'.dialog \in Branches \ {"create"} =>
                            view'.busy \cap BranchActions \subseteq {"delete"}
    <2>1. r.op \in BranchActions \cup {"create"} /\ Raised(page, r) = {r.op} /\ Clears(page, r) = {r.op}
      BY <1>1, <1>10 DEF BranchOperationDone, Queries, Clears, BranchActions
    <2>2. CASE r.ans = Failed
      <3> DEFINE v == BranchHandlerEnds(view, r.op)
      <3>1. Settle(r, v, kept, {}, {}) BY <1>10, <2>2 DEF BranchOperationDone, Handle
      <3>2. Shows(v, Of(r.op), {}) BY <1>3 DEF Core, Shows, BranchHandlerEnds
      <3>3. Over(r, Of(r.op)) BY <1>2, <2>1 DEF Over, Frees
      <3>4. "dialog" \in DOMAIN view => "dialog" \in DOMAIN v /\ v.dialog \in {None, view.dialog}
        BY DEF BranchHandlerEnds
      <3> HIDE DEF v, Of
      <3>5. Core' /\ page' = page /\ at' = at /\ view' = IF r.mine THEN v ELSE view
        BY <1>3, <3>1, <3>2, <3>3, Ending
      <3> QED BY <1>9, <3>2, <3>4, <3>5
    <2>3. CASE r.ans # Failed
      <3> DEFINE v == [Fetching(view) EXCEPT !.dialog =
                          IF r.op = "create" /\ @ = "create" THEN None ELSE @]
                 arg == [branch |-> None, then |-> r.op]
                 new == Sent(r.at, FetchBranches(r.op))
      <3>1. Settle(r, v, kept, {}, new) BY <1>10, <2>3 DEF BranchOperationDone, Handle
      <3>2. Shows(v, {}, {"load"}) BY <1>3 DEF Core, Shows, Fetching, Busy
      <3>3. One(new, "list", arg) BY <1>b
      <3>5. "dialog" \in DOMAIN view => "dialog" \in DOMAIN v /\ v.dialog \in {None, view.dialog}
        BY DEF Fetching, Busy
      <3>a. arg.then = r.op /\ r.op # None BY <1>2, <2>1
      <3> HIDE DEF v, arg, new
      <3>b. ASSUME NEW q, Is(q, "list", arg)
            PROVE  Raised(page, q) = {r.op} /\ Clears(page, q) = {r.op, "load"}
        BY <1>1, <3>a, <3>b DEF Is, Clears, Queries
      <3>4. Goes(r, "list", arg, {}, {"load"})
        BY <1>2, <2>1, <3>b DEF Goes, Frees, Queries
      <3>6. Core' /\ page' = page /\ at' = at /\ view' = IF r.mine THEN v ELSE view
        BY <1>3, <3>1, <3>2, <3>3, <3>4, Continuing
      <3>7. at' # None => /\ "dialog" \in DOMAIN view' /\ view'.dialog \in {None, view.dialog}
                          /\ view'.busy \subseteq view.busy \cup {"load"}
        BY <1>3, <3>2, <3>5, <3>6 DEF Shows
      <3> QED BY <1>2, <1>3, <3>6, <3>7
    <2> QED BY <2>2, <2>3
  <1>11. ASSUME NEW r \in net, BranchesListed(r)
         PROVE  /\ Core' /\ page' = page
                /\ at' # None =>
                      /\ "dialog" \in DOMAIN view'
                      /\ view'.dialog \in Branches \ {"create"} =>
                            view'.busy \cap BranchActions \subseteq {"delete"}
    <2>1. /\ r.op = "list" /\ Raised(page, r) = {r.arg.then} \ {None}
          /\ Clears(page, r) = ({r.arg.then} \ {None}) \cup {"load"}
          /\ r.arg.then \in BranchActions \cup {"create", None}
      <3>1. Raised(page, r) \subseteq Flags(page) BY <1>3 DEF Core, Sound
      <3> QED BY <1>1, <1>2, <1>11, <3>1 DEF BranchesListed, Queries, Clears
    <2>2. PICK l, e :
             LET w == [Idle(view, "load") EXCEPT !.list = l, !.error = e] IN
             Settle(r, IF r.arg.then = None THEN w ELSE BranchHandlerEnds(w, r.arg.then), kept, {}, {})
      BY <1>11, Zenon DEF BranchesListed, Handle
    <2> DEFINE w == [Idle(view, "load") EXCEPT !.list = l, !.error = e]
               v == IF r.arg.then = None THEN w ELSE BranchHandlerEnds(w, r.arg.then)
               G == {"load"} \cup (IF r.arg.then = None THEN {} ELSE Of(r.arg.then))
    <2>3. Settle(r, v, kept, {}, {}) BY <2>2
    <2>4. /\ "busy" \in DOMAIN w /\ w.busy = view.busy \ {"load"}
          /\ "dialog" \in DOMAIN view => "dialog" \in DOMAIN w /\ w.dialog = view.dialog
      BY <1>3 DEF Core, Idle
    <2> HIDE DEF w
    <2>5. /\ Shows(v, G, {})
          /\ "dialog" \in DOMAIN view => "dialog" \in DOMAIN v /\ v.dialog \in {None, view.dialog}
      BY <2>4 DEF Shows, BranchHandlerEnds
    <2>6. Over(r, G) BY <1>2, <2>1 DEF Over, Frees
    <2> HIDE DEF v, G, Of
    <2>7. Core' /\ page' = page /\ at' = at /\ view' = IF r.mine THEN v ELSE view
      BY <1>3, <2>3, <2>5, <2>6, Ending
    <2> QED BY <1>9, <2>5, <2>7
  <1>12. ASSUME NEW r \in net, BranchesServer(r) PROVE Core' /\ UNCHANGED <<page, at, view>>
    BY <1>3, <1>12, ServerKeeps, FailKeeps DEF BranchesServer
  <1>13. ASSUME NEW b \in Branches, CreateBranch(b) \/ \E a \in BranchActions : BranchAction(b, a)
         PROVE  /\ Core' /\ page' = page
                /\ "dialog" \in DOMAIN view'
                /\ view'.dialog \in Branches \ {"create"} =>
                      view'.busy \cap BranchActions \subseteq {"delete"}
    BY <1>8, <1>13 DEF CreateBranch, BranchAction
  <1> QED BY <1>3, <1>5, <1>6, <1>7, <1>10, <1>11, <1>12, <1>13 DEF BranchesNext

(* The domain and its certificate (WebServerPage).                         *)
LEMMA WebServerKeeps ==
    ASSUME PagesInv, page = "webserver", OpenWebServer \/ WebServerNext
    PROVE  PagesInv'
  <1>1. \A r : /\ Raised(page, r) = IF r.op \in Queries THEN {}
                                    ELSE IF r.op = "load" THEN {r.arg} \ {None} ELSE {"action"}
               /\ Spins(page, r) = IF r.op = "load" THEN {"load"} ELSE {}
    BY DEF Raised, Spins, ContainersPages, TopologyPages, DatabasePages, TablesPages
  <1>2. /\ "action" \in Flags(page) /\ {"load", None} \cap Flags(page) = {} /\ None # "action"
        /\ \A f : Group(page, f) = {f}
    <2>1. None \notin FlagNames BY PagesAssumption
    <2>2. "action" \in Flags(page) /\ {"load", None} \cap Flags(page) = {} /\ None # "action"
      BY <2>1 DEF Flags, FlagNames, ContainersPages, DatabasePages
    <2>3. \A f : Group(page, f) = {f} BY DEF Group, DatabasePages
    <2> QED BY <2>2, <2>3
  <1>3. Core BY DEF PagesInv
  <1> SUFFICES Core' /\ page' = page BY NothingCovered DEF DatabasePages, ContainersPages
  <1>a. \A d, then : One(Sent(d, FetchStatus(then)), "load", then) BY Asking DEF FetchStatus
  <1>4. CASE OpenWebServer
    <2>1. "busy" \in DOMAIN WebServerHooks /\ WebServerHooks.busy = {"load"} BY DEF WebServerHooks
    <2>2. Reader("load", None, WebServerHooks.busy)
      BY <1>1, <1>2, <2>1 DEF Reader, Is, Queries, Clears
    <2> QED BY <1>3, <1>4, <1>a, <2>1, <2>2, OpeningOne DEF OpenWebServer
  <1>5. ASSUME NEW x, EditDomain(x) PROVE Core' /\ page' = page
    <2>1. Act([view EXCEPT !.draft = x], {}) BY <1>5 DEF EditDomain
    <2>2. Shows([view EXCEPT !.draft = x], {}, {}) BY <1>3 DEF Core, Shows
    <2> QED BY <1>3, <2>1, <2>2, Editing
  <1>6. CASE SaveDomain \/ CheckDNS \/ ProvisionSSL
    <2>a. {"save domain", "check", "provision"} \cap WebServerControls # {} => "action" \notin view.busy
      BY DEF WebServerControls
    <2>b. "action" \notin view.busy BY <1>6, <2>a DEF SaveDomain, CheckDNS, ProvisionSSL
    <2>c. PICK op \in {"save domain", "check", "provision"} : \E arg :
             Act(Busy(view, "action"), {Request(op, arg)})
      BY <1>6, Zenon DEF SaveDomain, CheckDNS, ProvisionSSL
    <2>1. PICK arg : Act(Busy(view, "action"), {Request(op, arg)}) BY <2>c
    <2>2. One({Request(op, arg)}, op, arg) BY Asking
    <2>3. Shows(Busy(view, "action"), {}, {"action"}) BY <1>3, Flagging
    <2>4. Starts(op, arg, "action", {"action"})
      BY <1>1, <1>2, <2>b DEF Starts, Is, Queries, Clears
    <2> QED BY <1>3, <2>1, <2>2, <2>3, <2>4, Pressing
  <1>7. ASSUME NEW r \in net, StatusFetched(r) PROVE Core' /\ page' = page
    <2> DEFINE w == [view EXCEPT !.busy = @ \ {"load", r.arg}]
    <2>1. PICK x, y : \/ Settle(r, [w EXCEPT !.status = x, !.draft = y], kept, {}, {})
                      \/ Settle(r, w, kept, {}, {})
                      \/ Settle(r, [w EXCEPT !.status = x], kept, {}, {})
      BY <1>7 DEF StatusFetched, Handle
    <2>2. /\ Shows([w EXCEPT !.status = x, !.draft = y], {"load", r.arg}, {})
          /\ Shows([w EXCEPT !.status = x], {"load", r.arg}, {})
          /\ Shows(w, {"load", r.arg}, {})
      BY <1>3 DEF Core, Shows
    <2>3. Over(r, {"load", r.arg})
      BY <1>1, <1>2, <1>7 DEF StatusFetched, Over, Frees, Clears, Queries
    <2> HIDE DEF w
    <2> QED BY <1>3, <2>1, <2>2, <2>3, Ending
  <1>8. ASSUME NEW r \in net, DNSChecked(r) PROVE Core' /\ page' = page
    <2>1. PICK x : \/ Settle(r, [Idle(view, "action") EXCEPT !.status = x], kept, {}, {})
                   \/ Settle(r, Idle(view, "action"), kept, {}, {})
      BY <1>8, Zenon DEF DNSChecked, Handle
    <2>2. /\ Shows([Idle(view, "action") EXCEPT !.status = x], {"action"}, {})
          /\ Shows(Idle(view, "action"), {"action"}, {})
      BY <1>3 DEF Core, Shows, Idle
    <2>3. Over(r, {"action"})
      BY <1>1, <1>2, <1>8 DEF DNSChecked, Over, Frees, Clears, Queries
    <2> QED BY <1>3, <2>1, <2>2, <2>3, Ending
  <1>9. ASSUME NEW r \in net, WebServerActionDone(r) PROVE Core' /\ page' = page
    <2>1. Raised(page, r) = {"action"} /\ Clears(page, r) = {"action"}
      BY <1>1, <1>9 DEF WebServerActionDone, Queries, Clears
    <2>2. CASE r.ans = Failed
      <3>1. Settle(r, Idle(view, "action"), kept, {}, {}) BY <1>9, <2>2 DEF WebServerActionDone, Handle
      <3>2. Shows(Idle(view, "action"), {"action"}, {}) BY <1>3, Flagging
      <3>3. Over(r, {"action"}) BY <1>2, <2>1 DEF Over, Frees
      <3> QED BY <1>3, <3>1, <3>2, <3>3, Ending
    <2>3. CASE r.ans # Failed
      <3> DEFINE new == Sent(r.at, FetchStatus("action"))
      <3>1. Settle(r, view, kept, {}, new) BY <1>9, <2>3 DEF WebServerActionDone, Handle
      <3>2. One(new, "load", "action") BY <1>a
      <3>3. Shows(view, {}, {}) BY <1>3, Flagging
      <3>a. ASSUME NEW q, Is(q, "load", "action")
            PROVE  Raised(page, q) = {"action"} /\ Clears(page, q) = {"action", "load"}
        BY <1>1, <1>2, <3>a DEF Is, Clears, Queries
      <3>4. Goes(r, "load", "action", {}, {})
        BY <2>1, <3>a DEF Goes, Frees, Queries
      <3> HIDE DEF new
      <3> QED BY <1>3, <3>1, <3>2, <3>3, <3>4, Continuing
    <2> QED BY <2>2, <2>3
  <1>10. ASSUME NEW r \in net, WebServerServer(r) PROVE Core' /\ page' = page
    BY <1>3, <1>10, ServerKeeps, FailKeeps DEF WebServerServer
  <1> QED BY <1>4, <1>5, <1>6, <1>7, <1>8, <1>9, <1>10 DEF WebServerNext

(* The users and the mail whitelist (UsersPage).                           *)
LEMMA UsersKeep ==
    ASSUME PagesInv, page = "users", OpenUsers \/ UsersNext
    PROVE  PagesInv'
  <1>1. \A r : /\ Raised(page, r) = IF r.op \in Queries THEN {}
                                    ELSE IF r.op = "list" THEN {r.arg.then} \ {None} ELSE {r.arg}
               /\ Spins(page, r) = IF r.op = "list" /\ r.arg.what = "mail" THEN {"whitelist"} ELSE {}
    BY DEF Raised, Spins
  <1>2. /\ Flags(page) = Items \cup {"add", "remove"}
        /\ {"add", "remove"} \cap Items = {}
        /\ {"whitelist", None} \cap Flags(page) = {} /\ None # "whitelist"
        /\ \A f : Group(page, f) = IF f \in Items THEN Items ELSE {f}
    <2>1. (Items \cup {None}) \cap FlagNames = {} /\ None \notin Items BY PagesAssumption
    <2>2. Flags(page) = Items \cup {"add", "remove"} BY DEF Flags
    <2>3. {"add", "remove", "whitelist"} \subseteq FlagNames BY DEF FlagNames
    <2>4. {"add", "remove"} \cap Items = {} BY <2>1, <2>3
    <2>5. {"whitelist", None} \cap Flags(page) = {} /\ None # "whitelist" BY <2>1, <2>2, <2>3
    <2>6. \A f : Group(page, f) = IF f \in Items THEN Items ELSE {f}
      BY DEF Group, DatabasePages
    <2> QED BY <2>2, <2>4, <2>5, <2>6
  <1>3. Core BY DEF PagesInv
  <1> SUFFICES Core' /\ page' = page BY NothingCovered DEF DatabasePages, ContainersPages
  <1> DEFINE Fetch(what, then) == [what |-> what, then |-> then]
             Of(flag) == {flag} \cup (IF flag \in Items THEN Items \ {"mail"} ELSE {})
  <1>a. \A v, flag : "busy" \in DOMAIN v =>
           "busy" \in DOMAIN UsersEnd(v, flag) /\ UsersEnd(v, flag).busy = v.busy \ Of(flag)
    BY <1>2 DEF UsersEnd
  <1>4. CASE OpenUsers
    <2> DEFINE new == FetchWhitelist(None) \cup FetchUsers(None)
    <2>1. new = {Request("list", Fetch("mail", None)), Request("list", Fetch("users", None))}
      BY DEF FetchWhitelist, FetchUsers
    <2>2. Two(Sent(Server, new), "list", Fetch("mail", None), "list", Fetch("users", None))
      BY <2>1, AskingTwice
    <2>3. "busy" \in DOMAIN UsersHooks /\ UsersHooks.busy \subseteq {"whitelist"} \cup {}
      BY DEF UsersHooks
    <2>4. Reader("list", Fetch("mail", None), {"whitelist"}) /\ Reader("list", Fetch("users", None), {})
      BY <1>1, <1>2 DEF Reader, Is, Queries, Clears
    <2>5. OpenAt(Server, UsersHooks, new) BY <1>4 DEF OpenUsers
    <2> HIDE DEF new, Fetch
    <2> QED BY <1>3, <2>2, <2>3, <2>4, <2>5, OpeningTwo
  <1>5. CASE CloseConfirmation \/ \E x \in Items \cup {"mail"} : AskToRemove(x)
    <2>1. PICK x : Act([view EXCEPT !.confirm = x], {}) BY <1>5 DEF CloseConfirmation, AskToRemove
    <2>2. Shows([view EXCEPT !.confirm = x], {}, {}) BY <1>3 DEF Core, Shows
    <2> QED BY <1>3, <2>1, <2>2, Editing
  <1>6. ASSUME NEW f \in Items \cup {"add", "remove"}, NEW op \in {"add", "remove", "kick"},
               Act(Busy(view, f), {Request(op, f)}), view.busy \cap Group(page, f) = {}
        PROVE  Core' /\ page' = page
    <2> DEFINE v == Busy(view, f)
    <2>1. One({Request(op, f)}, op, f) BY Asking
    <2>2. Shows(v, {}, {f}) BY <1>3, Flagging
    <2>3. ASSUME NEW q, Is(q, op, f) PROVE Raised(page, q) = {f} /\ {f} \subseteq Clears(page, q)
      BY <1>1, <2>3 DEF Is, Queries, Clears
    <2>4. Starts(op, f, f, {f}) BY <1>2, <1>6, <2>3 DEF Starts
    <2>5. Act(v, {Request(op, f)}) BY <1>6
    <2> HIDE DEF v
    <2> QED BY <1>3, <2>1, <2>2, <2>4, <2>5, Pressing
  <1>b. CASE AddEmail
    <2>1. Act(Busy(view, "add"), {Request("add", "add")}) BY <1>b DEF AddEmail
    <2>2. "add" \notin view.busy BY <1>b DEF AddEmail, UsersControls
    <2>3. Group(page, "add") = {"add"} BY <1>2
    <2> QED BY <1>6, <2>1, <2>2, <2>3
  <1>c. ASSUME NEW x \in Items \cup {"mail"}, ConfirmRemoval(x) PROVE Core' /\ page' = page
    <2>1. (IF x = "mail" THEN {"remove"} ELSE Items) \cap view.busy = {}
      BY <1>c DEF ConfirmRemoval, UsersControls
    <2>2. CASE x = "mail"
      <3>1. Act(Busy(view, "remove"), {Request("remove", "remove")}) BY <1>c, <2>2 DEF ConfirmRemoval
      <3>2. Group(page, "remove") = {"remove"} BY <1>2
      <3> QED BY <1>6, <2>1, <2>2, <3>1, <3>2
    <2>3. CASE x # "mail"
      <3>1. Act(Busy(view, x), {Request("kick", x)}) BY <1>c, <2>3 DEF ConfirmRemoval
      <3>2. x \in Items /\ Group(page, x) = Items BY <1>2, <2>3
      <3> QED BY <1>6, <2>1, <2>3, <3>1, <3>2
    <2> QED BY <2>2, <2>3
  <1>7. ASSUME NEW r \in net, UsersListed(r) PROVE Core' /\ page' = page
    <2>1. /\ r.op = "list" /\ Raised(page, r) = {r.arg.then} \ {None}
          /\ Clears(page, r) = ({r.arg.then} \ {None})
                               \cup (IF r.arg.what = "mail" THEN {"whitelist"} ELSE {})
      BY <1>1, <1>7 DEF UsersListed, Queries, Clears
    <2> DEFINE w == UsersEnd(view, r.arg.then)
               G == Of(r.arg.then) \cup (IF r.arg.what = "users" THEN {} ELSE {"whitelist"})
    <2>2. PICK x, y : Settle(r, IF r.arg.what = "users" THEN [w EXCEPT !.users = x]
                                ELSE [Idle(w, "whitelist") EXCEPT !.mail = y], kept, {}, {})
      BY <1>7, Zenon DEF UsersListed, Handle
    <2> DEFINE v == IF r.arg.what = "users" THEN [w EXCEPT !.users = x]
                    ELSE [Idle(w, "whitelist") EXCEPT !.mail = y]
    <2>3. "busy" \in DOMAIN w /\ w.busy = view.busy \ Of(r.arg.then) BY <1>3, <1>a DEF Core
    <2> HIDE DEF w
    <2>4. Shows(v, G, {}) BY <2>3 DEF Shows, Idle
    <2>5. Over(r, G) BY <1>2, <2>1 DEF Over, Frees
    <2>6. Settle(r, v, kept, {}, {}) BY <2>2
    <2> HIDE DEF v, G
    <2> QED BY <1>3, <2>4, <2>5, <2>6, Ending
  <1>8. ASSUME NEW r \in net, UsersChanged(r) PROVE Core' /\ page' = page
    <2>1. /\ r.op \in {"add", "remove", "kick"} /\ Raised(page, r) = {r.arg} /\ Clears(page, r) = {r.arg}
          /\ r.arg \in Flags(page)
      <3>1. Raised(page, r) \subseteq Flags(page) BY <1>3 DEF Core, Sound
      <3> QED BY <1>1, <1>8, <3>1 DEF UsersChanged, Queries, Clears
    <2>2. CASE r.ans = Failed
      <3> DEFINE v == UsersEnd(view, r.arg)
                 G == Of(r.arg)
      <3>1. Settle(r, v, kept, {}, {}) BY <1>8, <2>2 DEF UsersChanged, Handle
      <3>2. Shows(v, G, {}) BY <1>3, <1>a DEF Core, Shows
      <3>3. Over(r, G) BY <1>2, <2>1 DEF Over, Frees
      <3> HIDE DEF v, G
      <3> QED BY <1>3, <3>1, <3>2, <3>3, Ending
    <2>3. CASE r.ans # Failed
      <3> DEFINE arg == Fetch(IF r.op = "kick" THEN "users" ELSE "mail", r.arg)
                 new == Sent(r.at, {Request("list", arg)})
      <3>1. Settle(r, view, kept, {}, new)
        BY <1>8, <2>3 DEF UsersChanged, Handle, FetchUsers, FetchWhitelist
      <3>2. One(new, "list", arg) BY Asking
      <3>3. Shows(view, {}, {}) BY <1>3, Flagging
      <3>4. arg.then = r.arg OBVIOUS
      <3> HIDE DEF arg, new
      <3>a. ASSUME NEW q, Is(q, "list", arg)
            PROVE  Raised(page, q) = {r.arg} /\ {r.arg} \subseteq Clears(page, q)
        BY <1>1, <1>2, <2>1, <3>4, <3>a DEF Is, Clears, Queries
      <3>5. Goes(r, "list", arg, {}, {})
        BY <2>1, <3>a DEF Goes, Frees, Queries
      <3> QED BY <1>3, <3>1, <3>2, <3>3, <3>5, Continuing
    <2> QED BY <2>2, <2>3
  <1>9. ASSUME NEW r \in net, UsersServer(r) PROVE Core' /\ page' = page
    <2>1. PICK s, a : ServerAnswers(r, s, a) \/ ServerFails(r, s) BY <1>9, Zenon DEF UsersServer
    <2> QED BY <1>3, <2>1, ServerKeeps, FailKeeps
  <1> QED BY <1>4, <1>5, <1>b, <1>c, <1>7, <1>8, <1>9 DEF UsersNext

(* What a user may see (UserAccessDialog).                                 *)
LEMMA AccessKeeps ==
    ASSUME PagesInv, page = "user access", OpenPanel \/ AccessNext
    PROVE  PagesInv'
  <1>1. \A r : /\ Raised(page, r) = IF r.op \in Queries \cup {"access"} THEN {} ELSE {"save"}
               /\ Spins(page, r) = IF r.op = "access" THEN {"access"} ELSE {}
    BY DEF Raised, Spins, TopologyPages
  <1>2. "save" \in Flags(page) /\ "access" \notin Flags(page) /\ \A f : Group(page, f) = {f}
    BY DEF Flags, Group, ContainersPages, DatabasePages
  <1>3. Core BY DEF PagesInv
  <1> SUFFICES Core' /\ page' = page BY NothingCovered DEF DatabasePages, ContainersPages
  <1>4. CASE OpenPanel
    <2>1. "busy" \in DOMAIN AccessHooks /\ AccessHooks.busy = {} BY DEF AccessHooks
    <2> QED BY <1>3, <1>4, <2>1, OpeningIdle DEF OpenPanel
  <1>5. CASE CloseAccess \/ \E x \in {0, Default} : ToggleAccess(x)
    <2>1. PICK x : Act([view EXCEPT !.open = x], {}) \/ Act([view EXCEPT !.selected = x], {})
      BY <1>5 DEF CloseAccess, ToggleAccess
    <2>2. Shows([view EXCEPT !.open = x], {}, {}) /\ Shows([view EXCEPT !.selected = x], {}, {})
      BY <1>3 DEF Core, Shows
    <2> QED BY <1>3, <2>1, <2>2, Editing
  <1>6. ASSUME NEW u, OpenAccess(u) PROVE Core' /\ page' = page
    <2> DEFINE v == [Busy(view, "access") EXCEPT !.open = TRUE, !.active = u]
               arg == [user |-> u]
    <2>1. Act(v, {Request("access", arg)}) BY <1>6 DEF OpenAccess
    <2>2. One({Request("access", arg)}, "access", arg) BY Asking
    <2>3. Shows(v, {}, {"access"}) BY <1>3 DEF Core, Shows, Busy
    <2>4. Reader("access", arg, {"access"}) BY <1>1, <1>2 DEF Reader, Is, Clears
    <2> HIDE DEF v, arg
    <2> QED BY <1>3, <2>1, <2>2, <2>3, <2>4, Querying
  <1>7. CASE SaveAccess
    <2> DEFINE arg == [user |-> view.active, selected |-> view.selected, from |-> view.from]
    <2>1. Act(Busy(view, "save"), {Request("projects", arg)}) /\ "save" \notin view.busy
      BY <1>7 DEF SaveAccess, AccessControls
    <2>2. One({Request("projects", arg)}, "projects", arg) BY Asking
    <2>3. Shows(Busy(view, "save"), {}, {"save"}) BY <1>3, Flagging
    <2> HIDE DEF arg
    <2>a. ASSUME NEW q, Is(q, "projects", arg)
          PROVE  Raised(page, q) = {"save"} /\ {"save"} \subseteq Clears(page, q)
      BY <1>1, <2>a DEF Is, Queries, Clears
    <2>c. Group(page, "save") = {"save"} BY <1>2
    <2>d. "save" \notin view.busy BY <2>1
    <2>b. view.busy \cap Group(page, "save") = {} BY <2>c, <2>d
    <2>4. Starts("projects", arg, "save", {"save"}) BY <1>2, <2>b, <2>a DEF Starts
    <2> QED BY <1>3, <2>1, <2>2, <2>3, <2>4, Pressing
  <1>8. ASSUME NEW r \in net, AccessLoaded(r) PROVE Core' /\ page' = page
    <2>1. PICK x, y : Settle(r, [Idle(view, "access") EXCEPT !.selected = x, !.from = y], kept, {}, {})
      BY <1>8 DEF AccessLoaded, Handle
    <2>2. Shows([Idle(view, "access") EXCEPT !.selected = x, !.from = y], {"access"}, {})
      BY <1>3 DEF Core, Shows, Idle
    <2>3. Over(r, {"access"}) BY <1>1, <1>2, <1>8 DEF AccessLoaded, Over, Frees, Clears
    <2> QED BY <1>3, <2>1, <2>2, <2>3, Ending
  <1>9. ASSUME NEW r \in net, AccessSaved(r) PROVE Core' /\ page' = page
    <2>1. r.op \in {"projects", "permissions"} /\ Raised(page, r) = {"save"} /\ Clears(page, r) = {"save"}
      BY <1>1, <1>9 DEF AccessSaved, Queries, Clears
    <2>2. CASE r.ans = Failed \/ r.op # "projects"
      <3>1. \/ Settle(r, Idle(view, "save"), kept, {}, {})
            \/ Settle(r, [Idle(view, "save") EXCEPT !.open = FALSE], kept, {}, {})
        BY <1>9, <2>2 DEF AccessSaved, Handle
      <3>2. /\ Shows(Idle(view, "save"), {"save"}, {})
            /\ Shows([Idle(view, "save") EXCEPT !.open = FALSE], {"save"}, {})
        BY <1>3 DEF Core, Shows, Idle
      <3>3. Over(r, {"save"}) BY <1>2, <2>1 DEF Over, Frees
      <3> QED BY <1>3, <3>1, <3>2, <3>3, Ending
    <2>3. CASE ~(r.ans = Failed \/ r.op # "projects")
      <3> DEFINE new == Sent(r.at, {Request("permissions", r.arg)})
      <3>1. Settle(r, view, kept, {}, new) BY <1>9, <2>3 DEF AccessSaved, Handle
      <3>2. One(new, "permissions", r.arg) BY Asking
      <3>3. Shows(view, {}, {}) BY <1>3, Flagging
      <3>4. Goes(r, "permissions", r.arg, {}, {})
        BY <1>1, <2>1 DEF Goes, Is, Frees, Clears, Queries
      <3> HIDE DEF new
      <3> QED BY <1>3, <3>1, <3>2, <3>3, <3>4, Continuing
    <2> QED BY <2>2, <2>3
  <1>10. ASSUME NEW r \in net, AccessServer(r) PROVE Core' /\ page' = page
    BY <1>3, <1>10, ServerKeeps, FailKeeps DEF AccessServer
  <1> QED BY <1>4, <1>5, <1>6, <1>7, <1>8, <1>9, <1>10 DEF AccessNext

(* The settings of the backups, over the query cache (BackupSettingsPage). *)
LEMMA BackupSettingsKeep ==
    ASSUME PagesInv, page = "backup settings", OpenBackupSettings \/ BackupSettingsNext
    PROVE  PagesInv'
  <1>1. page \in PlainPages BY DEF PlainPages
  <1>2. \A r : Spins(page, r) = {}
    BY DEF Spins, ContainersPages, TopologyPages, DatabasePages, TablesPages
  <1>3. Core BY DEF PagesInv
  <1>q. "settings" \in Queries BY DEF Queries
  <1> SUFFICES Core' /\ page' = page BY <1>1, PlainFlags, NothingCovered
  <1>4. CASE OpenBackupSettings
    <2>1. PICK d \in Dbs : \E asked \in MayRefetch("settings", d) :
             OpenAt(d, CopySettings(BackupSettingsHooks(d), kept["settings"][d]), asked)
      BY <1>4 DEF OpenBackupSettings
    <2> DEFINE v == CopySettings(BackupSettingsHooks(d), kept["settings"][d])
    <2>2. PICK asked \in MayRefetch("settings", d) : OpenAt(d, v, asked) BY <2>1
    <2>3. "busy" \in DOMAIN v /\ v.busy = {} BY DEF CopySettings, BackupSettingsHooks
    <2> HIDE DEF v
    <2> QED BY <1>3, <1>q, <2>2, <2>3, OpeningQuery
  <1>5. CASE SwitchBackupSettings
    <2>1. PICK d \in Dbs : \E asked \in MayRefetch("settings", d) :
             SwitchTo(d, CopySettings(view, kept["settings"][d]), asked)
      BY <1>5 DEF SwitchBackupSettings
    <2> DEFINE v == CopySettings(view, kept["settings"][d])
    <2>2. PICK asked \in MayRefetch("settings", d) : SwitchTo(d, v, asked) BY <2>1
    <2>3. Shows(v, {}, {}) BY <1>3 DEF Core, Shows, CopySettings
    <2> HIDE DEF v
    <2> QED BY <1>3, <1>q, <2>2, <2>3, SwitchingQuery
  <1>6. CASE EditBackupSettings \/ ApplyAutomation \/ ResetBackupSettings
    <2>1. PICK x : \/ Act([view EXCEPT !.form = x], {}) \/ Act([view EXCEPT !.form.fields = x], {})
                   \/ Act([view EXCEPT !.form.access = x], {})
      BY <1>6, Zenon DEF EditBackupSettings, ApplyAutomation, ResetBackupSettings, EditFields
    <2>2. /\ Shows([view EXCEPT !.form = x], {}, {}) /\ Shows([view EXCEPT !.form.fields = x], {}, {})
          /\ Shows([view EXCEPT !.form.access = x], {}, {})
      BY <1>3 DEF Core, Shows
    <2> QED BY <1>3, <2>1, <2>2, Editing
  <1>7. CASE SaveBackupSettings
    <2>a. Act(Busy(view, "save"), {Request("save", view.form)}) BY <1>7 DEF SaveBackupSettings
    <2>b. "save" \in BackupSettingsControls BY <1>7 DEF SaveBackupSettings
    <2>c. "save" \notin view.busy BY <2>b DEF BackupSettingsControls
    <2>1. /\ Act(Busy(view, "save"), {Request("save", view.form)})
          /\ "save" \notin view.busy
      BY <2>a, <2>c
    <2>2. Shows(Busy(view, "save"), {}, {"save"}) BY <1>3, Flagging
    <2> QED BY <1>1, <1>3, <2>1, <2>2, PlainPressing DEF PlainNames
  <1>8. ASSUME NEW r \in net, SettingsFetched(r) PROVE Core' /\ page' = page
    <2> DEFINE v == IF r.ans # Failed /\ at = r.at /\ r.ans # kept["settings"][r.at]
                    THEN CopySettings(view, r.ans) ELSE view
               k == Fetched(r)
    <2>1. Settle(r, v, k, {}, {}) BY <1>8 DEF SettingsFetched
    <2>2. Shows(v, {}, {}) BY <1>3 DEF Core, Shows, CopySettings
    <2>3. Over(r, {})
      BY <1>1, <1>2, <1>8, PlainFlags DEF SettingsFetched, Reads, Queries, Over, Frees, Clears
    <2> HIDE DEF v, k
    <2> QED BY <1>3, <2>1, <2>2, <2>3, Ending
  <1>9. ASSUME NEW r \in net, BackupSettingsSaved(r) PROVE Core' /\ page' = page
    <2> DEFINE v == Idle(view, "save")
    <2>1. Shows(v, {"save"}, {}) BY <1>3, Flagging
    <2>2. r.op = "save" BY <1>9 DEF BackupSettingsSaved
    <2>3. r.ans = Failed => Settle(r, v, kept, {}, {}) BY <1>9 DEF BackupSettingsSaved, Handle
    <2>4. r.ans # Failed => Invalidate(r, v, "settings") BY <1>9 DEF BackupSettingsSaved
    <2>a. r.op \notin Reads \cup {"rows", "restart", "avatar"} BY <2>2 DEF Reads, Queries
    <2>b. Raised(page, r) = {"save"} BY <1>1, <2>2, <2>a, PlainFlags
    <2>5. Raised(page, r) = {"save"} /\ Clears(page, r) = {"save"} BY <1>2, <2>b DEF Clears
    <2>6. Yields(r, "settings", {"save"}) BY <1>1, <2>5, PlainFlags DEF Yields, Frees
    <2> HIDE DEF v
    <2>7. CASE r.ans = Failed BY <1>1, <1>3, <2>1, <2>2, <2>3, <2>7, PlainEnding DEF PlainNames
    <2>8. CASE r.ans # Failed BY <1>3, <1>q, <2>1, <2>4, <2>6, <2>8, Invalidating
    <2> QED BY <2>7, <2>8
  <1>10. ASSUME NEW r \in net, BackupSettingsServer(r) PROVE Core' /\ page' = page
    BY <1>3, <1>10, ServerKeeps, FailKeeps DEF BackupSettingsServer
  <1> QED BY <1>4, <1>5, <1>6, <1>7, <1>8, <1>9, <1>10 DEF BackupSettingsNext

(* The list of backups and what one does with them (BackupListPage).       *)
LEMMA BackupListKeeps ==
    ASSUME PagesInv, page = "backups", OpenBackupList \/ BackupListNext
    PROVE  PagesInv'
  <1>1. page \in PlainPages BY DEF PlainPages
  <1>2. \A r : Spins(page, r) = {}
    BY DEF Spins, ContainersPages, TopologyPages, DatabasePages, TablesPages
  <1>3. Core BY DEF PagesInv
  <1>q. "backups" \in Queries BY DEF Queries
  <1> SUFFICES Core' /\ page' = page BY <1>1, PlainFlags, NothingCovered
  <1>4. CASE OpenBackupList
    <2>1. PICK d \in Dbs : \E asked \in MayRefetch("backups", d) : OpenAt(d, BackupListHooks, asked)
      BY <1>4 DEF OpenBackupList
    <2>2. "busy" \in DOMAIN BackupListHooks /\ BackupListHooks.busy = {} BY DEF BackupListHooks
    <2> QED BY <1>3, <1>q, <2>1, <2>2, OpeningQuery
  <1>5. CASE SwitchBackupList
    <2>1. PICK d \in Dbs : \E asked \in MayRefetch("backups", d) : SwitchTo(d, view, asked)
      BY <1>5 DEF SwitchBackupList
    <2>2. Shows(view, {}, {}) BY <1>3, Flagging
    <2> QED BY <1>3, <1>q, <2>1, <2>2, SwitchingQuery
  <1>6. CASE PollBackups BY <1>3, <1>q, <1>6, Polling DEF PollBackups
  <1>7. CASE CloseRollback \/ CloseDecrypt \/ \E b \in Backups : AskRollback(b) \/ OpenDecrypt(b)
    <2>1. PICK x, y, z, u :
             \/ Act([view EXCEPT !.rollback = x], {})
             \/ Act([view EXCEPT !.dialog = x, !.target = y, !.pem = z], {})
             \/ Act([view EXCEPT !.dialog = x], {})
             \/ Act([view EXCEPT !.dialog = x, !.target = y], {})
      BY <1>7, Zenon DEF CloseRollback, CloseDecrypt, AskRollback, OpenDecrypt
    <2>2. /\ Shows([view EXCEPT !.rollback = x], {}, {})
          /\ Shows([view EXCEPT !.dialog = x, !.target = y, !.pem = z], {}, {})
          /\ Shows([view EXCEPT !.dialog = x], {}, {})
          /\ Shows([view EXCEPT !.dialog = x, !.target = y], {}, {})
      BY <1>3 DEF Core, Shows
    <2> QED BY <1>3, <2>1, <2>2, Editing
  <1>8. CASE TypeKey
    <2>1. PICK x : Act([view EXCEPT !.pem = x], {}) BY <1>8, Zenon DEF TypeKey
    <2>2. Shows([view EXCEPT !.pem = x], {}, {}) BY <1>3 DEF Core, Shows
    <2> QED BY <1>3, <2>1, <2>2, Editing
  <1>9. ASSUME NEW op \in BackupListControls, BackupRequest(op) PROVE Core' /\ page' = page
    <2> DEFINE arg == IF op = "rollback" THEN view.rollback
                      ELSE IF op = "decrypt" THEN view.target ELSE None
               v == Busy(view, op)
    <2>1. op \in {"backup", "rollback", "restore file", "restore connection", "decrypt"}
      BY <1>9 DEF BackupRequest
    <2>2. op \notin view.busy BY <2>1 DEF BackupListControls
    <2>3. Act(v, {Request(op, arg)}) BY <1>9 DEF BackupRequest
    <2>4. Shows(v, {}, {op}) BY <1>3, Flagging
    <2>5. op \in PlainNames BY <2>1 DEF PlainNames
    <2> HIDE DEF v, arg
    <2> QED BY <1>1, <1>3, <2>2, <2>3, <2>4, <2>5, PlainPressing
  <1>10. ASSUME NEW r \in net, BackupsFetched(r) PROVE Core' /\ page' = page
    <2>1. PICK k : Settle(r, view, k, {}, {}) BY <1>10 DEF BackupsFetched
    <2>2. Shows(view, {}, {}) BY <1>3, Flagging
    <2>3. Over(r, {})
      BY <1>1, <1>2, <1>10, PlainFlags DEF BackupsFetched, Reads, Queries, Over, Frees, Clears
    <2> QED BY <1>3, <2>1, <2>2, <2>3, Ending
  <1>11. ASSUME NEW r \in net, ManualBackupStarted(r) PROVE Core' /\ page' = page
    <2> DEFINE v == Idle(view, "backup")
    <2>1. Shows(v, {"backup"}, {}) BY <1>3, Flagging
    <2>2. r.op = "backup" BY <1>11 DEF ManualBackupStarted
    <2>3. r.ans = Failed => Settle(r, v, kept, {}, {}) BY <1>11 DEF ManualBackupStarted, Handle
    <2>4. r.ans # Failed => Invalidate(r, v, "backups") BY <1>11 DEF ManualBackupStarted
    <2>5. Raised(page, r) = {"backup"} /\ Clears(page, r) = {"backup"}
      BY <1>1, <1>2, <2>2, PlainFlags DEF Reads, Queries, Clears
    <2>6. Yields(r, "backups", {"backup"}) BY <1>1, <2>5, PlainFlags DEF Yields, Frees
    <2> HIDE DEF v
    <2>7. CASE r.ans = Failed BY <1>1, <1>3, <2>1, <2>2, <2>3, <2>7, PlainEnding DEF PlainNames
    <2>8. CASE r.ans # Failed BY <1>3, <1>q, <2>1, <2>4, <2>6, <2>8, Invalidating
    <2> QED BY <2>7, <2>8
  <1>12. ASSUME NEW r \in net, RollbackStarted(r) \/ ExternalRestoreStarted(r) \/ Decrypted(r)
         PROVE  Core' /\ page' = page
    <2> DEFINE u == Idle(view, r.op)
    <2>1. r.op \in {"rollback", "restore file", "restore connection", "decrypt"}
      BY <1>12 DEF RollbackStarted, ExternalRestoreStarted, Decrypted
    <2>2. \/ Settle(r, [u EXCEPT !.rollback = None], kept, {}, {})
          \/ Settle(r, [u EXCEPT !.dialog = FALSE, !.target = None, !.pem = FALSE], kept, {}, {})
          \/ Settle(r, u, kept, {}, {})
      BY <1>12 DEF RollbackStarted, ExternalRestoreStarted, Decrypted, Handle
    <2>3. /\ Shows([u EXCEPT !.rollback = None], {r.op}, {}) /\ Shows(u, {r.op}, {})
          /\ Shows([u EXCEPT !.dialog = FALSE, !.target = None, !.pem = FALSE], {r.op}, {})
      BY <1>3 DEF Core, Shows, Idle
    <2>4. r.op \in PlainNames BY <2>1 DEF PlainNames
    <2> HIDE DEF u
    <2> QED BY <1>1, <1>3, <2>2, <2>3, <2>4, PlainEnding
  <1>13. ASSUME NEW r \in net, BackupListServer(r) PROVE Core' /\ page' = page
    <2>1. PICK s, a : ServerAnswers(r, s, a) \/ ServerFails(r, s)
      BY <1>13, Zenon DEF BackupListServer
    <2> QED BY <1>3, <2>1, ServerKeeps, FailKeeps
  <1>14. CASE BackupEnds
    <2>1. UNCHANGED <<page, at, view, net>> BY <1>14 DEF BackupEnds
    <2> QED BY <2>1, IdleKeeps DEF PagesInv
  <1> QED
    BY <1>4, <1>5, <1>6, <1>7, <1>8, <1>9, <1>10, <1>11, <1>12, <1>13, <1>14 DEF BackupListNext

(* The tables and their relations (TablesPage).                            *)
LEMMA TablesKeep ==
    ASSUME PagesInv, page \in TablesPages, OpenTables \/ TablesNext
    PROVE  PagesInv'
  <1>1. page \in PlainPages BY DEF PlainPages
  <1>2. \A r : Spins(page, r) = IF r.op \in {"list", "rows"} THEN {r.op} ELSE {}
    BY DEF Spins, ContainersPages, TopologyPages, DatabasePages, TablesPages
  <1>3. Core BY DEF PagesInv
  <1> SUFFICES Core' /\ page' = page BY <1>1, PlainFlags, NothingCovered
  <1> DEFINE Asked(t, w) == [table |-> t, window |-> w, edits |-> None]
  <1>a. \A t : ListRequest(t, TRUE) = {Request("list", Asked(t, First))} /\ ListRequest(t, FALSE) = {}
    BY DEF ListRequest
  <1>b. \A t, w : RowsRequest(t, w) = {Request("rows", Asked(t, w))} BY DEF RowsRequest
  <1> HIDE DEF Asked
  <1>c. \A x : Reader("list", x, {"list"}) /\ Reader("rows", x, {"rows"}) /\ Reader("database", x, {})
    BY <1>1, <1>2, PlainFlags DEF Reader, Is, Reads, Clears
  <1>d. \A v : "busy" \in DOMAIN v =>
           /\ "busy" \in DOMAIN FetchTables(v, TRUE) /\ "busy" \in DOMAIN FetchTables(v, FALSE)
           /\ FetchTables(v, TRUE).busy = v.busy \cup {"list"}
           /\ FetchTables(v, FALSE).busy = v.busy \ {"list"}
    BY DEF FetchTables
  <1>e. "list" \notin Flags(page) /\ "rows" \notin Flags(page) BY <1>1, PlainFlags
  <1>4. CASE OpenTables
    <2>1. PICK d \in Dbs, a \in BOOLEAN : OpenAt(d, FetchTables(TablesHooks, a), ListRequest(None, a))
      BY <1>4 DEF OpenTables
    <2>2. "busy" \in DOMAIN TablesHooks /\ TablesHooks.busy = {"list"} BY DEF TablesHooks
    <2> DEFINE v == FetchTables(TablesHooks, a)
    <2>3. CASE a = TRUE
      <3>1. OpenAt(d, v, {Request("list", Asked(None, First))}) BY <1>a, <2>1, <2>3
      <3>2. "busy" \in DOMAIN v /\ v.busy = {"list"} BY <1>d, <2>2, <2>3
      <3> HIDE DEF v
      <3>3. One(Sent(d, {Request("list", Asked(None, First))}), "list", Asked(None, First)) BY Asking
      <3>4. Reader("list", Asked(None, First), v.busy) BY <1>c, <3>2
      <3> QED BY <1>3, <3>1, <3>2, <3>3, <3>4, OpeningOne
    <2>4. CASE a = FALSE
      <3>1. OpenAt(d, v, {}) BY <1>a, <2>1, <2>4
      <3>2. "busy" \in DOMAIN v /\ v.busy = {} BY <1>d, <2>2, <2>4
      <3> HIDE DEF v
      <3> QED BY <1>3, <3>1, <3>2, OpeningIdle
    <2> QED BY <2>3, <2>4
  <1>5. CASE SwitchTables
    <2>1. PICK d \in Dbs : SwitchTo(d, FetchTables(view, view.active),
                                    ListRequest(view.selected, view.active))
      BY <1>5 DEF SwitchTables
    <2> DEFINE v == FetchTables(view, view.active)
               asked == ListRequest(view.selected, view.active)
    <2>2. CASE view.active
      <3>1. asked = {Request("list", Asked(view.selected, First))}
        BY <2>2 DEF ListRequest, Asked
      <3>2. "busy" \in DOMAIN v /\ v.busy = view.busy \cup {"list"}
        BY <1>3, <2>2 DEF FetchTables, Core
      <3>3. One(Sent(d, asked), "list", Asked(view.selected, First)) BY <3>1, Asking
      <3>4. SwitchTo(d, v, asked) BY <2>1
      <3> HIDE DEF v, asked
      <3>5. Shows(v, {}, {"list"}) BY <3>2 DEF Shows
      <3>6. Reader("list", Asked(view.selected, First), {"list"}) BY <1>c
      <3> QED BY <1>3, <3>3, <3>4, <3>5, <3>6, SwitchingOne
    <2>3. CASE ~view.active
      <3>1. asked = {} BY <2>3 DEF ListRequest
      <3>2. "busy" \in DOMAIN v /\ v.busy = view.busy \ {"list"}
        BY <1>3, <2>3 DEF FetchTables, Core
      <3>3. Sent(d, asked) = {} BY <3>1 DEF Sent
      <3>4. SwitchTo(d, v, asked) BY <2>1
      <3> HIDE DEF v, asked
      <3>5. /\ \A f \in v.busy : f \in view.busy
            /\ \A f \in Flags(page) : f \in view.busy <=> f \in v.busy
        BY <1>e, <3>2
      <3> QED BY <1>3, <3>2, <3>3, <3>4, <3>5, Switching
    <2> QED BY <2>2, <2>3
  <1>6. CASE ContextRefreshed
    <2>1. PICK a \in BOOLEAN : Act(FetchTables(view, a), ListRequest(view.selected, a))
      BY <1>6 DEF ContextRefreshed
    <2> DEFINE v == FetchTables(view, a)
    <2>2. CASE a = TRUE
      <3>1. Act(v, {Request("list", Asked(view.selected, First))}) BY <1>a, <2>1, <2>2
      <3>2. Shows(v, {}, {"list"}) BY <1>3, <1>d, <2>2 DEF Core, Shows
      <3> HIDE DEF v
      <3>3. One({Request("list", Asked(view.selected, First))}, "list", Asked(view.selected, First))
        BY Asking
      <3> QED BY <1>3, <1>c, <3>1, <3>2, <3>3, Querying
    <2>3. CASE a = FALSE
      <3>1. Act(v, {}) BY <1>a, <2>1, <2>3
      <3>2. "busy" \in DOMAIN v /\ v.busy = view.busy \ {"list"} BY <1>3, <1>d, <2>3 DEF Core
      <3> HIDE DEF v
      <3>3. /\ \A f \in v.busy : f \in view.busy
            /\ \A f \in Flags(page) : f \in view.busy <=> f \in v.busy
        BY <1>e, <3>2
      <3> QED BY <1>3, <3>1, <3>2, <3>3, Reading
    <2> QED BY <2>2, <2>3
  <1>7. CASE EditCell \/ DiscardEdits \/ CloseRelation
    <2>1. PICK x : Act([view EXCEPT !.edits = x], {}) \/ Act([view EXCEPT !.relation = x], {})
      BY <1>7 DEF EditCell, DiscardEdits, CloseRelation
    <2>2. Shows([view EXCEPT !.edits = x], {}, {}) /\ Shows([view EXCEPT !.relation = x], {}, {})
      BY <1>3 DEF Core, Shows
    <2> QED BY <1>3, <2>1, <2>2, Editing
  <1>8. CASE SaveRows
    <2>1. PICK arg : Act(Busy(view, "save"), {Request("save", arg)}) BY <1>8 DEF SaveRows
    <2>2. <<"save", None>> \in TablesControls BY <1>8 DEF SaveRows
    <2>3. "save" \notin view.busy BY <2>2, PagesAssumption DEF TablesControls
    <2>4. Shows(Busy(view, "save"), {}, {"save"}) BY <1>3, Flagging
    <2> QED BY <1>1, <1>3, <2>1, <2>3, <2>4, PlainPressing DEF PlainNames
  (* The rows are fetched for a table that is chosen, a change or a link.  *)
  <1>9. ASSUME NEW v, NEW t, NEW w, Act(v, RowsRequest(t, w)), Shows(v, {}, {"rows"})
        PROVE  Core' /\ page' = page
    <2>1. Act(v, {Request("rows", Asked(t, w))}) BY <1>9, <1>b
    <2>2. One({Request("rows", Asked(t, w))}, "rows", Asked(t, w)) BY Asking
    <2> QED BY <1>3, <1>9, <1>c, <2>1, <2>2, Querying
  <1>10. \A t, w : Shows(FetchRows(view, t, w), {}, {"rows"})
    BY <1>3 DEF Core, Shows, FetchRows, Busy
  <1>11. ASSUME NEW t, SelectTable(t) PROVE Core' /\ page' = page
    <2>1. PICK w : Act(FetchRows(view, t, w), RowsRequest(t, w)) BY <1>11 DEF SelectTable
    <2> QED BY <1>9, <1>10, <2>1
  <1>12. ASSUME NEW w, SortRows(w) \/ FilterRows(w) \/ TurnPage(w) PROVE Core' /\ page' = page
    <2>1. PICK t : Act(FetchRows(view, t, w), RowsRequest(t, w))
      BY <1>12, Zenon DEF SortRows, FilterRows, TurnPage, ChangeWindow
    <2> QED BY <1>9, <1>10, <2>1
  <1>13. CASE RefreshRows
    <2>1. Act(FetchRows(view, view.selected, view.window), RowsRequest(view.selected, view.window))
      BY <1>13 DEF RefreshRows
    <2> QED BY <1>9, <1>10, <2>1
  <1>14. ASSUME NEW t, OpenReferenced(t) PROVE Core' /\ page' = page
    <2>1. PICK w : Act([FetchRows(view, t, w) EXCEPT !.relation = "closed"], RowsRequest(t, w))
      BY <1>14 DEF OpenReferenced
    <2>2. Shows([FetchRows(view, t, w) EXCEPT !.relation = "closed"], {}, {"rows"})
      BY <1>3 DEF Core, Shows, FetchRows, Busy
    <2> QED BY <1>9, <2>1, <2>2
  <1>15. CASE OpenRelation
    <2>1. PICK arg : Act([view EXCEPT !.relation = "loading"], {Request("database", arg)})
      BY <1>15 DEF OpenRelation
    <2>2. Shows([view EXCEPT !.relation = "loading"], {}, {}) BY <1>3 DEF Core, Shows
    <2>3. One({Request("database", arg)}, "database", arg) BY Asking
    <2> QED BY <1>3, <1>c, <2>1, <2>2, <2>3, Querying
  <1>16. ASSUME NEW r \in net, TablesListed(r) PROVE Core' /\ page' = page
    <2>0. r.op = "list" BY <1>16 DEF TablesListed
    <2>1. Raised(page, r) = {} /\ Clears(page, r) = {"list"}
      BY <1>1, <1>2, <2>0, PlainFlags DEF Reads, Clears
    <2>2. CASE r.ans = Failed
      <3> DEFINE v == [Idle(view, "list") EXCEPT !.error = TRUE]
      <3>1. Settle(r, v, kept, {}, {}) BY <1>16, <2>2 DEF TablesListed, Handle
      <3>2. Shows(v, {"list"}, {}) BY <1>3 DEF Core, Shows, Idle
      <3>3. Over(r, {"list"}) BY <1>e, <2>1 DEF Over, Frees
      <3> HIDE DEF v
      <3> QED BY <1>3, <3>1, <3>2, <3>3, Ending
    <2>3. CASE r.ans # Failed
      <3> DEFINE u == Busy([Idle(view, "list") EXCEPT !.tables = Items], "rows")
      <3>1. PICK w, x, y :
               Settle(r, [u EXCEPT !.selected = r.ans.table, !.window = w, !.data = x, !.relation = y],
                      kept, {}, Sent(r.at, RowsRequest(r.ans.table, w)))
        BY <1>16, <2>3, Zenon DEF TablesListed, Handle
      <3> DEFINE v == [u EXCEPT !.selected = r.ans.table, !.window = w, !.data = x, !.relation = y]
                 new == Sent(r.at, RowsRequest(r.ans.table, w))
                 arg == Asked(r.ans.table, w)
      <3>2. Shows(v, {"list"}, {"rows"}) BY <1>3 DEF Core, Shows, Idle, Busy
      <3>3. One(new, "rows", arg) BY <1>b, Asking
      <3>4. Settle(r, v, kept, {}, new) BY <3>1
      <3> HIDE DEF u, v, new, arg
      <3>5. Goes(r, "rows", arg, {"list"}, {"rows"})
        BY <1>c, <1>e, <2>1 DEF Goes, Reader, Frees, Queries
      <3> QED BY <1>3, <3>2, <3>3, <3>4, <3>5, Continuing
    <2> QED BY <2>2, <2>3
  <1>17. ASSUME NEW r \in net, RowsFetched(r) PROVE Core' /\ page' = page
    <2> DEFINE v == IF r.ans = Failed THEN [Idle(view, "rows") EXCEPT !.error = TRUE]
                    ELSE [Idle(view, "rows") EXCEPT !.data = r.ans]
    <2>1. Settle(r, v, kept, {}, {}) BY <1>17 DEF RowsFetched, Handle
    <2>2. Shows(v, {"rows"}, {}) BY <1>3 DEF Core, Shows, Idle
    <2>3. Over(r, {"rows"})
      BY <1>1, <1>2, <1>17, PlainFlags DEF RowsFetched, Over, Frees, Clears
    <2> HIDE DEF v
    <2> QED BY <1>3, <2>1, <2>2, <2>3, Ending
  <1>18. ASSUME NEW r \in net, RelationFetched(r) PROVE Core' /\ page' = page
    <2>1. PICK x : Settle(r, [view EXCEPT !.relation = x], kept, {}, {})
      BY <1>18, Zenon DEF RelationFetched, Handle
    <2>2. Shows([view EXCEPT !.relation = x], {}, {}) BY <1>3 DEF Core, Shows
    <2>3. Over(r, {})
      BY <1>1, <1>2, <1>18, PlainFlags DEF RelationFetched, Reads, Over, Frees, Clears
    <2> QED BY <1>3, <2>1, <2>2, <2>3, Ending
  <1>19. ASSUME NEW r \in net, RowsSaved(r) PROVE Core' /\ page' = page
    <2>0. r.op = "save" BY <1>19 DEF RowsSaved
    <2>1. Raised(page, r) = {"save"} /\ Clears(page, r) = {"save"}
      BY <1>1, <1>2, <2>0, PlainFlags DEF Reads, Queries, Clears
    <2>2. CASE r.ans = Failed
      <3> DEFINE v == [Idle(view, "save") EXCEPT !.error = TRUE]
      <3>1. Settle(r, v, kept, {}, {}) BY <1>19, <2>2 DEF RowsSaved, Handle
      <3>2. Shows(v, {"save"}, {}) BY <1>3 DEF Core, Shows, Idle
      <3> HIDE DEF v
      <3> QED BY <1>1, <1>3, <2>0, <3>1, <3>2, PlainEnding DEF PlainNames
    <2>3. CASE r.ans # Failed
      <3>1. PICK w :
               Settle(r, [Idle(view, "save") EXCEPT !.busy = @ \cup {"rows"}, !.edits = None,
                             !.selected = r.arg.table, !.window = w],
                      kept, {}, Sent(r.at, RowsRequest(r.arg.table, w)))
        BY <1>19, <2>3 DEF RowsSaved, Handle
      <3> DEFINE v == [Idle(view, "save") EXCEPT !.busy = @ \cup {"rows"}, !.edits = None,
                             !.selected = r.arg.table, !.window = w]
                 new == Sent(r.at, RowsRequest(r.arg.table, w))
                 arg == Asked(r.arg.table, w)
      <3>2. Shows(v, {"save"}, {"rows"}) BY <1>3 DEF Core, Shows, Idle
      <3>3. One(new, "rows", arg) BY <1>b, Asking
      <3>4. Settle(r, v, kept, {}, new) BY <3>1
      <3> HIDE DEF v, new, arg
      <3>5. Frees(r, {"save"}) BY <1>1, <2>1, PlainFlags DEF Frees
      <3>6. Goes(r, "rows", arg, {"save"}, {"rows"})
        BY <1>c, <1>e, <2>1, <3>5 DEF Goes, Reader, Queries
      <3> QED BY <1>3, <3>2, <3>3, <3>4, <3>6, Continuing
    <2> QED BY <2>2, <2>3
  <1>20. ASSUME NEW r \in net, TablesServer(r) PROVE Core' /\ page' = page
    <2>1. PICK s, a : ServerAnswers(r, s, a) \/ ServerFails(r, s) BY <1>20, Zenon DEF TablesServer
    <2> QED BY <1>3, <2>1, ServerKeeps, FailKeeps
  <1> QED
    BY <1>4, <1>5, <1>6, <1>7, <1>8, <1>11, <1>12, <1>13, <1>14, <1>15, <1>16, <1>17, <1>18, <1>19,
       <1>20
    DEF TablesNext

(* A query that nobody waits for is over.                                  *)
LEMMA Dropping ==
    ASSUME Core, NEW r \in net, r.mine = TRUE, Raised(page, r) = {}, NEW v, NEW k,
           Settle(r, v, k, {}, {}), "busy" \in DOMAIN v,
           \A f \in v.busy : \E x \in net \ {r} : x.mine = TRUE /\ f \in Clears(page, x),
           \A x \in net \ {r} : x.mine = TRUE =>
              \A f \in Raised(page, x) : v.busy \cap Group(page, f) = {f}
    PROVE  Core' /\ page' = page /\ at' = at /\ view' = v
  <1>1. page' = page /\ at' = at /\ view' = v /\ net' = net \ {r} BY DEF Settle
  <1>2. Sound(page, net \ {r}, v.busy) BY DEF Core, Sound
  <1> QED BY <1>1, <1>2 DEF Core

(* The page of a database and its connection string (DatabasePage).        *)
LEMMA DatabaseKeeps ==
    ASSUME PagesInv, page \in DatabasePages, OpenDatabase \/ DatabaseNext
    PROVE  PagesInv'
  <1>0. /\ page \notin {"connections", "branches", "webserver", "users", "user access",
                        "notifications", "navigation", "projects", "project", "limits", "profile"}
        /\ page \notin ContainersPages \cup TopologyPages \cup TablesPages
    BY DEF ContainersPages, TopologyPages, DatabasePages, TablesPages
  <1>1. \A r : /\ Raised(page, r) = IF r.op \in Queries \cup {"load"} THEN {} ELSE {r.op}
               /\ Spins(page, r) = IF r.op = "load" THEN {"connection"}
                                   ELSE IF r.op = "detail" THEN {"secure"} ELSE {}
    BY <1>0 DEF Raised, Spins
  <1>2. /\ Flags(page) = DatabaseActions \cup {"rotate"}
        /\ \A f : Group(page, f) = IF f \in DatabaseActions THEN DatabaseActions ELSE {f}
        /\ {None, "connection"} \cap Flags(page) = {} /\ "rotate" \notin DatabaseActions
        /\ (Queries \cup {"load"}) \cap Flags(page) = {}
    <2>1. None \notin FlagNames BY PagesAssumption
    <2>2. Flags(page) = DatabaseActions \cup {"rotate"} BY <1>0 DEF Flags
    <2>3. DatabaseActions \cup {"rotate"} \subseteq FlagNames BY DEF DatabaseActions, FlagNames
    <2>4. /\ "connection" \notin DatabaseActions \cup {"rotate"} /\ "rotate" \notin DatabaseActions
          /\ (Queries \cup {"load"}) \cap (DatabaseActions \cup {"rotate"}) = {}
      BY DEF DatabaseActions, Queries
    <2>5. \A f : Group(page, f) = IF f \in DatabaseActions THEN DatabaseActions ELSE {f}
      BY <1>0 DEF Group
    <2> QED BY <2>1, <2>2, <2>3, <2>4, <2>5
  <1>3. Core /\ (at # None => Guards(view)) BY DEF PagesInv, Covered
  <1>4. SUFFICES PagesInv' \/ (Core' /\ page' = page /\ (at' # None => Guards(view')))
    BY <1>0 DEF PagesInv, Covered, Numbered
  <1>q. "detail" \in Queries BY DEF Queries
  <1>5. CASE OpenDatabase
    <2>1. PICK d \in Dbs : \E asked \in MayRefetch("detail", d) : OpenAt(d, DatabaseHooks, asked)
      BY <1>5 DEF OpenDatabase
    <2>2. /\ "busy" \in DOMAIN DatabaseHooks /\ DatabaseHooks.busy = {}
          /\ "confirm" \in DOMAIN DatabaseHooks /\ DatabaseHooks.confirm = None
      BY DEF DatabaseHooks
    <2>3. Core' /\ page' = page /\ view' = DatabaseHooks
      BY <1>3, <1>q, <2>1, <2>2, OpeningQuery
    <2> QED BY <2>2, <2>3 DEF Guards
  <1>6. CASE SwitchDatabase
    <2>1. PICK d \in Dbs : \E asked \in MayRefetch("detail", d) : SwitchTo(d, view, asked)
      BY <1>6 DEF SwitchDatabase
    <2>2. Shows(view, {}, {}) BY <1>3, Flagging
    <2>3. Core' /\ page' = page /\ view' = view /\ at # None
      BY <1>3, <1>q, <2>1, <2>2, SwitchingQuery
    <2> QED BY <1>3, <2>3
  <1>7. CASE PollDatabase
    <2>1. Core' /\ page' = page /\ at' = at /\ view' = view
      BY <1>3, <1>q, <1>7, Polling DEF PollDatabase
    <2> QED BY <1>3, <2>1
  (* What can be pressed while another action is out.                      *)
  <1>8. ASSUME at # None, NEW op \in DatabaseControls, op \in {"ask delete", "ask secure"}
        PROVE  view.busy \cap DatabaseActions = {}
    <2>1. view.confirm \in {"restart", "stop", "delete", "secure", "rotate", None}
      BY <1>3, <1>8 DEF Guards, DatabaseActions
    <2>2. view.confirm = None
      <3>1. None \notin {"ask delete", "ask secure"} \/ view.confirm = None \/ view.confirm # None
        OBVIOUS
      <3>2. CASE view.confirm # None
        <4>1. op \in {"close confirm"} \cup ({view.confirm} \ view.busy)
          BY <1>8, <3>2 DEF DatabaseControls
        <4>2. op = view.confirm BY <1>8, <4>1
        <4> QED BY <1>8, <2>1, <3>2, <4>2
      <3> QED BY <3>2
    <2> QED BY <1>8, <2>2 DEF DatabaseControls
  <1>9. CASE AskConfirmation \/ CloseDialogs
    <2>1. ASSUME NEW x \in DatabaseActions \cup {"rotate", None},
                 x \in DatabaseActions => view.busy \cap DatabaseActions = {},
                 Act([view EXCEPT !.confirm = x], {})
          PROVE  Core' /\ page' = page /\ (at' # None => Guards(view'))
      <3> DEFINE v == [view EXCEPT !.confirm = x]
      <3>1. at # None /\ Act(v, {}) BY <2>1 DEF Act
      <3>2. Shows(v, {}, {}) /\ Guards(v) BY <1>3, <2>1, <3>1 DEF Core, Shows, Guards
      <3> HIDE DEF v
      <3>3. Core' /\ page' = page /\ at' = at /\ view' = v BY <1>3, <3>1, <3>2, Editing
      <3> QED BY <3>2, <3>3
    <2>2. CASE AskConfirmation
      <3>1. PICK c \in {<<"ask delete", "delete">>, <<"ask secure", "secure">>,
                        <<"ask rotate", "rotate">>} :
               c[1] \in DatabaseControls /\ Act([view EXCEPT !.confirm = c[2]], {})
        BY <2>2 DEF AskConfirmation
      <3>2. /\ c[2] \in DatabaseActions \cup {"rotate", None}
            /\ c[2] \in DatabaseActions => c[1] \in {"ask delete", "ask secure"}
        <4>1. CASE c = <<"ask delete", "delete">> BY <4>1 DEF DatabaseActions
        <4>2. CASE c = <<"ask secure", "secure">> BY <4>2 DEF DatabaseActions
        <4>3. CASE c = <<"ask rotate", "rotate">> BY <1>2, <4>3
        <4> QED BY <3>1, <4>1, <4>2, <4>3
      <3>3. at # None BY <3>1 DEF Act
      <3>4. c[2] \in DatabaseActions => view.busy \cap DatabaseActions = {}
        BY <1>8, <3>1, <3>2, <3>3
      <3> QED BY <2>1, <3>1, <3>2, <3>4
    <2>3. CASE CloseDialogs
      <3>1. CASE Act([view EXCEPT !.confirm = None], {})
        <4>1. None \notin DatabaseActions BY <1>2
        <4> QED BY <2>1, <3>1, <4>1
      <3>2. CASE Act([view EXCEPT !.connect = FALSE], {})
        <4> DEFINE v == [view EXCEPT !.connect = FALSE]
        <4>1. Shows(v, {}, {}) /\ (Guards(view) => Guards(v)) BY <1>3 DEF Core, Shows, Guards
        <4>2. Act(v, {}) BY <3>2
        <4> HIDE DEF v
        <4>3. Core' /\ page' = page /\ at' = at /\ view' = v BY <1>3, <4>1, <4>2, Editing
        <4> QED BY <1>3, <4>1, <4>3
      <3> QED BY <2>3, <3>1, <3>2 DEF CloseDialogs
    <2> QED BY <1>9, <2>2, <2>3
  <1>10. ASSUME NEW op \in DatabaseControls, DatabaseAction(op)
         PROVE  Core' /\ page' = page /\ (at' # None => Guards(view'))
    <2> DEFINE v == Busy(view, op)
    <2>1. /\ op \in DatabaseActions \cup {"rotate"} /\ op \in DatabaseControls
          /\ Act(v, {Request(op, None)})
      BY <1>10 DEF DatabaseAction
    <2>2. at # None BY <2>1 DEF Act
    <2>3. Guards(view) BY <1>3, <2>2
    <2>a. op \notin {"close confirm", "close", "ask rotate", "connect"}
      BY <2>1 DEF DatabaseActions
    <2>4. /\ view.busy \cap Group(page, op) = {}
          /\ view.confirm \in DatabaseActions => op = view.confirm
      <3>1. CASE view.confirm # None
        <4>1. op \in {"close confirm"} \cup ({view.confirm} \ view.busy)
          BY <2>1, <3>1 DEF DatabaseControls
        <4>2. op = view.confirm /\ op \notin view.busy BY <2>a, <4>1
        <4> QED BY <1>2, <2>1, <2>3, <4>2 DEF Guards
      <3>2. CASE view.confirm = None
        <4>1. view.busy \cap DatabaseActions = {} /\ op # "rotate"
          BY <2>1, <2>a, <3>2 DEF DatabaseControls
        <4>2. op \in DatabaseActions /\ None \notin DatabaseActions BY <1>2, <2>1, <4>1
        <4> QED BY <1>2, <3>2, <4>1, <4>2
      <3> QED BY <3>1, <3>2
    <2>5. Shows(v, {}, {op}) BY <1>3, Flagging
    <2>6. ASSUME NEW q, Is(q, op, None) PROVE Raised(page, q) = {op} /\ {op} \subseteq Clears(page, q)
      <3>1. op \in Flags(page) BY <1>2, <2>1
      <3>2. op \notin Queries \cup {"load"} BY <1>2, <3>1
      <3> QED BY <1>1, <2>6, <3>2 DEF Is, Clears
    <2>7. Starts(op, None, op, {op}) BY <1>2, <2>1, <2>4, <2>6 DEF Starts
    <2>8. One({Request(op, None)}, op, None) BY Asking
    <2>9. Guards(v)
      <3>1. "confirm" \in DOMAIN v /\ v.confirm = view.confirm /\ v.busy = view.busy \cup {op}
        BY <1>3, <2>3 DEF Core, Guards, Busy
      <3> HIDE DEF v
      <3> QED BY <2>3, <2>4, <3>1 DEF Guards
    <2> HIDE DEF v
    <2>10. Core' /\ page' = page /\ at' = at /\ view' = v
      BY <1>3, <2>1, <2>5, <2>7, <2>8, Pressing
    <2> QED BY <2>9, <2>10
  <1>11. CASE OpenConnect
    <2> DEFINE v == [Busy(view, "connection") EXCEPT !.connect = TRUE]
    <2>1. Act(v, {Request("load", None)}) BY <1>11 DEF OpenConnect
    <2>2. at # None BY <2>1 DEF Act
    <2>3. One({Request("load", None)}, "load", None) BY Asking
    <2>4. Shows(v, {}, {"connection"}) BY <1>3 DEF Core, Shows, Busy
    <2>5. Reader("load", None, {"connection"}) BY <1>1, <1>2 DEF Reader, Is, Clears
    <2>6. "confirm" \in DOMAIN v /\ v.confirm = view.confirm /\ v.busy = view.busy \cup {"connection"}
      BY <1>3, <2>2 DEF Core, Guards, Busy
    <2> HIDE DEF v
    <2>7. Core' /\ page' = page /\ at' = at /\ view' = v BY <1>3, <2>1, <2>3, <2>4, <2>5, Querying
    <2>8. Guards(v) BY <1>2, <1>3, <2>2, <2>6 DEF Guards
    <2> QED BY <2>7, <2>8
  (* How a handler ends.                                                   *)
  <1>12. ASSUME NEW r \in net, NEW v, NEW G, Shows(v, G, {}),
                "confirm" \in DOMAIN view => "confirm" \in DOMAIN v /\ v.confirm \in {None, view.confirm},
                Core', page' = page, at' = at, view' = IF r.mine THEN v ELSE view
         PROVE  Core' /\ page' = page /\ (at' # None => Guards(view'))
    <2>1. Guards(view) => Guards(v) BY <1>2, <1>12 DEF Shows, Guards
    <2>2. view' = v \/ view' = view BY <1>12
    <2> QED BY <1>3, <1>12, <2>1, <2>2
  <1>13. ASSUME NEW r \in net, DetailFetched(r)
         PROVE  Core' /\ page' = page /\ (at' # None => Guards(view'))
    <2> DEFINE u == [Idle(view, "secure") EXCEPT !.confirm = IF @ = "secure" THEN None ELSE @]
               secured == "secure" \in view.busy /\ ~\E q \in net : q.mine /\ q.op = "secure"
               v == IF secured THEN u ELSE view
    <2>1. r.op = "detail" /\ \E k : Settle(r, v, k, {}, {}) BY <1>13 DEF DetailFetched
    <2>2. PICK k : Settle(r, v, k, {}, {}) BY <2>1
    <2>3. Raised(page, r) = {} /\ Clears(page, r) = {"secure"} BY <1>1, <1>q, <2>1 DEF Clears
    <2>4. Shows(v, IF secured THEN {"secure"} ELSE {}, {}) BY <1>3 DEF Core, Shows, Idle
    <2>5. "confirm" \in DOMAIN view => "confirm" \in DOMAIN v /\ v.confirm \in {None, view.confirm}
      BY DEF Idle
    <2>6. Core' /\ page' = page /\ at' = at /\ view' = IF r.mine THEN v ELSE view
      <3>1. CASE r.mine # TRUE
        <4> HIDE DEF v
        <4> QED BY <1>3, <2>2, <3>1, Unseen DEF Core, Sound, IsRequest
      <3>2. CASE r.mine = TRUE
        <4>1. Sound(page, net, view.busy) BY <1>3 DEF Core
        <4>2. "secure" \in DatabaseActions BY DEF DatabaseActions
        <4>3. ASSUME NEW x \in net \ {r}, x.mine = TRUE, NEW f \in Raised(page, x)
              PROVE  v.busy \cap Group(page, f) = {f}
          <5>1. f \in Flags(page) /\ view.busy \cap Group(page, f) = {f} BY <4>1, <4>3 DEF Sound
          <5>2. f = x.op BY <1>1, <4>3
          <5>3. secured => f # "secure" BY <4>3, <5>2
          <5>4. secured => "secure" \notin Group(page, f) BY <1>2, <4>2, <5>1, <5>3
          <5> QED BY <2>4, <5>1, <5>4 DEF Shows
        <4>4. ASSUME NEW f \in v.busy
              PROVE  \E x \in net \ {r} : x.mine = TRUE /\ f \in Clears(page, x)
          <5>1. f \in view.busy /\ (secured => f # "secure") BY <2>4, <4>4 DEF Shows
          <5>2. PICK x \in net : x.mine = TRUE /\ f \in Clears(page, x) BY <4>1, <5>1 DEF Sound
          <5>3. CASE x # r BY <5>2, <5>3
          <5>4. CASE x = r
            <6>1. f = "secure" BY <2>3, <5>2, <5>4
            <6>2. PICK q \in net : q.mine /\ q.op = "secure" BY <5>1, <6>1
            <6>3. q # r BY <2>1, <6>2
            <6>4. "secure" \notin Queries \cup {"load"} BY DEF Queries
            <6>5. f \in Clears(page, q) BY <1>1, <6>1, <6>2, <6>4 DEF Clears
            <6>6. q.mine = TRUE BY <4>1, <6>2 DEF Sound, IsRequest
            <6> QED BY <6>3, <6>5, <6>6
          <5> QED BY <5>3, <5>4
        <4>5. "busy" \in DOMAIN v BY <2>4 DEF Shows
        <4> HIDE DEF v, secured
        <4>6. Core' /\ page' = page /\ at' = at /\ view' = v
          BY <1>3, <2>2, <2>3, <3>2, <4>3, <4>4, <4>5, Dropping
        <4> QED BY <3>2, <4>6
      <3> QED BY <3>1, <3>2
    <2> HIDE DEF v, secured
    <2> QED BY <1>12, <2>4, <2>5, <2>6
  <1>14. ASSUME NEW r \in net, ActionDone(r) \/ (DeleteDone(r) /\ r.ans = Failed)
         PROVE  Core' /\ page' = page /\ (at' # None => Guards(view'))
    <2> DEFINE v == ActionEnds(view, r.op)
    <2>1. r.op \in DatabaseActions /\ r.op # "rotate"
      BY <1>2, <1>14 DEF ActionDone, DeleteDone, DatabaseActions
    <2>2. Raised(page, r) = {r.op} /\ Clears(page, r) = {r.op}
      <3>1. r.op \in Flags(page) BY <1>2, <2>1
      <3>2. r.op \notin Queries \cup {"load"} BY <1>2, <3>1
      <3>3. r.op # "load" /\ r.op # "detail" BY <1>q, <3>2
      <3> QED BY <1>1, <3>2, <3>3 DEF Clears
    <2>3. /\ Shows(v, DatabaseActions, {})
          /\ "confirm" \in DOMAIN view => "confirm" \in DOMAIN v /\ v.confirm \in {None, view.confirm}
      BY <1>3, <2>1 DEF Core, Shows, ActionEnds
    <2>4. Frees(r, DatabaseActions) BY <1>2, <2>1, <2>2 DEF Frees
    <2>5. CASE r.ans = Failed
      <3>1. Settle(r, v, kept, {}, {}) BY <1>14, <2>5 DEF ActionDone, DeleteDone, Handle
      <3>2. Over(r, DatabaseActions) BY <2>1, <2>2, <2>4 DEF Over
      <3> HIDE DEF v
      <3>3. Core' /\ page' = page /\ at' = at /\ view' = IF r.mine THEN v ELSE view
        BY <1>3, <2>3, <3>1, <3>2, Ending
      <3> QED BY <1>12, <2>3, <3>3
    <2>6. CASE r.ans # Failed /\ r.op # "secure"
      <3>1. Invalidate(r, v, "detail") BY <1>14, <2>6 DEF ActionDone
      <3>2. Yields(r, "detail", DatabaseActions) BY <2>1, <2>2, <2>4 DEF Yields
      <3> HIDE DEF v
      <3>3. Core' /\ page' = page /\ at' = at /\ view' = IF r.mine THEN v ELSE view
        BY <1>3, <1>q, <2>3, <3>1, <3>2, Invalidating
      <3> QED BY <1>12, <2>3, <3>3
    <2>7. CASE r.ans # Failed /\ r.op = "secure"
      <3>1. Invalidate(r, view, "detail") BY <1>14, <2>7 DEF ActionDone
      <3>2. ASSUME NEW q, Is(q, "detail", None) PROVE Clears(page, q) = {"secure"}
        BY <1>1, <1>q, <3>2 DEF Is, Clears
      <3>3. Yields(r, "detail", {}) BY <2>2, <2>7, <3>2 DEF Yields, Frees
      <3>4. Shows(view, {}, {}) BY <1>3, Flagging
      <3>5. Core' /\ page' = page /\ at' = at /\ view' = IF r.mine THEN view ELSE view
        BY <1>3, <1>q, <3>1, <3>3, <3>4, Invalidating
      <3> QED BY <1>3, <3>5
    <2> QED BY <2>5, <2>6, <2>7
  <1>15. ASSUME NEW r \in net, DeleteDone(r), r.ans # Failed PROVE PagesInv'
    BY <1>15, Leaving DEF DeleteDone
  <1>16. ASSUME NEW r \in net, ConnectionStringFetched(r)
         PROVE  Core' /\ page' = page /\ (at' # None => Guards(view'))
    <2> DEFINE v == IF r.ans = Failed THEN Idle(view, "connection")
                    ELSE [Idle(view, "connection") EXCEPT !.string = r.ans.string]
    <2>1. r.op = "load" /\ Settle(r, v, kept, {}, {}) BY <1>16 DEF ConnectionStringFetched, Handle
    <2>2. /\ Shows(v, {"connection"}, {})
          /\ "confirm" \in DOMAIN view => "confirm" \in DOMAIN v /\ v.confirm \in {None, view.confirm}
      BY <1>3 DEF Core, Shows, Idle
    <2>3. Over(r, {"connection"}) BY <1>1, <1>2, <2>1 DEF Over, Frees, Clears
    <2> HIDE DEF v
    <2>4. Core' /\ page' = page /\ at' = at /\ view' = IF r.mine THEN v ELSE view
      BY <1>3, <2>1, <2>2, <2>3, Ending
    <2> QED BY <1>12, <2>2, <2>4
  <1>17. ASSUME NEW r \in net, TokenRotated(r)
         PROVE  Core' /\ page' = page /\ (at' # None => Guards(view'))
    <2> DEFINE v == IF r.ans = Failed THEN ActionEnds(view, "rotate")
                    ELSE [ActionEnds(view, "rotate") EXCEPT !.string = r.ans.string]
    <2>1. r.op = "rotate" /\ Settle(r, v, kept, {}, {}) BY <1>17 DEF TokenRotated, Handle
    <2>2. /\ Shows(v, {"rotate"}, {})
          /\ "confirm" \in DOMAIN view => "confirm" \in DOMAIN v /\ v.confirm \in {None, view.confirm}
      BY <1>3 DEF Core, Shows, ActionEnds
    <2>3. Raised(page, r) = {"rotate"} /\ Clears(page, r) = {"rotate"}
      BY <1>1, <2>1 DEF Clears, Queries
    <2>4. Over(r, {"rotate"}) BY <1>2, <2>3 DEF Over, Frees
    <2> HIDE DEF v
    <2>5. Core' /\ page' = page /\ at' = at /\ view' = IF r.mine THEN v ELSE view
      BY <1>3, <2>1, <2>2, <2>4, Ending
    <2> QED BY <1>12, <2>2, <2>5
  <1>18. ASSUME NEW r \in net, DatabaseServer(r)
         PROVE  Core' /\ page' = page /\ (at' # None => Guards(view'))
    <2>1. PICK s, a : ServerAnswers(r, s, a) \/ ServerFails(r, s) BY <1>18, Zenon DEF DatabaseServer
    <2>2. Core' /\ UNCHANGED <<page, at, view>> BY <1>3, <2>1, ServerKeeps, FailKeeps
    <2> QED BY <1>3, <2>2
  <1> QED
    BY <1>5, <1>6, <1>7, <1>9, <1>10, <1>11, <1>13, <1>14, <1>15, <1>16, <1>17, <1>18 DEF DatabaseNext

(* The effects of the side bar raise no flag and take none down.           *)
LEMMA Settles ==
    ASSUME NEW v, NEW G, NEW S, Shows(v, G, S) PROVE Shows(Settled(v), G, S)
  <1> DEFINE w == IF v.route.page = "backup" /\ "backup" \notin v.may
                  THEN [v EXCEPT !.route.page = "dashboard"] ELSE v
  <1>1. Shows(w, G, S) BY DEF Shows
  <1>2. Settled(v) = IF w.route.db \in w.dbs THEN [w EXCEPT !.selected = w.route.db] ELSE w
    BY DEF Settled
  <1> HIDE DEF w
  <1> QED BY <1>1, <1>2 DEF Shows

(* The side bar, when it is mounted.                                       *)
LEMMA NavigationOpens ==
    ASSUME PagesInv, page = "navigation" \/ page = "projects", OpenNavigation
    PROVE  Core' /\ page' = page
  <1>1. Core BY DEF PagesInv
  <1> DEFINE op == IF page = "navigation" THEN "list" ELSE "load"
  <1>2. PICK may : OpenAt(Server, NavigationHooks(may), {Request(op, None)})
    BY DEF OpenNavigation
  <1>3. "busy" \in DOMAIN NavigationHooks(may) /\ NavigationHooks(may).busy = {}
    BY DEF NavigationHooks
  <1>4. ASSUME NEW q, Is(q, op, None) PROVE Raised(page, q) = {}
    <2>1. None # "rename" BY PagesAssumption DEF FlagNames
    <2> QED BY <1>4, <2>1 DEF Raised, Is
  <1> HIDE DEF op
  <1>5. One(Sent(Server, {Request(op, None)}), op, None) BY Asking
  <1>6. Reader(op, None, {}) BY <1>4 DEF Reader
  <1> QED BY <1>1, <1>2, <1>3, <1>5, <1>6, OpeningOne

(* The side bar and its dialogs (NavigationPage).                          *)
LEMMA NavigationKeeps ==
    ASSUME PagesInv, page = "navigation", OpenNavigation \/ NavigationNext
    PROVE  PagesInv'
  <1>1. \A r : /\ Raised(page, r) = IF r.op \in Queries \cup {"list"} THEN {}
                                    ELSE IF r.op = "create database" THEN {"create"} ELSE {r.op}
               /\ Spins(page, r) = {}
    BY DEF Raised, Spins, TopologyPages, TablesPages, DatabasePages, ContainersPages
  <1>2. {"create", "delete"} \subseteq Flags(page) /\ \A f : Group(page, f) = {f}
    BY DEF Flags, Group, ContainersPages, DatabasePages
  <1>3. Core BY DEF PagesInv
  <1> SUFFICES Core' /\ page' = page BY NothingCovered DEF DatabasePages, ContainersPages
  <1>4. CASE OpenNavigation BY <1>4, NavigationOpens
  (* The user moves.                                                       *)
  <1>5. ASSUME NEW v, Shows(v, {}, {}), Act(v, {}) \/ Act(Settled(v), {})
        PROVE  Core' /\ page' = page
    BY <1>3, <1>5, Settles, Editing
  <1>6. ASSUME NEW l, FollowLink(l) PROVE Core' /\ page' = page
    <2>1. Shows([view EXCEPT !.route = l], {}, {}) BY <1>3 DEF Core, Shows
    <2> QED BY <1>5, <1>6, <2>1 DEF FollowLink
  <1>7. ASSUME NEW d, TypeAddress(d) \/ PickDatabase(d) PROVE Core' /\ page' = page
    <2>1. PICK x, y : \/ Act(Settled([view EXCEPT !.route = x]), {})
                      \/ Act(Settled([view EXCEPT !.selected = y, !.route = x]), {})
      <3>1. CASE TypeAddress(d) BY <3>1, Zenon DEF TypeAddress
      <3>2. CASE PickDatabase(d)
        <4> DEFINE x == [page |-> IF view.route.db = None THEN "dashboard" ELSE view.route.page,
                         db |-> d]
        <4>1. Act(Settled([view EXCEPT !.selected = d, !.route = x]), {})
          BY <3>2 DEF PickDatabase
        <4> HIDE DEF x
        <4> QED BY <4>1
      <3> QED BY <1>7, <3>1, <3>2
    <2>2. /\ Shows([view EXCEPT !.route = x], {}, {})
          /\ Shows([view EXCEPT !.selected = y, !.route = x], {}, {})
      BY <1>3 DEF Core, Shows
    <2> QED BY <1>5, <2>1, <2>2
  <1>8. CASE OpenCreate
    <2>1. PICK x : Act([view EXCEPT !.dialog = x], {}) BY <1>8, Zenon DEF OpenCreate
    <2>2. Shows([view EXCEPT !.dialog = x], {}, {}) BY <1>3 DEF Core, Shows
    <2> QED BY <1>5, <2>1, <2>2
  (* A database is created, or deleted.                                    *)
  <1>9. ASSUME NEW f \in {"create", "delete"}, NEW op, NEW arg, f \notin view.busy,
               Act(Busy(view, f), {Request(op, arg)}),
               op = IF f = "create" THEN "create database" ELSE "delete"
        PROVE  Core' /\ page' = page
    <2> DEFINE v == Busy(view, f)
    <2>1. One({Request(op, arg)}, op, arg) BY Asking
    <2>2. Shows(v, {}, {f}) BY <1>3, Flagging
    <2>3. ASSUME NEW q, Is(q, op, arg) PROVE Raised(page, q) = {f} /\ {f} \subseteq Clears(page, q)
      BY <1>1, <1>9, <2>3 DEF Is, Clears, Queries
    <2>4. f \in Flags(page) /\ Group(page, f) = {f} BY <1>2
    <2>5. Starts(op, arg, f, {f}) BY <1>9, <2>3, <2>4 DEF Starts
    <2>6. Act(v, {Request(op, arg)}) BY <1>9
    <2> HIDE DEF v
    <2> QED BY <1>3, <2>1, <2>2, <2>5, <2>6, Pressing
  <1>10. CASE SubmitDatabase
    <2>1. "create" \notin view.busy /\ Act(Busy(view, "create"), {Request("create database", view.selected)})
      BY <1>10 DEF SubmitDatabase, CreateControls
    <2> QED BY <1>9, <2>1
  <1>11. CASE DeleteShown
    <2> DEFINE arg == [db |-> view.route.db, selected |-> view.selected]
    <2>1. "delete" \notin view.busy /\ Act(Busy(view, "delete"), {Request("delete", arg)})
      BY <1>11 DEF DeleteShown
    <2> HIDE DEF arg
    <2> QED BY <1>9, <2>1
  <1>12. ASSUME NEW r \in net, DatabasesListed(r) PROVE Core' /\ page' = page
    <2>1. Raised(page, r) = {} /\ Clears(page, r) = {} BY <1>1, <1>12 DEF DatabasesListed, Clears
    <2>2. Over(r, {}) BY <2>1 DEF Over, Frees
    <2>3. PICK v : Shows(v, {}, {}) /\ (Settle(r, v, kept, {}, {}) \/ Settle(r, Settled(v), kept, {}, {}))
      <3>1. CASE r.ans = Failed
        <4>1. Shows(view, {}, {}) /\ Shows([view EXCEPT !.crashed = TRUE], {}, {})
          BY <1>3 DEF Core, Shows
        <4>2. Settle(r, view, kept, {}, {}) \/ Settle(r, [view EXCEPT !.crashed = TRUE], kept, {}, {})
          BY <1>12, <3>1 DEF DatabasesListed, Handle
        <4> QED BY <4>1, <4>2
      <3>2. CASE r.ans # Failed
        <4>1. PICK x : Settle(r, Settled([view EXCEPT !.dbs = r.ans.dbs, !.selected = x]), kept, {}, {})
          <5>1. PICK first :
                  Settle(r, Settled([view EXCEPT
                                    !.dbs = r.ans.dbs,
                                    !.selected = IF r.arg \in r.ans.dbs THEN @
                                                 ELSE IF r.arg = None /\ r.ans.dbs = {} THEN @
                                                 ELSE first]), kept, {}, {})
            BY <1>12, <3>2, Zenon DEF DatabasesListed, Handle
          <5> DEFINE x == IF r.arg \in r.ans.dbs THEN view.selected
                          ELSE IF r.arg = None /\ r.ans.dbs = {} THEN view.selected ELSE first
          <5>2. Settle(r, Settled([view EXCEPT !.dbs = r.ans.dbs, !.selected = x]), kept, {}, {})
            BY <5>1
          <5> HIDE DEF x
          <5> QED BY <5>2
        <4> DEFINE v == [view EXCEPT !.dbs = r.ans.dbs, !.selected = x]
        <4>2. Shows(v, {}, {}) BY <1>3 DEF Core, Shows
        <4>3. Settle(r, Settled(v), kept, {}, {}) BY <4>1
        <4> HIDE DEF v
        <4> QED BY <4>2, <4>3
      <3> QED BY <3>1, <3>2
    <2>4. Shows(Settled(v), {}, {}) BY <2>3, Settles
    <2> QED BY <1>3, <2>2, <2>3, <2>4, Ending
  <1>13. ASSUME NEW r \in net, NEW f \in {"create", "delete"},
                r.op = (IF f = "create" THEN "create database" ELSE "delete"), NEW v,
                Shows(v, {f}, {}),
                \/ Settle(r, v, kept, {}, {})
                \/ \E arg : Settle(r, v, kept, {}, Sent(r.at, {Request("list", arg)}))
         PROVE  Core' /\ page' = page
    <2>1. Raised(page, r) = {f} /\ Clears(page, r) = {f} BY <1>1, <1>13 DEF Clears, Queries
    <2>2. f \in Flags(page) /\ Group(page, f) = {f} BY <1>2
    <2>3. Frees(r, {f}) /\ Over(r, {f}) BY <2>1, <2>2 DEF Frees, Over
    <2>4. CASE Settle(r, v, kept, {}, {}) BY <1>3, <1>13, <2>3, <2>4, Ending
    <2>5. CASE \E arg : Settle(r, v, kept, {}, Sent(r.at, {Request("list", arg)}))
      <3>1. PICK arg : Settle(r, v, kept, {}, Sent(r.at, {Request("list", arg)})) BY <2>5
      <3>2. One(Sent(r.at, {Request("list", arg)}), "list", arg) BY Asking
      <3>3. Goes(r, "list", arg, {f}, {}) BY <1>1, <2>1, <2>3 DEF Goes, Is, Queries
      <3> QED BY <1>3, <1>13, <3>1, <3>2, <3>3, Continuing
    <2> QED BY <1>13, <2>4, <2>5
  <1>14. ASSUME NEW r \in net, DatabaseCreated(r) PROVE Core' /\ page' = page
    <2>1. CASE r.ans = Failed
      <3>1. Shows(Idle(view, "create"), {"create"}, {}) BY <1>3, Flagging
      <3> QED BY <1>13, <1>14, <2>1, <3>1 DEF DatabaseCreated, Handle
    <2>2. CASE r.ans # Failed
      <3> DEFINE v == [CreateEnds(view) EXCEPT !.selected = r.ans.new,
                                               !.route = [page |-> "dashboard", db |-> r.ans.new]]
      <3>1. Shows(v, {"create"}, {}) BY <1>3 DEF Core, Shows, CreateEnds, Idle
      <3>2. r.op = "create database" /\ Settle(r, Settled(v), kept, {}, Sent(r.at, {Request("list", r.arg)}))
        BY <1>14, <2>2 DEF DatabaseCreated, Handle
      <3> HIDE DEF v
      <3>3. Shows(Settled(v), {"create"}, {}) BY <3>1, Settles
      <3> QED BY <1>13, <3>2, <3>3
    <2> QED BY <2>1, <2>2
  <1>15. ASSUME NEW r \in net, ShownDeleted(r) PROVE Core' /\ page' = page
    <2>1. CASE r.ans = Failed
      <3>1. Shows(Idle(view, "delete"), {"delete"}, {}) BY <1>3, Flagging
      <3> QED BY <1>13, <1>15, <2>1, <3>1 DEF ShownDeleted, Handle
    <2>2. CASE r.ans # Failed
      <3> DEFINE v == [Idle(view, "delete") EXCEPT !.route = Home]
      <3>1. Shows(v, {"delete"}, {}) BY <1>3 DEF Core, Shows, Idle
      <3>2. r.op = "delete" /\ Settle(r, v, kept, {}, Sent(r.at, {Request("list", r.arg.selected)}))
        BY <1>15, <2>2 DEF ShownDeleted, Handle
      <3> HIDE DEF v
      <3> QED BY <1>13, <3>1, <3>2
    <2> QED BY <2>1, <2>2
  <1>16. ASSUME NEW r \in net, NavigationServer(r) PROVE Core' /\ page' = page
    BY <1>3, <1>16, ServerKeeps, FailKeeps DEF NavigationServer
  <1> QED BY <1>4, <1>6, <1>7, <1>8, <1>10, <1>11, <1>12, <1>14, <1>15, <1>16 DEF NavigationNext

(* The switcher of projects (NavigationPage).                              *)
LEMMA ProjectsKeep ==
    ASSUME PagesInv, page = "projects", OpenNavigation \/ ProjectsNext
    PROVE  PagesInv'
  <1>1. \A r : /\ Raised(page, r) = IF r.op \in Queries THEN {}
                                    ELSE IF r.op = "load" THEN {r.arg} \cap {"rename"}
                                    ELSE IF r.op = "rename" THEN {"rename"} ELSE {"create"}
               /\ Spins(page, r) = {}
    BY DEF Raised, Spins, TopologyPages, TablesPages, DatabasePages, ContainersPages
  <1>2. /\ {"create", "rename"} \subseteq Flags(page) /\ \A f : Group(page, f) = {f}
        /\ None # "rename"
    BY PagesAssumption DEF Flags, Group, ContainersPages, DatabasePages, FlagNames
  <1>3. Core BY DEF PagesInv
  <1> SUFFICES Core' /\ page' = page BY NothingCovered DEF DatabasePages, ContainersPages
  <1>4. CASE OpenNavigation BY <1>4, NavigationOpens
  <1>5. CASE EditProject \/ OpenCreate \/ (SaveProject /\ view.edited = view.project)
    <2>1. PICK x : Act([view EXCEPT !.edited = x], {}) \/ Act([view EXCEPT !.dialog = x], {})
      BY <1>5, Zenon DEF EditProject, OpenCreate, SaveProject
    <2>2. /\ Shows([view EXCEPT !.edited = x], {}, {}) /\ Shows([view EXCEPT !.dialog = x], {}, {})
      BY <1>3 DEF Core, Shows
    <2> QED BY <1>3, <2>1, <2>2, Editing
  <1>6. CASE SubmitProject \/ (SaveProject /\ view.edited # view.project)
    <2>1. PICK f, op, arg :
             /\ Act(Busy(view, f), {Request(op, arg)}) /\ f \notin view.busy
             /\ <<f, op>> \in {<<"create", "create project">>, <<"rename", "rename">>}
      BY <1>6 DEF SubmitProject, SaveProject, ProjectControls, CreateControls
    <2> DEFINE v == Busy(view, f)
    <2>2. One({Request(op, arg)}, op, arg) BY Asking
    <2>3. Shows(v, {}, {f}) BY <1>3, Flagging
    <2>4. ASSUME NEW q, Is(q, op, arg) PROVE Raised(page, q) = {f} /\ {f} \subseteq Clears(page, q)
      BY <1>1, <2>1, <2>4 DEF Is, Clears, Queries
    <2>5. f \in Flags(page) /\ Group(page, f) = {f} BY <1>2, <2>1
    <2>6. Starts(op, arg, f, {f}) BY <2>1, <2>4, <2>5 DEF Starts
    <2>7. Act(v, {Request(op, arg)}) BY <2>1
    <2> HIDE DEF v
    <2> QED BY <1>3, <2>2, <2>3, <2>6, <2>7, Pressing
  <1>7. ASSUME NEW r \in net, ProjectsListed(r) PROVE Core' /\ page' = page
    <2> DEFINE G == {r.arg} \cap {"rename"}
    <2>1. PICK v : Shows(v, G, {}) /\ Settle(r, v, kept, {}, {})
      <3> DEFINE u == IF r.arg = "rename" THEN [Idle(view, "rename") EXCEPT !.edited = None] ELSE view
      <3>1. Shows(u, G, {}) BY <1>3 DEF Core, Shows, Idle
      <3>2. PICK x : \/ Settle(r, u, kept, {}, {})
                     \/ Settle(r, [u EXCEPT !.crashed = TRUE], kept, {}, {})
                     \/ Settle(r, [u EXCEPT !.project = x], kept, {}, {})
        BY <1>7 DEF ProjectsListed, Handle
      <3> HIDE DEF u
      <3>3. Shows([u EXCEPT !.crashed = TRUE], G, {}) /\ Shows([u EXCEPT !.project = x], G, {})
        BY <3>1 DEF Shows
      <3> QED BY <3>1, <3>2, <3>3
    <2>2. Raised(page, r) = G /\ Clears(page, r) = G BY <1>1, <1>7 DEF ProjectsListed, Clears, Queries
    <2>3. Over(r, G) BY <1>2, <2>2 DEF Over, Frees
    <2> QED BY <1>3, <2>1, <2>3, Ending
  <1>8. ASSUME NEW r \in net, NEW f \in {"create", "rename"}, NEW arg, NEW v, NEW G,
               r.op = (IF f = "create" THEN "create project" ELSE "rename"),
               \/ Settle(r, v, kept, {}, {}) /\ G = {f}
               \/ /\ Settle(r, v, kept, {}, Sent(r.at, {Request("load", arg)}))
                  /\ (arg = None /\ G = {f}) \/ (arg = f /\ f = "rename" /\ G = {}),
               Shows(v, G, {})
        PROVE  Core' /\ page' = page
    <2>1. Raised(page, r) = {f} /\ Clears(page, r) = {f} BY <1>1, <1>8 DEF Clears, Queries
    <2>2. f \in Flags(page) /\ Group(page, f) = {f} BY <1>2
    <2>3. Frees(r, G) BY <1>8, <2>1, <2>2 DEF Frees
    <2>4. CASE Settle(r, v, kept, {}, {}) /\ G = {f}
      <3>1. Over(r, G) BY <2>1, <2>3, <2>4 DEF Over
      <3> QED BY <1>3, <1>8, <2>4, <3>1, Ending
    <2>5. CASE /\ Settle(r, v, kept, {}, Sent(r.at, {Request("load", arg)}))
               /\ (arg = None /\ G = {f}) \/ (arg = f /\ f = "rename" /\ G = {})
      <3>1. One(Sent(r.at, {Request("load", arg)}), "load", arg) BY Asking
      <3>2. ASSUME NEW q, Is(q, "load", arg)
            PROVE  Raised(page, q) = {f} \ G /\ Clears(page, q) = {f} \ G
        BY <1>1, <1>2, <1>8, <2>5, <3>2 DEF Is, Clears, Queries
      <3>3. \/ {f} \ G = {}
            \/ {f} \ G = Raised(page, r) /\ G \cap Flags(page) = {}
        BY <2>1, <2>5
      <3>4. Goes(r, "load", arg, G, {}) BY <2>1, <2>3, <3>2, <3>3 DEF Goes, Queries
      <3> QED BY <1>3, <1>8, <2>5, <3>1, <3>4, Continuing
    <2> QED BY <1>8, <2>4, <2>5
  <1>9. ASSUME NEW r \in net, ProjectSaved(r) PROVE Core' /\ page' = page
    <2>1. Shows(Idle(view, "rename"), {"rename"}, {}) /\ Shows(view, {}, {}) BY <1>3, Flagging
    <2>2. \/ Settle(r, Idle(view, "rename"), kept, {}, {})
          \/ Settle(r, view, kept, {}, Sent(r.at, {Request("load", "rename")}))
      BY <1>9 DEF ProjectSaved, Handle
    <2> QED BY <1>8, <1>9, <2>1, <2>2 DEF ProjectSaved
  <1>10. ASSUME NEW r \in net, ProjectCreated(r) PROVE Core' /\ page' = page
    <2>1. /\ Shows(Idle(view, "create"), {"create"}, {})
          /\ Shows(CreateEnds(view), {"create"}, {})
      BY <1>3 DEF Core, Shows, Idle, CreateEnds
    <2>2. \/ Settle(r, Idle(view, "create"), kept, {}, {})
          \/ Settle(r, CreateEnds(view), kept, {}, Sent(r.at, {Request("load", None)}))
      BY <1>10 DEF ProjectCreated, Handle
    <2> QED BY <1>8, <1>10, <2>1, <2>2 DEF ProjectCreated
  <1>11. ASSUME NEW r \in net, NavigationServer(r) PROVE Core' /\ page' = page
    BY <1>3, <1>11, ServerKeeps, FailKeeps DEF NavigationServer
  <1> QED BY <1>4, <1>5, <1>6, <1>7, <1>9, <1>10, <1>11 DEF ProjectsNext

(* The dialog of a project (ProjectDialog).                                *)
LEMMA ProjectKeeps ==
    ASSUME PagesInv, page = "project", OpenProject \/ ProjectNext
    PROVE  PagesInv'
  <1>1. \A r : /\ Raised(page, r) = IF r.op \in Queries \cup {"load"} THEN {} ELSE {"save"}
               /\ Spins(page, r) = IF r.op = "load" THEN {"users"} ELSE {}
    BY DEF Raised, Spins, TopologyPages, TablesPages, DatabasePages, ContainersPages
  <1>2. "save" \in Flags(page) /\ "users" \notin Flags(page) /\ \A f : Group(page, f) = {f}
    BY DEF Flags, Group, ContainersPages, DatabasePages
  <1>3. Core BY DEF PagesInv
  <1>4. SUFFICES PagesInv' \/ (Core' /\ page' = page)
    BY NothingCovered DEF DatabasePages, ContainersPages
  <1>a. \A d : One(Sent(d, {Request("load", None)}), "load", None) BY Asking
  <1>b. Reader("load", None, {"users"}) BY <1>1, <1>2 DEF Reader, Is, Clears
  <1>5. CASE OpenProject
    <2>1. PICK d \in Dbs, may \in {{"name"}, {"name", "users"}} :
             OpenAt(d, ShowProject(ProjectHooks(may), d), {Request("load", None)})
      BY <1>5 DEF OpenProject
    <2> DEFINE v == ShowProject(ProjectHooks(may), d)
    <2>2. "busy" \in DOMAIN v /\ v.busy = {"users"} BY DEF ShowProject, ProjectHooks, Busy
    <2>3. OpenAt(d, v, {Request("load", None)}) BY <2>1
    <2> HIDE DEF v
    <2> QED BY <1>3, <1>a, <1>b, <2>2, <2>3, OpeningOne
  <1>6. CASE SwitchProject
    <2>1. PICK d \in Dbs : SwitchTo(d, ShowProject(view, d), {Request("load", None)})
      BY <1>6 DEF SwitchProject
    <2> DEFINE v == ShowProject(view, d)
    <2>2. Shows(v, {}, {"users"}) BY <1>3 DEF Core, Shows, ShowProject, Busy
    <2>3. SwitchTo(d, v, {Request("load", None)}) BY <2>1
    <2> HIDE DEF v
    <2> QED BY <1>3, <1>a, <1>b, <2>2, <2>3, SwitchingOne
  <1>7. CASE EditProjectDialog
    <2>1. PICK x : Act([view EXCEPT !.name = x], {}) \/ Act([view EXCEPT !.users = x], {})
      BY <1>7 DEF EditProjectDialog
    <2>2. Shows([view EXCEPT !.name = x], {}, {}) /\ Shows([view EXCEPT !.users = x], {}, {})
      BY <1>3 DEF Core, Shows
    <2> QED BY <1>3, <2>1, <2>2, Editing
  <1>8. CASE SaveProjectDialog
    <2> DEFINE op == IF "name" \in view.may THEN "name" ELSE "users"
               arg == [name |-> view.name, users |-> view.users, both |-> "users" \in view.may]
    <2>1. "save" \notin view.busy /\ Act(Busy(view, "save"), {Request(op, arg)})
      BY <1>8 DEF SaveProjectDialog, ProjectDialogControls
    <2>2. op \in {"name", "users"} OBVIOUS
    <2> HIDE DEF op, arg
    <2>3. One({Request(op, arg)}, op, arg) BY Asking
    <2>4. Shows(Busy(view, "save"), {}, {"save"}) BY <1>3, Flagging
    <2>5. ASSUME NEW q, Is(q, op, arg)
          PROVE  Raised(page, q) = {"save"} /\ {"save"} \subseteq Clears(page, q)
      BY <1>1, <2>2, <2>5 DEF Is, Queries, Clears
    <2>6. Group(page, "save") = {"save"} BY <1>2
    <2>7. Starts(op, arg, "save", {"save"}) BY <1>2, <2>1, <2>5, <2>6 DEF Starts
    <2> QED BY <1>3, <2>1, <2>3, <2>4, <2>7, Pressing
  <1>9. ASSUME NEW r \in net, ProjectLoaded(r) PROVE Core' /\ page' = page
    <2> DEFINE v == IF r.ans = Failed THEN Idle(view, "users")
                    ELSE [Idle(view, "users") EXCEPT !.users = r.ans.users, !.from = r.at]
    <2>1. Settle(r, v, kept, {}, {}) BY <1>9 DEF ProjectLoaded, Handle
    <2>2. Shows(v, {"users"}, {}) BY <1>3 DEF Core, Shows, Idle
    <2>3. Over(r, {"users"}) BY <1>1, <1>2, <1>9 DEF ProjectLoaded, Over, Frees, Clears
    <2> HIDE DEF v
    <2> QED BY <1>3, <2>1, <2>2, <2>3, Ending
  <1>10. ASSUME NEW r \in net, ProjectPartSaved(r) PROVE PagesInv' \/ (Core' /\ page' = page)
    <2>1. /\ r.op \in {"name", "users"} /\ Raised(page, r) = {"save"} /\ Clears(page, r) = {"save"}
      BY <1>1, <1>10 DEF ProjectPartSaved, Clears, Queries
    <2>2. CASE r.ans = Failed
      <3>1. Settle(r, Idle(view, "save"), kept, {}, {}) BY <1>10, <2>2 DEF ProjectPartSaved, Handle
      <3>2. Shows(Idle(view, "save"), {"save"}, {}) BY <1>3, Flagging
      <3>3. Over(r, {"save"}) BY <1>2, <2>1 DEF Over, Frees
      <3> QED BY <1>3, <3>1, <3>2, <3>3, Ending
    <2>3. CASE r.ans # Failed /\ r.op = "name" /\ r.arg.both
      <3>1. Settle(r, view, kept, {}, Sent(r.at, {Request("users", r.arg)}))
        BY <1>10, <2>3 DEF ProjectPartSaved, Handle
      <3>2. One(Sent(r.at, {Request("users", r.arg)}), "users", r.arg) BY Asking
      <3>3. Shows(view, {}, {}) BY <1>3, Flagging
      <3>4. Goes(r, "users", r.arg, {}, {})
        BY <1>1, <2>1 DEF Goes, Is, Frees, Clears, Queries
      <3> QED BY <1>3, <3>1, <3>2, <3>3, <3>4, Continuing
    <2>4. CASE r.ans # Failed /\ ~(r.op = "name" /\ r.arg.both) /\ r.mine
      <3>1. at' = None /\ view' = Gone /\ net' = Left(net \ {r}) /\ page' = page
        BY <1>10, <2>4 DEF ProjectPartSaved
      <3> QED BY <3>1, Leaving
    <2>5. CASE r.ans # Failed /\ ~(r.op = "name" /\ r.arg.both) /\ ~r.mine
      <3>1. Settle(r, view, kept, {}, {}) BY <1>10, <2>5 DEF ProjectPartSaved, Handle
      <3>2. r.mine # TRUE BY <2>5
      <3> QED BY <1>3, <3>1, <3>2, Unseen
    <2> QED BY <2>2, <2>3, <2>4, <2>5
  <1>11. ASSUME NEW r \in net, ProjectServer(r) PROVE Core' /\ page' = page
    <2>1. PICK s, a : ServerAnswers(r, s, a) \/ ServerFails(r, s) BY <1>11, Zenon DEF ProjectServer
    <2> QED BY <1>3, <2>1, ServerKeeps, FailKeeps
  <1> QED BY <1>5, <1>6, <1>7, <1>8, <1>9, <1>10, <1>11 DEF ProjectNext

(* The map of the containers, their logs and terminals (ContainersPage).   *)
LEMMA ContainersKeep ==
    ASSUME PagesInv, page \in ContainersPages, OpenContainers \/ ContainersNext
    PROVE  PagesInv'
  <1>0. /\ page \notin {"connections", "branches", "webserver", "users", "user access",
                        "notifications", "navigation", "projects", "project", "limits", "profile"}
        /\ page \notin DatabasePages \cup TopologyPages \cup TablesPages
    BY DEF ContainersPages, TopologyPages, DatabasePages, TablesPages
  <1>1. \A r : /\ Raised(page, r) = IF r.op \in Queries \cup {"move"} THEN {}
                                    ELSE IF r.op \in {"load", "logs"} THEN {r.arg} \ {None}
                                    ELSE IF r.op = "exec" THEN {"exec"} ELSE {r.arg}
               /\ Spins(page, r) = IF r.op \in {"load", "logs"} THEN {r.op} ELSE {}
    <2> TAKE r
    <2>1. Raised(page, r) = IF r.op \in Queries THEN {}
                            ELSE IF r.op \in {"load", "logs"} THEN {r.arg} \ {None}
                            ELSE IF r.op = "exec" THEN {"exec"}
                            ELSE IF r.op = "move" THEN {} ELSE {r.arg}
      BY <1>0 DEF Raised
    <2>2. Spins(page, r) = IF r.op \in {"load", "logs"} THEN {r.op} ELSE {} BY <1>0 DEF Spins
    <2> QED BY <2>1, <2>2
  <1>2. /\ Flags(page) = Items \cup {"exec", Proxy} /\ {None, "load", "logs"} \cap Flags(page) = {}
        /\ \A f : Group(page, f) = {f}
    <2>1. Flags(page) = Items \cup {"exec", Proxy} BY <1>0 DEF Flags
    <2>2. \A f : Group(page, f) = {f} BY <1>0 DEF Group
    <2>3. {None, "load", "logs"} \cap (Items \cup {"exec", Proxy}) = {}
      BY PagesAssumption DEF FlagNames, Proxy
    <2> QED BY <2>1, <2>2, <2>3
  <1>3. Core /\ (at # None => Asks(view)) BY DEF PagesInv, Covered
  <1>4. SUFFICES Core' /\ page' = page /\ (at' # None => Asks(view'))
    BY <1>0 DEF PagesInv, Covered, Numbered
  <1> DEFINE Alright(v) == "pending" \in DOMAIN view =>
                              "pending" \in DOMAIN v /\ v.pending \in {None, view.pending}
  <1>a. ASSUME NEW v, Alright(v), at # None PROVE Asks(v) BY <1>3, <1>a DEF Asks
  <1>b. Reader("load", None, {"load"}) BY <1>1, <1>2 DEF Reader, Is, Queries, Clears
  <1>c. \A then : FetchContainers(then) = Request("load", then) BY DEF FetchContainers
  <1>5. CASE OpenContainers
    <2>1. OpenAt(Server, ContainersHooks, {Request("load", None)}) BY <1>5, <1>c DEF OpenContainers
    <2>2. /\ "busy" \in DOMAIN ContainersHooks /\ ContainersHooks.busy = {"load"}
          /\ "pending" \in DOMAIN ContainersHooks /\ ContainersHooks.pending = None
      BY DEF ContainersHooks
    <2>3. One(Sent(Server, {Request("load", None)}), "load", None) BY Asking
    <2>4. Core' /\ page' = page /\ view' = ContainersHooks
      BY <1>3, <1>b, <2>1, <2>2, <2>3, OpeningOne
    <2> QED BY <2>2, <2>4 DEF Asks
  (* What the user does without asking for anything.                       *)
  <1>6. ASSUME NEW v, Act(v, {}), Shows(v, {}, {}), at # None => Asks(v)
        PROVE  Core' /\ page' = page /\ (at' # None => Asks(view'))
    <2>1. Core' /\ page' = page /\ at' = at /\ view' = v BY <1>3, <1>6, Editing
    <2> QED BY <1>6, <2>1
  <1>7. ASSUME NEW c \in Items, NEW op \in ContainerActions, AskContainerAction(c, op)
        PROVE  Core' /\ page' = page /\ (at' # None => Asks(view'))
    <2> DEFINE v == [view EXCEPT !.pending = [of |-> c, op |-> op]]
    <2>1. Act(v, {}) BY <1>7 DEF AskContainerAction
    <2>2. Shows(v, {}, {}) /\ (at # None => Asks(v)) BY <1>3 DEF Core, Shows, Asks
    <2> HIDE DEF v
    <2> QED BY <1>6, <2>1, <2>2
  <1>8. ASSUME CloseMapDialogs \/ \E c \in Items : OpenTerminal(c)
        PROVE  Core' /\ page' = page /\ (at' # None => Asks(view'))
    <2>1. PICK x : \/ Act([view EXCEPT !.pending = None], {})
                   \/ Act([view EXCEPT !.logs = x], {})
                   \/ Act([view EXCEPT !.terminal = x], {})
      <3>1. CASE OpenTerminal(None) \/ \E c \in Items : OpenTerminal(c)
        BY <3>1 DEF OpenTerminal
      <3>2. CASE CloseMapDialogs
        <4> DEFINE x == [view.logs EXCEPT !.open = FALSE]
        <4>1. \/ Act([view EXCEPT !.pending = None], {})
              \/ Act([view EXCEPT !.logs = x], {})
              \/ Act([view EXCEPT !.terminal = None], {})
          BY <3>2 DEF CloseMapDialogs
        <4> HIDE DEF x
        <4> QED BY <4>1
      <3> QED BY <1>8, <3>1, <3>2
    <2>2. /\ Shows([view EXCEPT !.pending = None], {}, {}) /\ Alright([view EXCEPT !.pending = None])
          /\ Shows([view EXCEPT !.logs = x], {}, {}) /\ Alright([view EXCEPT !.logs = x])
          /\ Shows([view EXCEPT !.terminal = x], {}, {}) /\ Alright([view EXCEPT !.terminal = x])
      BY <1>3 DEF Core, Shows
    <2> QED BY <1>6, <1>a, <2>1, <2>2
  (* What it asks for.                                                     *)
  <1>9. ASSUME PollContainers \/ \E c \in Items, p \in Vals : MoveToProject(c, p)
        PROVE  Core' /\ page' = page /\ (at' # None => Asks(view'))
    <2>1. PICK v, op, arg, S :
             /\ Act(v, {Request(op, arg)}) /\ Reader(op, arg, S)
             /\ Shows(v, {}, S) /\ Alright(v)
      <3>1. CASE PollContainers
        <4>1. Shows(Busy(view, "load"), {}, {"load"}) /\ Alright(Busy(view, "load"))
          BY <1>3, Flagging DEF Busy
        <4> QED BY <1>b, <1>c, <3>1, <4>1 DEF PollContainers
      <3>2. CASE \E c \in Items, p \in Vals : MoveToProject(c, p)
        <4>1. PICK arg : Act(view, {Request("move", arg)}) BY <3>2 DEF MoveToProject
        <4>2. Shows(view, {}, {}) /\ Alright(view) BY <1>3, Flagging
        <4>3. Reader("move", arg, {}) BY <1>1 DEF Reader, Is
        <4> QED BY <4>1, <4>2, <4>3
      <3> QED BY <1>9, <3>1, <3>2
    <2>2. One({Request(op, arg)}, op, arg) BY Asking
    <2>3. Core' /\ page' = page /\ at' = at /\ view' = v BY <1>3, <2>1, <2>2, Querying
    <2> QED BY <1>a, <2>1, <2>3
  <1>10. ASSUME NEW f \in Flags(page), f \notin view.busy, NEW T \in SUBSET {"logs"},
                NEW op, NEW arg, NEW v, Act(v, {Request(op, arg)}), Shows(v, {}, {f} \cup T), Alright(v),
                \A q : Is(q, op, arg) => Raised(page, q) = {f} /\ T \subseteq Clears(page, q)
         PROVE  Core' /\ page' = page /\ (at' # None => Asks(view'))
    <2>1. One({Request(op, arg)}, op, arg) BY Asking
    <2>2. Group(page, f) = {f} BY <1>2
    <2>3. view.busy \cap Group(page, f) = {} BY <1>10, <2>2
    <2> DEFINE U == {f} \cup T
    <2>4. f \in Flags(page) \cap U /\ U \cap Flags(page) \subseteq {f} BY <1>2
    <2>5. \A q : Is(q, op, arg) => Raised(page, q) = {f} /\ U \subseteq Clears(page, q)
      BY <1>10 DEF Clears
    <2>6. Shows(v, {}, U) BY <1>10
    <2> HIDE DEF U
    <2>7. Starts(op, arg, f, U) BY <2>3, <2>4, <2>5 DEF Starts
    <2>8. Core' /\ page' = page /\ at' = at /\ view' = v BY <1>3, <1>10, <2>1, <2>6, <2>7, Pressing
    <2> QED BY <1>a, <1>10, <2>8
  <1>11. CASE ConfirmContainerAction
    <2> DEFINE f == view.pending.of
               op == view.pending.op
               v == Busy(view, f)
    <2>1. view.pending # None /\ f \notin view.busy /\ Act(v, {Request(op, f)})
      BY <1>11 DEF ConfirmContainerAction, MapControls
    <2>2. f \in Items /\ op \in ContainerActions BY <1>3, <2>1 DEF Asks, Act
    <2>3. Shows(v, {}, {f} \cup {}) /\ Alright(v) BY <1>3, Flagging DEF Busy, Shows
    <2> HIDE DEF f, op, v
    <2>4. \A q : Is(q, op, f) => Raised(page, q) = {f} /\ {} \subseteq Clears(page, q)
      BY <1>1, <2>2 DEF Is, Queries, ContainerActions
    <2>5. f \in Flags(page) BY <1>2, <2>2
    <2> QED BY <1>10, <2>1, <2>3, <2>4, <2>5
  <1>12. CASE Execute
    <2> DEFINE arg == [of |-> view.terminal, cwd |-> view.cwd[view.terminal]]
               v == Busy(view, "exec")
    <2>1. "exec" \notin view.busy /\ Act(v, {Request("exec", arg)}) BY <1>12 DEF Execute, MapControls
    <2>2. Shows(v, {}, {"exec"} \cup {}) /\ Alright(v) BY <1>3, Flagging DEF Busy, Shows
    <2> HIDE DEF arg, v
    <2>3. \A q : Is(q, "exec", arg) => Raised(page, q) = {"exec"} /\ {} \subseteq Clears(page, q)
      BY <1>1 DEF Is, Queries
    <2>4. "exec" \in Flags(page) BY <1>2
    <2> QED BY <1>10, <2>1, <2>2, <2>3, <2>4
  <1>13. ASSUME NEW c \in Items \cup {Proxy}, OpenLogs(c)
         PROVE  Core' /\ page' = page /\ (at' # None => Asks(view'))
    <2> DEFINE v == [view EXCEPT !.busy = @ \cup {c, "logs"},
                                 !.logs = [open |-> TRUE, name |-> c, text |-> None]]
    <2>1. c \notin view.busy /\ Act(v, {Request("logs", c)}) BY <1>13 DEF OpenLogs, CardButtons
    <2>2. Shows(v, {}, {c} \cup {"logs"}) /\ Alright(v) BY <1>3 DEF Core, Shows
    <2> HIDE DEF v
    <2>3. c \in Flags(page) /\ c # None BY <1>2
    <2>4. \A q : Is(q, "logs", c) => Raised(page, q) = {c} /\ {"logs"} \subseteq Clears(page, q)
      BY <1>1, <2>3 DEF Is, Queries, Clears
    <2> QED BY <1>10, <2>1, <2>2, <2>3, <2>4
  (* How a handler ends.                                                   *)
  <1>14. ASSUME NEW r \in net, NEW v, NEW G, Settle(r, v, kept, {}, {}), Shows(v, G, {}), Alright(v),
                Over(r, G)
         PROVE  Core' /\ page' = page /\ (at' # None => Asks(view'))
    <2>1. Core' /\ page' = page /\ at' = at /\ view' = IF r.mine THEN v ELSE view
      BY <1>3, <1>14, Ending
    <2> QED BY <1>3, <1>a, <1>14, <2>1
  <1>15. ASSUME NEW r \in net, NEW arg, Settle(r, Busy(view, "load"), kept, {}, {Request("load", arg)}),
                \/ arg = None /\ Raised(page, r) = {} /\ Clears(page, r) = {}
                \/ arg # None /\ Raised(page, r) = {arg} /\ Clears(page, r) = {arg}
         PROVE  Core' /\ page' = page /\ (at' # None => Asks(view'))
    <2> DEFINE v == Busy(view, "load")
    <2>1. Shows(v, {}, {"load"}) /\ Alright(v) BY <1>3, Flagging DEF Busy
    <2>2. One({Request("load", arg)}, "load", arg) BY Asking
    <2>3. ASSUME NEW q, Is(q, "load", arg)
          PROVE  Raised(page, q) = Raised(page, r) /\ Clears(page, q) = Raised(page, r) \cup {"load"}
      BY <1>1, <1>15, <2>3 DEF Is, Queries, Clears
    <2>4. Goes(r, "load", arg, {}, {"load"})
      BY <1>2, <1>15, <2>3 DEF Goes, Queries, Frees
    <2>5. Settle(r, v, kept, {}, {Request("load", arg)}) BY <1>15
    <2> HIDE DEF v
    <2>6. Core' /\ page' = page /\ at' = at /\ view' = IF r.mine THEN v ELSE view
      BY <1>3, <2>1, <2>2, <2>4, <2>5, Continuing
    <2> QED BY <1>3, <1>a, <2>1, <2>6
  <1>d. \A c, x : /\ Shows(ActionOver(Idle(view, x), c), {x} \cup ({c} \ {None}), {})
                  /\ Shows(ActionOver(view, c), {c} \ {None}, {})
                  /\ Alright(ActionOver(Idle(view, x), c)) /\ Alright(ActionOver(view, c))
    BY <1>3 DEF Core, Shows, ActionOver, Idle
  <1>16. ASSUME NEW r \in net, ContainersFetched(r)
         PROVE  Core' /\ page' = page /\ (at' # None => Asks(view'))
    <2> DEFINE G == {"load"} \cup ({r.arg} \ {None})
               u == ActionOver(Idle(view, "load"), r.arg)
               v == IF r.ans = Failed THEN [u EXCEPT !.error = TRUE]
                    ELSE [u EXCEPT !.containers = r.ans, !.error = FALSE]
    <2>1. r.op = "load" /\ Settle(r, v, kept, {}, {}) BY <1>16 DEF ContainersFetched, Handle
    <2>2. Shows(u, G, {}) /\ Alright(u) BY <1>d
    <2> HIDE DEF u
    <2>3. Shows(v, G, {}) /\ Alright(v) BY <2>2 DEF Shows
    <2>4. Raised(page, r) = {r.arg} \ {None} /\ Clears(page, r) = G
      BY <1>1, <2>1 DEF Clears, Queries
    <2>5. Frees(r, G)
      <3>1. ASSUME NEW g \in G PROVE g \notin Flags(page) \/ \E f \in Raised(page, r) : g \in Group(page, f)
        BY <1>2, <2>4
      <3> QED BY <3>1 DEF Frees
    <2>6. Over(r, G) BY <2>4, <2>5 DEF Over
    <2> HIDE DEF v
    <2> QED BY <1>14, <2>1, <2>3, <2>6
  <1>17. ASSUME NEW r \in net, ContainerActionDone(r)
         PROVE  Core' /\ page' = page /\ (at' # None => Asks(view'))
    <2>1. r.op \in ContainerActions BY <1>17 DEF ContainerActionDone
    <2>2. Raised(page, r) = {r.arg} /\ Clears(page, r) = {r.arg}
      BY <1>1, <2>1 DEF ContainerActions, Queries, Clears
    <2>3. r.arg \in Flags(page) /\ r.arg # None
      <3>1. Raised(page, r) \subseteq Flags(page) BY <1>3 DEF Core, Sound
      <3> QED BY <1>2, <2>2, <3>1
    <2>4. CASE r.ans = Failed
      <3> DEFINE v == ActionOver(view, r.arg)
      <3>1. Settle(r, v, kept, {}, {}) BY <1>17, <2>4 DEF ContainerActionDone, Handle
      <3>2. Shows(v, {r.arg} \ {None}, {}) /\ Alright(v) BY <1>d
      <3>3. {r.arg} \ {None} = {r.arg} BY <2>3
      <3>4. Over(r, {r.arg} \ {None}) BY <1>2, <2>2, <3>3 DEF Over, Frees
      <3> HIDE DEF v
      <3> QED BY <1>14, <3>1, <3>2, <3>4
    <2>5. CASE r.ans # Failed
      <3>1. Settle(r, Busy(view, "load"), kept, {}, {Request("load", r.arg)})
        BY <1>17, <1>c, <2>5 DEF ContainerActionDone, Handle
      <3> QED BY <1>15, <2>2, <2>3, <3>1
    <2> QED BY <2>4, <2>5
  <1>18. ASSUME NEW r \in net, MovedToProject(r)
         PROVE  Core' /\ page' = page /\ (at' # None => Asks(view'))
    <2>1. r.op = "move" BY <1>18 DEF MovedToProject
    <2>2. Raised(page, r) = {} /\ Clears(page, r) = {} BY <1>1, <2>1 DEF Clears
    <2>3. CASE r.ans = Failed
      <3>1. Settle(r, view, kept, {}, {}) BY <1>18, <2>3 DEF MovedToProject, Handle
      <3>2. Shows(view, {}, {}) /\ Alright(view) BY <1>3, Flagging
      <3>3. Over(r, {}) BY <2>2 DEF Over, Frees
      <3> QED BY <1>14, <3>1, <3>2, <3>3
    <2>4. CASE r.ans # Failed
      <3>1. Settle(r, Busy(view, "load"), kept, {}, {Request("load", None)})
        BY <1>18, <1>c, <2>4 DEF MovedToProject, Handle
      <3> QED BY <1>15, <2>2, <3>1
    <2> QED BY <2>3, <2>4
  <1>19. ASSUME NEW r \in net, LogsFetched(r)
         PROVE  Core' /\ page' = page /\ (at' # None => Asks(view'))
    <2> DEFINE G == {r.arg, "logs"}
               x == [view.logs EXCEPT !.text = r.ans]
               v == [view EXCEPT !.busy = @ \ G, !.logs = x]
    <2>1. r.op = "logs" /\ Settle(r, v, kept, {}, {}) BY <1>19 DEF LogsFetched, Handle
    <2> HIDE DEF x
    <2>2. Shows(v, G, {}) /\ Alright(v) BY <1>3 DEF Core, Shows
    <2>3. Raised(page, r) = {r.arg} \ {None} /\ Clears(page, r) \subseteq G
      BY <1>1, <2>1 DEF Clears, Queries
    <2>4. ASSUME NEW g \in G PROVE g \notin Flags(page) \/ \E f \in Raised(page, r) : g \in Group(page, f)
      BY <1>2, <2>3
    <2>5. Over(r, G) BY <2>3, <2>4 DEF Over, Frees
    <2> HIDE DEF v, G
    <2> QED BY <1>14, <2>1, <2>2, <2>5
  <1>20. ASSUME NEW r \in net, Executed(r)
         PROVE  Core' /\ page' = page /\ (at' # None => Asks(view'))
    <2>1. PICK x : /\ r.op = "exec"
                   /\ \/ Settle(r, Idle(view, "exec"), kept, {}, {})
                      \/ Settle(r, [Idle(view, "exec") EXCEPT !.cwd = x], kept, {}, {})
      <3> DEFINE x == [Idle(view, "exec").cwd EXCEPT ![r.arg.of] = r.ans.cwd]
      <3>1. /\ r.op = "exec"
            /\ \/ Settle(r, Idle(view, "exec"), kept, {}, {})
               \/ Settle(r, [Idle(view, "exec") EXCEPT !.cwd = x], kept, {}, {})
        BY <1>20 DEF Executed, Handle
      <3> HIDE DEF x
      <3> QED BY <3>1
    <2>2. /\ Shows(Idle(view, "exec"), {"exec"}, {}) /\ Alright(Idle(view, "exec"))
          /\ Shows([Idle(view, "exec") EXCEPT !.cwd = x], {"exec"}, {})
          /\ Alright([Idle(view, "exec") EXCEPT !.cwd = x])
      BY <1>3 DEF Core, Shows, Idle
    <2>3. Raised(page, r) = {"exec"} /\ Clears(page, r) = {"exec"} BY <1>1, <2>1 DEF Clears, Queries
    <2>4. Over(r, {"exec"}) BY <1>2, <2>3 DEF Over, Frees
    <2> QED BY <1>14, <2>1, <2>2, <2>4
  <1>21. ASSUME NEW r \in net, ContainersServer(r)
         PROVE  Core' /\ page' = page /\ (at' # None => Asks(view'))
    <2>1. PICK s, a : ServerAnswers(r, s, a) \/ ServerFails(r, s) BY <1>21, Zenon DEF ContainersServer
    <2>2. Core' /\ UNCHANGED <<page, at, view>> BY <1>3, <2>1, ServerKeeps, FailKeeps
    <2> QED BY <1>3, <2>2
  <1> QED
    BY <1>5, <1>7, <1>8, <1>9, <1>11, <1>12, <1>13, <1>16, <1>17, <1>18, <1>19, <1>20, <1>21
    DEF ContainersNext

(* What an effect, or a line that was drawn, asks for: nobody waits for it.*)
Unwaited(op, arg) ==
    \/ op = "save cards" /\ arg.then \in {"effect", "link"}
    \/ op = "automate" /\ arg.then = "link"
    \/ op = "load" /\ arg = "link"

(* The cards of the map, their links and automations (TopologyCardsPage).  *)
LEMMA TopologyKeeps ==
    ASSUME PagesInv, page \in TopologyPages, OpenTopology \/ TopologyNext
    PROVE  PagesInv'
  <1>0. /\ page \notin {"connections", "branches", "webserver", "users", "user access",
                        "notifications", "navigation", "projects", "project", "limits", "profile"}
        /\ page \notin DatabasePages \cup ContainersPages \cup TablesPages
    BY DEF ContainersPages, TopologyPages, DatabasePages, TablesPages
  <1>1. \A r : /\ Raised(page, r) = IF r.op \in Queries THEN {}
                                    ELSE IF r.op = "load" THEN {r.arg} \cap {"assign", "remove"}
                                    ELSE IF r.op = "list" THEN {r.arg.then} \cap {"assign", "remove"}
                                    ELSE IF r.op = "create" THEN {"create"}
                                    ELSE IF r.op = "apply"
                                    THEN (IF r.arg.then = "assign" THEN {"assign"} ELSE {None})
                                    ELSE IF r.op = "automate"
                                    THEN (IF r.arg.then = "assign" THEN {"assign"}
                                          ELSE IF r.arg.then = "link" THEN {} ELSE {None})
                                    ELSE IF r.op = "save cards"
                                    THEN {r.arg.then} \cap {"assign", "remove"}
                                    ELSE {"remove"}
               /\ Spins(page, r) = IF r.op \in {"load", "list"} THEN {"load"} ELSE {}
    BY <1>0 DEF Raised, Spins
  <1>2. /\ {"create", "assign", "remove"} \subseteq Flags(page) /\ "load" \notin Flags(page)
        /\ None \notin Flags(page) /\ \A f : Group(page, f) = {f}
    <2>1. {"create", "assign", "remove"} \subseteq Flags(page) /\ "load" \notin Flags(page)
      BY <1>0 DEF Flags
    <2>2. \A f : Group(page, f) = {f} BY <1>0 DEF Group
    <2>3. Flags(page) \subseteq FlagNames BY <1>0 DEF Flags, FlagNames
    <2> QED BY <2>1, <2>2, <2>3, PagesAssumption
  <1>3. Core BY DEF PagesInv
  <1> SUFFICES (Core' /\ page' = page) \/ PagesInv' BY <1>0, NothingCovered
  <1>a. Reader("load", "poll", {"load"}) BY <1>1, <1>2 DEF Reader, Is, Queries, Clears
  <1>b. \A then : FetchMap(then) = Request("load", then) BY DEF FetchMap
  (* Requests nobody waits for: what an effect or a line asks for.         *)
  <1> DEFINE Quiet1(asked) ==
                \E op, arg : /\ One(asked, op, arg)
                             /\ Unwaited(op, arg)
  <1>c. ASSUME NEW op, NEW arg,
               Unwaited(op, arg),
               NEW q, Is(q, op, arg)
        PROVE  op \notin Queries /\ Raised(page, q) = {}
    BY <1>1, <1>c DEF Is, Queries, Unwaited
  <1>d. \A v : SaveCards(v, "effect") = {} \/ Quiet1(SaveCards(v, "effect"))
    <2> TAKE v
    <2> DEFINE arg == [doc |-> v.doc, then |-> "effect"]
    <2>1. arg.then = "effect" OBVIOUS
    <2>2. SaveCards(v, "effect") = {} \/ SaveCards(v, "effect") = {Request("save cards", arg)}
      BY DEF SaveCards
    <2> HIDE DEF arg
    <2>3. One({Request("save cards", arg)}, "save cards", arg) BY Asking
    <2> QED BY <2>1, <2>2, <2>3 DEF Unwaited
  <1> HIDE DEF Quiet1
  (* What the user does.                                                   *)
  <1>4. CASE OpenTopology
    <2>1. "busy" \in DOMAIN TopologyHooks /\ TopologyHooks.busy = {"load"} BY DEF TopologyHooks
    <2>2. One(Sent(Server, {Request("load", "poll")}), "load", "poll") BY Asking
    <2>3. OpenAt(Server, TopologyHooks, {Request("load", "poll")}) BY <1>4, <1>b DEF OpenTopology
    <2> QED BY <1>3, <1>a, <2>1, <2>2, <2>3, OpeningOne
  <1>5. CASE PollMap
    <2>1. Shows(Busy(view, "load"), {}, {"load"}) BY <1>3, Flagging
    <2>2. One({Request("load", "poll")}, "load", "poll") BY Asking
    <2>3. Act(Busy(view, "load"), {Request("load", "poll")}) BY <1>5, <1>b DEF PollMap
    <2> QED BY <1>3, <1>a, <2>1, <2>2, <2>3, Querying
  <1>6. ASSUME NEW v, NEW asked, Act(v, asked), Shows(v, {}, {}), asked = {} \/ Quiet1(asked)
        PROVE  Core' /\ page' = page
    <2>1. CASE asked = {} BY <1>3, <1>6, <2>1, Editing
    <2>2. CASE Quiet1(asked)
      <3>1. PICK op, arg : /\ One(asked, op, arg)
                           /\ Unwaited(op, arg)
        BY <2>2 DEF Quiet1
      <3>2. Reader(op, arg, {}) BY <1>c, <3>1 DEF Reader
      <3> QED BY <1>3, <1>6, <3>1, <3>2, Querying
    <2> QED BY <1>6, <2>1, <2>2
  <1>e. \A x : /\ Shows([view EXCEPT !.doc = x], {}, {}) /\ Shows([view EXCEPT !.assign = x], {}, {})
               /\ Shows([view EXCEPT !.remove = x], {}, {}) /\ Shows([view EXCEPT !.dbs = x], {}, {})
               /\ Shows([view EXCEPT !.last = x], {}, {}) /\ Shows(view, {}, {})
    BY <1>3 DEF Core, Shows
  <1>7. CASE CloseMapDialog \/ DropBackupOnDatabase \/ AskDeletion
    <2>1. PICK x : Act([view EXCEPT !.assign = x], {}) \/ Act([view EXCEPT !.remove = x], {})
      BY <1>7, Zenon DEF CloseMapDialog, DropBackupOnDatabase, AskDeletion
    <2> QED BY <1>6, <1>e, <2>1
  <1>8. CASE CreateAutomationCard
    <2>1. PICK id : LET v == [view EXCEPT !.doc.autos = Append(@, [id |-> id, db |-> None, backup |-> None])] IN
                    Act(v, SaveCards(v, "effect"))
      BY <1>8, Zenon DEF CreateAutomationCard
    <2> DEFINE x == [view.doc EXCEPT !.autos = Append(@, [id |-> id, db |-> None, backup |-> None])]
               v == [view EXCEPT !.doc = x]
    <2>2. Act(v, SaveCards(v, "effect")) BY <2>1
    <2> HIDE DEF x
    <2>3. Shows(v, {}, {}) BY <1>e
    <2> HIDE DEF v
    <2> QED BY <1>6, <1>d, <2>2, <2>3
  <1>9. CASE LinkAutomation
    <2>1. PICK b, c :
             LET v == [view EXCEPT !.doc.autos = [i \in DOMAIN @ |->
                      IF @[i].id = c.id THEN [@[i] EXCEPT !.backup = b.id, !.db = b.db] ELSE @[i]]] IN
             Act(v, IF Unsaved(v)
                   THEN {Request("save cards", [doc |-> v.doc, then |-> "link", db |-> b.db])}
                   ELSE IF b.db = None THEN {}
                   ELSE {Request("automate", [db |-> b.db, then |-> "link"])})
      BY <1>9, Zenon DEF LinkAutomation
    <2> DEFINE x == [view.doc EXCEPT !.autos = [i \in DOMAIN @ |->
                      IF @[i].id = c.id THEN [@[i] EXCEPT !.backup = b.id, !.db = b.db] ELSE @[i]]]
               v == [view EXCEPT !.doc = x]
               arg1 == [doc |-> v.doc, then |-> "link", db |-> b.db]
               arg2 == [db |-> b.db, then |-> "link"]
    <2>2. \/ Act(v, {Request("save cards", arg1)}) \/ Act(v, {}) \/ Act(v, {Request("automate", arg2)})
      BY <2>1
    <2> HIDE DEF x
    <2>3. Shows(v, {}, {}) BY <1>e
    <2>4. arg1.then = "link" /\ arg2.then = "link" OBVIOUS
    <2> HIDE DEF v, arg1, arg2
    <2>5. Quiet1({Request("save cards", arg1)}) BY <2>4, Asking DEF Quiet1, Unwaited
    <2>6. Quiet1({Request("automate", arg2)}) BY <2>4, Asking DEF Quiet1, Unwaited
    <2> QED BY <1>6, <2>2, <2>3, <2>5, <2>6
  <1>10. ASSUME NEW f \in {"create", "assign", "remove"}, f \notin view.busy, NEW v, NEW op, NEW arg,
                Act(v, {Request(op, arg)}), Shows(v, {}, {f}),
                \/ f = op /\ op = "create"
                \/ f = "assign" /\ op = "apply" /\ arg.then = "assign"
                \/ f = "remove" /\ op \in {"clear", "discard", "delete"}
                \/ f = "remove" /\ op = "load" /\ arg = "remove"
                \/ f = "remove" /\ op = "save cards" /\ arg.then = "remove"
         PROVE  Core' /\ page' = page
    <2>1. One({Request(op, arg)}, op, arg) BY Asking
    <2>2. ASSUME NEW q, Is(q, op, arg) PROVE Raised(page, q) = {f} /\ {f} \subseteq Clears(page, q)
      BY <1>1, <1>10, <2>2 DEF Is, Queries, Clears
    <2>3. Group(page, f) = {f} /\ f \in Flags(page) BY <1>2
    <2>4. Starts(op, arg, f, {f}) BY <1>10, <2>2, <2>3 DEF Starts
    <2> QED BY <1>3, <1>10, <2>1, <2>4, Pressing
  <1>f. \A f : Shows(Busy(view, f), {}, {f}) /\ Shows(Idle(view, f), {f}, {}) BY <1>3, Flagging
  <1>11. CASE CreateBackupCard
    <2>1. PICK id : "create" \notin view.busy /\ Act(Busy(view, "create"), {Request("create", id)})
      BY <1>11 DEF CreateBackupCard
    <2> QED BY <1>10, <1>f, <2>1
  <1>12. CASE ConfirmAssignment
    <2> DEFINE a == view.assign
               arg == [card |-> a.card, db |-> a.db, doc |-> view.doc, then |-> "assign",
                       fails |-> view.settings[a.db] = "off"]
    <2>1. "assign" \notin view.busy /\ Act(Busy(view, "assign"), {Request("apply", arg)})
      BY <1>12 DEF ConfirmAssignment
    <2>2. arg.then = "assign" OBVIOUS
    <2> HIDE DEF arg
    <2> QED BY <1>10, <1>f, <2>1, <2>2
  <1>13. CASE ConfirmDeletion
    <2>1. "remove" \notin view.busy BY <1>13 DEF ConfirmDeletion
    <2>2. PICK doc, op, arg :
             /\ \/ Act(Busy(view, "remove"), {Request(op, arg)})
                \/ Act([Busy(view, "remove") EXCEPT !.doc = doc], {Request(op, arg)})
             /\ \/ op \in {"clear", "discard", "delete"}
                \/ op = "load" /\ arg = "remove"
                \/ op = "save cards" /\ arg.then = "remove"
      <3> DEFINE X == view.remove
                 V == Busy(view, "remove")
                 Clear(c, doc, stored) ==
                    [db |-> c.db, to |-> IF X.kind = "backup" THEN "off" ELSE "on",
                     new |-> doc, doc |-> view.doc, discard |-> stored /\ X.kind = "backup"]
                 Beginning(c, doc, stored) ==
                    IF c.db # None THEN Act(V, {Request("clear", Clear(c, doc, stored))})
                    ELSE IF X.kind = "backup" THEN Act(V, {Request("discard", Clear(c, doc, stored))})
                    ELSE LET w == [V EXCEPT !.doc = doc] IN
                         Act(w, IF Unsaved(w) THEN SaveCards(w, "remove") ELSE {FetchMap("remove")})
      <3>1. ASSUME NEW c, NEW doc, NEW stored, Beginning(c, doc, stored)
            PROVE  \E op, arg :
                      /\ \/ Act(V, {Request(op, arg)})
                         \/ Act([V EXCEPT !.doc = doc], {Request(op, arg)})
                      /\ \/ op \in {"clear", "discard", "delete"}
                         \/ op = "load" /\ arg = "remove"
                         \/ op = "save cards" /\ arg.then = "remove"
        <4> DEFINE w == [V EXCEPT !.doc = doc]
                   arg == [doc |-> w.doc, then |-> "remove"]
                   k == Clear(c, doc, stored)
        <4>1. \/ Act(V, {Request("clear", k)}) \/ Act(V, {Request("discard", k)})
              \/ Act(w, {Request("save cards", arg)}) \/ Act(w, {Request("load", "remove")})
          BY <1>b, <3>1 DEF SaveCards
        <4>2. arg.then = "remove" OBVIOUS
        <4> HIDE DEF arg, k
        <4> QED BY <4>1, <4>2
      <3>2. \/ \E c, doc, stored : Beginning(c, doc, stored)
            \/ \E arg : Act(V, {Request("delete", arg)})
        BY <1>13, Zenon DEF ConfirmDeletion
      <3> HIDE DEF Beginning
      <3> QED BY <3>1, <3>2
    <2>3. Shows([Busy(view, "remove") EXCEPT !.doc = doc], {}, {"remove"}) BY <1>3 DEF Core, Shows, Busy
    <2> QED BY <1>10, <1>f, <2>1, <2>2, <2>3
  (* How a handler goes on: it is over and asks for nothing, or for what   *)
  (* nobody waits for; or it asks for one thing that it waits for; or its  *)
  (* page is gone.                                                         *)
  <1>14. ASSUME NEW r \in net, NEW v, NEW G, NEW asked, Settle(r, v, kept, {}, asked), Shows(v, G, {}),
                Clears(page, r) \subseteq G, G \subseteq Raised(page, r) \cup {"load"},
                asked = {} \/ Quiet1(asked)
         PROVE  Core' /\ page' = page
    <2>1. Frees(r, G) BY <1>2, <1>14 DEF Frees
    <2>2. CASE asked = {}
      <3>1. Over(r, G) BY <1>14, <2>1 DEF Over
      <3> QED BY <1>3, <1>14, <2>2, <3>1, Ending
    <2>3. CASE Quiet1(asked)
      <3>1. PICK op, arg : /\ One(asked, op, arg)
                           /\ Unwaited(op, arg)
        BY <2>3 DEF Quiet1
      <3>2. op \notin Queries BY <3>1 DEF Queries, Unwaited
      <3>3. \A q : Is(q, op, arg) => Raised(page, q) = {} BY <1>c, <3>1
      <3>4. Goes(r, op, arg, G, {}) BY <1>14, <2>1, <3>2, <3>3 DEF Goes
      <3> QED BY <1>3, <1>14, <3>1, <3>4, Continuing
    <2> QED BY <1>14, <2>2, <2>3
  <1> DEFINE Waits(r, op, arg) ==
                /\ op \notin Queries
                /\ \A q : Is(q, op, arg) =>
                      Raised(page, q) = Raised(page, r) /\ Clears(page, r) \subseteq Clears(page, q)
  <1>15. ASSUME NEW r \in net, NEW v, NEW op, NEW arg, Settle(r, v, kept, {}, {Request(op, arg)}),
                Shows(v, {}, {}), Waits(r, op, arg)
         PROVE  Core' /\ page' = page
    <2>1. One({Request(op, arg)}, op, arg) BY Asking
    <2>2. Goes(r, op, arg, {}, {}) BY <1>15 DEF Goes, Frees
    <2> QED BY <1>3, <1>15, <2>1, <2>2, Continuing
  <1>16. ASSUME NEW r \in net, NEW v, r.mine # TRUE, Settle(r, v, kept, {}, {})
         PROVE  Core' /\ page' = page
    BY <1>3, <1>16, Unseen
  <1>17. ASSUME NEW r \in net, NEW v, NEW op, NEW arg, NEW quiet,
                Settle(r, v, kept, {}, quiet \cup {Request(op, arg)}),
                Shows(v, {}, {}), Waits(r, op, arg), quiet = {} \/ Quiet1(quiet)
         PROVE  Core' /\ page' = page
    <2>1. CASE quiet = {} BY <1>15, <1>17, <2>1
    <2>2. CASE Quiet1(quiet)
      <3>1. PICK op1, arg1 :
               /\ One(quiet, op1, arg1)
               /\ Unwaited(op1, arg1)
        BY <2>2 DEF Quiet1
      <3>2. PICK x : quiet = {x} /\ Is(x, op1, arg1) BY <3>1 DEF One
      <3>3. Raised(page, x) = {} /\ op1 \notin Queries BY <1>c, <3>1, <3>2
      <3> DEFINE q == Request(op, arg)
                 asked == quiet \cup {q}
      <3>4. Is(q, op, arg) BY Requested
      <3>5. Settle(r, v, kept, {}, asked) BY <1>17
      <3> HIDE DEF q
      <3>6. Raised(page, q) = Raised(page, r) /\ Clears(page, r) \subseteq Clears(page, q)
        BY <1>17, <3>4
      <3>7. \A y \in asked : IsRequest(y) /\ y.op \notin Queries BY <1>17, <3>2, <3>3, <3>4 DEF Is
      <3>8. \A y \in asked : Raised(page, y) = {} \/ Raised(page, y) = Raised(page, r)
        BY <3>2, <3>3, <3>6
      <3>9. \A y \in asked, z \in asked : y # z => Raised(page, y) \cap Raised(page, z) = {}
        BY <3>2, <3>3
      <3>10. "busy" \in DOMAIN v /\ v.busy = view.busy BY <1>17 DEF Shows
      <3>11. \A f \in v.busy : (f \in view.busy /\ f \notin Clears(page, r))
                               \/ \E y \in asked : f \in Clears(page, y)
        BY <3>6, <3>10
      <3>12. KeepsToItself(page, view.busy, r, v.busy) BY <3>10 DEF KeepsToItself
      <3>13. \A y \in asked : Raised(page, y) # {} =>
                \A f \in Raised(page, r) : \A g \in Group(page, f) : g \in view.busy <=> g \in v.busy
        BY <3>10
      <3> HIDE DEF asked
      <3> QED BY <1>3, <3>5, <3>7, <3>8, <3>9, <3>10, <3>11, <3>12, <3>13, Settling
    <2> QED BY <1>17, <2>1, <2>2
  (* A handler that ends with the fetch, or with saving the cards.         *)
  <1>18. ASSUME NEW r \in net, NEW then \in {"assign", "remove"},
                Raised(page, r) = {then}, Clears(page, r) = {then}
         PROVE  /\ Waits(r, "load", then)
                /\ \A doc : Waits(r, "save cards", [doc |-> doc, then |-> then])
    <2>1. Waits(r, "load", then) BY <1>1, <1>18 DEF Is, Queries, Clears
    <2>2. ASSUME NEW doc PROVE Waits(r, "save cards", [doc |-> doc, then |-> then])
      <3> DEFINE arg == [doc |-> doc, then |-> then]
      <3>1. arg.then = then OBVIOUS
      <3> HIDE DEF arg
      <3>2. ASSUME NEW q, Is(q, "save cards", arg)
            PROVE  Raised(page, q) = {then} /\ then \in Clears(page, q)
        BY <1>1, <1>18, <3>1, <3>2 DEF Is, Queries, Clears
      <3>3. "save cards" \notin Queries BY DEF Queries
      <3>4. Waits(r, "save cards", arg) BY <1>18, <3>2, <3>3
      <3> QED BY <3>4 DEF arg
    <2> QED BY <2>1, <2>2
  <1> HIDE DEF Waits
  <1>19. ASSUME NEW r \in net, NEW then \in {"assign", "remove"},
                Raised(page, r) = {then}, Clears(page, r) = {then}, NEW v, Shows(v, {}, {}),
                Settle(r, v, kept, {}, Refresh(r, then))
         PROVE  Core' /\ page' = page
    <2>1. Refresh(r, then) = IF r.mine THEN {Request("load", then)} ELSE {} BY <1>b DEF Refresh
    <2>2. IsRequest(r) BY <1>3 DEF Core, Sound
    <2>3. Waits(r, "load", then) BY <1>18, <1>19
    <2>4. CASE r.mine = TRUE BY <1>15, <1>19, <2>1, <2>3, <2>4
    <2>5. CASE r.mine # TRUE BY <1>16, <1>19, <2>1, <2>2, <2>5 DEF IsRequest
    <2> QED BY <2>4, <2>5
  <1>20. ASSUME NEW r \in net, NEW then \in {"assign", "remove"},
                Raised(page, r) = {then}, Clears(page, r) = {then}, NEW doc, NEW old,
                SaveThen(r, doc, old, then)
         PROVE  Core' /\ page' = page
    <2> DEFINE v == [view EXCEPT !.doc = doc]
               u == IF then = "assign" THEN [v EXCEPT !.assign = None] ELSE v
               arg == [doc |-> doc, then |-> then]
    <2>1. \/ Settle(r, v, kept, {}, {Request("save cards", arg)})
          \/ Settle(r, u, kept, {}, Refresh(r, then))
      BY <1>20 DEF SaveThen, Handle
    <2>2. Shows(v, {}, {}) /\ Shows(u, {}, {}) BY <1>3 DEF Core, Shows
    <2>3. Waits(r, "save cards", arg) BY <1>18, <1>20
    <2> HIDE DEF u, v, arg
    <2> QED BY <1>15, <1>19, <1>20, <2>1, <2>2, <2>3
  (* The fetch.                                                            *)
  <1>21. ASSUME NEW v, Shows(v, {}, {}), NEW then
         PROVE  Shows(HandlerEnds(Idle(v, "load"), then), {"load"} \cup ({then} \cap {"assign", "remove"}), {})
    BY <1>21 DEF Shows, HandlerEnds, Idle
  <1>22. ASSUME NEW r \in net, MapFetched(r) PROVE Core' /\ page' = page
    <2> DEFINE G == {"load"} \cup ({r.arg} \cap {"assign", "remove"})
    <2>1. r.op = "load" BY <1>22 DEF MapFetched
    <2>2. Raised(page, r) = {r.arg} \cap {"assign", "remove"} /\ Clears(page, r) = G
      BY <1>1, <2>1 DEF Queries, Clears
    <2>3. CASE r.ans = Failed
      <3> DEFINE v == HandlerEnds(Idle(view, "load"), r.arg)
      <3>1. Settle(r, v, kept, {}, {}) BY <1>22, <2>3 DEF MapFetched, Handle
      <3>2. Shows(v, G, {}) BY <1>21, <1>e
      <3> HIDE DEF v
      <3> QED BY <1>14, <2>2, <3>1, <3>2
    <2>4. CASE r.ans # Failed
      <3> DEFINE v == [view EXCEPT !.dbs = r.ans.dbs]
                 arg == [of |-> r.ans, then |-> r.arg]
      <3>1. Settle(r, v, kept, {}, {Request("list", arg)}) BY <1>22, <2>4 DEF MapFetched, Handle
      <3>2. Shows(v, {}, {}) BY <1>e
      <3>3. arg.then = r.arg OBVIOUS
      <3> HIDE DEF v, arg
      <3>4. Waits(r, "list", arg) BY <1>1, <2>2, <3>3 DEF Waits, Is, Queries, Clears
      <3> QED BY <1>15, <3>1, <3>2, <3>4
    <2> QED BY <2>3, <2>4
  <1>23. ASSUME NEW r \in net, SettingsListed(r) PROVE Core' /\ page' = page
    <2> DEFINE G == {"load"} \cup ({r.arg.then} \cap {"assign", "remove"})
               raw == r.arg.of.doc
               settings == [d \in Dbs |-> IF d \in r.arg.of.dbs THEN r.ans[d] ELSE "off"]
               new == [view EXCEPT !.settings = settings, !.hydrated = TRUE]
               v == IF ~r.mine THEN view
                    ELSE IF raw = view.last THEN new
                    ELSE [new EXCEPT !.doc = Normalised(raw, r.arg.of.dbs, settings), !.last = raw]
               asked == IF r.mine /\ (v.doc # view.doc \/ ~view.hydrated)
                        THEN SaveCards(v, "effect") ELSE {}
               u == HandlerEnds(Idle(v, "load"), r.arg.then)
    <2>1. r.op = "list" /\ Settle(r, u, kept, {}, asked) BY <1>23 DEF SettingsListed, Handle
    <2>2. Raised(page, r) = {r.arg.then} \cap {"assign", "remove"} /\ Clears(page, r) = G
      BY <1>1, <2>1 DEF Queries, Clears
    <2> HIDE DEF settings
    <2>3. Shows(v, {}, {}) BY <1>3 DEF Core, Shows
    <2> HIDE DEF v
    <2>4. Shows(u, G, {}) BY <1>21, <2>3
    <2>5. asked = {} \/ Quiet1(asked) BY <1>d
    <2> HIDE DEF u, asked
    <2> QED BY <1>14, <2>1, <2>2, <2>4, <2>5
  (* The other handlers.                                                   *)
  <1>24. ASSUME NEW r \in net, BackupCardCreated(r) PROVE Core' /\ page' = page
    <2> DEFINE v == Idle(view, "create")
               x == [v.doc EXCEPT !.backups = Append(@, [id |-> r.arg, db |-> None])]
               new == [v EXCEPT !.doc = x]
    <2>1. /\ r.op = "create"
          /\ \/ Settle(r, v, kept, {}, {})
             \/ Settle(r, new, kept, {}, {})
             \/ Settle(r, new, kept, {}, SaveCards(new, "effect"))
      BY <1>24 DEF BackupCardCreated, Handle
    <2>2. Raised(page, r) = {"create"} /\ Clears(page, r) = {"create"}
      BY <1>1, <2>1 DEF Queries, Clears
    <2> HIDE DEF x
    <2>3. Shows(v, {"create"}, {}) /\ Shows(new, {"create"}, {}) BY <1>3 DEF Core, Shows, Idle
    <2> HIDE DEF v, new
    <2> QED BY <1>14, <1>d, <2>1, <2>2, <2>3
  <1>25. ASSUME NEW r \in net, r.op = "apply" PROVE Raised(page, r) = {"assign"} /\ Clears(page, r) = {"assign"} /\ r.arg.then = "assign"
    <2>1. Raised(page, r) \subseteq Flags(page) BY <1>3 DEF Core, Sound
    <2>2. r.arg.then = "assign" BY <1>1, <1>2, <1>25, <2>1 DEF Queries
    <2> QED BY <1>1, <1>25, <2>2 DEF Queries, Clears
  <1>26. ASSUME NEW r \in net, Applied(r) PROVE Core' /\ page' = page
    <2> DEFINE a == r.arg
               x == [view.doc EXCEPT !.backups = Assigned(a).backups]
               v == [view EXCEPT !.doc = x]
               effect == IF r.mine THEN SaveCards(v, "effect") ELSE {}
    <2>1. r.op = "apply" BY <1>26 DEF Applied
    <2>2. Raised(page, r) = {"assign"} /\ Clears(page, r) = {"assign"} /\ a.then = "assign"
      BY <1>25, <2>1
    <2>3. \/ Settle(r, Idle(view, "assign"), kept, {}, {})
          \/ SaveThen(r, Assigned(a), a.doc, "assign")
          \/ Settle(r, Idle(v, "assign"), kept, {}, effect)
          \/ Settle(r, v, kept, {}, effect \cup {Request("automate", a)})
      BY <1>26 DEF Applied, Handle
    <2> HIDE DEF x
    <2>4. Shows(v, {}, {}) /\ Shows(Idle(v, "assign"), {"assign"}, {}) BY <1>3 DEF Core, Shows, Idle
    <2> HIDE DEF v
    <2>5. effect = {} \/ Quiet1(effect) BY <1>d
    <2>6. Waits(r, "automate", a) BY <1>1, <2>2 DEF Waits, Is, Queries, Clears
    <2> HIDE DEF effect, a
    <2>7. CASE Settle(r, Idle(view, "assign"), kept, {}, {}) BY <1>14, <1>f, <2>2, <2>7
    <2>8. CASE SaveThen(r, Assigned(a), a.doc, "assign") BY <1>20, <2>2, <2>8
    <2>9. CASE Settle(r, Idle(v, "assign"), kept, {}, effect) BY <1>14, <2>2, <2>4, <2>5, <2>9
    <2>10. CASE Settle(r, v, kept, {}, effect \cup {Request("automate", a)})
      BY <1>17, <2>4, <2>5, <2>6, <2>10
    <2> QED BY <2>3, <2>7, <2>8, <2>9, <2>10
  <1>27. ASSUME NEW r \in net, Automated(r) PROVE Core' /\ page' = page
    <2>1. r.op = "automate" BY <1>27 DEF Automated
    <2>2. /\ Raised(page, r) = {r.arg.then} \cap {"assign"}
          /\ Clears(page, r) = {r.arg.then} \cap {"assign"}
      <3>1. Raised(page, r) \subseteq Flags(page) BY <1>3 DEF Core, Sound
      <3>2. r.arg.then \in {"assign", "link"} BY <1>1, <1>2, <2>1, <3>1 DEF Queries
      <3> QED BY <1>1, <2>1, <3>2 DEF Queries, Clears
    <2>3. CASE r.arg.then = "assign"
      <3>1. \/ Settle(r, Idle(view, "assign"), kept, {}, {})
            \/ SaveThen(r, Assigned(r.arg), r.arg.doc, "assign")
        BY <1>27, <2>3 DEF Automated, Handle
      <3>2. Raised(page, r) = {"assign"} /\ Clears(page, r) = {"assign"} BY <2>2, <2>3
      <3> QED BY <1>14, <1>20, <1>f, <3>1, <3>2
    <2>4. CASE r.arg.then # "assign"
      <3>1. Settle(r, view, kept, {}, {}) \/ Settle(r, view, kept, {}, Refresh(r, "link"))
        BY <1>27, <2>4 DEF Automated, Handle
      <3>2. Refresh(r, "link") = {} \/ Quiet1(Refresh(r, "link")) BY <1>b, Asking DEF Refresh, Quiet1, Unwaited
      <3>3. Raised(page, r) = {} /\ Clears(page, r) = {} BY <2>2, <2>4
      <3> QED BY <1>14, <1>e, <3>1, <3>2, <3>3
    <2> QED BY <2>3, <2>4
  <1>28. ASSUME NEW r \in net, CardsSaved(r) PROVE Core' /\ page' = page
    <2> DEFINE then == r.arg.then
               v == [view EXCEPT !.last = r.arg.doc]
               G == {then} \cap {"assign", "remove"}
    <2>1. r.op = "save cards" BY <1>28 DEF CardsSaved
    <2>2. Raised(page, r) = G /\ Clears(page, r) = G BY <1>1, <2>1 DEF Queries, Clears
    <2>3. CASE r.ans = Failed
      <3> DEFINE u == IF then \in {"assign", "remove"} THEN Idle(view, then) ELSE view
      <3>1. Settle(r, u, kept, {}, {}) BY <1>28, <2>3 DEF CardsSaved, Handle
      <3>2. Shows(u, G, {}) BY <1>3 DEF Core, Shows, Idle
      <3> HIDE DEF u, G, then
      <3> QED BY <1>14, <2>2, <3>1, <3>2
    <2>4. CASE r.ans # Failed /\ then \in {"assign", "remove"}
      <3> DEFINE u == IF then = "assign" THEN [v EXCEPT !.assign = None] ELSE v
      <3>1. Settle(r, u, kept, {}, Refresh(r, then)) BY <1>28, <2>4 DEF CardsSaved, Handle
      <3>2. Shows(u, {}, {}) BY <1>3 DEF Core, Shows
      <3>3. G = {then} BY <2>4
      <3> HIDE DEF u, G, then
      <3> QED BY <1>19, <2>2, <2>4, <3>1, <3>2, <3>3
    <2>5. CASE r.ans # Failed /\ then \notin {"assign", "remove"}
      <3> DEFINE arg == [db |-> r.arg.db, then |-> "link"]
      <3>1. Settle(r, v, kept, {}, {}) \/ Settle(r, v, kept, {}, {Request("automate", arg)})
        BY <1>28, <2>5 DEF CardsSaved, Handle
      <3>2. arg.then = "link" OBVIOUS
      <3>3. G = {} BY <2>5
      <3>4. Shows(v, {}, {}) BY <1>e
      <3> HIDE DEF arg, v, G, then
      <3>5. Quiet1({Request("automate", arg)}) BY <3>2, Asking DEF Quiet1, Unwaited
      <3> QED BY <1>14, <2>2, <3>1, <3>3, <3>4, <3>5
    <2> QED BY <2>3, <2>4, <2>5
  <1>29. ASSUME NEW r \in net, DeletionGoesOn(r) \/ DatabasesDeleted(r) PROVE Core' /\ page' = page
    <2>1. r.op \in {"clear", "discard", "delete"} BY <1>29 DEF DeletionGoesOn, DatabasesDeleted
    <2>2. Raised(page, r) = {"remove"} /\ Clears(page, r) = {"remove"}
      BY <1>1, <2>1 DEF Queries, Clears
    <2>3. CASE Settle(r, Idle(view, "remove"), kept, {}, {}) BY <1>14, <1>f, <2>2, <2>3
    <2>4. CASE Settle(r, view, kept, {}, Refresh(r, "remove")) BY <1>19, <1>e, <2>2, <2>4
    <2>5. CASE Settle(r, view, kept, {}, {Request("discard", r.arg)})
      <3>1. Waits(r, "discard", r.arg) BY <1>1, <2>2 DEF Waits, Is, Queries, Clears
      <3> QED BY <1>15, <1>e, <2>5, <3>1
    <2>6. CASE SaveThen(r, r.arg.new, r.arg.doc, "remove") BY <1>20, <2>2, <2>6
    <2>7. CASE DeletionGoesOn(r) BY <2>3, <2>4, <2>5, <2>6, <2>7 DEF DeletionGoesOn, Handle
    <2>8. CASE DatabasesDeleted(r)
      <3> DEFINE x == WithoutDatabases(view.doc, r.arg.gone, r.arg.ids)
                 v == [view EXCEPT !.doc = x]
                 quiet == IF v.doc = view.doc THEN {} ELSE SaveCards(v, "effect")
      <3>1. CASE r.ans = Failed \/ ~r.mine BY <2>3, <2>8, <3>1 DEF DatabasesDeleted, Handle
      <3>2. CASE ~(r.ans = Failed \/ ~r.mine)
        <4>1. Settle(r, v, kept, {}, Refresh(r, "remove") \cup quiet)
          BY <2>8, <3>2 DEF DatabasesDeleted, Handle
        <4>2. Refresh(r, "remove") = {Request("load", "remove")} BY <1>b, <3>2 DEF Refresh
        <4>3. Shows(v, {}, {}) BY <1>e
        <4>4. quiet = {} \/ Quiet1(quiet) BY <1>d
        <4> HIDE DEF x, v, quiet
        <4>5. Refresh(r, "remove") \cup quiet = quiet \cup {Request("load", "remove")} BY <4>2
        <4>6. Settle(r, v, kept, {}, quiet \cup {Request("load", "remove")}) BY <4>1, <4>5
        <4>7. Waits(r, "load", "remove") BY <1>18, <2>2
        <4> QED BY <1>17, <4>3, <4>4, <4>6, <4>7
      <3> QED BY <3>1, <3>2
    <2> QED BY <1>29, <2>7, <2>8
  <1>30. ASSUME NEW r \in net, TopologyServer(r) PROVE Core' /\ page' = page
    <2>1. PICK s, a : ServerAnswers(r, s, a) \/ ServerFails(r, s) \/ PartOf(r, a)
      BY <1>30, Zenon DEF TopologyServer
    <2>2. CASE PartOf(r, a) BY <1>3, <2>2, AnswerKeeps DEF PartOf
    <2> QED BY <1>3, <2>1, <2>2, ServerKeeps, FailKeeps
  <1>31. CASE ChangedElsewhere BY <1>31, IdleKeeps DEF ChangedElsewhere
  <1> QED
    BY <1>4, <1>5, <1>7, <1>8, <1>9, <1>11, <1>12, <1>13, <1>22, <1>23, <1>24, <1>26, <1>27, <1>28,
       <1>29, <1>30, <1>31 DEF TopologyNext

-----------------------------------------------------------------------------
(* The invariant.                                                          *)

(* When nothing is open and nothing was asked for, it holds.               *)
LEMMA PagesStart == ASSUME PagesInit PROVE PagesInv
  <1>1. "busy" \in DOMAIN view /\ view.busy = {} /\ net = {} /\ at = None BY DEF PagesInit, Gone
  <1> QED BY <1>1 DEF PagesInv, Core, Sound, Covered, Numbered

(* Every step keeps it: each page's by its lemma.                          *)
LEMMA PagesStep == ASSUME PagesInv, PagesNext \/ UNCHANGED pageVars PROVE PagesInv'
  <1>1. CASE UNCHANGED pageVars BY <1>1, IdleKeeps DEF pageVars
  <1>2. CASE Leave
    <2>1. net' = Left(net \ {}) /\ view' = Gone /\ at' = None /\ page' = page BY <1>2 DEF Leave
    <2> QED BY <2>1, Leaving
  <1>3. CASE OpenMonitoring \/ MonitoringNext
    BY <1>3, MonitoringKeeps DEF OpenMonitoring, MonitoringNext
  <1>4. CASE OpenNotifications \/ NotificationsNext
    BY <1>4, NotificationsKeep DEF OpenNotifications, NotificationsNext
  <1>5. CASE OpenPreferences \/ PreferencesNext
    BY <1>5, PreferencesKeeps DEF OpenPreferences, PreferencesNext
  <1>6. CASE OpenConnections \/ ConnectionsNext
    BY <1>6, ConnectionsKeep DEF OpenConnections, ConnectionsNext
  <1>7. CASE OpenLimits \/ LimitsNext BY <1>7, LimitsKeep DEF OpenLimits, LimitsNext
  <1>8. CASE OpenBranches \/ BranchesNext BY <1>8, BranchesKeep DEF OpenBranches, BranchesNext
  <1>9. CASE OpenWebServer \/ WebServerNext BY <1>9, WebServerKeeps DEF OpenWebServer, WebServerNext
  <1>10. CASE OpenSQL \/ SQLNext BY <1>10, SQLKeeps DEF OpenSQL, SQLNext
  <1>11. CASE OpenProfile \/ ProfileNext BY <1>11, ProfileKeeps DEF OpenProfile, ProfileNext
  <1>12. CASE OpenUsers \/ UsersNext BY <1>12, UsersKeep DEF OpenUsers, UsersNext
  <1>13. CASE OpenPanel \/ AccessNext BY <1>13, AccessKeeps DEF OpenPanel, AccessNext
  <1>14. CASE OpenUpdates \/ UpdatesNext BY <1>14, UpdatesKeep DEF OpenUpdates, UpdatesNext
  <1>15. CASE OpenBackupSettings \/ BackupSettingsNext
    BY <1>15, BackupSettingsKeep DEF OpenBackupSettings, BackupSettingsNext
  <1>16. CASE OpenBackupList \/ BackupListNext
    BY <1>16, BackupListKeeps DEF OpenBackupList, BackupListNext
  <1>17. CASE OpenTables \/ TablesNext BY <1>17, TablesKeep DEF OpenTables, TablesNext
  <1>18. CASE OpenDatabase \/ DatabaseNext BY <1>18, DatabaseKeeps DEF OpenDatabase, DatabaseNext
  <1>19. CASE OpenNavigation \/ NavigationNext \/ ProjectsNext
    <2>1. page = "navigation" \/ page = "projects"
      BY <1>19 DEF OpenNavigation, NavigationNext, ProjectsNext
    <2>2. CASE OpenNavigation BY <2>1, <2>2, NavigationKeeps, ProjectsKeep
    <2>3. CASE NavigationNext BY <2>3, NavigationKeeps DEF NavigationNext
    <2>4. CASE ProjectsNext BY <2>4, ProjectsKeep DEF ProjectsNext
    <2> QED BY <1>19, <2>2, <2>3, <2>4
  <1>20. CASE OpenProject \/ ProjectNext BY <1>20, ProjectKeeps DEF OpenProject, ProjectNext
  <1>21. CASE OpenContainers \/ ContainersNext
    BY <1>21, ContainersKeep DEF OpenContainers, ContainersNext
  <1>22. CASE OpenTopology \/ TopologyNext BY <1>22, TopologyKeeps DEF OpenTopology, TopologyNext
  <1> QED
    BY <1>1, <1>2, <1>3, <1>4, <1>5, <1>6, <1>7, <1>8, <1>9, <1>10, <1>11, <1>12, <1>13, <1>14,
       <1>15, <1>16, <1>17, <1>18, <1>19, <1>20, <1>21, <1>22 DEF PagesNext, OpenPage

(* Whatever the user does and whatever answers come in which order, the    *)
(* flags of a page and the handlers that are waiting agree: a flag has a   *)
(* request that takes it down, and a handler owns the flag it holds up.    *)
THEOREM PagesInvariant == PagesSpec => []PagesInv
  <1>1. PagesInit => PagesInv BY PagesStart
  <1>2. PagesInv /\ [PagesNext]_pageVars => PagesInv' BY PagesStep
  <1> QED BY <1>1, <1>2, PTL DEF PagesSpec

-----------------------------------------------------------------------------
(* What follows from it.                                                   *)

(* The flags that the proof says a request takes down are those that the   *)
(* property says it does.                                                  *)
LEMMA ClearsEnds ==
    ASSUME NEW r, Raised(page, r) \subseteq Flags(page) PROVE Clears(page, r) \subseteq Ends(r)
  <1>1. CASE page \in {"connections", "branches", "webserver", "users", "user access"}
    <2>1. page \notin ContainersPages \cup TopologyPages \cup DatabasePages \cup TablesPages
      BY <1>1 DEF ContainersPages, TopologyPages, DatabasePages, TablesPages
    <2> QED BY <1>1, <2>1 DEF Clears, Raised, Spins, Ends, Flags, Queries
  <1>2. CASE page \in {"notifications", "navigation", "projects", "project", "limits", "profile"}
    <2>1. page \notin ContainersPages \cup TopologyPages \cup DatabasePages \cup TablesPages
      BY <1>2 DEF ContainersPages, TopologyPages, DatabasePages, TablesPages
    <2> QED BY <1>2, <2>1 DEF Clears, Raised, Spins, Ends, Queries, Reads
  <1> DEFINE Named == {"connections", "branches", "webserver", "users", "user access", "notifications",
                       "navigation", "projects", "project", "limits", "profile"}
  <1>3. CASE page \in DatabasePages
    <2>1. page \notin ContainersPages \cup TopologyPages \cup TablesPages \cup Named
      BY <1>3 DEF ContainersPages, TopologyPages, DatabasePages, TablesPages
    <2>2. Flags(page) = DatabaseActions \cup {"rotate"} BY <1>3, <2>1 DEF Flags
    <2> QED BY <1>3, <2>1, <2>2 DEF Clears, Raised, Spins, Ends, Queries
  <1>4. CASE page \in ContainersPages
    <2>1. page \notin DatabasePages \cup TopologyPages \cup TablesPages \cup Named
      BY <1>4 DEF ContainersPages, TopologyPages, DatabasePages, TablesPages
    <2> QED BY <1>4, <2>1 DEF Clears, Raised, Spins, Ends, Queries
  <1>5. CASE page \in TopologyPages
    <2>1. page \notin DatabasePages \cup ContainersPages \cup TablesPages \cup Named
      BY <1>5 DEF ContainersPages, TopologyPages, DatabasePages, TablesPages
    <2>2. None \notin Flags(page) BY <2>1, PagesAssumption DEF Flags, FlagNames
    <2> QED BY <1>5, <2>1, <2>2 DEF Clears, Raised, Spins, Ends, Queries
  <1>6. CASE page \notin Named \cup DatabasePages \cup ContainersPages \cup TopologyPages
    <2>1. Raised(page, r) \subseteq {r.op} BY <1>6 DEF Raised
    <2>2. Spins(page, r) \subseteq {r.op} BY <1>6 DEF Spins
    <2>3. Ends(r) = {r.op} BY <1>6 DEF Ends
    <2> QED BY <2>1, <2>2, <2>3 DEF Clears
  <1> QED BY <1>1, <1>2, <1>3, <1>4, <1>5, <1>6

(* A page is never left with a spinner, or a disabled button, that no      *)
(* answer will end.                                                        *)
THEOREM SpinnersEnd == PagesSpec => []SpinnerHasRequest
  <1>1. PagesInv => SpinnerHasRequest
    <2> SUFFICES ASSUME PagesInv, NEW f \in view.busy PROVE \E r \in Own : f \in Ends(r)
      BY DEF SpinnerHasRequest
    <2>1. PICK r \in net : r.mine = TRUE /\ f \in Clears(page, r) BY DEF PagesInv, Core, Sound
    <2>2. Raised(page, r) \subseteq Flags(page) BY DEF PagesInv, Core, Sound
    <2>3. f \in Ends(r) BY <2>1, <2>2, ClearsEnds
    <2> QED BY <2>1, <2>3 DEF Own
  <1> QED BY <1>1, PagesInvariant, PTL

(* What the handler of a guarded write takes down is in the hook it owns.  *)
LEMMA EndsOwned ==
    ASSUME NEW r, Raised(page, r) \subseteq Flags(page), r.op \notin Reads \cup Unguarded
    PROVE  Ends(r) = {} \/ \E f \in Raised(page, r) : Ends(r) \subseteq Group(page, f)
  <1>0. /\ r.op \notin Queries \cup {"load", "list", "database"}
        /\ r.op \notin {"rows", "access", "logs", "restart", "avatar", "save cards"}
    BY DEF Reads, Unguarded
  <1>a. \A f : f \in Group(page, f) BY OwnHook
  <1>1. CASE page \in {"connections", "branches", "webserver", "users", "user access"}
    <2>1. page \notin ContainersPages \cup TopologyPages \cup DatabasePages \cup TablesPages
      BY <1>1 DEF ContainersPages, TopologyPages, DatabasePages, TablesPages
    <2>2. CASE page = "branches"
      <3>1. Raised(page, r) = {r.op} BY <1>0, <2>2 DEF Raised
      <3>2. r.op \in BranchActions \cup {"create"} BY <2>1, <2>2, <3>1 DEF Flags
      <3>3. Ends(r) = IF r.op = "create" THEN {"create"} ELSE BranchActions BY <1>0, <2>2 DEF Ends
      <3>4. r.op \in BranchActions => Group(page, r.op) = BranchActions BY <2>2 DEF Group
      <3> QED BY <1>a, <3>1, <3>2, <3>3, <3>4
    <2>3. CASE page # "branches"
      <3>1. PICK f : Raised(page, r) = {f} /\ Ends(r) = {f} BY <1>0, <1>1, <2>3 DEF Raised, Ends
      <3> QED BY <1>a, <3>1
    <2> QED BY <2>2, <2>3
  <1>2. CASE page \in {"notifications", "navigation", "projects", "project", "limits", "profile"}
    <2>1. page \notin ContainersPages \cup TopologyPages \cup DatabasePages \cup TablesPages
      BY <1>2 DEF ContainersPages, TopologyPages, DatabasePages, TablesPages
    <2>2. Raised(page, r) = Ends(r)
      BY <1>0, <1>2, <2>1 DEF Raised, Ends, Reads
    <2>3. PICK f : Raised(page, r) = {f} BY <1>0, <1>2, <2>1 DEF Raised, Reads
    <2> QED BY <1>a, <2>2, <2>3
  <1> DEFINE Named == {"connections", "branches", "webserver", "users", "user access", "notifications",
                       "navigation", "projects", "project", "limits", "profile"}
  <1>3. CASE page \in DatabasePages
    <2>1. page \notin ContainersPages \cup TopologyPages \cup TablesPages \cup Named
      BY <1>3 DEF ContainersPages, TopologyPages, DatabasePages, TablesPages
    <2>2. Flags(page) = DatabaseActions \cup {"rotate"} BY <1>3, <2>1 DEF Flags
    <2>3. Raised(page, r) = {r.op} BY <1>0, <1>3, <2>1 DEF Raised
    <2>4. "detail" \in Queries BY DEF Queries
    <2>5. Ends(r) = IF r.op = "rotate" THEN {"rotate"} ELSE DatabaseActions
      BY <1>0, <1>3, <2>1, <2>4 DEF Ends
    <2>6. r.op \in DatabaseActions => Group(page, r.op) = DatabaseActions BY <1>3, <2>1 DEF Group
    <2> QED BY <1>a, <2>2, <2>3, <2>5, <2>6
  <1>4. CASE page \in ContainersPages
    <2>1. page \notin DatabasePages \cup TopologyPages \cup TablesPages \cup Named
      BY <1>4 DEF ContainersPages, TopologyPages, DatabasePages, TablesPages
    <2>2. Ends(r) = {} \/ \E f : Raised(page, r) = {f} /\ Ends(r) = {f}
      BY <1>0, <1>4, <2>1 DEF Raised, Ends
    <2> QED BY <1>a, <2>2
  <1>5. CASE page \in TopologyPages
    <2>1. page \notin DatabasePages \cup ContainersPages \cup TablesPages \cup Named
      BY <1>5 DEF ContainersPages, TopologyPages, DatabasePages, TablesPages
    <2>2. None \notin Flags(page) BY <2>1, PagesAssumption DEF Flags, FlagNames
    <2>3. Raised(page, r) = Ends(r) /\ (Ends(r) = {} \/ \E f : Raised(page, r) = {f})
      BY <1>0, <1>5, <2>1, <2>2 DEF Raised, Ends
    <2> QED BY <1>a, <2>3
  <1>6. CASE page \notin Named \cup DatabasePages \cup ContainersPages \cup TopologyPages
    <2>1. Raised(page, r) = {r.op} BY <1>0, <1>6 DEF Raised, Reads
    <2>2. Ends(r) = {r.op} BY <1>6 DEF Ends
    <2> QED BY <1>a, <2>1, <2>2
  <1> QED BY <1>1, <1>2, <1>3, <1>4, <1>5, <1>6

(* Two changes of a kind are never out together, of a page that is open:   *)
(* a button that starts one stays disabled until its handler is over, also *)
(* on the database the user moved to.                                      *)
THEOREM WritesApart == PagesSpec => []OneWriteAtATime
  <1>1. PagesInv => OneWriteAtATime
    <2> SUFFICES ASSUME PagesInv, NEW r \in Own, NEW q \in Own, r # q,
                        {r.op, q.op} \cap (Reads \cup Unguarded) = {}, NEW g \in Ends(r), g \in Ends(q)
                 PROVE  FALSE
      BY DEF OneWriteAtATime
    <2>1. Sound(page, net, view.busy) BY DEF PagesInv, Core
    <2>2. r \in net /\ q \in net /\ r.mine = TRUE /\ q.mine = TRUE BY <2>1 DEF Own, Sound, IsRequest
    <2>3. Raised(page, r) \subseteq Flags(page) /\ Raised(page, q) \subseteq Flags(page)
      BY <2>1, <2>2 DEF Sound
    <2>4. PICK f \in Raised(page, r) : Ends(r) \subseteq Group(page, f) BY <2>3, EndsOwned
    <2>5. PICK h \in Raised(page, q) : Ends(q) \subseteq Group(page, h) BY <2>3, EndsOwned
    <2>6. Group(page, f) = Group(page, h) BY <2>4, <2>5, Hooks
    <2>7. view.busy \cap Group(page, f) = {f} /\ view.busy \cap Group(page, h) = {h}
      BY <2>1, <2>2 DEF Sound
    <2>8. f = h BY <2>6, <2>7
    <2>9. Raised(page, r) \cap Raised(page, q) = {} BY <2>1, <2>2 DEF Sound
    <2> QED BY <2>8, <2>9
  <1> QED BY <1>1, PagesInvariant, PTL

=============================================================================
