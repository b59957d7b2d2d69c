---------------------------- MODULE DashboardPage ----------------------------
(***************************************************************************)
(* What every page of the dashboard (src/frontend/src/pages) is built on.  *)
(* The router mounts one page at a time.  A mounted page is a React        *)
(* component: its hooks are the record `view`; a handler runs until its    *)
(* first await, which sends a request (authFetch of lib/api.ts), and goes  *)
(* on when the answer is back.  Between the two the user goes on clicking, *)
(* other answers arrive, and the address bar may move to another database: *)
(* React keeps the component mounted then (the route is the same), so its  *)
(* hooks survive while `id` changes, and a handler that was waiting goes   *)
(* on with the `id` it started with.  A handler whose component is gone    *)
(* goes on as well, sends the requests it still has to send, and sets      *)
(* hooks nobody sees.                                                      *)
(*                                                                         *)
(* A page module adds the page's hooks, handlers and answers to this one.  *)
(* The pages share nothing but the server, so a behaviour is about one of  *)
(* them: `page` never changes, and a user who is elsewhere may come back.  *)
(***************************************************************************)
EXTENDS Naturals, FiniteSets

CONSTANTS
    Dbs,     \* the databases a page with :id in its route can be opened for
    None,    \* null, undefined, nothing
    Ok,      \* a 2xx answer whose body the handler does not use
    Failed,  \* a request that threw, or an answer with res.ok = false
    Vals,    \* what a form can hold (naturals)
    Items,   \* the branches, connections, tables, users, containers, cards of a list
    Default, \* what the hooks of a form hold before anything is loaded
    MaxNet,  \* bound: requests in flight at once
    Unreliable   \* bound: the pages followed beyond a fault (Followed)

ASSUME PageAssumption == /\ MaxNet \in Nat \ {0}
                         /\ Vals \subseteq Nat \ {0} /\ Default \in Vals
                         /\ None # Ok /\ None # Failed /\ Ok # Failed
                         /\ {None, Ok, Failed} \cap (Dbs \cup Vals \cup Items) = {}

VARIABLES
    page,    \* the page this behaviour is about
    at,      \* what its address names: a database, Server, or None (elsewhere)
    view,    \* the hooks of the mounted page
    kept,    \* what outlives it: the query cache, the user of AuthContext
    net,     \* the requests in flight
    srv,     \* what the server stores for the page, by database (or Server)
    upset    \* history: the page may not know what is stored (see Crossed)

pageVars == <<page, at, view, kept, net, srv, upset>>

Server == "server"       \* the :id of pages that have none

(* A request.  `at` is the database of the address when the handler ran:   *)
(* the closure's `id`.  `mine` is whether the component that sent it is    *)
(* still mounted.  `twin` tells a request from an equal one that is out.   *)
Request(op, arg) ==
    LET r == [op |-> op, at |-> at, arg |-> arg, sent |-> TRUE, ans |-> None,
              mine |-> TRUE, twin |-> FALSE] IN
    [r EXCEPT !.twin = r \in net]

Sent(d, requests) == {[r EXCEPT !.at = d] : r \in requests}
Room(n) == Cardinality(net) + n <= MaxNet

Waiting(r) == r \in net /\ r.sent
Back(r) == r \in net /\ ~r.sent

Queries == {"settings", "backups", "detail"}     \* of react-query, see below
Reads == {"load", "list", "database"} \cup Queries

(* A page may not know what is stored, and need not until it is opened     *)
(* anew, once one of its requests failed, it moved to another database with*)
(* requests of its own in flight, or two requests overlapped of which one  *)
(* writes, or fetches the rows of a table or the access of a user (they may*)
(* be two tables, or two users).  A request whose answer a handler is at   *)
(* is not among those that are out: its successor comes after it.          *)
Crossed(out, asked) ==
    \E r \in out \cup asked, q \in asked : r # q /\ ~({r.op, q.op} \subseteq Reads)

(* The server handles a request: it stores s and answers a.                *)
ServerAnswers(r, s, a) ==
    /\ Waiting(r)
    /\ srv' = s
    /\ net' = (net \ {r}) \cup {[r EXCEPT !.sent = FALSE, !.ans = a]}
    /\ upset' = (upset \/ a = Failed)
    /\ UNCHANGED <<page, at, view, kept>>

(* authFetch throws, or the server refuses: nothing is stored, or all of   *)
(* it was and only the answer is lost (s is what would have been stored).  *)
(* Bound: a page that does not know what is stored meets no further fault, *)
(* nor is it moved to another database (nor left and opened again, if that *)
(* would not help), unless it is one of Unreliable.                        *)
Followed == upset => page \in Unreliable

ServerFails(r, s) ==
    /\ Followed
    /\ \E t \in {srv, s} : ServerAnswers(r, t, Failed)

(* A handler goes on with the answer of r: the page becomes v if it is     *)
(* still the one that sent r, what outlives it becomes k, the requests in  *)
(* dropped are forgotten and those in asked are sent.                      *)
Settle(r, v, k, dropped, asked) ==
    /\ Back(r)
    /\ view' = IF r.mine THEN v ELSE view
    /\ kept' = k
    /\ net' = (net \ ({r} \cup dropped)) \cup {[q EXCEPT !.mine = r.mine \/ q.op \in Queries] : q \in asked}
    /\ upset' = (upset \/ Crossed(net \ ({r} \cup dropped), asked))
    /\ UNCHANGED <<page, at, srv>>

Handle(r, v, asked) == Settle(r, v, kept, {}, asked)

(* The user does something on the mounted page.                            *)
Act(v, asked) ==
    /\ at # None
    /\ Room(Cardinality(asked))
    /\ view' = v
    /\ net' = net \cup asked
    /\ upset' = (upset \/ Crossed(net, asked))
    /\ UNCHANGED <<page, at, kept, srv>>

Gone == [busy |-> {}]

(* The user leaves: the component is unmounted.  What it was only reading  *)
(* is forgotten: the answers would be set in hooks nobody sees.            *)
Left(requests) ==
    {[r EXCEPT !.mine = r.op \in Queries] : r \in {q \in requests : q.op \notin Reads \ Queries}}

Leave ==
    /\ at # None
    /\ at' = None
    /\ view' = Gone
    /\ net' = Left(net)
    /\ UNCHANGED <<page, kept, srv, upset>>

(* The pages that leave something behind, in `kept`, which the next visit  *)
(* starts from.                                                            *)
Remembers ==
    page \in {"profile", "backup settings", "backups", "database", "connection string"}

(* The user opens the page at d: it is mounted with the hooks v, and its   *)
(* effects send the requests in asked.                                     *)
OpenAt(d, v, asked) ==
    /\ at = None
    /\ Remembers => Followed
    /\ Room(Cardinality(asked))
    /\ at' = d
    /\ view' = v
    /\ net' = net \cup Sent(d, asked)
    /\ upset' = (net # {} \/ (Remembers /\ upset))
    /\ UNCHANGED <<page, kept, srv>>

(* The user picks another database in the side bar (getDatabaseSwitchPath  *)
(* keeps the page): the component stays mounted and the effects that       *)
(* depend on id run again, leaving the hooks v.                            *)
SwitchTo(d, v, asked) ==
    /\ at \in Dbs \ {d}
    /\ Followed
    /\ Room(Cardinality(asked))
    /\ at' = d
    /\ view' = v
    /\ net' = net \cup Sent(d, asked)
    /\ upset' = (upset \/ net # {})
    /\ UNCHANGED <<page, kept, srv>>

Busy(v, flag) == [v EXCEPT !.busy = @ \cup {flag}]
Idle(v, flag) == [v EXCEPT !.busy = @ \ {flag}]

-----------------------------------------------------------------------------
(* The query cache of main.tsx: `kept` has, for a query and a database,    *)
(* what was last fetched for them, and in `stale` the databases whose entry*)
(* was invalidated while nobody looked.  A query is sent again when it is  *)
(* polled, or shown and stale (five minutes make it so), unless it is in   *)
(* flight; its answer goes to the cache whatever the page shows by then.   *)
InFlight(op, d) == {r \in net : r.op = op /\ r.at = d}

Refetch(op, d) == IF InFlight(op, d) # {} THEN {} ELSE Sent(d, {Request(op, None)})
MayRefetch(op, d) == {Refetch(op, d)} \cup
                     (IF kept[op][d] = None \/ d \in kept.stale THEN {} ELSE {{}})

(* isLoading: nothing was ever fetched, and it is being fetched.           *)
Loading(op) == kept[op][at] = None /\ InFlight(op, at) # {}

Fetched(r) == IF r.ans = Failed THEN kept
              ELSE [kept EXCEPT ![r.op][r.at] = r.ans, !.stale = @ \ {r.at}]

(* A mutation of d was answered with r and invalidates a query of the      *)
(* database the page shows (its callback is the one of the last render): an*)
(* answer in flight is given up, and what is shown is asked for again.  An *)
(* entry nobody looks at is marked only, and what is in flight for it goes *)
(* on.                                                                     *)
Invalidate(r, v, op) ==
    LET d == IF r.mine THEN at ELSE r.at IN
    IF at = d THEN Settle(r, v, kept, InFlight(op, d), Sent(d, {Request(op, None)}))
              ELSE Settle(r, v, [kept EXCEPT !.stale = @ \cup {d}], {}, {})

=============================================================================
