---------------------------- MODULE ProxySessions ----------------------------
(***************************************************************************)
(* The life of a proxied database session and of the token it uses.        *)
(*                                                                         *)
(* handleConnection (src/backend/proxy/proxy.go) authenticates a client    *)
(* once, dials the database, completes the backend's handshake and only    *)
(* then enters the session in activeConns.  Meanwhile the API handlers of  *)
(* src/backend/main.go revoke, rotate, mint and delete tokens in the       *)
(* SQLite database and call DisconnectToken, which ranges over activeConns *)
(* without stopping anything; connectionStateChecker and                   *)
(* idleConnectionChecker (one minute tickers) range over it as well.       *)
(*                                                                         *)
(* A statement executed by SQLite, or a transaction, is one step; so is a  *)
(* sync.Map operation.  sync.Map.Range is not a snapshot: it visits every  *)
(* entry present when it starts and not deleted meanwhile, and may or may  *)
(* not visit one that is stored while it runs.                             *)
(***************************************************************************)
EXTENDS Naturals, FiniteSets

CONSTANTS
    Sessions,    \* connection ids (uuid.New: never used twice)
    Tokens,      \* token ids (auth.GenerateTokenID: never used twice)
    Databases,   \* ids of the rows of databases
    Requests,    \* goroutines serving API requests
    None,
    InProcess,   \* the API and the proxy share a process (not PROXY_ONLY)
    MaxRestarts, \* bound: how often the process restarts
    MaxLate      \* bound: how many sessions and tokens are past their time

ASSUME InProcessAssumption == InProcess \in BOOLEAN
ASSUME NoneAssumption == None \notin Tokens \cup Databases
ASSUME BoundsAssumption == MaxRestarts \in Nat /\ MaxLate \in Nat

VARIABLES
    pc,           \* Sessions -> how far handleConnection has come
    tok,          \* Sessions -> the token in the client's JWT
    activeConns,  \* the sync.Map: ids of the sessions entered
    closed,       \* sessions whose two sockets were closed by meta.Close
    aged,         \* sessions older than MaxConnectionTime
    claimDB,      \* tokens -> the database id signed into the JWT, or None
    row,          \* tokens that have a row in database_tokens
    revoked,      \* tokens whose row has, or had when deleted, revoked = 1
    expired,      \* tokens past expires_at (the JWT's exp is the same)
    legacy,       \* tokens whose stored hash no rebuilt JWT reproduces
    dbRow,        \* ids present in databases
    container,    \* databases whose container is up
    checker,      \* connectionStateChecker
    request,      \* Requests -> the API handler running
    told,         \* tokens whose revocation was answered with 200
    restarts,
    stillValid    \* history: sessions entered while their token was active

sessionVars == <<pc, tok, activeConns, closed, aged, stillValid>>
tokenVars == <<claimDB, row, revoked, legacy>>
dbVars == <<dbRow, container>>
vars == <<pc, tok, activeConns, closed, aged, stillValid, claimDB, row, revoked,
          legacy, expired, dbRow, container, checker, request, told, restarts>>

(* The steps of handleConnection: "new" is a client that has not come yet, *)
(* "gone" a handler that has returned.                                     *)
EarlyStates == {"handshake", "jwt", "checked", "dialing", "backendAuth"}
SessionStates == {"new", "gone", "piping", "ended"} \cup EarlyStates

RequestStates == {"idle", "mint", "disconnect", "range",
                  "delContainers", "delRevoke", "delTokens", "delRow"}

(* A request: where it is, its database, the tokens it revoked, those      *)
(* still to be disconnected, the one being disconnected and the entries    *)
(* that its Range has still to visit.                                      *)
RequestType ==
    [at : RequestStates, db : Databases \cup {None}, mine : SUBSET Tokens,
     pending : SUBSET Tokens, current : Tokens \cup {None}, todo : SUBSET Sessions]

Idle == [at |-> "idle", db |-> None, mine |-> {}, pending |-> {}, current |-> None, todo |-> {}]

(* The checker: what its Range has still to visit, and what was true when  *)
(* its ticker fired (it reads the clock once per tick).                    *)
CheckerType ==
    [todo : SUBSET Sessions, aged : SUBSET Sessions, expired : SUBSET Tokens]

Waiting == [todo |-> {}, aged |-> {}, expired |-> {}]

Issued == {t \in Tokens : claimDB[t] # None}

(* A row with revoked = 0.  GetActiveTokenForDatabase also wants it not to *)
(* be expired; the SELECT of a rotation does not.                          *)
Active == row \ revoked
ActiveFor(d) == {t \in Active : claimDB[t] = d}

(* Each database starts with one token, as its creation leaves it.         *)
Init ==
    /\ pc = [s \in Sessions |-> "new"]
    /\ tok = [s \in Sessions |-> None]
    /\ activeConns = {}
    /\ closed = {}
    /\ aged = {}
    /\ stillValid = {}
    /\ claimDB \in [Tokens -> Databases \cup {None}]
    /\ \A d \in Databases : \E t \in Tokens : {u \in Tokens : claimDB[u] = d} = {t}
    /\ row = Issued
    /\ revoked = {}
    /\ legacy \in SUBSET Issued
    /\ expired = {}
    /\ dbRow = Databases
    /\ container = Databases
    /\ checker = Waiting
    /\ request = [r \in Requests |-> Idle]
    /\ told = {}
    /\ restarts = 0

-----------------------------------------------------------------------------
(* handleConnection.  Every return goes to "gone"; the deferred closing of *)
(* sockets and the release of the slot are in ConnectionSlots.             *)

Goto(s, state) == pc' = [pc EXCEPT ![s] = state]

UnchangedBySession == UNCHANGED <<tokenVars, expired, dbVars, checker, request, told, restarts>>

(* On to the next step of the handler. *)
Advance(s, state) ==
    /\ Goto(s, state)
    /\ UNCHANGED <<tok, activeConns, closed, aged, stillValid>>

(* handleConnection returns: its sockets and its locals are no more. *)
Return(s) ==
    /\ Goto(s, "gone")
    /\ tok' = [tok EXCEPT ![s] = None]
    /\ closed' = closed \ {s}
    /\ aged' = aged \ {s}
    /\ stillValid' = stillValid \ {s}

Reject(s) == Return(s) /\ UNCHANGED activeConns

Connect(s, t) ==
    /\ pc[s] = "new"
    /\ t \in Issued
    /\ Goto(s, "handshake")
    /\ tok' = [tok EXCEPT ![s] = t]
    /\ UNCHANGED <<activeConns, closed, aged, stillValid>>
    /\ UnchangedBySession

(* handleFrontendHandshake, bounded by AuthTimeout, then ValidateJWT, the  *)
(* purpose and checkTokenRevocation.  The revocation store is empty: only  *)
(* the API of proxy/api.go fills it and nothing starts that one.           *)
Authenticate(s) ==
    /\ pc[s] = "handshake"
    /\ IF tok[s] \in expired THEN Reject(s) ELSE Advance(s, "jwt")
    /\ UnchangedBySession

(* Mutant of CheckTokenActive: only the JWT's own expiry is looked at. *)
TrustToken(s) ==
    /\ pc[s] = "jwt"
    /\ IF tok[s] \notin expired THEN Advance(s, "checked") ELSE Reject(s)
    /\ UnchangedBySession

CheckTokenActive(s) ==
    /\ pc[s] = "jwt"
    /\ IF tok[s] \in Active \ expired THEN Advance(s, "checked") ELSE Reject(s)
    /\ UnchangedBySession

LookupDatabase(s) ==
    /\ pc[s] = "checked"
    /\ IF claimDB[tok[s]] \in dbRow THEN Advance(s, "dialing") ELSE Reject(s)
    /\ UnchangedBySession

(* DialTimeout, 200 ms for the internal address and 5 s for localhost.     *)
Dial(s) ==
    /\ pc[s] = "dialing"
    /\ IF claimDB[tok[s]] \in container THEN Advance(s, "backendAuth") ELSE Reject(s)
    /\ UnchangedBySession

(* A handshake that times out, a failing query, dial or backend handshake. *)
Fail(s) ==
    /\ pc[s] \in {"handshake", "jwt", "checked", "dialing", "backendAuth"}
    /\ Reject(s)
    /\ UnchangedBySession

(* Mutant of Register: the session is never entered in activeConns. *)
PipeUnregistered(s) ==
    /\ pc[s] = "backendAuth"
    /\ claimDB[tok[s]] \in container
    /\ Goto(s, "piping")
    /\ stillValid' = IF tok[s] \in Active THEN stillValid \cup {s} ELSE stillValid
    /\ UNCHANGED <<tok, activeConns, closed, aged, tokenVars, expired, dbVars, checker,
                   request, told, restarts>>

(* handleBackendHandshake returns, when the backend has answered (its      *)
(* reads have no deadline), and activeConns.Store follows at once.  A      *)
(* Range that is running may or may not visit the new entry.               *)
Register(s) ==
    /\ pc[s] = "backendAuth"
    /\ claimDB[tok[s]] \in container
    /\ Goto(s, "piping")
    /\ activeConns' = activeConns \cup {s}
    /\ stillValid' = IF tok[s] \in Active THEN stillValid \cup {s} ELSE stillValid
    /\ \/ UNCHANGED checker
       \/ /\ checker.todo # {}
          /\ checker' = [checker EXCEPT !.todo = @ \cup {s}]
    /\ \E R \in SUBSET {r \in Requests : request[r].at = "range"} :
          request' = [r \in Requests |->
                        IF r \in R THEN [request[r] EXCEPT !.todo = @ \cup {s}]
                                   ELSE request[r]]
    /\ UNCHANGED <<tok, closed, aged, tokenVars, expired, dbVars, told, restarts>>

(* The first of the two pipes returns: the client or the backend hung up,  *)
(* a read timed out, or the sockets were closed.                           *)
EndPipe(s) ==
    /\ pc[s] = "piping"
    /\ Advance(s, "ended")
    /\ UnchangedBySession

(* A pipe whose sockets were closed, or whose backend is gone, must return. *)
CutPipe(s) ==
    /\ EndPipe(s)
    /\ s \in closed \/ claimDB[tok[s]] \notin container

Deregister(s) ==
    /\ pc[s] = "ended"
    /\ Return(s)
    /\ activeConns' = activeConns \ {s}
    /\ UnchangedBySession

-----------------------------------------------------------------------------
(* The checkers.  meta.Close, which closes both sockets once, and          *)
(* activeConns.Delete are one step here: no other step can tell the state  *)
(* between them from the one after.                                        *)

CloseAndDelete(s) ==
    /\ closed' = closed \cup {s}
    /\ activeConns' = activeConns \ {s}

(* The ticker of connectionStateChecker fires and its Range starts.        *)
CheckerTick ==
    /\ checker.todo = {}
    /\ activeConns # {}
    /\ checker' = [todo |-> activeConns, aged |-> aged, expired |-> expired]
    /\ UNCHANGED <<sessionVars, tokenVars, expired, dbVars, request, told, restarts>>

(* Mutant of CheckerVisit: only revoked tokens are looked for, not those   *)
(* expired or whose row is gone, nor old connections.                      *)
VisitOnlyRevoked(s) ==
    /\ s \in checker.todo
    /\ IF s \in activeConns /\ tok[s] \in row \cap revoked
       THEN CloseAndDelete(s)
       ELSE UNCHANGED <<activeConns, closed>>
    /\ checker' = IF checker.todo = {s} THEN Waiting
                  ELSE [checker EXCEPT !.todo = @ \ {s}]
    /\ UNCHANGED <<pc, tok, aged, stillValid, tokenVars, expired, dbVars, request,
                   told, restarts>>

(* Mutant of CheckerVisit: the age of the connection is not looked at.     *)
VisitIgnoringAge(s) ==
    /\ s \in checker.todo
    /\ IF s \in activeConns /\ (tok[s] \notin Active \/ tok[s] \in checker.expired)
       THEN CloseAndDelete(s)
       ELSE UNCHANGED <<activeConns, closed>>
    /\ checker' = IF checker.todo = {s} THEN Waiting
                  ELSE [checker EXCEPT !.todo = @ \ {s}]
    /\ UNCHANGED <<pc, tok, aged, stillValid, tokenVars, expired, dbVars, request,
                   told, restarts>>

(* One entry: too old by the clock of the tick, or a token whose record is *)
(* by now gone, revoked or (by that clock) expired.                        *)
CheckerVisit(s) ==
    /\ s \in checker.todo
    /\ IF /\ s \in activeConns
          /\ \/ s \in checker.aged
             \/ tok[s] \notin Active
             \/ tok[s] \in checker.expired
       THEN CloseAndDelete(s)
       ELSE UNCHANGED <<activeConns, closed>>
    /\ checker' = IF checker.todo = {s} THEN Waiting
                  ELSE [checker EXCEPT !.todo = @ \ {s}]
    /\ UNCHANGED <<pc, tok, aged, stillValid, tokenVars, expired, dbVars, request,
                   told, restarts>>

(* idleConnectionChecker finds an entry idle for longer than IdleTimeout.  *)
(* When that is so is the subject of SessionTimeouts: here, at any time.   *)
IdleClose(s) ==
    /\ s \in activeConns
    /\ CloseAndDelete(s)
    /\ UNCHANGED <<pc, tok, aged, stillValid, tokenVars, expired, dbVars, checker,
                   request, told, restarts>>

-----------------------------------------------------------------------------
(* The API handlers. *)

UnchangedBySQL == UNCHANGED <<sessionVars, expired, checker, restarts>>

(* DELETE /api/databases/:id/tokens/:token_id: RevokeToken, which wants a  *)
(* row and does not mind that it is revoked already, then DisconnectToken. *)
Revoke(r, t) ==
    /\ request[r].at = "idle"
    /\ t \in row
    /\ revoked' = revoked \cup {t}
    /\ request' = [request EXCEPT ![r] =
          [Idle EXCEPT !.at = "disconnect", !.mine = {t}, !.pending = {t}]]
    /\ UnchangedBySQL
    /\ UNCHANGED <<claimDB, row, legacy, dbVars, told>>

(* POST .../tokens/rotate: one transaction selects and revokes the tokens  *)
(* that are not revoked and stores the new one.                            *)
Rotate(r, d, new) ==
    /\ request[r].at = "idle"
    /\ new \in Tokens \ Issued
    /\ revoked' = revoked \cup ActiveFor(d)
    /\ claimDB' = [claimDB EXCEPT ![new] = d]
    /\ row' = row \cup {new}
    /\ request' = [request EXCEPT ![r] =
          [Idle EXCEPT !.at = "disconnect", !.db = d,
                       !.mine = ActiveFor(d), !.pending = ActiveFor(d)]]
    /\ UnchangedBySQL
    /\ UNCHANGED <<legacy, dbVars, told>>

(* DisconnectToken starts to range, for the next token of DisconnectTokens.*)
(* In a process without the proxy activeConns is empty.                    *)
BeginRange(r, t) ==
    /\ request[r].at = "disconnect"
    /\ t \in request[r].pending
    /\ request' = [request EXCEPT ![r].at = "range", ![r].current = t,
                                  ![r].pending = @ \ {t},
                                  ![r].todo = IF InProcess THEN activeConns ELSE {}]
    /\ UnchangedBySQL
    /\ UNCHANGED <<tokenVars, dbVars, told>>

(* Mutant of DisconnectVisit: the first entry found ends the Range. *)
StopAtFirst(r, s) ==
    /\ request[r].at = "range"
    /\ s \in request[r].todo
    /\ IF s \in activeConns /\ tok[s] = request[r].current
       THEN CloseAndDelete(s)
       ELSE UNCHANGED <<activeConns, closed>>
    /\ request' = [request EXCEPT ![r].todo = {}]
    /\ UNCHANGED <<pc, tok, aged, stillValid, tokenVars, expired, dbVars, checker,
                   told, restarts>>

DisconnectVisit(r, s) ==
    /\ request[r].at = "range"
    /\ s \in request[r].todo
    /\ IF s \in activeConns /\ tok[s] = request[r].current
       THEN CloseAndDelete(s)
       ELSE UNCHANGED <<activeConns, closed>>
    /\ request' = [request EXCEPT ![r].todo = @ \ {s}]
    /\ UNCHANGED <<pc, tok, aged, stillValid, tokenVars, expired, dbVars, checker,
                   told, restarts>>

EndRange(r) ==
    /\ request[r].at = "range"
    /\ request[r].todo = {}
    /\ request' = [request EXCEPT ![r].at = "disconnect", ![r].current = None]
    /\ UnchangedBySQL
    /\ UNCHANGED <<tokenVars, dbVars, told>>

(* The answer: "Token revoked successfully", "Token rotated successfully". *)
Answer(r) ==
    /\ request[r].at = "disconnect"
    /\ request[r].pending = {}
    /\ told' = told \cup request[r].mine
    /\ request' = [request EXCEPT ![r] = Idle]
    /\ UnchangedBySQL
    /\ UNCHANGED <<tokenVars, dbVars>>

(* GET .../connection-string: the newest active token is the answer, and   *)
(* nothing changes, if its JWT can be rebuilt; if there is none, or it is  *)
(* a legacy one, a new token will be minted.                               *)
LookForToken(r, d) ==
    /\ request[r].at = "idle"
    /\ ActiveFor(d) \ expired \subseteq legacy
    /\ request' = [request EXCEPT ![r] = [Idle EXCEPT !.at = "mint", !.db = d]]
    /\ UnchangedBySQL
    /\ UNCHANGED <<tokenVars, dbVars, told>>

Mint(r, new) ==
    /\ request[r].at = "mint"
    /\ new \in Tokens \ Issued
    /\ claimDB' = [claimDB EXCEPT ![new] = request[r].db]
    /\ row' = row \cup {new}
    /\ request' = [request EXCEPT ![r] = Idle]
    /\ UnchangedBySQL
    /\ UNCHANGED <<revoked, legacy, dbVars, told>>

(* deleteDatabaseResources: stop and remove the containers, then one       *)
(* statement after the other.  Whatever fails is ignored, but for the last *)
(* statement, whose error is answered: it changes nothing in either case.  *)
DeleteDatabase(r, d) ==
    /\ request[r].at = "idle"
    /\ d \in dbRow
    /\ request' = [request EXCEPT ![r] = [Idle EXCEPT !.at = "delContainers", !.db = d]]
    /\ UnchangedBySQL
    /\ UNCHANGED <<tokenVars, dbVars, told>>

DeleteContainer(r) ==
    /\ request[r].at = "delContainers"
    /\ container' \in {container, container \ {request[r].db}}
    /\ request' = [request EXCEPT ![r].at = "delRevoke"]
    /\ UnchangedBySQL
    /\ UNCHANGED <<tokenVars, dbRow, told>>

DeleteRevokes(r) ==
    /\ request[r].at = "delRevoke"
    /\ revoked' \in {revoked, revoked \cup {t \in row : claimDB[t] = request[r].db}}
    /\ request' = [request EXCEPT ![r].at = "delTokens"]
    /\ UnchangedBySQL
    /\ UNCHANGED <<claimDB, row, legacy, dbVars, told>>

DeleteTokens(r) ==
    /\ request[r].at = "delTokens"
    /\ row' \in {row, {t \in row : claimDB[t] # request[r].db}}
    /\ request' = [request EXCEPT ![r].at = "delRow"]
    /\ UnchangedBySQL
    /\ UNCHANGED <<claimDB, revoked, legacy, dbVars, told>>

DeleteRow(r) ==
    /\ request[r].at = "delRow"
    /\ dbRow' \in {dbRow, dbRow \ {request[r].db}}
    /\ request' = [request EXCEPT ![r] = Idle]
    /\ UnchangedBySQL
    /\ UNCHANGED <<tokenVars, container, told>>

-----------------------------------------------------------------------------
(* The clock, and the process. *)

OnlyClock ==
    /\ Cardinality(aged) + Cardinality(expired) < MaxLate
    /\ UNCHANGED <<pc, tok, activeConns, closed, stillValid, tokenVars, dbVars,
                    checker, request, told, restarts>>

(* A connection grows older than MaxConnectionTime.  Every other stage of  *)
(* the handler is over within seconds.                                     *)
Age(s) ==
    /\ pc[s] \in {"backendAuth", "piping"}
    /\ s \notin aged
    /\ aged' = aged \cup {s}
    /\ UNCHANGED expired
    /\ OnlyClock

Expire(t) ==
    /\ t \in Issued \ expired
    /\ expired' = expired \cup {t}
    /\ UNCHANGED aged
    /\ OnlyClock

(* The process dies and comes back: its sockets, maps and goroutines are   *)
(* lost, the database stays as the last statement left it.                 *)
Restart ==
    /\ restarts < MaxRestarts
    /\ restarts' = restarts + 1
    /\ pc' = [s \in Sessions |-> IF pc[s] = "new" THEN "new" ELSE "gone"]
    /\ tok' = [s \in Sessions |-> None]
    /\ activeConns' = {}
    /\ closed' = {}
    /\ aged' = {}
    /\ stillValid' = {}
    /\ checker' = Waiting
    /\ request' = [r \in Requests |-> Idle]
    /\ UNCHANGED <<tokenVars, expired, dbVars, told>>

-----------------------------------------------------------------------------
Handler(s) ==
    \/ Authenticate(s) \/ CheckTokenActive(s) \/ LookupDatabase(s) \/ Dial(s)
    \/ CutPipe(s) \/ Deregister(s)

Environment ==
    \/ \E s \in Sessions, t \in Tokens : Connect(s, t)
    \/ \E s \in Sessions : Register(s) \/ Fail(s) \/ EndPipe(s) \/ Age(s)
    \/ \E t \in Tokens : Expire(t)
    \/ Restart

Checkers ==
    \/ CheckerTick
    \/ \E s \in Sessions : CheckerVisit(s) \/ IdleClose(s)

Api ==
    \E r \in Requests :
        \/ \E t \in Tokens : Revoke(r, t) \/ BeginRange(r, t)
        \/ \E d \in Databases, new \in Tokens : Rotate(r, d, new)
        \/ \E s \in Sessions : DisconnectVisit(r, s)
        \/ EndRange(r) \/ Answer(r)
        \/ \E d \in Databases : LookForToken(r, d) \/ DeleteDatabase(r, d)
        \/ \E new \in Tokens : Mint(r, new)
        \/ DeleteContainer(r) \/ DeleteRevokes(r) \/ DeleteTokens(r) \/ DeleteRow(r)

Next == (\E s \in Sessions : Handler(s)) \/ Environment \/ Checkers \/ Api

Spec == Init /\ [][Next]_vars

(* The goroutines run and the ticker of the checker fires.  Nothing is     *)
(* assumed of clients, of the backend, of time or of anybody's calling the *)
(* API; handlers of requests are not needed.                               *)
FairSpec ==
    /\ Spec
    /\ \A s \in Sessions : WF_vars(Handler(s)) /\ WF_vars(CheckerVisit(s))
    /\ WF_vars(CheckerTick)

-----------------------------------------------------------------------------
(* Properties. *)

TypeOK ==
    /\ pc \in [Sessions -> SessionStates]
    /\ tok \in [Sessions -> Tokens \cup {None}]
    /\ activeConns \subseteq Sessions
    /\ closed \subseteq Sessions
    /\ aged \subseteq Sessions
    /\ stillValid \subseteq Sessions
    /\ claimDB \in [Tokens -> Databases \cup {None}]
    /\ row \subseteq Tokens
    /\ revoked \subseteq Tokens
    /\ legacy \subseteq Tokens
    /\ expired \subseteq Tokens
    /\ dbRow \subseteq Databases
    /\ container \subseteq Databases
    /\ checker \in CheckerType
    /\ request \in [Requests -> RequestType]
    /\ told \subseteq Tokens
    /\ restarts \in 0..MaxRestarts

Live(s) == pc[s] = "piping" /\ s \notin closed

(* No session pipes data behind the checkers' backs: one that is not in    *)
(* activeConns, where the lifetime, idle and token checks and the          *)
(* disconnection look for it, has had its sockets closed.                  *)
NoUntrackedSession == \A s \in Sessions : Live(s) => s \in activeConns

(* The map holds no entry of a handler that has returned, so the count     *)
(* GetProxyStatus reports is never one of ghosts, and no entry is closed.  *)
NoGhostEntry ==
    \A s \in activeConns : pc[s] \in {"piping", "ended"} /\ s \notin closed

(* activeConns is what the handlers make of it.                            *)
RegistryExact == NoUntrackedSession /\ NoGhostEntry

(* Once a revocation or a rotation has been answered, every session that   *)
(* was entered while the token was active has been cut, however its Range, *)
(* the checkers, other requests and ending sessions interleave.  What can  *)
(* survive the answer is only a session still on its way in at the time.   *)
DisconnectComplete ==
    \A s \in Sessions : Live(s) /\ tok[s] \in told => s \notin stillValid

(* A token whose revocation was answered never authenticates again: not    *)
(* through a rotation, a mint, a restart or the deletion of its row.       *)
NoAuthAfterAnswer ==
    [][\A s \in Sessions :
          pc[s] = "jwt" /\ pc'[s] = "checked" => tok[s] \notin told]_vars

(* A session whose token was revoked, has expired or was deleted with its  *)
(* database does not live on, however young it is: the checker cuts it,    *)
(* even if the request missed it or ran in another process.                *)
StaleSessionEnds ==
    \A s \in Sessions :
        pc[s] = "piping" /\ (tok[s] \notin Active \/ tok[s] \in expired) ~> pc[s] = "gone"

(* A session entered in activeConns does not outlive MaxConnectionTime for *)
(* long, however good its token: the checker, whose tick may have read the *)
(* clock too early to see it, finds it at the next one.                    *)
OldSessionEnds ==
    \A s \in Sessions : s \in activeConns /\ s \in aged ~> pc[s] = "gone"

(* What the dashboard tells the user after a rotation                      *)
(* (frontend/src/pages/DatabaseDetail.tsx:342): "Token rotated. Previous   *)
(* connection strings were revoked immediately."                           *)
RevokedImmediately == \A s \in Sessions : tok[s] \in told => ~Live(s)

=============================================================================
