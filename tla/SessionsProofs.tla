-------------------------- MODULE SessionsProofs ---------------------------
(***************************************************************************)
(* The sessions of the proxy, their revocation and their timeouts.         *)
(***************************************************************************)
EXTENDS ProxySessions, SessionTimeouts, TLAPS

(***************************************************************************)
(* ProxySessions, for any number of sessions, tokens, databases and        *)
(* requests: no session is untracked, no entry is a ghost, no answered     *)
(* token authenticates, and (with the API in the proxy's process) an       *)
(* answered revocation has cut every session entered before it.            *)
(*                                                                         *)
(* The last two are not inductive.  Between the UPDATE of a request and    *)
(* its answer its tokens are revoked but their sessions still live; the    *)
(* strengthening says that each of them is then still ahead of the         *)
(* request: its token is yet to be ranged over, or its entry to be         *)
(* visited by the Range that is running.                                   *)
(***************************************************************************)
(* Only a session whose handler pipes was entered or has been closed.      *)
MarkedWhilePiping == \A s \in stillValid \cup closed : pc[s] \in {"piping", "ended"}

Tracking == NoUntrackedSession /\ NoGhostEntry /\ MarkedWhilePiping

(* The tokens of requests that disconnect, and those answered, are revoked. *)
RevokedFirst ==
    /\ told \subseteq revoked
    /\ \A r \in Requests : request[r].mine \subseteq revoked

(* Only the requests that disconnect have tokens, and only those that      *)
(* range an entry to visit.                                                *)
RequestShape ==
    \A r \in Requests :
        /\ request[r].at \notin {"disconnect", "range"} => request[r].mine = {}
        /\ request[r].at # "range" => request[r].todo = {}

(* Request r will still come to the entry of session s. *)
Ahead(r, s) ==
    \/ tok[s] \in request[r].pending
    \/ request[r].current = tok[s] /\ s \in request[r].todo

Pursuit ==
    \A s \in activeConns \cap stillValid :
        /\ tok[s] \notin told
        /\ \A r \in Requests : tok[s] \in request[r].mine => Ahead(r, s)

Inv == TypeOK /\ Tracking /\ RevokedFirst

IInv == Inv /\ RequestShape /\ Pursuit

-----------------------------------------------------------------------------
(* The initial states satisfy the invariant. *)
LEMMA InitIInv == Init => IInv
  <1>1. Idle \in RequestType
    BY DEF Idle, RequestType, RequestStates
  <1>2. Waiting \in CheckerType
    BY DEF Waiting, CheckerType
  <1> SUFFICES ASSUME Init PROVE IInv
    OBVIOUS
  <1>3. TypeOK
    BY <1>1, <1>2, BoundsAssumption DEF Init, TypeOK, Issued, SessionStates, EarlyStates
  <1>4. Tracking
    BY DEF Init, Tracking, NoUntrackedSession, NoGhostEntry, MarkedWhilePiping, Live
  <1>5. RevokedFirst /\ RequestShape /\ Pursuit
    BY DEF Init, RevokedFirst, RequestShape, Pursuit, Idle
  <1> QED
    BY <1>3, <1>4, <1>5 DEF IInv, Inv

(* What each action does to a request keeps it a request. *)
LEMMA RequestTypes ==
    ASSUME TypeOK, [Next]_vars
    PROVE  request' \in [Requests -> RequestType]
  <1> USE DEF TypeOK
  <1>i. Idle \in RequestType
    BY DEF Idle, RequestType, RequestStates
  <1>1. CASE UNCHANGED request
    BY <1>1
  <1>2. ASSUME NEW s \in Sessions, Register(s)
        PROVE  request' \in [Requests -> RequestType]
    <2>1. PICK R \in SUBSET {r \in Requests : request[r].at = "range"} :
            request' = [r \in Requests |->
                          IF r \in R THEN [request[r] EXCEPT !.todo = @ \cup {s}]
                                     ELSE request[r]]
      BY <1>2 DEF Register
    <2>2. ASSUME NEW r \in Requests
          PROVE  [request[r] EXCEPT !.todo = @ \cup {s}] \in RequestType
      BY <1>2 DEF RequestType
    <2> QED
      BY <2>1, <2>2
  <1>3. CASE Restart
    BY <1>3, <1>i DEF Restart
  <1>4. ASSUME NEW r \in Requests, NEW t \in Tokens, Revoke(r, t)
        PROVE  request' \in [Requests -> RequestType]
    BY <1>4, <1>i DEF Revoke, Idle, RequestType, RequestStates
  <1>5. ASSUME NEW r \in Requests, NEW t \in Tokens, BeginRange(r, t)
        PROVE  request' \in [Requests -> RequestType]
    BY <1>5 DEF BeginRange, RequestType, RequestStates
  <1>6. ASSUME NEW r \in Requests, NEW d \in Databases, NEW new \in Tokens, Rotate(r, d, new)
        PROVE  request' \in [Requests -> RequestType]
    BY <1>6 DEF Rotate, ActiveFor, Active, Idle, RequestType, RequestStates
  <1>7. ASSUME NEW r \in Requests, NEW s \in Sessions, DisconnectVisit(r, s)
        PROVE  request' \in [Requests -> RequestType]
    BY <1>7 DEF DisconnectVisit, RequestType
  <1>8. ASSUME NEW r \in Requests,
               EndRange(r) \/ DeleteContainer(r) \/ DeleteRevokes(r) \/ DeleteTokens(r)
        PROVE  request' \in [Requests -> RequestType]
    <2>1. CASE EndRange(r)
      <3>1. [request[r] EXCEPT !.at = "disconnect", !.current = None] \in RequestType
        BY DEF RequestType, RequestStates
      <3> QED
        BY <2>1, <3>1 DEF EndRange
    <2>2. CASE DeleteContainer(r)
      BY <2>2 DEF DeleteContainer, RequestType, RequestStates
    <2>3. CASE DeleteRevokes(r)
      BY <2>3 DEF DeleteRevokes, RequestType, RequestStates
    <2>4. CASE DeleteTokens(r)
      BY <2>4 DEF DeleteTokens, RequestType, RequestStates
    <2> QED
      BY <1>8, <2>1, <2>2, <2>3, <2>4
  <1>9. ASSUME NEW r \in Requests, Answer(r) \/ DeleteRow(r) \/ (\E new \in Tokens : Mint(r, new))
        PROVE  request' \in [Requests -> RequestType]
    BY <1>9, <1>i DEF Answer, DeleteRow, Mint
  <1>10. ASSUME NEW r \in Requests, NEW d \in Databases, LookForToken(r, d) \/ DeleteDatabase(r, d)
         PROVE  request' \in [Requests -> RequestType]
    <2>1. /\ [Idle EXCEPT !.at = "mint", !.db = d] \in RequestType
          /\ [Idle EXCEPT !.at = "delContainers", !.db = d] \in RequestType
      BY DEF Idle, RequestType, RequestStates
    <2> QED
      BY <1>10, <2>1 DEF LookForToken, DeleteDatabase
  <1>11. CASE Api
    BY <1>11, <1>4, <1>5, <1>6, <1>7, <1>8, <1>9, <1>10 DEF Api
  <1>12. CASE Environment
    BY <1>12, <1>1, <1>2, <1>3
    DEF Environment, Connect, Fail, EndPipe, Age, Expire, OnlyClock, UnchangedBySession
  <1>13. CASE Checkers
    BY <1>13, <1>1 DEF Checkers, CheckerTick, CheckerVisit, IdleClose
  <1>14. CASE \E s \in Sessions : Handler(s)
    BY <1>14, <1>1 DEF Handler, Authenticate, CheckTokenActive, LookupDatabase, Dial,
       CutPipe, EndPipe, Deregister, UnchangedBySession
  <1>15. CASE UNCHANGED vars
    BY <1>15, <1>1 DEF vars
  <1> QED
    BY <1>11, <1>12, <1>13, <1>14, <1>15 DEF Next

(* A step keeps the types. *)
LEMMA StepTypes ==
    ASSUME TypeOK, [Next]_vars
    PROVE  TypeOK'
  <1> USE DEF TypeOK
  <1>r. request' \in [Requests -> RequestType]
    BY RequestTypes
  <1>s. SessionStates = {"new", "gone", "piping", "ended", "handshake", "jwt",
                         "checked", "dialing", "backendAuth"}
    BY DEF SessionStates, EarlyStates
  <1>w. Waiting \in CheckerType
    BY DEF Waiting, CheckerType
  <1>1. ASSUME NEW s \in Sessions, Handler(s)
        PROVE  TypeOK'
    BY <1>1, <1>r, <1>s DEF Handler, Authenticate, CheckTokenActive, LookupDatabase, Dial,
       CutPipe, EndPipe, Deregister, Advance, Reject, Return, Goto, UnchangedBySession,
       tokenVars, dbVars
  <1>2. ASSUME NEW s \in Sessions, Register(s)
        PROVE  TypeOK'
    <2>1. checker' \in CheckerType
      BY <1>2 DEF Register, CheckerType
    <2> QED
      BY <1>2, <1>r, <1>s, <2>1 DEF Register, Goto, tokenVars, dbVars
  <1>3. ASSUME NEW s \in Sessions,
               Fail(s) \/ EndPipe(s) \/ (\E t \in Tokens : Connect(s, t))
        PROVE  TypeOK'
    BY <1>3, <1>r, <1>s DEF Fail, EndPipe, Connect, Advance, Reject, Return, Goto,
       UnchangedBySession, tokenVars, dbVars
  <1>4. ASSUME (\E s \in Sessions : Age(s)) \/ (\E t \in Tokens : Expire(t))
        PROVE  TypeOK'
    BY <1>4, <1>r DEF Age, Expire, OnlyClock, Issued, tokenVars, dbVars
  <1>5. CASE Restart
    BY <1>5, <1>r, <1>s, <1>w, BoundsAssumption DEF Restart, tokenVars, dbVars
  <1>6. CASE CheckerTick
    BY <1>6, <1>r DEF CheckerTick, CheckerType, sessionVars, tokenVars, dbVars
  <1>7. ASSUME NEW s \in Sessions, CheckerVisit(s)
        PROVE  TypeOK'
    <2>1. checker' \in CheckerType
      BY <1>7, <1>w DEF CheckerVisit, CheckerType
    <2> QED
      BY <1>7, <1>r, <2>1 DEF CheckerVisit, CloseAndDelete, tokenVars, dbVars
  <1>8. ASSUME NEW s \in Sessions, IdleClose(s)
        PROVE  TypeOK'
    BY <1>8, <1>r DEF IdleClose, CloseAndDelete, tokenVars, dbVars
  <1>9. ASSUME NEW r \in Requests, NEW s \in Sessions, DisconnectVisit(r, s)
        PROVE  TypeOK'
    BY <1>9, <1>r DEF DisconnectVisit, CloseAndDelete, tokenVars, dbVars
  <1>10. ASSUME NEW r \in Requests, NEW d \in Databases, NEW new \in Tokens, Rotate(r, d, new)
         PROVE  TypeOK'
    BY <1>10, <1>r DEF Rotate, ActiveFor, Active, UnchangedBySQL, sessionVars, dbVars
  <1>11. ASSUME NEW r \in Requests, NEW new \in Tokens, Mint(r, new)
         PROVE  TypeOK'
    BY <1>11, <1>r DEF Mint, UnchangedBySQL, sessionVars, dbVars, RequestType
  <1>12. ASSUME NEW r \in Requests, DeleteContainer(r) \/ DeleteRevokes(r) \/ DeleteTokens(r) \/ DeleteRow(r)
         PROVE  TypeOK'
    BY <1>12, <1>r DEF DeleteContainer, DeleteRevokes, DeleteTokens, DeleteRow,
       UnchangedBySQL, sessionVars, tokenVars, dbVars
  <1>13. ASSUME NEW r \in Requests, NEW t \in Tokens, Revoke(r, t) \/ BeginRange(r, t)
         PROVE  TypeOK'
    BY <1>13, <1>r DEF Revoke, BeginRange, UnchangedBySQL, sessionVars, tokenVars, dbVars
  <1>14. ASSUME NEW r \in Requests, EndRange(r) \/ Answer(r)
         PROVE  TypeOK'
    BY <1>14, <1>r DEF EndRange, Answer, UnchangedBySQL, sessionVars, tokenVars, dbVars, RequestType
  <1>15. ASSUME NEW r \in Requests, NEW d \in Databases, LookForToken(r, d) \/ DeleteDatabase(r, d)
         PROVE  TypeOK'
    BY <1>15, <1>r DEF LookForToken, DeleteDatabase, UnchangedBySQL, sessionVars, tokenVars, dbVars
  <1>16. CASE UNCHANGED vars
    BY <1>16 DEF vars
  <1> QED
    BY <1>1, <1>2, <1>3, <1>4, <1>5, <1>6, <1>7, <1>8, <1>9, <1>10, <1>11, <1>12, <1>13,
       <1>14, <1>15, <1>16 DEF Next, Environment, Checkers, Api

(* A step of the API touches no session, or visits an entry. *)
LEMMA ApiSteps ==
    ASSUME Api
    PROVE  \/ UNCHANGED sessionVars
           \/ \E r \in Requests, s \in Sessions : DisconnectVisit(r, s)
  BY DEF Api, Revoke, BeginRange, Rotate, EndRange, Answer, LookForToken, DeleteDatabase, Mint,
     DeleteContainer, DeleteRevokes, DeleteTokens, DeleteRow, UnchangedBySQL

(* A step leaves no session untracked and no entry a ghost. *)
LEMMA StepTracking ==
    ASSUME TypeOK, Tracking, [Next]_vars
    PROVE  Tracking'
  <1> USE DEF TypeOK, Tracking, NoUntrackedSession, NoGhostEntry, MarkedWhilePiping, Live
  <1>1. ASSUME NEW s \in Sessions, Handler(s)
        PROVE  Tracking'
    BY <1>1 DEF Handler, Authenticate, CheckTokenActive, LookupDatabase, Dial,
       CutPipe, EndPipe, Deregister, Advance, Reject, Return, Goto
  <1>2. ASSUME NEW s \in Sessions, Register(s)
        PROVE  Tracking'
    BY <1>2 DEF Register, Goto
  <1>3. ASSUME NEW s \in Sessions,
               Fail(s) \/ EndPipe(s) \/ (\E t \in Tokens : Connect(s, t))
        PROVE  Tracking'
    BY <1>3 DEF Fail, EndPipe, Connect, Advance, Reject, Return, Goto
  <1>4. ASSUME (\E s \in Sessions : Age(s)) \/ (\E t \in Tokens : Expire(t))
        PROVE  Tracking'
    BY <1>4 DEF Age, Expire, OnlyClock
  <1>5. CASE Restart
    BY <1>5 DEF Restart
  <1>6. CASE UNCHANGED sessionVars
    BY <1>6 DEF sessionVars
  <1>7. ASSUME NEW s \in Sessions, CheckerVisit(s) \/ IdleClose(s)
        PROVE  Tracking'
    BY <1>7 DEF CheckerVisit, IdleClose, CloseAndDelete
  <1>8. ASSUME NEW r \in Requests, NEW s \in Sessions, DisconnectVisit(r, s)
        PROVE  Tracking'
    BY <1>8 DEF DisconnectVisit, CloseAndDelete
  <1>9. CASE Api
    BY <1>9, <1>6, <1>8, ApiSteps
  <1>10. CASE CheckerTick
    BY <1>10, <1>6 DEF CheckerTick
  <1>11. CASE UNCHANGED vars
    BY <1>11, <1>6 DEF vars, sessionVars
  <1> QED
    BY <1>1, <1>2, <1>3, <1>4, <1>5, <1>7, <1>9, <1>10, <1>11 DEF Next, Environment, Checkers

(* A step answers only revoked tokens, and a request takes up only tokens   *)
(* it has revoked.                                                         *)
LEMMA StepRevokedFirst ==
    ASSUME TypeOK, RevokedFirst, [Next]_vars
    PROVE  RevokedFirst'
  <1> USE DEF TypeOK, RevokedFirst
  <1>1. CASE UNCHANGED <<revoked, told>> /\ \A r \in Requests : request'[r].mine = request[r].mine
    BY <1>1
  <1>2. ASSUME NEW s \in Sessions, Register(s)
        PROVE  RevokedFirst'
    BY <1>2, <1>1 DEF Register, tokenVars, RequestType
  <1>3. CASE Restart
    BY <1>3 DEF Restart, Idle, tokenVars
  <1>4. ASSUME NEW r \in Requests, NEW t \in Tokens, Revoke(r, t)
        PROVE  RevokedFirst'
    BY <1>4 DEF Revoke, Idle
  <1>5. ASSUME NEW r \in Requests, NEW d \in Databases, NEW new \in Tokens, Rotate(r, d, new)
        PROVE  RevokedFirst'
    BY <1>5 DEF Rotate, Idle
  <1>6. ASSUME NEW r \in Requests, NEW t \in Tokens, BeginRange(r, t)
        PROVE  RevokedFirst'
    BY <1>6, <1>1 DEF BeginRange, tokenVars, RequestType
  <1>7. ASSUME NEW r \in Requests, NEW s \in Sessions, DisconnectVisit(r, s)
        PROVE  RevokedFirst'
    BY <1>7, <1>1 DEF DisconnectVisit, tokenVars, RequestType
  <1>8. ASSUME NEW r \in Requests, EndRange(r)
        PROVE  RevokedFirst'
    BY <1>8, <1>1 DEF EndRange, tokenVars, RequestType
  <1>9. ASSUME NEW r \in Requests, Answer(r)
        PROVE  RevokedFirst'
    BY <1>9 DEF Answer, Idle, tokenVars
  <1>10. ASSUME NEW r \in Requests, NEW d \in Databases, LookForToken(r, d) \/ DeleteDatabase(r, d)
         PROVE  RevokedFirst'
    BY <1>10 DEF LookForToken, DeleteDatabase, Idle, tokenVars
  <1>11. ASSUME NEW r \in Requests, DeleteRow(r) \/ (\E new \in Tokens : Mint(r, new))
         PROVE  RevokedFirst'
    BY <1>11 DEF Mint, DeleteRow, Idle, tokenVars
  <1>12. ASSUME NEW r \in Requests, DeleteContainer(r) \/ DeleteRevokes(r) \/ DeleteTokens(r)
         PROVE  RevokedFirst'
    BY <1>12 DEF DeleteContainer, DeleteRevokes, DeleteTokens, tokenVars, RequestType
  <1>13. CASE Api
    BY <1>13, <1>4, <1>5, <1>6, <1>7, <1>8, <1>9, <1>10, <1>11, <1>12 DEF Api
  <1>14. CASE UNCHANGED <<tokenVars, told, request>>
    BY <1>14 DEF tokenVars
  <1>15. CASE \E s \in Sessions : Handler(s)
    BY <1>15, <1>14 DEF Handler, Authenticate, CheckTokenActive, LookupDatabase, Dial,
       CutPipe, EndPipe, Deregister, UnchangedBySession
  <1>16. CASE Environment
    BY <1>16, <1>2, <1>3, <1>14
    DEF Environment, Connect, Fail, EndPipe, Age, Expire, OnlyClock, UnchangedBySession
  <1>17. CASE Checkers
    BY <1>17, <1>14 DEF Checkers, CheckerTick, CheckerVisit, IdleClose
  <1>18. CASE UNCHANGED vars
    BY <1>18, <1>14 DEF vars, tokenVars
  <1> QED
    BY <1>13, <1>15, <1>16, <1>17, <1>18 DEF Next

(* A step keeps the shape of the requests. *)
LEMMA StepShape ==
    ASSUME TypeOK, RequestShape, [Next]_vars
    PROVE  RequestShape'
  <1> USE DEF TypeOK, RequestShape, RequestType
  <1>1. CASE UNCHANGED request
    BY <1>1
  <1>2. ASSUME NEW s \in Sessions, Register(s)
        PROVE  RequestShape'
    BY <1>2 DEF Register
  <1>3. CASE Restart
    BY <1>3 DEF Restart, Idle
  <1>4. ASSUME NEW r \in Requests, NEW t \in Tokens, Revoke(r, t)
        PROVE  RequestShape'
    BY <1>4 DEF Revoke, Idle
  <1>5. ASSUME NEW r \in Requests, NEW d \in Databases, NEW new \in Tokens, Rotate(r, d, new)
        PROVE  RequestShape'
    BY <1>5 DEF Rotate, Idle
  <1>6. ASSUME NEW r \in Requests, NEW t \in Tokens, BeginRange(r, t)
        PROVE  RequestShape'
    BY <1>6 DEF BeginRange
  <1>7. ASSUME NEW r \in Requests, NEW s \in Sessions, DisconnectVisit(r, s)
        PROVE  RequestShape'
    BY <1>7 DEF DisconnectVisit
  <1>8. ASSUME NEW r \in Requests, EndRange(r) \/ Answer(r)
        PROVE  RequestShape'
    BY <1>8 DEF EndRange, Answer, Idle
  <1>9. ASSUME NEW r \in Requests, NEW d \in Databases, LookForToken(r, d) \/ DeleteDatabase(r, d)
        PROVE  RequestShape'
    <2>1. CASE LookForToken(r, d)
      BY <2>1 DEF LookForToken, Idle
    <2>2. CASE DeleteDatabase(r, d)
      BY <2>2 DEF DeleteDatabase, Idle
    <2> QED
      BY <1>9, <2>1, <2>2
  <1>10. ASSUME NEW r \in Requests, DeleteRow(r) \/ (\E new \in Tokens : Mint(r, new))
         PROVE  RequestShape'
    BY <1>10 DEF Mint, DeleteRow, Idle
  <1>11. ASSUME NEW r \in Requests, DeleteContainer(r) \/ DeleteRevokes(r) \/ DeleteTokens(r)
         PROVE  RequestShape'
    BY <1>11 DEF DeleteContainer, DeleteRevokes, DeleteTokens
  <1>12. CASE Api
    BY <1>12, <1>4, <1>5, <1>6, <1>7, <1>8, <1>9, <1>10, <1>11 DEF Api
  <1>13. CASE \E s \in Sessions : Handler(s)
    BY <1>13, <1>1 DEF Handler, Authenticate, CheckTokenActive, LookupDatabase, Dial,
       CutPipe, EndPipe, Deregister, UnchangedBySession
  <1>14. CASE Environment
    BY <1>14, <1>1, <1>2, <1>3
    DEF Environment, Connect, Fail, EndPipe, Age, Expire, OnlyClock, UnchangedBySession
  <1>15. CASE Checkers
    BY <1>15, <1>1 DEF Checkers, CheckerTick, CheckerVisit, IdleClose
  <1>16. CASE UNCHANGED vars
    BY <1>16, <1>1 DEF vars
  <1> QED
    BY <1>12, <1>13, <1>14, <1>15, <1>16 DEF Next

-----------------------------------------------------------------------------
(* Pursuit is kept because sessions enter unpursued only while their token *)
(* is active, and a request drops a session only when it has visited it.   *)

(* It is enough that the entries that count are among those of before,     *)
(* with the same tokens, and that the requests and the answers did not     *)
(* change.                                                                 *)
LEMMA PursuitOfFewer ==
    ASSUME TypeOK, Pursuit, UNCHANGED <<told, request>>,
           activeConns' \cap stillValid' \subseteq activeConns \cap stillValid,
           \A s \in activeConns' \cap stillValid' : tok'[s] = tok[s]
    PROVE  Pursuit'
  BY DEF Pursuit, Ahead

LEMMA StepPursuit ==
    ASSUME InProcess = TRUE, TypeOK, Tracking, RevokedFirst, RequestShape, Pursuit, [Next]_vars
    PROVE  Pursuit'
  <1> USE DEF TypeOK
  <1>1. ASSUME NEW s \in Sessions, Handler(s) \/ Fail(s) \/ EndPipe(s) \/ (\E t \in Tokens : Connect(s, t))
        PROVE  Pursuit'
    <2>1. UNCHANGED <<told, request>>
      BY <1>1 DEF Handler, Authenticate, CheckTokenActive, LookupDatabase, Dial, CutPipe,
         EndPipe, Deregister, Fail, Connect, UnchangedBySession
    <2>2. activeConns' \cap stillValid' \subseteq activeConns \cap stillValid
      BY <1>1 DEF Handler, Authenticate, CheckTokenActive, LookupDatabase, Dial, CutPipe,
         EndPipe, Deregister, Fail, Connect, Advance, Reject, Return
    <2>3. ASSUME NEW u \in activeConns' \cap stillValid'
          PROVE  tok'[u] = tok[u]
      <3>1. pc[u] \in {"piping", "ended"}
        BY <2>2 DEF Tracking, NoGhostEntry
      <3> QED
        BY <1>1, <3>1 DEF Handler, Authenticate, CheckTokenActive, LookupDatabase, Dial, CutPipe,
           EndPipe, Deregister, Fail, Connect, Advance, Reject, Return
    <2> QED
      BY <2>1, <2>2, <2>3, PursuitOfFewer
  <1>2. ASSUME NEW s \in Sessions, Register(s)
        PROVE  Pursuit'
    <2> SUFFICES ASSUME NEW u \in activeConns' \cap stillValid'
                 PROVE  /\ tok'[u] \notin told'
                        /\ \A r \in Requests : tok'[u] \in request'[r].mine => Ahead(r, u)'
      BY DEF Pursuit
    <2>1. UNCHANGED <<tok, told, revoked>>
      BY <1>2 DEF Register, tokenVars
    <2>2. CASE u # s
      <3>1. u \in activeConns \cap stillValid
        BY <1>2, <2>2 DEF Register
      <3>2. \A r \in Requests : /\ request'[r].mine = request[r].mine
                                /\ request'[r].pending = request[r].pending
                                /\ request'[r].current = request[r].current
                                /\ request[r].todo \subseteq request'[r].todo
        BY <1>2 DEF Register, RequestType
      <3> QED
        BY <2>1, <3>1, <3>2 DEF Pursuit, Ahead
    <2>3. CASE u = s
      <3>1. s \notin stillValid
        BY <1>2 DEF Register, Tracking, MarkedWhilePiping
      <3>2. tok[s] \notin revoked
        BY <1>2, <2>3, <3>1 DEF Register, Active
      <3>3. \A r \in Requests : request'[r].mine = request[r].mine
        BY <1>2 DEF Register, RequestType
      <3> QED
        BY <2>1, <2>3, <3>2, <3>3 DEF RevokedFirst
    <2> QED
      BY <2>2, <2>3
  <1>3. ASSUME (\E s \in Sessions : Age(s)) \/ (\E t \in Tokens : Expire(t))
        PROVE  Pursuit'
    BY <1>3 DEF Age, Expire, OnlyClock, Pursuit, Ahead
  <1>4. CASE Restart
    BY <1>4 DEF Restart, Pursuit
  <1>5. CASE CheckerTick
    BY <1>5 DEF CheckerTick, sessionVars, Pursuit, Ahead
  <1>6. ASSUME NEW s \in Sessions, CheckerVisit(s) \/ IdleClose(s)
        PROVE  Pursuit'
    BY <1>6, PursuitOfFewer DEF CheckerVisit, IdleClose, CloseAndDelete
  <1>7. ASSUME NEW q \in Requests, NEW s \in Sessions, DisconnectVisit(q, s)
        PROVE  Pursuit'
    <2> SUFFICES ASSUME NEW u \in activeConns' \cap stillValid'
                 PROVE  /\ tok'[u] \notin told'
                        /\ \A r \in Requests : tok'[u] \in request'[r].mine => Ahead(r, u)'
      BY DEF Pursuit
    <2>1. u \in activeConns \cap stillValid /\ UNCHANGED <<tok, told>>
      BY <1>7 DEF DisconnectVisit, CloseAndDelete
    <2>2. ASSUME NEW r \in Requests, tok[u] \in request'[r].mine
          PROVE  Ahead(r, u)'
      <3>1. /\ request'[r].mine = request[r].mine
            /\ request'[r].pending = request[r].pending
            /\ request'[r].current = request[r].current
        BY <1>7 DEF DisconnectVisit, RequestType
      <3>2. Ahead(r, u)
        BY <2>1, <2>2, <3>1 DEF Pursuit
      <3>3. CASE tok[u] \in request[r].pending
        BY <2>1, <3>1, <3>3 DEF Ahead
      <3>4. CASE request[r].current = tok[u] /\ u \in request[r].todo
        <4>1. r # q \/ u # s
          BY <1>7, <3>4 DEF DisconnectVisit, CloseAndDelete
        <4>2. u \in request'[r].todo
          BY <1>7, <3>4, <4>1 DEF DisconnectVisit, RequestType
        <4> QED
          BY <2>1, <3>1, <3>4, <4>2 DEF Ahead
      <3> QED
        BY <3>2, <3>3, <3>4 DEF Ahead
    <2> QED
      BY <2>1, <2>2 DEF Pursuit
  <1>8. ASSUME NEW q \in Requests, Answer(q)
        PROVE  Pursuit'
    <2> SUFFICES ASSUME NEW u \in activeConns \cap stillValid
                 PROVE  /\ tok[u] \notin told'
                        /\ \A r \in Requests : tok[u] \in request'[r].mine => Ahead(r, u)'
      BY <1>8 DEF Pursuit, Answer, UnchangedBySQL, sessionVars
    <2>1. request[q].pending = {} /\ request[q].todo = {}
      BY <1>8 DEF Answer, RequestShape
    <2>2. tok[u] \notin request[q].mine
      BY <2>1 DEF Pursuit, Ahead
    <2>3. tok[u] \notin told'
      BY <1>8, <2>2 DEF Answer, Pursuit
    <2>4. ASSUME NEW r \in Requests, tok[u] \in request'[r].mine
          PROVE  Ahead(r, u)'
      BY <1>8, <2>4 DEF Answer, Idle, Pursuit, Ahead, UnchangedBySQL, sessionVars
    <2> QED
      BY <2>3, <2>4
  <1>9. ASSUME NEW q \in Requests, NEW t \in Tokens, BeginRange(q, t)
        PROVE  Pursuit'
    <2> SUFFICES ASSUME NEW u \in activeConns \cap stillValid, NEW r \in Requests,
                        tok[u] \in request'[r].mine
                 PROVE  Ahead(r, u)'
      BY <1>9 DEF Pursuit, BeginRange, UnchangedBySQL, sessionVars
    <2>1. tok' = tok /\ Ahead(r, u)
      BY <1>9 DEF Pursuit, BeginRange, UnchangedBySQL, sessionVars, RequestType
    <2>2. CASE r # q
      BY <1>9, <2>1, <2>2 DEF BeginRange, Ahead
    <2>3. CASE r = q
      <3>1. tok[u] \in request[q].pending
        BY <1>9, <2>1, <2>3 DEF BeginRange, Ahead, RequestShape
      <3>2. /\ request'[q].pending = request[q].pending \ {t}
            /\ request'[q].current = t
            /\ request'[q].todo = activeConns
        BY <1>9 DEF BeginRange, RequestType
      <3> QED
        BY <2>1, <2>3, <3>1, <3>2 DEF Ahead
    <2> QED
      BY <2>2, <2>3
  <1>10. ASSUME NEW q \in Requests, EndRange(q)
         PROVE  Pursuit'
    <2>1. UNCHANGED <<tok, activeConns, stillValid, told>>
      BY <1>10 DEF EndRange, UnchangedBySQL, sessionVars
    <2>2. ASSUME NEW r \in Requests
          PROVE  /\ request'[r].mine = request[r].mine
                 /\ request'[r].pending = request[r].pending
                 /\ request[r].todo # {} => request'[r] = request[r]
      BY <1>10 DEF EndRange, RequestType
    <2> QED
      BY <2>1, <2>2 DEF Pursuit, Ahead
  <1>11. ASSUME NEW q \in Requests, NEW t \in Tokens, Revoke(q, t)
         PROVE  Pursuit'
    BY <1>11 DEF Revoke, Idle, Pursuit, Ahead, UnchangedBySQL, sessionVars
  <1>12. ASSUME NEW q \in Requests, NEW d \in Databases, NEW new \in Tokens, Rotate(q, d, new)
         PROVE  Pursuit'
    BY <1>12 DEF Rotate, Idle, Pursuit, Ahead, UnchangedBySQL, sessionVars
  <1>13. ASSUME NEW q \in Requests, NEW d \in Databases, LookForToken(q, d) \/ DeleteDatabase(q, d)
         PROVE  Pursuit'
    <2>1. CASE LookForToken(q, d)
      BY <2>1 DEF LookForToken, Idle, Pursuit, Ahead, UnchangedBySQL, sessionVars
    <2>2. CASE DeleteDatabase(q, d)
      BY <2>2 DEF DeleteDatabase, Idle, Pursuit, Ahead, UnchangedBySQL, sessionVars
    <2> QED
      BY <1>13, <2>1, <2>2
  <1>14. ASSUME NEW q \in Requests, DeleteRow(q) \/ (\E new \in Tokens : Mint(q, new))
         PROVE  Pursuit'
    BY <1>14 DEF Mint, DeleteRow, Idle, Pursuit, Ahead, UnchangedBySQL, sessionVars
  <1>15. ASSUME NEW q \in Requests, DeleteContainer(q) \/ DeleteRevokes(q) \/ DeleteTokens(q)
         PROVE  Pursuit'
    <2>1. UNCHANGED <<tok, activeConns, stillValid, told>>
      BY <1>15 DEF DeleteContainer, DeleteRevokes, DeleteTokens, UnchangedBySQL, sessionVars
    <2>2. ASSUME NEW r \in Requests
          PROVE  /\ request'[r].mine = request[r].mine
                 /\ request'[r].pending = request[r].pending
                 /\ request'[r].current = request[r].current
                 /\ request'[r].todo = request[r].todo
      BY <1>15 DEF DeleteContainer, DeleteRevokes, DeleteTokens, RequestType
    <2> QED
      BY <2>1, <2>2 DEF Pursuit, Ahead
  <1>16. CASE UNCHANGED vars
    BY <1>16 DEF vars, Pursuit, Ahead
  <1> QED
    BY <1>1, <1>2, <1>3, <1>4, <1>5, <1>6, <1>7, <1>8, <1>9, <1>10, <1>11, <1>12, <1>13,
       <1>14, <1>15, <1>16 DEF Next, Environment, Checkers, Api

-----------------------------------------------------------------------------
(* The theorems. *)

(* The parts that hold whether or not the API shares the proxy's process.  *)
LEMMA Invariance == Spec => []Inv
  <1>1. Init => Inv
    BY InitIInv DEF IInv
  <1>2. Inv /\ [Next]_vars => Inv'
    BY StepTypes, StepTracking, StepRevokedFirst DEF Inv
  <1> QED
    BY <1>1, <1>2, PTL DEF Spec

(* Every variable keeps its type. *)
THEOREM TypeCorrect == Spec => []TypeOK
  BY Invariance, PTL DEF Inv

(* RegistryExact: whatever the handlers, the two checkers and the API do, a*)
(* session that still pipes data is in activeConns, and no entry there is  *)
(* that of a returned handler.                                             *)
THEOREM RegistryKept == Spec => []RegistryExact
  <1>1. Inv => RegistryExact
    BY DEF Inv, Tracking, RegistryExact
  <1> QED
    BY <1>1, Invariance, PTL

(* NoAuthAfterAnswer: checkTokenActive lets no token through whose         *)
(* revocation was answered.                                                *)
THEOREM AnsweredTokensRefused == Spec => NoAuthAfterAnswer
  <1>1. Inv /\ [Next]_vars =>
          [\A s \in Sessions :
             pc[s] = "jwt" /\ pc'[s] = "checked" => tok[s] \notin told]_vars
    <2> SUFFICES ASSUME Inv, Next, NEW s \in Sessions, pc[s] = "jwt", pc'[s] = "checked"
                 PROVE  tok[s] \notin told
      OBVIOUS
    <2>1. CheckTokenActive(s)
      <3>1. ~ UNCHANGED pc
        OBVIOUS
      <3>2. ~ Api
        BY <3>1, ApiSteps DEF DisconnectVisit, sessionVars
      <3>3. ~ Checkers
        BY <3>1 DEF Checkers, CheckerTick, CheckerVisit, IdleClose, sessionVars
      <3>4. ~ Environment
        BY <3>1 DEF Environment, Connect, Register, Fail, EndPipe, Age, Expire, OnlyClock,
           Restart, Advance, Reject, Return, Goto, Inv, TypeOK
      <3>5. PICK u \in Sessions : Handler(u)
        BY <3>2, <3>3, <3>4 DEF Next
      <3>6. u = s
        BY <3>5 DEF Handler, Authenticate, CheckTokenActive, LookupDatabase, Dial, CutPipe,
           EndPipe, Deregister, Advance, Reject, Return, Goto, Inv, TypeOK
      <3> QED
        BY <3>5, <3>6 DEF Handler, Authenticate, LookupDatabase, Dial, CutPipe, EndPipe, Deregister
    <2>2. tok[s] \notin revoked
      BY <2>1 DEF CheckTokenActive, Active, Reject, Return, Goto, Inv, TypeOK
    <2> QED
      BY <2>2 DEF Inv, RevokedFirst
  <1> QED
    BY <1>1, Invariance, PTL DEF Spec, NoAuthAfterAnswer

(* DisconnectComplete: in one process with the proxy, an answered          *)
(* revocation or rotation has cut every session entered while the token    *)
(* was active.                                                             *)
THEOREM DisconnectionComplete ==
    ASSUME InProcess = TRUE
    PROVE  Spec => []DisconnectComplete
  <1>1. Init => IInv
    BY InitIInv
  <1>2. IInv /\ [Next]_vars => IInv'
    BY InProcess = TRUE, StepTypes, StepTracking, StepRevokedFirst, StepShape, StepPursuit
    DEF IInv, Inv
  <1>3. IInv => DisconnectComplete
    BY DEF IInv, Inv, Tracking, NoUntrackedSession, Pursuit, DisconnectComplete
  <1> QED
    BY <1>1, <1>2, <1>3, PTL DEF Spec

-----------------------------------------------------------------------------
(***************************************************************************)
(* BoundedIdle for every AuthTimeout, IdleTimeout and CheckPeriod.  The    *)
(* invariant is that a session the checker has let pass has been idle for  *)
(* at most IdleTimeout plus the time since: at a tick of the checker it    *)
(* was within IdleTimeout, and both counts grow together.                  *)
(***************************************************************************)
NotYetStored ==
    stage \in {"handshake", "backend"} => ~checked /\ \A d \in Pipes : pipe[d] = "none"

SeenIdle == stage = "piping" /\ checked => idle <= IdleTimeout + sinceCheck

TimeoutsIInv == TimeoutsTypeOK /\ NotYetStored /\ SeenIdle

LEMMA TimeoutsInitIInv == TimeoutsInit => TimeoutsIInv
  <1> SUFFICES ASSUME TimeoutsInit PROVE TimeoutsIInv
    OBVIOUS
  <1>1. TimeoutsTypeOK
    <2>1. /\ elapsed \in 0..AuthTimeout /\ idle \in 0..Forever /\ sinceCheck \in 0..CheckPeriod
          /\ wait \in [Pipes -> 0..IdleTimeout]
      BY TimesAssumption DEF TimeoutsInit, Forever
    <2> QED
      BY <2>1, Zenon DEF TimeoutsInit, TimeoutsTypeOK
  <1>2. NotYetStored /\ SeenIdle
    BY DEF TimeoutsInit, NotYetStored, SeenIdle
  <1> QED
    BY <1>1, <1>2 DEF TimeoutsIInv

(* A step keeps the types. *)
LEMMA TimeoutsStepTypes ==
    ASSUME TimeoutsTypeOK, NotYetStored, [TimeoutsNext]_timeoutVars
    PROVE  TimeoutsTypeOK'
  <1> USE TimesAssumption DEF TimeoutsTypeOK
  <1>e. ASSUME NEW cause \in {"error", "timeout", "checker"}, End(cause), sinceCheck' \in 0..CheckPeriod
        PROVE  TimeoutsTypeOK'
    BY <1>e DEF End
  <1>1. CASE FrontendHandshake
    BY <1>1 DEF FrontendHandshake
  <1>2. CASE AuthTimesOut
    BY <1>2, <1>e DEF AuthTimesOut
  <1>3. CASE Refuse
    BY <1>3, <1>e DEF Refuse
  <1>4. CASE BackendHandshake
    <2>1. clientReady' \in BOOLEAN
      BY <1>4 DEF BackendHandshake
    <2>2. pipe' \in [Pipes -> {"none", "reading", "writing"}]
      BY <1>4 DEF BackendHandshake
    <2> QED
      BY <1>4, <2>1, <2>2 DEF BackendHandshake
  <1>5. ASSUME NEW d \in Pipes, Receive(d)
        PROVE  TimeoutsTypeOK'
    BY <1>5 DEF Receive, Forever
  <1>6. ASSUME NEW d \in Pipes, Written(d)
        PROVE  TimeoutsTypeOK'
    BY <1>6, <1>e DEF Written
  <1>7. ASSUME NEW d \in Pipes, HangUp(d) \/ ReadTimesOut(d)
        PROVE  TimeoutsTypeOK'
    BY <1>7, <1>e DEF HangUp, ReadTimesOut
  <1>8. CASE Check
    <2>1. sinceCheck' \in 0..CheckPeriod
      BY <1>8 DEF Check
    <2>2. CASE stage = "piping" /\ idle > IdleTimeout
      BY <1>8, <1>e, <2>1, <2>2 DEF Check
    <2>3. CASE ~(stage = "piping" /\ idle > IdleTimeout)
      <3>1. checked' \in BOOLEAN
        BY <1>8, <2>3, Zenon DEF Check
      <3> QED
        BY <1>8, <2>1, <2>3, <3>1 DEF Check
    <2> QED
      BY <2>2, <2>3
  <1>9. CASE Tick
    <2>1. sinceCheck' \in 0..CheckPeriod /\ elapsed' \in 0..AuthTimeout /\ idle' \in 0..Forever
      BY <1>9 DEF Tick, Urgent, Later, Forever
    <2>2. ASSUME NEW d \in Pipes
          PROVE  (IF pipe[d] = "reading" THEN wait[d] + 1 ELSE wait[d]) \in 0..IdleTimeout
      BY <1>9, <2>2 DEF Tick, Urgent, NotYetStored
    <2>3. wait' \in [Pipes -> 0..IdleTimeout]
      BY <1>9, <2>2 DEF Tick
    <2> QED
      BY <1>9, <2>1, <2>3 DEF Tick
  <1>10. CASE UNCHANGED timeoutVars
    BY <1>10 DEF timeoutVars
  <1> QED
    BY <1>1, <1>2, <1>3, <1>4, <1>5, <1>6, <1>7, <1>8, <1>9, <1>10 DEF TimeoutsNext

(* A step keeps the bound: the checker renews it, a tick moves both sides, *)
(* data bring idle back to zero.                                           *)
LEMMA StepIdle ==
    ASSUME TimeoutsTypeOK, NotYetStored, SeenIdle, [TimeoutsNext]_timeoutVars
    PROVE  NotYetStored' /\ SeenIdle'
  <1> USE TimesAssumption DEF TimeoutsTypeOK, NotYetStored, SeenIdle
  <1>1. CASE FrontendHandshake \/ AuthTimesOut \/ Refuse \/ BackendHandshake
    BY <1>1 DEF FrontendHandshake, AuthTimesOut, Refuse, BackendHandshake, End
  <1>2. ASSUME NEW d \in Pipes, Receive(d) \/ Written(d) \/ HangUp(d) \/ ReadTimesOut(d)
        PROVE  NotYetStored' /\ SeenIdle'
    BY <1>2 DEF Receive, Written, HangUp, ReadTimesOut, End
  <1>3. CASE Check
    BY <1>3 DEF Check, End
  <1>4. CASE Tick
    BY <1>4 DEF Tick, Later
  <1>5. CASE UNCHANGED timeoutVars
    BY <1>5 DEF timeoutVars
  <1> QED
    BY <1>1, <1>2, <1>3, <1>4, <1>5 DEF TimeoutsNext

LEMMA TimeoutsInductive == TimeoutsSpec => []TimeoutsIInv
  <1>1. TimeoutsIInv /\ [TimeoutsNext]_timeoutVars => TimeoutsIInv'
    BY TimeoutsStepTypes, StepIdle DEF TimeoutsIInv
  <1> QED
    BY <1>1, TimeoutsInitIInv, PTL DEF TimeoutsSpec

(* Every count keeps its range: no deadline is overrun. *)
THEOREM TimeoutsTypeCorrect == TimeoutsSpec => []TimeoutsTypeOK
  BY TimeoutsInductive, PTL DEF TimeoutsIInv

(* BoundedIdle: a session the idle checker has seen is idle for at most    *)
(* IdleTimeout and one of the checker's periods.                           *)
THEOREM IdleBounded == TimeoutsSpec => []BoundedIdle
  <1>1. TimeoutsIInv => BoundedIdle
    BY TimesAssumption DEF TimeoutsIInv, TimeoutsTypeOK, SeenIdle, BoundedIdle, Forever
  <1> QED
    BY <1>1, TimeoutsInductive, PTL
=============================================================================
