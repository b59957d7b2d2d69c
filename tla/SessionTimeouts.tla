--------------------------- MODULE SessionTimeouts ---------------------------
(***************************************************************************)
(* The clocks of one proxied session (src/backend/proxy/proxy.go).         *)
(*                                                                         *)
(* Until the session is stored, one deadline set at its start (AuthTimeout)*)
(* covers everything read from and written to the client.  Afterwards each *)
(* of the two pipes sets a read deadline (IdleTimeout) before each of its  *)
(* reads; its writes have none.  Independently idleConnectionChecker looks *)
(* every minute at LastActive, which both pipes set.                       *)
(*                                                                         *)
(* Time passes in ticks.  A deadline is urgent: time does not go past it   *)
(* while what waits for it could run.  What happens inside a tick happens  *)
(* in any order.                                                           *)
(***************************************************************************)
EXTENDS Naturals

CONSTANTS
    AuthTimeout,   \* in ticks, like the others
    IdleTimeout,   \* ProxyConfig.IdleTimeout
    CheckPeriod    \* the ticker of idleConnectionChecker

ASSUME TimesAssumption ==
    /\ AuthTimeout \in Nat \ {0}
    /\ IdleTimeout \in Nat \ {0}
    /\ CheckPeriod \in Nat \ {0}

Pipes == {"up", "down"}   \* client to backend, backend to client

VARIABLES
    stage,        \* how far handleConnection has come
    elapsed,      \* since the deadline of the client's socket was set
    idle,         \* since LastActive was set
    pipe,         \* Pipes -> what pipeWithIdleTracking is doing
    wait,         \* Pipes -> since its read deadline was set
    sinceCheck,   \* since idleConnectionChecker last ranged
    clientReady,  \* ReadyForQuery was written to the client
    endedBy,      \* what ended the session
    checked       \* history: the checker has seen the session

timeoutVars == <<stage, elapsed, idle, pipe, wait, sinceCheck, clientReady, endedBy, checked>>

(* Counts stop at the first value that no longer makes a difference.       *)
Forever == IdleTimeout + CheckPeriod + 1
Later(n, limit) == IF n < limit THEN n + 1 ELSE n

TimeoutsInit ==
    /\ stage = "handshake"
    /\ elapsed = 0
    /\ idle = 0
    /\ pipe = [d \in Pipes |-> "none"]
    /\ wait = [d \in Pipes |-> 0]
    /\ sinceCheck \in 0..CheckPeriod
    /\ clientReady = FALSE
    /\ endedBy = "nothing"
    /\ checked = FALSE

(* The handler returns, or its sockets are closed and it will. *)
End(cause) ==
    /\ stage' = "over"
    /\ endedBy' = cause
    /\ UNCHANGED <<elapsed, idle, pipe, wait, clientReady, checked>>

-----------------------------------------------------------------------------
(* Before the session is stored. *)

(* handleFrontendHandshake and the checks after it succeed. *)
FrontendHandshake ==
    /\ stage = "handshake"
    /\ stage' = "backend"
    /\ UNCHANGED <<elapsed, idle, pipe, wait, sinceCheck, clientReady, endedBy, checked>>

AuthTimesOut ==
    /\ stage = "handshake"
    /\ elapsed = AuthTimeout
    /\ End("timeout")
    /\ UNCHANGED sinceCheck

(* A handshake, a check, the dial or the backend fails. *)
Refuse ==
    /\ stage \in {"handshake", "backend"}
    /\ End("error")
    /\ UNCHANGED sinceCheck

(* handleBackendHandshake gets ReadyForQuery from the backend and writes   *)
(* it to the client.  Past the client's deadline the write fails; its      *)
(* error is not looked at.  Then the deadline is lifted, the session is    *)
(* stored and the pipes start.                                             *)
BackendHandshake ==
    /\ stage = "backend"
    /\ stage' = "piping"
    /\ \/ elapsed < AuthTimeout /\ clientReady' = TRUE
       \/ elapsed = AuthTimeout /\ clientReady' = FALSE
    /\ pipe' = [d \in Pipes |-> "reading"]
    /\ UNCHANGED <<elapsed, idle, wait, sinceCheck, endedBy, checked>>

-----------------------------------------------------------------------------
(* The pipes. *)

Receive(d) ==
    /\ stage = "piping"
    /\ pipe[d] = "reading"
    /\ pipe' = [pipe EXCEPT ![d] = "writing"]
    /\ idle' = 0
    /\ UNCHANGED <<stage, elapsed, wait, sinceCheck, clientReady, endedBy, checked>>

(* The write ends, whenever the peer reads.  A TLS connection on which a   *)
(* write has timed out fails every later one.                              *)
Written(d) ==
    /\ stage = "piping"
    /\ pipe[d] = "writing"
    /\ IF d = "down" /\ ~clientReady
       THEN End("error")
       ELSE /\ pipe' = [pipe EXCEPT ![d] = "reading"]
            /\ wait' = [wait EXCEPT ![d] = 0]
            /\ UNCHANGED <<stage, elapsed, idle, clientReady, endedBy, checked>>
    /\ UNCHANGED sinceCheck

HangUp(d) ==
    /\ stage = "piping"
    /\ End("error")
    /\ UNCHANGED sinceCheck

(* The read deadline: the pipe returns, and handleConnection with it.      *)
ReadTimesOut(d) ==
    /\ stage = "piping"
    /\ pipe[d] = "reading"
    /\ wait[d] = IdleTimeout
    /\ End("timeout")
    /\ UNCHANGED sinceCheck

-----------------------------------------------------------------------------
(* Mutant of Check: a session whose pipes both write is not looked at. *)
CheckReading ==
    /\ sinceCheck = CheckPeriod
    /\ sinceCheck' = 0
    /\ IF stage = "piping" /\ idle > IdleTimeout /\ \E d \in Pipes : pipe[d] = "reading"
       THEN End("checker")
       ELSE /\ checked' = (checked \/ stage = "piping")
            /\ UNCHANGED <<stage, elapsed, idle, pipe, wait, clientReady, endedBy>>

(* One tick of idleConnectionChecker. *)
Check ==
    /\ sinceCheck = CheckPeriod
    /\ sinceCheck' = 0
    /\ IF stage = "piping" /\ idle > IdleTimeout
       THEN End("checker")
       ELSE /\ checked' = (checked \/ stage = "piping")
            /\ UNCHANGED <<stage, elapsed, idle, pipe, wait, clientReady, endedBy>>

(* What is due: the ticker, the deadline of the client's handshake, and    *)
(* those that the pipes set before they read.                              *)
Urgent ==
    \/ sinceCheck = CheckPeriod
    \/ stage = "handshake" /\ elapsed = AuthTimeout
    \/ \E d \in Pipes : stage = "piping" /\ pipe[d] = "reading" /\ wait[d] = IdleTimeout

Tick ==
    /\ ~Urgent
    /\ stage # "over"
    /\ sinceCheck' = sinceCheck + 1
    /\ elapsed' = Later(elapsed, AuthTimeout)
    /\ idle' = Later(idle, Forever)
    /\ wait' = [d \in Pipes |-> IF pipe[d] = "reading" THEN wait[d] + 1 ELSE wait[d]]
    /\ UNCHANGED <<stage, pipe, clientReady, endedBy, checked>>

TimeoutsNext ==
    \/ FrontendHandshake \/ AuthTimesOut \/ Refuse \/ BackendHandshake
    \/ \E d \in Pipes : Receive(d) \/ Written(d) \/ HangUp(d) \/ ReadTimesOut(d)
    \/ Check
    \/ Tick

TimeoutsSpec == TimeoutsInit /\ [][TimeoutsNext]_timeoutVars

-----------------------------------------------------------------------------
(* Properties. *)

TimeoutsTypeOK ==
    /\ stage \in {"handshake", "backend", "piping", "over"}
    /\ elapsed \in 0..AuthTimeout
    /\ idle \in 0..Forever
    /\ pipe \in [Pipes -> {"none", "reading", "writing"}]
    /\ wait \in [Pipes -> 0..IdleTimeout]
    /\ sinceCheck \in 0..CheckPeriod
    /\ clientReady \in BOOLEAN
    /\ endedBy \in {"nothing", "error", "timeout", "checker"}
    /\ checked \in BOOLEAN

(* No session that the checker has seen once stays idle for longer than    *)
(* IdleTimeout and one period of the checker, not even one whose pipes are *)
(* both stuck in a Write, which has no deadline of its own; and no session *)
(* is stored for longer than a period without being seen.                  *)
BoundedIdle == stage = "piping" /\ checked => idle <= IdleTimeout + CheckPeriod

=============================================================================
