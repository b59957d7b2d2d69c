--------------------------- MODULE ConnectionSlots ---------------------------
(***************************************************************************)
(* Admission of client connections by the Postgres proxy                   *)
(* (src/backend/proxy/proxy.go and runtime_security.go).                   *)
(*                                                                         *)
(* One acceptor goroutine takes connections off the listener and asks the  *)
(* rate limiter, then acquireConnectionSlot; each admitted connection is   *)
(* served by a goroutine of its own, whose deferred calls give the slot    *)
(* back.  The books are kept in two places: the buffered channel           *)
(* connectionSlot (one element per slot in use) and, under activeByIPMu,   *)
(* the map activeByIP.  Neither acquire nor release updates both at once,  *)
(* so every interleaving between them is a step of this module.            *)
(*                                                                         *)
(* The answer of the rate limiter (security/ratelimit.go) is either one    *)
(* here.                                                                   *)
(***************************************************************************)
EXTENDS Naturals, FiniteSets

CONSTANTS
    Conns,             \* client connections (TCP connections on the listener)
    IPs,               \* client addresses, as normalizeRemoteIP yields them
    None,              \* no connection, no address
    MaxConnections,    \* ProxyConfig.MaxConnections, the channel's capacity
    MaxConnectionsIP   \* ProxyConfig.MaxConnectionsIP

(* NewProxyServer replaces 0 by the defaults and Run takes only positive   *)
(* values from the environment.                                            *)
ASSUME ConfigAssumption ==
    /\ MaxConnections \in Nat \ {0}
    /\ MaxConnectionsIP \in Nat \ {0}

ASSUME NoneAssumption == None \notin Conns /\ None \notin IPs

VARIABLES
    acceptPC,        \* where the acceptor goroutine is
    acceptConn,      \* the connection it is deciding about, or None
    handlerPC,       \* Conns -> where the connection's goroutine is
    clientIP,        \* Conns -> the address it came from
    connectionSlot,  \* number of elements in the channel connectionSlot
    activeByIP       \* IPs -> count; a key absent from the Go map reads 0

acceptVars == <<acceptPC, acceptConn>>
books == <<connectionSlot, activeByIP>>
vars == <<acceptPC, acceptConn, handlerPC, clientIP, connectionSlot, activeByIP>>

AcceptStates == {"accept", "limiter", "slot", "perIP"}

(* "none": not connected; "accepted": in the acceptor's hands; "serving":  *)
(* inside handleConnection; then the deferred calls, first to last:        *)
(* "popping" and "counting" are the halves of releaseConnectionSlot, and   *)
(* "closing" is frontend.Close.                                            *)
HandlerStates == {"none", "accepted", "serving", "popping", "counting", "closing"}

Init ==
    /\ acceptPC = "accept"
    /\ acceptConn = None
    /\ handlerPC = [c \in Conns |-> "none"]
    /\ clientIP = [c \in Conns |-> None]
    /\ connectionSlot = 0
    /\ activeByIP = [ip \in IPs |-> 0]

-----------------------------------------------------------------------------
(* The acceptor goroutine. *)

Accept(c, ip) ==
    /\ acceptPC = "accept"
    /\ handlerPC[c] = "none"
    /\ acceptPC' = "limiter"
    /\ acceptConn' = c
    /\ handlerPC' = [handlerPC EXCEPT ![c] = "accepted"]
    /\ clientIP' = [clientIP EXCEPT ![c] = ip]
    /\ UNCHANGED books

(* conn.Close and continue, on every path that turns the connection away. *)
TurnAway ==
    /\ acceptPC' = "accept"
    /\ acceptConn' = None
    /\ handlerPC' = [handlerPC EXCEPT ![acceptConn] = "none"]
    /\ clientIP' = [clientIP EXCEPT ![acceptConn] = None]

AskLimiter ==
    /\ acceptPC = "limiter"
    /\ \/ /\ acceptPC' = "slot"
          /\ UNCHANGED <<acceptConn, handlerPC, clientIP>>
       \/ TurnAway
    /\ UNCHANGED books

(* The non-blocking send on connectionSlot. *)
TakeSlot ==
    /\ acceptPC = "slot"
    /\ connectionSlot < MaxConnections
    /\ connectionSlot' = connectionSlot + 1
    /\ acceptPC' = "perIP"
    /\ UNCHANGED <<acceptConn, handlerPC, clientIP, activeByIP>>

(* Mutant of RejectFull: a blocking send on the channel. *)
WaitForSlot ==
    /\ acceptPC = "slot"
    /\ connectionSlot = MaxConnections
    /\ UNCHANGED vars

RejectFull ==
    /\ acceptPC = "slot"
    /\ connectionSlot = MaxConnections
    /\ TurnAway
    /\ UNCHANGED books

(* Mutant of Admit: the address is counted but not looked up first. *)
AdmitAnyIP ==
    LET ip == clientIP[acceptConn] IN
    /\ acceptPC = "perIP"
    /\ activeByIP' = [activeByIP EXCEPT ![ip] = @ + 1]
    /\ handlerPC' = [handlerPC EXCEPT ![acceptConn] = "serving"]
    /\ acceptPC' = "accept"
    /\ acceptConn' = None
    /\ UNCHANGED <<clientIP, connectionSlot>>

(* The rest of acquireConnectionSlot, under activeByIPMu: admit, and start *)
(* handleConnection, or give the slot back.  The receive that gives it     *)
(* back is a blocking one, made with the mutex held.                       *)
Admit ==
    LET ip == clientIP[acceptConn] IN
    /\ acceptPC = "perIP"
    /\ activeByIP[ip] < MaxConnectionsIP
    /\ activeByIP' = [activeByIP EXCEPT ![ip] = @ + 1]
    /\ handlerPC' = [handlerPC EXCEPT ![acceptConn] = "serving"]
    /\ acceptPC' = "accept"
    /\ acceptConn' = None
    /\ UNCHANGED <<clientIP, connectionSlot>>

(* Mutant of RejectPerIP: the slot taken is not given back. *)
RejectKeepingSlot ==
    /\ acceptPC = "perIP"
    /\ activeByIP[clientIP[acceptConn]] >= MaxConnectionsIP
    /\ TurnAway
    /\ UNCHANGED books

RejectPerIP ==
    /\ acceptPC = "perIP"
    /\ activeByIP[clientIP[acceptConn]] >= MaxConnectionsIP
    /\ connectionSlot > 0
    /\ connectionSlot' = connectionSlot - 1
    /\ TurnAway
    /\ UNCHANGED activeByIP

-----------------------------------------------------------------------------
(* The goroutine of an admitted connection. *)

(* handleConnection returns, for whatever reason: its deferred calls run.  *)
Finish(c) ==
    /\ handlerPC[c] = "serving"
    /\ handlerPC' = [handlerPC EXCEPT ![c] = "popping"]
    /\ UNCHANGED <<acceptVars, clientIP, books>>

(* Mutant of PopSlot: release forgets the channel. *)
KeepSlot(c) ==
    /\ handlerPC[c] = "popping"
    /\ handlerPC' = [handlerPC EXCEPT ![c] = "counting"]
    /\ UNCHANGED <<acceptVars, clientIP, books>>

(* releaseConnectionSlot: a non-blocking receive, so an empty channel is   *)
(* silently left alone.                                                    *)
PopSlot(c) ==
    /\ handlerPC[c] = "popping"
    /\ connectionSlot' = IF connectionSlot > 0 THEN connectionSlot - 1 ELSE 0
    /\ handlerPC' = [handlerPC EXCEPT ![c] = "counting"]
    /\ UNCHANGED <<acceptVars, clientIP, activeByIP>>

(* releaseConnectionSlot, under activeByIPMu: a count of one or less       *)
(* deletes the key.                                                        *)
DecrementIP(c) ==
    /\ handlerPC[c] = "counting"
    /\ activeByIP' = [activeByIP EXCEPT ![clientIP[c]] = IF @ <= 1 THEN 0 ELSE @ - 1]
    /\ handlerPC' = [handlerPC EXCEPT ![c] = "closing"]
    /\ UNCHANGED <<acceptVars, clientIP, connectionSlot>>

CloseFrontend(c) ==
    /\ handlerPC[c] = "closing"
    /\ handlerPC' = [handlerPC EXCEPT ![c] = "none"]
    /\ clientIP' = [clientIP EXCEPT ![c] = None]
    /\ UNCHANGED <<acceptVars, books>>

-----------------------------------------------------------------------------
Acceptor == AskLimiter \/ TakeSlot \/ RejectFull \/ Admit \/ RejectPerIP

Handler(c) == Finish(c) \/ PopSlot(c) \/ DecrementIP(c) \/ CloseFrontend(c)

Next ==
    \/ \E c \in Conns, ip \in IPs : Accept(c, ip)
    \/ Acceptor
    \/ \E c \in Conns : Handler(c)

Spec == Init /\ [][Next]_vars

(* Go schedules a runnable goroutine.  Nothing is assumed of the handlers: *)
(* a session may last as long as it likes.                                 *)
FairSpec == Spec /\ WF_vars(Acceptor)

-----------------------------------------------------------------------------
(* Properties. *)

TypeOK ==
    /\ acceptPC \in AcceptStates
    /\ acceptConn \in Conns \cup {None}
    /\ handlerPC \in [Conns -> HandlerStates]
    /\ clientIP \in [Conns -> IPs \cup {None}]
    /\ connectionSlot \in 0..MaxConnections
    /\ activeByIP \in [IPs -> 0..MaxConnectionsIP]

(* The connections that hold an element of the channel, and those counted  *)
(* in activeByIP for an address.                                           *)
SlotHolders ==
    {c \in Conns : \/ handlerPC[c] \in {"serving", "popping"}
                   \/ acceptPC = "perIP" /\ acceptConn = c}

CountedFor(ip) ==
    {c \in Conns : /\ handlerPC[c] \in {"serving", "popping", "counting"}
                   /\ clientIP[c] = ip}

(* The channel holds exactly one element per connection that took one and  *)
(* has not given it back: none is leaked and none is given back twice,     *)
(* however acquire and release interleave.                                 *)
SlotAccounting ==
    /\ IsFiniteSet(SlotHolders)
    /\ Cardinality(SlotHolders) = connectionSlot

(* The per-address map counts exactly the connections of that address that *)
(* were admitted and have not been subtracted.                             *)
IPAccounting ==
    \A ip \in IPs :
        /\ IsFiniteSet(CountedFor(ip))
        /\ Cardinality(CountedFor(ip)) = activeByIP[ip]

(* Both books are exact. *)
BooksAgree == SlotAccounting /\ IPAccounting

(* Between them the two checks bound the sessions being served, in total   *)
(* and for each address.                                                   *)
AdmissionBound ==
    /\ Cardinality({c \in Conns : handlerPC[c] = "serving"}) <= MaxConnections
    /\ \A ip \in IPs :
          Cardinality({c \in Conns : handlerPC[c] = "serving" /\ clientIP[c] = ip})
              <= MaxConnectionsIP

(* The receive in acquireConnectionSlot blocks on an empty channel with    *)
(* activeByIPMu held, which would stop the acceptor and every release:     *)
(* the channel is never empty there, nor when a handler gives a slot back. *)
ReceiveNeverBlocks ==
    /\ acceptPC = "perIP" => connectionSlot > 0
    /\ \A c \in Conns : handlerPC[c] = "popping" => connectionSlot > 0

(* A connection is refused for want of slots only while MaxConnections     *)
(* other connections really hold one.                                      *)
RefusedOnlyWhenFull ==
    [][acceptPC = "slot" /\ acceptPC' = "accept"
          => Cardinality(SlotHolders \ {acceptConn}) = MaxConnections]_vars

(* The acceptor always gets back to the listener, whatever the sessions    *)
(* do: no connection, admitted or refused, stops the proxy from taking the *)
(* next one.                                                               *)
AcceptorReturns == acceptPC # "accept" ~> acceptPC = "accept"

(* What the two books implement together: the sessions being served never  *)
(* exceed the limits and each comes and goes in one atomic step.           *)
Admission == INSTANCE AdmissionControl WITH
    session <- [c \in Conns |-> IF handlerPC[c] = "serving" THEN clientIP[c] ELSE None]

ImplementsAdmission == Admission!Spec

=============================================================================
