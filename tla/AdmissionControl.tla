-------------------------- MODULE AdmissionControl --------------------------
(***************************************************************************)
(* What the proxy's admission promises, without its books: a set of        *)
(* sessions, each from one address, that never grows beyond the limits.    *)
(* ConnectionSlots implements it.                                          *)
(***************************************************************************)
EXTENDS Naturals, FiniteSets

CONSTANTS Conns, IPs, None, MaxConnections, MaxConnectionsIP

VARIABLE session   \* Conns -> the address of the session served, or None

Served == {c \in Conns : session[c] # None}
ServedFrom(ip) == {c \in Conns : session[c] = ip}

Init == session = [c \in Conns |-> None]

Start(c, ip) ==
    /\ session[c] = None
    /\ Cardinality(Served) < MaxConnections
    /\ Cardinality(ServedFrom(ip)) < MaxConnectionsIP
    /\ session' = [session EXCEPT ![c] = ip]

End(c) ==
    /\ session[c] # None
    /\ session' = [session EXCEPT ![c] = None]

Next ==
    \/ \E c \in Conns, ip \in IPs : Start(c, ip)
    \/ \E c \in Conns : End(c)

Spec == Init /\ [][Next]_session

=============================================================================
