------------------------------ MODULE MCProcess ------------------------------
(***************************************************************************)
(* Two parts of the process that share no state, the admission of          *)
(* connections and the SQL pool: a behaviour is about one of them, and the *)
(* other stands still.                                                     *)
(***************************************************************************)
EXTENDS ConnectionSlots, ConnectionPool

VARIABLE part

ProcessInit == Init /\ PoolInit /\ part \in {"slots", "pool"}

ProcessNext ==
    /\ UNCHANGED part
    /\ \/ part = "slots" /\ Next /\ UNCHANGED poolVars
       \/ part = "pool" /\ PoolNext /\ UNCHANGED vars

(* The acceptor goes on; a query returns and a list of rows ends, and of   *)
(* those that wait for a connection each is chosen some time.              *)
ProcessSpec ==
    /\ ProcessInit /\ [][ProcessNext]_<<part, vars, poolVars>>
    /\ WF_vars(part = "slots" /\ Acceptor)
    /\ \A h \in Handlers :
          /\ WF_poolVars(part = "pool" /\ ReleaseInner(h))
          /\ SF_poolVars(part = "pool" /\ Return(h))
          /\ SF_poolVars(part = "pool" /\ Acquire(h))
          /\ SF_poolVars(part = "pool" /\ AcquireInner(h))
=============================================================================
