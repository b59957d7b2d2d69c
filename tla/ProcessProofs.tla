--------------------------- MODULE ProcessProofs ---------------------------
(***************************************************************************)
(* The proxy's process and the backend's connection pool.                  *)
(***************************************************************************)
EXTENDS ConnectionSlots, ConnectionPool, FiniteSetTheorems, TLAPS

(***************************************************************************)
(* What the admission of the proxy guarantees for any number of            *)
(* connections, addresses and any limits.                                  *)
(*                                                                         *)
(* The books (the channel and the map) are each right at every step, but   *)
(* that cannot be shown without saying whose hands a connection is in:     *)
(* Ownership strengthens them into the inductive invariant IInv.           *)
(***************************************************************************)
(* The acceptor has a connection in its hands exactly when it is not at    *)
(* the listener, nobody else has that one, and a connection has an address *)
(* for as long as it exists.                                               *)
Ownership ==
    /\ acceptConn = None <=> acceptPC = "accept"
    /\ \A c \in Conns : handlerPC[c] = "accepted" <=> acceptConn = c
    /\ \A c \in Conns : handlerPC[c] # "none" => clientIP[c] \in IPs

IInv == TypeOK /\ Ownership /\ SlotAccounting /\ IPAccounting

-----------------------------------------------------------------------------
(* How the holders of the two books change when one connection changes.    *)

(* A set that gains a new element. *)
LEMMA CardinalityAdd ==
    ASSUME NEW S, NEW x, IsFiniteSet(S), x \notin S
    PROVE  /\ IsFiniteSet(S \cup {x})
           /\ Cardinality(S \cup {x}) = Cardinality(S) + 1
BY FS_AddElement

(* A set that loses one of its elements. *)
LEMMA CardinalityRemove ==
    ASSUME NEW S, NEW x, IsFiniteSet(S), x \in S
    PROVE  /\ IsFiniteSet(S \ {x})
           /\ Cardinality(S) \in Nat \ {0}
           /\ Cardinality(S \ {x}) = Cardinality(S) - 1
<1>1. Cardinality(S) \in Nat
  BY FS_CardinalityType
<1>2. Cardinality(S) # 0
  BY FS_EmptySet
<1>3. QED
  BY <1>1, <1>2, FS_RemoveElement

-----------------------------------------------------------------------------
(* The books start clear. *)
LEMMA InitIInv == Init => IInv
<1> SUFFICES ASSUME Init PROVE IInv
  OBVIOUS
<1>1. TypeOK /\ Ownership
  BY ConfigAssumption, NoneAssumption
  DEF Init, TypeOK, Ownership, AcceptStates, HandlerStates
<1>2. SlotHolders = {} /\ \A ip \in IPs : CountedFor(ip) = {}
  BY DEF Init, SlotHolders, CountedFor
<1>3. QED
  BY <1>1, <1>2, FS_EmptySet DEF Init, IInv, SlotAccounting, IPAccounting

(* Types and ownership, step by step; only Admit and DecrementIP need the  *)
(* limits.                                                                 *)
LEMMA StepTypes ==
    ASSUME IInv, [Next]_vars
    PROVE  TypeOK' /\ Ownership'
<1> USE ConfigAssumption, NoneAssumption
    DEF IInv, TypeOK, Ownership, AcceptStates, HandlerStates, acceptVars, books
<1>1. ASSUME NEW c \in Conns, NEW ip \in IPs, Accept(c, ip)
      PROVE  TypeOK' /\ Ownership'
  BY <1>1 DEF Accept
<1>2. CASE AskLimiter
  BY <1>2 DEF AskLimiter, TurnAway
<1>3. CASE TakeSlot
  BY <1>3 DEF TakeSlot
<1>4. CASE RejectFull
  BY <1>4 DEF RejectFull, TurnAway
<1>5. CASE Admit
  BY <1>5 DEF Admit
<1>6. CASE RejectPerIP
  BY <1>6 DEF RejectPerIP, TurnAway
<1>7. ASSUME NEW c \in Conns, Finish(c)
      PROVE  TypeOK' /\ Ownership'
  BY <1>7 DEF Finish
<1>8. ASSUME NEW c \in Conns, PopSlot(c)
      PROVE  TypeOK' /\ Ownership'
  BY <1>8 DEF PopSlot
<1>9. ASSUME NEW c \in Conns, DecrementIP(c)
      PROVE  TypeOK' /\ Ownership'
  BY <1>9 DEF DecrementIP
<1>10. ASSUME NEW c \in Conns, CloseFrontend(c)
       PROVE  TypeOK' /\ Ownership'
  BY <1>10 DEF CloseFrontend
<1>11. CASE UNCHANGED vars
  BY <1>11 DEF vars
<1>12. QED
  BY <1>1, <1>2, <1>3, <1>4, <1>5, <1>6, <1>7, <1>8, <1>9, <1>10, <1>11
  DEF Next, Acceptor, Handler

(* The channel: only the two steps that take or give back a slot touch it, *)
(* and each adds or removes one holder.                                    *)
LEMMA StepSlots ==
    ASSUME IInv, [Next]_vars
    PROVE  SlotAccounting'
<1> USE NoneAssumption DEF IInv, TypeOK, Ownership, AcceptStates, HandlerStates,
        acceptVars, books
<1>1. ASSUME SlotHolders' = SlotHolders, connectionSlot' = connectionSlot
      PROVE  SlotAccounting'
  BY <1>1 DEF SlotAccounting
<1>2. ASSUME NEW c \in Conns, c \notin SlotHolders, SlotHolders' = SlotHolders \cup {c},
             connectionSlot' = connectionSlot + 1
      PROVE  SlotAccounting'
  <2>1. /\ IsFiniteSet(SlotHolders \cup {c})
        /\ Cardinality(SlotHolders \cup {c}) = Cardinality(SlotHolders) + 1
    BY <1>2, CardinalityAdd DEF SlotAccounting
  <2>2. QED
    BY <2>1, <1>2 DEF SlotAccounting
<1>3. ASSUME NEW c \in Conns, c \in SlotHolders, SlotHolders' = SlotHolders \ {c},
             connectionSlot' = IF connectionSlot > 0 THEN connectionSlot - 1 ELSE 0
      PROVE  SlotAccounting'
  <2>1. /\ IsFiniteSet(SlotHolders \ {c})
        /\ Cardinality(SlotHolders) \in Nat \ {0}
        /\ Cardinality(SlotHolders \ {c}) = Cardinality(SlotHolders) - 1
    BY <1>3, CardinalityRemove DEF SlotAccounting
  <2>2. QED
    BY <2>1, <1>3 DEF SlotAccounting
<1>4. ASSUME NEW c \in Conns, NEW ip \in IPs, Accept(c, ip)
      PROVE  SlotAccounting'
  BY <1>4, <1>1 DEF Accept, SlotHolders
<1>5. CASE AskLimiter
  BY <1>5, <1>1 DEF AskLimiter, TurnAway, SlotHolders
<1>6. CASE TakeSlot
  <2>1. acceptConn \in Conns /\ acceptConn \notin SlotHolders
    BY <1>6 DEF TakeSlot, SlotHolders
  <2>2. SlotHolders' = SlotHolders \cup {acceptConn}
    BY <1>6, <2>1 DEF TakeSlot, SlotHolders
  <2>3. QED
    BY <1>2, <1>6, <2>1, <2>2 DEF TakeSlot
<1>7. CASE RejectFull
  BY <1>7, <1>1 DEF RejectFull, TurnAway, SlotHolders
<1>8. CASE Admit
  BY <1>8, <1>1 DEF Admit, SlotHolders
<1>9. CASE RejectPerIP
  <2>1. acceptConn \in Conns /\ acceptConn \in SlotHolders
    BY <1>9 DEF RejectPerIP, SlotHolders
  <2>2. SlotHolders' = SlotHolders \ {acceptConn}
    BY <1>9, <2>1 DEF RejectPerIP, TurnAway, SlotHolders
  <2>3. QED
    BY <1>3, <1>9, <2>1, <2>2 DEF RejectPerIP
<1>10. ASSUME NEW c \in Conns, Finish(c)
       PROVE  SlotAccounting'
  BY <1>10, <1>1 DEF Finish, SlotHolders
<1>11. ASSUME NEW c \in Conns, PopSlot(c)
       PROVE  SlotAccounting'
  <2>1. c \in SlotHolders
    BY <1>11 DEF PopSlot, SlotHolders
  <2>2. SlotHolders' = SlotHolders \ {c}
    BY <1>11 DEF PopSlot, SlotHolders
  <2>3. QED
    BY <1>3, <1>11, <2>1, <2>2 DEF PopSlot
<1>12. ASSUME NEW c \in Conns, DecrementIP(c)
       PROVE  SlotAccounting'
  BY <1>12, <1>1 DEF DecrementIP, SlotHolders
<1>13. ASSUME NEW c \in Conns, CloseFrontend(c)
       PROVE  SlotAccounting'
  BY <1>13, <1>1 DEF CloseFrontend, SlotHolders
<1>14. CASE UNCHANGED vars
  BY <1>14, <1>1 DEF vars, SlotHolders
<1>15. QED
  BY <1>4, <1>5, <1>6, <1>7, <1>8, <1>9, <1>10, <1>11, <1>12, <1>13, <1>14
  DEF Next, Acceptor, Handler

(* The map: admission adds the connection to the count of its address,     *)
(* the deferred release takes it off again, and nothing else touches it.   *)
LEMMA StepIPs ==
    ASSUME IInv, [Next]_vars
    PROVE  IPAccounting'
<1> USE NoneAssumption DEF IInv, TypeOK, Ownership, AcceptStates, HandlerStates,
        acceptVars, books
<1>1. ASSUME \A ip \in IPs : CountedFor(ip)' = CountedFor(ip), activeByIP' = activeByIP
      PROVE  IPAccounting'
  BY <1>1 DEF IPAccounting
<1>2. ASSUME NEW c \in Conns, NEW ip \in IPs, Accept(c, ip)
      PROVE  IPAccounting'
  BY <1>2, <1>1 DEF Accept, CountedFor
<1>3. CASE AskLimiter
  BY <1>3, <1>1 DEF AskLimiter, TurnAway, CountedFor
<1>4. CASE TakeSlot
  BY <1>4, <1>1 DEF TakeSlot, CountedFor
<1>5. CASE RejectFull
  BY <1>5, <1>1 DEF RejectFull, TurnAway, CountedFor
<1>6. CASE Admit
  <2>0. PICK home \in IPs : home = clientIP[acceptConn]
    BY <1>6 DEF Admit
  <2>1. acceptConn \in Conns /\ acceptConn \notin CountedFor(home)
    BY <1>6, <2>0 DEF Admit, CountedFor
  <2>2. CountedFor(home)' = CountedFor(home) \cup {acceptConn}
    BY <1>6, <2>0, <2>1 DEF Admit, CountedFor
  <2>3. /\ IsFiniteSet(CountedFor(home)')
        /\ Cardinality(CountedFor(home)') = activeByIP'[home]
    BY <1>6, <2>0, <2>1, <2>2, CardinalityAdd DEF Admit, IPAccounting
  <2>4. ASSUME NEW ip \in IPs, ip # home
        PROVE  CountedFor(ip)' = CountedFor(ip) /\ activeByIP'[ip] = activeByIP[ip]
    BY <1>6, <2>0, <2>1, <2>4 DEF Admit, CountedFor
  <2>5. QED
    BY <2>3, <2>4 DEF IPAccounting
<1>7. CASE RejectPerIP
  BY <1>7, <1>1 DEF RejectPerIP, TurnAway, CountedFor
<1>8. ASSUME NEW c \in Conns, Finish(c)
      PROVE  IPAccounting'
  BY <1>8, <1>1 DEF Finish, CountedFor
<1>9. ASSUME NEW c \in Conns, PopSlot(c)
      PROVE  IPAccounting'
  BY <1>9, <1>1 DEF PopSlot, CountedFor
<1>10. ASSUME NEW c \in Conns, DecrementIP(c)
       PROVE  IPAccounting'
  <2>0. PICK home \in IPs : home = clientIP[c]
    BY <1>10 DEF DecrementIP
  <2>1. c \in CountedFor(home)
    BY <1>10, <2>0 DEF DecrementIP, CountedFor
  <2>2. CountedFor(home)' = CountedFor(home) \ {c}
    BY <1>10, <2>0, <2>1 DEF DecrementIP, CountedFor
  <2>3. /\ IsFiniteSet(CountedFor(home) \ {c})
        /\ Cardinality(CountedFor(home)) \in Nat \ {0}
        /\ Cardinality(CountedFor(home) \ {c}) = Cardinality(CountedFor(home)) - 1
    BY <2>1, CardinalityRemove DEF IPAccounting
  <2>4. /\ IsFiniteSet(CountedFor(home)')
        /\ Cardinality(CountedFor(home)') = activeByIP'[home]
    BY <1>10, <2>0, <2>1, <2>2, <2>3 DEF DecrementIP, IPAccounting
  <2>5. ASSUME NEW ip \in IPs, ip # home
        PROVE  CountedFor(ip)' = CountedFor(ip) /\ activeByIP'[ip] = activeByIP[ip]
    BY <1>10, <2>0, <2>1, <2>5 DEF DecrementIP, CountedFor
  <2>6. QED
    BY <2>4, <2>5 DEF IPAccounting
<1>11. ASSUME NEW c \in Conns, CloseFrontend(c)
       PROVE  IPAccounting'
  BY <1>11, <1>1 DEF CloseFrontend, CountedFor
<1>12. CASE UNCHANGED vars
  BY <1>12, <1>1 DEF vars, CountedFor
<1>13. QED
  BY <1>2, <1>3, <1>4, <1>5, <1>6, <1>7, <1>8, <1>9, <1>10, <1>11, <1>12
  DEF Next, Acceptor, Handler

-----------------------------------------------------------------------------
(* The theorems. *)

(* The strengthened invariant: types, ownership and both books hold in     *)
(* every state of the proxy's admission.                                   *)
THEOREM Inductive == Spec => []IInv
<1>1. Init => IInv
  BY InitIInv
<1>2. IInv /\ [Next]_vars => IInv'
  BY StepTypes, StepSlots, StepIPs DEF IInv
<1>3. QED
  BY <1>1, <1>2, PTL DEF Spec

(* Every variable keeps its type: the channel never holds more than its    *)
(* capacity, no count passes the limit of an address.                      *)
THEOREM TypeCorrect == Spec => []TypeOK
<1>1. IInv => TypeOK
  BY DEF IInv
<1>2. QED
  BY <1>1, Inductive, PTL

(* Both books are exact, however the acceptor and the ending sessions      *)
(* interleave: no slot is leaked or given back twice, and the count of an  *)
(* address is the number of its connections between admission and the      *)
(* second half of the release.                                             *)
THEOREM BooksExact == Spec => []BooksAgree
<1>1. IInv => BooksAgree
  BY DEF IInv, BooksAgree
<1>2. QED
  BY <1>1, Inductive, PTL

(* The sessions served respect both limits in every state. *)
THEOREM Bounded == Spec => []AdmissionBound
<1>1. ASSUME IInv PROVE AdmissionBound
  <2> DEFINE serving == {c \in Conns : handlerPC[c] = "serving"}
             servingFrom(ip) == {c \in Conns : handlerPC[c] = "serving" /\ clientIP[c] = ip}
  <2>1. Cardinality(serving) <= MaxConnections
    <3>1. serving \in SUBSET SlotHolders
      BY DEF SlotHolders
    <3>2. /\ IsFiniteSet(serving)
          /\ Cardinality(serving) <= Cardinality(SlotHolders)
      BY <1>1, <3>1, FS_Subset DEF IInv, SlotAccounting
    <3>3. Cardinality(serving) \in Nat
      BY <3>2, FS_CardinalityType
    <3>4. QED
      BY <1>1, <3>2, <3>3, ConfigAssumption DEF IInv, SlotAccounting, TypeOK
  <2>2. ASSUME NEW ip \in IPs
        PROVE  Cardinality(servingFrom(ip)) <= MaxConnectionsIP
    <3>1. servingFrom(ip) \in SUBSET CountedFor(ip)
      BY DEF CountedFor
    <3>2. /\ IsFiniteSet(servingFrom(ip))
          /\ Cardinality(servingFrom(ip)) <= Cardinality(CountedFor(ip))
      BY <1>1, <3>1, FS_Subset DEF IInv, IPAccounting
    <3>3. Cardinality(servingFrom(ip)) \in Nat
      BY <3>2, FS_CardinalityType
    <3>4. QED
      BY <1>1, <3>2, <3>3, ConfigAssumption DEF IInv, IPAccounting, TypeOK
  <2>3. QED
    BY <2>1, <2>2 DEF AdmissionBound
<1>2. QED
  BY <1>1, Inductive, PTL

(* The blocking receive under activeByIPMu always finds an element, and so *)
(* does every release: neither the mutex nor the acceptor can be stuck.    *)
THEOREM NeverBlocks == Spec => []ReceiveNeverBlocks
<1>1. ASSUME IInv PROVE ReceiveNeverBlocks
  <2>1. ASSUME NEW c \in Conns, c \in SlotHolders
        PROVE  connectionSlot > 0
    <3>1. Cardinality(SlotHolders) \in Nat \ {0}
      BY <1>1, <2>1, CardinalityRemove DEF IInv, SlotAccounting
    <3>2. QED
      BY <1>1, <3>1 DEF IInv, SlotAccounting
  <2>2. acceptPC = "perIP" => acceptConn \in SlotHolders
    BY <1>1 DEF IInv, Ownership, TypeOK, SlotHolders
  <2>3. \A c \in Conns : handlerPC[c] = "popping" => c \in SlotHolders
    BY DEF SlotHolders
  <2>4. SlotHolders \subseteq Conns
    BY DEF SlotHolders
  <2>5. QED
    BY <2>1, <2>2, <2>3, <2>4 DEF ReceiveNeverBlocks
<1>2. QED
  BY <1>1, Inductive, PTL

(* A refusal for want of slots is always justified by MaxConnections other *)
(* connections that hold one.                                              *)
THEOREM RefusalJustified == Spec => RefusedOnlyWhenFull
<1>1. ASSUME IInv, [Next]_vars, acceptPC = "slot", acceptPC' = "accept"
      PROVE  Cardinality(SlotHolders \ {acceptConn}) = MaxConnections
  <2>1. RejectFull
    BY <1>1, NoneAssumption
    DEF IInv, TypeOK, AcceptStates, Next, vars, Acceptor, Handler, Accept, AskLimiter,
        TakeSlot, Admit, RejectPerIP, Finish, PopSlot, DecrementIP, CloseFrontend, acceptVars
  <2>2. acceptConn \notin SlotHolders
    BY <1>1 DEF IInv, TypeOK, Ownership, SlotHolders
  <2>3. SlotHolders \ {acceptConn} = SlotHolders
    BY <2>2
  <2>4. QED
    BY <1>1, <2>1, <2>3 DEF RejectFull, IInv, SlotAccounting
<1>2. IInv /\ [Next]_vars
        => [acceptPC = "slot" /\ acceptPC' = "accept"
              => Cardinality(SlotHolders \ {acceptConn}) = MaxConnections]_vars
  BY <1>1
<1>3. QED
  BY <1>2, Inductive, PTL DEF Spec, RefusedOnlyWhenFull

(* The acceptor with its two books implements the admission that keeps     *)
(* both limits in one atomic step: Admit is Start, Finish is End, and      *)
(* everything else is a stutter.                                           *)
THEOREM Refinement == Spec => ImplementsAdmission
<1> DEFINE sessionBar == [c \in Conns |-> IF handlerPC[c] = "serving" THEN clientIP[c] ELSE None]
<1>1. Init => Admission!Init
  BY DEF Init, Admission!Init
<1>2. ASSUME IInv, [Next]_vars
      PROVE  [Admission!Next]_sessionBar
  <2> USE <1>2, NoneAssumption DEF IInv, TypeOK, Ownership, AcceptStates, HandlerStates,
          acceptVars, books
  <2>1. ASSUME NEW c \in Conns, NEW ip \in IPs, Accept(c, ip)
        PROVE  UNCHANGED sessionBar
    BY <2>1 DEF Accept
  <2>2. CASE AskLimiter
    <3>1. UNCHANGED sessionBar
      BY <2>2 DEF AskLimiter, TurnAway
    <3>2. QED
      BY <3>1
  <2>3. CASE TakeSlot
    BY <2>3 DEF TakeSlot
  <2>4. CASE RejectFull
    <3>1. UNCHANGED sessionBar
      BY <2>4 DEF RejectFull, TurnAway
    <3>2. QED
      BY <3>1
  <2>5. CASE Admit
    <3>0. PICK home \in IPs : home = clientIP[acceptConn]
      BY <2>5 DEF Admit
    <3>1. acceptConn \in Conns /\ sessionBar[acceptConn] = None
      BY <2>5 DEF Admit
    <3>2. sessionBar' = [sessionBar EXCEPT ![acceptConn] = home]
      BY <2>5, <3>0 DEF Admit
    <3>3. Cardinality(Admission!Served) < MaxConnections
      <4>1. Admission!Served \in SUBSET (SlotHolders \ {acceptConn})
        BY <3>1 DEF Admission!Served, SlotHolders
      <4>2. /\ acceptConn \in SlotHolders
            /\ IsFiniteSet(SlotHolders)
        BY <2>5, <3>1 DEF Admit, SlotHolders, SlotAccounting
      <4>3. /\ IsFiniteSet(SlotHolders \ {acceptConn})
            /\ Cardinality(SlotHolders \ {acceptConn}) = connectionSlot - 1
        BY <4>2, CardinalityRemove DEF SlotAccounting
      <4>4. /\ IsFiniteSet(Admission!Served)
            /\ Cardinality(Admission!Served) <= Cardinality(SlotHolders \ {acceptConn})
        BY <4>1, <4>3, FS_Subset
      <4>5. Cardinality(Admission!Served) \in Nat
        BY <4>4, FS_CardinalityType
      <4>6. QED
        BY <4>3, <4>4, <4>5, ConfigAssumption
    <3>4. Cardinality(Admission!ServedFrom(home)) < MaxConnectionsIP
      <4>1. Admission!ServedFrom(home) \in SUBSET CountedFor(home)
        BY DEF Admission!ServedFrom, CountedFor
      <4>2. /\ IsFiniteSet(Admission!ServedFrom(home))
            /\ Cardinality(Admission!ServedFrom(home)) <= activeByIP[home]
        BY <4>1, FS_Subset DEF IPAccounting
      <4>3. Cardinality(Admission!ServedFrom(home)) \in Nat
        BY <4>2, FS_CardinalityType
      <4>4. QED
        BY <2>5, <3>0, <4>2, <4>3, ConfigAssumption DEF Admit
    <3>5. Admission!Start(acceptConn, home)
      BY <3>1, <3>2, <3>3, <3>4
      DEF Admission!Start, Admission!Cardinality, Cardinality
    <3>6. QED
      BY <3>1, <3>5 DEF Admission!Next
  <2>6. CASE RejectPerIP
    <3>1. UNCHANGED sessionBar
      BY <2>6 DEF RejectPerIP, TurnAway
    <3>2. QED
      BY <3>1
  <2>7. ASSUME NEW c \in Conns, Finish(c)
        PROVE  Admission!End(c)
    <3>1. sessionBar[c] # None
      BY <2>7 DEF Finish
    <3>2. sessionBar' = [sessionBar EXCEPT ![c] = None]
      BY <2>7 DEF Finish
    <3>3. QED
      BY <3>1, <3>2 DEF Admission!End
  <2>8. ASSUME NEW c \in Conns, PopSlot(c) \/ DecrementIP(c) \/ CloseFrontend(c)
        PROVE  UNCHANGED sessionBar
    BY <2>8 DEF PopSlot, DecrementIP, CloseFrontend
  <2>9. CASE UNCHANGED vars
    BY <2>9 DEF vars
  <2>10. QED
    BY <2>1, <2>2, <2>3, <2>4, <2>5, <2>6, <2>7, <2>8, <2>9
    DEF Next, Acceptor, Handler, Admission!Next
<1>3. QED
  BY <1>1, <1>2, Inductive, PTL DEF Spec, ImplementsAdmission, Admission!Spec

-----------------------------------------------------------------------------
(***************************************************************************)
(* ConnectionPool for any number of handlers and connections, more of them *)
(* nesting than there are connections included: the pool is never          *)
(* overdrawn, and what it takes to bring it to a standstill.               *)
(***************************************************************************)
(* Only nesting handlers ask for a second connection, and a rotation only  *)
(* with the write lock, which one transaction has at a time.               *)
Nests ==
    /\ \A h \in Handlers : at[h] \in {"nests", "inside"} => h \in Nesting
    /\ \A h \in Rotators : at[h] \in {"nests", "inside"} => writer = h

PoolIInv == PoolTypeOK /\ Nests

(* Sets of handlers are finite, so that their cardinalities are numbers. *)
LEMMA Finite ==
    ASSUME NEW S, S \subseteq Handlers
    PROVE  IsFiniteSet(S) /\ Cardinality(S) \in Nat
BY HandlersAssumption, FS_Subset, FS_CardinalityType

LEMMA Grows ==
    ASSUME NEW S, S \subseteq Handlers, NEW h \in Handlers
    PROVE  Cardinality(S \cup {h}) <= Cardinality(S) + 1
<1>1. IsFiniteSet(S) /\ Cardinality(S) \in Nat
  BY Finite
<1>2. Cardinality(S \cup {h}) = IF h \in S THEN Cardinality(S) ELSE Cardinality(S) + 1
  BY <1>1, FS_AddElement
<1> QED
  BY <1>1, <1>2

LEMMA Shrinks ==
    ASSUME NEW S, NEW T, S \subseteq T, T \subseteq Handlers
    PROVE  Cardinality(S) <= Cardinality(T)
BY Finite, FS_Subset

(* The pool's size is kept by every step: only the two acquisitions take   *)
(* a connection, and each of them looks first.                             *)
LEMMA PoolInitInv == PoolInit => PoolIInv
<1> SUFFICES ASSUME PoolInit PROVE PoolIInv
  OBVIOUS
<1>1. Cardinality({}) = 0
  BY FS_EmptySet
<1>2. outer = {} /\ inner = {}
  BY DEF PoolInit
<1>3. Used <= MaxOpen
  BY <1>1, <1>2, MaxOpenAssumption DEF Used
<1>4. \A h \in Handlers : at[h] = "idle"
  BY DEF PoolInit
<1>5. Rotators \subseteq Handlers
  BY DEF Handlers
<1>6. Nests
  BY <1>4, <1>5 DEF Nests
<1>7. PoolTypeOK
  BY <1>3 DEF PoolInit, PoolTypeOK
<1> QED
  BY <1>6, <1>7 DEF PoolIInv

LEMMA PoolNextInv == PoolIInv /\ [PoolNext]_poolVars => PoolIInv'
<1> SUFFICES ASSUME PoolIInv, [PoolNext]_poolVars PROVE PoolIInv'
  OBVIOUS
<1> USE DEF PoolIInv, Nests
<1>0. PoolTypeOK /\ outer \subseteq Handlers /\ inner \subseteq Handlers /\ Rotators \subseteq Nesting
      /\ Listers \subseteq Nesting /\ Nesting \subseteq Handlers
  BY DEF PoolTypeOK, Nesting, Handlers
<1>n. /\ Cardinality(outer) \in Nat /\ Cardinality(inner) \in Nat
      /\ Used \in Nat /\ MaxOpen \in Nat
  BY <1>0, Finite, MaxOpenAssumption DEF Used
<1>1. CASE UNCHANGED poolVars
  BY <1>0, <1>1 DEF poolVars, PoolTypeOK, Used
<1>2. ASSUME NEW h \in Handlers, Arrive(h) PROVE PoolIInv'
  BY <1>0, <1>2 DEF Arrive, Go, PoolTypeOK, Used
<1>3. ASSUME NEW h \in Handlers, Acquire(h) PROVE PoolIInv'
  <2>1. Cardinality(outer') <= Cardinality(outer) + 1
    BY <1>0, <1>3, Grows DEF Acquire
  <2>2. outer' \subseteq Handlers /\ Cardinality(outer') \in Nat
    BY <1>0, <1>3, Finite DEF Acquire
  <2>3. inner' = inner /\ Used < MaxOpen
    BY <1>3 DEF Acquire
  <2>4. Used' <= MaxOpen
    BY <1>n, <2>1, <2>2, <2>3 DEF Used
  <2> QED
    BY <1>0, <1>3, <2>4 DEF Acquire, Go, PoolTypeOK
<1>4. ASSUME NEW h \in Handlers, Mismatch(h) PROVE PoolIInv'
  BY <1>0, <1>4, HandlersAssumption DEF Mismatch, Go, PoolTypeOK, Used
<1>5. ASSUME NEW h \in Handlers, RevokeInTx(h) PROVE PoolIInv'
  BY <1>0, <1>5, HandlersAssumption DEF RevokeInTx, Go, PoolTypeOK, Used
<1>6. ASSUME NEW h \in Handlers, AcquireInner(h) PROVE PoolIInv'
  <2>1. Cardinality(inner') <= Cardinality(inner) + 1
    BY <1>0, <1>6, Grows DEF AcquireInner
  <2>2. inner' \subseteq Handlers /\ Cardinality(inner') \in Nat
    BY <1>0, <1>6, Finite DEF AcquireInner
  <2>3. outer' = outer /\ Used < MaxOpen
    BY <1>6 DEF AcquireInner
  <2>4. Used' <= MaxOpen
    BY <1>n, <2>1, <2>2, <2>3 DEF Used
  <2> QED
    BY <1>0, <1>6, <2>4 DEF AcquireInner, Go, PoolTypeOK
<1>7. ASSUME NEW h \in Handlers, ReleaseInner(h) PROVE PoolIInv'
  <2>1. inner' \subseteq inner /\ outer' = outer
    BY <1>7 DEF ReleaseInner
  <2>2. Cardinality(inner') <= Cardinality(inner) /\ Cardinality(inner') \in Nat
    BY <1>0, <2>1, Shrinks, Finite
  <2>3. Used' <= MaxOpen
    BY <1>0, <1>n, <2>1, <2>2 DEF Used, PoolTypeOK
  <2> QED
    BY <1>0, <1>7, <2>3 DEF ReleaseInner, Go, PoolTypeOK
<1>8. ASSUME NEW h \in Handlers, Return(h) PROVE PoolIInv'
  <2>1. outer' \subseteq outer /\ inner' = inner
    BY <1>8 DEF Return
  <2>2. Cardinality(outer') <= Cardinality(outer) /\ Cardinality(outer') \in Nat
    BY <1>0, <2>1, Shrinks, Finite
  <2>3. Used' <= MaxOpen
    BY <1>0, <1>n, <2>1, <2>2 DEF Used, PoolTypeOK
  <2> QED
    BY <1>0, <1>8, <2>3 DEF Return, Go, PoolTypeOK
<1> QED
  BY <1>1, <1>2, <1>3, <1>4, <1>5, <1>6, <1>7, <1>8 DEF PoolNext, Step

LEMMA PoolInductive == PoolSpec => []PoolIInv
BY PoolInitInv, PoolNextInv, PTL DEF PoolSpec

(* The pool (db.DB) never hands out more connections than MaxOpen, and its *)
(* books agree with what its handlers do.                                  *)
THEOREM PoolTypeCorrect == PoolSpec => []PoolTypeOK
<1>1. PoolIInv => PoolTypeOK
  BY DEF PoolIInv
<1> QED
  BY <1>1, PoolInductive, PTL

(* A pool that is held up has one connection in the hands of each of       *)
(* MaxOpen handlers that wait for a second one, all but one of them lists  *)
(* of databases: GET /api/databases and the rotation of tokens are the only*)
(* requests that can bring it to a standstill, and rotations alone cannot  *)
(* unless there is a single connection.                                    *)
THEOREM StandstillByNesting == PoolSpec => []HeldUpOnlyByNesting
<1>1. PoolIInv => HeldUpOnlyByNesting
  <2> SUFFICES ASSUME PoolIInv, Used = MaxOpen,
                      \A h \in Handlers : at[h] \notin {"works", "inside"}
               PROVE  Standstill /\ Cardinality(Waiting \cap Listers) >= MaxOpen - 1
    BY DEF HeldUpOnlyByNesting
  <2>1. inner = {} /\ outer = Waiting
    BY DEF PoolIInv, PoolTypeOK, Waiting
  <2>2. Waiting \subseteq Handlers /\ Waiting \subseteq Nesting
    BY DEF Waiting, PoolIInv, Nests
  <2>3. Cardinality(Waiting) = MaxOpen
    BY <2>1, <2>2, FS_EmptySet, Finite DEF Used
  <2> DEFINE lists == Waiting \cap Listers
  <2>4. Waiting \subseteq lists \cup {writer}
    BY <2>2 DEF Waiting, Nesting, PoolIInv, Nests
  <2>5. IsFiniteSet(lists) /\ Cardinality(lists) \in Nat
    BY <2>2, Finite
  <2>6. IsFiniteSet(lists \cup {writer}) /\ Cardinality(lists \cup {writer}) <= Cardinality(lists) + 1
    BY <2>5, FS_AddElement
  <2>7. Cardinality(Waiting) <= Cardinality(lists \cup {writer})
    BY <2>4, <2>6, FS_Subset
  <2>8. Cardinality(lists \cup {writer}) \in Nat
    BY <2>6, FS_CardinalityType
  <2> QED
    BY <2>3, <2>5, <2>6, <2>7, <2>8, MaxOpenAssumption DEF Standstill
<1> QED
  BY <1>1, PoolInductive, PTL
=============================================================================
