--------------------------- MODULE ConnectionPool ---------------------------
(***************************************************************************)
(* Handlers and the connections of the SQL pool they share                 *)
(* (src/backend/db/database.go: DB.SetMaxOpenConns).                       *)
(*                                                                         *)
(* A query returns with its connection held until its rows are closed.     *)
(* GET /api/databases updates a status while its rows are open, and the    *)
(* rotation of a token asks for a table's columns inside a transaction:    *)
(* both hold one connection and wait, without a limit, for a second one.   *)
(* Everything else takes one at a time.                                    *)
(***************************************************************************)
EXTENDS Naturals, FiniteSets

CONSTANTS
    Listers,    \* goroutines that serve GET /api/databases, or provision at start-up
    Rotators,   \* goroutines that serve POST tokens/rotate
    Others,     \* every other handler, session and collector
    MaxOpen,    \* DB.SetMaxOpenConns
    NoOne

Handlers == Listers \cup Rotators \cup Others
Nesting == Listers \cup Rotators

ASSUME HandlersAssumption ==
    /\ IsFiniteSet(Handlers)
    /\ NoOne \notin Handlers
    /\ Listers \cap Rotators = {} /\ Nesting \cap Others = {}
ASSUME MaxOpenAssumption == MaxOpen \in Nat \ {0}

VARIABLES
    at,       \* Handlers -> what it does
    outer,    \* the handlers that hold a first connection: rows or a transaction
    inner,    \* the handlers that hold a second one
    writer    \* whose transaction has SQLite's write lock

poolVars == <<at, outer, inner, writer>>

PoolInit ==
    /\ at = [h \in Handlers |-> "idle"]
    /\ outer = {}
    /\ inner = {}
    /\ writer = NoOne

Used == Cardinality(outer) + Cardinality(inner)
Go(h, stage) == at' = [at EXCEPT ![h] = stage]

-----------------------------------------------------------------------------
Arrive(h) ==
    /\ at[h] = "idle"
    /\ Go(h, "asks")
    /\ UNCHANGED <<outer, inner, writer>>

(* database/sql hands a free connection to any of those that wait. *)
Acquire(h) ==
    /\ at[h] = "asks"
    /\ Used < MaxOpen
    /\ outer' = outer \cup {h}
    /\ Go(h, "works")
    /\ UNCHANGED <<inner, writer>>

(* A row whose status differs from that of its container. *)
Mismatch(h) ==
    /\ h \in Listers
    /\ at[h] = "works"
    /\ Go(h, "nests")
    /\ UNCHANGED <<outer, inner, writer>>

(* The rotation's UPDATE.  While another transaction writes it fails, and  *)
(* the handler returns.                                                    *)
RevokeInTx(h) ==
    /\ h \in Rotators
    /\ at[h] = "works"
    /\ writer = NoOne
    /\ writer' = h
    /\ Go(h, "nests")
    /\ UNCHANGED <<outer, inner>>

AcquireInner(h) ==
    /\ at[h] = "nests"
    /\ Used < MaxOpen
    /\ inner' = inner \cup {h}
    /\ Go(h, "inside")
    /\ UNCHANGED <<outer, writer>>

(* Mutant of ReleaseInner: a status that the update does not settle, so    *)
(* that the row is found to differ again.                                  *)
ReleaseAndNestAgain(h) ==
    /\ at[h] = "inside"
    /\ inner' = inner \ {h}
    /\ Go(h, "nests")
    /\ UNCHANGED <<outer, writer>>

ReleaseInner(h) ==
    /\ at[h] = "inside"
    /\ inner' = inner \ {h}
    /\ Go(h, "works")
    /\ UNCHANGED <<outer, writer>>

(* Mutant of Return: rows that are never closed. *)
ReturnWithRows(h) ==
    /\ at[h] = "works"
    /\ Go(h, "idle")
    /\ writer' = IF writer = h THEN NoOne ELSE writer
    /\ UNCHANGED <<outer, inner>>

(* Rows are closed, a transaction ends. *)
Return(h) ==
    /\ at[h] = "works"
    /\ outer' = outer \ {h}
    /\ Go(h, "idle")
    /\ writer' = IF writer = h THEN NoOne ELSE writer
    /\ UNCHANGED inner

Step(h) ==
    \/ Acquire(h) \/ Mismatch(h) \/ RevokeInTx(h) \/ AcquireInner(h) \/ ReleaseInner(h) \/ Return(h)

PoolNext == \E h \in Handlers : Arrive(h) \/ Step(h)

PoolSpec == PoolInit /\ [][PoolNext]_poolVars

-----------------------------------------------------------------------------
(* Properties. *)

PoolTypeOK ==
    /\ at \in [Handlers -> {"idle", "asks", "works", "nests", "inside"}]
    /\ outer = {h \in Handlers : at[h] \in {"works", "nests", "inside"}}
    /\ inner = {h \in Handlers : at[h] = "inside"}
    /\ writer \in Rotators \cup {NoOne}
    /\ Used <= MaxOpen

(* Every connection is in the hands of a handler that waits for another.   *)
(* None of them gives up: the pool is at a standstill for ever.            *)
Waiting == {h \in Handlers : at[h] = "nests"}
Standstill == Cardinality(Waiting) = MaxOpen

(* The pool is held up in no other way (connections are free, or somebody  *)
(* who holds one can go on), and it takes MaxOpen lists of databases, or   *)
(* all but one of them and one rotation: a rotation that found another     *)
(* transaction writing (main.go:4446) has returned instead of waiting.     *)
HeldUpOnlyByNesting ==
    Used = MaxOpen /\ (\A h \in Handlers : at[h] \notin {"works", "inside"}) =>
        Standstill /\ Cardinality(Waiting \cap Listers) >= MaxOpen - 1

(* Whoever waits for a connection gets to the end of its request, unless   *)
(* the pool comes to a standstill.                                         *)
RequestsEnd == \A h \in Handlers : at[h] # "idle" ~> at[h] = "idle" \/ Standstill

=============================================================================
