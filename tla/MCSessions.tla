----------------------------- MODULE MCSessions -----------------------------
(***************************************************************************)
(* The proxy's sessions, several of them with their tokens, checkers and   *)
(* requests but without a clock, or one of them with its deadlines; or the *)
(* self-update.  They share no state: a behaviour is about one of the      *)
(* three, and the others stand still.                                      *)
(***************************************************************************)
EXTENDS ProxySessions, SessionTimeouts, SystemUpdate, TLC

VARIABLE part

SessionsInit ==
    /\ Init /\ TimeoutsInit /\ UpdateInit
    /\ part \in {"tokens", "clocks", "update"}
    /\ part # "clocks" => sinceCheck = 0

SessionsNext ==
    /\ UNCHANGED part
    /\ \/ part = "tokens" /\ Next /\ UNCHANGED <<timeoutVars, updateVars>>
       \/ part = "clocks" /\ TimeoutsNext /\ UNCHANGED <<vars, updateVars>>
       \/ part = "update" /\ UpdateNext /\ UNCHANGED <<vars, timeoutVars>>

SessionsSpec == SessionsInit /\ [][SessionsNext]_<<part, vars, timeoutVars, updateVars>>

(* The fairness of ProxySessions and of SystemUpdate, each while the       *)
(* behaviour is about it.                                                  *)
FairSessionsSpec ==
    /\ SessionsSpec
    /\ \A s \in Sessions :
          WF_vars(part = "tokens" /\ Handler(s)) /\ WF_vars(part = "tokens" /\ CheckerVisit(s))
    /\ WF_vars(part = "tokens" /\ CheckerTick)
    /\ WF_updateVars(part = "update" /\ Booting)

(* No operator distinguishes one session, token, request or update from    *)
(* another.                                                                *)
Symmetry == Permutations(Sessions) \cup Permutations(Tokens) \cup Permutations(Requests)
            \cup Permutations(Updaters)
=============================================================================
