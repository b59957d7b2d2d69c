---------------------------- MODULE MCDashboardPages ----------------------------
(* The databases, and the members of a list, are alike.                     *)
EXTENDS DashboardPages, TLC

Alike == Permutations(Dbs) \cup Permutations(Items)
=============================================================================
