------------------------- MODULE MCCapacityLedger -------------------------
(***************************************************************************)
(* CapacityLedger for TLC: routes that all draw on one window.             *)
(***************************************************************************)
EXTENDS CapacityLedger, TLC

OneWindow == [r \in Routes |-> CHOOSE w \in Windows : TRUE]

\* Attempts, routes and usages are interchangeable.
Symmetry == Permutations(Attempts) \cup Permutations(Routes) \cup Permutations(Actuals)
=============================================================================
