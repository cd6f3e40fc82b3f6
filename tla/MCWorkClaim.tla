---------------------------- MODULE MCWorkClaim ----------------------------
(***************************************************************************)
(* Graphs for the model checker: two items a -> b, and one item alone.     *)
(***************************************************************************)
EXTENDS WorkClaim, TLC

MCGraph ==
    [items |-> {"wi_a", "wi_b"}, optional |-> {},
     deps |-> {[from |-> "wi_a", to |-> "wi_b", kind |-> "finish_to_start"]},
     order |-> [i \in {"wi_a", "wi_b"} |-> IF i = "wi_a" THEN 1 ELSE 2],
     term |-> [i \in {"wi_a", "wi_b"} |-> "none"],
     limits |-> [maxItems |-> 32, maxDepth |-> 8, maxParallel |-> 2]]

MCOneItem ==
    [items |-> {"wi_a"}, optional |-> {}, deps |-> {},
     order |-> [i \in {"wi_a"} |-> 1], term |-> [i \in {"wi_a"} |-> "none"],
     limits |-> [maxItems |-> 32, maxDepth |-> 8, maxParallel |-> 2]]

\* Executors and attempts are interchangeable.
Symmetry == Permutations(Executors) \cup Permutations(Attempts)
=============================================================================
