---------------------------- MODULE MCNestedRuns ----------------------------
(***************************************************************************)
(* Instances of NestedRuns for TLC: a tree in which the first of two       *)
(* children has a plan of its own, a chain of three children, and a single *)
(* child.                                                                  *)
(***************************************************************************)
EXTENDS NestedRuns, TLC

CONSTANTS root, first, second, third

TreePlan == [r \in {root, first} |-> IF r = root THEN <<first, second>> ELSE <<third>>]
TreeDeps == [x \in {first, second, third} |-> IF x = second THEN {first} ELSE {}]
TreeLimits == [r \in {root, first} |-> IF r = root THEN 1 ELSE 2]

ChainPlan == [r \in {root} |-> <<first, second, third>>]
ChainDeps ==
    [x \in {first, second, third} |->
        CASE x = first -> {} [] x = second -> {first} [] x = third -> {second}]
ChainLimits == [r \in {root} |-> 1]

OnePlan == [r \in {root} |-> <<first>>]
OneDeps == [x \in {first} |-> {}]

\* Calls are interchangeable.
Symmetry == Permutations(Calls)
=============================================================================
