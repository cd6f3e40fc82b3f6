--------------------------- MODULE MCWorkflowRun ---------------------------
(***************************************************************************)
(* Instances of WorkflowRun for TLC: a single required item, and a chain   *)
(* of a required item and an optional one that depends on it.              *)
(***************************************************************************)
EXTENDS WorkflowRun

CONSTANTS a, b

TwoItemLimits == [maxItems |-> 2, maxDepth |-> 2, maxParallel |-> 2]

OneItem ==
    [items |-> {a}, optional |-> {}, deps |-> {}, order |-> [i \in {a} |-> 1],
     term |-> [i \in {a} |-> "none"], limits |-> TwoItemLimits]

Chain ==
    [items |-> {a, b}, optional |-> {b},
     deps |-> {[from |-> a, to |-> b, kind |-> "finish_to_start"]},
     order |-> [i \in {a, b} |-> IF i = a THEN 1 ELSE 2],
     term |-> [i \in {a, b} |-> "none"], limits |-> TwoItemLimits]

AllFaults == FaultKinds
=============================================================================
