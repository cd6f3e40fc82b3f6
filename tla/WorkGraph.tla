----------------------------- MODULE WorkGraph -----------------------------
(***************************************************************************)
(* The versioned work graph: contract validation, executable validation    *)
(* and the pure readiness function that every scheduler and every claim    *)
(* goes through.                                                           *)
(*                                                                         *)
(* A graph is a record                                                     *)
(*   items    set of WorkItem ids                                          *)
(*   optional the items whose status is "optional" (the rest: required)    *)
(*   deps     set of [from, to, kind] edges                                *)
(*   order    integration_order of every item                              *)
(*   term     terminal already recorded in the graph payload               *)
(*   limits   [maxItems, maxDepth, maxParallel]                            *)
(* Schema strings, intents, owners and the digest are left out: they are   *)
(* presence checks that no property tells apart.  Edges form a set, so the *)
(* duplicate-edge rejection is in the representation.                      *)
(***************************************************************************)
EXTENDS Integers, FiniteSets

LOCAL INSTANCE FiniteSetsExt

Terminals == {"none", "succeeded", "failed", "cancelled", "skipped"}

\* Terminals of an item that ended without success.
NonSuccess == {"failed", "cancelled", "skipped"}

DepKinds == {"finish_to_start", "output", "soft_order"}

\* hardDep: the kinds that gate readiness; soft_order does not.
hardDep(k) == k \in {"finish_to_start", "output"}

HardEdges(g) == {d \in g.deps : hardDep(d.kind)}

HardPreds(g, i) == {d.from : d \in {h \in HardEdges(g) : h.to = i}}

HardSuccs(g, i) == {d.to : d \in {h \in HardEdges(g) : h.from = i}}

(***************************************************************************)
(* hasCycle: the depth-first search meets a gray node exactly when some    *)
(* non-empty set of items is closed under "has a hard successor inside".   *)
(***************************************************************************)
hasCycle(g) ==
    \E C \in SUBSET g.items \ {{}} : \A i \in C : HardSuccs(g, i) \cap C # {}

(***************************************************************************)
(* maxHardDepth: items on the longest hard path.  Only evaluated on graphs *)
(* that passed the cycle check, so the recursion is well founded.          *)
(***************************************************************************)
maxHardDepth(g) ==
    LET depth[i \in g.items] ==
          1 + Max({0} \cup {depth[j] : j \in HardSuccs(g, i)})
    IN  Max({0} \cup {depth[i] : i \in g.items})

\* The out-degree the fan-out limit counts: hard edges, so a pair joined by
\* both hard kinds counts twice.
FanOut(g, i) == Cardinality({d \in HardEdges(g) : d.from = i})

DefaultLimits == [maxItems |-> 32, maxDepth |-> 8, maxParallel |-> 2]

\* Limits without a positive item bound are replaced as a whole.
Limits(g) == IF g.limits.maxItems <= 0 THEN DefaultLimits ELSE g.limits

ValidateGraph(g) ==
    /\ g.items # {}
    /\ Cardinality(g.items) <= Limits(g).maxItems
    /\ \A i \in g.items : g.order[i] >= 1
    /\ \A i, j \in g.items : g.order[i] = g.order[j] => i = j
    /\ \A d \in g.deps : d.from \in g.items /\ d.to \in g.items /\ d.from # d.to
    /\ \A d \in g.deps : d.kind \in DepKinds
    /\ ~hasCycle(g)

ValidateExecutable(g) ==
    /\ ValidateGraph(g)
    /\ Limits(g).maxParallel > 0
          => \A i \in g.items : FanOut(g, i) <= Limits(g).maxParallel
    /\ Limits(g).maxDepth > 0 => maxHardDepth(g) <= Limits(g).maxDepth
    /\ \A d \in g.deps : d.kind = "output" => g.order[d.from] < g.order[d.to]
    /\ \A d \in HardEdges(g) : d.from \in g.optional => d.to \in g.optional

----------------------------------------------------------------------------

\* Effective terminals: durable evidence overrides the graph payload.
Effective(g, ev) ==
    [i \in g.items |-> IF ev[i] # "none" THEN ev[i] ELSE g.term[i]]

\* A hard predecessor that lets its dependent be ignored, not blocked.
OptionalFailed(g, t, i, p) ==
    i \in g.optional /\ p \in g.optional /\ t[p] \in NonSuccess

\* Mutant: any terminal of the predecessor satisfies the dependency.
BlocksUntilTerminal(g, t, i, p) == t[p] = "none"

Blocks(g, t, i, p) == t[p] # "succeeded" /\ ~OptionalFailed(g, t, i, p)

(***************************************************************************)
(* EvaluateReady, one lifecycle per item.  An invalid graph has no ready   *)
(* item at all; callers test ValidateExecutable first.                     *)
(***************************************************************************)
Lifecycle(g, ev, i) ==
    LET t == Effective(g, ev)
    IN  IF t[i] # "none" THEN "terminal"
        ELSE IF \E p \in HardPreds(g, i) : Blocks(g, t, i, p) THEN "blocked"
        ELSE IF \E p \in HardPreds(g, i) : OptionalFailed(g, t, i, p) THEN "ignored"
        ELSE "ready"

EvaluateReady(g, ev) ==
    {i \in g.items : ValidateExecutable(g) /\ Lifecycle(g, ev, i) = "ready"}
=============================================================================
