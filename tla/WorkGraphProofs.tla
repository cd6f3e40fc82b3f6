-------------------------- MODULE WorkGraphProofs --------------------------
(***************************************************************************)
(* What ValidateExecutable and EvaluateReady promise to the schedulers,    *)
(* for every finite graph and all evidence: work that nothing failed       *)
(* before is never stuck, what is ready stays ready until it ends, and     *)
(* what a failure blocks is not started.                                   *)
(***************************************************************************)
EXTENDS WorkGraph, FiniteSetTheorems, WellFoundedInduction, TLAPS

Evidence(g) == [g.items -> Terminals]

\* Every member of C waits for a member of C.
WaitsInside(g, C) == \A i \in C : HardPreds(g, i) \cap C # {}

\* Both ends of an edge see it.
LEMMA EdgeEnds ==
  ASSUME NEW g, NEW i, NEW p
  PROVE  p \in HardPreds(g, i) <=> i \in HardSuccs(g, p)
  BY DEF HardPreds, HardSuccs

\* A smallest set of waiting items.
LEMMA SmallestWaiting ==
  ASSUME NEW g, IsFiniteSet(g.items), NEW U \in SUBSET g.items, U # {}, WaitsInside(g, U)
  PROVE  \E C \in SUBSET g.items :
            /\ C # {} /\ WaitsInside(g, C)
            /\ \A D \in SUBSET g.items :
                  D # {} /\ WaitsInside(g, D) => Cardinality(C) <= Cardinality(D)
<1> DEFINE F == {C \in SUBSET g.items : C # {} /\ WaitsInside(g, C)}
           R == OpToRel(<, Nat)
           N == {Cardinality(C) : C \in F}
<1>1. IsWellFoundedOn(R, Nat)
  BY NatLessThanWellFounded
<1>2. \A C \in F : Cardinality(C) \in Nat
  <2>1. \A C \in F : IsFiniteSet(C)
    BY FS_Subset
  <2>2. QED BY <2>1, FS_CardinalityType
<1>3. N \subseteq Nat /\ N # {}
  BY <1>2
<1>4. PICK n \in N : \A m \in N : <<m, n>> \notin R
  <2> HIDE DEF R, N
  <2>1. QED BY <1>1, <1>3, WFMin
<1>5. \A m \in N : n <= m
  <2>1. \A x, y \in Nat : x < y => <<x, y>> \in R
    BY DEF OpToRel
  <2> HIDE DEF R, N
  <2>2. n \in Nat /\ \A m \in N : m \in Nat /\ ~(m < n)
    BY <1>3, <1>4, <2>1
  <2>3. QED BY <2>2
<1>6. PICK C \in F : n = Cardinality(C)
  BY <1>4
<1>7. \A D \in F : Cardinality(C) <= Cardinality(D)
  BY <1>5, <1>6
<1>8. QED BY <1>7

\* The cycle check looks for items with successors in a set; it rules out sets
\* in which every item has a predecessor as well.
LEMMA NothingWaitsInside ==
  ASSUME NEW g, IsFiniteSet(g.items), ValidateGraph(g), NEW U \in SUBSET g.items, U # {}
  PROVE  \E i \in U : HardPreds(g, i) \cap U = {}
<1> SUFFICES ASSUME WaitsInside(g, U) PROVE FALSE
  BY DEF WaitsInside
<1>1. PICK C \in SUBSET g.items :
         /\ C # {} /\ WaitsInside(g, C)
         /\ \A D \in SUBSET g.items :
               D # {} /\ WaitsInside(g, D) => Cardinality(C) <= Cardinality(D)
  BY SmallestWaiting
<1>2. PICK x \in C : HardSuccs(g, x) \cap C = {}
  BY <1>1 DEF ValidateGraph, hasCycle
<1> DEFINE D == C \ {x}
<1>3. PICK y \in C : y \in HardPreds(g, x)
  BY <1>1, <1>2 DEF WaitsInside
<1>4. y \in D
  BY <1>2, <1>3, EdgeEnds
<1>5. WaitsInside(g, D)
  <2> SUFFICES ASSUME NEW i \in D PROVE HardPreds(g, i) \cap D # {}
    BY DEF WaitsInside
  <2>1. PICK p \in C : p \in HardPreds(g, i)
    BY <1>1 DEF WaitsInside
  <2>2. p # x
    BY <1>2, <2>1, EdgeEnds
  <2>3. QED BY <2>1, <2>2
<1>6. Cardinality(C) <= Cardinality(D)
  BY <1>1, <1>4, <1>5
<1>7. IsFiniteSet(C) /\ Cardinality(C) \in Nat
  BY FS_Subset, FS_CardinalityType
<1>8. Cardinality(D) = Cardinality(C) - 1
  BY <1>2, <1>7, FS_RemoveElement
<1>9. QED BY <1>6, <1>7, <1>8

----------------------------------------------------------------------------
(* EvaluateReady *)

LEMMA ReadyMeans ==
  ASSUME NEW g, NEW ev, NEW i \in g.items, ValidateExecutable(g)
  PROVE  i \in EvaluateReady(g, ev) <=>
            /\ Effective(g, ev)[i] = "none"
            /\ \A p \in HardPreds(g, i) : Effective(g, ev)[p] = "succeeded"
<1> DEFINE t == Effective(g, ev)
<1>1. i \in EvaluateReady(g, ev) <=> Lifecycle(g, ev, i) = "ready"
  BY DEF EvaluateReady
<1>2. Lifecycle(g, ev, i) = "ready" <=>
         /\ t[i] = "none"
         /\ \A p \in HardPreds(g, i) : ~Blocks(g, t, i, p) /\ ~OptionalFailed(g, t, i, p)
  <2> HIDE DEF t
  <2>1. Lifecycle(g, ev, i) =
           IF t[i] # "none" THEN "terminal"
           ELSE IF \E p \in HardPreds(g, i) : Blocks(g, t, i, p) THEN "blocked"
           ELSE IF \E p \in HardPreds(g, i) : OptionalFailed(g, t, i, p) THEN "ignored"
           ELSE "ready"
    BY DEF Lifecycle, t
  <2>2. QED BY <2>1
<1>3. \A p : ~Blocks(g, t, i, p) /\ ~OptionalFailed(g, t, i, p) <=> t[p] = "succeeded"
  BY DEF Blocks, OptionalFailed, NonSuccess
<1>4. QED BY <1>1, <1>2, <1>3

\* Work that nothing failed before is never stuck: unfinished items that wait
\* only for each other and for succeeded ones include one that is ready.  The
\* wave loop of every scheduler relies on it (EvaluateReady, hasCycle).
THEOREM UnfailedWorkProceeds ==
  ASSUME NEW g, IsFiniteSet(g.items), ValidateExecutable(g), NEW ev \in Evidence(g),
         NEW C \in SUBSET g.items, C # {},
         \A i \in C : Effective(g, ev)[i] = "none",
         \A i \in C : \A p \in HardPreds(g, i) : p \in C \/ Effective(g, ev)[p] = "succeeded"
  PROVE  C \cap EvaluateReady(g, ev) # {}
<1>1. PICK i \in C : HardPreds(g, i) \cap C = {}
  BY NothingWaitsInside DEF ValidateExecutable
<1>2. \A p \in HardPreds(g, i) : Effective(g, ev)[p] = "succeeded"
  BY <1>1
<1>3. i \in EvaluateReady(g, ev)
  BY <1>2, ReadyMeans
<1>4. QED BY <1>3

\* A schedule in which nothing is ready is over, or some unfinished item has a
\* hard predecessor that failed, was cancelled or was skipped.
THEOREM OnlyFailureStops ==
  ASSUME NEW g, IsFiniteSet(g.items), ValidateExecutable(g), NEW ev \in Evidence(g),
         g.term \in Evidence(g), EvaluateReady(g, ev) = {}
  PROVE  \A i \in g.items : Effective(g, ev)[i] = "none" =>
            \E j \in g.items : \E p \in HardPreds(g, j) :
               Effective(g, ev)[j] = "none" /\ Effective(g, ev)[p] \in NonSuccess
<1> SUFFICES ASSUME NEW i \in g.items, Effective(g, ev)[i] = "none",
                    \A j \in g.items : \A p \in HardPreds(g, j) :
                       Effective(g, ev)[j] = "none" => Effective(g, ev)[p] \notin NonSuccess
             PROVE  FALSE
  OBVIOUS
<1> DEFINE C == {j \in g.items : Effective(g, ev)[j] = "none"}
<1>1. C \in SUBSET g.items /\ C # {} /\ \A j \in C : Effective(g, ev)[j] = "none"
  OBVIOUS
<1>2. ASSUME NEW j \in C, NEW p \in HardPreds(g, j)
      PROVE  p \in C \/ Effective(g, ev)[p] = "succeeded"
  <2>1. p \in g.items
    BY DEF HardPreds, HardEdges, ValidateExecutable, ValidateGraph
  <2>2. Effective(g, ev)[p] \in Terminals
    BY <2>1 DEF Effective, Evidence
  <2>3. Effective(g, ev)[p] \notin NonSuccess
    OBVIOUS
  <2>4. QED BY <2>1, <2>2, <2>3 DEF Terminals, NonSuccess
<1> HIDE DEF C
<1>3. C \cap EvaluateReady(g, ev) # {}
  BY <1>1, <1>2, UnfailedWorkProceeds
<1>4. QED BY <1>3

\* Readiness read from older evidence is still right: with evidence that only
\* adds terminals, a ready item is ready until it has a terminal itself.
THEOREM ReadinessIsStable ==
  ASSUME NEW g, ValidateExecutable(g), NEW old \in Evidence(g), NEW new \in Evidence(g),
         \A i \in g.items :
            Effective(g, old)[i] # "none" => Effective(g, new)[i] = Effective(g, old)[i],
         NEW i \in EvaluateReady(g, old), Effective(g, new)[i] = "none"
  PROVE  i \in EvaluateReady(g, new)
<1>1. i \in g.items
  BY DEF EvaluateReady
<1>2. ASSUME NEW p \in HardPreds(g, i) PROVE Effective(g, new)[p] = "succeeded"
  <2>1. p \in g.items
    BY DEF HardPreds, HardEdges, ValidateExecutable, ValidateGraph
  <2>2. Effective(g, old)[p] = "succeeded"
    BY <1>1, ReadyMeans
  <2>3. QED BY <2>1, <2>2
<1>3. QED BY <1>1, <1>2, ReadyMeans
=============================================================================
