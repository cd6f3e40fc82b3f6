-------------------------- MODULE NestedRunsProofs --------------------------
(***************************************************************************)
(* Proofs about NestedRuns, for every tree of plans, every number of calls *)
(* and every limit, with calls that stop at any step and leases that run   *)
(* out at any time.                                                        *)
(*                                                                         *)
(* ChildOK ties the claim of a child to its status and its launch; Settled *)
(* ties its budget reservations to its edge; JobOK says what a call in the *)
(* middle of a child still knows of the claim, although others take over   *)
(* and propagate meanwhile.                                                *)
(***************************************************************************)
EXTENDS NestedRuns, FiniteSetTheorems, TLAPS

----------------------------------------------------------------------------
(* The inductive invariant *)

CallStates ==
    [pc : {"new", "persist", "prepare", "propagate", "over"}, plan : DOMAIN Plan,
     next : Nat, replay : [Children -> Statuses], result : [Children -> Results],
     stopped : BOOLEAN, suppress : BOOLEAN]

Claims ==
    [owner : Calls \cup {NoCall}, gen : 0 .. MaxGen, lease : 0 .. MaxTime + Lease,
     phase : Phases, slot : BOOLEAN]

\* A child was launched once its claim was executing, and runs from then on
\* until it ends; the reservation lasts as long as the claim is not completed.
ChildOK(c) ==
    /\ launches[c] \in {0, 1}
    /\ launches[c] = 1 => status[c] \in {"running"} \cup Ended
    /\ status[c] = "running" => launches[c] = 1
    /\ claim[c].phase = "executing" => launches[c] = 1
    /\ claim[c].phase \in {"none", "claimed"} => launches[c] = 0
    /\ claim[c].phase = "completed" => status[c] \in Ended
    /\ claim[c].slot <=> claim[c].phase \in {"claimed", "executing"}
    /\ claim[c].slot => claim[c].gen # 0

\* A budget reservation belongs to a generation that was given out, and the one
\* that is committed is the success on the edge.
Settled(c) ==
    /\ \A g \in Gens : budget[c][g] # "none" => g <= claim[c].gen
    /\ edge[c] = "succeeded" =>
          /\ status[c] = "succeeded" /\ ~claim[c].slot
          /\ \E g \in Gens : \A h \in Gens : budget[c][h] = "committed" <=> h = g
    /\ edge[c] # "succeeded" => \A g \in Gens : budget[c][g] # "committed"

\* A call has jobs, and its children are stored, only between the plan's
\* persistence and its return; a plan below the root is a launched child's.
CallOK(k) ==
    /\ call[k].next \in 1 .. Len(Plan[call[k].plan]) + 1
    /\ call[k].pc = "new" => call[k].next = 1
    /\ call[k].plan # Root => launches[call[k].plan] = 1
    /\ call[k].pc \in {"prepare", "propagate"} => \A c \in Kids(k) : status[c] # "none"

\* What a call that still owns the claim knows of its phase.
JobOK(k, c) ==
    /\ job[k][c].pc # "idle" => call[k].pc \in {"prepare", "propagate"}
    /\ job[k][c].pc \in {"bind", "phase", "reject"} /\ Owns(k, c) =>
          claim[c].phase \in {"claimed", "completed"}
    /\ job[k][c].pc = "run" /\ Owns(k, c) => claim[c].phase \in {"executing", "completed"}

\* The aggregate counts the reservations.
Counted ==
    /\ spent.reserved = Cardinality(Rows("active"))
    /\ spent.committed = Cardinality(Rows("committed"))

\* The shared store, and the clock.
StoreInv ==
    /\ status \in [Children \cup {Root} -> Statuses]
    /\ edge \in [Children -> Statuses]
    /\ claim \in [Children -> Claims]
    /\ budget \in [Children -> [Gens -> {"none", "active", "committed", "cancelled"}]]
    /\ spent \in [reserved : Nat, committed : Nat]
    /\ spent.reserved + spent.committed <= Ceiling
    /\ launches \in [Children -> Nat]
    /\ now \in 0 .. MaxTime
    /\ \A c \in Children : ChildOK(c) /\ Settled(c)
    /\ Counted
    /\ SlotsWithinLimit

\* The calls.
CallsInv ==
    /\ call \in [Calls -> CallStates]
    /\ job \in [Calls -> [Children -> [pc : JobSteps, gen : 0 .. MaxGen]]]
    /\ \A k \in Calls : CallOK(k) /\ \A c \in Children : JobOK(k, c)

IInv == StoreInv /\ CallsInv

\* What a step may do with a child, as AttemptLife sees it.
LifeStep(c) ==
    \/ LifeOf(c) = "absent" /\ LifeOf(c)' = "open" /\ launches'[c] = launches[c]
    \/ /\ LifeOf(c) = "open" /\ LifeOf(c)' = "trying"
       /\ launches[c] = 0 /\ launches'[c] = 1
    \/ LifeOf(c) = "trying" /\ LifeOf(c)' \in {"done", "failed"} /\ launches'[c] = launches[c]
    \/ LifeOf(c) = "open" /\ LifeOf(c)' = "failed" /\ launches'[c] = launches[c]
    \/ LifeOf(c)' = LifeOf(c) /\ launches'[c] = launches[c]

----------------------------------------------------------------------------
(* Plans, statuses and counts *)

LEMMA ChildrenFinite == IsFiniteSet(Children)
<1> DEFINE Of(r) == {Plan[r][i] : i \in 1 .. Len(Plan[r])}
           All == {Of(r) : r \in DOMAIN Plan}
<1>1. IsFiniteSet(All)
  <2> DEFINE f == [r \in DOMAIN Plan |-> Of(r)]
  <2>1. f \in Surjection(DOMAIN Plan, All)
    BY DEF Surjection
  <2>2. QED BY <2>1, FS_Surjection, NestedConstants
<1>2. ASSUME NEW T \in All PROVE IsFiniteSet(T)
  <2>1. PICK r \in DOMAIN Plan : T = Of(r)
    OBVIOUS
  <2>2. Len(Plan[r]) \in Nat
    BY NestedConstants
  <2>3. IsFiniteSet(1 .. Len(Plan[r]))
    BY <2>2, FS_Interval
  <2> DEFINE f == [i \in 1 .. Len(Plan[r]) |-> Plan[r][i]]
  <2>4. f \in Surjection(1 .. Len(Plan[r]), T)
    BY <2>1 DEF Surjection
  <2>5. QED BY <2>3, <2>4, FS_Surjection
<1>3. QED BY <1>1, <1>2, FS_UNION DEF Children

LEMMA PlanFacts ==
  /\ \A r \in DOMAIN Plan : Len(Plan[r]) \in Nat /\ ChildrenOf[r] \subseteq Children
  /\ \A r \in DOMAIN Plan : \A i \in 1 .. Len(Plan[r]) : Plan[r][i] \in Children
<1>1. \A r \in DOMAIN Plan : Len(Plan[r]) \in Nat
  BY NestedConstants
<1>2. QED BY <1>1 DEF Children, ChildrenOf

\* A status that ended stays ended, a success stays a success, and a run only
\* begins before it ends.
LEMMA ValidFacts ==
  ASSUME NEW from \in Statuses, NEW to \in Statuses, Valid(from, to)
  PROVE  /\ from \in Ended => to \in Ended
         /\ from = "succeeded" => to = "succeeded"
         /\ from = "none" => to \in {"none", "queued"}
         /\ to = "none" => from = "none"
         /\ to = "succeeded" => from \in {"launching", "running", "succeeded"}
         /\ to = "running" => from \in {"queued", "launching", "running"}
  BY DEF Valid, Allowed, Statuses, Ended, Failing, Blocked

LEMMA StatusSets ==
  /\ Failing \subseteq Ended /\ Ended \subseteq Statuses /\ Blocked \subseteq Failing
  /\ "succeeded" \in Ended \ Failing
  /\ {"needs-human", "timed_out", "blocked", "lost", "cancelled", "failed"} \subseteq Failing
  /\ {"none", "queued", "launching", "running"} \cap Ended = {}
  /\ {"none", "queued", "launching", "running"} \subseteq Statuses
  /\ Outcomes \subseteq Ended
  BY NestedConstants DEF Statuses, Ended, Failing, Blocked

\* The limit holds as long as no reservation comes alive.
LEMMA LiveShrinks ==
  ASSUME SlotsWithinLimit, \A c \in Children : SlotLive(c)' => SlotLive(c)
  PROVE  SlotsWithinLimit'
<1>1. ASSUME NEW S \in SUBSET Children
      PROVE  /\ LiveIn(S) \in Nat /\ LiveIn(S)' \in Nat /\ LiveIn(S)' <= LiveIn(S)
  <2>1. {c \in S : SlotLive(c)'} \in SUBSET {c \in S : SlotLive(c)}
    OBVIOUS
  <2>2. IsFiniteSet({c \in S : SlotLive(c)})
    BY ChildrenFinite, FS_Subset
  <2>3. QED BY <2>1, <2>2, FS_Subset, FS_CardinalityType DEF LiveIn
<1>2. \A r \in DOMAIN Plan : LiveIn(ChildrenOf[r])' <= MaxConcurrency[r]
  <2> TAKE r \in DOMAIN Plan
  <2>1. ChildrenOf[r] \in SUBSET Children
    BY PlanFacts
  <2>2. MaxConcurrency[r] \in Nat
    BY NestedConstants
  <2>3. LiveIn(ChildrenOf[r]) <= MaxConcurrency[r]
    BY DEF SlotsWithinLimit
  <2>4. QED BY <1>1, <2>1, <2>2, <2>3
<1>3. \E r \in DOMAIN Plan : LiveIn(Children)' <= MaxConcurrency[r]
  <2>1. PICK r \in DOMAIN Plan : LiveIn(Children) <= MaxConcurrency[r]
    BY DEF SlotsWithinLimit
  <2>2. MaxConcurrency[r] \in Nat
    BY NestedConstants
  <2>3. QED BY <1>1, <2>1, <2>2
<1>4. QED BY <1>2, <1>3 DEF SlotsWithinLimit

LEMMA RowsFinite == ASSUME NEW s PROVE IsFiniteSet(Rows(s))
<1>1. IsFiniteSet(Gens)
  BY FS_Interval, NestedConstants DEF Gens
<1>2. IsFiniteSet(Children \X Gens)
  BY <1>1, ChildrenFinite, FS_Product
<1>3. QED BY <1>2, FS_Subset DEF Rows

----------------------------------------------------------------------------
(* Transactions of the store *)

\* A child whose rows stay keeps its part of the invariant.
LEMMA ChildFrame ==
  ASSUME NEW c \in Children, ChildOK(c), Settled(c),
         status'[c] = status[c], edge'[c] = edge[c], claim'[c] = claim[c],
         budget'[c] = budget[c], launches'[c] = launches[c]
  PROVE  ChildOK(c)' /\ Settled(c)' /\ LifeStep(c)
  BY DEF ChildOK, Settled, LifeStep, LifeOf

\* Without a change of claims and reservations, the counts stay.
LEMMA CountsFrame ==
  ASSUME StoreInv, UNCHANGED <<claim, budget, spent, now>>
  PROVE  Counted' /\ SlotsWithinLimit'
<1>1. Counted'
  BY DEF StoreInv, Counted, Rows
<1>2. \A c \in Children : SlotLive(c)' => SlotLive(c)
  BY DEF SlotLive
<1>3. SlotsWithinLimit
  BY DEF StoreInv
<1>4. QED BY <1>1, <1>2, <1>3, LiveShrinks

LEMMA StoreFrame ==
  ASSUME StoreInv, UNCHANGED <<store, launches, now>>
  PROVE  StoreInv' /\ \A c \in Children : LifeStep(c)
<1>1. /\ UNCHANGED <<status, edge, claim, budget, spent, launches, now>>
  BY DEF store
<1>2. Counted' /\ SlotsWithinLimit'
  BY <1>1, CountsFrame
<1>3. \A c \in Children : ChildOK(c)' /\ Settled(c)' /\ LifeStep(c)
  BY <1>1, ChildFrame DEF StoreInv
<1>4. QED BY <1>1, <1>2, <1>3 DEF StoreInv

\* A mark ends a child, and no claim or reservation with it.
LEMMA MarkOK ==
  ASSUME StoreInv, NEW c \in Children, NEW s \in Failing,
         "succeeded" \notin {status[c], edge[c]}, status[c] # "none",
         Move(c, s), UNCHANGED <<claim, budget, spent, launches, now>>
  PROVE  StoreInv' /\ \A d \in Children : LifeStep(d)
<1>1. s \in Statuses /\ s \in Ended /\ s # "succeeded"
  BY StatusSets
<1>2. /\ status' \in [Children \cup {Root} -> Statuses]
      /\ edge' \in [Children -> Statuses]
  BY <1>1 DEF Move, StoreInv
<1>3. /\ status'[c] = s /\ edge'[c] = s
      /\ \A d \in Children \ {c} : status'[d] = status[d] /\ edge'[d] = edge[d]
  BY DEF Move, StoreInv
<1>4. ASSUME NEW d \in Children
      PROVE  ChildOK(d)' /\ Settled(d)' /\ LifeStep(d)
  <2>1. ChildOK(d) /\ Settled(d)
    BY DEF StoreInv
  <2>2. CASE d # c
    BY <2>1, <2>2, <1>3, ChildFrame
  <2>3. CASE d = c
    <3>1. ChildOK(c)'
      BY <2>1, <2>3, <1>1, <1>3, StatusSets DEF ChildOK
    <3>2. Settled(c)'
      BY <2>1, <2>3, <1>1, <1>3 DEF Settled
    <3>3. LifeStep(c)
      <4>1. status[c] \in Statuses
        BY DEF StoreInv
      <4>2. QED
        BY <4>1, <1>1, <1>3 DEF LifeStep, LifeOf, Statuses, Ended, Failing, Blocked
    <3>4. QED BY <3>1, <3>2, <3>3, <2>3
  <2>4. QED BY <2>2, <2>3
<1>5. Counted' /\ SlotsWithinLimit'
  BY CountsFrame
<1>6. QED BY <1>2, <1>4, <1>5 DEF StoreInv

\* The transition table allows a mark only where it does no harm.
LEMMA MarkedOK ==
  ASSUME StoreInv, NEW c \in Children, NEW s \in Failing, CanMove(c, s), Move(c, s),
         UNCHANGED <<claim, budget, spent, launches, now>>
  PROVE  StoreInv' /\ \A d \in Children : LifeStep(d)
<1>1. status[c] \in Statuses /\ edge[c] \in Statuses
  BY DEF StoreInv
<1>2. s \in Statuses /\ s \in Ended /\ s # "succeeded" /\ s \notin {"none", "queued"}
  BY StatusSets
<1>3. "succeeded" \notin {status[c], edge[c]} /\ status[c] # "none"
  BY <1>1, <1>2, ValidFacts DEF CanMove
<1>4. QED BY <1>3, MarkOK

\* A renewal prolongs a reservation that is alive.
LEMMA RenewOK ==
  ASSUME StoreInv, NEW c \in Children, Renewable(c),
         claim' = [claim EXCEPT ![c].lease = now + Lease],
         UNCHANGED <<status, edge, budget, spent, launches, now>>
  PROVE  StoreInv' /\ \A d \in Children : LifeStep(d)
<1>1. claim[c] \in Claims /\ now \in 0 .. MaxTime /\ now + Lease \in 0 .. MaxTime + Lease
  BY NestedConstants DEF StoreInv
<1>2. claim' = [claim EXCEPT ![c] = [claim[c] EXCEPT !.lease = now + Lease]]
  OBVIOUS
<1>3. [claim[c] EXCEPT !.lease = now + Lease] \in Claims
  BY <1>1 DEF Claims
<1>4. claim' \in [Children -> Claims]
  BY <1>2, <1>3 DEF StoreInv
<1>5. /\ claim'[c] = [claim[c] EXCEPT !.lease = now + Lease]
      /\ \A d \in Children \ {c} : claim'[d] = claim[d]
  BY <1>2 DEF StoreInv
<1>6. /\ claim'[c].phase = claim[c].phase /\ claim'[c].slot = claim[c].slot
      /\ claim'[c].gen = claim[c].gen
  BY <1>5, <1>1 DEF Claims
<1>7. ASSUME NEW d \in Children
      PROVE  ChildOK(d)' /\ Settled(d)' /\ LifeStep(d)
  <2>1. ChildOK(d) /\ Settled(d)
    BY DEF StoreInv
  <2>2. CASE d # c
    BY <2>1, <2>2, <1>5, ChildFrame
  <2>3. CASE d = c
    BY <2>1, <2>3, <1>6 DEF ChildOK, Settled, LifeStep, LifeOf
  <2>4. QED BY <2>2, <2>3
<1>8. Counted'
  BY DEF StoreInv, Counted, Rows
<1>9. SlotsWithinLimit'
  <2>1. \A d \in Children : SlotLive(d)' => SlotLive(d)
    BY <1>5, <1>6 DEF SlotLive, Renewable, HeldAt
  <2>2. QED BY <2>1, LiveShrinks DEF StoreInv
<1>10. QED BY <1>4, <1>7, <1>8, <1>9 DEF StoreInv

\* A reservation that was not there is counted once more.
LEMMA ReservedOnce ==
  ASSUME StoreInv, NEW c \in Children, NEW g \in Gens, budget[c][g] = "none",
         budget' = [budget EXCEPT ![c][g] = "active"],
         spent' = [spent EXCEPT !.reserved = @ + 1]
  PROVE  Counted'
<1>1. /\ budget'[c][g] = "active"
      /\ \A d \in Children, h \in Gens : <<d, h>> # <<c, g>> => budget'[d][h] = budget[d][h]
  BY DEF StoreInv
<1>2. Rows("active")' = Rows("active") \cup {<<c, g>>}
  <2>1. ASSUME NEW r \in Children \X Gens
        PROVE  budget'[r[1]][r[2]] = "active"
                 <=> budget[r[1]][r[2]] = "active" \/ r = <<c, g>>
    BY <1>1
  <2>2. QED BY <2>1 DEF Rows
<1>3. <<c, g>> \notin Rows("active")
  BY DEF Rows
<1>4. Rows("committed")' = Rows("committed")
  <2>1. ASSUME NEW r \in Children \X Gens
        PROVE  budget'[r[1]][r[2]] = "committed" <=> budget[r[1]][r[2]] = "committed"
    BY <1>1
  <2>2. QED BY <2>1 DEF Rows
<1>5. /\ spent'.reserved = spent.reserved + 1 /\ spent'.committed = spent.committed
  BY DEF StoreInv
<1>6. Cardinality(Rows("active")') = Cardinality(Rows("active")) + 1
  BY <1>2, <1>3, RowsFinite, FS_AddElement
<1>7. QED BY <1>4, <1>5, <1>6 DEF StoreInv, Counted

\* The reservation of a place respects the limit of the plan it is for.
LEMMA SlotTaken ==
  ASSUME StoreInv, NEW k \in Calls, NEW c \in Kids(k), call[k].plan \in DOMAIN Plan,
         SlotFree(k, c), now' = now,
         \A d \in Children \ {c} : claim'[d] = claim[d]
  PROVE  SlotsWithinLimit'
<1> PICK p \in DOMAIN Plan : p = call[k].plan
  OBVIOUS
<1>1. c \in Children /\ Parent[c] = p /\ c \in ChildrenOf[p]
  BY DEF Kids, ChildrenOf
<1>2. /\ MaxConcurrency \in [DOMAIN Plan -> Nat]
  BY NestedConstants
<1>3. ASSUME NEW S \in SUBSET Children
      PROVE  /\ LiveIn(S) \in Nat /\ LiveIn(S)' \in Nat /\ LiveIn(S \ {c}) \in Nat
             /\ c \notin S => LiveIn(S)' = LiveIn(S)
             /\ LiveIn(S)' <= LiveIn(S \ {c}) + 1
  <2>1. \A d \in Children \ {c} : SlotLive(d)' <=> SlotLive(d)
    BY DEF SlotLive
  <2>2. {d \in S : SlotLive(d)'} \in SUBSET ({d \in S \ {c} : SlotLive(d)} \cup {c})
    BY <2>1
  <2>3. c \notin S => {d \in S : SlotLive(d)'} = {d \in S : SlotLive(d)}
    BY <2>1
  <2>4. /\ IsFiniteSet({d \in S \ {c} : SlotLive(d)}) /\ IsFiniteSet({d \in S : SlotLive(d)})
        /\ IsFiniteSet({d \in S : SlotLive(d)'})
    BY ChildrenFinite, FS_Subset
  <2>5. /\ IsFiniteSet({d \in S \ {c} : SlotLive(d)} \cup {c})
        /\ Cardinality({d \in S \ {c} : SlotLive(d)} \cup {c})
              = Cardinality({d \in S \ {c} : SlotLive(d)}) + 1
    BY <2>4, FS_AddElement
  <2>6. Cardinality({d \in S : SlotLive(d)'})
          <= Cardinality({d \in S \ {c} : SlotLive(d)} \cup {c})
    BY <2>2, <2>5, FS_Subset
  <2>7. QED BY <2>3, <2>4, <2>5, <2>6, FS_CardinalityType DEF LiveIn
<1>4. /\ LiveIn(Children \ {c}) < MaxConcurrency[p]
      /\ LiveIn(ChildrenOf[p] \ {c}) < MaxConcurrency[p]
  BY DEF SlotFree, Kids
<1>5. \A r \in DOMAIN Plan : LiveIn(ChildrenOf[r])' <= MaxConcurrency[r]
  <2> TAKE r \in DOMAIN Plan
  <2>1. ChildrenOf[r] \in SUBSET Children /\ MaxConcurrency[r] \in Nat
    BY <1>2, PlanFacts
  <2>2. CASE r = p
    BY <2>1, <2>2, <1>3, <1>4
  <2>3. CASE r # p
    <3>1. c \notin ChildrenOf[r]
      BY <1>1, <2>3 DEF ChildrenOf
    <3>2. LiveIn(ChildrenOf[r]) <= MaxConcurrency[r]
      BY DEF StoreInv, SlotsWithinLimit
    <3>3. QED BY <3>1, <3>2, <2>1, <1>3
  <2>4. QED BY <2>2, <2>3
<1>6. LiveIn(Children)' <= MaxConcurrency[p]
  <2>1. MaxConcurrency[p] \in Nat
    BY <1>2
  <2>2. QED BY <2>1, <1>3, <1>4
<1>7. QED BY <1>5, <1>6 DEF SlotsWithinLimit

\* A call takes a child that was never launched, with a generation of its own.
LEMMA TakeOK ==
  ASSUME StoreInv, NEW k \in Calls, NEW c \in Kids(k), call[k].plan \in DOMAIN Plan,
         status[c] \notin Ended, TakeoverAllowed(c), SlotFree(k, c), BudgetFree,
         NEW gen, gen = claim[c].gen + 1, claim[c].gen < MaxGen,
         claim' = [claim EXCEPT ![c] = [owner |-> k, gen |-> gen, lease |-> now + Lease,
                                        phase |-> "claimed", slot |-> TRUE]],
         budget' = [budget EXCEPT ![c][gen] = "active"],
         spent' = [spent EXCEPT !.reserved = @ + 1],
         Move(c, IF status[c] = "running" THEN "running" ELSE "launching"),
         UNCHANGED <<launches, now>>
  PROVE  StoreInv' /\ \A d \in Children : LifeStep(d)
<1>1. c \in Children
  BY PlanFacts DEF Kids
<1>2. /\ claim[c] \in Claims /\ status[c] \in Statuses /\ edge[c] \in Statuses
      /\ budget[c] \in [Gens -> {"none", "active", "committed", "cancelled"}]
      /\ ChildOK(c) /\ Settled(c)
  BY <1>1 DEF StoreInv
<1>3. gen \in Gens /\ gen \in 0 .. MaxGen /\ gen # 0 /\ claim[c].gen \in Nat /\ ~(gen <= claim[c].gen)
  BY <1>2, NestedConstants DEF Gens, Claims
<1>4. launches[c] = 0 /\ status[c] # "running" /\ edge[c] # "succeeded"
  <2>1. launches[c] = 0
    BY <1>2 DEF ChildOK, TakeoverAllowed
  <2>2. status[c] # "running"
    BY <1>2, <2>1 DEF ChildOK
  <2>3. edge[c] # "succeeded"
    BY <1>2, StatusSets DEF Settled
  <2>4. QED BY <2>1, <2>2, <2>3
<1>5. /\ status' = [status EXCEPT ![c] = "launching"]
      /\ edge' = [edge EXCEPT ![c] = "launching"]
  BY <1>4 DEF Move
<1>6. /\ status' \in [Children \cup {Root} -> Statuses] /\ edge' \in [Children -> Statuses]
      /\ status'[c] = "launching" /\ edge'[c] = "launching"
      /\ \A d \in Children \ {c} : status'[d] = status[d] /\ edge'[d] = edge[d]
  BY <1>1, <1>5, StatusSets DEF StoreInv
<1> DEFINE new == [owner |-> k, gen |-> gen, lease |-> now + Lease,
                   phase |-> "claimed", slot |-> TRUE]
<1>7. now + Lease \in 0 .. MaxTime + Lease
  BY NestedConstants DEF StoreInv
<1>8. new \in Claims /\ new.phase = "claimed" /\ new.slot /\ new.gen = gen
  BY <1>3, <1>7 DEF Claims, Phases
<1>9. /\ claim'[c] = new /\ \A d \in Children \ {c} : claim'[d] = claim[d]
  BY <1>1 DEF StoreInv
<1> HIDE DEF new
<1>10. claim' \in [Children -> Claims]
  <2>1. claim' = [claim EXCEPT ![c] = new]
    BY DEF new
  <2>2. QED BY <2>1, <1>8 DEF StoreInv
<1>11. /\ budget' \in [Children -> [Gens -> {"none", "active", "committed", "cancelled"}]]
       /\ budget'[c][gen] = "active"
       /\ \A h \in Gens \ {gen} : budget'[c][h] = budget[c][h]
       /\ \A d \in Children \ {c} : budget'[d] = budget[d]
  BY <1>1, <1>3 DEF StoreInv
<1>12. budget[c][gen] = "none"
  BY <1>2, <1>3 DEF Settled
<1>13. Counted'
  BY <1>1, <1>3, <1>12, ReservedOnce
<1>14. /\ spent' \in [reserved : Nat, committed : Nat]
       /\ spent'.reserved + spent'.committed <= Ceiling
  <2>1. /\ spent' \in [reserved : Nat, committed : Nat]
        /\ spent'.reserved = spent.reserved + 1 /\ spent'.committed = spent.committed
    BY DEF StoreInv
  <2>2. Ceiling \in Nat /\ spent.reserved \in Nat /\ spent.committed \in Nat
    BY NestedConstants DEF StoreInv
  <2>3. spent.reserved + spent.committed < Ceiling
    BY DEF BudgetFree
  <2>4. QED BY <2>1, <2>2, <2>3
<1>15. SlotsWithinLimit'
  BY <1>9, SlotTaken
<1>16. ASSUME NEW d \in Children
       PROVE  ChildOK(d)' /\ Settled(d)' /\ LifeStep(d)
  <2>1. ChildOK(d) /\ Settled(d)
    BY DEF StoreInv
  <2>2. CASE d # c
    BY <2>1, <2>2, <1>6, <1>9, <1>11, ChildFrame
  <2>3. CASE d = c
    <3>1. ChildOK(c)'
      BY <1>3, <1>4, <1>6, <1>8, <1>9 DEF ChildOK
    <3>2. Settled(c)'
      <4>1. \A h \in Gens : budget'[c][h] # "none" => h <= gen
        BY <1>2, <1>3, <1>11 DEF Settled, Gens
      <4>2. \A h \in Gens : budget'[c][h] # "committed"
        BY <1>2, <1>4, <1>11 DEF Settled
      <4>3. QED BY <4>1, <4>2, <1>6, <1>8, <1>9 DEF Settled
    <3>3. LifeStep(c)
      BY <1>2, <1>4, <1>6, StatusSets DEF LifeStep, LifeOf, Statuses
    <3>4. QED BY <2>3, <3>1, <3>2, <3>3
  <2>4. QED BY <2>2, <2>3
<1>17. launches' \in [Children -> Nat] /\ now' \in 0 .. MaxTime
  BY DEF StoreInv
<1>18. QED BY <1>6, <1>10, <1>11, <1>13, <1>14, <1>15, <1>16, <1>17 DEF StoreInv

\* The provider starts under a claim that was not yet executing.
LEMMA LaunchOK ==
  ASSUME StoreInv, NEW c \in Children, claim[c].phase \in {"claimed", "completed"},
         CanMove(c, "running"), Move(c, "running"),
         claim' = [claim EXCEPT ![c].phase = "executing"],
         launches' = [launches EXCEPT ![c] = @ + 1],
         UNCHANGED <<budget, spent, now>>
  PROVE  StoreInv' /\ \A d \in Children : LifeStep(d)
<1>1. /\ claim[c] \in Claims /\ status[c] \in Statuses /\ edge[c] \in Statuses
      /\ ChildOK(c) /\ Settled(c)
  BY DEF StoreInv
<1>2. status[c] \notin Ended /\ edge[c] # "succeeded" /\ status[c] \in {"queued", "launching", "running"}
  BY <1>1, StatusSets, ValidFacts DEF CanMove
<1>3. claim[c].phase = "claimed" /\ launches[c] = 0 /\ status[c] \in {"queued", "launching"}
  BY <1>1, <1>2 DEF ChildOK
<1>4. /\ status' \in [Children \cup {Root} -> Statuses] /\ edge' \in [Children -> Statuses]
      /\ status'[c] = "running" /\ edge'[c] = "running"
      /\ \A d \in Children \ {c} : status'[d] = status[d] /\ edge'[d] = edge[d]
  BY StatusSets DEF StoreInv, Move
<1>5. claim' = [claim EXCEPT ![c] = [claim[c] EXCEPT !.phase = "executing"]]
  OBVIOUS
<1>6. [claim[c] EXCEPT !.phase = "executing"] \in Claims
  BY <1>1 DEF Claims, Phases
<1>7. /\ claim' \in [Children -> Claims]
      /\ claim'[c] = [claim[c] EXCEPT !.phase = "executing"]
      /\ \A d \in Children \ {c} : claim'[d] = claim[d]
  BY <1>5, <1>6 DEF StoreInv
<1>8. /\ claim'[c].phase = "executing" /\ claim'[c].slot = claim[c].slot
      /\ claim'[c].gen = claim[c].gen /\ claim'[c].lease = claim[c].lease
  BY <1>7, <1>1 DEF Claims
<1>9. /\ launches' \in [Children -> Nat] /\ launches'[c] = 1
      /\ \A d \in Children \ {c} : launches'[d] = launches[d]
  BY <1>3 DEF StoreInv
<1>10. ASSUME NEW d \in Children
       PROVE  ChildOK(d)' /\ Settled(d)' /\ LifeStep(d)
  <2>1. ChildOK(d) /\ Settled(d)
    BY DEF StoreInv
  <2>2. CASE d # c
    BY <2>1, <2>2, <1>4, <1>7, <1>9, ChildFrame
  <2>3. CASE d = c
    <3>1. ChildOK(c)'
      BY <1>1, <1>3, <1>4, <1>8, <1>9 DEF ChildOK
    <3>2. Settled(c)'
      BY <1>1, <1>2, <1>4, <1>8 DEF Settled
    <3>3. LifeStep(c)
      BY <1>3, <1>4, <1>9 DEF LifeStep, LifeOf
    <3>4. QED BY <2>3, <3>1, <3>2, <3>3
  <2>4. QED BY <2>2, <2>3
<1>11. Counted'
  BY DEF StoreInv, Counted, Rows
<1>12. SlotsWithinLimit'
  <2>1. \A d \in Children : SlotLive(d)' => SlotLive(d)
    BY <1>7, <1>8 DEF SlotLive
  <2>2. QED BY <2>1, LiveShrinks DEF StoreInv
<1>13. QED BY <1>4, <1>7, <1>9, <1>10, <1>11, <1>12 DEF StoreInv

\* What is stored for the first time has no claim and no launch.
LEMMA PersistOK ==
  ASSUME StoreInv, NEW k \in Calls, CallOK(k), call[k].plan \in DOMAIN Plan, Persist(k)
  PROVE  /\ StoreInv' /\ \A d \in Children : LifeStep(d)
         /\ \A d \in Kids(k) : status'[d] # "none"
<1> DEFINE new == {c \in Kids(k) : status[c] = "none"}
<1>1. Kids(k) \in SUBSET Children
  BY PlanFacts DEF Kids
<1>2. \A d \in Children : d = call[k].plan => status[d] # "none"
  <2> TAKE d \in Children
  <2> HAVE d = call[k].plan
  <2>1. d # Root
    BY NestedConstants
  <2>2. launches[d] = 1
    BY <2>1 DEF CallOK
  <2>3. QED BY <2>2, StatusSets DEF StoreInv, ChildOK
<1>3. /\ status' = [r \in DOMAIN status |->
                       IF r \in new THEN "queued"
                       ELSE IF r = call[k].plan /\ status[r] = "none" THEN "running"
                       ELSE status[r]]
      /\ edge' = [c \in Children |-> IF c \in new THEN "queued" ELSE edge[c]]
      /\ UNCHANGED <<claim, budget, spent, launches, now>>
  BY DEF Persist
<1>4. status' \in [Children \cup {Root} -> Statuses] /\ edge' \in [Children -> Statuses]
  BY <1>3, StatusSets DEF StoreInv
<1>5. \A d \in Children :
        /\ d \in new => status[d] = "none" /\ status'[d] = "queued" /\ edge'[d] = "queued"
        /\ d \notin new => status'[d] = status[d] /\ edge'[d] = edge[d]
  BY <1>2, <1>3 DEF StoreInv
<1>6. ASSUME NEW d \in Children
      PROVE  ChildOK(d)' /\ Settled(d)' /\ LifeStep(d)
  <2>1. ChildOK(d) /\ Settled(d)
    BY DEF StoreInv
  <2>2. CASE d \notin new
    BY <2>1, <2>2, <1>3, <1>5, ChildFrame
  <2>3. CASE d \in new
    <3>1. status[d] = "none" /\ status'[d] = "queued" /\ edge'[d] = "queued"
      BY <2>3, <1>5
    <3>2. ChildOK(d)'
      BY <2>1, <3>1, <1>3, StatusSets DEF ChildOK
    <3>3. Settled(d)'
      BY <2>1, <3>1, <1>3 DEF Settled
    <3>4. LifeStep(d)
      BY <3>1, <1>3 DEF LifeStep, LifeOf
    <3>5. QED BY <3>2, <3>3, <3>4
  <2>4. QED BY <2>2, <2>3
<1>7. Counted' /\ SlotsWithinLimit'
  BY <1>3, CountsFrame
<1>8. \A d \in Kids(k) : status'[d] # "none"
  BY <1>1, <1>5
<1>9. StoreInv'
  BY <1>3, <1>4, <1>6, <1>7 DEF StoreInv
<1>10. QED BY <1>6, <1>8, <1>9

\* The parent of a plan moves without its edge, and only when it was launched.
LEMMA ParentOK ==
  ASSUME StoreInv, NEW p \in Children \cup {Root}, NEW s \in {"running", "needs-human", "succeeded"},
         p # Root => launches[p] = 1, Valid(status[p], s),
         status' = [status EXCEPT ![p] = s],
         UNCHANGED <<edge, claim, budget, spent, launches, now>>
  PROVE  StoreInv' /\ \A d \in Children : LifeStep(d)
<1>1. s \in Statuses /\ status[p] \in Statuses
  BY StatusSets DEF StoreInv
<1>2. /\ status' \in [Children \cup {Root} -> Statuses] /\ status'[p] = s
      /\ \A d \in Children \ {p} : status'[d] = status[d]
  BY <1>1 DEF StoreInv
<1>3. ASSUME NEW d \in Children
      PROVE  ChildOK(d)' /\ Settled(d)' /\ LifeStep(d)
  <2>1. ChildOK(d) /\ Settled(d)
    BY DEF StoreInv
  <2>2. CASE d # p
    BY <2>1, <2>2, <1>2, ChildFrame
  <2>3. CASE d = p
    <3>1. launches[d] = 1 /\ status[d] \in {"running"} \cup Ended
      <4>1. d # Root
        BY NestedConstants
      <4>2. QED BY <4>1, <2>1, <2>3 DEF ChildOK
    <3>2. /\ status[d] \in Ended => s \in Ended
          /\ status[d] = "succeeded" => s = "succeeded"
          /\ s = "running" => status[d] = "running"
          /\ s = "succeeded" => status[d] \in {"running", "succeeded"}
          /\ s \in {"running"} \cup Ended
      BY <3>1, <2>3, <1>1, StatusSets, ValidFacts
    <3>3. ChildOK(d)'
      BY <2>1, <2>3, <3>1, <3>2, <1>2 DEF ChildOK
    <3>4. Settled(d)'
      BY <2>1, <2>3, <3>2, <1>2 DEF Settled
    <3>5. LifeStep(d)
      BY <2>3, <3>1, <3>2, <1>2 DEF LifeStep, LifeOf, Ended, Failing, Blocked
    <3>6. QED BY <3>3, <3>4, <3>5
  <2>4. QED BY <2>2, <2>3
<1>4. Counted' /\ SlotsWithinLimit'
  BY CountsFrame
<1>5. QED BY <1>2, <1>3, <1>4 DEF StoreInv

LEMMA TickOK ==
  ASSUME StoreInv, Tick
  PROVE  StoreInv' /\ \A d \in Children : LifeStep(d)
<1>1. UNCHANGED <<status, edge, claim, budget, spent, launches>> /\ now' = now + 1 /\ now < MaxTime
  BY DEF Tick, store
<1>2. now' \in 0 .. MaxTime
  BY <1>1, NestedConstants DEF StoreInv
<1>3. \A c \in Children : ChildOK(c)' /\ Settled(c)' /\ LifeStep(c)
  BY <1>1, ChildFrame DEF StoreInv
<1>4. Counted'
  BY <1>1 DEF StoreInv, Counted, Rows
<1>5. SlotsWithinLimit'
  <2>1. ASSUME NEW c \in Children PROVE SlotLive(c)' => SlotLive(c)
    <3>1. claim[c].lease \in Nat /\ now \in Nat
      BY NestedConstants DEF StoreInv, Claims
    <3>2. QED BY <3>1, <1>1 DEF SlotLive
  <2>2. QED BY <2>1, LiveShrinks DEF StoreInv
<1>6. QED BY <1>1, <1>2, <1>3, <1>4, <1>5 DEF StoreInv

\* As many reservations as children, each of the generation its claim has.
LEMMA HeldRows ==
  ASSUME NEW D \in SUBSET Children, \A d \in D : claim[d].gen \in Gens
  PROVE  LET held == {<<d, claim[d].gen>> : d \in D}
         IN  held \subseteq Children \X Gens /\ IsFiniteSet(held)
             /\ Cardinality(held) = Cardinality(D) /\ Cardinality(D) \in Nat
<1> DEFINE held == {<<d, claim[d].gen>> : d \in D}
           f == [d \in D |-> <<d, claim[d].gen>>]
<1>1. IsFiniteSet(D)
  BY ChildrenFinite, FS_Subset
<1>2. f \in Surjection(D, held)
  BY DEF Surjection
<1>3. f \in Injection(D, held)
  <2>1. f \in [D -> held]
    OBVIOUS
  <2>2. \A a, b \in D : f[a] = f[b] => a = b
    OBVIOUS
  <2> HIDE DEF f, held
  <2>3. QED BY <2>1, <2>2 DEF Injection, IsInjective
<1>4. IsFiniteSet(held) /\ Cardinality(held) = Cardinality(D)
  BY <1>1, <1>2, <1>3, FS_Surjection
<1>5. held \subseteq Children \X Gens
  OBVIOUS
<1>6. QED BY <1>1, <1>4, <1>5, FS_CardinalityType

\* A release moves one reservation of each child out of the active ones, and
\* those of the successes into the committed ones.
LEMMA ReleaseCounted ==
  ASSUME StoreInv, NEW D \in SUBSET Children, NEW s, Release(D, s),
         \A d \in D : claim[d].gen \in Gens /\ budget[d][claim[d].gen] = "active"
  PROVE  /\ Counted'
         /\ spent' \in [reserved : Nat, committed : Nat]
         /\ spent'.reserved + spent'.committed <= Ceiling
<1> DEFINE W == {d \in D : BudgetEnd(s[d]) = "committed"}
           out == {<<d, claim[d].gen>> : d \in D}
           won == {<<d, claim[d].gen>> : d \in W}
<1>1. /\ out \subseteq Children \X Gens /\ IsFiniteSet(out)
      /\ Cardinality(out) = Cardinality(D) /\ Cardinality(D) \in Nat
  BY HeldRows
<1>2. /\ won \subseteq Children \X Gens /\ IsFiniteSet(won)
      /\ Cardinality(won) = Cardinality(W) /\ Cardinality(W) \in Nat
  <2>1. W \in SUBSET Children /\ \A d \in W : claim[d].gen \in Gens
    OBVIOUS
  <2> HIDE DEF W
  <2>2. QED BY <2>1, HeldRows
<1>3. budget' = [c \in Children |->
                    IF c \in D THEN [budget[c] EXCEPT ![claim[c].gen] = BudgetEnd(s[c])]
                    ELSE budget[c]]
  BY DEF Release
<1>4. ASSUME NEW c \in Children, NEW g \in Gens
      PROVE  budget'[c][g] = IF c \in D /\ g = claim[c].gen THEN BudgetEnd(s[c])
                             ELSE budget[c][g]
  BY <1>3 DEF StoreInv
<1>5. \A x : BudgetEnd(x) \in {"committed", "cancelled"}
  BY DEF BudgetEnd
<1>6. Rows("active")' = Rows("active") \ out
  <2>1. ASSUME NEW r \in Children \X Gens
        PROVE  budget'[r[1]][r[2]] = "active"
                 <=> budget[r[1]][r[2]] = "active" /\ r \notin out
    <3>1. PICK c \in Children, g \in Gens : r = <<c, g>>
      OBVIOUS
    <3>2. r \in out <=> c \in D /\ g = claim[c].gen
      BY <3>1
    <3>3. QED BY <3>1, <3>2, <1>4, <1>5
  <2>2. QED BY <2>1 DEF Rows
<1>7. Rows("committed")' = Rows("committed") \cup won
  <2>1. ASSUME NEW r \in Children \X Gens
        PROVE  budget'[r[1]][r[2]] = "committed"
                 <=> budget[r[1]][r[2]] = "committed" \/ r \in won
    <3>1. PICK c \in Children, g \in Gens : r = <<c, g>>
      OBVIOUS
    <3>2. r \in won <=> c \in W /\ g = claim[c].gen
      BY <3>1
    <3>3. c \in W <=> c \in D /\ BudgetEnd(s[c]) = "committed"
      OBVIOUS
    <3>4. QED BY <3>1, <3>2, <3>3, <1>4, <1>5
  <2>2. QED BY <2>1, <1>2 DEF Rows
<1>8. out \subseteq Rows("active")
  BY <1>1 DEF Rows
<1>9. won \cap Rows("committed") = {} /\ W \subseteq D
  BY DEF Rows
<1>10. /\ spent'.reserved = spent.reserved - Cardinality(D)
       /\ spent'.committed = spent.committed + Cardinality(W)
       /\ spent' = [reserved |-> spent.reserved - Cardinality(D),
                    committed |-> spent.committed + Cardinality(W)]
  BY DEF Release
<1> HIDE DEF W, out, won
<1>11. /\ IsFiniteSet(Rows("active")) /\ IsFiniteSet(Rows("committed"))
       /\ Cardinality(Rows("active")) \in Nat /\ Cardinality(Rows("committed")) \in Nat
  BY RowsFinite, FS_CardinalityType
<1>12. /\ Cardinality(Rows("active") \ out) = Cardinality(Rows("active")) - Cardinality(D)
       /\ Cardinality(D) <= Cardinality(Rows("active"))
  <2>1. Rows("active") \cap out = out
    BY <1>8
  <2>2. Cardinality(Rows("active") \ out)
          = Cardinality(Rows("active")) - Cardinality(Rows("active") \cap out)
    BY <1>11, FS_Difference
  <2>3. Cardinality(out) <= Cardinality(Rows("active"))
    BY <1>8, <1>11, FS_Subset
  <2>4. QED BY <2>1, <2>2, <2>3, <1>1
<1>13. Cardinality(Rows("committed") \cup won)
         = Cardinality(Rows("committed")) + Cardinality(W)
  <2>1. Rows("committed") \cap won = {}
    BY <1>9
  <2>2. Cardinality(Rows("committed") \cup won)
          = Cardinality(Rows("committed")) + Cardinality(won) - Cardinality(Rows("committed") \cap won)
    BY <1>2, <1>11, FS_Union
  <2>3. Cardinality(Rows("committed") \cap won) = 0
    BY <2>1, FS_EmptySet
  <2>4. QED BY <2>2, <2>3, <1>2, <1>11
<1>14. Cardinality(W) <= Cardinality(D)
  <2>1. IsFiniteSet(D)
    BY ChildrenFinite, FS_Subset
  <2>2. QED BY <2>1, <1>9, FS_Subset
<1>15. /\ spent.reserved = Cardinality(Rows("active"))
       /\ spent.committed = Cardinality(Rows("committed"))
       /\ spent.reserved + spent.committed <= Ceiling
  BY DEF StoreInv, Counted
<1>16. Counted'
  BY <1>6, <1>7, <1>10, <1>12, <1>13, <1>15 DEF Counted
<1>17. /\ spent.reserved - Cardinality(D) \in Nat /\ spent.committed + Cardinality(W) \in Nat
       /\ (spent.reserved - Cardinality(D)) + (spent.committed + Cardinality(W)) <= Ceiling
  <2>1. Ceiling \in Nat
    BY NestedConstants
  <2>2. QED BY <2>1, <1>1, <1>2, <1>11, <1>12, <1>14, <1>15
<1>18. QED BY <1>10, <1>16, <1>17

\* Children end, and those with a claim give up their reservations.
LEMMA EndOK ==
  ASSUME StoreInv, NEW C \in SUBSET Children, NEW D \in SUBSET C, NEW s,
         \A d \in C :
            /\ s[d] \in Ended /\ edge[d] # "succeeded" /\ status[d] # "none"
            /\ status[d] = "succeeded" => s[d] = "succeeded"
            /\ s[d] = "succeeded" => d \in D /\ status[d] \in {"running", "succeeded"},
         \A d \in D : claim[d].slot /\ budget[d][claim[d].gen] = "active",
         status' = [r \in DOMAIN status |-> IF r \in C THEN s[r] ELSE status[r]],
         edge' = [d \in Children |-> IF d \in C THEN s[d] ELSE edge[d]],
         Release(D, s), UNCHANGED <<launches, now>>
  PROVE  /\ StoreInv' /\ \A d \in Children : LifeStep(d)
         /\ \A d \in Children : /\ claim'[d].owner = claim[d].owner
                                /\ claim'[d].gen = claim[d].gen
                                /\ claim'[d].phase \in {claim[d].phase, "completed"}
<1>1. /\ status' \in [Children \cup {Root} -> Statuses] /\ edge' \in [Children -> Statuses]
  BY StatusSets DEF StoreInv
<1>2. \A d \in Children :
        /\ d \in C => status'[d] = s[d] /\ edge'[d] = s[d]
        /\ d \notin C => status'[d] = status[d] /\ edge'[d] = edge[d]
  BY DEF StoreInv
<1>3. ASSUME NEW d \in D PROVE claim[d].gen \in Gens
  <2>1. claim[d] \in Claims /\ ChildOK(d)
    BY DEF StoreInv
  <2>2. claim[d].gen \in 0 .. MaxGen /\ claim[d].gen # 0
    BY <2>1 DEF ChildOK, Claims
  <2>3. QED BY <2>2, NestedConstants DEF Gens
<1>4. Counted' /\ spent' \in [reserved : Nat, committed : Nat]
      /\ spent'.reserved + spent'.committed <= Ceiling
  BY <1>3, ReleaseCounted
<1>5. /\ claim' = [c \in Children |->
                     IF c \in D THEN [claim[c] EXCEPT !.phase = "completed", !.slot = FALSE]
                     ELSE claim[c]]
      /\ budget' = [c \in Children |->
                     IF c \in D THEN [budget[c] EXCEPT ![claim[c].gen] = BudgetEnd(s[c])]
                     ELSE budget[c]]
  BY DEF Release
<1>6. ASSUME NEW d \in Children
      PROVE  /\ claim'[d] \in Claims
             /\ claim'[d].owner = claim[d].owner /\ claim'[d].gen = claim[d].gen
             /\ claim'[d].lease = claim[d].lease
             /\ d \in D => claim'[d].phase = "completed" /\ ~claim'[d].slot
             /\ d \notin D => claim'[d] = claim[d]
  <2>1. claim[d] \in Claims
    BY DEF StoreInv
  <2>2. CASE d \in D
    <3>1. claim'[d] = [claim[d] EXCEPT !.phase = "completed", !.slot = FALSE]
      BY <1>5, <2>2
    <3>2. QED BY <2>1, <2>2, <3>1 DEF Claims, Phases
  <2>3. CASE d \notin D
    BY <1>5, <2>1, <2>3
  <2>4. QED BY <2>2, <2>3
<1>7. claim' \in [Children -> Claims]
  BY <1>5, <1>6
<1>8. ASSUME NEW d \in Children
      PROVE  /\ budget'[d] \in [Gens -> {"none", "active", "committed", "cancelled"}]
             /\ d \notin D => budget'[d] = budget[d]
             /\ d \in D => /\ budget'[d][claim[d].gen] = BudgetEnd(s[d])
                           /\ \A g \in Gens \ {claim[d].gen} : budget'[d][g] = budget[d][g]
  <2>1. budget[d] \in [Gens -> {"none", "active", "committed", "cancelled"}]
    BY DEF StoreInv
  <2>2. BudgetEnd(s[d]) \in {"committed", "cancelled"}
    BY DEF BudgetEnd
  <2>3. QED BY <2>1, <2>2, <1>3, <1>5
<1>9. budget' \in [Children -> [Gens -> {"none", "active", "committed", "cancelled"}]]
  BY <1>5, <1>8
<1>10. ASSUME NEW d \in Children
       PROVE  ChildOK(d)' /\ Settled(d)' /\ LifeStep(d)
  <2>1. ChildOK(d) /\ Settled(d) /\ status[d] \in Statuses
    BY DEF StoreInv
  <2>2. CASE d \notin C
    BY <2>1, <2>2, <1>2, <1>6, <1>8, ChildFrame
  <2>3. CASE d \in C
    <3>1. /\ status'[d] = s[d] /\ edge'[d] = s[d] /\ s[d] \in Ended
          /\ edge[d] # "succeeded" /\ s[d] # "running"
      BY <2>3, <1>2, StatusSets
    <3>2. ChildOK(d)'
      <4>1. CASE d \in D
        BY <4>1, <2>1, <3>1, <1>6 DEF ChildOK
      <4>2. CASE d \notin D
        BY <4>2, <2>1, <3>1, <1>6 DEF ChildOK
      <4>3. QED BY <4>1, <4>2
    <3>3. Settled(d)'
      <4>1. CASE d \in D
        <5>1. claim[d].gen \in Gens
          BY <4>1, <1>3
        <5>2. \A g \in Gens : budget'[d][g] # "none" => g <= claim'[d].gen
          BY <4>1, <5>1, <2>1, <1>6, <1>8 DEF Settled
        <5>3. \A g \in Gens : budget[d][g] # "committed"
          BY <2>1, <3>1 DEF Settled
        <5>4. CASE s[d] = "succeeded"
          <6>1. budget'[d][claim[d].gen] = "committed"
            BY <4>1, <5>4, <1>8 DEF BudgetEnd
          <6>2. \A h \in Gens : budget'[d][h] = "committed" <=> h = claim[d].gen
            BY <4>1, <5>3, <6>1, <1>8
          <6>3. QED BY <4>1, <5>1, <5>2, <5>4, <6>2, <3>1, <1>6 DEF Settled
        <5>5. CASE s[d] # "succeeded"
          <6>1. budget'[d][claim[d].gen] = "cancelled"
            BY <4>1, <5>5, <1>8 DEF BudgetEnd
          <6>2. \A h \in Gens : budget'[d][h] # "committed"
            BY <4>1, <5>3, <6>1, <1>8
          <6>3. QED BY <5>2, <5>5, <6>2, <3>1 DEF Settled
        <5>6. QED BY <5>4, <5>5
      <4>2. CASE d \notin D
        BY <4>2, <2>1, <2>3, <3>1, <1>6, <1>8 DEF Settled
      <4>3. QED BY <4>1, <4>2
    <3>4. LifeStep(d)
      BY <2>1, <2>3, <3>1 DEF LifeStep, LifeOf, Statuses, Ended, Failing, Blocked
    <3>5. QED BY <3>2, <3>3, <3>4
  <2>4. QED BY <2>2, <2>3
<1>11. SlotsWithinLimit'
  <2>1. \A d \in Children : SlotLive(d)' => SlotLive(d)
    BY <1>6 DEF SlotLive
  <2>2. QED BY <2>1, LiveShrinks DEF StoreInv
<1>12. StoreInv'
  BY <1>1, <1>4, <1>7, <1>9, <1>10, <1>11 DEF StoreInv
<1>13. QED BY <1>6, <1>10, <1>12

\* One child of a call ends, as CompleteClaimedChildRun and the rejection do it.
LEMMA CompleteOK ==
  ASSUME StoreInv, NEW c \in Children, NEW s \in Ended, NEW at,
         CanMove(c, s), HeldAt(c, at), Complete(c, s), UNCHANGED <<launches, now>>,
         s = "succeeded" => claim[c].phase = "executing"
  PROVE  /\ StoreInv' /\ \A d \in Children : LifeStep(d)
         /\ \A d \in Children : /\ claim'[d].owner = claim[d].owner
                                /\ claim'[d].gen = claim[d].gen
                                /\ claim'[d].phase \in {claim[d].phase, "completed"}
<1> DEFINE to == [d \in {c} |-> s]
<1>1. /\ ChildOK(c) /\ Settled(c) /\ status[c] \in Statuses /\ edge[c] \in Statuses
      /\ s \in Statuses
  BY StatusSets DEF StoreInv
<1>2. claim[c].slot /\ budget[c][claim[c].gen] = "active" /\ edge[c] # "succeeded"
  BY <1>1 DEF HeldAt, Settled
<1>3. /\ status[c] # "none"
      /\ status[c] = "succeeded" => s = "succeeded"
      /\ s = "succeeded" => status[c] \in {"launching", "running", "succeeded"}
  BY <1>1, StatusSets, ValidFacts DEF CanMove
<1>4. s = "succeeded" => status[c] \in {"running", "succeeded"}
  BY <1>1, <1>3, StatusSets DEF ChildOK
<1>5. to[c] = s
  OBVIOUS
<1>6. /\ status' = [r \in DOMAIN status |-> IF r \in {c} THEN to[r] ELSE status[r]]
      /\ edge' = [d \in Children |-> IF d \in {c} THEN to[d] ELSE edge[d]]
  BY DEF Complete, Move, StoreInv
<1>7. Release({c}, to)
  BY DEF Complete
<1> HIDE DEF to
<1>8. {c} \in SUBSET Children /\ {c} \in SUBSET {c}
  OBVIOUS
<1>9. \A d \in {c} :
         /\ to[d] \in Ended /\ edge[d] # "succeeded" /\ status[d] # "none"
         /\ status[d] = "succeeded" => to[d] = "succeeded"
         /\ to[d] = "succeeded" => d \in {c} /\ status[d] \in {"running", "succeeded"}
  BY <1>2, <1>3, <1>4, <1>5
<1>10. \A d \in {c} : claim[d].slot /\ budget[d][claim[d].gen] = "active"
  BY <1>2
<1>11. QED BY <1>6, <1>7, <1>8, <1>9, <1>10, EndOK

\* A subtree ends, as PropagateRunTreeTerminal does it.
LEMMA PropagateOK ==
  ASSUME StoreInv, NEW c \in Children, NEW s \in Failing, NEW at,
         CanPropagate(c, s, at), PropagateTo(c, s), UNCHANGED <<launches, now>>
  PROVE  /\ StoreInv' /\ \A d \in Children : LifeStep(d)
         /\ \A d \in Children : /\ claim'[d].owner = claim[d].owner
                                /\ claim'[d].gen = claim[d].gen
                                /\ claim'[d].phase \in {claim[d].phase, "completed"}
<1> DEFINE to == [d \in Open(c) |-> Classify(d, s)]
           D == {d \in Open(c) : claim[d].owner # NoCall}
<1>1. Open(c) \in SUBSET Children /\ D \in SUBSET Open(c)
  BY DEF Open
<1>2. \A d \in Open(c) : Classify(d, s) \in Failing
  BY StatusSets DEF Classify
<1>3. ASSUME NEW d \in Open(c)
      PROVE  /\ to[d] \in Ended /\ to[d] # "succeeded" /\ edge[d] # "succeeded"
             /\ status[d] # "none" /\ status[d] # "succeeded"
  <2>1. to[d] \in Failing
    BY <1>2
  <2>2. status[d] # "none" /\ status[d] # "succeeded"
    BY StatusSets DEF Open
  <2>3. edge[d] # "succeeded"
    BY <2>2, <1>1 DEF StoreInv, Settled
  <2>4. QED BY <2>1, <2>2, <2>3, StatusSets
<1>4. \A d \in D : claim[d].slot /\ budget[d][claim[d].gen] = "active"
  BY DEF CanPropagate, HeldAt
<1>5. /\ status' = [r \in DOMAIN status |-> IF r \in Open(c) THEN to[r] ELSE status[r]]
      /\ edge' = [d \in Children |-> IF d \in Open(c) THEN to[d] ELSE edge[d]]
      /\ Release(D, to)
  BY DEF PropagateTo
<1> HIDE DEF to, D
<1>6. \A d \in Open(c) :
         /\ to[d] \in Ended /\ edge[d] # "succeeded" /\ status[d] # "none"
         /\ status[d] = "succeeded" => to[d] = "succeeded"
         /\ to[d] = "succeeded" => d \in D /\ status[d] \in {"running", "succeeded"}
  BY <1>3
<1>7. QED BY <1>1, <1>4, <1>5, <1>6, EndOK

----------------------------------------------------------------------------
(* Calls *)

\* The claim of a child gives a call nothing it did not have, and may complete.
ClaimKept(k, c) ==
    claim'[c].owner = k =>
        /\ claim[c].owner = k /\ claim'[c].gen = claim[c].gen
        /\ claim'[c].phase \in {claim[c].phase, "completed"}

\* The call stays where it is in its plan.
SamePlace(k) ==
    /\ call' \in [Calls -> CallStates]
    /\ \A j \in Calls \ {k} : call'[j] = call[j]
    /\ call'[k].pc = call[k].pc /\ call'[k].plan = call[k].plan
    /\ call'[k].next = call[k].next

\* What is stored stays stored, and what was launched stays launched.
LEMMA LifeKeeps ==
  ASSUME StoreInv, StoreInv', NEW c \in Children, LifeStep(c)
  PROVE  /\ status[c] # "none" => status'[c] # "none"
         /\ launches[c] = 1 => launches'[c] = 1
<1>1. status[c] \in Statuses /\ status'[c] \in Statuses
  BY DEF StoreInv
<1>2. QED BY <1>1 DEF LifeStep, LifeOf, Statuses, Ended, Failing, Blocked

LEMMA PlaceOK ==
  ASSUME IInv, StoreInv', \A c \in Children : LifeStep(c), NEW k \in Calls,
         call'[k].pc = call[k].pc, call'[k].plan = call[k].plan,
         call'[k].next \in {call[k].next}
            \cup {n \in {call[k].next + 1} : call[k].pc # "new" /\ More(k)}
  PROVE  CallOK(k)'
<1>1. /\ call[k].plan \in DOMAIN Plan /\ CallOK(k)
  BY DEF IInv, CallsInv, CallStates
<1> PICK p \in DOMAIN Plan : p = call[k].plan
  BY <1>1
<1>2. Kids(k)' = Kids(k) /\ Kids(k) \subseteq Children
  BY <1>1, PlanFacts DEF Kids
<1>3. call'[k].next \in 1 .. Len(Plan[call'[k].plan]) + 1
  <2>1. Len(Plan[p]) \in Nat
    BY PlanFacts
  <2>2. call[k].next \in 1 .. Len(Plan[p]) + 1
    BY <1>1 DEF CallOK
  <2>3. QED BY <2>1, <2>2 DEF More
<1>4. p # Root => launches'[p] = 1
  <2>1. p # Root => launches[p] = 1 /\ p \in Children
    BY <1>1, NestedConstants DEF CallOK
  <2>2. QED BY <2>1, LifeKeeps DEF IInv
<1>5. call'[k].pc \in {"prepare", "propagate"} => \A c \in Kids(k) : status'[c] # "none"
  BY <1>1, <1>2, LifeKeeps DEF CallOK, IInv
<1>6. call'[k].pc = "new" => call'[k].next = 1
  BY <1>1 DEF CallOK
<1>7. QED BY <1>2, <1>3, <1>4, <1>5, <1>6 DEF CallOK

\* A job that stays keeps what it knows of a claim that stays or completes.
LEMMA JobFrame ==
  ASSUME NEW k \in Calls, NEW c \in Children, JobOK(k, c), ClaimKept(k, c),
         job'[k][c] = job[k][c], call'[k].pc = call[k].pc
  PROVE  JobOK(k, c)'
  BY DEF JobOK, ClaimKept, Owns

\* A step of one call.
LEMMA OneCall ==
  ASSUME IInv, StoreInv', \A c \in Children : LifeStep(c), NEW k \in Calls,
         call' \in [Calls -> CallStates],
         job' \in [Calls -> [Children -> [pc : JobSteps, gen : 0 .. MaxGen]]],
         \A j \in Calls \ {k} : call'[j] = call[j] /\ job'[j] = job[j],
         \A j \in Calls \ {k}, c \in Children : ClaimKept(j, c),
         CallOK(k)', \A c \in Children : JobOK(k, c)'
  PROVE  CallsInv'
<1>1. ASSUME NEW j \in Calls PROVE CallOK(j)' /\ \A c \in Children : JobOK(j, c)'
  <2>1. CASE j = k
    BY <2>1
  <2>2. CASE j # k
    <3>1. CallOK(j)'
      BY <2>2, PlaceOK
    <3>2. ASSUME NEW c \in Children PROVE JobOK(j, c)'
      <4>1. JobOK(j, c)
        BY DEF IInv, CallsInv
      <4>2. QED BY <2>2, <4>1, JobFrame
    <3>3. QED BY <3>1, <3>2
  <2>3. QED BY <2>1, <2>2
<1>2. QED BY <1>1 DEF CallsInv

\* A step of one call with one child.
LEMMA OneJob ==
  ASSUME IInv, StoreInv', \A d \in Children : LifeStep(d),
         NEW k \in Calls, NEW c \in Children, job[k][c].pc # "idle", SamePlace(k),
         NEW to \in [pc : JobSteps, gen : 0 .. MaxGen],
         job' = [job EXCEPT ![k][c] = to],
         \A j \in Calls, d \in Children : j # k \/ d # c => ClaimKept(j, d),
         claim'[c].owner = k /\ claim'[c].gen = to.gen =>
            /\ to.pc \in {"bind", "phase", "reject"} => claim'[c].phase \in {"claimed", "completed"}
            /\ to.pc = "run" => claim'[c].phase \in {"executing", "completed"}
  PROVE  CallsInv'
<1>1. job' \in [Calls -> [Children -> [pc : JobSteps, gen : 0 .. MaxGen]]]
  BY DEF IInv, CallsInv
<1>2. /\ \A j \in Calls \ {k} : job'[j] = job[j]
      /\ \A d \in Children \ {c} : job'[k][d] = job[k][d]
      /\ job'[k][c] = to
  BY DEF IInv, CallsInv
<1>3. CallOK(k)'
  BY PlaceOK DEF SamePlace
<1>4. ASSUME NEW d \in Children PROVE JobOK(k, d)'
  <2>1. JobOK(k, d)
    BY DEF IInv, CallsInv
  <2>2. CASE d # c
    BY <2>1, <2>2, <1>2, JobFrame DEF SamePlace
  <2>3. CASE d = c
    BY <2>1, <2>3, <1>2 DEF JobOK, SamePlace, Owns
  <2>4. QED BY <2>2, <2>3
<1>5. QED BY <1>1, <1>2, <1>3, <1>4, OneCall DEF SamePlace

----------------------------------------------------------------------------
(* What a step does to a call and its jobs *)

LEMMA ClaimsFrame ==
  ASSUME UNCHANGED claim
  PROVE  \A k \in Calls, c \in Children : ClaimKept(k, c)
  BY DEF ClaimKept

LEMMA CallFrame ==
  ASSUME IInv, NEW k \in Calls, UNCHANGED call
  PROVE  SamePlace(k)
  BY DEF SamePlace, IInv, CallsInv

LEMMA ResultPlace ==
  ASSUME IInv, NEW k \in Calls, NEW c \in Children, NEW r \in Results,
         call' = [call EXCEPT ![k].result[c] = r]
  PROVE  SamePlace(k)
<1>1. call[k] \in CallStates /\ call \in [Calls -> CallStates]
  BY DEF IInv, CallsInv
<1>2. [call[k].result EXCEPT ![c] = r] \in [Children -> Results]
  BY <1>1 DEF CallStates
<1>3. call' = [call EXCEPT ![k] = [call[k] EXCEPT !.result = [call[k].result EXCEPT ![c] = r]]]
  OBVIOUS
<1> DEFINE to == [call[k] EXCEPT !.result = [call[k].result EXCEPT ![c] = r]]
<1>4. /\ to \in CallStates
      /\ to.pc = call[k].pc /\ to.plan = call[k].plan /\ to.next = call[k].next
  BY <1>1, <1>2 DEF CallStates
<1> HIDE DEF to
<1>5. call' = [call EXCEPT ![k] = to]
  BY <1>3 DEF to
<1>6. QED BY <1>1, <1>4, <1>5 DEF SamePlace

\* The same with a flag set as well.
LEMMA FlagPlace ==
  ASSUME IInv, NEW k \in Calls, NEW c \in Children, NEW r \in Results,
         \/ call' = [call EXCEPT ![k].result[c] = r, ![k].suppress = TRUE]
         \/ call' = [call EXCEPT ![k].result[c] = r, ![k].stopped = TRUE]
  PROVE  SamePlace(k)
<1>1. call[k] \in CallStates /\ call \in [Calls -> CallStates]
  BY DEF IInv, CallsInv
<1> DEFINE res == [call[k].result EXCEPT ![c] = r]
           one == [call[k] EXCEPT !.result = res, !.suppress = TRUE]
           two == [call[k] EXCEPT !.result = res, !.stopped = TRUE]
<1>2. res \in [Children -> Results]
  BY <1>1 DEF CallStates
<1>3. call' = [call EXCEPT ![k] = one] \/ call' = [call EXCEPT ![k] = two]
  BY <1>1
<1> HIDE DEF res
<1>4. /\ one \in CallStates /\ two \in CallStates
      /\ one.pc = call[k].pc /\ one.plan = call[k].plan /\ one.next = call[k].next
      /\ two.pc = call[k].pc /\ two.plan = call[k].plan /\ two.next = call[k].next
  BY <1>1, <1>2 DEF CallStates
<1> HIDE DEF one, two
<1>5. CASE call' = [call EXCEPT ![k] = one]
  BY <1>1, <1>4, <1>5 DEF SamePlace
<1>6. CASE call' = [call EXCEPT ![k] = two]
  BY <1>1, <1>4, <1>6 DEF SamePlace
<1>7. QED BY <1>3, <1>5, <1>6

\* A job that is over knows nothing, whatever happens to the claim.
LEMMA EndJobOK ==
  ASSUME IInv, StoreInv', \A d \in Children : LifeStep(d),
         NEW k \in Calls, NEW c \in Children, job[k][c].pc # "idle", NEW r \in Results,
         EndJob(k, c, r) \/ EndJobSuppressed(k, c, r),
         \A j \in Calls, d \in Children : ClaimKept(j, d)
  PROVE  CallsInv'
<1> DEFINE to == [pc |-> "done", gen |-> 0]
<1>1. to \in [pc : JobSteps, gen : 0 .. MaxGen] /\ to.pc = "done"
  BY NestedConstants DEF JobSteps
<1>2. job' = [job EXCEPT ![k][c] = to]
  BY DEF EndJob, EndJobSuppressed
<1>3. SamePlace(k)
  BY ResultPlace, FlagPlace DEF EndJob, EndJobSuppressed
<1> HIDE DEF to
<1>4. QED BY <1>1, <1>2, <1>3, OneJob

\* A job that moves to a step that says nothing about the claim.
LEMMA QuietJobOK ==
  ASSUME IInv, StoreInv', \A d \in Children : LifeStep(d),
         NEW k \in Calls, NEW c \in Children, job[k][c].pc # "idle",
         NEW pc \in {"blocked", "refused", "done"}, job' = [job EXCEPT ![k][c].pc = pc],
         SamePlace(k), \A j \in Calls, d \in Children : ClaimKept(j, d)
  PROVE  CallsInv'
<1>1. job[k][c] \in [pc : JobSteps, gen : 0 .. MaxGen]
  BY DEF IInv, CallsInv
<1> DEFINE to == [job[k][c] EXCEPT !.pc = pc]
<1>2. to \in [pc : JobSteps, gen : 0 .. MaxGen] /\ to.pc = pc
  BY <1>1 DEF JobSteps
<1>3. job' = [job EXCEPT ![k][c] = to]
  OBVIOUS
<1> HIDE DEF to
<1>4. to.pc \notin {"bind", "phase", "reject", "run"}
  BY <1>2
<1>5. claim'[c].owner = k /\ claim'[c].gen = to.gen =>
         /\ to.pc \in {"bind", "phase", "reject"} => claim'[c].phase \in {"claimed", "completed"}
         /\ to.pc = "run" => claim'[c].phase \in {"executing", "completed"}
  BY <1>4
<1>6. to \in [pc : JobSteps, gen : 0 .. MaxGen]
  BY <1>2
<1>7. QED BY <1>3, <1>5, <1>6, OneJob

\* A job that goes on with the claim it has.
LEMMA StepJobOK ==
  ASSUME IInv, StoreInv', \A d \in Children : LifeStep(d),
         NEW k \in Calls, NEW c \in Children, job[k][c].pc \in {"bind", "phase", "reject"},
         NEW pc \in {"phase", "reject", "run"}, Step(k, c, pc),
         pc = "run" /\ Owns(k, c) => claim'[c].phase = "executing",
         pc # "run" => ClaimKept(k, c),
         claim'[c].owner = k => claim[c].owner = k /\ claim'[c].gen = claim[c].gen,
         \A j \in Calls, d \in Children : j # k \/ d # c => ClaimKept(j, d)
  PROVE  CallsInv'
<1>1. job[k][c] \in [pc : JobSteps, gen : 0 .. MaxGen] /\ JobOK(k, c)
  BY DEF IInv, CallsInv
<1> DEFINE to == [job[k][c] EXCEPT !.pc = pc]
<1>2. to \in [pc : JobSteps, gen : 0 .. MaxGen] /\ to.pc = pc /\ to.gen = job[k][c].gen
  BY <1>1 DEF JobSteps
<1>3. job' = [job EXCEPT ![k][c] = to]
  BY DEF Step
<1>4. SamePlace(k)
  BY CallFrame DEF Step
<1> HIDE DEF to
<1>5. claim'[c].owner = k /\ claim'[c].gen = to.gen => Owns(k, c)
  BY <1>2 DEF Owns
<1>6. claim'[c].owner = k /\ claim'[c].gen = to.gen =>
         /\ to.pc \in {"bind", "phase", "reject"} => claim'[c].phase \in {"claimed", "completed"}
         /\ to.pc = "run" => claim'[c].phase \in {"executing", "completed"}
  BY <1>1, <1>2, <1>5 DEF JobOK, ClaimKept
<1>7. QED BY <1>2, <1>3, <1>4, <1>6, OneJob

----------------------------------------------------------------------------
(* Steps of a call with a child *)

LEMMA KidFacts ==
  ASSUME IInv, NEW k \in Calls, NEW c \in Kids(k)
  PROVE  /\ call[k].plan \in DOMAIN Plan /\ c \in Children
         /\ job[k][c].pc # "idle" => status[c] # "none"
         /\ status[c] \in Statuses
         /\ edge[c] = "succeeded" => status[c] = "succeeded"
<1>1. call[k].plan \in DOMAIN Plan
  BY DEF IInv, CallsInv, CallStates
<1>2. c \in Children
  BY <1>1, PlanFacts DEF Kids
<1>3. QED BY <1>1, <1>2 DEF IInv, CallsInv, CallOK, JobOK, StoreInv, Settled

LEMMA ResultFacts ==
  /\ "" \in Results /\ Statuses \subseteq Results /\ Failing \subseteq Results
  /\ Ended \subseteq Results /\ "running" \in Results
  /\ {"needs-human", "blocked", "timed_out"} \subseteq Failing
  BY StatusSets DEF Results

LEMMA BlockStep ==
  ASSUME IInv, NEW k \in Calls, NEW c \in Kids(k), Block(k, c)
  PROVE  IInv' /\ \A d \in Children : LifeStep(d)
<1>1. c \in Children
  BY KidFacts
<1>2. /\ job[k][c].pc = "pending" /\ job' = [job EXCEPT ![k][c].pc = "blocked"]
      /\ call' = [call EXCEPT ![k].result[c] = "blocked"]
      /\ UNCHANGED <<claim, budget, spent, launches, now>>
      /\ (CanMove(c, "blocked") /\ Move(c, "blocked")) \/ UNCHANGED <<status, edge>>
  BY DEF Block
<1>3. StoreInv' /\ \A d \in Children : LifeStep(d)
  BY <1>1, <1>2, MarkedOK, StoreFrame, ResultFacts DEF IInv, store
<1>4. SamePlace(k)
  BY <1>1, <1>2, ResultPlace, ResultFacts
<1>5. CallsInv'
  BY <1>1, <1>2, <1>3, <1>4, ClaimsFrame, QuietJobOK
<1>6. QED BY <1>3, <1>5 DEF IInv

LEMMA StoppedEarlyStep ==
  ASSUME IInv, NEW k \in Calls, NEW c \in Kids(k), StoppedEarly(k, c)
  PROVE  IInv' /\ \A d \in Children : LifeStep(d)
<1>1. c \in Children
  BY KidFacts
<1>2. /\ job[k][c].pc = "ready" /\ job' = [job EXCEPT ![k][c].pc = "done"]
      /\ call' = [call EXCEPT ![k].result[c] = "timed_out", ![k].stopped = TRUE]
      /\ UNCHANGED <<claim, budget, spent, launches, now>>
      /\ (CanMove(c, "timed_out") /\ Move(c, "timed_out")) \/ UNCHANGED <<status, edge>>
  BY DEF StoppedEarly
<1>3. StoreInv' /\ \A d \in Children : LifeStep(d)
  BY <1>1, <1>2, MarkedOK, StoreFrame, ResultFacts DEF IInv, store
<1>4. SamePlace(k)
  BY <1>1, <1>2, FlagPlace, ResultFacts
<1>5. CallsInv'
  BY <1>1, <1>2, <1>3, <1>4, ClaimsFrame, QuietJobOK
<1>6. QED BY <1>3, <1>5 DEF IInv

LEMMA ClaimStep ==
  ASSUME IInv, NEW k \in Calls, NEW c \in Kids(k), Claim(k, c)
  PROVE  IInv' /\ \A d \in Children : LifeStep(d)
<1>1. /\ c \in Children /\ job[k][c].pc = "ready" /\ status[c] \in Statuses
      /\ status[c] # "none" /\ UNCHANGED <<launches, now>>
  BY KidFacts DEF Claim, Started
<1>2. PICK r \in Results :
         /\ EndJob(k, c, r)
         /\ \/ UNCHANGED store
            \/ /\ status[c] \notin Ended /\ Move(c, "needs-human")
               /\ UNCHANGED <<claim, budget, spent>>
  BY <1>1, ResultFacts, StatusSets DEF Claim
<1>3. StoreInv' /\ \A d \in Children : LifeStep(d)
  <2>1. CASE UNCHANGED store
    BY <2>1, <1>1, StoreFrame DEF IInv
  <2>2. CASE /\ status[c] \notin Ended /\ Move(c, "needs-human")
             /\ UNCHANGED <<claim, budget, spent>>
    <3>1. "succeeded" \notin {status[c], edge[c]}
      BY <2>2, KidFacts, StatusSets
    <3>2. QED BY <2>2, <3>1, <1>1, MarkOK, ResultFacts DEF IInv
  <2>3. QED BY <1>2, <2>1, <2>2
<1>4. UNCHANGED claim
  BY <1>2 DEF store
<1>5. CallsInv'
  BY <1>1, <1>2, <1>3, <1>4, ClaimsFrame, EndJobOK
<1>6. QED BY <1>3, <1>5 DEF IInv

LEMMA TakeStep ==
  ASSUME IInv, NEW k \in Calls, NEW c \in Kids(k), Take(k, c)
  PROVE  IInv' /\ \A d \in Children : LifeStep(d)
<1>1. /\ c \in Children /\ call[k].plan \in DOMAIN Plan /\ job[k][c].pc = "ready"
      /\ UNCHANGED <<launches, now>>
  BY KidFacts DEF Take, Started
<1>2. CASE Step(k, c, "refused") /\ UNCHANGED store
  <2>1. StoreInv' /\ \A d \in Children : LifeStep(d)
    BY <1>1, <1>2, StoreFrame DEF IInv
  <2>2. UNCHANGED claim /\ SamePlace(k) /\ job' = [job EXCEPT ![k][c].pc = "refused"]
    BY <1>2, CallFrame DEF store, Step
  <2>3. CallsInv'
    BY <1>1, <2>1, <2>2, ClaimsFrame, QuietJobOK
  <2>4. QED BY <2>1, <2>3 DEF IInv
<1>3. CASE ~(Step(k, c, "refused") /\ UNCHANGED store)
  <2>1. PICK gen : gen = claim[c].gen + 1
    OBVIOUS
  <2>2. /\ status[c] \notin Ended /\ TakeoverAllowed(c) /\ SlotFree(k, c) /\ BudgetFree
        /\ claim[c].gen < MaxGen
        /\ claim' = [claim EXCEPT ![c] = [owner |-> k, gen |-> gen, lease |-> now + Lease,
                                          phase |-> "claimed", slot |-> TRUE]]
        /\ budget' = [budget EXCEPT ![c][gen] = "active"]
        /\ spent' = [spent EXCEPT !.reserved = @ + 1]
        /\ Move(c, IF status[c] = "running" THEN "running" ELSE "launching")
        /\ job' = [job EXCEPT ![k][c] = [pc |-> "bind", gen |-> gen]]
        /\ UNCHANGED call
    BY <1>3, <2>1 DEF Take
  <2>3. StoreInv' /\ \A d \in Children : LifeStep(d)
    BY <1>1, <2>1, <2>2, TakeOK DEF IInv
  <2>4. claim[c] \in Claims /\ claim \in [Children -> Claims]
    BY <1>1 DEF IInv, StoreInv
  <2>5. gen \in 0 .. MaxGen
    BY <2>1, <2>2, <2>4, NestedConstants DEF Claims
  <2> DEFINE to == [pc |-> "bind", gen |-> gen]
  <2>6. to \in [pc : JobSteps, gen : 0 .. MaxGen] /\ to.gen = gen /\ to.pc = "bind"
    BY <2>5 DEF JobSteps
  <2>7. job' = [job EXCEPT ![k][c] = to]
    BY <2>2
  <2> HIDE DEF to
  <2>8. /\ claim'[c].owner = k /\ claim'[c].phase = "claimed"
        /\ \A d \in Children \ {c} : claim'[d] = claim[d]
    BY <1>1, <2>2, <2>4
  <2>9. \A j \in Calls, d \in Children : j # k \/ d # c => ClaimKept(j, d)
    BY <2>8 DEF ClaimKept
  <2>10. SamePlace(k)
    BY <2>2, CallFrame
  <2>11. to.pc # "run"
    BY <2>6
  <2>12. CallsInv'
    BY <1>1, <2>3, <2>6, <2>7, <2>8, <2>9, <2>10, <2>11, OneJob
  <2>13. QED BY <2>3, <2>12 DEF IInv
<1>4. QED BY <1>2, <1>3

LEMMA RefuseStep ==
  ASSUME IInv, NEW k \in Calls, NEW c \in Kids(k), Refuse(k, c)
  PROVE  IInv' /\ \A d \in Children : LifeStep(d)
<1>1. c \in Children /\ job[k][c].pc = "refused" /\ UNCHANGED <<launches, now>>
  BY KidFacts DEF Refuse
<1>2. PICK r \in Results :
         /\ EndJob(k, c, r)
         /\ \/ UNCHANGED store
            \/ /\ CanMove(c, "needs-human") /\ Move(c, "needs-human")
               /\ UNCHANGED <<claim, budget, spent>>
  BY ResultFacts, StatusSets DEF Refuse
<1>3. StoreInv' /\ \A d \in Children : LifeStep(d)
  BY <1>1, <1>2, StoreFrame, MarkedOK, ResultFacts DEF IInv
<1>4. UNCHANGED claim
  BY <1>2 DEF store
<1>5. CallsInv'
  BY <1>1, <1>2, <1>3, <1>4, ClaimsFrame, EndJobOK
<1>6. QED BY <1>3, <1>5 DEF IInv

LEMMA BindStep ==
  ASSUME IInv, NEW k \in Calls, NEW c \in Kids(k), Bind(k, c)
  PROVE  IInv' /\ \A d \in Children : LifeStep(d)
<1>1. c \in Children /\ job[k][c].pc = "bind" /\ UNCHANGED <<store, launches, now>>
  BY KidFacts DEF Bind
<1>2. StoreInv' /\ \A d \in Children : LifeStep(d)
  BY <1>1, StoreFrame DEF IInv
<1>3. PICK pc \in {"phase", "reject"} : Step(k, c, pc)
  BY DEF Bind
<1>4. UNCHANGED claim
  BY <1>1 DEF store
<1>5. CallsInv'
  BY <1>1, <1>2, <1>3, <1>4, ClaimsFrame, StepJobOK
<1>6. QED BY <1>2, <1>5 DEF IInv

\* Ends of a child that the claim's owner records.
LEMMA RecordedEnd ==
  ASSUME IInv, NEW k \in Calls, NEW c \in Children, NEW s \in Ended, NEW at,
         job[k][c].pc # "idle", s = "succeeded" => job[k][c].pc = "run",
         CanComplete(k, c, s, at), Complete(c, s), EndJob(k, c, s), UNCHANGED <<launches, now>>
  PROVE  IInv' /\ \A d \in Children : LifeStep(d)
<1>1. JobOK(k, c) /\ ChildOK(c)
  BY DEF IInv, CallsInv, StoreInv
<1>2. s = "succeeded" => claim[c].phase = "executing"
  BY <1>1 DEF CanComplete, HeldAt, JobOK, ChildOK
<1>3. /\ StoreInv' /\ \A d \in Children : LifeStep(d)
      /\ \A d \in Children : /\ claim'[d].owner = claim[d].owner
                             /\ claim'[d].gen = claim[d].gen
                             /\ claim'[d].phase \in {claim[d].phase, "completed"}
  BY <1>2, CompleteOK DEF IInv, CanComplete
<1>4. \A j \in Calls, d \in Children : ClaimKept(j, d)
  BY <1>3 DEF ClaimKept
<1>5. CallsInv'
  BY <1>3, <1>4, EndJobOK, ResultFacts
<1>6. QED BY <1>3, <1>5 DEF IInv

LEMMA RejectStep ==
  ASSUME IInv, NEW k \in Calls, NEW c \in Kids(k), Reject(k, c)
  PROVE  IInv' /\ \A d \in Children : LifeStep(d)
<1>1. c \in Children /\ job[k][c].pc = "reject" /\ UNCHANGED <<launches, now>>
  BY KidFacts DEF Reject
<1>2. CASE /\ CanComplete(k, c, "needs-human", now) /\ Complete(c, "needs-human")
           /\ EndJob(k, c, "needs-human")
  BY <1>1, <1>2, RecordedEnd, StatusSets
<1>3. CASE EndJobSuppressed(k, c, "") /\ UNCHANGED store
  <2>1. StoreInv' /\ \A d \in Children : LifeStep(d)
    BY <1>1, <1>3, StoreFrame DEF IInv
  <2>2. UNCHANGED claim
    BY <1>3 DEF store
  <2>3. CallsInv'
    BY <1>1, <1>3, <2>1, <2>2, ClaimsFrame, EndJobOK, ResultFacts
  <2>4. QED BY <2>1, <2>3 DEF IInv
<1>4. QED BY <1>2, <1>3 DEF Reject

LEMMA UpdatePhaseStep ==
  ASSUME IInv, NEW k \in Calls, NEW c \in Kids(k), UpdatePhase(k, c)
  PROVE  IInv' /\ \A d \in Children : LifeStep(d)
<1>1. c \in Children /\ job[k][c].pc = "phase" /\ UNCHANGED now
  BY KidFacts DEF UpdatePhase
<1>2. CASE /\ Owns(k, c) /\ CanMove(c, "running")
           /\ claim' = [claim EXCEPT ![c].phase = "executing"]
           /\ Move(c, "running")
           /\ launches' = [launches EXCEPT ![c] = @ + 1]
           /\ Step(k, c, "run") /\ UNCHANGED <<budget, spent>>
  <2>1. claim[c].phase \in {"claimed", "completed"}
    BY <1>1, <1>2 DEF IInv, CallsInv, JobOK
  <2>2. StoreInv' /\ \A d \in Children : LifeStep(d)
    BY <1>1, <1>2, <2>1, LaunchOK DEF IInv
  <2>3. claim[c] \in Claims /\ claim \in [Children -> Claims]
    BY <1>1 DEF IInv, StoreInv
  <2>4. /\ claim'[c].owner = claim[c].owner /\ claim'[c].gen = claim[c].gen
        /\ claim'[c].phase = "executing"
        /\ \A d \in Children \ {c} : claim'[d] = claim[d]
    BY <1>1, <1>2, <2>3 DEF Claims
  <2>5. \A j \in Calls, d \in Children : j # k \/ d # c => ClaimKept(j, d)
    BY <1>2, <2>4 DEF ClaimKept, Owns
  <2>6. CallsInv'
    BY <1>1, <1>2, <2>2, <2>4, <2>5, StepJobOK
  <2>7. QED BY <2>2, <2>6 DEF IInv
<1>3. CASE /\ EndJobSuppressed(k, c, "needs-human") \/ EndJob(k, c, "")
           /\ UNCHANGED <<store, launches>>
  <2>1. StoreInv' /\ \A d \in Children : LifeStep(d)
    BY <1>1, <1>3, StoreFrame DEF IInv
  <2>2. UNCHANGED claim
    BY <1>3 DEF store
  <2>3. "" \in Results /\ "needs-human" \in Results
    BY ResultFacts
  <2>4. CallsInv'
    BY <1>1, <1>3, <2>1, <2>2, <2>3, ClaimsFrame, EndJobOK
  <2>5. QED BY <2>1, <2>4 DEF IInv
<1>4. QED BY <1>2, <1>3 DEF UpdatePhase

LEMMA StoreErrorStep ==
  ASSUME IInv, NEW k \in Calls, NEW c \in Kids(k), StoreError(k, c)
  PROVE  IInv' /\ \A d \in Children : LifeStep(d)
<1>1. c \in Children /\ UNCHANGED <<store, launches, now>>
  BY KidFacts DEF StoreError
<1>2. StoreInv' /\ \A d \in Children : LifeStep(d)
  BY <1>1, StoreFrame DEF IInv
<1>3. UNCHANGED claim
  BY <1>1 DEF store
<1>4. "" \in Results
  BY ResultFacts
<1>5. CASE job[k][c].pc # "idle" /\ (EndJob(k, c, "") \/ EndJobSuppressed(k, c, ""))
  <2>1. CallsInv'
    BY <1>1, <1>2, <1>3, <1>4, <1>5, ClaimsFrame, EndJobOK
  <2>2. QED BY <1>2, <2>1 DEF IInv
<1>6. CASE job[k][c].pc = "bind" /\ Step(k, c, "reject")
  <2>1. CallsInv'
    BY <1>1, <1>2, <1>3, <1>6, ClaimsFrame, StepJobOK
  <2>2. QED BY <1>2, <2>1 DEF IInv
<1>7. QED BY <1>5, <1>6 DEF StoreError, Started

LEMMA RenewStep ==
  ASSUME IInv, NEW k \in Calls, NEW c \in Kids(k), Renew(k, c)
  PROVE  IInv' /\ \A d \in Children : LifeStep(d)
<1>1. /\ c \in Children /\ Renewable(c)
      /\ claim' = [claim EXCEPT ![c].lease = now + Lease]
      /\ UNCHANGED <<status, edge, budget, spent, launches, call, job, now>>
  BY KidFacts DEF Renew
<1>2. StoreInv' /\ \A d \in Children : LifeStep(d)
  BY <1>1, RenewOK DEF IInv
<1>3. claim[c] \in Claims /\ claim \in [Children -> Claims]
  BY <1>1 DEF IInv, StoreInv
<1>4. /\ claim'[c].owner = claim[c].owner /\ claim'[c].gen = claim[c].gen
      /\ claim'[c].phase = claim[c].phase
      /\ \A d \in Children \ {c} : claim'[d] = claim[d]
  BY <1>1, <1>3 DEF Claims
<1>5. \A j \in Calls, d \in Children : ClaimKept(j, d)
  BY <1>4 DEF ClaimKept
<1>6. ASSUME NEW j \in Calls PROVE CallOK(j)' /\ \A d \in Children : JobOK(j, d)'
  <2>1. CallOK(j)'
    BY <1>1, <1>2, PlaceOK
  <2>2. ASSUME NEW d \in Children PROVE JobOK(j, d)'
    <3>1. JobOK(j, d)
      BY DEF IInv, CallsInv
    <3>2. QED BY <3>1, <1>1, <1>5, JobFrame
  <2>3. QED BY <2>1, <2>2
<1>7. CallsInv'
  BY <1>1, <1>6 DEF IInv, CallsInv
<1>8. QED BY <1>2, <1>7 DEF IInv

LEMMA FinishStep ==
  ASSUME IInv, NEW k \in Calls, NEW c \in Kids(k), Finish(k, c)
  PROVE  IInv' /\ \A d \in Children : LifeStep(d)
<1>1. c \in Children /\ job[k][c].pc = "run" /\ UNCHANGED <<launches, now>>
  BY KidFacts DEF Finish
<1>2. PICK s \in Outcomes, at \in 0 .. now :
         \/ CanComplete(k, c, s, at) /\ Complete(c, s) /\ EndJob(k, c, s)
         \/ /\ EndJobSuppressed(k, c, IF Owns(k, c) THEN s ELSE "needs-human")
            /\ UNCHANGED store
  BY DEF Finish
<1>3. s \in Ended
  BY StatusSets
<1>4. CASE CanComplete(k, c, s, at) /\ Complete(c, s) /\ EndJob(k, c, s)
  BY <1>1, <1>3, <1>4, RecordedEnd
<1>5. CASE /\ EndJobSuppressed(k, c, IF Owns(k, c) THEN s ELSE "needs-human")
           /\ UNCHANGED store
  <2>1. StoreInv' /\ \A d \in Children : LifeStep(d)
    BY <1>1, <1>5, StoreFrame DEF IInv
  <2>2. UNCHANGED claim
    BY <1>5 DEF store
  <2>3. PICK r \in Results : EndJobSuppressed(k, c, r)
    BY <1>3, <1>5, ResultFacts
  <2>4. CallsInv'
    BY <1>1, <2>1, <2>2, <2>3, ClaimsFrame, EndJobOK
  <2>5. QED BY <2>1, <2>4 DEF IInv
<1>6. QED BY <1>2, <1>4, <1>5

LEMMA JobStepOK ==
  ASSUME IInv, NEW k \in Calls, NEW c \in Kids(k), JobStep(k, c)
  PROVE  IInv' /\ \A d \in Children : LifeStep(d)
  BY BlockStep, StoppedEarlyStep, ClaimStep, TakeStep, RefuseStep, BindStep, RejectStep,
     UpdatePhaseStep, StoreErrorStep, RenewStep, FinishStep DEF JobStep

----------------------------------------------------------------------------
(* Steps of a call *)

\* A call that has returned is like a new one that never starts.
LEMMA FreshCall ==
  /\ NewCall \in CallStates /\ [NewCall EXCEPT !.pc = "over"] \in CallStates
  /\ [NewCall EXCEPT !.pc = "over"].pc = "over" /\ [NewCall EXCEPT !.pc = "over"].plan = Root
  /\ [NewCall EXCEPT !.pc = "over"].next = 1
  /\ NewCall.pc = "new" /\ NewCall.plan = Root /\ NewCall.next = 1
  /\ NoJobs \in [Children -> [pc : JobSteps, gen : 0 .. MaxGen]]
  /\ \A c \in Children : NoJobs[c].pc = "idle"
  /\ Root \in DOMAIN Plan /\ 1 \in 1 .. Len(Plan[Root]) + 1
<1>1. [c \in Children |-> "none"] \in [Children -> Statuses]
  BY StatusSets
<1>2. [c \in Children |-> ""] \in [Children -> Results]
  BY ResultFacts
<1>3. Root \in DOMAIN Plan /\ 0 \in 0 .. MaxGen
  BY NestedConstants
<1>4. Len(Plan[Root]) \in Nat
  BY <1>3, PlanFacts
<1>5. NewCall \in CallStates
  BY <1>1, <1>2, <1>3 DEF NewCall, CallStates
<1>6. NewCall.pc = "new" /\ NewCall.plan = Root /\ NewCall.next = 1
  BY DEF NewCall
<1>7. /\ [NewCall EXCEPT !.pc = "over"] \in CallStates
      /\ [NewCall EXCEPT !.pc = "over"].pc = "over"
      /\ [NewCall EXCEPT !.pc = "over"].plan = NewCall.plan
      /\ [NewCall EXCEPT !.pc = "over"].next = NewCall.next
  BY <1>5 DEF CallStates
<1>8. /\ NoJobs \in [Children -> [pc : JobSteps, gen : 0 .. MaxGen]]
      /\ \A c \in Children : NoJobs[c].pc = "idle"
  BY <1>3 DEF NoJobs, JobSteps
<1>9. QED BY <1>3, <1>4, <1>5, <1>6, <1>7, <1>8

LEMMA ReturnsOK ==
  ASSUME IInv, StoreInv', \A d \in Children : LifeStep(d), NEW k \in Calls, Returns(k),
         \A j \in Calls, d \in Children : ClaimKept(j, d)
  PROVE  CallsInv'
<1> DEFINE to == [NewCall EXCEPT !.pc = "over"]
<1>1. call' = [call EXCEPT ![k] = to] /\ job' = [job EXCEPT ![k] = NoJobs]
  BY DEF Returns
<1>2. /\ to \in CallStates /\ to.pc = "over" /\ to.plan = Root /\ to.next = 1
  BY FreshCall
<1> HIDE DEF to
<1>3. /\ call' \in [Calls -> CallStates]
      /\ job' \in [Calls -> [Children -> [pc : JobSteps, gen : 0 .. MaxGen]]]
      /\ call'[k] = to /\ job'[k] = NoJobs
      /\ \A j \in Calls \ {k} : call'[j] = call[j] /\ job'[j] = job[j]
  BY <1>1, <1>2, FreshCall DEF IInv, CallsInv
<1>4. CallOK(k)'
  BY <1>2, <1>3, FreshCall DEF CallOK
<1>5. \A c \in Children : JobOK(k, c)'
  BY <1>3, FreshCall DEF JobOK
<1>6. QED BY <1>3, <1>4, <1>5, OneCall

\* The next child of the plan, with or without a job for one.
LEMMA AdvanceOK ==
  ASSUME IInv, StoreInv', \A d \in Children : LifeStep(d), NEW k \in Calls, NEW c \in Children,
         NEW r \in Results, call[k].pc \in {"prepare", "propagate"}, More(k), Advance(k, c, r),
         UNCHANGED job \/ job' = [job EXCEPT ![k][c].pc = "pending"],
         \A j \in Calls, d \in Children : ClaimKept(j, d)
  PROVE  CallsInv'
<1>1. /\ call[k] \in CallStates /\ call \in [Calls -> CallStates]
      /\ job \in [Calls -> [Children -> [pc : JobSteps, gen : 0 .. MaxGen]]]
  BY DEF IInv, CallsInv
<1> DEFINE res == [call[k].result EXCEPT ![c] = r]
           rep == [call[k].replay EXCEPT ![c] = "none"]
           to == [call[k] EXCEPT !.next = call[k].next + 1, !.result = res, !.replay = rep]
<1>2. /\ res \in [Children -> Results] /\ rep \in [Children -> Statuses]
      /\ call[k].next + 1 \in Nat
  BY <1>1, StatusSets DEF CallStates
<1>3. call' = [call EXCEPT ![k] = to]
  <2>1. call' = [call EXCEPT ![k] = [call[k] EXCEPT !.next = call[k].next + 1, !.result[c] = r,
                                                    !.replay[c] = "none"]]
    BY DEF Advance
  <2>2. QED BY <2>1, <1>1 DEF CallStates
<1> HIDE DEF res, rep
<1>4. /\ to \in CallStates /\ to.pc = call[k].pc /\ to.plan = call[k].plan
      /\ to.next = call[k].next + 1
  BY <1>1, <1>2 DEF CallStates
<1> HIDE DEF to
<1>5. /\ call' \in [Calls -> CallStates] /\ call'[k] = to
      /\ \A j \in Calls \ {k} : call'[j] = call[j]
  BY <1>1, <1>3, <1>4
<1>6. CallOK(k)'
  BY <1>4, <1>5, PlaceOK
<1>7. /\ job' \in [Calls -> [Children -> [pc : JobSteps, gen : 0 .. MaxGen]]]
      /\ \A j \in Calls \ {k} : job'[j] = job[j]
      /\ \A d \in Children : job'[k][d] = job[k][d] \/ job'[k][d].pc = "pending"
  <2>1. CASE UNCHANGED job
    BY <1>1, <2>1
  <2>2. CASE job' = [job EXCEPT ![k][c].pc = "pending"]
    <3> DEFINE one == [job[k][c] EXCEPT !.pc = "pending"]
    <3>1. one \in [pc : JobSteps, gen : 0 .. MaxGen] /\ one.pc = "pending"
      BY <1>1 DEF JobSteps
    <3>2. job' = [job EXCEPT ![k][c] = one]
      BY <2>2
    <3> HIDE DEF one
    <3>3. QED BY <1>1, <3>1, <3>2
  <2>3. QED BY <2>1, <2>2
<1>8. ASSUME NEW d \in Children PROVE JobOK(k, d)'
  <2>1. JobOK(k, d)
    BY DEF IInv, CallsInv
  <2>2. CASE job'[k][d] = job[k][d]
    BY <2>1, <2>2, <1>4, <1>5, JobFrame
  <2>3. CASE job'[k][d].pc = "pending"
    BY <2>3, <1>4, <1>5 DEF JobOK
  <2>4. QED BY <2>2, <2>3, <1>7
<1>9. QED BY <1>5, <1>6, <1>7, <1>8, OneCall

LEMMA LoadStep ==
  ASSUME IInv, NEW k \in Calls, Load(k)
  PROVE  IInv' /\ \A d \in Children : LifeStep(d)
<1>1. UNCHANGED <<store, launches, now>> /\ UNCHANGED job /\ UNCHANGED claim /\ call[k].pc = "new"
  BY DEF Load, At, store
<1>2. StoreInv' /\ \A d \in Children : LifeStep(d)
  BY <1>1, StoreFrame DEF IInv
<1>3. /\ call[k] \in CallStates /\ call \in [Calls -> CallStates] /\ CallOK(k)
      /\ \A c \in Children : JobOK(k, c)
  BY DEF IInv, CallsInv
<1>4. PICK p \in DOMAIN Plan :
         /\ p # Root => launches[p] > 0
         /\ call' = [call EXCEPT ![k].pc = "persist", ![k].plan = p,
                                 ![k].replay = [c \in Children |->
                                     IF c \in ChildrenOf[p] THEN status[c] ELSE "none"]]
  BY DEF Load
<1> DEFINE rep == [c \in Children |-> IF c \in ChildrenOf[p] THEN status[c] ELSE "none"]
           to == [call[k] EXCEPT !.pc = "persist", !.plan = p, !.replay = rep]
<1>5. rep \in [Children -> Statuses]
  BY StatusSets DEF IInv, StoreInv
<1>6. call' = [call EXCEPT ![k] = to]
  BY <1>3, <1>4
<1> HIDE DEF rep
<1>7. to \in CallStates /\ to.pc = "persist" /\ to.plan = p /\ to.next = call[k].next
  BY <1>3, <1>5 DEF CallStates
<1> HIDE DEF to
<1>8. /\ call' \in [Calls -> CallStates] /\ call'[k] = to
      /\ \A j \in Calls \ {k} : call'[j] = call[j]
  BY <1>3, <1>6, <1>7
<1>9. p # Root => launches'[p] = 1
  <2>1. p # Root => p \in Children
    BY NestedConstants
  <2>2. QED BY <2>1, <1>1, <1>4 DEF IInv, StoreInv, ChildOK
<1>10. CallOK(k)'
  <2>1. to.next = 1 /\ Len(Plan[p]) \in Nat
    BY <1>1, <1>3, <1>7, PlanFacts DEF CallOK
  <2>2. QED BY <2>1, <1>7, <1>8, <1>9 DEF CallOK
<1>11. \A c \in Children : JobOK(k, c)'
  <2>1. \A c \in Children : job'[k][c].pc = "idle"
    BY <1>1, <1>3 DEF JobOK
  <2>2. QED BY <2>1 DEF JobOK
<1>12. job' \in [Calls -> [Children -> [pc : JobSteps, gen : 0 .. MaxGen]]]
  BY <1>1 DEF IInv, CallsInv
<1>13. CallsInv'
  BY <1>1, <1>2, <1>8, <1>10, <1>11, <1>12, ClaimsFrame, OneCall
<1>14. QED BY <1>2, <1>13 DEF IInv

LEMMA PersistStep ==
  ASSUME IInv, NEW k \in Calls, Persist(k)
  PROVE  IInv' /\ \A d \in Children : LifeStep(d)
<1>1. /\ call[k] \in CallStates /\ call \in [Calls -> CallStates] /\ CallOK(k)
      /\ \A c \in Children : JobOK(k, c)
  BY DEF IInv, CallsInv
<1>2. call[k].plan \in DOMAIN Plan
  BY <1>1 DEF CallStates
<1>3. /\ StoreInv' /\ \A d \in Children : LifeStep(d)
      /\ \A d \in Kids(k) : status'[d] # "none"
  BY <1>1, <1>2, PersistOK DEF IInv
<1>4. /\ UNCHANGED claim /\ UNCHANGED job /\ call[k].pc = "persist"
      /\ call' = [call EXCEPT ![k] = [call[k] EXCEPT !.pc = "prepare"]]
  BY DEF Persist, Goto, At
<1> DEFINE to == [call[k] EXCEPT !.pc = "prepare"]
<1>5. /\ to \in CallStates /\ to.pc = "prepare" /\ to.plan = call[k].plan
      /\ to.next = call[k].next
  BY <1>1 DEF CallStates
<1> HIDE DEF to
<1>6. /\ call' \in [Calls -> CallStates] /\ call'[k] = to
      /\ \A j \in Calls \ {k} : call'[j] = call[j]
  BY <1>1, <1>4, <1>5 DEF to
<1>7. CallOK(k)'
  <2>1. call[k].plan # Root => launches'[call[k].plan] = 1
    <3>1. call[k].plan # Root => launches[call[k].plan] = 1 /\ call[k].plan \in Children
      BY <1>1, <1>2, NestedConstants DEF CallOK
    <3>2. QED BY <3>1, <1>3, LifeKeeps DEF IInv
  <2>2. Kids(k)' = Kids(k)
    BY <1>5, <1>6 DEF Kids
  <2>3. QED BY <2>1, <2>2, <1>1, <1>3, <1>5, <1>6 DEF CallOK
<1>8. \A c \in Children : JobOK(k, c)'
  <2>1. \A c \in Children : job'[k][c].pc = "idle"
    BY <1>1, <1>4 DEF JobOK
  <2>2. QED BY <2>1 DEF JobOK
<1>9. job' \in [Calls -> [Children -> [pc : JobSteps, gen : 0 .. MaxGen]]]
  BY <1>4 DEF IInv, CallsInv
<1>10. CallsInv'
  BY <1>3, <1>4, <1>6, <1>7, <1>8, <1>9, ClaimsFrame, OneCall
<1>11. QED BY <1>3, <1>10 DEF IInv

LEMMA CurrentFacts ==
  ASSUME IInv, NEW k \in Calls, More(k)
  PROVE  Current(k) \in Children
<1>1. call[k] \in CallStates /\ CallOK(k)
  BY DEF IInv, CallsInv
<1> PICK p \in DOMAIN Plan : p = call[k].plan
  BY <1>1 DEF CallStates
<1>2. Len(Plan[p]) \in Nat
  BY PlanFacts
<1>3. call[k].next \in 1 .. Len(Plan[p])
  BY <1>1, <1>2 DEF CallOK, More
<1>4. QED BY <1>3, PlanFacts DEF Current

\* A call that returns, or goes on, without a change of the store.
LEMMA QuietCall ==
  ASSUME IInv, NEW k \in Calls, UNCHANGED <<store, launches, now>>,
         \/ Returns(k)
         \/ /\ call[k].pc \in {"prepare", "propagate"} /\ More(k)
            /\ \E c \in Children, r \in Results : 
                  /\ Advance(k, c, r)
                  /\ UNCHANGED job \/ job' = [job EXCEPT ![k][c].pc = "pending"]
  PROVE  IInv' /\ \A d \in Children : LifeStep(d)
<1>1. StoreInv' /\ \A d \in Children : LifeStep(d)
  BY StoreFrame DEF IInv
<1>2. \A j \in Calls, d \in Children : ClaimKept(j, d)
  BY ClaimsFrame DEF store
<1>3. CallsInv'
  BY <1>1, <1>2, ReturnsOK, AdvanceOK
<1>4. QED BY <1>1, <1>3 DEF IInv

LEMMA EndsOK ==
  ASSUME IInv, NEW k \in Calls, NEW c \in Children, NEW s \in Failing,
         call[k].pc \in {"prepare", "propagate"}, More(k), Ends(k, c, s),
         UNCHANGED <<launches, now>>
  PROVE  IInv' /\ \A d \in Children : LifeStep(d)
<1>1. PICK at \in 0 .. now :
         \/ /\ CanPropagate(c, s, at) /\ PropagateTo(c, s) /\ Advance(k, c, s) /\ UNCHANGED job
         \/ Returns(k) /\ UNCHANGED store
  BY DEF Ends
<1>2. CASE Returns(k) /\ UNCHANGED store
  BY <1>2, QuietCall
<1>3. CASE CanPropagate(c, s, at) /\ PropagateTo(c, s) /\ Advance(k, c, s) /\ UNCHANGED job
  <2>1. /\ StoreInv' /\ \A d \in Children : LifeStep(d)
        /\ \A d \in Children : /\ claim'[d].owner = claim[d].owner
                               /\ claim'[d].gen = claim[d].gen
                               /\ claim'[d].phase \in {claim[d].phase, "completed"}
    BY <1>3, PropagateOK DEF IInv
  <2>2. \A j \in Calls, d \in Children : ClaimKept(j, d)
    BY <2>1 DEF ClaimKept
  <2>3. CallsInv'
    BY <1>3, <2>1, <2>2, AdvanceOK, ResultFacts
  <2>4. QED BY <2>1, <2>3 DEF IInv
<1>4. QED BY <1>1, <1>2, <1>3

LEMMA GateStep ==
  ASSUME IInv, NEW k \in Calls, Gate(k)
  PROVE  IInv' /\ \A d \in Children : LifeStep(d)
<1>1. call[k].pc = "prepare" /\ More(k) /\ UNCHANGED <<launches, now>>
  BY DEF Gate, At
<1>2. PICK c \in Children : c = Current(k)
  BY <1>1, CurrentFacts
<1>3. CASE /\ CanMove(c, "needs-human") /\ Move(c, "needs-human")
           /\ Advance(k, c, "needs-human") /\ UNCHANGED <<claim, budget, spent, job>>
  <2>1. StoreInv' /\ \A d \in Children : LifeStep(d)
    BY <1>1, <1>3, MarkedOK, ResultFacts DEF IInv
  <2>2. "needs-human" \in Results
    BY ResultFacts
  <2>3. CallsInv'
    BY <1>1, <1>3, <2>1, <2>2, AdvanceOK, ClaimsFrame
  <2>4. QED BY <2>1, <2>3 DEF IInv
<1>4. CASE Returns(k) /\ UNCHANGED store
  BY <1>1, <1>4, QuietCall
<1>5. QED BY <1>2, <1>3, <1>4 DEF Gate

LEMMA PrepareStep ==
  ASSUME IInv, NEW k \in Calls, Prepare(k)
  PROVE  IInv' /\ \A d \in Children : LifeStep(d)
<1>1. call[k].pc = "prepare" /\ More(k) /\ UNCHANGED <<launches, now>>
  BY DEF Prepare, At
<1>2. PICK c \in Children : c = Current(k)
  BY <1>1, CurrentFacts
<1>3. PICK s \in Statuses : s = call[k].replay[c]
  BY DEF IInv, CallsInv, CallStates
<1>4. \/ Advance(k, c, s) /\ UNCHANGED <<store, job>>
      \/ s \in Failing /\ Ends(k, c, s)
      \/ Advance(k, c, "") /\ job' = [job EXCEPT ![k][c].pc = "pending"] /\ UNCHANGED store
  BY <1>2, <1>3 DEF Prepare
<1>5. CASE Advance(k, c, s) /\ UNCHANGED <<store, job>>
  BY <1>1, <1>5, QuietCall, ResultFacts
<1>6. CASE s \in Failing /\ Ends(k, c, s)
  BY <1>1, <1>6, EndsOK
<1>7. CASE Advance(k, c, "") /\ job' = [job EXCEPT ![k][c].pc = "pending"] /\ UNCHANGED store
  BY <1>1, <1>7, QuietCall, ResultFacts
<1>8. QED BY <1>4, <1>5, <1>6, <1>7

LEMMA PropagateStep ==
  ASSUME IInv, NEW k \in Calls, Propagate(k)
  PROVE  IInv' /\ \A d \in Children : LifeStep(d)
<1>1. call[k].pc = "propagate" /\ More(k) /\ UNCHANGED <<launches, now>>
  BY DEF Propagate, At
<1>2. PICK c \in Children : c = Current(k)
  BY <1>1, CurrentFacts
<1>3. PICK s \in Results : s = call[k].result[c]
  BY DEF IInv, CallsInv, CallStates
<1>4. \/ Advance(k, c, s) /\ UNCHANGED <<store, job>>
      \/ s \in Failing /\ Ends(k, c, s)
  BY <1>2, <1>3 DEF Propagate
<1>5. CASE Advance(k, c, s) /\ UNCHANGED <<store, job>>
  BY <1>1, <1>5, QuietCall
<1>6. CASE s \in Failing /\ Ends(k, c, s)
  BY <1>1, <1>6, EndsOK
<1>7. QED BY <1>4, <1>5, <1>6

LEMMA WaveStep ==
  ASSUME IInv, NEW k \in Calls, Wave(k)
  PROVE  IInv' /\ \A d \in Children : LifeStep(d)
<1>1. UNCHANGED <<store, launches, now>> /\ UNCHANGED claim /\ call[k].pc = "prepare"
  BY DEF Wave, store, Between, InWaves, At
<1>2. StoreInv' /\ \A d \in Children : LifeStep(d)
  BY <1>1, StoreFrame DEF IInv
<1>3. /\ call[k] \in CallStates /\ call \in [Calls -> CallStates] /\ CallOK(k)
      /\ job \in [Calls -> [Children -> [pc : JobSteps, gen : 0 .. MaxGen]]]
      /\ \A c \in Children : JobOK(k, c)
  BY DEF IInv, CallsInv
<1>4. CASE Returns(k)
  BY <1>1, <1>4, QuietCall
<1>5. CASE call' = [call EXCEPT ![k].pc = "propagate", ![k].next = 1] /\ UNCHANGED job
  <2> DEFINE to == [call[k] EXCEPT !.pc = "propagate", !.next = 1]
  <2>1. call' = [call EXCEPT ![k] = to]
    BY <1>3, <1>5
  <2>2. to \in CallStates /\ to.pc = "propagate" /\ to.plan = call[k].plan /\ to.next = 1
    BY <1>3 DEF CallStates
  <2> HIDE DEF to
  <2>3. /\ call' \in [Calls -> CallStates] /\ call'[k] = to
        /\ \A j \in Calls \ {k} : call'[j] = call[j]
    BY <1>3, <2>1, <2>2
  <2>4. CallOK(k)'
    <3>1. call[k].plan \in DOMAIN Plan
      BY <1>3 DEF CallStates
    <3>2. Len(Plan[call[k].plan]) \in Nat
      BY <3>1, PlanFacts
    <3>3. Kids(k)' = Kids(k) /\ UNCHANGED <<launches, status>>
      BY <2>2, <2>3, <1>1 DEF Kids, store
    <3>4. QED BY <3>2, <3>3, <2>2, <2>3, <1>1, <1>3 DEF CallOK
  <2>5. \A c \in Children : JobOK(k, c)'
    BY <1>1, <1>3, <1>5, <2>2, <2>3 DEF JobOK, Owns
  <2>6. job' \in [Calls -> [Children -> [pc : JobSteps, gen : 0 .. MaxGen]]]
    BY <1>3, <1>5
  <2>7. CallsInv'
    BY <1>1, <1>2, <1>5, <2>3, <2>4, <2>5, <2>6, ClaimsFrame, OneCall
  <2>8. QED BY <1>2, <2>7 DEF IInv
<1>6. CASE /\ job' = [job EXCEPT ![k] =
                        [c \in Children |->
                            CASE c \in ReadyNow(k) -> [job[k][c] EXCEPT !.pc = "ready"]
                              [] job[k][c].pc = "blocked" -> [job[k][c] EXCEPT !.pc = "done"]
                              [] OTHER -> job[k][c]]]
           /\ UNCHANGED call
  <2> DEFINE one(c) == CASE c \in ReadyNow(k) -> [job[k][c] EXCEPT !.pc = "ready"]
                         [] job[k][c].pc = "blocked" -> [job[k][c] EXCEPT !.pc = "done"]
                         [] OTHER -> job[k][c]
  <2>1. ASSUME NEW c \in Children
        PROVE  /\ one(c) \in [pc : JobSteps, gen : 0 .. MaxGen]
               /\ one(c) = job[k][c] \/ one(c).pc \in {"ready", "done"}
    <3>1. job[k][c] \in [pc : JobSteps, gen : 0 .. MaxGen]
      BY <1>3
    <3>2. /\ [job[k][c] EXCEPT !.pc = "ready"] \in [pc : JobSteps, gen : 0 .. MaxGen]
          /\ [job[k][c] EXCEPT !.pc = "done"] \in [pc : JobSteps, gen : 0 .. MaxGen]
          /\ [job[k][c] EXCEPT !.pc = "ready"].pc = "ready"
          /\ [job[k][c] EXCEPT !.pc = "done"].pc = "done"
      BY <3>1 DEF JobSteps
    <3>3. QED BY <3>1, <3>2
  <2>2. job' = [job EXCEPT ![k] = [c \in Children |-> one(c)]]
    BY <1>6
  <2> HIDE DEF one
  <2>3. /\ job' \in [Calls -> [Children -> [pc : JobSteps, gen : 0 .. MaxGen]]]
        /\ \A j \in Calls \ {k} : job'[j] = job[j]
        /\ \A c \in Children : job'[k][c] = one(c)
    BY <1>3, <2>1, <2>2
  <2>4. CallOK(k)'
    BY <1>2, <1>6, PlaceOK
  <2>5. ASSUME NEW c \in Children PROVE JobOK(k, c)'
    <3>1. CASE one(c) = job[k][c]
      BY <3>1, <2>3, <1>1, <1>3, <1>6, ClaimsFrame, JobFrame
    <3>2. CASE one(c).pc \in {"ready", "done"}
      BY <3>2, <2>3, <1>1, <1>6 DEF JobOK
    <3>3. QED BY <3>1, <3>2, <2>1
  <2>6. call' \in [Calls -> CallStates] /\ \A j \in Calls : call'[j] = call[j]
    BY <1>3, <1>6
  <2>7. CallsInv'
    BY <1>1, <1>2, <2>3, <2>4, <2>5, <2>6, ClaimsFrame, OneCall
  <2>8. QED BY <1>2, <2>7 DEF IInv
<1>7. QED BY <1>4, <1>5, <1>6 DEF Wave

LEMMA ParentDoneStep ==
  ASSUME IInv, NEW k \in Calls, ParentDone(k)
  PROVE  IInv' /\ \A d \in Children : LifeStep(d)
<1>1. /\ Returns(k) /\ UNCHANGED <<edge, claim, budget, spent, launches, now>>
      /\ \/ UNCHANGED status
         \/ /\ Valid(status[call[k].plan], ParentStatus(k))
            /\ status' = [status EXCEPT ![call[k].plan] = ParentStatus(k)]
  BY DEF ParentDone
<1>2. PICK p \in DOMAIN Plan : p = call[k].plan
  BY DEF IInv, CallsInv, CallStates
<1>3. PICK s \in {"running", "needs-human", "succeeded"} : s = ParentStatus(k)
  BY DEF ParentStatus
<1>4. CASE UNCHANGED status
  BY <1>1, <1>4, QuietCall DEF store
<1>5. CASE Valid(status[p], s) /\ status' = [status EXCEPT ![p] = s]
  <2>1. p \in Children \cup {Root} /\ (p # Root => launches[p] = 1)
    BY <1>2, NestedConstants DEF IInv, CallsInv, CallOK
  <2>2. StoreInv' /\ \A d \in Children : LifeStep(d)
    BY <1>1, <1>5, <2>1, ParentOK DEF IInv
  <2>3. CallsInv'
    BY <1>1, <2>2, ClaimsFrame, ReturnsOK
  <2>4. QED BY <2>2, <2>3 DEF IInv
<1>6. QED BY <1>1, <1>2, <1>3, <1>4, <1>5

LEMMA CallStepOK ==
  ASSUME IInv, NEW k \in Calls, CallStep(k)
  PROVE  IInv' /\ \A d \in Children : LifeStep(d)
  BY LoadStep, PersistStep, GateStep, PrepareStep, WaveStep, PropagateStep, ParentDoneStep
     DEF CallStep

LEMMA TimeStep ==
  ASSUME IInv, Tick
  PROVE  IInv' /\ \A d \in Children : LifeStep(d)
<1>1. StoreInv' /\ \A d \in Children : LifeStep(d)
  BY TickOK DEF IInv
<1>2. UNCHANGED <<claim, call, job>>
  BY DEF Tick, store
<1>3. ASSUME NEW j \in Calls PROVE CallOK(j)' /\ \A c \in Children : JobOK(j, c)'
  <2>1. CallOK(j)'
    BY <1>1, <1>2, PlaceOK
  <2>2. \A c \in Children : JobOK(j, c)'
    BY <1>2, ClaimsFrame, JobFrame DEF IInv, CallsInv
  <2>3. QED BY <2>1, <2>2
<1>4. CallsInv'
  BY <1>2, <1>3 DEF IInv, CallsInv
<1>5. QED BY <1>1, <1>4 DEF IInv

----------------------------------------------------------------------------
(* The invariant holds *)

LEMMA InitOK == ASSUME Init PROVE IInv
<1>1. /\ status = [r \in Children \cup {Root} |-> "none"]
      /\ edge = [c \in Children |-> "none"]
      /\ claim = [c \in Children |-> NoClaim]
      /\ budget = [c \in Children |-> [g \in Gens |-> "none"]]
      /\ spent = [reserved |-> 0, committed |-> 0]
      /\ launches = [c \in Children |-> 0]
      /\ call = [k \in Calls |-> NewCall] /\ job = [k \in Calls |-> NoJobs] /\ now = 0
  BY DEF Init
<1>2. /\ NoClaim \in Claims /\ NoClaim.phase = "none" /\ ~NoClaim.slot /\ NoClaim.gen = 0
  BY NestedConstants DEF NoClaim, Claims, Phases
<1>3. ASSUME NEW s, s # "none" PROVE Cardinality(Rows(s)) = 0
  <2>1. Rows(s) = {}
    BY <1>1, <1>3 DEF Rows
  <2>2. QED BY <2>1, FS_EmptySet
<1>4. Counted
  BY <1>1, <1>3 DEF Counted
<1>5. SlotsWithinLimit
  <2>1. \A S \in SUBSET Children : LiveIn(S) = 0
    <3> TAKE S \in SUBSET Children
    <3>1. {c \in S : SlotLive(c)} = {}
      BY <1>1, <1>2 DEF SlotLive
    <3>2. QED BY <3>1, FS_EmptySet DEF LiveIn
  <2>2. \A r \in DOMAIN Plan : MaxConcurrency[r] \in Nat /\ ChildrenOf[r] \in SUBSET Children
    BY PlanFacts, NestedConstants
  <2>3. Root \in DOMAIN Plan /\ Children \in SUBSET Children
    BY NestedConstants
  <2>4. QED BY <2>1, <2>2, <2>3 DEF SlotsWithinLimit
<1>6. \A c \in Children : ChildOK(c) /\ Settled(c)
  BY <1>1, <1>2 DEF ChildOK, Settled
<1>7. /\ status \in [Children \cup {Root} -> Statuses] /\ edge \in [Children -> Statuses]
      /\ claim \in [Children -> Claims]
      /\ budget \in [Children -> [Gens -> {"none", "active", "committed", "cancelled"}]]
      /\ launches \in [Children -> Nat] /\ now \in 0 .. MaxTime
  BY <1>1, <1>2, StatusSets, NestedConstants
<1>8. spent \in [reserved : Nat, committed : Nat] /\ spent.reserved + spent.committed <= Ceiling
  BY <1>1, NestedConstants
<1>9. StoreInv
  BY <1>4, <1>5, <1>6, <1>7, <1>8 DEF StoreInv
<1>10. /\ call \in [Calls -> CallStates]
       /\ job \in [Calls -> [Children -> [pc : JobSteps, gen : 0 .. MaxGen]]]
  BY <1>1, FreshCall
<1>11. \A k \in Calls : CallOK(k) /\ \A c \in Children : JobOK(k, c)
  BY <1>1, FreshCall DEF CallOK, JobOK
<1>12. QED BY <1>9, <1>10, <1>11 DEF IInv, CallsInv

LEMMA NextOK ==
  ASSUME IInv, [Next]_vars
  PROVE  IInv' /\ \A d \in Children : LifeStep(d)
<1>1. CASE UNCHANGED vars
  <2>1. UNCHANGED <<store, launches, now>> /\ UNCHANGED <<claim, call, job>>
    BY <1>1 DEF vars, store
  <2>2. StoreInv' /\ \A d \in Children : LifeStep(d)
    BY <2>1, StoreFrame DEF IInv
  <2>3. ASSUME NEW j \in Calls PROVE CallOK(j)' /\ \A c \in Children : JobOK(j, c)'
    <3>1. CallOK(j)'
      BY <2>1, <2>2, PlaceOK
    <3>2. \A c \in Children : JobOK(j, c)'
      BY <2>1, ClaimsFrame, JobFrame DEF IInv, CallsInv
    <3>3. QED BY <3>1, <3>2
  <2>4. CallsInv'
    BY <2>1, <2>3 DEF IInv, CallsInv
  <2>5. QED BY <2>2, <2>4 DEF IInv
<1>2. CASE Next
  BY <1>2, CallStepOK, JobStepOK, TimeStep DEF Next
<1>3. QED BY <1>1, <1>2

LEMMA Consequences == ASSUME IInv PROVE TypeOK /\ SlotsWithinLimit /\ BudgetSettled
<1>1. SlotsWithinLimit
  BY DEF IInv, StoreInv
<1>2. BudgetSettled
  <2>1. ASSUME NEW c \in Children
        PROVE  Cardinality({g \in Gens : budget[c][g] = "committed"})
                 = (IF edge[c] = "succeeded" THEN 1 ELSE 0)
    <3>1. Settled(c)
      BY DEF IInv, StoreInv
    <3>2. CASE edge[c] = "succeeded"
      <4>1. PICK g \in Gens : \A h \in Gens : budget[c][h] = "committed" <=> h = g
        BY <3>1, <3>2 DEF Settled
      <4>2. {h \in Gens : budget[c][h] = "committed"} = {g}
        BY <4>1
      <4>3. QED BY <3>2, <4>2, FS_Singleton
    <3>3. CASE edge[c] # "succeeded"
      <4>1. {h \in Gens : budget[c][h] = "committed"} = {}
        BY <3>1, <3>3 DEF Settled
      <4>2. QED BY <3>3, <4>1, FS_EmptySet
    <3>4. QED BY <3>2, <3>3
  <2>2. QED BY <2>1 DEF IInv, StoreInv, Counted, BudgetSettled
<1>3. TypeOK
  <2>1. /\ spent \in [reserved : 0 .. Ceiling, committed : 0 .. Ceiling]
        /\ spent.reserved + spent.committed <= Ceiling
    <3>1. /\ spent \in [reserved : Nat, committed : Nat] /\ Ceiling \in Nat
          /\ spent.reserved + spent.committed <= Ceiling
      BY NestedConstants DEF IInv, StoreInv
    <3>2. spent.reserved \in 0 .. Ceiling /\ spent.committed \in 0 .. Ceiling
      BY <3>1
    <3>3. QED BY <3>1, <3>2
  <2>2. ASSUME NEW k \in Calls
        PROVE  /\ call[k].pc \in {"new", "persist", "prepare", "propagate", "over"}
               /\ call[k].plan \in DOMAIN Plan
               /\ call[k].next \in 1 .. Len(Plan[call[k].plan]) + 1
               /\ call[k].replay \in [Children -> Statuses]
               /\ call[k].result \in [Children -> Results]
               /\ {call[k].stopped, call[k].suppress} \subseteq BOOLEAN
    <3>1. call[k] \in CallStates /\ CallOK(k)
      BY DEF IInv, CallsInv
    <3>2. QED BY <3>1 DEF CallStates, CallOK
  <2>3. QED BY <2>1, <2>2 DEF TypeOK, IInv, StoreInv, CallsInv, Claims
<1>4. QED BY <1>1, <1>2, <1>3

\* The claims, reservations, budgets and jobs of any number of calls keep the
\* inductive invariant, whichever of them stops or loses its lease.
THEOREM NestedInductive == Spec => []IInv
<1>1. Init => IInv
  BY InitOK
<1>2. IInv /\ [Next]_vars => IInv'
  BY NextOK
<1>3. QED BY <1>1, <1>2, PTL DEF Spec

\* Every record keeps its type, and what the hard budget policy has reserved and
\* committed never exceeds its ceiling (reserveNestedSchedulerBudgetTx).
THEOREM NestedTypeCorrect == Spec => []TypeOK
<1>1. IInv => TypeOK
  BY Consequences
<1>2. QED BY <1>1, NestedInductive, PTL

\* The concurrency limit of every plan, and of the tree, holds across calls,
\* crashes and leases that run out (reserveNestedSchedulerResourcesTx and the
\* renewals).
THEOREM ConcurrencyBounded == Spec => []SlotsWithinLimit
<1>1. IInv => SlotsWithinLimit
  BY Consequences
<1>2. QED BY <1>1, NestedInductive, PTL

\* The aggregate of the budget policy equals its reservations, and a reservation
\* is committed for a child exactly when its edge says succeeded, once
\* (reserveNestedSchedulerBudgetTx, releaseNestedSchedulerBudgetTx).
THEOREM BudgetAlwaysSettled == Spec => []BudgetSettled
<1>1. IInv => BudgetSettled
  BY Consequences
<1>2. QED BY <1>1, NestedInductive, PTL

----------------------------------------------------------------------------
(* Refinement of AttemptLife *)

LEMMA LifeStepsAreLife ==
  ASSUME IInv', \A c \in Children : LifeStep(c)
  PROVE  Life!LifeNext
<1> DEFINE life == [c \in Children |-> LifeOf(c)]
<1>1. life' \in [Children -> Life!Lives]
  BY DEF LifeOf, Life!Lives
<1>2. launches' \in [Children -> 0 .. 1]
  <2>1. \A c \in Children : launches'[c] \in 0 .. 1
    BY DEF IInv, StoreInv, ChildOK
  <2>2. launches' \in [Children -> Nat]
    BY DEF IInv, StoreInv
  <2>3. QED BY <2>1, <2>2
<1>3. ASSUME NEW c \in Children
      PROVE  \/ Life!Create(c) \/ Life!Try(c) \/ Life!Succeed(c)
             \/ Life!Retry(c) \/ Life!GiveUp(c) \/ Life!Stay(c)
  <2>1. life[c] = LifeOf(c) /\ life'[c] = LifeOf(c)'
    OBVIOUS
  <2>2. LifeStep(c)
    OBVIOUS
  <2>3. QED
    BY <2>1, <2>2 DEF LifeStep, Life!Create, Life!Try, Life!Succeed, Life!Retry, Life!GiveUp,
                      Life!Stay, Life!Moves
<1>4. QED BY <1>1, <1>2, <1>3 DEF Life!LifeNext

\* The provider of a child is launched at most once, by whichever call, claim
\* generation or takeover, and a child that ended stays ended: every transaction
\* of the scheduler is a step of AttemptLife with a single try for each child.
THEOREM NestedImplementsLife == Spec => ImplementsLife
<1>1. Init => Life!LifeInit
  <2> SUFFICES ASSUME Init PROVE Life!LifeInit
    OBVIOUS
  <2>1. \A c \in Children : LifeOf(c) = "absent"
    BY DEF Init, LifeOf
  <2>2. launches = [d \in Children |-> 0]
    BY DEF Init
  <2>3. QED BY <2>1, <2>2 DEF Life!LifeInit
<1>2. IInv /\ IInv' /\ [Next]_vars => [Life!LifeNext]_(Life!lifeVars)
  BY NextOK, LifeStepsAreLife
<1>3. QED BY <1>1, <1>2, NestedInductive, PTL DEF Spec, ImplementsLife, Life!LifeSpec
=============================================================================
