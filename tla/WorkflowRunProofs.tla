------------------------- MODULE WorkflowRunProofs -------------------------
(***************************************************************************)
(* Proofs about WorkflowRun, for every work graph, every bound on the      *)
(* generations and every set of faults: the stores and the running Execute *)
(* have their types, a claim is closed and an authority row completed in   *)
(* the order of the finalization, one provider of the run is alive at a    *)
(* time, generations are serial, items are launched after what they depend *)
(* on, a success is never run again, and what dies after its pid event is  *)
(* accepted by the next recovery.                                          *)
(*                                                                         *)
(* None of these is inductive alone.  StoreInv says how the durable stores *)
(* stand to each other at every instant, whoever wrote last; RunOK says    *)
(* what the running Execute knows at each of its points: that recovery     *)
(* left nothing half finished, that the attempt at work is the only one    *)
(* that is not settled, and how far its finalization has come.             *)
(***************************************************************************)
EXTENDS WorkflowRun, WorkGraphProofs, NaturalsInduction, WellFoundedInduction, TLAPS

LogFacts ==
    [seen : BOOLEAN, launch : BOOLEAN, pid : BOOLEAN,
     int : {"none", "soft", "service", "hard"}, term : Terms,
     class : {"none", "plain", "misrouted", "service", "hard"},
     last : {"none", "terminal", "success"}]

ClaimStates == {"absent", "open"} \cup ClaimTerminals

Rows == [phase : Phases, done : Terms]

StoreTypes ==
    /\ log \in [Attempts -> LogFacts]
    /\ streamOK \in BOOLEAN
    /\ lastTerm \in [Items -> Terms]
    /\ claims \in [Attempts -> ClaimStates]
    /\ auth \in [Attempts -> Rows]
    /\ proc \in [Attempts -> {"none", "live", "dead"}]
    /\ merged \in SUBSET Attempts

----------------------------------------------------------------------------
(* The durable stores *)

\* What the log, the claim, the authority row and the process of one attempt
\* say of each other, between any two writes.
AttemptOK(k) ==
    /\ claims[k] \in ClaimTerminals => log[k].term = claims[k]
    /\ auth[k].done # "none" => claims[k] = auth[k].done /\ auth[k].phase # "absent"
    /\ claims[k] = "absent" =>
          log[k] = NoEvents /\ auth[k] = NoAuthority /\ proc[k] = "none"
    /\ proc[k] # "none" => log[k].launch
    /\ proc[k] = "live" => log[k].term = "none"
    /\ log[k].pid => log[k].launch /\ auth[k].phase # "absent"
    /\ auth[k].phase = "pid_event_persisted" => log[k].pid
    /\ log[k].int = "hard" => log[k].pid
    /\ log[k].int = "soft" => Resumes
    /\ log[k].term # "none" =>
          log[k].last # "none" /\ (log[k].class = "hard" <=> log[k].int = "hard")
    /\ Integrates /\ log[k].term = "succeeded" => k \in merged

\* Generations are claimed one after the other, from 0.
NoGaps == \A i \in Items, g, h \in Gens :
    h < g /\ claims[<<i, g>>] # "absent" => claims[<<i, h>>] # "absent"

LastSeen == \A i \in Items : lastTerm[i] # "none" => \E g \in Gens : log[<<i, g>>].seen

StoreInv ==
    /\ StoreTypes
    /\ \A k \in Attempts : AttemptOK(k)
    /\ NoGaps
    /\ LastSeen
    /\ GenerationsSerial
    /\ DepsFirst
    /\ SingleProvider

----------------------------------------------------------------------------
(* The running Execute *)

Starting == {"down", "resume", "validate"}

\* Nothing is being attempted: no attempt is left half finished.
Between == {"wave", "pick", "unavailable_event", "alternate"}

\* The provider of the current attempt may be alive.
Spawned == {"persist", "pid_event", "phase", "running"}

\* The current attempt has a terminal to be finalized with.
Closing == {"terminal", "close", "complete"}

Working ==
    {"claim_event", "reroute", "launch_event", "spawn", "returned", "interrupt",
     "accept", "merge", "merge_event"} \cup Spawned \cup Closing

Modes == {"normal", "hard", "prepid"}

Pcs == Starting \cup {"recover"} \cup Between \cup Working

Runs ==
    [pc : Pcs,
     item : Items \cup {NoItem}, gen : Gens, alt : BOOLEAN, ctx : BOOLEAN,
     recov : SUBSET (Attempts \X Modes), todo : SUBSET Items, ev : [Items -> Terms],
     want : [Items -> SUBSET (1 .. MaxGen + 1)], prior : SUBSET Items, fin : Fins]

\* The attempt is over in all three stores.
Settled(k) ==
    \/ claims[k] = "absent"
    \/ /\ claims[k] \in ClaimTerminals
       /\ auth[k] = NoAuthority \/ auth[k].done # "none"

HasSucceeded(i) ==
    \E h \in Gens : claims[<<i, h>>] = "succeeded" /\ (Integrates => <<i, h>> \in merged)

DepsDone(i) == \A p \in HardPreds(Graph, i) : HasSucceeded(p)

\* What an Execute remembers of the stores stays true of them.
MemoryOK(r) ==
    /\ \A i \in Items : r.ev[i] = "succeeded" => HasSucceeded(i)
    /\ \A i \in Items : \A g \in r.want[i] : claims[<<i, g - 1>>] # "absent"
    /\ \A i \in r.todo : DepsDone(i)

\* What recovery froze of an attempt and still holds when its turn comes.
FrozenOK(k, mode) ==
    /\ claims[k] # "absent"
    /\ mode = "hard" /\ log[k].term = "none" => log[k].pid /\ log[k].int \in {"none", "hard"}
    /\ mode = "prepid" => ~log[k].pid

RecoveryOK(r) ==
    /\ r.pc = "resume" => Resumes
    /\ r.pc = "recover" =>
          /\ \A k \in Attempts, mode \in Modes : <<k, mode>> \in r.recov => FrozenOK(k, mode)
          /\ \A k \in Attempts : claims[k] # "absent" /\ Needs(k) =>
                \E mode \in Modes : <<k, mode>> \in r.recov

LiveOK(r) ==
    r.pc \notin Starting =>
       \A k \in Attempts : proc[k] = "live" => k = <<r.item, r.gen>> /\ r.pc \in Spawned

QuietOK(r) == r.pc \in Between => \A k \in Attempts : Settled(k)

\* No other generation of the item has a succeeded terminal.
OthersFailed(i, g) == \A h \in Gens : h # g => log[<<i, h>>].term # "succeeded"

AlternateOK(r) ==
    r.pc \in {"unavailable_event", "alternate"} =>
       /\ r.item \in Items /\ DepsDone(r.item)
       /\ OthersFailed(r.item, r.gen)
       /\ claims[<<r.item, r.gen>>] \in {"failed", "cancelled"}

\* How the finalization may end the attempt k.
FinOK(fin, k) ==
    /\ fin.term \in ClaimTerminals
    /\ fin.term = "succeeded" /\ Integrates => k \in merged
    /\ fin.reroute => fin.term = "failed"

\* How far the current attempt k has come in the stores.
StageOK(r, k) ==
    /\ claims[k] = IF r.pc = "complete" THEN r.fin.term ELSE "open"
    /\ r.pc \notin {"close", "complete"} => log[k].term = "none"
    /\ r.pc = "close" => log[k].term = r.fin.term
    /\ log[k].int \in {"none", "service"}
    /\ r.pc \in {"spawn"} \cup Spawned => log[k].launch
    /\ r.pc = "pid_event" => auth[k].phase # "absent"
    /\ r.pc = "phase" => log[k].pid
    /\ r.pc = "merge_event" => k \in merged
    /\ r.pc \in Closing => FinOK(r.fin, k)

WorkOK(r) ==
    r.pc \in Working =>
       /\ r.item \in Items /\ DepsDone(r.item)
       /\ \A k \in Attempts : k # <<r.item, r.gen>> => Settled(k)
       /\ OthersFailed(r.item, r.gen)
       /\ StageOK(r, <<r.item, r.gen>>)

RunOK(r) ==
    /\ r \in Runs
    /\ MemoryOK(r)
    /\ RecoveryOK(r)
    /\ LiveOK(r)
    /\ QuietOK(r)
    /\ AlternateOK(r)
    /\ WorkOK(r)

IInv == StoreInv /\ RunOK(run)

----------------------------------------------------------------------------
(* Steps of one attempt *)

\* A step of the durable stores that concerns the attempt k alone: what is
\* over stays over, and only a fresh claim, of the next generation and with
\* every other attempt settled, adds one.
AttemptStep(k) ==
    /\ StoreTypes'
    /\ \A m \in Attempts : m # k =>
          log'[m] = log[m] /\ claims'[m] = claims[m] /\ auth'[m] = auth[m] /\ proc'[m] = proc[m]
    /\ merged \subseteq merged'
    /\ claims[k] # "absent" => claims'[k] # "absent"
    /\ claims[k] \in ClaimTerminals => claims'[k] = claims[k]
    /\ claims[k] # "absent" /\ Settled(k) => Settled(k)'
    /\ claims[k] = "absent" /\ claims'[k] # "absent" =>
          /\ k[2] = 0 \/ claims[<<k[1], k[2] - 1>>] # "absent"
          /\ \A m \in Attempts : Settled(m)
    /\ log'[k].launch => log[k].launch \/ DepsDone(k[1])
    /\ log[k].seen => log'[k].seen
    /\ \A i \in Items : lastTerm'[i] = lastTerm[i] \/ (i = k[1] /\ log'[k].seen)
    /\ proc'[k] = "live" => proc[k] = "live" \/ \A m \in Attempts : proc[m] # "live"

LEMMA AttemptFacts ==
  ASSUME NEW k \in Attempts
  PROVE  k[1] \in Items /\ k[2] \in Gens /\ k = <<k[1], k[2]>>
  BY DEF Attempts

LEMMA PairFacts ==
  ASSUME NEW i \in Items, NEW g \in Gens
  PROVE  <<i, g>> \in Attempts
  BY DEF Attempts

\* Nothing that is claimed or has succeeded is forgotten.
Durable ==
    /\ \A m \in Attempts : claims[m] # "absent" => claims'[m] # "absent"
    /\ \A m \in Attempts : claims[m] = "succeeded" => claims'[m] = "succeeded"
    /\ merged \subseteq merged'

LEMMA StepDurable ==
  ASSUME NEW k \in Attempts, AttemptStep(k)
  PROVE  Durable
  BY DEF AttemptStep, Durable, ClaimTerminals

LEMMA PredsAreItems ==
  ASSUME NEW i
  PROVE  HardPreds(Graph, i) \subseteq Items
  BY RunConstants DEF HardPreds, HardEdges, ValidateExecutable, ValidateGraph, Items

LEMMA SuccessDurable ==
  ASSUME Durable
  PROVE  /\ \A i \in Items : HasSucceeded(i) => HasSucceeded(i)'
         /\ \A i \in Items : DepsDone(i) => DepsDone(i)'
<1>1. ASSUME NEW i \in Items, HasSucceeded(i) PROVE HasSucceeded(i)'
  BY <1>1, PairFacts DEF Durable, HasSucceeded
<1>2. ASSUME NEW i \in Items, DepsDone(i) PROVE DepsDone(i)'
  BY <1>1, <1>2, PredsAreItems DEF DepsDone
<1>3. QED BY <1>1, <1>2

\* Such a step keeps the stores in order when it does so for its attempt.
LEMMA StoreStep ==
  ASSUME StoreInv, NEW k \in Attempts, AttemptStep(k), AttemptOK(k)'
  PROVE  StoreInv' /\ Durable
<1>1. Durable
  BY StepDurable
<1>2. /\ k[1] \in Items /\ k[2] \in Gens /\ k = <<k[1], k[2]>>
      /\ \A i \in Items, g \in Gens : <<i, g>> \in Attempts
  BY AttemptFacts, PairFacts
<1>3. \A m \in Attempts : AttemptOK(m)'
  <2>1. ASSUME NEW m \in Attempts, m # k PROVE AttemptOK(m)'
    BY <2>1 DEF StoreInv, AttemptStep, AttemptOK
  <2>2. QED BY <2>1
<1>4. NoGaps'
  <2> SUFFICES ASSUME NEW i \in Items, NEW g \in Gens, NEW h \in Gens,
                      h < g, claims'[<<i, g>>] # "absent"
               PROVE  claims'[<<i, h>>] # "absent"
    BY DEF NoGaps
  <2>1. CASE claims[<<i, g>>] # "absent"
    BY <1>1, <1>2, <2>1 DEF StoreInv, NoGaps, Durable
  <2>2. CASE claims[<<i, g>>] = "absent"
    <3>1. <<i, g>> = k
      BY <1>2, <2>2 DEF AttemptStep
    <3>2. g # 0 /\ g \in Nat /\ h \in Nat /\ (h = g - 1 \/ h < g - 1) /\ g - 1 \in Gens
      BY RunConstants DEF Gens
    <3>3. claims[<<i, g - 1>>] # "absent"
      BY <2>2, <3>1, <3>2 DEF AttemptStep
    <3>4. claims[<<i, h>>] # "absent"
      BY <3>2, <3>3 DEF StoreInv, NoGaps
    <3>5. QED BY <1>1, <1>2, <3>4 DEF Durable
  <2>3. QED BY <2>1, <2>2
<1>5. LastSeen'
  BY <1>2 DEF StoreInv, LastSeen, AttemptStep
<1>6. GenerationsSerial'
  <2> SUFFICES ASSUME NEW i \in Items, NEW g \in Gens, NEW h \in Gens,
                      h < g, claims'[<<i, g>>] # "absent", claims'[<<i, h>>] # "absent"
               PROVE  Settled(<<i, h>>)'
    BY DEF GenerationsSerial, Settled
  <2>1. CASE claims[<<i, g>>] # "absent" /\ <<i, h>> = k
    <3>1. claims[k] # "absent"
      BY <1>2, <2>1 DEF StoreInv, NoGaps
    <3>2. Settled(k)
      BY <1>2, <2>1, <3>1 DEF StoreInv, GenerationsSerial, Settled
    <3>3. QED BY <2>1, <3>1, <3>2 DEF AttemptStep
  <2>2. CASE claims[<<i, g>>] # "absent" /\ <<i, h>> # k
    <3>1. claims[<<i, h>>] # "absent"
      BY <1>2, <2>2 DEF StoreInv, NoGaps
    <3>2. Settled(<<i, h>>)
      BY <1>2, <2>2, <3>1 DEF StoreInv, GenerationsSerial, Settled
    <3>3. QED BY <1>2, <2>2, <3>2 DEF AttemptStep, Settled
  <2>3. CASE claims[<<i, g>>] = "absent"
    <3>1. <<i, g>> = k /\ <<i, h>> # k
      <4>1. <<i, g>> = k
        BY <1>2, <2>3 DEF AttemptStep
      <4>2. h # g
        BY RunConstants DEF Gens
      <4>3. QED BY <4>1, <4>2
    <3>2. Settled(<<i, h>>)
      BY <1>2, <2>3, <3>1 DEF AttemptStep
    <3>3. QED BY <1>2, <3>1, <3>2 DEF AttemptStep, Settled
  <2>4. QED BY <2>1, <2>2, <2>3
<1>7. DepsFirst'
  <2> SUFFICES ASSUME NEW i \in Items, NEW g \in Gens, log'[<<i, g>>].launch
               PROVE  DepsDone(i)'
    BY DEF DepsFirst, DepsDone, HasSucceeded
  <2>1. log[<<i, g>>].launch \/ DepsDone(i)
    BY <1>2 DEF AttemptStep
  <2>2. DepsDone(i)
    BY <2>1 DEF StoreInv, DepsFirst, DepsDone, HasSucceeded
  <2>3. QED BY <1>1, <2>2, SuccessDurable
<1>8. SingleProvider'
  BY DEF StoreInv, SingleProvider, AttemptStep
<1>9. QED BY <1>1, <1>3, <1>4, <1>5, <1>6, <1>7, <1>8 DEF StoreInv, AttemptStep

----------------------------------------------------------------------------
(* Appended events *)

Kinds ==
    {"launch", "pid", "interrupt", "terminal", "reuse", "integrate", "claim", "reroute",
     "model_unavailable"}

\* The event is one the code appends of attempt k, at a point where it may.
EventOK(k, kind, class, term) ==
    /\ kind \in Kinds
    /\ claims[k] # "absent"
    /\ kind = "launch" => DepsDone(k[1])
    /\ kind = "pid" => log[k].launch /\ auth[k].phase # "absent"
    /\ kind = "interrupt" =>
          /\ log[k].term = "none" /\ class \in {"soft", "service", "hard"}
          /\ class = "soft" => Resumes
          /\ class = "hard" => log[k].pid
    /\ kind = "terminal" =>
          /\ term \in ClaimTerminals /\ class \in {"none", "plain", "misrouted", "service", "hard"}
          /\ log[k].term = "none" /\ proc[k] # "live"
          /\ class = "hard" <=> log[k].int = "hard"
          /\ Integrates /\ term = "succeeded" => k \in merged

LEMMA RecordType ==
  ASSUME NEW f \in LogFacts, NEW kind \in Kinds, NEW class, NEW term,
         kind = "interrupt" => class \in {"soft", "service", "hard"},
         kind = "terminal" => /\ class \in {"none", "plain", "misrouted", "service", "hard"}
                              /\ term \in ClaimTerminals
  PROVE  Record(f, kind, class, term) \in LogFacts
<1>1. /\ f.launch \in BOOLEAN /\ f.pid \in BOOLEAN
      /\ f.int \in {"none", "soft", "service", "hard"} /\ f.term \in Terms
      /\ f.class \in {"none", "plain", "misrouted", "service", "hard"}
      /\ f.last \in {"none", "terminal", "success"}
  BY DEF LogFacts
<1>2. (f.launch \/ kind = "launch") \in BOOLEAN /\ (f.pid \/ kind = "pid") \in BOOLEAN
  OBVIOUS
<1>3. (CASE kind = "terminal" -> "terminal"
         [] kind \in {"reuse", "integrate"} -> "success"
         [] OTHER -> f.last) \in {"none", "terminal", "success"}
  BY <1>1
<1>4. QED BY <1>1, <1>2, <1>3 DEF Record, LogFacts, Terms

\* What an appended event changes.
LEMMA WrittenFacts ==
  ASSUME StoreInv, NEW k \in Attempts, NEW kind, NEW class, NEW term,
         EventOK(k, kind, class, term), Written(k, kind, class, term)
  PROVE  /\ log' \in [Attempts -> LogFacts] /\ streamOK' \in BOOLEAN
         /\ lastTerm' \in [Items -> Terms]
         /\ \A m \in Attempts : m # k => log'[m] = log[m]
         /\ log'[k] = Record(log[k], kind, class, term)
         /\ \A i \in Items : lastTerm'[i] = lastTerm[i] \/ i = k[1]
<1>1. log[k] \in LogFacts /\ k[1] \in Items
  BY AttemptFacts DEF StoreInv, StoreTypes
<1>2. Record(log[k], kind, class, term) \in LogFacts
  BY <1>1, RecordType DEF EventOK
<1>3. (CASE kind = "terminal" -> term
         [] kind \in {"reuse", "integrate"} -> "succeeded"
         [] OTHER -> lastTerm[k[1]]) \in Terms
  <2>1. lastTerm[k[1]] \in Terms
    BY <1>1 DEF StoreInv, StoreTypes
  <2>2. QED BY <2>1 DEF EventOK, Terms, ClaimTerminals
<1>4. /\ log' = [log EXCEPT ![k] = Record(log[k], kind, class, term)]
      /\ streamOK' = (streamOK /\ MayFollow(k, kind, class))
  BY DEF Written
<1>5. PICK t \in Terms : lastTerm' = [lastTerm EXCEPT ![k[1]] = t]
  BY <1>3 DEF Written
<1>6. log \in [Attempts -> LogFacts] /\ lastTerm \in [Items -> Terms]
  BY DEF StoreInv, StoreTypes
<1>7. QED BY <1>1, <1>2, <1>4, <1>5, <1>6

\* The facts of the attempt after the event.
LEMMA RecordFacts ==
  ASSUME NEW f, NEW kind, NEW class, NEW term
  PROVE  LET r == Record(f, kind, class, term) IN
         /\ r.seen
         /\ r.launch <=> (f.launch \/ kind = "launch")
         /\ r.pid <=> (f.pid \/ kind = "pid")
         /\ r.int = IF kind = "interrupt" THEN class ELSE f.int
         /\ r.term = IF kind = "terminal" THEN term ELSE f.term
         /\ r.class = IF kind = "terminal" THEN class ELSE f.class
         /\ kind = "terminal" => r.last # "none"
         /\ f.last # "none" => r.last # "none"
  BY DEF Record

\* An event appended where it may be keeps the stores in order.
LEMMA WrittenOK ==
  ASSUME StoreInv, NEW k \in Attempts, NEW kind, NEW class, NEW term,
         EventOK(k, kind, class, term), Written(k, kind, class, term),
         UNCHANGED <<claims, auth, proc, merged>>
  PROVE  /\ StoreInv' /\ Durable
         /\ \A m \in Attempts : m # k => log'[m] = log[m]
         /\ log'[k] = Record(log[k], kind, class, term)
<1>1. /\ log' \in [Attempts -> LogFacts] /\ streamOK' \in BOOLEAN
      /\ lastTerm' \in [Items -> Terms]
      /\ \A m \in Attempts : m # k => log'[m] = log[m]
      /\ log'[k] = Record(log[k], kind, class, term)
      /\ \A i \in Items : lastTerm'[i] = lastTerm[i] \/ i = k[1]
  BY WrittenFacts
<1>2. /\ log'[k].seen
      /\ log'[k].launch <=> (log[k].launch \/ kind = "launch")
      /\ log'[k].pid <=> (log[k].pid \/ kind = "pid")
      /\ log'[k].int = IF kind = "interrupt" THEN class ELSE log[k].int
      /\ log'[k].term = IF kind = "terminal" THEN term ELSE log[k].term
      /\ log'[k].class = IF kind = "terminal" THEN class ELSE log[k].class
      /\ kind = "terminal" => log'[k].last # "none"
      /\ log[k].last # "none" => log'[k].last # "none"
  BY <1>1, RecordFacts
<1>3. AttemptStep(k)
  <2>1. StoreTypes'
    BY <1>1 DEF StoreInv, StoreTypes
  <2>2. log'[k].launch => log[k].launch \/ DepsDone(k[1])
    BY <1>2 DEF EventOK
  <2>3. Settled(k) => Settled(k)'
    BY DEF Settled
  <2>4. QED BY <1>1, <1>2, <2>1, <2>2, <2>3 DEF AttemptStep
<1>4. AttemptOK(k)'
  <2>1. AttemptOK(k) /\ EventOK(k, kind, class, term)
    BY DEF StoreInv
  <2>2. /\ claims'[k] = claims[k] /\ auth'[k] = auth[k] /\ proc'[k] = proc[k]
        /\ merged' = merged
    OBVIOUS
  <2>3. kind = "terminal" => claims[k] \notin ClaimTerminals /\ term # "none"
    BY <2>1 DEF AttemptOK, EventOK, ClaimTerminals
  <2>4. QED BY <1>2, <2>1, <2>2, <2>3 DEF AttemptOK, EventOK
<1>5. QED BY <1>1, <1>3, <1>4, StoreStep

----------------------------------------------------------------------------
(* The running Execute *)

LEMMA GensFacts == /\ 0 \in Gens /\ MaxGen \in Nat
                   /\ \A g \in Gens : g \in Nat /\ g + 1 \in 1 .. MaxGen + 1
  BY RunConstants DEF Gens

LEMMA DownType == Down \in Runs
<1>1. NoFin \in Fins
  BY DEF NoFin, Fins, Terms
<1>2. [i \in Items |-> "none"] \in [Items -> Terms]
  BY DEF Terms
<1>3. [i \in Items |-> {}] \in [Items -> SUBSET (1 .. MaxGen + 1)]
  OBVIOUS
<1>4. "down" \in Pcs
  BY DEF Pcs, Starting
<1>5. QED BY <1>1, <1>2, <1>3, <1>4, GensFacts DEF Down, Runs

\* An Execute that is not running needs nothing.
LEMMA DownOK ==
  ASSUME run' = Down
  PROVE  RunOK(run)'
<1>1. run' \in Runs
  BY DownType
<1>2. /\ run'.pc = "down" /\ run'.ev = [i \in Items |-> "none"]
      /\ run'.want = [i \in Items |-> {}] /\ run'.todo = {}
  BY DEF Down
<1>3. MemoryOK(run)'
  BY <1>2 DEF MemoryOK
<1>4. QED BY <1>1, <1>2, <1>3
          DEF RunOK, RecoveryOK, LiveOK, QuietOK, AlternateOK, WorkOK, Starting, Between,
              Working, Spawned, Closing

\* The Execute goes on with the same attempt and the same memory.
SameAttempt(r) ==
    /\ r \in Runs
    /\ r.item = run.item /\ r.gen = run.gen
    /\ r.ev = run.ev /\ r.want = run.want /\ r.todo = run.todo

LEMMA GoFacts ==
  ASSUME run \in Runs, NEW p \in Pcs
  PROVE  SameAttempt(Go(p)) /\ Go(p).pc = p /\ Go(p).fin = run.fin
  BY DEF SameAttempt, Go, Runs

LEMMA FinalizeFacts ==
  ASSUME run \in Runs, NEW fin \in Fins
  PROVE  SameAttempt(Finalize(fin)) /\ Finalize(fin).pc = "terminal" /\ Finalize(fin).fin = fin
<1>1. "terminal" \in Pcs
  BY DEF Pcs, Working, Closing
<1>2. QED BY <1>1 DEF SameAttempt, Finalize, Runs

LEMMA FailureFacts ==
  ASSUME run \in Runs
  PROVE  /\ Failing \in Fins /\ Stopping \in Fins /\ PidFailing \in Fins /\ Succeeding \in Fins
         /\ Failing.term = "failed" /\ Stopping.term = "failed" /\ PidFailing.term = "failed"
         /\ Succeeding.term = "succeeded" /\ ~Succeeding.reroute
  BY DEF Failing, Stopping, PidFailing, Succeeding, NoFin, Fins, Terms, ClaimTerminals, Runs

\* The generation before a wanted one is a generation.
LEMMA WantedFacts ==
  ASSUME run \in Runs
  PROVE  \A i \in Items : \A g \in run.want[i] : <<i, g - 1>> \in Attempts
<1>1. ASSUME NEW i \in Items, NEW g \in run.want[i] PROVE <<i, g - 1>> \in Attempts
  <2>1. g \in 1 .. MaxGen + 1
    BY <1>1 DEF Runs
  <2>2. g - 1 \in Gens
    BY <2>1, RunConstants DEF Gens
  <2>3. QED BY <2>2, PairFacts
<1>2. QED BY <1>1

LEMMA MemoryFrame ==
  ASSUME RunOK(run), Durable, run' \in Runs,
         run'.ev = run.ev, run'.want = run.want, run'.todo \subseteq run.todo
  PROVE  MemoryOK(run)'
<1>1. MemoryOK(run) /\ run \in Runs
  BY DEF RunOK
<1>2. /\ \A i \in Items : HasSucceeded(i) => HasSucceeded(i)'
      /\ \A i \in Items : DepsDone(i) => DepsDone(i)'
  BY SuccessDurable
<1>3. \A i \in Items : \A g \in run.want[i] : <<i, g - 1>> \in Attempts
  BY <1>1, WantedFacts
<1>4. run.todo \subseteq Items
  BY <1>1 DEF Runs
<1>5. \A i \in Items : run'.ev[i] = "succeeded" => HasSucceeded(i)'
  BY <1>1, <1>2 DEF MemoryOK
<1>6. \A i \in Items : \A g \in run'.want[i] : claims'[<<i, g - 1>>] # "absent"
  BY <1>1, <1>3 DEF MemoryOK, Durable
<1>7. \A i \in run'.todo : DepsDone(i)'
  BY <1>1, <1>2, <1>4 DEF MemoryOK
<1>8. QED BY <1>5, <1>6, <1>7 DEF MemoryOK

\* The points of a running attempt are no others.
LEMMA PcFacts ==
  /\ Working \cap (Starting \cup {"recover"} \cup Between) = {}
  /\ Between \cap (Starting \cup {"recover"}) = {} /\ "recover" \notin Starting
  /\ Working \subseteq Pcs /\ Between \subseteq Pcs /\ Starting \subseteq Pcs /\ "recover" \in Pcs
  /\ Spawned \subseteq Working /\ Closing \subseteq Working
  BY DEF Working, Starting, Between, Spawned, Closing, Pcs

\* What the Execute knows while an attempt is at work.
LEMMA WorkFacts ==
  ASSUME IInv, run.pc \in Working
  PROVE  /\ run \in Runs /\ StoreInv /\ K \in Attempts
         /\ K = <<run.item, run.gen>> /\ run.item \in Items /\ run.gen \in Gens
         /\ DepsDone(run.item) /\ StageOK(run, K) /\ claims[K] # "absent" /\ AttemptOK(K)
         /\ \A k \in Attempts : proc[k] = "live" => k = K /\ run.pc \in Spawned
<1>1. run \in Runs /\ WorkOK(run) /\ LiveOK(run) /\ StoreInv
  BY DEF IInv, RunOK
<1>2. /\ run.item \in Items /\ DepsDone(run.item) /\ K = <<run.item, run.gen>>
      /\ StageOK(run, K) /\ run.gen \in Gens
  BY <1>1 DEF WorkOK, K, Runs
<1>3. K \in Attempts
  BY <1>2, PairFacts
<1>4. claims[K] # "absent"
  BY <1>2, PcFacts DEF StageOK, FinOK, ClaimTerminals, Closing
<1>5. \A k \in Attempts : proc[k] = "live" => k = K /\ run.pc \in Spawned
  BY <1>1, <1>2, PcFacts DEF LiveOK
<1>6. QED BY <1>1, <1>2, <1>3, <1>4, <1>5 DEF StoreInv

\* A step from one point of the attempt to the next: only the attempt's own
\* part of the stores is left to look at.
LEMMA WorkStep ==
  ASSUME IInv, run.pc \in Working, StoreInv', Durable,
         SameAttempt(run'), run'.pc \in Working,
         \A m \in Attempts : m # K =>
            /\ log'[m].term = log[m].term /\ claims'[m] = claims[m] /\ auth'[m] = auth[m]
            /\ proc'[m] = proc[m],
         proc'[K] = "live" => run'.pc \in Spawned,
         StageOK(run, K)'
  PROVE  IInv'
<1>1. /\ run' \in Runs /\ run'.item = run.item /\ run'.gen = run.gen
      /\ run'.ev = run.ev /\ run'.want = run.want /\ run'.todo = run.todo
  BY DEF SameAttempt
<1>2. /\ run \in Runs /\ StoreInv /\ K \in Attempts
      /\ K = <<run.item, run.gen>> /\ run.item \in Items /\ run.gen \in Gens
      /\ DepsDone(run.item)
      /\ \A k \in Attempts : proc[k] = "live" => k = K /\ run.pc \in Spawned
  BY WorkFacts
<1>3. K' = K
  BY <1>1 DEF K
<1>4. MemoryOK(run)'
  BY <1>1, MemoryFrame DEF IInv
<1>5. LiveOK(run)'
  BY <1>1, <1>2, <1>3 DEF LiveOK
<1>6. WorkOK(run)'
  <2>1. DepsDone(run.item)'
    <3>1. PICK i \in Items : i = run.item
      BY <1>2
    <3>2. DepsDone(i)'
      BY <1>2, <3>1, SuccessDurable
    <3>3. QED BY <1>1, <3>1, <3>2 DEF DepsDone
  <2>2. WorkOK(run)
    BY DEF IInv, RunOK
  <2>3. \A k \in Attempts : k # K => Settled(k)'
    BY <1>2, <2>2 DEF WorkOK, Settled
  <2>4. \A h \in Gens : h # run.gen => log'[<<run.item, h>>].term # "succeeded"
    <3>1. ASSUME NEW h \in Gens, h # run.gen
          PROVE  log'[<<run.item, h>>].term # "succeeded"
      <4>1. <<run.item, h>> \in Attempts /\ <<run.item, h>> # K
        BY <1>2, <3>1, PairFacts
      <4>2. QED BY <2>2, <3>1, <4>1 DEF WorkOK, OthersFailed
    <3>2. QED BY <3>1
  <2>5. OthersFailed(run.item, run.gen)'
    BY <1>1, <2>4 DEF OthersFailed
  <2>6. QED BY <1>1, <1>2, <1>3, <2>1, <2>3, <2>5 DEF WorkOK, K
<1>7. RecoveryOK(run)' /\ QuietOK(run)' /\ AlternateOK(run)'
  BY PcFacts DEF RecoveryOK, QuietOK, AlternateOK, Between, Starting
<1>8. QED BY <1>1, <1>4, <1>5, <1>6, <1>7 DEF IInv, RunOK

\* Steps that leave the stores alone, or those of every other attempt.
LEMMA StoreFrame ==
  ASSUME StoreInv, UNCHANGED <<eventLog, claims, auth, world>>
  PROVE  StoreInv' /\ Durable
<1>1. UNCHANGED <<log, streamOK, lastTerm, claims, auth, proc, merged>>
  BY DEF eventLog, world
<1>2. Durable
  BY <1>1 DEF Durable
<1>3. \A k \in Attempts : AttemptOK(k)'
  BY <1>1 DEF StoreInv, AttemptOK
<1>4. StoreTypes' /\ NoGaps' /\ LastSeen'
  BY <1>1 DEF StoreInv, StoreTypes, NoGaps, LastSeen
<1>5. GenerationsSerial' /\ DepsFirst' /\ SingleProvider'
  BY <1>1 DEF StoreInv, GenerationsSerial, DepsFirst, SingleProvider
<1>6. QED BY <1>2, <1>3, <1>4, <1>5 DEF StoreInv

\* The stores of every attempt but the current one are as they were.
OthersSame ==
    \A m \in Attempts : m # K =>
       /\ log'[m].term = log[m].term /\ claims'[m] = claims[m] /\ auth'[m] = auth[m]
       /\ proc'[m] = proc[m]

\* The attempt goes to its finalization.
LEMMA ToTerminal ==
  ASSUME IInv, run.pc \in Working \ {"close", "complete"}, StoreInv', Durable, OthersSame,
         NEW fin \in Fins, run' = Finalize(fin),
         fin.term \in ClaimTerminals,
         fin.term = "succeeded" /\ Integrates => K \in merged',
         fin.reroute => fin.term = "failed",
         claims'[K] = "open", log'[K].term = "none", log'[K].int \in {"none", "service"},
         proc'[K] # "live"
  PROVE  IInv'
<1>1. run \in Runs
  BY WorkFacts
<1>2. SameAttempt(run') /\ run'.pc = "terminal" /\ run'.fin = fin
  BY <1>1, FinalizeFacts
<1>3. K' = K
  BY <1>2 DEF SameAttempt, K
<1>4. StageOK(run, K)'
  BY <1>2, <1>3 DEF StageOK, FinOK, Spawned
<1>5. run'.pc \in Working
  BY <1>2, PcFacts DEF Closing
<1>6. QED BY <1>2, <1>4, <1>5, WorkStep DEF OthersSame

\* The attempt goes to a point before its finalization.
LEMMA ToPoint ==
  ASSUME IInv, run.pc \in Working \ {"close", "complete"}, StoreInv', Durable, OthersSame,
         NEW p \in Working \ Closing, run' = Go(p),
         claims'[K] = "open", log'[K].term = "none", log'[K].int \in {"none", "service"},
         p \in {"spawn"} \cup Spawned => log'[K].launch,
         p = "pid_event" => auth'[K].phase # "absent",
         p = "phase" => log'[K].pid,
         p = "merge_event" => K \in merged',
         proc'[K] = "live" => p \in Spawned
  PROVE  IInv'
<1>1. run \in Runs /\ p \in Pcs
  BY WorkFacts, PcFacts
<1>2. SameAttempt(run') /\ run'.pc = p
  BY <1>1, GoFacts
<1>3. K' = K
  BY <1>2 DEF SameAttempt, K
<1>4. p \notin {"terminal", "close", "complete"} /\ p \in Working
  BY DEF Closing
<1>5. StageOK(run, K)'
  BY <1>2, <1>3, <1>4 DEF StageOK, Closing
<1>6. QED BY <1>2, <1>4, <1>5, WorkStep DEF OthersSame

\* The current attempt before its terminal is in the log.
LEMMA EarlyFacts ==
  ASSUME IInv, run.pc \in Working \ {"close", "complete"}
  PROVE  /\ run \in Runs /\ StoreInv /\ K \in Attempts /\ K[1] = run.item /\ DepsDone(K[1])
         /\ claims[K] = "open" /\ log[K].term = "none" /\ log[K].int \in {"none", "service"}
         /\ AttemptOK(K) /\ auth[K].done = "none"
         /\ run.pc \notin Spawned => \A m \in Attempts : proc[m] # "live"
<1>1. /\ run \in Runs /\ StoreInv /\ K \in Attempts /\ K = <<run.item, run.gen>>
      /\ DepsDone(run.item) /\ StageOK(run, K) /\ AttemptOK(K)
      /\ \A k \in Attempts : proc[k] = "live" => k = K /\ run.pc \in Spawned
  BY WorkFacts
<1>2. K[1] = run.item
  BY <1>1
<1>3. DepsDone(K[1])
  BY <1>1, <1>2
<1>4. claims[K] = "open" /\ log[K].term = "none" /\ log[K].int \in {"none", "service"}
  BY <1>1 DEF StageOK
<1>5. auth[K] \in Rows
  BY <1>1 DEF StoreInv, StoreTypes
<1>6. auth[K].done = "none"
  BY <1>1, <1>4, <1>5 DEF AttemptOK, Rows, Terms, ClaimTerminals
<1>7. QED BY <1>1, <1>2, <1>3, <1>4, <1>6

\* A linkage event of the current attempt, written or not.
LEMMA LinkageEvent ==
  ASSUME IInv, run.pc \in Working \ ({"close", "complete"} \cup Spawned), NEW kind, NEW class, NEW term,
         kind \in {"claim", "reroute", "launch", "integrate"}
            \/ (kind = "interrupt" /\ class = "service"),
         Written(K, kind, class, term) \/ UNCHANGED eventLog,
         UNCHANGED <<claims, auth, world>>
  PROVE  /\ StoreInv' /\ Durable /\ OthersSame
         /\ claims'[K] = "open" /\ log'[K].term = "none" /\ log'[K].int \in {"none", "service"}
         /\ proc'[K] # "live" /\ merged' = merged
         /\ Written(K, kind, class, term) /\ kind = "launch" => log'[K].launch
<1>1. /\ StoreInv /\ K \in Attempts /\ DepsDone(K[1])
      /\ claims[K] = "open" /\ log[K].term = "none" /\ log[K].int \in {"none", "service"}
      /\ \A m \in Attempts : proc[m] # "live"
  BY EarlyFacts
<1>2. UNCHANGED <<claims, auth, proc, merged>>
  BY DEF world
<1>3. CASE Written(K, kind, class, term)
  <2>1. EventOK(K, kind, class, term)
    BY <1>1 DEF EventOK, Kinds
  <2>2. /\ StoreInv' /\ Durable
        /\ \A m \in Attempts : m # K => log'[m] = log[m]
        /\ log'[K] = Record(log[K], kind, class, term)
    BY <1>1, <1>2, <1>3, <2>1, WrittenOK
  <2>3. /\ log'[K].launch <=> (log[K].launch \/ kind = "launch")
        /\ log'[K].int = IF kind = "interrupt" THEN class ELSE log[K].int
        /\ log'[K].term = IF kind = "terminal" THEN term ELSE log[K].term
    BY <2>2, RecordFacts
  <2>4. OthersSame
    BY <1>2, <2>2 DEF OthersSame
  <2>5. QED BY <1>1, <1>2, <2>2, <2>3, <2>4
<1>4. CASE UNCHANGED eventLog
  <2>1. StoreInv' /\ Durable
    BY <1>1, <1>4, StoreFrame
  <2>2. OthersSame /\ log' = log
    BY <1>2, <1>4 DEF OthersSame, eventLog
  <2>3. ASSUME Written(K, kind, class, term), kind = "launch" PROVE log'[K].launch
    <3>1. log'[K] = Record(log[K], kind, class, term)
      <4>1. K \in DOMAIN log
        BY <1>1 DEF StoreInv, StoreTypes
      <4>2. QED BY <2>3, <4>1 DEF Written
    <3>2. QED BY <2>3, <3>1, RecordFacts
  <2>4. QED BY <1>1, <1>2, <2>1, <2>2, <2>3
<1>5. QED BY <1>3, <1>4

----------------------------------------------------------------------------
(* The steps of one attempt *)

LEMMA ClaimEventOK == ASSUME IInv, ClaimEvent PROVE IInv'
<1>1. run.pc = "claim_event" /\ UNCHANGED <<claims, auth, world>>
  BY DEF ClaimEvent
<1>2. run.pc \in Working \ ({"close", "complete"} \cup Spawned)
  BY <1>1 DEF Working, Spawned
<1>3. run \in Runs
  BY <1>2, EarlyFacts
<1>4. PICK p \in {"reroute", "launch_event"} :
         Append(K, "claim", "none", "none", Go(p), Finalize(Stopping))
  BY DEF ClaimEvent
<1>5. CASE Written(K, "claim", "none", "none") /\ run' = Go(p)
  BY <1>1, <1>2, <1>5, LinkageEvent, ToPoint DEF Working, Closing, Spawned
<1>6. CASE /\ Written(K, "claim", "none", "none") \/ UNCHANGED eventLog
           /\ run' = Finalize(Stopping)
  BY <1>1, <1>2, <1>3, <1>6, LinkageEvent, ToTerminal, FailureFacts DEF ClaimTerminals
<1>7. QED BY <1>4, <1>5, <1>6 DEF Append

LEMMA RerouteOK == ASSUME IInv, Reroute PROVE IInv'
<1>1. run.pc = "reroute" /\ UNCHANGED <<claims, auth, world>>
  BY DEF Reroute
<1>2. run.pc \in Working \ ({"close", "complete"} \cup Spawned)
  BY <1>1 DEF Working, Spawned
<1>3. run \in Runs
  BY <1>2, EarlyFacts
<1>4. CASE Written(K, "reroute", "none", "none") /\ run' = Go("launch_event")
  BY <1>1, <1>2, <1>4, LinkageEvent, ToPoint DEF Working, Closing, Spawned
<1>5. CASE /\ Written(K, "reroute", "none", "none") \/ UNCHANGED eventLog
           /\ run' = Finalize(Stopping)
  BY <1>1, <1>2, <1>3, <1>5, LinkageEvent, ToTerminal, FailureFacts DEF ClaimTerminals
<1>6. QED BY <1>4, <1>5 DEF Append, Reroute

LEMMA LaunchEventOK == ASSUME IInv, LaunchEvent PROVE IInv'
<1>1. run.pc = "launch_event" /\ UNCHANGED <<claims, auth, world>>
  BY DEF LaunchEvent
<1>2. run.pc \in Working \ ({"close", "complete"} \cup Spawned)
  BY <1>1 DEF Working, Spawned
<1>3. run \in Runs
  BY <1>2, EarlyFacts
<1>4. CASE Written(K, "launch", "none", "none") /\ run' = Go("spawn")
  BY <1>1, <1>2, <1>4, LinkageEvent, ToPoint DEF Working, Closing, Spawned
<1>5. CASE /\ Written(K, "launch", "none", "none") \/ UNCHANGED eventLog
           /\ run' = Finalize(Stopping)
  BY <1>1, <1>2, <1>3, <1>5, LinkageEvent, ToTerminal, FailureFacts DEF ClaimTerminals
<1>6. QED BY <1>4, <1>5 DEF Append, LaunchEvent

\* The row and the process of the current attempt change, its log and claim
\* do not.
LEMMA SpawnStep ==
  ASSUME IInv, run.pc \in Working \ {"close", "complete"}, UNCHANGED <<eventLog, claims, merged>>,
         NEW row \in Rows, auth' = [auth EXCEPT ![K] = row],
         NEW p \in {"none", "live", "dead"}, proc' = [proc EXCEPT ![K] = p],
         row.done = "none", log[K].launch,
         log[K].pid => row.phase # "absent",
         row.phase = "pid_event_persisted" => log[K].pid,
         p = "live" => proc[K] = "live" \/ \A m \in Attempts : proc[m] # "live"
  PROVE  /\ StoreInv' /\ Durable /\ OthersSame
         /\ claims'[K] = "open" /\ log'[K].term = "none" /\ log'[K].int \in {"none", "service"}
         /\ auth'[K] = row /\ proc'[K] = p
<1>1. /\ run \in Runs /\ StoreInv /\ K \in Attempts
      /\ claims[K] = "open" /\ log[K].term = "none" /\ log[K].int \in {"none", "service"}
      /\ AttemptOK(K)
  BY EarlyFacts
<1>2. UNCHANGED <<log, streamOK, lastTerm, claims, merged>>
  BY DEF eventLog
<1>3. /\ auth'[K] = row /\ proc'[K] = p
      /\ \A m \in Attempts : m # K => auth'[m] = auth[m] /\ proc'[m] = proc[m]
      /\ auth' \in [Attempts -> Rows] /\ proc' \in [Attempts -> {"none", "live", "dead"}]
  BY <1>1 DEF StoreInv, StoreTypes
<1>4. PICK k \in Attempts : k = K
  BY <1>1
<1>5. AttemptStep(k)
  <2>1. StoreTypes'
    BY <1>1, <1>2, <1>3 DEF StoreInv, StoreTypes
  <2>2. ~Settled(k)
    BY <1>1, <1>4 DEF Settled, ClaimTerminals
  <2>3. QED BY <1>1, <1>2, <1>3, <1>4, <2>1, <2>2 DEF AttemptStep
<1>6. AttemptOK(k)'
  BY <1>1, <1>2, <1>3, <1>4 DEF AttemptOK, ClaimTerminals
<1>7. StoreInv' /\ Durable
  BY <1>1, <1>5, <1>6, StoreStep
<1>8. QED BY <1>1, <1>2, <1>3, <1>7 DEF OthersSame

LEMMA SpawnOK == ASSUME IInv, Spawn PROVE IInv'
<1>1. run.pc = "spawn" /\ UNCHANGED <<eventLog, claims, auth, merged>>
  BY DEF Spawn
<1>2. run.pc \in Working \ {"close", "complete"} /\ run.pc \notin Spawned
  BY <1>1 DEF Working, Spawned
<1>3. /\ run \in Runs /\ StoreInv /\ K \in Attempts /\ auth[K].done = "none" /\ AttemptOK(K)
      /\ claims[K] = "open" /\ log[K].term = "none" /\ log[K].int \in {"none", "service"}
      /\ \A m \in Attempts : proc[m] # "live"
  BY <1>2, EarlyFacts
<1>4. log[K].launch
  BY <1>1, <1>2, WorkFacts DEF StageOK
<1>5. CASE proc' = [proc EXCEPT ![K] = "live"] /\ run' = Go("persist")
  <2>1. auth[K] \in Rows /\ auth' = [auth EXCEPT ![K] = auth[K]]
    BY <1>1, <1>3 DEF StoreInv, StoreTypes
  <2>2. /\ StoreInv' /\ Durable /\ OthersSame
        /\ claims'[K] = "open" /\ log'[K].term = "none" /\ log'[K].int \in {"none", "service"}
    BY <1>1, <1>2, <1>3, <1>4, <1>5, <2>1, SpawnStep DEF AttemptOK
  <2>3. log'[K].launch
    BY <1>1, <1>4 DEF eventLog
  <2>4. QED BY <1>2, <1>5, <2>2, <2>3, ToPoint DEF Working, Closing, Spawned
<1>6. CASE run' = Go("returned") /\ UNCHANGED proc
  <2>1. StoreInv' /\ Durable
    BY <1>1, <1>3, <1>6, StoreFrame DEF world
  <2>2. OthersSame /\ log' = log
    BY <1>1, <1>6 DEF OthersSame, eventLog
  <2>3. QED BY <1>1, <1>2, <1>3, <1>6, <2>1, <2>2, ToPoint DEF Working, Closing, Spawned
<1>7. QED BY <1>5, <1>6 DEF Spawn

\* OnProcessStart failed at some point and the provider was killed.
LEMMA PidFailureOK ==
  ASSUME IInv, run.pc \in Spawned, UNCHANGED <<claims, merged>>, PidFailure,
         StoreInv', Durable,
         \A m \in Attempts : m # K => log'[m] = log[m] /\ auth'[m] = auth[m],
         log'[K].term = "none", log'[K].int \in {"none", "service"}
  PROVE  IInv'
<1>1. run.pc \in Working \ {"close", "complete"}
  BY DEF Working, Spawned
<1>2. /\ run \in Runs /\ StoreInv /\ K \in Attempts /\ claims[K] = "open"
  BY <1>1, EarlyFacts
<1>3. /\ proc'[K] # "live" /\ \A m \in Attempts : m # K => proc'[m] = proc[m]
      /\ run' = Finalize(PidFailing)
  BY <1>2 DEF PidFailure, StoreInv, StoreTypes
<1>4. OthersSame
  BY <1>3 DEF OthersSame
<1>5. QED BY <1>1, <1>2, <1>3, <1>4, ToTerminal, FailureFacts DEF ClaimTerminals

LEMMA PersistAuthorityOK == ASSUME IInv, PersistAuthority PROVE IInv'
<1>1. run.pc = "persist" /\ UNCHANGED <<eventLog, claims, merged>>
  BY DEF PersistAuthority
<1>2. run.pc \in Working \ {"close", "complete"} /\ run.pc \in Spawned
  BY <1>1 DEF Working, Spawned
<1>3. /\ run \in Runs /\ StoreInv /\ K \in Attempts /\ auth[K].done = "none" /\ AttemptOK(K)
      /\ claims[K] = "open" /\ log[K].term = "none" /\ log[K].int \in {"none", "service"}
  BY <1>2, EarlyFacts
<1>4. log[K].launch /\ log' = log
  BY <1>1, <1>2, WorkFacts DEF StageOK, eventLog
<1>5. auth[K] \in Rows /\ auth \in [Attempts -> Rows] /\ proc \in [Attempts -> {"none", "live", "dead"}]
  BY <1>3 DEF StoreInv, StoreTypes
<1>6. CASE /\ auth' = [auth EXCEPT ![K].phase = "authority_persisted"]
           /\ run' = Go("pid_event") /\ UNCHANGED proc
  <2>1. PICK row : row = [auth[K] EXCEPT !.phase = "authority_persisted"]
    OBVIOUS
  <2>2. row \in Rows /\ row.done = "none" /\ row.phase = "authority_persisted"
    BY <1>3, <1>5, <2>1 DEF Rows, Phases
  <2>3. auth' = [auth EXCEPT ![K] = row] /\ proc' = [proc EXCEPT ![K] = proc[K]]
        /\ proc[K] \in {"none", "live", "dead"}
    BY <1>3, <1>5, <1>6, <2>1
  <2>4. /\ StoreInv' /\ Durable /\ OthersSame
        /\ claims'[K] = "open" /\ log'[K].term = "none" /\ log'[K].int \in {"none", "service"}
        /\ auth'[K] = row
    BY <1>1, <1>2, <1>3, <1>4, <2>2, <2>3, SpawnStep
  <2>5. QED BY <1>2, <1>4, <1>6, <2>2, <2>4, ToPoint DEF Working, Closing, Spawned
<1>7. CASE PidFailure /\ UNCHANGED auth
  <2>1. auth' = [auth EXCEPT ![K] = auth[K]]
    BY <1>3, <1>5, <1>7
  <2>2. StoreInv' /\ Durable
    BY <1>1, <1>2, <1>3, <1>4, <1>5, <1>7, <2>1, SpawnStep DEF AttemptOK, PidFailure
  <2>3. QED BY <1>1, <1>2, <1>3, <1>4, <1>7, <2>2, PidFailureOK
<1>8. QED BY <1>6, <1>7 DEF PersistAuthority

\* The pid event, written or not, with what OnProcessStart makes of it.
LEMMA PidEventStore ==
  ASSUME IInv, run.pc = "pid_event", UNCHANGED <<claims, merged>>,
         Written(K, "pid", "none", "none") \/ UNCHANGED eventLog,
         Transition(K, "pid_event_failed") \/ UNCHANGED auth,
         UNCHANGED proc \/ proc' = [proc EXCEPT ![K] = "dead"]
  PROVE  /\ StoreInv' /\ Durable
         /\ \A m \in Attempts : m # K => log'[m] = log[m] /\ auth'[m] = auth[m] /\ proc'[m] = proc[m]
         /\ log'[K].term = "none" /\ log'[K].int \in {"none", "service"} /\ log'[K].launch
         /\ claims'[K] = "open"
<1>1. run.pc \in Working \ {"close", "complete"}
  BY DEF Working, Spawned
<1>2. /\ run \in Runs /\ StoreInv /\ K \in Attempts /\ auth[K].done = "none" /\ AttemptOK(K)
      /\ claims[K] = "open" /\ log[K].term = "none" /\ log[K].int \in {"none", "service"}
  BY <1>1, EarlyFacts
<1>3. log[K].launch /\ auth[K].phase # "absent"
  BY <1>1, WorkFacts DEF StageOK, Spawned
<1>4. PICK k \in Attempts : k = K
  BY <1>2
<1>5. /\ log' \in [Attempts -> LogFacts] /\ streamOK' \in BOOLEAN /\ lastTerm' \in [Items -> Terms]
      /\ \A m \in Attempts : m # k => log'[m] = log[m]
      /\ \A i \in Items : lastTerm'[i] = lastTerm[i] \/ (i = k[1] /\ log'[k].seen)
      /\ log'[k].launch /\ (log[k].seen => log'[k].seen) /\ (log[k].pid => log'[k].pid)
      /\ log'[k].int = log[k].int /\ log'[k].term = "none"
  <2>1. CASE Written(k, "pid", "none", "none")
    <3>1. EventOK(k, "pid", "none", "none")
      BY <1>2, <1>3, <1>4 DEF EventOK, Kinds
    <3>2. /\ log' \in [Attempts -> LogFacts] /\ streamOK' \in BOOLEAN
          /\ lastTerm' \in [Items -> Terms]
          /\ \A m \in Attempts : m # k => log'[m] = log[m]
          /\ log'[k] = Record(log[k], "pid", "none", "none")
          /\ \A i \in Items : lastTerm'[i] = lastTerm[i] \/ i = k[1]
      BY <1>2, <2>1, <3>1, WrittenFacts
    <3>3. /\ log'[k].seen
          /\ log'[k].launch <=> log[k].launch
          /\ log'[k].pid
          /\ log'[k].int = log[k].int
          /\ log'[k].term = log[k].term
      BY <3>2, RecordFacts
    <3>4. QED BY <1>2, <1>3, <1>4, <3>2, <3>3
  <2>2. CASE UNCHANGED eventLog
    BY <1>2, <1>3, <1>4, <2>2 DEF eventLog, StoreInv, StoreTypes
  <2>3. QED BY <1>4, <2>1, <2>2
<1>6. /\ auth' \in [Attempts -> Rows] /\ auth'[k].done = "none"
      /\ auth'[k].phase \notin {"absent"}
      /\ auth'[k].phase = "pid_event_persisted" => auth[k].phase = "pid_event_persisted"
      /\ \A m \in Attempts : m # k => auth'[m] = auth[m]
  <2>1. auth \in [Attempts -> Rows]
    BY <1>2 DEF StoreInv, StoreTypes
  <2>2. CASE UNCHANGED auth
    BY <1>2, <1>3, <1>4, <2>1, <2>2
  <2>3. CASE Transition(K, "pid_event_failed")
    <3>1. PICK row : row = [auth[k] EXCEPT !.phase = "pid_event_failed"]
      OBVIOUS
    <3>2. row \in Rows /\ row.done = "none" /\ row.phase = "pid_event_failed"
      BY <1>2, <1>4, <2>1, <3>1 DEF Rows, Phases
    <3>3. auth' = [auth EXCEPT ![k] = row]
      BY <1>4, <2>1, <2>3, <3>1 DEF Transition
    <3>4. QED BY <2>1, <3>2, <3>3
  <2>4. QED BY <2>2, <2>3
<1>7. /\ proc' \in [Attempts -> {"none", "live", "dead"}]
      /\ \A m \in Attempts : m # k => proc'[m] = proc[m]
      /\ proc'[k] = "live" => proc[k] = "live"
  BY <1>2, <1>4 DEF StoreInv, StoreTypes
<1>8. AttemptStep(k)
  <2>1. StoreTypes'
    BY <1>2, <1>5, <1>6, <1>7 DEF StoreInv, StoreTypes
  <2>2. ~Settled(k)
    BY <1>2, <1>4 DEF Settled, ClaimTerminals
  <2>3. QED BY <1>2, <1>3, <1>4, <1>5, <1>6, <1>7, <2>1, <2>2 DEF AttemptStep
<1>9. AttemptOK(k)'
  BY <1>2, <1>4, <1>5, <1>6, <1>7 DEF AttemptOK, ClaimTerminals
<1>10. StoreInv' /\ Durable
  BY <1>2, <1>8, <1>9, StoreStep
<1>11. QED BY <1>2, <1>4, <1>5, <1>6, <1>7, <1>10

LEMMA PidEventOK == ASSUME IInv, PidEvent PROVE IInv'
<1>1. run.pc = "pid_event" /\ UNCHANGED <<claims, merged>>
  BY DEF PidEvent
<1>2. run.pc \in Working \ {"close", "complete"} /\ run.pc \in Spawned
  BY <1>1 DEF Working, Spawned
<1>3. K \in Attempts /\ log \in [Attempts -> LogFacts]
  BY <1>2, EarlyFacts DEF StoreInv, StoreTypes
<1>4. CASE /\ Written(K, "pid", "none", "none")
           /\ run' = Go("phase") /\ UNCHANGED <<auth, proc>>
  <2>1. /\ StoreInv' /\ Durable
        /\ \A m \in Attempts : m # K => log'[m] = log[m] /\ auth'[m] = auth[m] /\ proc'[m] = proc[m]
        /\ log'[K].term = "none" /\ log'[K].int \in {"none", "service"} /\ log'[K].launch
        /\ claims'[K] = "open"
    BY <1>1, <1>4, PidEventStore
  <2>2. OthersSame
    BY <1>1, <2>1 DEF OthersSame
  <2>3. log'[K].pid
    <3>1. log'[K] = Record(log[K], "pid", "none", "none")
      BY <1>3, <1>4 DEF Written
    <3>2. QED BY <3>1, RecordFacts
  <2>4. QED BY <1>2, <1>4, <2>1, <2>2, <2>3, ToPoint DEF Working, Closing, Spawned
<1>5. CASE /\ Written(K, "pid", "none", "none") \/ UNCHANGED eventLog
           /\ Transition(K, "pid_event_failed") \/ UNCHANGED auth
           /\ PidFailure
  BY <1>1, <1>2, <1>5, PidEventStore, PidFailureOK DEF PidFailure
<1>6. QED BY <1>4, <1>5 DEF PidEvent

LEMMA SpawnPhaseOK == ASSUME IInv, SpawnPhase PROVE IInv'
<1>1. run.pc = "phase" /\ UNCHANGED <<eventLog, claims, merged>>
  BY DEF SpawnPhase
<1>2. run.pc \in Working \ {"close", "complete"} /\ run.pc \in Spawned
  BY <1>1 DEF Working, Spawned
<1>3. /\ run \in Runs /\ StoreInv /\ K \in Attempts /\ auth[K].done = "none" /\ AttemptOK(K)
      /\ claims[K] = "open" /\ log[K].term = "none" /\ log[K].int \in {"none", "service"}
  BY <1>2, EarlyFacts
<1>4. log[K].launch /\ log[K].pid /\ log' = log
  BY <1>1, <1>2, WorkFacts DEF StageOK, eventLog
<1>5. auth[K] \in Rows /\ auth \in [Attempts -> Rows] /\ proc \in [Attempts -> {"none", "live", "dead"}]
  BY <1>3 DEF StoreInv, StoreTypes
<1>6. CASE /\ Transition(K, "pid_event_persisted")
           /\ run' = Go("running") /\ UNCHANGED proc
  <2>1. PICK row : row = [auth[K] EXCEPT !.phase = "pid_event_persisted"]
    OBVIOUS
  <2>2. row \in Rows /\ row.done = "none" /\ row.phase = "pid_event_persisted"
    BY <1>3, <1>5, <2>1 DEF Rows, Phases
  <2>3. auth' = [auth EXCEPT ![K] = row] /\ proc' = [proc EXCEPT ![K] = proc[K]]
        /\ proc[K] \in {"none", "live", "dead"}
    BY <1>3, <1>5, <1>6, <2>1 DEF Transition
  <2>4. /\ StoreInv' /\ Durable /\ OthersSame
        /\ claims'[K] = "open" /\ log'[K].term = "none" /\ log'[K].int \in {"none", "service"}
        /\ auth'[K] = row
    BY <1>1, <1>2, <1>3, <1>4, <2>2, <2>3, SpawnStep
  <2>5. QED BY <1>2, <1>4, <1>6, <2>2, <2>4, ToPoint DEF Working, Closing, Spawned
<1>7. CASE PidFailure /\ UNCHANGED auth
  <2>1. auth' = [auth EXCEPT ![K] = auth[K]]
    BY <1>3, <1>5, <1>7
  <2>2. StoreInv' /\ Durable
    BY <1>1, <1>2, <1>3, <1>4, <1>5, <1>7, <2>1, SpawnStep DEF AttemptOK, PidFailure
  <2>3. QED BY <1>1, <1>2, <1>3, <1>4, <1>7, <2>2, PidFailureOK
<1>8. QED BY <1>6, <1>7 DEF SpawnPhase

LEMMA ProviderReturnsOK == ASSUME IInv, ProviderReturns PROVE IInv'
<1>1. /\ run.pc = "running" /\ UNCHANGED <<eventLog, claims, auth, merged>>
      /\ proc' = [proc EXCEPT ![K] = "dead"] /\ run' = Go("returned")
  BY DEF ProviderReturns
<1>2. run.pc \in Working \ {"close", "complete"} /\ run.pc \in Spawned
  BY <1>1 DEF Working, Spawned
<1>3. /\ run \in Runs /\ StoreInv /\ K \in Attempts /\ auth[K].done = "none" /\ AttemptOK(K)
  BY <1>2, EarlyFacts
<1>4. log[K].launch
  BY <1>1, <1>2, WorkFacts DEF StageOK
<1>5. auth[K] \in Rows /\ auth' = [auth EXCEPT ![K] = auth[K]]
  BY <1>1, <1>3 DEF StoreInv, StoreTypes
<1>6. /\ StoreInv' /\ Durable /\ OthersSame
      /\ claims'[K] = "open" /\ log'[K].term = "none" /\ log'[K].int \in {"none", "service"}
      /\ proc'[K] = "dead"
  BY <1>1, <1>2, <1>3, <1>4, <1>5, SpawnStep DEF AttemptOK
<1>7. QED BY <1>1, <1>2, <1>6, ToPoint DEF Working, Closing, Spawned

\* A step of the Execute alone, with no provider alive.
LEMMA LocalStep ==
  ASSUME IInv, run.pc \in Working \ ({"close", "complete"} \cup Spawned),
         UNCHANGED <<eventLog, claims, auth, world>>
  PROVE  /\ StoreInv' /\ Durable /\ OthersSame
         /\ claims'[K] = "open" /\ log'[K].term = "none" /\ log'[K].int \in {"none", "service"}
         /\ proc'[K] # "live" /\ log' = log /\ run \in Runs
<1>1. /\ run \in Runs /\ StoreInv /\ K \in Attempts
      /\ claims[K] = "open" /\ log[K].term = "none" /\ log[K].int \in {"none", "service"}
      /\ \A m \in Attempts : proc[m] # "live"
  BY EarlyFacts
<1>2. StoreInv' /\ Durable
  BY <1>1, StoreFrame
<1>3. UNCHANGED <<log, claims, auth, proc>>
  BY DEF eventLog, world
<1>4. QED BY <1>1, <1>2, <1>3 DEF OthersSame

LEMMA OutcomeFacts ==
  ASSUME run \in Runs
  PROVE  LET cancelled == [Failing EXCEPT !.term = IF run.alt THEN "failed" ELSE "cancelled"]
             unavailable == [Failing EXCEPT !.reroute = ~run.alt]
         IN  /\ cancelled \in Fins /\ cancelled.term \in {"failed", "cancelled"} /\ ~cancelled.reroute
             /\ unavailable \in Fins /\ unavailable.term = "failed"
  BY DEF Failing, NoFin, Fins, Terms, ClaimTerminals, Runs

LEMMA OutcomeOK == ASSUME IInv, Outcome PROVE IInv'
<1>1. run.pc = "returned" /\ UNCHANGED <<eventLog, claims, auth, world>>
  BY DEF Outcome
<1>2. run.pc \in Working \ ({"close", "complete"} \cup Spawned)
  BY <1>1 DEF Working, Spawned
<1>3. /\ StoreInv' /\ Durable /\ OthersSame
      /\ claims'[K] = "open" /\ log'[K].term = "none" /\ log'[K].int \in {"none", "service"}
      /\ proc'[K] # "live" /\ run \in Runs
  BY <1>1, <1>2, LocalStep
<1>4. ASSUME NEW p \in {"accept", "interrupt"}, run' = Go(p) PROVE IInv'
  BY <1>2, <1>3, <1>4, ToPoint DEF Working, Closing, Spawned
<1>5. ASSUME NEW fin \in Fins, run' = Finalize(fin), fin.term \in {"failed", "cancelled"},
             fin.reroute => fin.term = "failed"
      PROVE  IInv'
  BY <1>2, <1>3, <1>5, ToTerminal DEF ClaimTerminals
<1>6. Failing.term = "failed" /\ Failing \in Fins /\ Stopping \in Fins /\ Stopping.term = "failed"
  BY <1>3, FailureFacts
<1>7. CASE run' = Go("accept")
  BY <1>4, <1>7
<1>8. CASE run' = Go("interrupt")
  BY <1>4, <1>8
<1>9. CASE run' = Finalize(Stopping) \/ run' = Finalize(Failing)
  BY <1>5, <1>6, <1>9
<1>10. CASE run' = Finalize([Failing EXCEPT !.term = IF run.alt THEN "failed" ELSE "cancelled"])
  BY <1>3, <1>5, <1>10, OutcomeFacts
<1>11. CASE run' = Finalize([Failing EXCEPT !.reroute = ~run.alt])
  BY <1>3, <1>5, <1>11, OutcomeFacts
<1>12. QED BY <1>7, <1>8, <1>9, <1>10, <1>11 DEF Outcome

LEMMA InterruptOK == ASSUME IInv, Interrupt PROVE IInv'
<1>1. run.pc = "interrupt" /\ UNCHANGED <<claims, auth, world>>
  BY DEF Interrupt
<1>2. run.pc \in Working \ ({"close", "complete"} \cup Spawned)
  BY <1>1 DEF Working, Spawned
<1>3. run \in Runs
  BY <1>2, EarlyFacts
<1>4. Written(K, "interrupt", "service", "none") \/ UNCHANGED eventLog
  BY DEF Interrupt, Append
<1>5. /\ StoreInv' /\ Durable /\ OthersSame
      /\ claims'[K] = "open" /\ log'[K].term = "none" /\ log'[K].int \in {"none", "service"}
      /\ proc'[K] # "live"
  BY <1>1, <1>2, <1>4, LinkageEvent
<1>6. PICK fin : fin = [Failing EXCEPT !.term = "cancelled", !.class = "service"]
  OBVIOUS
<1>7. fin \in Fins /\ fin.term = "cancelled" /\ ~fin.reroute
  BY <1>6 DEF Failing, NoFin, Fins, Terms, ClaimTerminals
<1>8. CASE run' = Down
  BY <1>5, <1>8, DownOK DEF IInv
<1>9. CASE run' = Finalize(fin)
  BY <1>2, <1>5, <1>7, <1>9, ToTerminal DEF ClaimTerminals
<1>10. CASE run' = Finalize(Failing)
  BY <1>2, <1>3, <1>5, <1>10, ToTerminal, FailureFacts DEF ClaimTerminals
<1>11. QED BY <1>6, <1>8, <1>9, <1>10 DEF Interrupt, Append

LEMMA AcceptOK == ASSUME IInv, Accept PROVE IInv'
<1>1. run.pc = "accept" /\ UNCHANGED <<eventLog, claims, auth, world>>
  BY DEF Accept
<1>2. run.pc \in Working \ ({"close", "complete"} \cup Spawned)
  BY <1>1 DEF Working, Spawned
<1>3. /\ StoreInv' /\ Durable /\ OthersSame
      /\ claims'[K] = "open" /\ log'[K].term = "none" /\ log'[K].int \in {"none", "service"}
      /\ proc'[K] # "live" /\ run \in Runs
  BY <1>1, <1>2, LocalStep
<1>4. CASE Integrates /\ run' = Go("merge")
  BY <1>2, <1>3, <1>4, ToPoint DEF Working, Closing, Spawned
<1>5. CASE ~Integrates /\ run' = Finalize(Succeeding)
  BY <1>2, <1>3, <1>5, ToTerminal, FailureFacts DEF ClaimTerminals
<1>6. CASE run' = Finalize(Failing)
  BY <1>2, <1>3, <1>6, ToTerminal, FailureFacts DEF ClaimTerminals
<1>7. QED BY <1>4, <1>5, <1>6 DEF Accept

\* Commits are only added to the goal branch.
LEMMA MergeStore ==
  ASSUME StoreInv, UNCHANGED <<eventLog, claims, auth, proc>>, merged \subseteq merged',
         merged' \in SUBSET Attempts
  PROVE  StoreInv' /\ Durable
<1>1. UNCHANGED <<log, streamOK, lastTerm, claims, auth, proc>>
  BY DEF eventLog
<1>2. Durable
  BY <1>1 DEF Durable
<1>3. \A k \in Attempts : AttemptOK(k)'
  BY <1>1 DEF StoreInv, AttemptOK
<1>4. StoreTypes' /\ NoGaps' /\ LastSeen' /\ GenerationsSerial' /\ SingleProvider'
  BY <1>1 DEF StoreInv, StoreTypes, NoGaps, LastSeen, GenerationsSerial, SingleProvider
<1>5. DepsFirst'
  BY <1>1 DEF StoreInv, DepsFirst
<1>6. QED BY <1>2, <1>3, <1>4, <1>5 DEF StoreInv

LEMMA MergeOK == ASSUME IInv, Merge PROVE IInv'
<1>1. /\ run.pc = "merge" /\ UNCHANGED <<eventLog, claims, auth, proc>>
      /\ merged \subseteq merged' /\ merged' \subseteq merged \cup {K}
  BY DEF Merge
<1>2. run.pc \in Working \ ({"close", "complete"} \cup Spawned)
  BY <1>1 DEF Working, Spawned
<1>3. /\ run \in Runs /\ StoreInv /\ K \in Attempts
      /\ claims[K] = "open" /\ log[K].term = "none" /\ log[K].int \in {"none", "service"}
      /\ \A m \in Attempts : proc[m] # "live"
  BY <1>2, EarlyFacts
<1>4. StoreInv' /\ Durable
  <2>1. merged' \in SUBSET Attempts
    BY <1>1, <1>3 DEF StoreInv, StoreTypes
  <2>2. QED BY <1>1, <1>3, <2>1, MergeStore
<1>5. OthersSame /\ log' = log
  BY <1>1 DEF OthersSame, eventLog
<1>6. CASE K \in merged' /\ run' = Go("merge_event")
  BY <1>1, <1>2, <1>3, <1>4, <1>5, <1>6, ToPoint DEF Working, Closing, Spawned
<1>7. CASE run' = Finalize(Failing)
  BY <1>1, <1>2, <1>3, <1>4, <1>5, <1>7, ToTerminal, FailureFacts DEF ClaimTerminals
<1>8. QED BY <1>6, <1>7 DEF Merge, MergeFailed

LEMMA MergeEventOK == ASSUME IInv, MergeEvent PROVE IInv'
<1>1. run.pc = "merge_event" /\ UNCHANGED <<claims, auth, world>>
  BY DEF MergeEvent
<1>2. run.pc \in Working \ ({"close", "complete"} \cup Spawned)
  BY <1>1 DEF Working, Spawned
<1>3. run \in Runs /\ K \in merged
  BY <1>1, <1>2, WorkFacts DEF StageOK
<1>4. Written(K, "integrate", "none", "none") \/ UNCHANGED eventLog
  BY DEF MergeEvent, Append
<1>5. /\ StoreInv' /\ Durable /\ OthersSame
      /\ claims'[K] = "open" /\ log'[K].term = "none" /\ log'[K].int \in {"none", "service"}
      /\ proc'[K] # "live" /\ merged' = merged
  BY <1>1, <1>2, <1>4, LinkageEvent
<1>6. PICK fin : fin = [Failing EXCEPT !.stop = TRUE]
  OBVIOUS
<1>7. fin \in Fins /\ fin.term = "failed"
  BY <1>6 DEF Failing, NoFin, Fins, Terms, ClaimTerminals
<1>8. CASE run' = Finalize(Succeeding)
  BY <1>2, <1>3, <1>5, <1>8, ToTerminal, FailureFacts DEF ClaimTerminals
<1>9. CASE run' = Finalize(fin)
  BY <1>2, <1>5, <1>7, <1>9, ToTerminal DEF ClaimTerminals
<1>10. QED BY <1>6, <1>8, <1>9 DEF MergeEvent, Append

----------------------------------------------------------------------------
(* The finalization of the attempt *)

LEMMA TerminalEventOK == ASSUME IInv, TerminalEvent PROVE IInv'
<1>1. /\ run.pc = "terminal" /\ UNCHANGED <<claims, auth, world>>
      /\ UNCHANGED <<claims, auth, proc, merged>>
  BY DEF TerminalEvent, world
<1>2. run.pc \in Working \ {"close", "complete"} /\ run.pc \notin Spawned
  BY <1>1 DEF Working, Closing, Spawned
<1>3. /\ run \in Runs /\ StoreInv /\ K \in Attempts
      /\ claims[K] = "open" /\ log[K].term = "none" /\ log[K].int \in {"none", "service"}
      /\ \A m \in Attempts : proc[m] # "live"
  BY <1>2, EarlyFacts
<1>4. FinOK(run.fin, K) /\ run.fin \in Fins
  BY <1>1, <1>2, <1>3, WorkFacts DEF StageOK, Closing, Runs
<1>5. EventOK(K, "terminal", run.fin.class, run.fin.term)
  BY <1>3, <1>4 DEF EventOK, Kinds, FinOK, Fins
<1>6. Written(K, "terminal", run.fin.class, run.fin.term) \/ UNCHANGED eventLog
  BY DEF TerminalEvent, Append
<1>7. StoreInv' /\ Durable
  BY <1>1, <1>3, <1>5, <1>6, WrittenOK, StoreFrame
<1>8. CASE run' = Down
  BY <1>7, <1>8, DownOK DEF IInv
<1>9. CASE Written(K, "terminal", run.fin.class, run.fin.term) /\ run' = Go("close")
  <2>1. /\ \A m \in Attempts : m # K => log'[m] = log[m]
        /\ log'[K] = Record(log[K], "terminal", run.fin.class, run.fin.term)
    BY <1>1, <1>3, <1>5, <1>9, WrittenOK
  <2>2. log'[K].term = run.fin.term /\ log'[K].int = log[K].int
    BY <2>1, RecordFacts
  <2>3. SameAttempt(run') /\ run'.pc = "close" /\ run'.fin = run.fin
    BY <1>3, <1>9, GoFacts, PcFacts DEF Closing
  <2>4. K' = K
    BY <2>3 DEF SameAttempt, K
  <2>5. StageOK(run, K)'
    BY <1>1, <1>3, <1>4, <2>2, <2>3, <2>4 DEF StageOK, FinOK, Spawned
  <2>6. run'.pc \in Working
    BY <2>3, PcFacts DEF Closing
  <2>7. QED BY <1>1, <1>2, <1>3, <1>7, <2>1, <2>3, <2>5, <2>6, WorkStep
<1>10. QED BY <1>8, <1>9 DEF TerminalEvent, Append, TerminalFailed

\* The current attempt once its terminal is in the log.
LEMMA ClosingFacts ==
  ASSUME IInv, run.pc \in {"close", "complete"}
  PROVE  /\ run \in Runs /\ run.pc \in Working /\ StoreInv /\ K \in Attempts /\ K = <<run.item, run.gen>>
         /\ run.item \in Items /\ run.gen \in Gens
         /\ FinOK(run.fin, K) /\ log[K].term = run.fin.term /\ log[K].int \in {"none", "service"}
         /\ claims[K] = IF run.pc = "complete" THEN run.fin.term ELSE "open"
         /\ AttemptOK(K)
         /\ \A m \in Attempts : proc[m] # "live"
<1>1. run.pc \in Working /\ run.pc \in Closing /\ run.pc \notin Spawned
  BY PcFacts DEF Closing, Spawned
<1>2. /\ run \in Runs /\ StoreInv /\ K \in Attempts /\ K = <<run.item, run.gen>>
      /\ run.item \in Items /\ run.gen \in Gens
      /\ StageOK(run, K) /\ AttemptOK(K)
      /\ \A k \in Attempts : proc[k] = "live" => k = K /\ run.pc \in Spawned
  BY <1>1, WorkFacts
<1>3. /\ FinOK(run.fin, K) /\ log[K].int \in {"none", "service"}
      /\ claims[K] = IF run.pc = "complete" THEN run.fin.term ELSE "open"
      /\ run.pc = "close" => log[K].term = run.fin.term
  BY <1>1, <1>2 DEF StageOK
<1>4. log[K].term = run.fin.term
  BY <1>2, <1>3 DEF AttemptOK, FinOK
<1>5. QED BY <1>1, <1>2, <1>3, <1>4

\* A claim is closed with the terminal of its log.
LEMMA CloseStore ==
  ASSUME StoreInv, NEW k \in Attempts, claims[k] = "open", log[k].term # "none",
         Close(k, log[k].term), UNCHANGED <<eventLog, auth, world>>
  PROVE  /\ StoreInv' /\ Durable /\ claims'[k] = log[k].term
         /\ \A m \in Attempts : m # k => claims'[m] = claims[m]
<1>1. UNCHANGED <<log, streamOK, lastTerm, auth, proc, merged>>
  BY DEF eventLog, world
<1>2. log[k].term \in ClaimTerminals /\ AttemptOK(k) /\ auth[k] \in Rows
  BY DEF StoreInv, StoreTypes, LogFacts, Terms
<1>3. /\ claims' \in [Attempts -> ClaimStates] /\ claims'[k] = log[k].term
      /\ \A m \in Attempts : m # k => claims'[m] = claims[m]
  BY <1>2 DEF Close, StoreInv, StoreTypes, ClaimStates
<1>4. AttemptStep(k)
  <2>1. StoreTypes'
    BY <1>1, <1>3 DEF StoreInv, StoreTypes
  <2>2. ~Settled(k) /\ claims'[k] # "absent"
    BY <1>2, <1>3 DEF Settled, ClaimTerminals
  <2>3. QED BY <1>1, <1>3, <2>1, <2>2 DEF AttemptStep, ClaimTerminals
<1>5. AttemptOK(k)'
  <2>1. auth[k].done = "none"
    BY <1>2 DEF AttemptOK, Rows, Terms, ClaimTerminals
  <2>2. QED BY <1>1, <1>2, <1>3, <2>1 DEF AttemptOK, ClaimTerminals
<1>6. QED BY <1>3, <1>4, <1>5, StoreStep

LEMMA CloseClaimOK == ASSUME IInv, CloseClaim PROVE IInv'
<1>1. run.pc = "close" /\ UNCHANGED <<eventLog, auth, world>>
  BY DEF CloseClaim
<1>2. /\ run \in Runs /\ run.pc \in Working /\ StoreInv /\ K \in Attempts
      /\ FinOK(run.fin, K) /\ log[K].term = run.fin.term /\ log[K].int \in {"none", "service"}
      /\ claims[K] = "open" /\ \A m \in Attempts : proc[m] # "live"
  BY <1>1, ClosingFacts
<1>3. CASE Close(K, run.fin.term) /\ run' = Go("complete")
  <2>1. log[K].term # "none"
    BY <1>2 DEF FinOK, ClaimTerminals
  <2>2. /\ StoreInv' /\ Durable /\ claims'[K] = log[K].term
        /\ \A m \in Attempts : m # K => claims'[m] = claims[m]
    BY <1>1, <1>2, <1>3, <2>1, CloseStore
  <2>3. SameAttempt(run') /\ run'.pc = "complete" /\ run'.fin = run.fin
    BY <1>2, <1>3, GoFacts, PcFacts DEF Closing
  <2>4. K' = K /\ UNCHANGED <<log, auth, proc, merged>>
    BY <1>1, <2>3 DEF SameAttempt, K, eventLog, world
  <2>5. StageOK(run, K)'
    BY <1>2, <2>2, <2>3, <2>4 DEF StageOK, FinOK, Spawned
  <2>6. run'.pc \in Working
    BY <2>3, PcFacts DEF Closing
  <2>7. QED BY <1>2, <2>2, <2>3, <2>4, <2>5, <2>6, WorkStep
<1>4. CASE run' = Down /\ UNCHANGED claims
  BY <1>1, <1>2, <1>4, StoreFrame, DownOK DEF IInv
<1>5. QED BY <1>3, <1>4 DEF CloseClaim

\* An authority row is completed with the terminal its claim was closed with.
LEMMA CompleteStore ==
  ASSUME StoreInv, NEW k \in Attempts, NEW api, claims[k] \in ClaimTerminals,
         Complete(k, api, claims[k]), UNCHANGED <<eventLog, claims, world>>
  PROVE  /\ StoreInv' /\ Durable /\ auth'[k].done # "none"
         /\ \A m \in Attempts : m # k => auth'[m] = auth[m]
<1>1. UNCHANGED <<log, streamOK, lastTerm, claims, proc, merged>>
  BY DEF eventLog, world
<1>2. AttemptOK(k) /\ auth[k] \in Rows /\ auth \in [Attempts -> Rows] /\ claims[k] # "none"
  BY DEF StoreInv, StoreTypes, ClaimTerminals
<1>3. auth[k].phase # "absent" /\ auth' = [auth EXCEPT ![k].done = claims[k]]
  BY DEF Complete, CompletesFrom
<1>4. PICK row : row = [auth[k] EXCEPT !.done = claims[k]]
  OBVIOUS
<1>5. row \in Rows /\ row.done = claims[k] /\ row.phase = auth[k].phase
  BY <1>2, <1>4 DEF Rows, Terms
<1>6. auth' = [auth EXCEPT ![k] = row]
  BY <1>2, <1>3, <1>4
<1>7. auth' \in [Attempts -> Rows] /\ auth'[k] = row /\ \A m \in Attempts : m # k => auth'[m] = auth[m]
  BY <1>2, <1>5, <1>6
<1>8. AttemptStep(k)
  <2>1. StoreTypes'
    BY <1>1, <1>7 DEF StoreInv, StoreTypes
  <2>2. Settled(k)'
    BY <1>1, <1>2, <1>5, <1>7 DEF Settled
  <2>3. QED BY <1>1, <1>7, <2>1, <2>2 DEF AttemptStep
<1>9. AttemptOK(k)'
  BY <1>1, <1>2, <1>3, <1>5, <1>7 DEF AttemptOK, ClaimTerminals
<1>10. QED BY <1>2, <1>5, <1>7, <1>8, <1>9, StoreStep

\* The Execute is between attempts.
LEMMA BetweenStep ==
  ASSUME StoreInv', run' \in Runs, MemoryOK(run)', run'.pc \in Between,
         \A k \in Attempts : Settled(k)', \A k \in Attempts : proc'[k] # "live", AlternateOK(run)'
  PROVE  IInv'
<1>1. run'.pc \notin Working /\ run'.pc # "recover" /\ run'.pc \notin Starting
  BY PcFacts
<1>2. QED BY <1>1 DEF IInv, RunOK, RecoveryOK, LiveOK, QuietOK, WorkOK, Starting

\* New evidence is of a success only where there is one.
LEMMA EvidenceMemory ==
  ASSUME RunOK(run), Durable, run' \in Runs, NEW i \in Items, NEW t,
         run'.ev = [run.ev EXCEPT ![i] = t], t = "succeeded" => HasSucceeded(i)',
         run'.want = run.want, run'.todo \subseteq run.todo
  PROVE  MemoryOK(run)'
<1>1. MemoryOK(run) /\ run \in Runs
  BY DEF RunOK
<1>2. /\ \A j \in Items : HasSucceeded(j) => HasSucceeded(j)'
      /\ \A j \in Items : DepsDone(j) => DepsDone(j)'
  BY SuccessDurable
<1>3. \A j \in Items : \A g \in run.want[j] : <<j, g - 1>> \in Attempts
  BY <1>1, WantedFacts
<1>4. run.todo \subseteq Items /\ run.ev \in [Items -> Terms]
  BY <1>1 DEF Runs
<1>5. \A j \in Items : run'.ev[j] = "succeeded" => HasSucceeded(j)'
  BY <1>1, <1>2, <1>4 DEF MemoryOK
<1>6. \A j \in Items : \A g \in run'.want[j] : claims'[<<j, g - 1>>] # "absent"
  BY <1>1, <1>3 DEF MemoryOK, Durable
<1>7. \A j \in run'.todo : DepsDone(j)'
  BY <1>1, <1>2, <1>4 DEF MemoryOK
<1>8. QED BY <1>5, <1>6, <1>7 DEF MemoryOK

\* The attempt is over in all three stores; what may follow.
LEMMA FinalizedOK ==
  ASSUME IInv, run.pc = "complete", run' \in Finalized, StoreInv', Durable,
         UNCHANGED <<eventLog, claims, world>>,
         \A m \in Attempts : m # K => auth'[m] = auth[m],
         auth'[K] = NoAuthority \/ auth'[K].done # "none"
  PROVE  IInv'
<1>1. /\ run \in Runs /\ run.pc \in Working /\ K \in Attempts /\ K = <<run.item, run.gen>>
      /\ run.item \in Items /\ run.gen \in Gens
      /\ FinOK(run.fin, K) /\ claims[K] = run.fin.term /\ log[K].term = run.fin.term
      /\ \A m \in Attempts : proc[m] # "live"
  BY ClosingFacts
<1>2. UNCHANGED <<log, claims, proc, merged>>
  BY DEF eventLog, world
<1>3. WorkOK(run) /\ RunOK(run)
  BY DEF IInv, RunOK
<1>4. \A m \in Attempts : Settled(m)'
  <2>1. ASSUME NEW m \in Attempts, m # K PROVE Settled(m)'
    BY <1>1, <1>2, <1>3, <2>1 DEF WorkOK, Settled
  <2>2. ASSUME NEW m \in Attempts, m = K PROVE Settled(m)'
    BY <1>1, <1>2, <2>2 DEF Settled, FinOK
  <2>3. QED BY <2>1, <2>2
<1>5. CASE run' = Down
  BY <1>5, DownOK DEF IInv
<1>6. CASE run' = [run EXCEPT !.pc = "pick", !.ev[run.item] = run.fin.term]
  <2>1. run.fin.term \in Terms
    BY <1>1 DEF Runs, Fins
  <2>2. PICK i \in Items, t \in Terms : i = run.item /\ t = run.fin.term
    BY <1>1, <2>1
  <2>3. /\ run' \in Runs /\ run'.pc = "pick" /\ run'.want = run.want /\ run'.todo = run.todo
        /\ run'.ev = [run.ev EXCEPT ![i] = t]
    <3>1. PICK e : e = [run.ev EXCEPT ![i] = t]
      OBVIOUS
    <3>2. e \in [Items -> Terms] /\ run.todo \in SUBSET Items /\ "pick" \in Pcs
      BY <1>1, <3>1, PcFacts DEF Runs, Between
    <3>3. run' = [run EXCEPT !.pc = "pick", !.todo = run.todo, !.ev = e]
      BY <1>1, <1>6, <2>2, <3>1 DEF Runs
    <3>4. QED BY <1>1, <3>1, <3>2, <3>3 DEF Runs
  <2>4. t = "succeeded" => HasSucceeded(i)'
    BY <1>1, <1>2, <2>2 DEF HasSucceeded, FinOK
  <2>5. MemoryOK(run)'
    BY <1>3, <2>3, <2>4, EvidenceMemory
  <2>6. AlternateOK(run)' /\ run'.pc \in Between
    BY <2>3 DEF AlternateOK, Between
  <2>7. QED BY <1>1, <1>2, <1>4, <2>3, <2>5, <2>6, BetweenStep
<1>7. CASE run.fin.reroute /\ run' = Go("unavailable_event")
  <2>1. SameAttempt(run') /\ run'.pc = "unavailable_event"
    BY <1>1, <1>7, GoFacts, PcFacts DEF Between
  <2>2. MemoryOK(run)'
    BY <1>3, <2>1, MemoryFrame DEF SameAttempt
  <2>3. AlternateOK(run)'
    <3>1. PICK i \in Items, g \in Gens : i = run.item /\ g = run.gen
      BY <1>1
    <3>2. DepsDone(i)' /\ OthersFailed(i, g)'
      <4>1. DepsDone(i) /\ OthersFailed(i, g)
        BY <1>1, <1>3, <3>1 DEF WorkOK
      <4>2. QED BY <1>2, <4>1, SuccessDurable DEF OthersFailed
    <3>3. claims'[<<i, g>>] = "failed"
      BY <1>1, <1>2, <1>7, <3>1 DEF FinOK
    <3>4. run'.item = i /\ run'.gen = g
      BY <2>1, <3>1 DEF SameAttempt
    <3>5. QED BY <3>2, <3>3, <3>4 DEF AlternateOK, DepsDone, OthersFailed
  <2>4. QED BY <1>1, <1>2, <1>4, <2>1, <2>2, <2>3, BetweenStep DEF SameAttempt, Between
<1>8. QED BY <1>5, <1>6, <1>7 DEF Finalized, ItemEnded

LEMMA CompleteAuthorityOK == ASSUME IInv, CompleteAuthority PROVE IInv'
<1>1. run.pc = "complete" /\ UNCHANGED <<eventLog, claims, world>>
  BY DEF CompleteAuthority
<1>2. /\ StoreInv /\ K \in Attempts /\ FinOK(run.fin, K) /\ claims[K] = run.fin.term
  BY <1>1, ClosingFacts
<1>3. CASE auth[K] = NoAuthority /\ UNCHANGED auth /\ run' \in Finalized
  <2>1. StoreInv' /\ Durable
    BY <1>1, <1>2, <1>3, StoreFrame
  <2>2. QED BY <1>1, <1>3, <2>1, FinalizedOK
<1>4. CASE Complete(K, run.fin.api, run.fin.term) /\ run' \in Finalized
  <2>1. claims[K] \in ClaimTerminals /\ Complete(K, run.fin.api, claims[K])
    BY <1>2, <1>4 DEF FinOK
  <2>2. /\ StoreInv' /\ Durable /\ auth'[K].done # "none"
        /\ \A m \in Attempts : m # K => auth'[m] = auth[m]
    BY <1>1, <1>2, <2>1, CompleteStore
  <2>3. QED BY <1>1, <1>4, <2>2, FinalizedOK
<1>5. CASE UNCHANGED auth /\ run' = Down
  BY <1>1, <1>2, <1>5, StoreFrame, DownOK DEF IInv
<1>6. QED BY <1>3, <1>4, <1>5 DEF CompleteAuthority, CompleteFailed

----------------------------------------------------------------------------
(* Between attempts *)

\* Nothing is half finished and no provider is alive.
LEMMA BetweenFacts ==
  ASSUME IInv, run.pc \in Between
  PROVE  /\ run \in Runs /\ StoreInv /\ RunOK(run)
         /\ \A k \in Attempts : Settled(k)
         /\ \A k \in Attempts : proc[k] # "live"
<1>1. run.pc \notin Starting /\ run.pc \notin Spawned
  BY PcFacts
<1>2. QED BY <1>1 DEF IInv, RunOK, QuietOK, LiveOK

\* An event of an attempt that is over, or none.
LEMMA LateEvent ==
  ASSUME IInv, run.pc \in Between, NEW k \in Attempts, claims[k] # "absent",
         NEW kind \in {"reuse", "model_unavailable"}, NEW class, NEW term,
         Written(k, kind, class, term) \/ UNCHANGED eventLog, UNCHANGED <<claims, auth, world>>
  PROVE  /\ StoreInv' /\ Durable
         /\ \A m \in Attempts : Settled(m)'
         /\ \A m \in Attempts : proc'[m] # "live"
         /\ \A m \in Attempts : log'[m].term = log[m].term
<1>1. /\ StoreInv /\ \A m \in Attempts : Settled(m) /\ proc[m] # "live"
  BY BetweenFacts
<1>2. UNCHANGED <<claims, auth, proc, merged>>
  BY DEF world
<1>3. (\A m \in Attempts : Settled(m)') /\ \A m \in Attempts : proc'[m] # "live"
  BY <1>1, <1>2 DEF Settled
<1>4. CASE Written(k, kind, class, term)
  <2>1. EventOK(k, kind, class, term)
    BY <1>1 DEF EventOK, Kinds
  <2>2. /\ StoreInv' /\ Durable
        /\ \A m \in Attempts : m # k => log'[m] = log[m]
        /\ log'[k] = Record(log[k], kind, class, term)
    BY <1>1, <1>2, <1>4, <2>1, WrittenOK
  <2>3. log'[k].term = log[k].term
    BY <2>2, RecordFacts
  <2>4. QED BY <1>3, <2>2, <2>3
<1>5. CASE UNCHANGED eventLog
  <2>1. StoreInv' /\ Durable
    BY <1>1, <1>5, StoreFrame
  <2>2. log' = log
    BY <1>5 DEF eventLog
  <2>3. QED BY <1>3, <2>1, <2>2
<1>6. QED BY <1>4, <1>5

LEMMA UnavailableEventOK == ASSUME IInv, UnavailableEvent PROVE IInv'
<1>1. run.pc = "unavailable_event" /\ UNCHANGED <<claims, auth, world>>
  BY DEF UnavailableEvent
<1>2. run.pc \in Between
  BY <1>1 DEF Between
<1>3. AlternateOK(run) /\ run \in Runs /\ RunOK(run)
  BY <1>2, BetweenFacts DEF RunOK
<1>4. PICK i \in Items, g \in Gens : i = run.item /\ g = run.gen
  BY <1>1, <1>3 DEF AlternateOK, Runs
<1>5. /\ K = <<i, g>> /\ K \in Attempts /\ claims[<<i, g>>] \in {"failed", "cancelled"}
      /\ DepsDone(i) /\ OthersFailed(i, g)
  BY <1>1, <1>3, <1>4, PairFacts DEF K, AlternateOK
<1>6. Written(K, "model_unavailable", "none", "none") \/ UNCHANGED eventLog
  BY DEF UnavailableEvent, Append
<1>7. /\ StoreInv' /\ Durable
      /\ \A m \in Attempts : Settled(m)'
      /\ \A m \in Attempts : proc'[m] # "live"
      /\ \A m \in Attempts : log'[m].term = log[m].term
  BY <1>1, <1>2, <1>5, <1>6, LateEvent
<1>8. CASE run' = Down
  BY <1>7, <1>8, DownOK DEF IInv
<1>9. CASE run' = Go("alternate")
  <2>1. SameAttempt(run') /\ run'.pc = "alternate"
    BY <1>3, <1>9, GoFacts, PcFacts DEF Between
  <2>2. MemoryOK(run)'
    BY <1>3, <1>7, <2>1, MemoryFrame DEF SameAttempt
  <2>3. AlternateOK(run)'
    <3>1. DepsDone(i)'
      BY <1>5, <1>7, SuccessDurable
    <3>2. OthersFailed(i, g)'
      BY <1>5, <1>7, PairFacts DEF OthersFailed
    <3>3. run'.item = i /\ run'.gen = g /\ claims' = claims
      BY <1>1, <1>4, <2>1 DEF SameAttempt
    <3>4. QED BY <1>5, <3>1, <3>2, <3>3 DEF AlternateOK, DepsDone, OthersFailed
  <2>4. QED BY <1>7, <2>1, <2>2, <2>3, BetweenStep DEF SameAttempt, Between
<1>10. QED BY <1>8, <1>9 DEF UnavailableEvent, Append

\* A fresh claim, of the generation after the last, with nothing half finished.
LEMMA ClaimStore ==
  ASSUME StoreInv, NEW k \in Attempts, claims[k] = "absent",
         \A m \in Attempts : Settled(m),
         k[2] = 0 \/ claims[<<k[1], k[2] - 1>>] # "absent",
         claims' = [claims EXCEPT ![k] = "open"], UNCHANGED <<eventLog, auth, world>>
  PROVE  /\ StoreInv' /\ Durable /\ claims'[k] = "open"
         /\ \A m \in Attempts : m # k => claims'[m] = claims[m]
<1>1. UNCHANGED <<log, streamOK, lastTerm, auth, proc, merged>>
  BY DEF eventLog, world
<1>2. /\ claims' \in [Attempts -> ClaimStates] /\ claims'[k] = "open"
      /\ \A m \in Attempts : m # k => claims'[m] = claims[m]
  BY DEF StoreInv, StoreTypes, ClaimStates
<1>3. AttemptOK(k) /\ log[k] = NoEvents /\ auth[k] = NoAuthority
  BY DEF StoreInv, AttemptOK
<1>4. AttemptStep(k)
  <2>1. StoreTypes'
    BY <1>1, <1>2 DEF StoreInv, StoreTypes
  <2>2. QED BY <1>1, <1>2, <2>1 DEF AttemptStep, ClaimTerminals
<1>5. AttemptOK(k)'
  BY <1>1, <1>2, <1>3 DEF AttemptOK, ClaimTerminals, NoAuthority
<1>6. QED BY <1>2, <1>4, <1>5, StoreStep

\* The attempt starts.
LEMMA ClaimStarts ==
  ASSUME IInv, run.pc \in Between, NEW i \in Items, NEW g \in Gens,
         claims[<<i, g>>] = "absent", g = 0 \/ claims[<<i, g - 1>>] # "absent",
         DepsDone(i), OthersFailed(i, g),
         claims' = [claims EXCEPT ![<<i, g>>] = "open"], UNCHANGED <<eventLog, auth, world>>,
         run' \in Runs, run'.pc = "claim_event", run'.item = i, run'.gen = g,
         run'.ev = run.ev, run'.want = run.want, run'.todo \subseteq run.todo
  PROVE  IInv'
<1>1. /\ run \in Runs /\ StoreInv /\ RunOK(run)
      /\ \A k \in Attempts : Settled(k)
      /\ \A k \in Attempts : proc[k] # "live"
  BY BetweenFacts
<1>2. PICK k \in Attempts : k = <<i, g>> /\ k[1] = i /\ k[2] = g
  BY PairFacts
<1>3. /\ StoreInv' /\ Durable /\ claims'[k] = "open"
      /\ \A m \in Attempts : m # k => claims'[m] = claims[m]
  BY <1>1, <1>2, ClaimStore
<1>4. UNCHANGED <<log, auth, proc>>
  BY DEF eventLog, world
<1>5. log[k] = NoEvents
  BY <1>1, <1>2 DEF StoreInv, AttemptOK
<1>6. MemoryOK(run)'
  BY <1>1, <1>3, MemoryFrame
<1>7. WorkOK(run)'
  <2>1. DepsDone(i)'
    BY <1>3, SuccessDurable
  <2>2. \A m \in Attempts : m # k => Settled(m)'
    BY <1>1, <1>3, <1>4 DEF Settled
  <2>3. OthersFailed(i, g)'
    BY <1>4 DEF OthersFailed
  <2>4. StageOK(run, k)'
    BY <1>3, <1>4, <1>5 DEF StageOK, NoEvents, Spawned, Closing
  <2>5. QED BY <1>2, <2>1, <2>2, <2>3, <2>4 DEF WorkOK, DepsDone, OthersFailed, StageOK
<1>8. /\ run'.pc \notin Between /\ run'.pc # "recover" /\ run'.pc \notin Starting
      /\ run'.pc \notin {"unavailable_event", "alternate"}
  BY DEF Between, Starting
<1>9. QED BY <1>1, <1>3, <1>4, <1>6, <1>7, <1>8
          DEF IInv, RunOK, RecoveryOK, LiveOK, QuietOK, AlternateOK

LEMMA AlternateClaimOK == ASSUME IInv, AlternateClaim PROVE IInv'
<1>1. run.pc = "alternate" /\ UNCHANGED <<eventLog, auth, world>>
  BY DEF AlternateClaim
<1>2. run.pc \in Between
  BY <1>1 DEF Between
<1>3. AlternateOK(run) /\ run \in Runs /\ StoreInv /\ \A m \in Attempts : Settled(m)
  BY <1>2, BetweenFacts DEF RunOK
<1>4. PICK i \in Items, g \in Gens : i = run.item /\ g = run.gen
  BY <1>1, <1>3 DEF AlternateOK, Runs
<1>5. /\ claims[<<i, g>>] \in {"failed", "cancelled"} /\ DepsDone(i) /\ OthersFailed(i, g)
  BY <1>1, <1>3, <1>4, PairFacts DEF AlternateOK
<1>6. CASE /\ Unclaimed(<<run.item, run.gen + 1>>)
           /\ claims' = [claims EXCEPT ![<<run.item, run.gen + 1>>] = "open"]
           /\ run' = [run EXCEPT !.pc = "claim_event", !.gen = @ + 1, !.alt = TRUE, !.fin = NoFin]
  <2>1. <<i, g + 1>> \in Attempts /\ claims[<<i, g + 1>>] = "absent"
    BY <1>4, <1>6 DEF Unclaimed
  <2>2. g + 1 \in Gens
    BY <2>1 DEF Attempts
  <2>3. (g + 1) - 1 = g
    BY GensFacts
  <2>4. OthersFailed(i, g + 1)
    <3>1. log[<<i, g>>].term # "succeeded"
      <4>1. AttemptOK(<<i, g>>)
        BY <1>3, PairFacts DEF StoreInv
      <4>2. QED BY <1>5, <4>1 DEF AttemptOK, ClaimTerminals
    <3>2. QED BY <1>5, <3>1 DEF OthersFailed
  <2>5. PICK n : n = g + 1
    OBVIOUS
  <2>6. run' = [run EXCEPT !.pc = "claim_event", !.gen = n, !.alt = TRUE, !.fin = NoFin]
    BY <1>4, <1>6, <2>5
  <2>7. NoFin \in Fins /\ "claim_event" \in Pcs
    BY PcFacts DEF NoFin, Fins, Terms, Working
  <2>8. /\ run' \in Runs /\ run'.pc = "claim_event" /\ run'.item = i /\ run'.gen = n
        /\ run'.ev = run.ev /\ run'.want = run.want /\ run'.todo = run.todo
    BY <1>3, <1>4, <2>2, <2>5, <2>6, <2>7 DEF Runs
  <2>9. n \in Gens /\ claims[<<i, n>>] = "absent" /\ claims[<<i, n - 1>>] # "absent"
    BY <1>5, <2>1, <2>2, <2>3, <2>5
  <2>10. OthersFailed(i, n) /\ claims' = [claims EXCEPT ![<<i, n>>] = "open"]
    BY <1>4, <1>6, <2>4, <2>5
  <2>11. QED BY <1>1, <1>2, <1>5, <2>8, <2>9, <2>10, ClaimStarts
<1>7. CASE run' = Down /\ UNCHANGED claims
  BY <1>1, <1>3, <1>7, StoreFrame, DownOK DEF IInv
<1>8. QED BY <1>6, <1>7 DEF AlternateClaim

----------------------------------------------------------------------------
(* The choice of a generation *)

\* The latest of some generations exists and is one of them.
LEMMA LatestOK ==
  ASSUME NEW S \in SUBSET (0 .. MaxGen + 1), S # {}
  PROVE  Latest(S) \in S
<1> DEFINE R == OpToRel(<, Nat)
<1> DEFINE T == {n \in Nat : \E g \in S : n = MaxGen + 1 - g}
<1>1. IsWellFoundedOn(R, Nat)
  BY NatLessThanWellFounded
<1>2. \A x, y \in Nat : x < y => <<x, y>> \in R
  BY DEF OpToRel
<1>3. MaxGen \in Nat /\ \A g \in S : g \in Nat /\ g <= MaxGen + 1 /\ MaxGen + 1 - g \in Nat
  BY RunConstants
<1>4. T \subseteq Nat /\ T # {}
  BY <1>3
<1>5. PICK x \in T : \A y \in T : ~ (<<y, x>> \in R)
  <2> HIDE DEF R, T
  <2>1. QED BY <1>1, <1>4, WFMin
<1>6. PICK g \in S : x = MaxGen + 1 - g
  OBVIOUS
<1>7. ASSUME NEW h \in S PROVE h <= g
  <2>1. MaxGen + 1 - h \in T
    BY <1>3
  <2>2. PICK y \in T : y = MaxGen + 1 - h
    BY <2>1
  <2>3. x \in Nat /\ y \in Nat /\ ~ (<<y, x>> \in R)
    BY <1>4, <1>5
  <2> HIDE DEF R, T
  <2>4. ~ (y < x)
    BY <2>3, <1>2
  <2>5. QED BY <1>3, <1>6, <2>2, <2>3, <2>4
<1>8. QED BY <1>7 DEF Latest

\* An attempt that some event names was claimed.
LEMMA SeenClaimed ==
  ASSUME StoreInv, NEW i \in Items, NEW g \in Gens,
         log[<<i, g>>].seen \/ log[<<i, g>>].int # "none"
  PROVE  claims[<<i, g>>] # "absent"
<1>1. AttemptOK(<<i, g>>)
  BY PairFacts DEF StoreInv
<1>2. QED BY <1>1 DEF AttemptOK, NoEvents

LEMMA LatestSeen ==
  ASSUME StoreInv, NEW i \in Items, SeenGens(i) # {}
  PROVE  Latest(SeenGens(i)) \in Gens /\ claims[<<i, Latest(SeenGens(i))>>] # "absent"
<1>1. SeenGens(i) \in SUBSET (0 .. MaxGen + 1)
  BY RunConstants DEF SeenGens, Gens
<1>2. Latest(SeenGens(i)) \in SeenGens(i)
  BY <1>1, LatestOK
<1>3. QED BY <1>2, SeenClaimed DEF SeenGens

\* The generation an item goes on with: the first, one that is claimed, or the
\* one after a claimed one.
Follows(i, g) ==
    \/ g = 0
    \/ g \in Gens /\ claims[<<i, g>>] # "absent"
    \/ g \in 1 .. MaxGen + 1 /\ claims[<<i, g - 1>>] # "absent"

LEMMA NextFollows ==
  ASSUME StoreInv, NEW i \in Items, NEW g \in NextAttemptGeneration(i)
  PROVE  g \in 0 .. MaxGen + 1 /\ Follows(i, g)
<1>1. SeenGens(i) # {}
  BY DEF NextAttemptGeneration
<1>2. PICK h : h = Latest(SeenGens(i))
  OBVIOUS
<1>3. h \in Gens /\ claims[<<i, h>>] # "absent"
  BY <1>1, <1>2, LatestSeen
<1>4. g = h \/ g = h + 1
  BY <1>1, <1>2 DEF NextAttemptGeneration
<1>5. h \in 0 .. MaxGen + 1 /\ h + 1 \in 0 .. MaxGen + 1 /\ h + 1 \in 1 .. MaxGen + 1 /\ (h + 1) - 1 = h
  BY <1>3, RunConstants DEF Gens
<1>6. QED BY <1>3, <1>4, <1>5 DEF Follows

LEMMA ChosenFollows ==
  ASSUME StoreInv, run \in Runs, MemoryOK(run), NEW i \in Items
  PROVE  Follows(i, ChosenGeneration(i))
<1> DEFINE W == IF run.want[i] # {} THEN run.want[i]
                ELSE IF NextAttemptGeneration(i) # {} THEN NextAttemptGeneration(i) ELSE {0}
<1>1. run.want[i] \in SUBSET (1 .. MaxGen + 1) /\ 1 .. MaxGen + 1 \subseteq 0 .. MaxGen + 1
  BY RunConstants DEF Runs
<1>2. \A g \in W : g \in 0 .. MaxGen + 1 /\ Follows(i, g)
  <2>1. ASSUME NEW g \in run.want[i] PROVE g \in 0 .. MaxGen + 1 /\ Follows(i, g)
    BY <1>1, <2>1 DEF MemoryOK, Follows
  <2>2. ASSUME NEW g \in NextAttemptGeneration(i) PROVE g \in 0 .. MaxGen + 1 /\ Follows(i, g)
    BY <2>2, NextFollows
  <2>3. 0 \in 0 .. MaxGen + 1 /\ Follows(i, 0)
    BY RunConstants DEF Follows
  <2>4. QED BY <2>1, <2>2, <2>3
<1>3. \E g \in 0 .. MaxGen + 1 : g \in W
  <2>1. W # {}
    OBVIOUS
  <2>2. QED BY <1>2, <2>1
<1>4. ChosenGeneration(i) = CHOOSE g \in 0 .. MaxGen + 1 : g \in W
  BY DEF ChosenGeneration
<1>5. ChosenGeneration(i) \in W
  <2> HIDE DEF W
  <2>1. QED BY <1>3, <1>4
<1>6. QED BY <1>2, <1>5

----------------------------------------------------------------------------
(* Waves, reuse and claims *)

LEMMA ReadyFacts ==
  ASSUME run \in Runs, MemoryOK(run), NEW i \in Ready
  PROVE  i \in Items /\ DepsDone(i)
<1>1. i \in Items /\ Lifecycle(Graph, run.ev, i) = "ready"
  BY DEF Ready, EvaluateReady, Items
<1>2. ASSUME NEW p \in HardPreds(Graph, i) PROVE HasSucceeded(p)
  <2>1. p \in Items
    BY PredsAreItems
  <2>2. ~Blocks(Graph, Effective(Graph, run.ev), i, p)
        /\ ~OptionalFailed(Graph, Effective(Graph, run.ev), i, p)
    BY <1>1 DEF Lifecycle
  <2>3. Effective(Graph, run.ev)[p] = "succeeded"
    BY <2>2 DEF Blocks
  <2>4. Graph.term[p] = "none"
    BY <2>1, RunConstants
  <2>5. run.ev[p] = "succeeded"
    BY <2>1, <2>3, <2>4 DEF Effective, Items
  <2>6. QED BY <2>1, <2>5 DEF MemoryOK
<1>3. QED BY <1>1, <1>2 DEF DepsDone

LEMMA WaveOK == ASSUME IInv, Wave PROVE IInv'
<1>1. run.pc = "wave" /\ UNCHANGED <<eventLog, claims, auth, world>>
  BY DEF Wave
<1>2. run.pc \in Between
  BY <1>1 DEF Between
<1>3. /\ run \in Runs /\ StoreInv /\ RunOK(run) /\ MemoryOK(run)
      /\ \A k \in Attempts : Settled(k) /\ proc[k] # "live"
  BY <1>2, BetweenFacts DEF RunOK
<1>4. StoreInv' /\ Durable
  BY <1>1, <1>3, StoreFrame
<1>5. ASSUME NEW members \in SUBSET Ready, run' = [run EXCEPT !.pc = "pick", !.todo = members]
      PROVE  IInv'
  <2>1. members \in SUBSET Items /\ \A i \in members : DepsDone(i)
    BY <1>3, ReadyFacts
  <2>2. "pick" \in Pcs
    BY PcFacts DEF Between
  <2>3. /\ run' \in Runs /\ run'.pc = "pick" /\ run'.ev = run.ev /\ run'.want = run.want
        /\ run'.todo = members
    BY <1>3, <1>5, <2>1, <2>2 DEF Runs
  <2>4. MemoryOK(run)'
    <3>1. UNCHANGED <<claims, merged>>
      BY <1>1 DEF world
    <3>2. \A i \in Items : (HasSucceeded(i) => HasSucceeded(i)') /\ (DepsDone(i) => DepsDone(i)')
      BY <1>4, SuccessDurable
    <3>3. \A i \in Items : run'.ev[i] = "succeeded" => HasSucceeded(i)'
      BY <1>3, <2>3, <3>2 DEF MemoryOK
    <3>4. \A i \in Items : \A g \in run'.want[i] : claims'[<<i, g - 1>>] # "absent"
      BY <1>3, <2>3, <3>1 DEF MemoryOK
    <3>5. \A i \in run'.todo : DepsDone(i)'
      BY <2>1, <2>3, <3>2
    <3>6. QED BY <3>3, <3>4, <3>5 DEF MemoryOK
  <2>5. \A k \in Attempts : Settled(k)' /\ proc'[k] # "live"
    BY <1>1, <1>3 DEF Settled, world
  <2>6. AlternateOK(run)' /\ run'.pc \in Between
    BY <2>3 DEF AlternateOK, Between
  <2>7. QED BY <1>4, <2>3, <2>4, <2>5, <2>6, BetweenStep
<1>6. CASE run' = Down
  BY <1>4, <1>6, DownOK DEF IInv
<1>7. QED BY <1>5, <1>6 DEF Wave

LEMMA WaveDoneOK == ASSUME IInv, WaveDone PROVE IInv'
<1>1. /\ run.pc = "pick" /\ UNCHANGED <<eventLog, claims, auth, world>> /\ run' = Go("wave")
  BY DEF WaveDone
<1>2. run.pc \in Between
  BY <1>1 DEF Between
<1>3. /\ run \in Runs /\ StoreInv /\ RunOK(run)
      /\ \A k \in Attempts : Settled(k) /\ proc[k] # "live"
  BY <1>2, BetweenFacts
<1>4. StoreInv' /\ Durable
  BY <1>1, <1>3, StoreFrame
<1>5. SameAttempt(run') /\ run'.pc = "wave"
  BY <1>1, <1>3, GoFacts, PcFacts DEF Between
<1>6. MemoryOK(run)'
  BY <1>3, <1>4, <1>5, MemoryFrame DEF SameAttempt
<1>7. \A k \in Attempts : Settled(k)' /\ proc'[k] # "live"
  BY <1>1, <1>3 DEF Settled, world
<1>8. AlternateOK(run)' /\ run'.pc \in Between
  BY <1>5 DEF AlternateOK, Between
<1>9. QED BY <1>4, <1>5, <1>6, <1>7, <1>8, BetweenStep DEF SameAttempt

LEMMA ReusableFacts ==
  ASSUME StoreInv, NEW i \in Items, NEW k, k \in SucceededAttempts(i) \/ k \in Reused(i)
  PROVE  /\ k \in Attempts /\ claims[k] \in ClaimTerminals
         /\ claims[k] = "succeeded" => HasSucceeded(i)
<1>1. k \in Attempts /\ k[1] = i /\ claims[k] \in ClaimTerminals
  <2>1. CASE k \in SucceededAttempts(i)
    <3>1. k \in {i} \X Gens /\ claims[k] = "succeeded"
      BY <2>1 DEF SucceededAttempts
    <3>2. QED BY <3>1 DEF Attempts, ClaimTerminals
  <2>2. CASE k \in Reused(i) /\ k \notin SucceededAttempts(i)
    <3>1. k = <<i, ChosenGeneration(i)>> /\ k \in Attempts /\ claims[k] \in ClaimTerminals
      BY <2>2 DEF Reused
    <3>2. QED BY <3>1
  <2>3. QED BY <2>1, <2>2
<1>2. k[2] \in Gens /\ k = <<i, k[2]>>
  BY <1>1, AttemptFacts
<1>3. AttemptOK(k)
  BY <1>1 DEF StoreInv
<1>4. claims[k] = "succeeded" => (Integrates => k \in merged)
  BY <1>1, <1>3 DEF AttemptOK
<1>5. QED BY <1>1, <1>2, <1>4 DEF HasSucceeded

LEMMA ReuseOK == ASSUME IInv, Reuse PROVE IInv'
<1>1. UNCHANGED <<claims, auth, world>>
  BY DEF Reuse
<1>2. PICK i \in Items :
         /\ Picked(i)
         /\ \E k \in SucceededAttempts(i) \cup Reused(i) :
               Append(k, "reuse", "none", "none", TakeReused(i, ReusedTerminal(k)), Down)
  BY DEF Reuse
<1> PICK k \in SucceededAttempts(i) \cup Reused(i) :
       Append(k, "reuse", "none", "none", TakeReused(i, ReusedTerminal(k)), Down)
  BY <1>2
<1>3. run.pc = "pick" /\ run.pc \in Between
  BY <1>2 DEF Picked, Between
<1>4. run \in Runs /\ StoreInv /\ RunOK(run)
  BY <1>3, BetweenFacts
<1>5. /\ k \in Attempts /\ claims[k] \in ClaimTerminals /\ claims[k] # "absent"
      /\ claims[k] = "succeeded" => HasSucceeded(i)
  BY <1>4, ReusableFacts DEF ClaimTerminals
<1>6. /\ StoreInv' /\ Durable
      /\ \A m \in Attempts : Settled(m)'
      /\ \A m \in Attempts : proc'[m] # "live"
  BY <1>1, <1>2, <1>3, <1>5, LateEvent DEF Append
<1>7. CASE run' = Down
  BY <1>6, <1>7, DownOK DEF IInv
<1>8. CASE run' = TakeReused(i, ReusedTerminal(k))
  <2>1. PICK t \in Terms : t = claims[k]
    BY <1>5 DEF Terms
  <2>2. PICK e : e = [run.ev EXCEPT ![i] = t]
    OBVIOUS
  <2>3. PICK todo : todo = run.todo \ {i}
    OBVIOUS
  <2>4. e \in [Items -> Terms] /\ todo \in SUBSET Items
    BY <1>4, <2>2, <2>3 DEF Runs
  <2>5. run' = [run EXCEPT !.todo = todo, !.ev = e]
    BY <1>4, <1>8, <2>1, <2>2, <2>3 DEF TakeReused, ReusedTerminal, Runs
  <2>6. /\ run' \in Runs /\ run'.pc = "pick" /\ run'.want = run.want /\ run'.todo = todo
        /\ run'.ev = e
    BY <1>3, <1>4, <2>4, <2>5 DEF Runs
  <2>7. t = "succeeded" => HasSucceeded(i)'
    BY <1>5, <1>6, <2>1, SuccessDurable
  <2>8. MemoryOK(run)'
    BY <1>4, <1>6, <2>2, <2>3, <2>6, <2>7, EvidenceMemory
  <2>9. AlternateOK(run)' /\ run'.pc \in Between
    BY <2>6 DEF AlternateOK, Between
  <2>10. QED BY <1>6, <2>6, <2>8, <2>9, BetweenStep
<1>9. QED BY <1>2, <1>7, <1>8 DEF Append

\* A claim is taken only for an item without a success, one generation up.
LEMMA ClaimableFacts ==
  ASSUME StoreInv, run \in Runs, MemoryOK(run), \A k \in Attempts : Settled(k),
         NEW i \in Items, Claimable(i), NEW g, g = ChosenGeneration(i)
  PROVE  /\ g \in Gens /\ claims[<<i, g>>] = "absent"
         /\ g = 0 \/ claims[<<i, g - 1>>] # "absent"
         /\ OthersFailed(i, g)
<1>1. /\ g \in Gens /\ Reused(i) = {} /\ \A h \in Gens : claims[<<i, h>>] # "open"
  BY DEF Claimable
<1>2. SucceededAttempts(i) = {} /\ claims[<<i, g>>] \notin ClaimTerminals
  <2>1. SucceededAttempts(i) = {}
    BY <1>1 DEF Reused
  <2>2. <<i, g>> \in Attempts
    BY <1>1, PairFacts
  <2>3. QED BY <1>1, <2>1, <2>2 DEF Reused
<1>3. claims[<<i, g>>] = "absent"
  <2>1. claims[<<i, g>>] \in ClaimStates
    BY <1>1, PairFacts DEF StoreInv, StoreTypes
  <2>2. QED BY <1>1, <1>2, <2>1 DEF ClaimStates
<1>4. g = 0 \/ claims[<<i, g - 1>>] # "absent"
  BY <1>3, ChosenFollows DEF Follows
<1>5. OthersFailed(i, g)
  <2> SUFFICES ASSUME NEW h \in Gens PROVE log[<<i, h>>].term # "succeeded"
    BY DEF OthersFailed
  <2>1. <<i, h>> \in Attempts /\ <<i, h>> \in {i} \X Gens
    BY PairFacts
  <2>2. AttemptOK(<<i, h>>) /\ Settled(<<i, h>>) /\ claims[<<i, h>>] # "succeeded"
    BY <1>2, <2>1 DEF StoreInv, SucceededAttempts
  <2>3. QED BY <2>2 DEF AttemptOK, Settled, NoEvents
<1>6. QED BY <1>1, <1>3, <1>4, <1>5

LEMMA ClaimOK == ASSUME IInv, Claim PROVE IInv'
<1>1. UNCHANGED <<eventLog, auth, world>>
  BY DEF Claim
<1>2. PICK i \in Items :
         /\ Picked(i)
         /\ \/ /\ Claimable(i)
               /\ claims' = [claims EXCEPT ![<<i, ChosenGeneration(i)>>] = "open"]
               /\ run' = [run EXCEPT !.pc = "claim_event", !.todo = @ \ {i}, !.item = i,
                                     !.gen = ChosenGeneration(i), !.alt = FALSE, !.fin = NoFin]
            \/ run' = Down /\ UNCHANGED claims
  BY DEF Claim
<1>3. run.pc = "pick" /\ run.pc \in Between /\ i \in run.todo
  BY <1>2 DEF Picked, Between, First
<1>4. /\ run \in Runs /\ StoreInv /\ MemoryOK(run) /\ \A k \in Attempts : Settled(k)
  BY <1>3, BetweenFacts DEF RunOK
<1>5. CASE /\ Claimable(i)
           /\ claims' = [claims EXCEPT ![<<i, ChosenGeneration(i)>>] = "open"]
           /\ run' = [run EXCEPT !.pc = "claim_event", !.todo = @ \ {i}, !.item = i,
                                 !.gen = ChosenGeneration(i), !.alt = FALSE, !.fin = NoFin]
  <2>1. PICK g : g = ChosenGeneration(i)
    OBVIOUS
  <2>2. /\ g \in Gens /\ claims[<<i, g>>] = "absent"
        /\ g = 0 \/ claims[<<i, g - 1>>] # "absent"
        /\ OthersFailed(i, g)
    BY <1>4, <1>5, <2>1, ClaimableFacts
  <2>3. PICK todo : todo = run.todo \ {i}
    OBVIOUS
  <2>4. run' = [run EXCEPT !.pc = "claim_event", !.todo = todo, !.item = i,
                           !.gen = g, !.alt = FALSE, !.fin = NoFin]
    BY <1>5, <2>1, <2>3
  <2>5. NoFin \in Fins /\ "claim_event" \in Pcs /\ todo \in SUBSET Items /\ todo \subseteq run.todo
    BY <1>4, <2>3, PcFacts DEF NoFin, Fins, Terms, Working, Runs
  <2>6. /\ run' \in Runs /\ run'.pc = "claim_event" /\ run'.item = i /\ run'.gen = g
        /\ run'.ev = run.ev /\ run'.want = run.want /\ run'.todo = todo
    BY <1>4, <2>2, <2>4, <2>5 DEF Runs
  <2>7. DepsDone(i)
    BY <1>3, <1>4 DEF MemoryOK
  <2>8. claims' = [claims EXCEPT ![<<i, g>>] = "open"]
    BY <1>5, <2>1
  <2>9. QED BY <1>1, <1>3, <2>2, <2>5, <2>6, <2>7, <2>8, ClaimStarts
<1>6. CASE run' = Down /\ UNCHANGED claims
  BY <1>1, <1>4, <1>6, StoreFrame, DownOK DEF IInv
<1>7. QED BY <1>2, <1>5, <1>6

----------------------------------------------------------------------------
(* Start of an Execute *)

LEMMA StartingStep ==
  ASSUME StoreInv', run' \in Runs, MemoryOK(run)', run'.pc \in Starting,
         run'.pc = "resume" => Resumes
  PROVE  IInv'
<1>1. /\ run'.pc \notin Working /\ run'.pc # "recover" /\ run'.pc \notin Between
      /\ run'.pc \notin {"unavailable_event", "alternate"}
  BY PcFacts DEF Between
<1>2. QED BY <1>1 DEF IInv, RunOK, RecoveryOK, LiveOK, QuietOK, AlternateOK, WorkOK

LEMMA StartOK == ASSUME IInv, Start PROVE IInv'
<1>1. StoreInv'
  BY StoreFrame DEF IInv, Start
<1>2. PICK p \in {"resume", "validate"} : run' = [Down EXCEPT !.pc = p] /\ (p = "resume" => Resumes)
  BY DEF Start
<1>3. p \in Pcs /\ p \in Starting
  BY DEF Pcs, Starting
<1>4. run' \in Runs /\ run'.pc = p /\ run'.ev = Down.ev /\ run'.want = Down.want /\ run'.todo = Down.todo
  BY <1>2, <1>3, DownType DEF Runs
<1>5. MemoryOK(run)'
  BY <1>4 DEF MemoryOK, Down
<1>6. QED BY <1>1, <1>2, <1>3, <1>4, <1>5, StartingStep

LEMMA SoftInterruptOK == ASSUME IInv, SoftInterrupt PROVE IInv'
<1>1. run.pc = "resume" /\ UNCHANGED <<claims, auth, world>>
  BY DEF SoftInterrupt
<1>2. PICK k \in Attempts :
         /\ OpenLaunch(k)
         /\ Append(k, "interrupt", "soft", "none", run, Down)
  BY DEF SoftInterrupt, First
<1>3. StoreInv /\ RunOK(run) /\ run \in Runs /\ Resumes /\ AttemptOK(k)
  BY <1>1 DEF IInv, RunOK, RecoveryOK, StoreInv
<1>4. EventOK(k, "interrupt", "soft", "none")
  BY <1>2, <1>3 DEF EventOK, Kinds, OpenLaunch, Ended, AttemptOK, NoEvents
<1>5. StoreInv' /\ Durable
  <2>1. UNCHANGED <<claims, auth, proc, merged>>
    BY <1>1 DEF world
  <2>2. CASE Written(k, "interrupt", "soft", "none")
    BY <1>3, <1>4, <2>1, <2>2, WrittenOK
  <2>3. CASE UNCHANGED eventLog
    BY <1>1, <1>3, <2>3, StoreFrame
  <2>4. QED BY <1>2, <2>2, <2>3 DEF Append
<1>6. CASE run' = Down
  BY <1>5, <1>6, DownOK DEF IInv
<1>7. CASE run' = run
  <2>1. MemoryOK(run)'
    BY <1>3, <1>5, <1>7, MemoryFrame
  <2>2. QED BY <1>1, <1>3, <1>5, <1>7, <2>1, StartingStep DEF Starting
<1>8. QED BY <1>2, <1>6, <1>7 DEF Append

\* The generation a resumed run asks for comes after a claimed one.
LEMMA ResumeFollows ==
  ASSUME StoreInv, NEW i \in Items, NEW g \in ResumeGeneration(i)
  PROVE  g \in 1 .. MaxGen + 1 /\ claims[<<i, g - 1>>] # "absent"
<1> DEFINE next == {h + 1 : h \in AbortedGens(i)} \cup FailedRetry(i)
<1> DEFINE After(n) == n \in 1 .. MaxGen + 1 /\ claims[<<i, n - 1>>] # "absent"
<1>1. ASSUME NEW h \in Gens, claims[<<i, h>>] # "absent" PROVE After(h + 1)
  <2>1. h + 1 \in 1 .. MaxGen + 1 /\ (h + 1) - 1 = h
    BY <1>1, RunConstants DEF Gens
  <2>2. QED BY <1>1, <2>1
<1>2. ASSUME NEW h \in AbortedGens(i) PROVE After(h + 1)
  <2> DEFINE hit == {m \in Gens : log[<<i, m>>].int # "none"}
  <2>1. hit # {} /\ h = Latest(hit)
    BY <1>2 DEF AbortedGens
  <2>2. hit \in SUBSET (0 .. MaxGen + 1)
    BY RunConstants DEF Gens
  <2>3. h \in hit
    <3> HIDE DEF hit
    <3>1. QED BY <2>1, <2>2, LatestOK
  <2>4. h \in Gens /\ claims[<<i, h>>] # "absent"
    BY <2>3, SeenClaimed
  <2>5. QED BY <1>1, <2>4
<1>3. ASSUME NEW n \in FailedRetry(i) PROVE After(n)
  <2>1. lastTerm[i] # "none" /\ n = Latest(SeenGens(i)) + 1
    BY <1>3 DEF FailedRetry
  <2>2. SeenGens(i) # {}
    BY <2>1 DEF StoreInv, LastSeen, SeenGens
  <2>3. QED BY <1>1, <2>1, <2>2, LatestSeen
<1>4. \A n \in next : After(n)
  BY <1>2, <1>3
<1>5. next # {} /\ g = Latest(next)
  BY DEF ResumeGeneration
<1>6. next \in SUBSET (0 .. MaxGen + 1)
  <2>1. 1 .. MaxGen + 1 \subseteq 0 .. MaxGen + 1
    BY RunConstants
  <2>2. QED BY <1>4, <2>1
<1>7. g \in next
  <2> HIDE DEF next
  <2>1. QED BY <1>5, <1>6, LatestOK
<1>8. QED BY <1>4, <1>7

LEMMA ResumeOK == ASSUME IInv, Resume PROVE IInv'
<1>1. run.pc = "resume" /\ UNCHANGED <<eventLog, claims, auth, world>>
  BY DEF Resume
<1>2. StoreInv /\ RunOK(run) /\ run \in Runs /\ MemoryOK(run)
  BY DEF IInv, RunOK
<1>3. StoreInv' /\ Durable
  BY <1>1, <1>2, StoreFrame
<1>4. CASE run' = Down
  BY <1>3, <1>4, DownOK DEF IInv
<1>5. ASSUME NEW prior \in SUBSET Items,
             run' = [run EXCEPT !.pc = "validate", !.prior = prior,
                                !.want = [i \in Items |-> ResumeGeneration(i)]]
      PROVE  IInv'
  <2>1. PICK w : w = [i \in Items |-> ResumeGeneration(i)]
    OBVIOUS
  <2>2. /\ w \in [Items -> SUBSET (1 .. MaxGen + 1)]
        /\ \A i \in Items : \A g \in w[i] : claims[<<i, g - 1>>] # "absent"
    BY <1>2, <2>1, ResumeFollows
  <2>3. run' = [run EXCEPT !.pc = "validate", !.prior = prior, !.want = w] /\ "validate" \in Pcs
    BY <1>5, <2>1, PcFacts DEF Starting
  <2>4. /\ run' \in Runs /\ run'.pc = "validate" /\ run'.ev = run.ev /\ run'.want = w
        /\ run'.todo = run.todo
    BY <1>2, <2>2, <2>3 DEF Runs
  <2>5. MemoryOK(run)'
    <3>1. UNCHANGED <<claims, merged>> /\ run.todo \subseteq Items
      BY <1>1, <1>2 DEF world, Runs
    <3>2. \A i \in Items : (HasSucceeded(i) => HasSucceeded(i)') /\ (DepsDone(i) => DepsDone(i)')
      BY <1>3, SuccessDurable
    <3>3. \A i \in Items : run'.ev[i] = "succeeded" => HasSucceeded(i)'
      BY <1>2, <2>4, <3>2 DEF MemoryOK
    <3>4. \A i \in Items : \A g \in run'.want[i] : claims'[<<i, g - 1>>] # "absent"
      BY <2>2, <2>4, <3>1
    <3>5. \A i \in run'.todo : DepsDone(i)'
      BY <1>2, <2>4, <3>1, <3>2 DEF MemoryOK
    <3>6. QED BY <3>3, <3>4, <3>5 DEF MemoryOK
  <2>6. QED BY <1>3, <2>4, <2>5, StartingStep DEF Starting
<1>6. QED BY <1>4, <1>5 DEF Resume

----------------------------------------------------------------------------
(* Recovery *)

\* Providers only die.
LEMMA DyingStore ==
  ASSUME StoreInv, UNCHANGED <<eventLog, claims, auth, merged>>,
         proc' \in [Attempts -> {"none", "live", "dead"}],
         \A k \in Attempts : proc'[k] = proc[k] \/ (proc[k] = "live" /\ proc'[k] = "dead")
  PROVE  StoreInv' /\ Durable
<1>1. UNCHANGED <<log, streamOK, lastTerm, claims, auth, merged>>
  BY DEF eventLog
<1>2. Durable
  BY <1>1 DEF Durable
<1>3. \A k \in Attempts : AttemptOK(k)'
  BY <1>1 DEF StoreInv, AttemptOK
<1>4. StoreTypes' /\ NoGaps' /\ LastSeen'
  BY <1>1 DEF StoreInv, StoreTypes, NoGaps, LastSeen
<1>5. GenerationsSerial' /\ DepsFirst'
  BY <1>1 DEF StoreInv, GenerationsSerial, DepsFirst
<1>6. SingleProvider'
  BY DEF StoreInv, SingleProvider
<1>7. QED BY <1>2, <1>3, <1>4, <1>5, <1>6 DEF StoreInv

LEMMA KilledFacts ==
  ASSUME StoreInv
  PROVE  /\ Killed \in [Attempts -> {"none", "live", "dead"}]
         /\ \A k \in Attempts : Killed[k] = proc[k] \/ (proc[k] = "live" /\ Killed[k] = "dead")
<1>1. proc \in [Attempts -> {"none", "live", "dead"}]
  BY DEF StoreInv, StoreTypes
<1>2. QED BY <1>1 DEF Killed

\* What the verdict of an attempt that is not rejected says of it.
LEMMA VerdictFacts ==
  ASSUME StoreInv, NEW k \in Attempts, Candidate(k), Recoverable(k)
  PROVE  /\ Verdict(k) # "done" => Verdict(k) \in Modes /\ FrozenOK(k, Verdict(k))
         /\ Verdict(k) = "done" => ~Needs(k)
         /\ proc[k] = "live" => Verdict(k) = "hard"
<1>1. Verdict(k) # "reject"
  BY DEF Recoverable
<1>2. log[k] \in LogFacts /\ AttemptOK(k)
  BY DEF StoreInv, StoreTypes
<1>3. /\ StoresCoherent(k) /\ log[k].int # "soft"
  BY <1>1 DEF Verdict
<1>4. Verdict(k) \in {"reject", "normal", "hard", "prepid", "done"}
  <2>1. CASE log[k].term # "none"
    BY <1>2, <2>1 DEF Verdict, LogFacts
  <2>2. CASE log[k].term = "none"
    BY <1>2, <2>2 DEF Verdict, LogFacts
  <2>3. QED BY <2>1, <2>2
<1>5. Verdict(k) = "done" => ~Needs(k)
  BY <1>1 DEF Verdict
<1>6. Verdict(k) = "hard" /\ log[k].term = "none" => log[k].pid /\ log[k].int \in {"none", "hard"}
  BY <1>1, <1>2, <1>3 DEF Verdict, LogFacts
<1>7. Verdict(k) = "prepid" => ~log[k].pid
  BY <1>1, <1>2 DEF Verdict, LogFacts
<1>8. proc[k] = "live" => Verdict(k) = "hard"
  BY <1>2 DEF Recoverable, Needs, AttemptOK
<1>9. QED BY <1>1, <1>3, <1>4, <1>5, <1>6, <1>7, <1>8 DEF Modes, FrozenOK, StoresCoherent

LEMMA FrozenFacts ==
  ASSUME StoreInv, ~Rejected
  PROVE  /\ Frozen \in SUBSET (Attempts \X Modes)
         /\ \A k \in Attempts, mode \in Modes : <<k, mode>> \in Frozen => FrozenOK(k, mode)
         /\ \A k \in Attempts : claims[k] # "absent" /\ Needs(k) =>
               \E mode \in Modes : <<k, mode>> \in Frozen
         /\ \A k \in Attempts : Killed[k] # "live"
<1>1. \A k \in Attempts : Candidate(k) => Recoverable(k)
  BY DEF Rejected
<1>2. ASSUME NEW k \in Attempts, Candidate(k)
      PROVE  /\ Verdict(k) # "done" => Verdict(k) \in Modes /\ FrozenOK(k, Verdict(k))
             /\ Verdict(k) = "done" => ~Needs(k)
             /\ proc[k] = "live" => Verdict(k) = "hard"
  BY <1>1, <1>2, VerdictFacts
<1>3. \A x \in Frozen : \E k \in Attempts :
         x = <<k, Verdict(k)>> /\ Candidate(k) /\ Verdict(k) # "done"
  BY DEF Frozen
<1>4. ASSUME NEW k \in Attempts, Candidate(k), Verdict(k) # "done"
      PROVE  <<k, Verdict(k)>> \in Frozen
  BY <1>4 DEF Frozen
<1>5. Frozen \in SUBSET (Attempts \X Modes)
  BY <1>2, <1>3
<1>6. \A k \in Attempts, mode \in Modes : <<k, mode>> \in Frozen => FrozenOK(k, mode)
  BY <1>2, <1>3
<1>7. \A k \in Attempts : claims[k] # "absent" /\ Needs(k) =>
         \E mode \in Modes : <<k, mode>> \in Frozen
  BY <1>2, <1>4 DEF Candidate
<1>8. \A k \in Attempts : Killed[k] # "live"
  <2> SUFFICES ASSUME NEW k \in Attempts PROVE Killed[k] # "live"
    OBVIOUS
  <2>1. CASE proc[k] = "live"
    <3>1. log[k].launch
      BY <2>1 DEF StoreInv, AttemptOK
    <3>2. Candidate(k)
      BY <3>1 DEF Candidate
    <3>3. Verdict(k) = "hard"
      BY <1>2, <2>1, <3>2
    <3>4. <<k, "hard">> \in Frozen
      BY <1>4, <3>2, <3>3
    <3>5. QED BY <2>1, <3>4 DEF Killed
  <2>2. CASE proc[k] # "live"
    BY <2>2 DEF Killed
  <2>3. QED BY <2>1, <2>2
<1>9. QED BY <1>5, <1>6, <1>7, <1>8

\* The Execute is recovering: no provider is alive, and what is not settled is
\* on its list.
LEMMA RecoverStep ==
  ASSUME StoreInv', run' \in Runs, MemoryOK(run)', run'.pc = "recover",
         \A k \in Attempts : proc'[k] # "live",
         \A k \in Attempts, mode \in Modes : <<k, mode>> \in run'.recov => FrozenOK(k, mode)',
         \A k \in Attempts : claims'[k] # "absent" /\ Needs(k)' =>
            \E mode \in Modes : <<k, mode>> \in run'.recov
  PROVE  IInv'
<1>1. /\ run'.pc \notin Working /\ run'.pc \notin Between
      /\ run'.pc \notin {"unavailable_event", "alternate", "resume"}
  BY PcFacts DEF Between, Starting
<1>2. QED BY <1>1 DEF IInv, RunOK, RecoveryOK, LiveOK, QuietOK, AlternateOK, WorkOK

LEMMA ValidateOK == ASSUME IInv, Validate PROVE IInv'
<1>1. run.pc = "validate" /\ UNCHANGED <<eventLog, claims, auth, merged>>
  BY DEF Validate
<1>2. StoreInv /\ RunOK(run) /\ run \in Runs
  BY DEF IInv, RunOK
<1>3. StoreInv' /\ Durable
  <2>1. proc' = proc \/ proc' = Killed
    BY DEF Validate
  <2>2. /\ proc' \in [Attempts -> {"none", "live", "dead"}]
        /\ \A k \in Attempts : proc'[k] = proc[k] \/ (proc[k] = "live" /\ proc'[k] = "dead")
    BY <1>2, <2>1, KilledFacts DEF StoreInv, StoreTypes
  <2>3. QED BY <1>1, <1>2, <2>2, DyingStore
<1>4. CASE run' = Down
  BY <1>3, <1>4, DownOK DEF IInv
<1>5. CASE /\ ~Rejected /\ proc' = Killed
           /\ run' = [run EXCEPT !.pc = "recover", !.recov = Frozen]
  <2>1. PICK fr : fr = Frozen
    OBVIOUS
  <2>2. /\ fr \in SUBSET (Attempts \X Modes)
        /\ \A k \in Attempts, mode \in Modes : <<k, mode>> \in fr => FrozenOK(k, mode)
        /\ \A k \in Attempts : claims[k] # "absent" /\ Needs(k) =>
              \E mode \in Modes : <<k, mode>> \in fr
        /\ \A k \in Attempts : proc'[k] # "live"
    BY <1>2, <1>5, <2>1, FrozenFacts
  <2>3. run' = [run EXCEPT !.pc = "recover", !.recov = fr] /\ "recover" \in Pcs
    BY <1>5, <2>1, PcFacts
  <2>4. /\ run' \in Runs /\ run'.pc = "recover" /\ run'.recov = fr
        /\ run'.ev = run.ev /\ run'.want = run.want /\ run'.todo = run.todo
    BY <1>2, <2>2, <2>3 DEF Runs
  <2>5. MemoryOK(run)'
    BY <1>2, <1>3, <2>4, MemoryFrame
  <2>6. /\ \A k \in Attempts, mode \in Modes : FrozenOK(k, mode) => FrozenOK(k, mode)'
        /\ \A k \in Attempts : Needs(k)' => Needs(k)
    BY <1>1 DEF FrozenOK, Needs, eventLog
  <2>7. claims' = claims
    BY <1>1
  <2>8. QED BY <1>3, <2>2, <2>4, <2>5, <2>6, <2>7, RecoverStep
<1>6. QED BY <1>4, <1>5 DEF Validate

\* What holds while recovery goes through its list.
LEMMA RecoveringFacts ==
  ASSUME IInv, run.pc = "recover"
  PROVE  /\ StoreInv /\ RunOK(run) /\ run \in Runs
         /\ \A k \in Attempts : proc[k] # "live"
         /\ \A k \in Attempts, mode \in Modes : <<k, mode>> \in run.recov => FrozenOK(k, mode)
         /\ \A k \in Attempts : claims[k] # "absent" /\ Needs(k) =>
               \E mode \in Modes : <<k, mode>> \in run.recov
<1>1. run.pc \notin Starting /\ run.pc \notin Spawned
  BY DEF Starting, Spawned
<1>2. QED BY <1>1 DEF IInv, RunOK, RecoveryOK, LiveOK

\* A write of recovery for an attempt of its list, after which it goes on or
\* gives up.
LEMMA RecoverWrite ==
  ASSUME IInv, run.pc = "recover", NEW k \in Attempts, NEW mode \in Modes, <<k, mode>> \in run.recov,
         StoreInv', Durable, UNCHANGED world,
         \A m \in Attempts : m # k => log'[m] = log[m] /\ claims'[m] = claims[m] /\ auth'[m] = auth[m],
         log'[k].pid <=> log[k].pid,
         log'[k].term = "none" => log[k].term = "none" /\ log'[k].int \in {log[k].int, "hard"},
         run' = run \/ run' = Down
  PROVE  IInv'
<1>1. /\ RunOK(run) /\ run \in Runs
      /\ \A m \in Attempts : proc[m] # "live"
      /\ \A m \in Attempts, md \in Modes : <<m, md>> \in run.recov => FrozenOK(m, md)
      /\ \A m \in Attempts : claims[m] # "absent" /\ Needs(m) =>
            \E md \in Modes : <<m, md>> \in run.recov
  BY RecoveringFacts
<1>2. CASE run' = Down
  BY <1>2, DownOK DEF IInv
<1>3. CASE run' = run
  <2>1. MemoryOK(run)'
    BY <1>1, <1>3, MemoryFrame
  <2>2. \A m \in Attempts, md \in Modes : <<m, md>> \in run'.recov => FrozenOK(m, md)'
    <3>1. ASSUME NEW m \in Attempts, NEW md \in Modes, FrozenOK(m, md), m # k
          PROVE  FrozenOK(m, md)'
      BY <3>1 DEF FrozenOK
    <3>2. ASSUME NEW md \in Modes, FrozenOK(k, md) PROVE FrozenOK(k, md)'
      BY <3>2 DEF FrozenOK, Durable
    <3>3. QED BY <1>1, <1>3, <3>1, <3>2
  <2>3. \A m \in Attempts : claims'[m] # "absent" /\ Needs(m)' =>
           \E md \in Modes : <<m, md>> \in run'.recov
    <3>1. ASSUME NEW m \in Attempts, m # k, Needs(m)' PROVE Needs(m)
      BY <3>1 DEF Needs
    <3>2. QED BY <1>1, <1>3, <3>1
  <2>4. \A m \in Attempts : proc'[m] # "live"
    BY <1>1 DEF world
  <2>5. QED BY <1>1, <1>3, <2>1, <2>2, <2>3, <2>4, RecoverStep
<1>4. QED BY <1>2, <1>3

LEMMA RecoveringPicked ==
  ASSUME IInv, NEW k \in Attempts, NEW mode \in Modes, Recovering(k, mode)
  PROVE  /\ run.pc = "recover" /\ <<k, mode>> \in run.recov /\ FrozenOK(k, mode)
         /\ StoreInv /\ AttemptOK(k) /\ claims[k] # "absent" /\ proc[k] # "live"
         /\ log[k] \in LogFacts /\ auth[k] \in Rows /\ claims[k] \in ClaimStates
<1>1. run.pc = "recover" /\ <<k, mode>> \in run.recov
  BY DEF Recovering, First
<1>2. StoreInv /\ FrozenOK(k, mode) /\ proc[k] # "live"
  BY <1>1, RecoveringFacts
<1>3. QED BY <1>1, <1>2 DEF StoreInv, StoreTypes, FrozenOK

\* The phase of a row catches up with its pid event.
LEMMA PhaseStore ==
  ASSUME StoreInv, NEW k \in Attempts, claims[k] # "absent", NeedsPhase(k),
         Transition(k, "pid_event_persisted"), UNCHANGED <<eventLog, claims, world>>
  PROVE  /\ StoreInv' /\ Durable
         /\ \A m \in Attempts : m # k => auth'[m] = auth[m]
<1>1. UNCHANGED <<log, streamOK, lastTerm, claims, proc, merged>>
  BY DEF eventLog, world
<1>2. /\ AttemptOK(k) /\ auth[k] \in Rows /\ auth \in [Attempts -> Rows]
      /\ log[k].pid /\ auth[k].phase = "authority_persisted" /\ auth[k].done = "none"
  BY DEF StoreInv, StoreTypes, NeedsPhase
<1>3. PICK row : row = [auth[k] EXCEPT !.phase = "pid_event_persisted"]
  OBVIOUS
<1>4. row \in Rows /\ row.done = "none" /\ row.phase = "pid_event_persisted"
  BY <1>2, <1>3 DEF Rows, Phases
<1>5. auth' = [auth EXCEPT ![k] = row]
  BY <1>2, <1>3 DEF Transition
<1>6. auth' \in [Attempts -> Rows] /\ auth'[k] = row /\ \A m \in Attempts : m # k => auth'[m] = auth[m]
  BY <1>2, <1>4, <1>5
<1>7. AttemptStep(k)
  <2>1. StoreTypes'
    BY <1>1, <1>6 DEF StoreInv, StoreTypes
  <2>2. ~Settled(k)
    BY <1>2 DEF Settled, NoAuthority
  <2>3. QED BY <1>1, <1>6, <2>1, <2>2 DEF AttemptStep
<1>8. AttemptOK(k)'
  BY <1>1, <1>2, <1>4, <1>6 DEF AttemptOK
<1>9. QED BY <1>6, <1>7, <1>8, StoreStep

LEMMA RecoverPhaseOK == ASSUME IInv, RecoverPhase PROVE IInv'
<1>1. UNCHANGED <<eventLog, claims, world>>
  BY DEF RecoverPhase
<1>2. PICK k \in Attempts, mode \in Modes :
         /\ Recovering(k, mode) /\ NeedsPhase(k)
         /\ \/ Transition(k, "pid_event_persisted") /\ UNCHANGED run
            \/ run' = Down /\ UNCHANGED auth
  BY DEF RecoverPhase, Modes
<1>3. run.pc = "recover" /\ <<k, mode>> \in run.recov /\ StoreInv /\ claims[k] # "absent"
  BY <1>2, RecoveringPicked
<1>4. log' = log /\ claims' = claims
  BY <1>1 DEF eventLog
<1>5. CASE Transition(k, "pid_event_persisted") /\ UNCHANGED run
  <2>1. StoreInv' /\ Durable /\ \A m \in Attempts : m # k => auth'[m] = auth[m]
    BY <1>1, <1>2, <1>3, <1>5, PhaseStore
  <2>2. QED BY <1>1, <1>3, <1>4, <1>5, <2>1, RecoverWrite
<1>6. CASE run' = Down /\ UNCHANGED auth
  BY <1>1, <1>3, <1>6, StoreFrame, DownOK DEF IInv
<1>7. QED BY <1>2, <1>5, <1>6

\* An event of recovery, where it may be appended.
LEMMA RecoverAppendOK ==
  ASSUME IInv, NEW k \in Attempts, NEW mode \in Modes, Recovering(k, mode),
         NEW kind \in {"interrupt", "terminal"}, NEW class, NEW term,
         kind = "interrupt" => class = "hard",
         EventOK(k, kind, class, term), RecoverAppend(k, kind, class, term),
         UNCHANGED <<claims, auth, world>>
  PROVE  IInv'
<1>1. /\ run.pc = "recover" /\ <<k, mode>> \in run.recov /\ StoreInv /\ log[k].term \in Terms
  BY RecoveringPicked DEF LogFacts
<1>2. UNCHANGED <<claims, auth, proc, merged>>
  BY DEF world
<1>3. run' = run \/ run' = Down
  BY DEF RecoverAppend
<1>4. CASE Written(k, kind, class, term)
  <2>1. /\ StoreInv' /\ Durable
        /\ \A m \in Attempts : m # k => log'[m] = log[m]
        /\ log'[k] = Record(log[k], kind, class, term)
    BY <1>1, <1>2, <1>4, WrittenOK
  <2>2. /\ log'[k].pid <=> log[k].pid
        /\ log'[k].int = IF kind = "interrupt" THEN class ELSE log[k].int
        /\ log'[k].term = IF kind = "terminal" THEN term ELSE log[k].term
    BY <2>1, RecordFacts
  <2>3. kind = "terminal" => term # "none"
    BY DEF EventOK, ClaimTerminals
  <2>4. QED BY <1>1, <1>2, <1>3, <2>1, <2>2, <2>3, RecoverWrite
<1>5. CASE UNCHANGED eventLog /\ run' = Down
  BY <1>1, <1>5, StoreFrame, DownOK DEF IInv
<1>6. QED BY <1>4, <1>5 DEF RecoverAppend

LEMMA RecoverInterruptOK == ASSUME IInv, RecoverInterrupt PROVE IInv'
<1>1. UNCHANGED <<claims, auth, world>>
  BY DEF RecoverInterrupt
<1>2. PICK k \in Attempts :
         /\ Recovering(k, "hard") /\ NeedsInterrupt(k, "hard")
         /\ RecoverAppend(k, "interrupt", "hard", "none")
  BY DEF RecoverInterrupt
<1>3. "hard" \in Modes
  BY DEF Modes
<1>4. FrozenOK(k, "hard") /\ claims[k] # "absent"
  BY <1>2, <1>3, RecoveringPicked
<1>5. EventOK(k, "interrupt", "hard", "none")
  BY <1>2, <1>4 DEF EventOK, Kinds, NeedsInterrupt, FrozenOK
<1>6. QED BY <1>1, <1>2, <1>3, <1>5, RecoverAppendOK

LEMMA RecoverTerminalOK == ASSUME IInv, RecoverTerminal PROVE IInv'
<1>1. UNCHANGED <<claims, auth, world>>
  BY DEF RecoverTerminal
<1>2. PICK k \in Attempts, mode \in {"hard", "prepid"} :
         /\ Recovering(k, mode) /\ ~NeedsInterrupt(k, mode) /\ log[k].term = "none"
         /\ RecoverAppend(k, "terminal", IF mode = "hard" THEN "hard" ELSE "plain",
                          RecoveredTerminal(mode))
  BY DEF RecoverTerminal
<1>3. mode \in Modes
  BY DEF Modes
<1>4. FrozenOK(k, mode) /\ claims[k] # "absent" /\ proc[k] # "live" /\ AttemptOK(k)
  BY <1>2, <1>3, RecoveringPicked
<1>5. PICK class : class = IF mode = "hard" THEN "hard" ELSE "plain"
  OBVIOUS
<1>6. mode = "hard" <=> log[k].int = "hard"
  BY <1>2, <1>4 DEF FrozenOK, NeedsInterrupt, AttemptOK
<1>7. /\ class \in {"hard", "plain"} /\ (class = "hard" <=> mode = "hard")
      /\ RecoveredTerminal(mode) \in {"cancelled", "failed"}
  BY <1>5 DEF RecoveredTerminal
<1>8. EventOK(k, "terminal", class, RecoveredTerminal(mode))
  BY <1>2, <1>4, <1>6, <1>7 DEF EventOK, Kinds, ClaimTerminals
<1>9. RecoverAppend(k, "terminal", class, RecoveredTerminal(mode))
  BY <1>2, <1>5
<1>10. QED BY <1>1, <1>2, <1>3, <1>8, <1>9, RecoverAppendOK

LEMMA RecoverCloseOK == ASSUME IInv, RecoverClose PROVE IInv'
<1>1. UNCHANGED <<eventLog, auth, world>>
  BY DEF RecoverClose
<1>2. PICK k \in Attempts, mode \in Modes :
         /\ Recovering(k, mode) /\ log[k].term # "none" /\ claims[k] = "open"
         /\ \/ Close(k, log[k].term) /\ UNCHANGED run
            \/ run' = Down /\ UNCHANGED claims
  BY DEF RecoverClose, Modes
<1>3. run.pc = "recover" /\ <<k, mode>> \in run.recov /\ StoreInv
  BY <1>2, RecoveringPicked
<1>4. log' = log /\ auth' = auth
  BY <1>1 DEF eventLog
<1>5. CASE Close(k, log[k].term) /\ UNCHANGED run
  <2>1. StoreInv' /\ Durable /\ \A m \in Attempts : m # k => claims'[m] = claims[m]
    BY <1>1, <1>2, <1>3, <1>5, CloseStore
  <2>2. QED BY <1>1, <1>3, <1>4, <1>5, <2>1, RecoverWrite
<1>6. CASE run' = Down /\ UNCHANGED claims
  BY <1>1, <1>3, <1>6, StoreFrame, DownOK DEF IInv
<1>7. QED BY <1>2, <1>5, <1>6

LEMMA RecoverCompleteOK == ASSUME IInv, RecoverComplete PROVE IInv'
<1>1. UNCHANGED <<eventLog, claims, world>>
  BY DEF RecoverComplete
<1>2. PICK k \in Attempts, mode \in Modes :
         /\ Recovering(k, mode) /\ log[k].term # "none" /\ claims[k] # "open"
         /\ \/ Complete(k, mode, log[k].term) /\ UNCHANGED run
            \/ run' = Down /\ UNCHANGED auth
  BY DEF RecoverComplete, Modes
<1>3. /\ run.pc = "recover" /\ <<k, mode>> \in run.recov /\ StoreInv
      /\ claims[k] \in ClaimTerminals /\ claims[k] = log[k].term
  BY <1>2, RecoveringPicked DEF ClaimStates, AttemptOK
<1>4. log' = log /\ claims' = claims
  BY <1>1 DEF eventLog
<1>5. CASE Complete(k, mode, log[k].term) /\ UNCHANGED run
  <2>1. Complete(k, mode, claims[k])
    BY <1>3, <1>5
  <2>2. StoreInv' /\ Durable /\ \A m \in Attempts : m # k => auth'[m] = auth[m]
    BY <1>1, <1>3, <2>1, CompleteStore
  <2>3. QED BY <1>1, <1>3, <1>4, <1>5, <2>2, RecoverWrite
<1>6. CASE run' = Down /\ UNCHANGED auth
  BY <1>1, <1>3, <1>6, StoreFrame, DownOK DEF IInv
<1>7. QED BY <1>2, <1>5, <1>6

LEMMA RecoverNextOK == ASSUME IInv, RecoverNext PROVE IInv'
<1>1. UNCHANGED <<eventLog, claims, auth, world>>
  BY DEF RecoverNext
<1>2. PICK k \in Attempts, mode \in Modes :
         /\ Recovering(k, mode) /\ ~Needs(k)
         /\ run' = [run EXCEPT !.recov = @ \ {<<k, mode>>}]
  BY DEF RecoverNext, Modes
<1>3. run.pc = "recover"
  BY <1>2, RecoveringPicked
<1>4. /\ StoreInv /\ RunOK(run) /\ run \in Runs
      /\ \A m \in Attempts : proc[m] # "live"
      /\ \A m \in Attempts, md \in Modes : <<m, md>> \in run.recov => FrozenOK(m, md)
      /\ \A m \in Attempts : claims[m] # "absent" /\ Needs(m) =>
            \E md \in Modes : <<m, md>> \in run.recov
  BY <1>3, RecoveringFacts
<1>5. StoreInv' /\ Durable
  BY <1>1, <1>4, StoreFrame
<1>6. UNCHANGED <<log, claims, auth, proc>>
  BY <1>1 DEF eventLog, world
<1>7. PICK rest : rest = run.recov \ {<<k, mode>>}
  OBVIOUS
<1>8. run' = [run EXCEPT !.recov = rest] /\ rest \in SUBSET (Attempts \X Modes)
  BY <1>2, <1>4, <1>7 DEF Runs
<1>9. /\ run' \in Runs /\ run'.pc = "recover" /\ run'.recov = rest
      /\ run'.ev = run.ev /\ run'.want = run.want /\ run'.todo = run.todo
  BY <1>3, <1>4, <1>8 DEF Runs
<1>10. MemoryOK(run)'
  BY <1>4, <1>5, <1>9, MemoryFrame
<1>11. \A m \in Attempts, md \in Modes : <<m, md>> \in run'.recov => FrozenOK(m, md)'
  <2>1. \A m \in Attempts, md \in Modes : FrozenOK(m, md) => FrozenOK(m, md)'
    BY <1>6 DEF FrozenOK
  <2>2. QED BY <1>4, <1>7, <1>9, <2>1
<1>12. \A m \in Attempts : claims'[m] # "absent" /\ Needs(m)' =>
          \E md \in Modes : <<m, md>> \in run'.recov
  <2>1. \A m \in Attempts : Needs(m)' => Needs(m) /\ m # k
    BY <1>2, <1>6 DEF Needs
  <2>2. QED BY <1>4, <1>6, <1>7, <1>9, <2>1
<1>13. QED BY <1>4, <1>5, <1>6, <1>9, <1>10, <1>11, <1>12, RecoverStep

LEMMA RecoveredOK == ASSUME IInv, Recovered PROVE IInv'
<1>1. /\ run.pc = "recover" /\ run.recov = {} /\ UNCHANGED <<eventLog, claims, auth, world>>
  BY DEF Recovered
<1>2. /\ StoreInv /\ RunOK(run) /\ run \in Runs
      /\ \A m \in Attempts : proc[m] # "live"
      /\ \A m \in Attempts : claims[m] # "absent" => ~Needs(m)
  BY <1>1, RecoveringFacts
<1>3. StoreInv' /\ Durable
  BY <1>1, <1>2, StoreFrame
<1>4. CASE run' = Down
  BY <1>3, <1>4, DownOK DEF IInv
<1>5. CASE run' = Go("wave")
  <2>1. SameAttempt(run') /\ run'.pc = "wave"
    BY <1>2, <1>5, GoFacts, PcFacts DEF Between
  <2>2. MemoryOK(run)'
    BY <1>2, <1>3, <2>1, MemoryFrame DEF SameAttempt
  <2>3. UNCHANGED <<log, claims, auth, proc>>
    BY <1>1 DEF eventLog, world
  <2>4. \A m \in Attempts : Settled(m)'
    <3>1. \A m \in Attempts : claims[m] \in ClaimStates
      BY <1>2 DEF StoreInv, StoreTypes
    <3>2. QED BY <1>2, <2>3, <3>1 DEF Settled, Needs, ClaimStates
  <2>5. AlternateOK(run)' /\ run'.pc \in Between
    BY <2>1 DEF AlternateOK, Between
  <2>6. QED BY <1>2, <1>3, <2>1, <2>2, <2>3, <2>4, <2>5, BetweenStep DEF SameAttempt
<1>6. QED BY <1>4, <1>5 DEF Recovered

----------------------------------------------------------------------------
(* The environment *)

\* The context is cancelled or a provider dies: the Execute is where it was.
LEMMA RunFrame ==
  ASSUME IInv, StoreInv', Durable, UNCHANGED <<eventLog, claims, auth, merged>>,
         \A k \in Attempts : proc'[k] = "live" => proc[k] = "live",
         SameAttempt(run'), run'.pc = run.pc, run'.recov = run.recov, run'.fin = run.fin
  PROVE  IInv'
<1>1. /\ run' \in Runs /\ run'.item = run.item /\ run'.gen = run.gen
      /\ run'.ev = run.ev /\ run'.want = run.want /\ run'.todo = run.todo
  BY DEF SameAttempt
<1>2. RunOK(run) /\ UNCHANGED <<log, claims, auth, merged>>
  BY DEF IInv, eventLog
<1>3. MemoryOK(run)'
  BY <1>1, <1>2, MemoryFrame
<1>4. RecoveryOK(run)'
  BY <1>2 DEF RunOK, RecoveryOK, FrozenOK, Needs
<1>5. LiveOK(run)'
  BY <1>1, <1>2 DEF RunOK, LiveOK
<1>6. QuietOK(run)'
  BY <1>2 DEF RunOK, QuietOK, Settled
<1>7. AlternateOK(run)'
  BY <1>1, <1>2 DEF RunOK, AlternateOK, DepsDone, HasSucceeded, OthersFailed
<1>8. WorkOK(run)'
  BY <1>1, <1>2 DEF RunOK, WorkOK, DepsDone, HasSucceeded, OthersFailed, Settled, StageOK, FinOK
<1>9. QED BY <1>1, <1>3, <1>4, <1>5, <1>6, <1>7, <1>8 DEF IInv, RunOK

LEMMA CancelContextOK == ASSUME IInv, CancelContext PROVE IInv'
<1>1. run' = [run EXCEPT !.ctx = FALSE] /\ UNCHANGED <<eventLog, claims, auth, world>>
  BY DEF CancelContext
<1>2. StoreInv /\ run \in Runs
  BY DEF IInv, RunOK
<1>3. StoreInv' /\ Durable
  BY <1>1, <1>2, StoreFrame
<1>4. /\ SameAttempt(run') /\ run'.pc = run.pc /\ run'.recov = run.recov /\ run'.fin = run.fin
  BY <1>1, <1>2 DEF SameAttempt, Runs
<1>5. QED BY <1>1, <1>3, <1>4, RunFrame DEF world

LEMMA ProviderExitsOK == ASSUME IInv, ProviderExits PROVE IInv'
<1>1. UNCHANGED <<eventLog, claims, auth, merged, run>>
  BY DEF ProviderExits
<1>2. PICK k \in Attempts : proc[k] = "live" /\ proc' = [proc EXCEPT ![k] = "dead"]
  BY DEF ProviderExits
<1>3. StoreInv /\ run \in Runs
  BY DEF IInv, RunOK
<1>4. /\ proc' \in [Attempts -> {"none", "live", "dead"}]
      /\ \A m \in Attempts : proc'[m] = proc[m] \/ (proc[m] = "live" /\ proc'[m] = "dead")
  BY <1>2, <1>3 DEF StoreInv, StoreTypes
<1>5. StoreInv' /\ Durable
  BY <1>1, <1>3, <1>4, DyingStore
<1>6. SameAttempt(run')
  BY <1>1, <1>3 DEF SameAttempt
<1>7. QED BY <1>1, <1>4, <1>5, <1>6, RunFrame

----------------------------------------------------------------------------
(* Theorems *)

LEMMA InitOK == ASSUME Init PROVE IInv
<1>1. run \in Runs /\ run.pc = "down"
  BY DownType DEF Init, Down
<1>2. /\ NoEvents \in LogFacts /\ NoAuthority \in Rows
      /\ "none" \in Terms /\ "absent" \in ClaimStates
  BY DEF NoEvents, NoAuthority, LogFacts, Rows, Terms, Phases, ClaimStates
<1>3. StoreTypes
  BY <1>2 DEF Init, StoreTypes
<1>4. \A k \in Attempts :
         /\ log[k] = NoEvents /\ claims[k] = "absent" /\ auth[k] = NoAuthority
         /\ proc[k] = "none"
  BY DEF Init
<1>5. \A k \in Attempts : AttemptOK(k)
  BY <1>4 DEF AttemptOK, NoEvents, NoAuthority, ClaimTerminals
<1>6. NoGaps /\ LastSeen /\ GenerationsSerial /\ DepsFirst /\ SingleProvider
  <2>1. \A i \in Items, g \in Gens : claims[<<i, g>>] = "absent" /\ log[<<i, g>>] = NoEvents
    BY <1>4, PairFacts
  <2>2. \A i \in Items : lastTerm[i] = "none"
    BY DEF Init
  <2>3. NoGaps /\ GenerationsSerial
    BY <2>1 DEF NoGaps, GenerationsSerial
  <2>4. LastSeen
    BY <2>2 DEF LastSeen
  <2>5. DepsFirst
    BY <2>1 DEF DepsFirst, NoEvents
  <2>6. SingleProvider
    BY <1>4 DEF SingleProvider
  <2>7. QED BY <2>3, <2>4, <2>5, <2>6
<1>7. MemoryOK(run)
  BY DEF Init, Down, MemoryOK
<1>8. QED BY <1>1, <1>3, <1>5, <1>6, <1>7
          DEF IInv, StoreInv, RunOK, RecoveryOK, LiveOK, QuietOK, AlternateOK, WorkOK, Starting,
              Between, Working, Spawned, Closing

\* Every step of every Execute, and of its environment, keeps the invariant.
LEMMA NextOK == ASSUME IInv, Next PROVE IInv'
<1>1. CASE Start
  BY <1>1, StartOK
<1>2. CASE Recovery
  BY <1>2, SoftInterruptOK, ResumeOK, ValidateOK, RecoverPhaseOK, RecoverInterruptOK,
     RecoverTerminalOK, RecoverCloseOK, RecoverCompleteOK, RecoverNextOK, RecoveredOK DEF Recovery
<1>3. CASE Schedule
  BY <1>3, WaveOK, WaveDoneOK, ReuseOK, ClaimOK DEF Schedule
<1>4. CASE Attempt
  BY <1>4, ClaimEventOK, RerouteOK, LaunchEventOK, SpawnOK, PersistAuthorityOK, PidEventOK,
     SpawnPhaseOK, ProviderReturnsOK, OutcomeOK, InterruptOK DEF Attempt
<1>5. CASE Finalization
  BY <1>5, AcceptOK, MergeOK, MergeEventOK, TerminalEventOK, CloseClaimOK, CompleteAuthorityOK,
     UnavailableEventOK, AlternateClaimOK DEF Finalization
<1>6. CASE CancelContext
  BY <1>6, CancelContextOK
<1>7. CASE Crash
  <2>1. StoreInv'
    BY <1>7, StoreFrame DEF IInv, Crash
  <2>2. QED BY <1>7, <2>1, DownOK DEF IInv, Crash
<1>8. CASE ProviderExits
  BY <1>8, ProviderExitsOK
<1>9. QED BY <1>1, <1>2, <1>3, <1>4, <1>5, <1>6, <1>7, <1>8 DEF Next, Step

LEMMA StutterOK == ASSUME IInv, UNCHANGED vars PROVE IInv'
<1>1. UNCHANGED <<eventLog, claims, auth, world, run>> /\ UNCHANGED <<proc, merged>>
  BY DEF vars, eventLog, world
<1>2. StoreInv' /\ Durable
  BY <1>1, StoreFrame DEF IInv
<1>3. SameAttempt(run')
  BY <1>1 DEF IInv, RunOK, SameAttempt
<1>4. QED BY <1>1, <1>2, <1>3, RunFrame

\* The inductive invariant: whatever crashes, fails or is cancelled, and however
\* often Execute is started, the stores stand to each other as AttemptOK says and
\* the Execute is where RunOK says.
THEOREM WorkflowInductive == Spec => []IInv
<1>1. Init => IInv
  BY InitOK
<1>2. IInv /\ [Next]_vars => IInv'
  BY NextOK, StutterOK
<1>3. QED BY <1>1, <1>2, PTL DEF Spec

\* The stores and the Execute in progress keep the shape of the Go records: only
\* terminals that validTerminalEnum accepts are ever written.
THEOREM WorkflowTypeCorrect == Spec => []TypeOK
<1>1. IInv => TypeOK
  BY DEF IInv, StoreInv, StoreTypes, RunOK, Runs, TypeOK, LogFacts, ClaimStates, Rows
<1>2. QED BY <1>1, WorkflowInductive, PTL

\* A claim is closed only with the terminal of the log and an authority row only
\* with that of its claim: finalizeTerminal and recovery keep their order across
\* every crash and every failed write.
THEOREM FinalizationOrdered == Spec => []StoresAgree
<1>1. IInv => StoresAgree
  BY DEF IInv, StoreInv, AttemptOK, StoresAgree
<1>2. QED BY <1>1, WorkflowInductive, PTL

\* Two providers of the run are never alive at once, orphans included.
THEOREM ProvidersSingle == Spec => []SingleProvider
<1>1. IInv => SingleProvider
  BY DEF IInv, StoreInv
<1>2. QED BY <1>1, WorkflowInductive, PTL

\* A generation is claimed only when the earlier ones are finished in all stores.
THEOREM GenerationsInOrder == Spec => []GenerationsSerial
<1>1. IInv => GenerationsSerial
  BY DEF IInv, StoreInv
<1>2. QED BY <1>1, WorkflowInductive, PTL

\* An item is launched only after its hard predecessors have succeeded durably.
THEOREM DependenciesFirst == Spec => []DepsFirst
<1>1. IInv => DepsFirst
  BY DEF IInv, StoreInv
<1>2. QED BY <1>1, WorkflowInductive, PTL

\* What a crash or a failed write leaves of an attempt after its pid event, with
\* or without resume, is accepted by the next recovery.
THEOREM PidAttemptsRecover == Spec => []PidAttemptRecovers
<1>1. ASSUME IInv PROVE PidAttemptRecovers
  <2> SUFFICES ASSUME NEW k \in Attempts,
                      log[k].pid, auth[k].phase # "pid_event_failed",
                      log[k].int = "service" => log[k].term # "none",
                      log[k].int # "soft", log[k].class # "misrouted"
               PROVE  Recoverable(k)
    BY DEF PidAttemptRecovers
  <2>1. AttemptOK(k) /\ log[k] \in LogFacts /\ auth[k] \in Rows
    BY <1>1 DEF IInv, StoreInv, StoreTypes
  <2>2. StoresCoherent(k)
    <3>1. claims[k] # "absent" /\ log[k].launch /\ auth[k] # NoAuthority
      BY <2>1 DEF AttemptOK, NoEvents, NoAuthority
    <3>2. auth[k].done # "none" => auth[k].done \in ClaimTerminals
      BY <2>1 DEF Rows, Terms
    <3>3. QED BY <2>1, <3>1, <3>2 DEF StoresCoherent, AttemptOK
  <2>3. PhaseCoherent(k) /\ log[k].int # "soft" /\ Completable(k)
    BY <2>1 DEF PhaseCoherent, AttemptOK, Completable
  <2>4. CASE log[k].term # "none"
    <3>1. log[k].class = "hard" <=> log[k].int = "hard"
      BY <2>1, <2>4 DEF AttemptOK
    <3>2. Verdict(k) # "reject"
      BY <2>2, <2>3, <2>4, <3>1 DEF Verdict
    <3>3. proc[k] # "live"
      BY <2>1, <2>4 DEF AttemptOK
    <3>4. QED BY <3>2, <3>3 DEF Recoverable
  <2>5. CASE log[k].term = "none"
    <3>1. Verdict(k) = "hard"
      BY <2>2, <2>3, <2>5 DEF Verdict
    <3>2. QED BY <3>1 DEF Recoverable
  <2>6. QED BY <2>4, <2>5
<1>2. IInv => PidAttemptRecovers
  BY <1>1
<1>3. QED BY <1>2, WorkflowInductive, PTL

\* A provider is started by Spawn alone.
LEMMA OnlySpawnStarts ==
  ASSUME IInv, Next, ~Spawn, NEW k \in Attempts, proc'[k] = "live"
  PROVE  proc[k] = "live"
<1>1. StoreInv /\ proc \in [Attempts -> {"none", "live", "dead"}]
  BY DEF IInv, StoreInv, StoreTypes
<1>2. CASE UNCHANGED world
  BY <1>2 DEF world
<1>3. CASE Validate
  <2>1. proc' = proc \/ proc' = Killed
    BY <1>3 DEF Validate
  <2>2. QED BY <1>1, <2>1, KilledFacts
<1>4. CASE UNCHANGED proc \/ \E m : proc' = [proc EXCEPT ![m] = "dead"]
  BY <1>1, <1>4
<1>5. CASE PersistAuthority \/ PidEvent \/ SpawnPhase \/ ProviderReturns \/ ProviderExits
  BY <1>4, <1>5 DEF PersistAuthority, PidEvent, SpawnPhase, ProviderReturns, ProviderExits, PidFailure
<1>6. CASE Merge
  BY <1>6 DEF Merge
<1>7. CASE Start \/ CancelContext \/ Crash
  BY <1>2, <1>7 DEF Start, CancelContext, Crash
<1>8. CASE Recovery /\ ~Validate
  BY <1>2, <1>8 DEF Recovery, SoftInterrupt, Resume, RecoverPhase, RecoverInterrupt,
     RecoverTerminal, RecoverClose, RecoverComplete, RecoverNext, Recovered
<1>9. CASE Schedule
  BY <1>2, <1>9 DEF Schedule, Wave, WaveDone, Reuse, Claim
<1>10. CASE Attempt
  BY <1>2, <1>5, <1>10 DEF Attempt, ClaimEvent, Reroute, LaunchEvent, Outcome, Interrupt
<1>11. CASE Finalization
  BY <1>2, <1>6, <1>11 DEF Finalization, Accept, MergeEvent, TerminalEvent, CloseClaim,
     CompleteAuthority, UnavailableEvent, AlternateClaim
<1>12. QED BY <1>3, <1>5, <1>7, <1>8, <1>9, <1>10, <1>11 DEF Next, Step

\* Once the log has a succeeded terminal of an item, no step of any Execute
\* starts a provider for that item again, recovery and resume included.
THEOREM SuccessNeverRelaunched == Spec => NoRelaunch
<1> DEFINE A == \A i \in Items : (\E g \in Gens : log[<<i, g>>].term = "succeeded") =>
                   \A g \in Gens : proc'[<<i, g>>] = "live" => proc[<<i, g>>] = "live"
<1>1. ASSUME IInv, Next PROVE A
  <2> SUFFICES ASSUME NEW i \in Items, NEW h \in Gens, log[<<i, h>>].term = "succeeded",
                      NEW g \in Gens, proc'[<<i, g>>] = "live"
               PROVE  proc[<<i, g>>] = "live"
    OBVIOUS
  <2>1. <<i, g>> \in Attempts
    BY PairFacts
  <2>2. CASE ~Spawn
    BY <1>1, <2>1, <2>2, OnlySpawnStarts
  <2>3. CASE Spawn
    <3>1. run.pc = "spawn" /\ (UNCHANGED proc \/ proc' = [proc EXCEPT ![K] = "live"])
      BY <2>3 DEF Spawn
    <3>2. run.pc \in Working
      BY <3>1 DEF Working
    <3>3. /\ run.item \in Items /\ K = <<run.item, run.gen>> /\ K \in Attempts
          /\ log[K].term = "none" /\ proc \in [Attempts -> {"none", "live", "dead"}]
      BY <1>1, <3>1, <3>2, WorkFacts DEF StageOK, StoreInv, StoreTypes
    <3>4. OthersFailed(run.item, run.gen)
      BY <1>1, <3>2 DEF IInv, RunOK, WorkOK
    <3>5. i # run.item
      BY <3>3, <3>4 DEF OthersFailed
    <3>6. <<i, g>> # K
      BY <3>3, <3>5
    <3>7. QED BY <2>1, <3>1, <3>3, <3>6
  <2>4. QED BY <2>2, <2>3
<1>2. ASSUME UNCHANGED vars PROVE A
  BY <1>2 DEF vars
<1>3. IInv /\ [Next]_vars => [A]_vars
  BY <1>1, <1>2
<1>4. QED BY <1>3, WorkflowInductive, PTL DEF Spec, NoRelaunch

\* A run is handed to its owner only when the stores say what Execute remembers:
\* required items have succeeded, and nothing is open or alive.
THEOREM OwnerGetsSettledRun == Spec => []HumanGateBacked
<1>1. ASSUME IInv PROVE HumanGateBacked
  <2> SUFFICES ASSUME AwaitsOwner
               PROVE  /\ \A i \in Items \ Graph.optional : HasSucceeded(i)
                      /\ \A k \in Attempts :
                            /\ claims[k] # "open" /\ proc[k] # "live"
                            /\ auth[k] = NoAuthority \/ auth[k].done # "none"
    BY DEF HumanGateBacked, HasSucceeded
  <2>1. run.pc = "wave" /\ run.pc \in Between /\ run.pc \notin Starting /\ run.pc \notin Spawned
    BY DEF AwaitsOwner, Between, Starting, Spawned
  <2>2. \A i \in Items \ Graph.optional : HasSucceeded(i)
    BY <1>1 DEF AwaitsOwner, IInv, RunOK, MemoryOK
  <2>3. \A k \in Attempts : proc[k] # "live"
    BY <1>1, <2>1 DEF IInv, RunOK, LiveOK
  <2>4. ASSUME NEW k \in Attempts
        PROVE  claims[k] # "open" /\ (auth[k] = NoAuthority \/ auth[k].done # "none")
    <3>1. AttemptOK(k) /\ Settled(k)
      BY <1>1, <2>1 DEF IInv, StoreInv, RunOK, QuietOK
    <3>2. QED BY <3>1 DEF AttemptOK, Settled, ClaimTerminals
  <2>5. QED BY <2>2, <2>3, <2>4
<1>2. IInv => HumanGateBacked
  BY <1>1
<1>3. QED BY <1>2, WorkflowInductive, PTL

\* Execute says "no ready items but graph incomplete" only of a run in which an
\* unfinished item waits for one that failed or was cancelled.
StallsOnFailure ==
    run.pc = "wave" /\ Ready = {} =>
       \A i \in Items : run.ev[i] = "none" =>
          \E j \in Items : \E p \in HardPreds(Graph, j) :
             run.ev[j] = "none" /\ run.ev[p] \in {"failed", "cancelled"}

\* A run without a failure never stops before all its items are done: what the
\* graph contract promises (OnlyFailureStops), for the waves of Execute.
THEOREM WavesStallOnFailureOnly == Spec => []StallsOnFailure
<1>1. ASSUME IInv PROVE StallsOnFailure
  <2> SUFFICES ASSUME Ready = {}, NEW i \in Items, run.ev[i] = "none"
               PROVE  \E j \in Items : \E p \in HardPreds(Graph, j) :
                         run.ev[j] = "none" /\ run.ev[p] \in {"failed", "cancelled"}
    BY DEF StallsOnFailure
  <2>1. run.ev \in [Items -> Terms] /\ Terms \subseteq Terminals
    BY <1>1 DEF IInv, RunOK, Runs, Terms, ClaimTerminals, Terminals
  <2>2. run.ev \in Evidence(Graph) /\ Graph.term \in Evidence(Graph)
    BY <2>1, RunConstants DEF Evidence, Items, Terminals
  <2>3. \A j \in Items : Effective(Graph, run.ev)[j] = run.ev[j]
    BY <2>1, RunConstants DEF Effective, Items
  <2>4. PICK j \in Items : \E p \in HardPreds(Graph, j) :
           Effective(Graph, run.ev)[j] = "none" /\ Effective(Graph, run.ev)[p] \in NonSuccess
    BY <2>2, <2>3, RunConstants, OnlyFailureStops DEF Ready, Items
  <2>a. PICK p \in HardPreds(Graph, j) :
           Effective(Graph, run.ev)[j] = "none" /\ Effective(Graph, run.ev)[p] \in NonSuccess
    BY <2>4
  <2>5. p \in Items
    BY PredsAreItems
  <2>6. run.ev[p] \in {"failed", "cancelled"}
    BY <2>1, <2>3, <2>a, <2>5 DEF NonSuccess, Terms, ClaimTerminals
  <2>7. QED BY <2>3, <2>a, <2>6
<1>2. IInv => StallsOnFailure
  BY <1>1
<1>3. QED BY <1>2, WorkflowInductive, PTL
=============================================================================
