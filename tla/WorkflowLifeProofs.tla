------------------------- MODULE WorkflowLifeProofs -------------------------
(***************************************************************************)
(* WorkflowRun implements AttemptLife for every item: for every graph,     *)
(* every bound on the generations and every set of faults, over any number *)
(* of Executes, recoveries and resumes.                                    *)
(*                                                                         *)
(* Of the stores only three things matter to AttemptLife: whether an       *)
(* attempt is claimed, whether it was launched, and its terminal.  Five    *)
(* actions change one of them; each changes it for one attempt.            *)
(***************************************************************************)
EXTENDS WorkflowRunProofs, FiniteSetTheorems

\* The attempt is on its way to a success, or is being finalized as one.
Accepted(r) ==
    \/ r.pc \in {"accept", "merge", "merge_event"}
    \/ r.pc \in Closing /\ r.fin.term = "succeeded"

\* Only a launch is accepted as a success.
LaunchAccepted(r) == Accepted(r) => log[<<r.item, r.gen>>].launch

LifeInv == IInv /\ LaunchAccepted(run)

----------------------------------------------------------------------------
(* What the actions do to claims, launches and terminals *)

\* Neither a launch nor a terminal is written, and nothing is claimed.
SameFacts ==
    \A k \in Attempts :
        /\ log'[k].launch = log[k].launch /\ log'[k].term = log[k].term
        /\ claims'[k] = "absent" <=> claims[k] = "absent"

\* The attempt k is claimed and nothing is written.
Claims(k) ==
    \A m \in Attempts :
        /\ log'[m].launch = log[m].launch /\ log'[m].term = log[m].term
        /\ claims'[m] = "absent" <=> claims[m] = "absent" /\ m # k

\* The attempt k is launched.
Launches(k) ==
    /\ claims[k] # "absent"
    /\ \A m \in Attempts :
          /\ log'[m].launch = (log[m].launch \/ m = k) /\ log'[m].term = log[m].term
          /\ claims'[m] = "absent" <=> claims[m] = "absent"

\* The attempt k, which has no terminal, gets one.
Ends(k, term) ==
    /\ claims[k] # "absent" /\ log[k].term = "none" /\ term # "none"
    /\ \A m \in Attempts :
          /\ log'[m].launch = log[m].launch
          /\ log'[m].term = IF m = k THEN term ELSE log[m].term
          /\ claims'[m] = "absent" <=> claims[m] = "absent"

\* What one event changes in the log.
LEMMA WrittenEffect ==
  ASSUME StoreTypes, NEW k, NEW kind, NEW class, NEW term, Written(k, kind, class, term)
  PROVE  \A m \in Attempts :
            /\ log'[m].launch = (log[m].launch \/ (m = k /\ kind = "launch"))
            /\ log'[m].term = IF m = k /\ kind = "terminal" THEN term ELSE log[m].term
<1> SUFFICES ASSUME NEW m \in Attempts
             PROVE  /\ log'[m].launch = (log[m].launch \/ (m = k /\ kind = "launch"))
                    /\ log'[m].term = IF m = k /\ kind = "terminal" THEN term ELSE log[m].term
  OBVIOUS
<1>1. log \in [Attempts -> LogFacts] /\ log[m].launch \in BOOLEAN
  BY DEF StoreTypes, LogFacts
<1>2. log' = [log EXCEPT ![k] = Record(log[k], kind, class, term)]
  BY DEF Written
<1>3. CASE m = k
  <2>1. log'[m] = Record(log[m], kind, class, term)
    BY <1>1, <1>2, <1>3
  <2>2. QED BY <1>1, <1>3, <2>1 DEF Record
<1>4. CASE m # k
  <2>1. log'[m] = log[m]
    BY <1>1, <1>2, <1>4
  <2>2. QED BY <1>1, <1>4, <2>1
<1>5. QED BY <1>3, <1>4

\* An event that is neither a launch nor a terminal.
LEMMA OtherEvent ==
  ASSUME StoreTypes, NEW k, NEW kind, NEW class, NEW term, kind \notin {"launch", "terminal"},
         Written(k, kind, class, term) \/ UNCHANGED eventLog, UNCHANGED claims
  PROVE  SameFacts
<1>1. CASE Written(k, kind, class, term)
  <2>1. \A m \in Attempts : log[m].launch \in BOOLEAN
    BY DEF StoreTypes, LogFacts
  <2>2. QED BY <1>1, <2>1, WrittenEffect DEF SameFacts
<1>2. CASE UNCHANGED eventLog
  BY <1>2 DEF eventLog, SameFacts
<1>3. QED BY <1>1, <1>2

\* Closing a claim.
LEMMA ClosesOnly ==
  ASSUME StoreTypes, NEW k, NEW term, term # "absent", claims[k] # "absent",
         Close(k, term) \/ UNCHANGED claims, UNCHANGED eventLog
  PROVE  SameFacts
<1>1. claims \in [Attempts -> ClaimStates]
  BY DEF StoreTypes
<1>2. \A m \in Attempts : claims'[m] = "absent" <=> claims[m] = "absent"
  BY <1>1 DEF Close
<1>3. QED BY <1>2 DEF eventLog, SameFacts

\* Every action but five leaves claims, launches and terminals alone.
LEMMA QuietActions ==
  ASSUME IInv, Next, ~Claim, ~AlternateClaim, ~LaunchEvent, ~TerminalEvent, ~RecoverTerminal
  PROVE  SameFacts
<1>1. StoreTypes /\ run \in Runs /\ \A k \in Attempts : AttemptOK(k)
  BY DEF IInv, StoreInv, RunOK
<1>2. CASE UNCHANGED eventLog /\ UNCHANGED claims
  BY <1>2 DEF eventLog, SameFacts
<1>3. CASE Start \/ CancelContext \/ Crash \/ ProviderExits
  BY <1>2, <1>3 DEF Start, CancelContext, Crash, ProviderExits
<1>4. CASE Recovery
  <2>1. CASE SoftInterrupt
    <3>1. PICK k \in Attempts : Append(k, "interrupt", "soft", "none", run, Down)
      BY <2>1 DEF SoftInterrupt
    <3>2. Written(k, "interrupt", "soft", "none") \/ UNCHANGED eventLog
      BY <3>1 DEF Append
    <3>3. QED BY <1>1, <2>1, <3>2, OtherEvent DEF SoftInterrupt
  <2>2. CASE RecoverInterrupt
    <3>1. PICK k \in Attempts : RecoverAppend(k, "interrupt", "hard", "none")
      BY <2>2 DEF RecoverInterrupt
    <3>2. Written(k, "interrupt", "hard", "none") \/ UNCHANGED eventLog
      BY <3>1 DEF RecoverAppend
    <3>3. QED BY <1>1, <2>2, <3>2, OtherEvent DEF RecoverInterrupt
  <2>3. CASE RecoverClose
    <3>1. PICK k \in Attempts : claims[k] = "open" /\ (Close(k, log[k].term) \/ UNCHANGED claims)
      BY <2>3 DEF RecoverClose
    <3>2. log[k].term # "absent"
      BY <1>1 DEF StoreTypes, LogFacts, Terms, ClaimTerminals
    <3>3. QED BY <1>1, <2>3, <3>1, <3>2, ClosesOnly DEF RecoverClose
  <2>4. CASE Resume \/ Validate \/ RecoverPhase \/ RecoverComplete \/ RecoverNext \/ Recovered
    BY <1>2, <2>4 DEF Resume, Validate, RecoverPhase, RecoverComplete, RecoverNext, Recovered
  <2>5. QED BY <1>4, <2>1, <2>2, <2>3, <2>4 DEF Recovery
<1>5. CASE Schedule
  <2>1. CASE Reuse
    <3>1. PICK k, r : Append(k, "reuse", "none", "none", r, Down)
      BY <2>1 DEF Reuse
    <3>2. Written(k, "reuse", "none", "none") \/ UNCHANGED eventLog
      BY <3>1 DEF Append
    <3>3. QED BY <1>1, <2>1, <3>2, OtherEvent DEF Reuse
  <2>2. CASE Wave \/ WaveDone
    BY <1>2, <2>2 DEF Wave, WaveDone
  <2>3. QED BY <1>5, <2>1, <2>2 DEF Schedule
<1>6. CASE Attempt
  <2>1. CASE ClaimEvent
    <3>1. Written(K, "claim", "none", "none") \/ UNCHANGED eventLog
      BY <2>1 DEF ClaimEvent, Append
    <3>2. QED BY <1>1, <2>1, <3>1, OtherEvent DEF ClaimEvent
  <2>2. CASE Reroute
    <3>1. Written(K, "reroute", "none", "none") \/ UNCHANGED eventLog
      BY <2>2 DEF Reroute, Append
    <3>2. QED BY <1>1, <2>2, <3>1, OtherEvent DEF Reroute
  <2>3. CASE PidEvent
    <3>1. Written(K, "pid", "none", "none") \/ UNCHANGED eventLog
      BY <2>3 DEF PidEvent
    <3>2. QED BY <1>1, <2>3, <3>1, OtherEvent DEF PidEvent
  <2>4. CASE Interrupt
    <3>1. Written(K, "interrupt", "service", "none") \/ UNCHANGED eventLog
      BY <2>4 DEF Interrupt, Append
    <3>2. QED BY <1>1, <2>4, <3>1, OtherEvent DEF Interrupt
  <2>5. CASE Spawn \/ PersistAuthority \/ SpawnPhase \/ ProviderReturns \/ Outcome
    BY <1>2, <2>5 DEF Spawn, PersistAuthority, SpawnPhase, ProviderReturns, Outcome
  <2>6. QED BY <1>6, <2>1, <2>2, <2>3, <2>4, <2>5 DEF Attempt
<1>7. CASE Finalization
  <2>1. CASE MergeEvent
    <3>1. Written(K, "integrate", "none", "none") \/ UNCHANGED eventLog
      BY <2>1 DEF MergeEvent, Append
    <3>2. QED BY <1>1, <2>1, <3>1, OtherEvent DEF MergeEvent
  <2>2. CASE UnavailableEvent
    <3>1. Written(K, "model_unavailable", "none", "none") \/ UNCHANGED eventLog
      BY <2>2 DEF UnavailableEvent, Append
    <3>2. QED BY <1>1, <2>2, <3>1, OtherEvent DEF UnavailableEvent
  <2>3. CASE CloseClaim
    <3>1. run.fin.term # "absent" /\ claims[K] # "absent"
      BY <2>3, ClosingFacts DEF CloseClaim, FinOK, ClaimTerminals
    <3>2. QED BY <1>1, <2>3, <3>1, ClosesOnly DEF CloseClaim
  <2>4. CASE Accept \/ Merge \/ CompleteAuthority
    BY <1>2, <2>4 DEF Accept, Merge, CompleteAuthority
  <2>5. QED BY <1>7, <2>1, <2>2, <2>3, <2>4 DEF Finalization
<1>8. QED BY <1>3, <1>4, <1>5, <1>6, <1>7 DEF Next, Step

\* Claiming changes no event and one claim.
LEMMA ClaimActions ==
  ASSUME IInv, Claim \/ AlternateClaim
  PROVE  SameFacts \/ \E k \in Attempts : Claims(k)
<1>1. claims \in [Attempts -> ClaimStates] /\ run \in Runs
  BY DEF IInv, StoreInv, StoreTypes, RunOK
<1>2. UNCHANGED eventLog
  BY DEF Claim, AlternateClaim
<1>3. UNCHANGED claims \/ \E k \in Attempts : claims' = [claims EXCEPT ![k] = "open"]
  <2>1. CASE Claim
    BY <2>1, PairFacts DEF Claim, Claimable
  <2>2. CASE AlternateClaim
    BY <2>2 DEF AlternateClaim, Unclaimed
  <2>3. QED BY <2>1, <2>2
<1>4. CASE UNCHANGED claims
  BY <1>2, <1>4 DEF eventLog, SameFacts
<1>5. ASSUME NEW k \in Attempts, claims' = [claims EXCEPT ![k] = "open"] PROVE Claims(k)
  <2>1. \A m \in Attempts : claims'[m] = IF m = k THEN "open" ELSE claims[m]
    BY <1>1, <1>5
  <2>2. QED BY <1>2, <2>1 DEF eventLog, Claims
<1>6. QED BY <1>3, <1>4, <1>5

\* The launch event.
LEMMA LaunchAction ==
  ASSUME IInv, LaunchEvent
  PROVE  SameFacts \/ Launches(K)
<1>1. run.pc = "launch_event" /\ UNCHANGED claims
  BY DEF LaunchEvent
<1>2. StoreTypes /\ claims[K] # "absent" /\ \A m \in Attempts : log[m].launch \in BOOLEAN
  BY <1>1, WorkFacts DEF Working, StoreInv, StoreTypes, LogFacts
<1>3. Written(K, "launch", "none", "none") \/ UNCHANGED eventLog
  BY DEF LaunchEvent, Append
<1>4. CASE UNCHANGED eventLog
  BY <1>1, <1>4 DEF eventLog, SameFacts
<1>5. CASE Written(K, "launch", "none", "none")
  <2>1. \A m \in Attempts : /\ log'[m].launch = (log[m].launch \/ m = K)
                            /\ log'[m].term = log[m].term
    BY <1>2, <1>5, WrittenEffect
  <2>2. QED BY <1>1, <1>2, <2>1 DEF Launches
<1>6. QED BY <1>3, <1>4, <1>5

\* A terminal, of a running Execute or of recovery: a success only of what was
\* accepted.
LEMMA TerminalActions ==
  ASSUME LifeInv, TerminalEvent \/ RecoverTerminal
  PROVE  \/ SameFacts
         \/ \E k \in Attempts : \E term \in ClaimTerminals :
               Ends(k, term) /\ (term = "succeeded" => log[k].launch)
<1>1. StoreTypes /\ UNCHANGED claims /\ \A m \in Attempts : log[m].launch \in BOOLEAN
  BY DEF LifeInv, IInv, StoreInv, StoreTypes, LogFacts, TerminalEvent, RecoverTerminal
<1>2. CASE UNCHANGED eventLog
  BY <1>1, <1>2 DEF eventLog, SameFacts
<1>3. ASSUME NEW k \in Attempts, NEW term \in ClaimTerminals, NEW class,
             claims[k] # "absent", log[k].term = "none", Written(k, "terminal", class, term)
      PROVE  Ends(k, term)
  <2>1. \A m \in Attempts : /\ log'[m].launch = log[m].launch
                            /\ log'[m].term = IF m = k THEN term ELSE log[m].term
    BY <1>1, <1>3, WrittenEffect
  <2>2. term # "none"
    BY DEF ClaimTerminals
  <2>3. QED BY <1>1, <1>3, <2>1, <2>2 DEF Ends
<1>4. CASE TerminalEvent
  <2>1. run.pc = "terminal" /\ run.pc \in Working /\ run.pc \in Closing
    BY <1>4 DEF TerminalEvent, Working, Closing
  <2>2. /\ K \in Attempts /\ claims[K] # "absent" /\ log[K].term = "none"
        /\ run.fin.term \in ClaimTerminals
    BY <2>1, WorkFacts DEF LifeInv, StageOK, FinOK
  <2>3. run.fin.term = "succeeded" => log[K].launch
    BY <2>1 DEF LifeInv, LaunchAccepted, Accepted, K
  <2>4. Written(K, "terminal", run.fin.class, run.fin.term) \/ UNCHANGED eventLog
    BY <1>4 DEF TerminalEvent, Append
  <2>5. CASE Written(K, "terminal", run.fin.class, run.fin.term)
    BY <1>3, <2>2, <2>3, <2>5
  <2>6. QED BY <1>2, <2>4, <2>5
<1>5. CASE RecoverTerminal
  <2>1. PICK k \in Attempts, mode \in {"hard", "prepid"} :
           /\ Recovering(k, mode) /\ log[k].term = "none"
           /\ RecoverAppend(k, "terminal", IF mode = "hard" THEN "hard" ELSE "plain",
                            RecoveredTerminal(mode))
    BY <1>5 DEF RecoverTerminal
  <2> DEFINE term == RecoveredTerminal(mode)
             class == IF mode = "hard" THEN "hard" ELSE "plain"
  <2>2. term \in ClaimTerminals /\ term # "succeeded"
    BY DEF RecoveredTerminal, ClaimTerminals
  <2>3. claims[k] # "absent"
    <3>1. run.pc = "recover" /\ <<k, mode>> \in run.recov /\ mode \in Modes
      BY <2>1 DEF Recovering, First, Modes
    <3>2. QED BY <3>1 DEF LifeInv, IInv, RunOK, RecoveryOK, FrozenOK
  <2>4. Written(k, "terminal", class, term) \/ UNCHANGED eventLog
    BY <2>1 DEF RecoverAppend
  <2>5. CASE Written(k, "terminal", class, term)
    <3> HIDE DEF term, class
    <3>1. Ends(k, term)
      BY <1>3, <2>1, <2>2, <2>3, <2>5
    <3>2. QED BY <2>2, <3>1
  <2>6. QED BY <1>2, <2>4, <2>5
<1>6. QED BY <1>4, <1>5

\* A step claims one attempt, launches the one at work, ends one, or does none
\* of these.
LEMMA OneFactAStep ==
  ASSUME LifeInv, [Next]_vars
  PROVE  \/ SameFacts
         \/ \E k \in Attempts : Claims(k)
         \/ LaunchEvent /\ Launches(K)
         \/ \E k \in Attempts : \E term \in ClaimTerminals :
               Ends(k, term) /\ (term = "succeeded" => log[k].launch)
<1>1. CASE UNCHANGED vars
  BY <1>1 DEF vars, SameFacts
<1>2. CASE Next /\ ~Claim /\ ~AlternateClaim /\ ~LaunchEvent /\ ~TerminalEvent /\ ~RecoverTerminal
  BY <1>2, QuietActions DEF LifeInv
<1>3. CASE Claim \/ AlternateClaim
  BY <1>3, ClaimActions DEF LifeInv
<1>4. CASE LaunchEvent
  BY <1>4, LaunchAction DEF LifeInv
<1>5. CASE TerminalEvent \/ RecoverTerminal
  BY <1>5, TerminalActions
<1>6. QED BY <1>1, <1>2, <1>3, <1>4, <1>5

----------------------------------------------------------------------------
(* Only a launch is accepted *)

\* A launch is never forgotten.
LEMMA LaunchKept ==
  ASSUME LifeInv, [Next]_vars, NEW k \in Attempts, log[k].launch
  PROVE  log'[k].launch
  BY OneFactAStep DEF SameFacts, Claims, Launches, Ends

\* The steps that lead to a success, and those that go on with one.
Accepts ==
    \/ Outcome \/ Accept \/ Merge \/ MergeEvent \/ TerminalEvent \/ CloseClaim
    \/ CancelContext \/ ProviderExits

\* No other step does.
LEMMA OthersAcceptNothing ==
  ASSUME IInv, Next, ~Accepts
  PROVE  ~Accepted(run')
<1>1. run \in Runs
  BY DEF IInv, RunOK
<1>2. ~Accepted(Down)
  BY DEF Down, Accepted, Closing
<1>3. ASSUME NEW fin \in Fins, fin.term # "succeeded", run' = Finalize(fin) PROVE ~Accepted(run')
  BY <1>1, <1>3, FinalizeFacts DEF Accepted
<1>4. ASSUME NEW pc \in Pcs, pc \notin {"accept", "merge", "merge_event"} \cup Closing, run'.pc = pc
      PROVE  ~Accepted(run')
  BY <1>4 DEF Accepted
<1>5. CASE Start
  BY <1>5 DEF Start, Down, Accepted, Closing
<1>6. CASE Recovery
  <2>1. run' = Down \/ run'.pc \in {"resume", "validate", "recover", "wave"}
    BY <1>1, <1>6 DEF Recovery, SoftInterrupt, Append, Resume, Validate, RecoverPhase,
       RecoverInterrupt, RecoverTerminal, RecoverAppend, RecoverClose, RecoverComplete,
       RecoverNext, Recovered, Recovering, Go, Runs
  <2>2. QED BY <1>2, <2>1 DEF Accepted, Closing
<1>7. CASE Schedule
  <2>1. run' = Down \/ run'.pc \in {"pick", "wave", "claim_event"}
    <3>1. CASE Wave \/ WaveDone
      BY <1>1, <3>1 DEF Wave, WaveDone, Go, Runs
    <3>2. CASE Reuse
      BY <1>1, <3>2 DEF Reuse, Append, TakeReused, Picked, Runs
    <3>3. CASE Claim
      BY <1>1, <3>3 DEF Claim, Runs
    <3>4. QED BY <1>7, <3>1, <3>2, <3>3 DEF Schedule
  <2>2. QED BY <1>2, <2>1 DEF Accepted, Closing
<1>8. CASE Attempt
  <2>1. \/ run' = Down
        \/ run'.pc \in {"reroute", "launch_event", "spawn", "persist", "returned", "pid_event",
                        "phase", "running"}
        \/ \E fin \in Fins : fin.term # "succeeded" /\ run' = Finalize(fin)
    <3>1. Stopping \in Fins /\ Stopping.term # "succeeded"
      BY <1>1, FailureFacts
    <3>2. PidFailing \in Fins /\ PidFailing.term # "succeeded"
      BY <1>1, FailureFacts
    <3>3. /\ Failing \in Fins /\ Failing.term # "succeeded"
          /\ [Failing EXCEPT !.term = "cancelled", !.class = "service"] \in Fins
          /\ [Failing EXCEPT !.term = "cancelled", !.class = "service"].term # "succeeded"
      BY <1>1, FailureFacts DEF Fins, Terms, ClaimTerminals
    <3>4. CASE ClaimEvent \/ Reroute \/ LaunchEvent
      BY <1>1, <3>1, <3>4 DEF ClaimEvent, Reroute, LaunchEvent, Append, Go, Runs
    <3>5. CASE Spawn \/ ProviderReturns
      BY <1>1, <3>5 DEF Spawn, ProviderReturns, Go, Runs
    <3>6. CASE PersistAuthority \/ PidEvent \/ SpawnPhase
      BY <1>1, <3>2, <3>6 DEF PersistAuthority, PidEvent, SpawnPhase, PidFailure, Go, Runs
    <3>7. CASE Interrupt
      BY <3>3, <3>7 DEF Interrupt, Append
    <3>8. QED BY <1>8, <3>4, <3>5, <3>6, <3>7 DEF Attempt, Accepts
  <2>2. QED BY <1>2, <1>3, <2>1 DEF Accepted, Closing
<1>9. CASE Finalization
  <2>1. run' = Down \/ run'.pc \in {"pick", "unavailable_event", "alternate", "claim_event"}
    <3>1. CASE CompleteAuthority
      BY <1>1, <3>1 DEF CompleteAuthority, Finalized, ItemEnded, CompleteFailed, Go, Runs
    <3>2. CASE UnavailableEvent \/ AlternateClaim
      BY <1>1, <3>2 DEF UnavailableEvent, AlternateClaim, Append, Go, Runs
    <3>3. QED BY <1>9, <3>1, <3>2 DEF Finalization, Accepts
  <2>2. QED BY <1>2, <2>1 DEF Accepted, Closing
<1>10. CASE Crash
  BY <1>2, <1>10 DEF Crash
<1>11. QED BY <1>5, <1>6, <1>7, <1>8, <1>9, <1>10 DEF Next, Step, Accepts

\* Every step keeps what is accepted launched.
LEMMA LaunchAcceptedKept ==
  ASSUME LifeInv, [Next]_vars
  PROVE  LaunchAccepted(run)'
<1> SUFFICES ASSUME Accepted(run') PROVE log'[<<run'.item, run'.gen>>].launch
  BY DEF LaunchAccepted, Accepted
<1>1. run \in Runs /\ IInv
  BY DEF LifeInv, IInv, RunOK
<1>2. ASSUME run'.item = run.item, run'.gen = run.gen, Accepted(run)
      PROVE  log'[<<run'.item, run'.gen>>].launch
  <2>1. run.pc \in Working
    BY <1>2 DEF Accepted, Working, Closing
  <2>2. K \in Attempts /\ K = <<run.item, run.gen>>
    BY <1>1, <2>1, WorkFacts
  <2>3. log[K].launch
    BY <1>2, <2>2 DEF LifeInv, LaunchAccepted
  <2>4. QED BY <1>2, <2>2, <2>3, LaunchKept
<1>3. CASE UNCHANGED run
  BY <1>2, <1>3 DEF Accepted
<1>4. CASE Outcome
  <2>1. run.pc = "returned" /\ run.pc \in Working
    BY <1>4 DEF Outcome, Working
  <2>2. K \in Attempts /\ K = <<run.item, run.gen>> /\ AttemptOK(K)
    BY <1>1, <2>1, WorkFacts
  <2>3. /\ Failing \in Fins /\ Stopping \in Fins /\ Failing.term = "failed"
        /\ Stopping.term = "failed"
    BY <1>1, FailureFacts
  <2>4. log[K].pid
    <3> SUFFICES ASSUME ~log[K].pid PROVE FALSE
      OBVIOUS
    <3> DEFINE t == IF run.alt THEN "failed" ELSE "cancelled"
               ended == [Failing EXCEPT !.term = t]
               moved == [Failing EXCEPT !.reroute = ~run.alt]
    <3>1. /\ ended \in Fins /\ ended.term # "succeeded"
          /\ moved \in Fins /\ moved.term # "succeeded"
      <4>1. t \in {"failed", "cancelled"}
        OBVIOUS
      <4> HIDE DEF t
      <4>2. ended \in Fins /\ ended.term = t
        BY <2>3, <4>1 DEF Fins, Terms, ClaimTerminals
      <4>3. moved \in Fins /\ moved.term = "failed"
        BY <2>3 DEF Fins
      <4>4. QED BY <4>1, <4>2, <4>3
    <3>2. run' = Go("interrupt") \/ \E fin \in {Failing, ended, moved} : run' = Finalize(fin)
      BY <1>4 DEF Outcome
    <3> HIDE DEF ended, moved
    <3>3. \A fin \in {Failing, ended, moved} :
             Finalize(fin).pc = "terminal" /\ Finalize(fin).fin.term # "succeeded"
      BY <1>1, <2>3, <3>1, FinalizeFacts
    <3>4. Go("interrupt").pc = "interrupt"
      BY <1>1 DEF Go, Runs
    <3>5. QED BY <3>2, <3>3, <3>4 DEF Accepted, Closing
  <2>5. run'.item = run.item /\ run'.gen = run.gen
    BY <1>1, <1>4 DEF Outcome, Finalize, Go, Runs
  <2>6. QED BY <2>2, <2>4, <2>5, LaunchKept DEF AttemptOK
<1>5. CASE Accept \/ Merge \/ MergeEvent
  <2>1. Accepted(run)
    BY <1>5 DEF Accept, Merge, MergeEvent, Accepted
  <2>2. run'.item = run.item /\ run'.gen = run.gen
    BY <1>1, <1>5 DEF Accept, Merge, MergeEvent, Append, MergeFailed, Finalize, Go, Runs
  <2>3. QED BY <1>2, <2>1, <2>2
<1>6. CASE TerminalEvent \/ CloseClaim
  <2>1. run' = Down \/ run' = Go("close") \/ run' = Go("complete")
    BY <1>6 DEF TerminalEvent, CloseClaim, Append, TerminalFailed
  <2>2. run' # Down
    BY DEF Accepted, Down, Closing
  <2>3. run'.item = run.item /\ run'.gen = run.gen /\ run'.fin = run.fin
    BY <1>1, <2>1, <2>2 DEF Go, Runs
  <2>4. run.pc \in Closing
    BY <1>6 DEF TerminalEvent, CloseClaim, Closing
  <2>5. run'.pc \in {"close", "complete"}
    BY <1>1, <2>1, <2>2 DEF Go, Runs
  <2>6. QED BY <1>2, <2>3, <2>4, <2>5 DEF Accepted
<1>7. CASE CancelContext
  <2>1. run'.item = run.item /\ run'.gen = run.gen /\ run'.fin = run.fin /\ run'.pc = run.pc
    BY <1>1, <1>7 DEF CancelContext, Runs
  <2>2. QED BY <1>2, <2>1 DEF Accepted
<1>8. QED BY <1>1, <1>3, <1>4, <1>5, <1>6, <1>7, OthersAcceptNothing
          DEF Accepts, vars, ProviderExits

\* The invariant the refinement rests on.
LEMMA LifeInductive == Spec => []LifeInv
<1>1. Init => LifeInv
  <2>1. Init => LaunchAccepted(run)
    BY DEF Init, Down, LaunchAccepted, Accepted, Closing
  <2>2. QED BY <2>1, InitOK DEF LifeInv
<1>2. LifeInv /\ [Next]_vars => LifeInv'
  BY NextOK, StutterOK, LaunchAcceptedKept DEF LifeInv
<1>3. QED BY <1>1, <1>2, PTL DEF Spec

----------------------------------------------------------------------------
(* Steps of an item, as AttemptLife sees them *)

LifeStep(i) ==
    \/ LifeOf(i) = "absent" /\ LifeOf(i)' = "open" /\ Launched(i)' = Launched(i)
    \/ /\ LifeOf(i) = "open" /\ LifeOf(i)' = "trying"
       /\ \E g \in Gens \ Launched(i) : Launched(i)' = Launched(i) \cup {g}
    \/ LifeOf(i) = "trying" /\ LifeOf(i)' \in {"done", "failed"} /\ Launched(i)' = Launched(i)
    \/ /\ LifeOf(i) = "trying" /\ LifeOf(i)' = "open"
       /\ Launched(i)' = Launched(i) /\ Launched(i) # Gens
    \/ LifeOf(i)' = LifeOf(i) /\ Launched(i)' = Launched(i)

\* Life depends on claims, launches and terminals alone.
LEMMA SameLife ==
  ASSUME NEW i \in Items,
         \A g \in Gens : /\ log'[<<i, g>>].launch = log[<<i, g>>].launch
                         /\ log'[<<i, g>>].term = log[<<i, g>>].term
                         /\ claims'[<<i, g>>] = "absent" <=> claims[<<i, g>>] = "absent"
  PROVE  LifeStep(i)
<1>1. Launched(i)' = Launched(i)
  BY DEF Launched
<1>2. SucceededIn(i)' = SucceededIn(i)
  BY DEF SucceededIn
<1>3. UnderWay(i)' = UnderWay(i)
  BY <1>1 DEF UnderWay, Launched
<1>4. LifeOf(i)' = LifeOf(i)
  BY <1>1, <1>2, <1>3 DEF LifeOf
<1>5. QED BY <1>1, <1>4 DEF LifeStep

\* The first claim of an item opens it; a later one changes nothing.
LEMMA ClaimLife ==
  ASSUME IInv, NEW k \in Attempts, Claims(k), NEW i \in Items
  PROVE  LifeStep(i)
<1>1. \A g \in Gens : <<i, g>> \in Attempts
  BY PairFacts
<1>2. \A g \in Gens : /\ log'[<<i, g>>].launch = log[<<i, g>>].launch
                      /\ log'[<<i, g>>].term = log[<<i, g>>].term
                      /\ claims'[<<i, g>>] = "absent" <=> claims[<<i, g>>] = "absent" /\ <<i, g>> # k
  BY <1>1 DEF Claims
<1>3. Launched(i)' = Launched(i)
  BY <1>2 DEF Launched
<1>4. SucceededIn(i)' = SucceededIn(i)
  BY <1>2 DEF SucceededIn
<1>5. UnderWay(i)' = UnderWay(i)
  BY <1>2, <1>3 DEF UnderWay, Launched
<1>6. CASE \A g \in Gens : claims[<<i, g>>] = "absent"
  <2>1. \A g \in Gens : ~log[<<i, g>>].launch /\ log[<<i, g>>].term = "none"
    BY <1>1, <1>6 DEF IInv, StoreInv, AttemptOK, NoEvents
  <2>2. Launched(i) = {} /\ ~SucceededIn(i) /\ ~UnderWay(i)
    BY <2>1 DEF Launched, SucceededIn, UnderWay
  <2>3. Launched(i) # Gens
    BY <2>2, GensFacts
  <2>4. LifeOf(i) = "absent" /\ LifeOf(i)' \in {"absent", "open"}
    BY <1>3, <1>4, <1>5, <1>6, <2>2, <2>3 DEF LifeOf
  <2>5. QED BY <1>3, <2>4 DEF LifeStep
<1>7. CASE ~ \A g \in Gens : claims[<<i, g>>] = "absent"
  <2>1. ~ \A g \in Gens : claims'[<<i, g>>] = "absent"
    BY <1>2, <1>7
  <2>2. LifeOf(i)' = LifeOf(i)
    BY <1>3, <1>4, <1>5, <1>7, <2>1 DEF LifeOf
  <2>3. QED BY <1>3, <2>2 DEF LifeStep
<1>8. QED BY <1>6, <1>7

\* The launch of the attempt at work is the only one under way, of an item that
\* has not succeeded.
LEMMA LaunchLife ==
  ASSUME IInv, run.pc = "launch_event", Launches(K), NEW i \in Items
  PROVE  LifeStep(i)
<1>1. \A g \in Gens : <<i, g>> \in Attempts
  BY PairFacts
<1>2. /\ K \in Attempts /\ K = <<run.item, run.gen>> /\ run.item \in Items /\ run.gen \in Gens
      /\ log[K].term = "none" /\ claims[K] # "absent" /\ StoreInv
  BY WorkFacts DEF Working, StageOK
<1>3. \A g \in Gens : /\ log'[<<i, g>>].launch = (log[<<i, g>>].launch \/ <<i, g>> = K)
                      /\ log'[<<i, g>>].term = log[<<i, g>>].term
                      /\ claims'[<<i, g>>] = "absent" <=> claims[<<i, g>>] = "absent"
  BY <1>1 DEF Launches
<1>a. \A g \in Gens : log[<<i, g>>].launch \in BOOLEAN
  BY <1>1, <1>2 DEF StoreInv, StoreTypes, LogFacts
<1>4. CASE i # run.item \/ log[K].launch
  <2>1. \A g \in Gens : log'[<<i, g>>].launch = log[<<i, g>>].launch
    BY <1>2, <1>3, <1>4, <1>a
  <2>2. QED BY <1>3, <2>1, SameLife
<1>5. CASE i = run.item /\ ~log[K].launch
  <2>1. /\ OthersFailed(i, run.gen)
        /\ \A k \in Attempts : k # K => Settled(k)
    BY <1>2, <1>5 DEF IInv, RunOK, WorkOK, Working
  <2>2. ~SucceededIn(i)
    BY <1>2, <1>5, <2>1 DEF SucceededIn, OthersFailed
  <2>3. ASSUME NEW g \in Gens, g # run.gen, log[<<i, g>>].launch
        PROVE  log[<<i, g>>].term # "none"
    <3>1. <<i, g>> # K /\ <<i, g>> \in Attempts
      BY <1>1, <1>2, <2>3
    <3>2. AttemptOK(<<i, g>>) /\ Settled(<<i, g>>)
      BY <1>2, <2>1, <3>1 DEF StoreInv
    <3>3. claims[<<i, g>>] \in ClaimTerminals
      BY <2>3, <3>2 DEF AttemptOK, Settled, NoEvents
    <3>4. QED BY <3>2, <3>3 DEF AttemptOK, ClaimTerminals
  <2>4. run.gen \notin Launched(i)
    BY <1>2, <1>5 DEF Launched
  <2>5. ~UnderWay(i)
    BY <2>3, <2>4 DEF UnderWay, Launched
  <2>6. Launched(i)' = Launched(i) \cup {run.gen}
    BY <1>2, <1>3, <1>5 DEF Launched
  <2>7. ~SucceededIn(i)' /\ UnderWay(i)'
    <3>1. ~SucceededIn(i)'
      BY <1>3, <2>2 DEF SucceededIn
    <3>2. run.gen \in Launched(i)' /\ log'[<<i, run.gen>>].term = "none"
      BY <1>2, <1>3, <1>5, <2>6
    <3>3. QED BY <3>1, <3>2 DEF UnderWay
  <2>8. /\ ~ \A g \in Gens : claims[<<i, g>>] = "absent"
        /\ ~ \A g \in Gens : claims'[<<i, g>>] = "absent"
    BY <1>2, <1>3, <1>5
  <2>9. LifeOf(i) = "open" /\ LifeOf(i)' = "trying"
    BY <1>2, <2>2, <2>4, <2>5, <2>7, <2>8 DEF LifeOf
  <2>10. QED BY <1>2, <2>4, <2>6, <2>9 DEF LifeStep
<1>6. QED BY <1>4, <1>5

\* A terminal ends the try that was under way; a terminal of an attempt that was
\* never launched changes nothing.
LEMMA EndLife ==
  ASSUME IInv, NEW k \in Attempts, NEW term \in ClaimTerminals, Ends(k, term),
         term = "succeeded" => log[k].launch, NEW i \in Items
  PROVE  LifeStep(i)
<1>1. /\ \A g \in Gens : <<i, g>> \in Attempts
      /\ k = <<k[1], k[2]>> /\ k[1] \in Items /\ k[2] \in Gens
  BY PairFacts, AttemptFacts
<1>2. \A g \in Gens : /\ log'[<<i, g>>].launch = log[<<i, g>>].launch
                      /\ log'[<<i, g>>].term = IF <<i, g>> = k THEN term ELSE log[<<i, g>>].term
                      /\ claims'[<<i, g>>] = "absent" <=> claims[<<i, g>>] = "absent"
  BY <1>1 DEF Ends
<1>3. claims[k] # "absent" /\ log[k].term = "none" /\ term # "none"
  BY DEF Ends
<1>4. Launched(i)' = Launched(i)
  BY <1>2 DEF Launched
<1>5. CASE i # k[1]
  <2>1. \A g \in Gens : <<i, g>> # k
    BY <1>1, <1>5
  <2>2. QED BY <1>2, <2>1, SameLife
<1>6. CASE i = k[1]
  <2>1. /\ ~ \A g \in Gens : claims[<<i, g>>] = "absent"
        /\ ~ \A g \in Gens : claims'[<<i, g>>] = "absent"
    BY <1>1, <1>2, <1>3, <1>6
  <2>2. CASE SucceededIn(i)
    <3>1. SucceededIn(i)'
      BY <1>2, <1>3, <2>2 DEF SucceededIn
    <3>2. QED BY <1>4, <2>1, <2>2, <3>1 DEF LifeOf, LifeStep
  <2>3. CASE ~SucceededIn(i) /\ log[k].launch
    <3>1. UnderWay(i)
      BY <1>1, <1>3, <1>6, <2>3 DEF UnderWay, Launched
    <3>2. LifeOf(i) = "trying"
      BY <2>1, <2>3, <3>1 DEF LifeOf
    <3>3. LifeOf(i)' \in {"done", "trying", "failed"} \/ (LifeOf(i)' = "open" /\ Launched(i) # Gens)
      BY <1>4, <2>1 DEF LifeOf
    <3>4. QED BY <1>4, <3>2, <3>3 DEF LifeStep
  <2>4. CASE ~SucceededIn(i) /\ ~log[k].launch
    <3>1. ~SucceededIn(i)'
      BY <1>2, <2>4 DEF SucceededIn
    <3>2. \A g \in Launched(i) : log'[<<i, g>>].term = log[<<i, g>>].term
      BY <1>2, <2>4 DEF Launched
    <3>3. UnderWay(i)' = UnderWay(i)
      BY <1>4, <3>2 DEF UnderWay
    <3>4. LifeOf(i)' = LifeOf(i)
      BY <1>4, <2>1, <2>4, <3>1, <3>3 DEF LifeOf
    <3>5. QED BY <1>4, <3>4 DEF LifeStep
  <2>5. QED BY <2>2, <2>3, <2>4
<1>7. QED BY <1>5, <1>6

LEMMA EveryItemSteps ==
  ASSUME LifeInv, [Next]_vars, NEW i \in Items
  PROVE  LifeStep(i)
<1>1. CASE SameFacts
  <2>1. \A g \in Gens : <<i, g>> \in Attempts
    BY PairFacts
  <2>2. QED BY <1>1, <2>1, SameLife DEF SameFacts
<1>2. ASSUME NEW k \in Attempts, Claims(k) PROVE LifeStep(i)
  BY <1>2, ClaimLife DEF LifeInv
<1>3. CASE LaunchEvent /\ Launches(K)
  BY <1>3, LaunchLife DEF LifeInv, LaunchEvent
<1>4. ASSUME NEW k \in Attempts, NEW term \in ClaimTerminals, Ends(k, term),
             term = "succeeded" => log[k].launch
      PROVE  LifeStep(i)
  BY <1>4, EndLife DEF LifeInv
<1>5. QED BY <1>1, <1>2, <1>3, <1>4, OneFactAStep

\* The number of launches is bounded, and one more launch is one more try.
LEMMA TriesFacts ==
  ASSUME NEW S \in SUBSET Gens
  PROVE  /\ Cardinality(S) \in 0 .. MaxGen + 1
         /\ S # Gens => Cardinality(S) < MaxGen + 1
         /\ \A g \in Gens \ S : Cardinality(S \cup {g}) = Cardinality(S) + 1
<1>1. IsFiniteSet(Gens) /\ Cardinality(Gens) = MaxGen + 1
  <2>1. 0 \in Int /\ MaxGen \in Int /\ ~(0 > MaxGen) /\ MaxGen - 0 + 1 = MaxGen + 1
    BY RunConstants
  <2>2. QED BY <2>1, FS_Interval DEF Gens
<1>2. /\ IsFiniteSet(S) /\ Cardinality(S) <= Cardinality(Gens)
      /\ Cardinality(Gens) = Cardinality(S) => Gens = S
  BY <1>1, FS_Subset
<1>3. Cardinality(S) \in Nat
  BY <1>2, FS_CardinalityType
<1>4. \A g \in Gens \ S : Cardinality(S \cup {g}) = Cardinality(S) + 1
  BY <1>2, FS_AddElement
<1>5. QED BY <1>1, <1>2, <1>3, <1>4, RunConstants

LEMMA LifeStepsAreLife ==
  ASSUME \A i \in Items : LifeStep(i)
  PROVE  Life!LifeNext
<1> DEFINE life == [i \in Items |-> LifeOf(i)]
           tries == [i \in Items |-> Cardinality(Launched(i))]
<1>1. life' \in [Items -> Life!Lives]
  <2>1. \A i \in Items : LifeOf(i)' \in Life!Lives
    BY DEF LifeOf, Life!Lives
  <2>2. QED BY <2>1
<1>2. \A i \in Items : Launched(i) \in SUBSET Gens /\ Launched(i)' \in SUBSET Gens
  BY DEF Launched
<1>3. tries' \in [Items -> 0 .. MaxGen + 1]
  <2>1. \A i \in Items : Cardinality(Launched(i)') \in 0 .. MaxGen + 1
    BY <1>2, TriesFacts
  <2>2. QED BY <2>1
<1>4. ASSUME NEW i \in Items
      PROVE  \/ Life!Create(i) \/ Life!Try(i) \/ Life!Succeed(i)
             \/ Life!Retry(i) \/ Life!GiveUp(i) \/ Life!Stay(i)
  <2> DEFINE S == Launched(i)
             T == Launched(i)'
  <2>1. /\ life[i] = LifeOf(i) /\ life'[i] = LifeOf(i)'
        /\ tries[i] = Cardinality(S) /\ tries'[i] = Cardinality(T)
    OBVIOUS
  <2>2. /\ Cardinality(S) \in 0 .. MaxGen + 1
        /\ S # Gens => Cardinality(S) < MaxGen + 1
        /\ \A g \in Gens \ S : Cardinality(S \cup {g}) = Cardinality(S) + 1
    BY <1>2, TriesFacts
  <2>3. \/ LifeOf(i) = "absent" /\ LifeOf(i)' = "open" /\ Cardinality(T) = Cardinality(S)
        \/ /\ LifeOf(i) = "open" /\ LifeOf(i)' = "trying"
           /\ Cardinality(S) < MaxGen + 1 /\ Cardinality(T) = Cardinality(S) + 1
        \/ /\ LifeOf(i) = "trying" /\ LifeOf(i)' \in {"done", "failed"}
           /\ Cardinality(T) = Cardinality(S)
        \/ /\ LifeOf(i) = "trying" /\ LifeOf(i)' = "open"
           /\ Cardinality(T) = Cardinality(S) /\ Cardinality(S) < MaxGen + 1
        \/ LifeOf(i)' = LifeOf(i) /\ Cardinality(T) = Cardinality(S)
    <3>1. LifeStep(i)
      OBVIOUS
    <3>2. ASSUME NEW g \in Gens \ S, T = S \cup {g}
          PROVE  Cardinality(T) = Cardinality(S) + 1 /\ Cardinality(S) < MaxGen + 1
      BY <2>2, <3>2
    <3>3. QED BY <2>2, <3>1, <3>2 DEF LifeStep
  <2> HIDE DEF life, tries
  <2>4. QED
    BY <2>1, <2>3 DEF Life!Create, Life!Try, Life!Succeed, Life!Retry, Life!GiveUp,
                      Life!Stay, Life!Moves, life, tries
<1>5. QED BY <1>1, <1>3, <1>4 DEF Life!LifeNext

\* Every step of every Execute, recovery and resume is a step of AttemptLife for
\* each item: launches are serial and bounded, a success is of a launch, and an
\* item that succeeded is never launched again.
THEOREM WorkflowImplementsLife == Spec => ImplementsLife
<1>1. Init => Life!LifeInit
  <2> SUFFICES ASSUME Init PROVE Life!LifeInit
    OBVIOUS
  <2>1. ASSUME NEW i \in Items PROVE LifeOf(i) = "absent" /\ Cardinality(Launched(i)) = 0
    <3>1. \A g \in Gens : claims[<<i, g>>] = "absent" /\ ~log[<<i, g>>].launch
      BY PairFacts DEF Init, NoEvents
    <3>2. Launched(i) = {}
      BY <3>1 DEF Launched
    <3>3. QED BY <3>1, <3>2, FS_EmptySet DEF LifeOf
  <2>2. QED BY <2>1 DEF Life!LifeInit
<1>2. LifeInv /\ [Next]_vars => [Life!LifeNext]_(Life!lifeVars)
  BY EveryItemSteps, LifeStepsAreLife
<1>3. QED BY <1>1, <1>2, LifeInductive, PTL DEF Spec, ImplementsLife, Life!LifeSpec
=============================================================================
