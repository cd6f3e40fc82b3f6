---------------------------- MODULE WorkflowRun ----------------------------
(***************************************************************************)
(* One workflow run of internal/workflowrun: Service.Execute claims ready  *)
(* items, launches one provider process per attempt, and finalizes every   *)
(* attempt across three durable stores, the event log, the claim store and *)
(* the execution-authority store.  The process can die between any two     *)
(* writes and any write can fail; the next Execute of the run recovers     *)
(* (RecoverOpenLaunchInterruptsAuthoritative) before it schedules.         *)
(*                                                                         *)
(* The event log is kept as what its readers compute from it: per attempt  *)
(* the facts its events leave, and in streamOK whether                     *)
(* ValidateEventStreamInvariants still accepts the whole stream.  The log  *)
(* only grows, so both are functions of it.  Digests, routes and the       *)
(* identity stamps of events are left out: this code writes them from one  *)
(* source and they agree, except those of the soft interrupt, whose        *)
(* payload lacks them (class "soft").  Claims keep the state that a        *)
(* single owner can see; WorkClaim models the ledger itself.               *)
(***************************************************************************)
EXTENDS WorkGraph

CONSTANTS
    Graph,       \* the materialized work graph
    NoItem,      \* no current item
    MaxGen,      \* bound on attempt generations of an item
    Integrates,  \* doIntegrate: succeeded children are committed to the goal branch
    Resumes,     \* whether goalrun restarts the run with Resume (soft recovery first)
    Faults       \* faults that happen, a subset of FaultKinds

Items == Graph.items

Gens == 0 .. MaxGen

Attempts == Items \X Gens

\* crash: the process dies; append: Append of the event log fails; store: a
\* write of the claim or authority store, or of the checkpoint, fails; cancel:
\* the caller cancels the context; observe: a process cannot be observed or killed.
FaultKinds == {"crash", "append", "store", "cancel", "observe"}

ASSUME RunConstants ==
    /\ NoItem \notin Items
    /\ MaxGen \in Nat
    /\ Integrates \in BOOLEAN
    /\ Resumes \in BOOLEAN
    /\ Faults \subseteq FaultKinds
    /\ Graph.term = [i \in Items |-> "none"]
    /\ IsFiniteSet(Items)
    /\ ValidateExecutable(Graph)

VARIABLES
    log,       \* log[k]: the facts the events of attempt k leave
    streamOK,  \* ValidateEventStreamInvariants accepts the log
    lastTerm,  \* lastTerm[i]: terminal the last closing event of item i stands for
    claims,    \* claims[k]: absent, open, or the terminal it was closed with
    auth,      \* auth[k]: the execution-authority row of attempt k
    proc,      \* proc[k]: the provider process of attempt k
    merged,    \* attempts whose product commit is on the goal branch
    run        \* the Execute in progress (volatile)

eventLog == <<log, streamOK, lastTerm>>

world == <<proc, merged>>

vars == <<log, streamOK, lastTerm, claims, auth, proc, merged, run>>

----------------------------------------------------------------------------
(* The event log *)

\* seen: some event names the attempt.  last: which kind of event closed it
\* last, terminal or one that readers take for a success (reuse, integrate).
NoEvents ==
    [seen |-> FALSE, launch |-> FALSE, pid |-> FALSE, int |-> "none",
     term |-> "none", class |-> "none", last |-> "none"]

Ended(f) == f.last # "none"

\* OpenLaunchesWithoutTerminal, for one attempt.
OpenLaunch(k) == log[k].launch /\ ~Ended(log[k]) /\ log[k].int = "none"

\* What the events leave: kind, interrupt or terminal class, terminal.
Record(f, kind, class, term) ==
    [seen |-> TRUE,
     launch |-> f.launch \/ kind = "launch",
     pid |-> f.pid \/ kind = "pid",
     int |-> IF kind = "interrupt" THEN class ELSE f.int,
     term |-> IF kind = "terminal" THEN term ELSE f.term,
     class |-> IF kind = "terminal" THEN class ELSE f.class,
     last |-> CASE kind = "terminal" -> "terminal"
                [] kind \in {"reuse", "integrate"} -> "success"
                [] OTHER -> f.last]

\* ValidateEventStreamInvariants: the event may follow those of attempt k.
MayFollow(k, kind, class) ==
    LET f == log[k] IN
    CASE kind = "launch" ->
           /\ ~Ended(f) /\ f.int = "none" /\ ~f.launch
           /\ \A g \in Gens : ~OpenLaunch(<<k[1], g>>)
      [] kind = "pid" -> f.launch /\ ~Ended(f) /\ f.int = "none" /\ ~f.pid
      [] kind = "interrupt" -> ~Ended(f) /\ f.int = "none"
      [] kind = "terminal" ->
           /\ f.term = "none"
           /\ f.int # "none" => class = IF f.int = "hard" THEN "hard" ELSE "service"
      [] kind \in {"reuse", "integrate"} -> f.int = "none"
      [] OTHER -> TRUE

Written(k, kind, class, term) ==
    /\ log' = [log EXCEPT ![k] = Record(log[k], kind, class, term)]
    /\ streamOK' = (streamOK /\ MayFollow(k, kind, class))
    /\ lastTerm' = [lastTerm EXCEPT ![k[1]] =
           CASE kind = "terminal" -> term
             [] kind \in {"reuse", "integrate"} -> "succeeded"
             [] OTHER -> lastTerm[k[1]]]

(***************************************************************************)
(* Append: the line is written and synced; or the call fails with the line *)
(* not there, or there although Write or Sync reported an error.           *)
(***************************************************************************)
Append(k, kind, class, term, ok, failed) ==
    \/ Written(k, kind, class, term) /\ run' = ok
    \/ /\ "append" \in Faults
       /\ Written(k, kind, class, term) \/ UNCHANGED eventLog
       /\ run' = failed

----------------------------------------------------------------------------
(* What a restart reads from the log *)

SeenGens(i) == {g \in Gens : log[<<i, g>>].seen}

Latest(S) == CHOOSE g \in S : \A h \in S : h <= g

\* The terminal readers see: a reuse or integrate event counts as a success.
ReadTerminal(k) == IF log[k].last = "success" THEN "succeeded" ELSE log[k].term

HardRecovered(k) == log[k].int = "hard" \/ log[k].class = "hard"

\* NextAttemptGenerationFromEvents: {} is no selection.
NextAttemptGeneration(i) ==
    IF SeenGens(i) = {} THEN {}
    ELSE LET g == Latest(SeenGens(i))
             k == <<i, g>>
         IN  CASE ReadTerminal(k) = "succeeded" -> {g}
               [] HardRecovered(k) /\ ReadTerminal(k) \in {"cancelled", "failed"} -> {g + 1}
               [] OTHER -> {}

\* InterruptedFromEvents: the latest interrupted attempt, if it has not ended.
AbortedGens(i) ==
    LET hit == {g \in Gens : log[<<i, g>>].int # "none"}
    IN  IF hit = {} \/ Ended(log[<<i, Latest(hit)>>]) THEN {} ELSE {Latest(hit)}

\* FailedRetryGenerations: the last terminal of the item is not a success.
FailedRetry(i) ==
    IF lastTerm[i] \in {"none", "succeeded"} THEN {} ELSE {Latest(SeenGens(i)) + 1}

\* applyEventLogResumeSource: the explicit next generation, {} is none.
ResumeGeneration(i) ==
    LET next == {g + 1 : g \in AbortedGens(i)} \cup FailedRetry(i)
    IN  IF next = {} THEN {} ELSE {Latest(next)}

----------------------------------------------------------------------------
(* Recovery, phase 1: validateRecoverCandidates *)

NoAuthority == [phase |-> "absent", done |-> "none"]

ClaimTerminals == {"succeeded", "failed", "cancelled"}

Candidate(k) == claims[k] # "absent" \/ log[k].launch \/ Ended(log[k]) \/ auth[k] # NoAuthority

\* Claim, launch event and authority row are there, and a terminal in one of
\* the other stores is the one of the log.
StoresCoherent(k) ==
    /\ claims[k] # "absent" /\ log[k].launch /\ auth[k] # NoAuthority
    /\ claims[k] \in ClaimTerminals => claims[k] = log[k].term
    /\ auth[k].done # "none" => auth[k].done = log[k].term

\* Mutant: a phase behind its pid event counts as a conflict.
PhaseExact(k) ==
    /\ auth[k].phase = "pid_event_failed" => ~log[k].pid
    /\ (auth[k].phase = "pid_event_persisted") = log[k].pid

PhaseCoherent(k) ==
    /\ auth[k].phase = "pid_event_failed" => ~log[k].pid
    /\ auth[k].phase = "pid_event_persisted" => log[k].pid

\* An attempt with a terminal is completed through its pid event only.
Completable(k) == log[k].pid

Needs(k) == log[k].term = "none" \/ claims[k] = "open" \/ auth[k].done = "none"

(***************************************************************************)
(* The verdict on one attempt: reject fails the whole recovery before any  *)
(* mutation; done needs nothing; the others are the recovery modes.        *)
(***************************************************************************)
Verdict(k) ==
    LET f == log[k] IN
    IF ~StoresCoherent(k) \/ ~PhaseCoherent(k) \/ f.int = "soft" \/ f.class = "misrouted"
    THEN "reject"
    ELSE CASE f.term # "none" /\ f.class # "hard" ->
                IF f.int = "hard" \/ ~Completable(k) THEN "reject"
                ELSE IF Needs(k) THEN "normal" ELSE "done"
           [] f.term # "none" /\ f.class = "hard" ->
                IF f.int # "hard" \/ ~Completable(k) THEN "reject"
                ELSE IF Needs(k) THEN "hard" ELSE "done"
           [] f.term = "none" /\ f.pid -> IF f.int = "service" THEN "reject" ELSE "hard"
           [] OTHER -> "prepid"

\* Only hard recovery may kill a provider that is still alive.
Recoverable(k) == Verdict(k) # "reject" /\ (proc[k] = "live" /\ Needs(k) => Verdict(k) = "hard")

----------------------------------------------------------------------------
(***************************************************************************)
(* The Execute in progress.  recov: the attempts recovery froze, with their *)
(* modes; todo: the members of the wave not yet taken; ev: the terminal     *)
(* evidence of this Execute; want and prior: AttemptGeneration and          *)
(* PriorSucceeded of the request; ctx: the context is still live; fin: how  *)
(* the current attempt is being finalized.                                  *)
(***************************************************************************)
NoFin == [term |-> "none", class |-> "none", stop |-> FALSE, api |-> "normal", reroute |-> FALSE]

Down ==
    [pc |-> "down", item |-> NoItem, gen |-> 0, alt |-> FALSE, ctx |-> TRUE,
     recov |-> {}, todo |-> {}, ev |-> [i \in Items |-> "none"],
     want |-> [i \in Items |-> {}], prior |-> {}, fin |-> NoFin]

Go(pc) == [run EXCEPT !.pc = pc]

K == <<run.item, run.gen>>

\* Finalize the current attempt: first its terminal event.
Finalize(fin) == [run EXCEPT !.pc = "terminal", !.fin = fin]

Failing == [NoFin EXCEPT !.term = "failed", !.class = "plain"]

\* A failure after which Execute returns.  Before an alternate has ended, its
\* terminal is written with the route of the attempt it supersedes.
Stopping == [Failing EXCEPT !.stop = TRUE, !.class = IF run.alt THEN "misrouted" ELSE "plain"]

\* The pid failure of a first attempt completes through the pre-PID call.
PidFailing == [Stopping EXCEPT !.api = IF run.alt THEN "normal" ELSE "prepid"]

First(x, S, val(_)) == x \in S /\ \A y \in S : val(x) <= val(y)

AttemptOrder(k) == Graph.order[k[1]] * (MaxGen + 1) + k[2]

\* Writes through the context fail once it is cancelled.
StoreWorks == run.ctx

StoreMayFail == ~run.ctx \/ "store" \in Faults

Init ==
    /\ log = [k \in Attempts |-> NoEvents]
    /\ streamOK = TRUE
    /\ lastTerm = [i \in Items |-> "none"]
    /\ claims = [k \in Attempts |-> "absent"]
    /\ auth = [k \in Attempts |-> NoAuthority]
    /\ proc = [k \in Attempts |-> "none"]
    /\ merged = {}
    /\ run = Down

----------------------------------------------------------------------------
(* Start of an Execute: goalrun's resume, then authoritative recovery *)

Start ==
    /\ run.pc = "down"
    /\ run' = [Down EXCEPT !.pc = IF Resumes THEN "resume" ELSE "validate"]
    /\ UNCHANGED <<eventLog, claims, auth, world>>

\* RecoverOpenLaunchInterrupts: one interrupt for every open launch.
SoftInterrupt ==
    /\ run.pc = "resume" /\ streamOK
    /\ \E k \in Attempts :
          /\ First(k, {m \in Attempts : OpenLaunch(m)}, AttemptOrder)
          /\ Append(k, "interrupt", "soft", "none", run, Down)
    /\ UNCHANGED <<claims, auth, world>>

\* The checkpoint may lag behind the claims, so prior is any part of them.
Resume ==
    /\ run.pc = "resume"
    /\ \/ streamOK /\ (\A k \in Attempts : ~OpenLaunch(k))
          /\ \E prior \in SUBSET {i \in Items : \E g \in Gens : claims[<<i, g>>] = "succeeded"} :
                run' = [run EXCEPT !.pc = "validate", !.prior = prior,
                                   !.want = [i \in Items |-> ResumeGeneration(i)]]
       \/ ~streamOK /\ run' = Down
    /\ UNCHANGED <<eventLog, claims, auth, world>>

Frozen == {<<k, Verdict(k)>> : k \in {m \in Attempts : Candidate(m) /\ Verdict(m) # "done"}}

\* Mutant: a provider that is still alive is left running.
KillsNothing == proc

\* ensureProviderDead: the live providers of attempts to recover are killed.
Killed == [k \in Attempts |-> IF <<k, "hard">> \in Frozen /\ proc[k] = "live" THEN "dead" ELSE proc[k]]

Rejected == ~streamOK \/ \E k \in Attempts : Candidate(k) /\ ~Recoverable(k)

\* Phases 1 and 2a: nothing durable changes before every process is dead.
Validate ==
    /\ run.pc = "validate"
    /\ \/ ~Rejected /\ proc' = Killed
          /\ run' = [run EXCEPT !.pc = "recover", !.recov = Frozen]
       \/ Rejected /\ run' = Down /\ UNCHANGED proc
       \/ "observe" \in Faults /\ ~Rejected /\ run' = Down
          /\ proc' \in {proc, Killed}
    /\ UNCHANGED <<eventLog, claims, auth, merged>>

----------------------------------------------------------------------------
(* Recovery, phase 2b: the writes one attempt still needs, in their order *)

Recovering(k, mode) ==
    /\ run.pc = "recover"
    /\ First(<<k, mode>>, run.recov, LAMBDA r : AttemptOrder(r[1]))

NeedsPhase(k) == log[k].pid /\ auth[k].phase = "authority_persisted" /\ auth[k].done = "none"

NeedsInterrupt(k, mode) == mode = "hard" /\ log[k].term = "none" /\ log[k].int = "none"

\* Mutant: the terminal is named after the interrupt it follows.
AbortedTerminal(mode) == "aborted"

RecoveredTerminal(mode) == IF mode = "hard" THEN "cancelled" ELSE "failed"

\* Transition and Complete of the authority store, and Close of the claims.
Transition(k, phase) == auth' = [auth EXCEPT ![k].phase = phase]

CompletesFrom(api) ==
    IF api = "prepid" THEN {"authority_persisted", "pid_event_failed"} ELSE {"pid_event_persisted"}

Complete(k, api, term) ==
    /\ auth[k].phase \in CompletesFrom(api)
    /\ auth' = [auth EXCEPT ![k].done = term]

Close(k, term) == claims' = [claims EXCEPT ![k] = term]

RecoverPhase ==
    /\ \E k \in Attempts, mode \in {"normal", "hard", "prepid"} :
          /\ Recovering(k, mode) /\ NeedsPhase(k)
          /\ \/ Transition(k, "pid_event_persisted") /\ UNCHANGED run
             \/ "store" \in Faults /\ run' = Down /\ UNCHANGED auth
    /\ UNCHANGED <<eventLog, claims, world>>

\* Every append of recovery is followed by a validation of the whole stream.
RecoverAppend(k, kind, class, term) ==
    \/ Written(k, kind, class, term) /\ run' = IF streamOK' THEN run ELSE Down
    \/ "append" \in Faults /\ (Written(k, kind, class, term) \/ UNCHANGED eventLog) /\ run' = Down

RecoverInterrupt ==
    /\ \E k \in Attempts : /\ Recovering(k, "hard") /\ ~NeedsPhase(k) /\ NeedsInterrupt(k, "hard")
                           /\ RecoverAppend(k, "interrupt", "hard", "none")
    /\ UNCHANGED <<claims, auth, world>>

RecoverTerminal ==
    /\ \E k \in Attempts, mode \in {"hard", "prepid"} :
          /\ Recovering(k, mode) /\ ~NeedsPhase(k) /\ ~NeedsInterrupt(k, mode)
          /\ log[k].term = "none"
          /\ RecoverAppend(k, "terminal", IF mode = "hard" THEN "hard" ELSE "plain",
                           RecoveredTerminal(mode))
    /\ UNCHANGED <<claims, auth, world>>

RecoverClose ==
    /\ \E k \in Attempts, mode \in {"normal", "hard", "prepid"} :
          /\ Recovering(k, mode) /\ ~NeedsPhase(k) /\ log[k].term # "none" /\ claims[k] = "open"
          /\ \/ Close(k, log[k].term) /\ UNCHANGED run
             \/ "store" \in Faults /\ run' = Down /\ UNCHANGED claims
    /\ UNCHANGED <<eventLog, auth, world>>

RecoverComplete ==
    /\ \E k \in Attempts, mode \in {"normal", "hard", "prepid"} :
          /\ Recovering(k, mode) /\ ~NeedsPhase(k) /\ log[k].term # "none" /\ claims[k] # "open"
          /\ auth[k].done = "none"
          /\ \/ Complete(k, mode, log[k].term) /\ UNCHANGED run
             \/ "store" \in Faults /\ run' = Down /\ UNCHANGED auth
    /\ UNCHANGED <<eventLog, claims, world>>

RecoverNext ==
    /\ \E k \in Attempts, mode \in {"normal", "hard", "prepid"} :
          /\ Recovering(k, mode) /\ ~Needs(k)
          /\ run' = [run EXCEPT !.recov = @ \ {<<k, mode>>}]
    /\ UNCHANGED <<eventLog, claims, auth, world>>

\* The run.start event, then reconcileClaimsWithEventLog, which finds every
\* claim closed and equal to its terminal event.
Recovered ==
    /\ run.pc = "recover" /\ run.recov = {}
    /\ \/ run' = Go("wave")
       \/ "append" \in Faults /\ run' = Down
    /\ UNCHANGED <<eventLog, claims, auth, world>>

----------------------------------------------------------------------------
(* Waves, claims and the reuse of durable outcomes *)

Ready == EvaluateReady(Graph, run.ev)

\* PlanWave keeps the ready items its budgets admit, at least one of them.  A
\* cancelled context stops here with a parent interrupt, which marks open
\* attempts; none is open between waves.
Wave ==
    /\ run.pc = "wave"
    /\ \/ run.ctx /\ Ready # {}
          /\ \E members \in SUBSET Ready \ {{}} :
                run' = [run EXCEPT !.pc = "pick", !.todo = members]
       \/ (~run.ctx \/ Ready = {}) /\ run' = Down
    /\ UNCHANGED <<eventLog, claims, auth, world>>

WaveDone ==
    /\ run.pc = "pick" /\ run.todo = {}
    /\ run' = Go("wave")
    /\ UNCHANGED <<eventLog, claims, auth, world>>

Picked(i) ==
    /\ run.pc = "pick"
    /\ First(i, run.todo, LAMBDA j : Graph.order[j])

\* The request's generation must agree with the durable one.
GenerationConflict(i) ==
    /\ run.want[i] # {} /\ NextAttemptGeneration(i) # {}
    /\ run.want[i] # NextAttemptGeneration(i)

ChosenGeneration(i) ==
    CHOOSE g \in 0 .. MaxGen + 1 :
      g \in IF run.want[i] # {} THEN run.want[i]
            ELSE IF NextAttemptGeneration(i) # {} THEN NextAttemptGeneration(i) ELSE {0}

SucceededAttempts(i) == {k \in {i} \X Gens : claims[k] = "succeeded"}

\* Mutant: closed claims are not looked up.
ReusesNothing(i) == {}

\* The closed claim that Claim answers with: the item's success, or the
\* attempt's own claim whatever its terminal.
Reused(i) ==
    IF SucceededAttempts(i) # {} THEN SucceededAttempts(i)
    ELSE {k \in {<<i, ChosenGeneration(i)>>} \cap Attempts : claims[k] \in ClaimTerminals}

\* Mutant: whatever the claim was closed with, a reuse counts as a success.
ReusedAsSuccess(k) == "succeeded"

ReusedTerminal(k) == claims[k]

\* Mutant: the evidence of a reused item is not kept.
ForgetsReused(i, term) == [run EXCEPT !.todo = @ \ {i}]

TakeReused(i, term) == [run EXCEPT !.todo = @ \ {i}, !.ev[i] = term]

Reuse ==
    /\ \E i \in Items :
          /\ Picked(i)
          /\ \/ i \in run.prior
             \/ i \notin run.prior /\ ~GenerationConflict(i)
          /\ \E k \in IF i \in run.prior THEN SucceededAttempts(i) ELSE Reused(i) :
                Append(k, "reuse", "none", "none", TakeReused(i, ReusedTerminal(k)), Down)
    /\ UNCHANGED <<claims, auth, world>>

Claimable(i) ==
    /\ ~GenerationConflict(i) /\ Reused(i) = {}
    /\ \A g \in Gens : claims[<<i, g>>] # "open"
    /\ ChosenGeneration(i) \in Gens     \* bound MaxGen

Claim ==
    /\ \E i \in Items :
          /\ Picked(i) /\ i \notin run.prior
          /\ \/ /\ Claimable(i)
                /\ claims' = [claims EXCEPT ![<<i, ChosenGeneration(i)>>] = "open"]
                /\ run' = [run EXCEPT !.pc = "claim_event", !.todo = @ \ {i}, !.item = i,
                                      !.gen = ChosenGeneration(i), !.alt = FALSE, !.fin = NoFin]
             \/ /\ GenerationConflict(i) \/ (Reused(i) = {} /\ (~Claimable(i) \/ "store" \in Faults))
                /\ run' = Down /\ UNCHANGED claims
    /\ UNCHANGED <<eventLog, auth, world>>

----------------------------------------------------------------------------
(* One attempt: linkage events, spawn, provider *)

ClaimEvent ==
    /\ run.pc = "claim_event"
    /\ Append(K, "claim", "none", "none",
              Go(IF run.alt THEN "reroute" ELSE "launch_event"), Finalize(Stopping))
    /\ UNCHANGED <<claims, auth, world>>

\* OnModelUnavailableAlternate may refuse capacity; then the reroute event.
Reroute ==
    /\ run.pc = "reroute"
    /\ \/ Append(K, "reroute", "none", "none", Go("launch_event"), Finalize(Stopping))
       \/ run' = Finalize(Stopping) /\ UNCHANGED eventLog
    /\ UNCHANGED <<claims, auth, world>>

LaunchEvent ==
    /\ run.pc = "launch_event"
    /\ Append(K, "launch", "none", "none", Go("spawn"), Finalize(Stopping))
    /\ UNCHANGED <<claims, auth, world>>

\* The executor starts the provider, or returns without having started one.
Spawn ==
    /\ run.pc = "spawn"
    /\ \/ proc' = [proc EXCEPT ![K] = "live"] /\ run' = Go("persist")
       \/ run' = Go("returned") /\ UNCHANGED proc
    /\ UNCHANGED <<eventLog, claims, auth, merged>>

\* OnProcessStart failed: the executor kills and drains the process group.
PidFailure ==
    /\ proc' = [proc EXCEPT ![K] = "dead"]
    /\ run' = Finalize(PidFailing)

\* OnProcessStart: the authority row, the pid event, the phase of the row.
PersistAuthority ==
    /\ run.pc = "persist"
    /\ \/ /\ StoreWorks
          /\ auth' = [auth EXCEPT ![K].phase = "authority_persisted"]
          /\ run' = Go("pid_event") /\ UNCHANGED proc
       \/ StoreMayFail /\ PidFailure /\ UNCHANGED auth
    /\ UNCHANGED <<eventLog, claims, merged>>

PidEvent ==
    /\ run.pc = "pid_event"
    /\ \/ /\ Written(K, "pid", "none", "none")
          /\ run' = Go("phase") /\ UNCHANGED <<auth, proc>>
       \/ /\ "append" \in Faults
          /\ Written(K, "pid", "none", "none") \/ UNCHANGED eventLog
          /\ \/ StoreWorks /\ Transition(K, "pid_event_failed")
             \/ StoreMayFail /\ UNCHANGED auth
          /\ PidFailure
    /\ UNCHANGED <<claims, merged>>

SpawnPhase ==
    /\ run.pc = "phase"
    /\ \/ /\ StoreWorks /\ Transition(K, "pid_event_persisted")
          /\ run' = Go("running") /\ UNCHANGED proc
       \/ StoreMayFail /\ PidFailure /\ UNCHANGED auth
    /\ UNCHANGED <<eventLog, claims, merged>>

\* The provider is gone, on its own or stopped by the executor, and drained.
ProviderReturns ==
    /\ run.pc = "running"
    /\ proc' = [proc EXCEPT ![K] = "dead"]
    /\ run' = Go("returned")
    /\ UNCHANGED <<eventLog, claims, auth, merged>>

(***************************************************************************)
(* What Execute makes of the outcome.  A success needs a spawned provider. *)
(* With the context cancelled, everything else is a service interrupt,     *)
(* unless the route or pid reported back does not match.                   *)
(***************************************************************************)
Outcome ==
    /\ run.pc = "returned"
    /\ run' \in
         (IF log[K].pid THEN {Go("accept"), Finalize(Stopping)} ELSE {})
         \cup {Finalize(Failing)}
         \cup (IF run.ctx
               THEN {Finalize([Failing EXCEPT !.term = IF run.alt THEN "failed" ELSE "cancelled"]),
                     Finalize([Failing EXCEPT !.reroute = ~run.alt])}
               ELSE {Go("interrupt")})
    /\ UNCHANGED <<eventLog, claims, auth, world>>

\* The typed interrupt.  The alternate's cancelled outcome goes through
\* finalizeFailed, which refuses it: Execute returns without a terminal.
Interrupt ==
    /\ run.pc = "interrupt"
    /\ Append(K, "interrupt", "service", "none",
              IF run.alt THEN Down
              ELSE Finalize([Failing EXCEPT !.term = "cancelled", !.class = "service"]),
              Finalize(Failing))
    /\ UNCHANGED <<claims, auth, world>>

----------------------------------------------------------------------------
(* Acceptance, integration and finalization *)

Succeeding == [NoFin EXCEPT !.term = "succeeded", !.class = "plain"]

Accept ==
    /\ run.pc = "accept"
    /\ run' \in {IF Integrates THEN Go("merge") ELSE Finalize(Succeeding), Finalize(Failing)}
    /\ UNCHANGED <<eventLog, claims, auth, world>>

\* Mutant: the error of IntegrateChild is dropped.
MergeFailureIgnored == Go("merge_event")

MergeFailed == Finalize(Failing)

\* IntegrateChild: its ledger or cleanup can fail after the commit landed.
Merge ==
    /\ run.pc = "merge"
    /\ \/ run.ctx /\ merged' = merged \cup {K} /\ run' = Go("merge_event")
       \/ merged' \in {merged, merged \cup {K}} /\ run' = MergeFailed
    /\ UNCHANGED <<eventLog, claims, auth, proc>>

MergeEvent ==
    /\ run.pc = "merge_event"
    /\ Append(K, "integrate", "none", "none",
              Finalize(Succeeding), Finalize([Failing EXCEPT !.stop = TRUE]))
    /\ UNCHANGED <<claims, auth, world>>

\* Mutant: a failed terminal append does not stop the finalization.
TerminalFailureIgnored == Go("close")

TerminalFailed == Down

TerminalEvent ==
    /\ run.pc = "terminal"
    /\ Append(K, "terminal", run.fin.class, run.fin.term, Go("close"), TerminalFailed)
    /\ UNCHANGED <<claims, auth, world>>

CloseClaim ==
    /\ run.pc = "close"
    /\ \/ Close(K, run.fin.term) /\ run' = Go("complete")
       \/ "store" \in Faults /\ run' = Down /\ UNCHANGED claims
    /\ UNCHANGED <<eventLog, auth, world>>

\* The next item; a failed required one ends the run, and so does an alternate
\* that succeeded where the executor of the first attempt returned an error.
ItemEnded ==
    (IF run.item \in Graph.optional \/ run.fin.term = "succeeded"
     THEN {[run EXCEPT !.pc = "pick", !.ev[run.item] = run.fin.term]} ELSE {Down})
    \cup (IF run.alt \/ "store" \in Faults THEN {Down} ELSE {})

\* After model_unavailable there may be an alternate, or no capacity hook for it.
Finalized ==
    IF run.fin.stop THEN {Down}
    ELSE ItemEnded \cup (IF run.fin.reroute /\ run.ctx THEN {Go("unavailable_event"), Down} ELSE {})

\* The first attempt of the item spawned, so a missing row is an error.
RowExpected == run.alt /\ auth[<<run.item, run.gen - 1>>] # NoAuthority

\* Mutant: the error of completing the authority is dropped.
CompleteFailureIgnored == Finalized

CompleteFailed == {Down}

CompleteAuthority ==
    /\ run.pc = "complete"
    /\ \/ /\ auth[K] = NoAuthority
          /\ run' \in IF RowExpected THEN {Down} ELSE Finalized
          /\ UNCHANGED auth
       \/ /\ auth[K] # NoAuthority /\ StoreWorks
          /\ Complete(K, run.fin.api, run.fin.term)
          /\ run' \in Finalized
       \/ /\ auth[K] # NoAuthority
          /\ StoreMayFail \/ auth[K].phase \notin CompletesFrom(run.fin.api)
          /\ run' \in CompleteFailed
          /\ UNCHANGED auth
    /\ UNCHANGED <<eventLog, claims, world>>

UnavailableEvent ==
    /\ run.pc = "unavailable_event"
    /\ Append(K, "model_unavailable", "none", "none", Go("alternate"), Down)
    /\ UNCHANGED <<claims, auth, world>>

Unclaimed(k) == k \in Attempts /\ claims[k] = "absent"

\* The alternate is a new claim, one generation up (bound MaxGen).
AlternateClaim ==
    /\ run.pc = "alternate"
    /\ LET k == <<run.item, run.gen + 1>> IN
       \/ /\ Unclaimed(k)
          /\ claims' = [claims EXCEPT ![k] = "open"]
          /\ run' = [run EXCEPT !.pc = "claim_event", !.gen = @ + 1, !.alt = TRUE, !.fin = NoFin]
       \/ /\ ~Unclaimed(k) \/ "store" \in Faults
          /\ run' = Down /\ UNCHANGED claims
    /\ UNCHANGED <<eventLog, auth, world>>

----------------------------------------------------------------------------
(* The environment *)

CancelContext ==
    /\ "cancel" \in Faults
    /\ run.pc # "down" /\ run.ctx
    /\ run' = [run EXCEPT !.ctx = FALSE]
    /\ UNCHANGED <<eventLog, claims, auth, world>>

\* The process dies; its provider lives on.
Crash ==
    /\ "crash" \in Faults
    /\ run.pc # "down"
    /\ run' = Down
    /\ UNCHANGED <<eventLog, claims, auth, world>>

ProviderExits ==
    /\ \E k \in Attempts : proc[k] = "live" /\ proc' = [proc EXCEPT ![k] = "dead"]
    /\ UNCHANGED <<eventLog, claims, auth, merged, run>>

----------------------------------------------------------------------------

\* The steps of a running Execute.
Recovery ==
    \/ SoftInterrupt \/ Resume \/ Validate \/ RecoverPhase \/ RecoverInterrupt
    \/ RecoverTerminal \/ RecoverClose \/ RecoverComplete \/ RecoverNext \/ Recovered

Schedule == Wave \/ WaveDone \/ Reuse \/ Claim

Attempt ==
    \/ ClaimEvent \/ Reroute \/ LaunchEvent \/ Spawn \/ PersistAuthority \/ PidEvent
    \/ SpawnPhase \/ ProviderReturns \/ Outcome \/ Interrupt

Finalization ==
    \/ Accept \/ Merge \/ MergeEvent \/ TerminalEvent \/ CloseClaim \/ CompleteAuthority
    \/ UnavailableEvent \/ AlternateClaim

Step == Recovery \/ Schedule \/ Attempt \/ Finalization

Next == Start \/ Step \/ CancelContext \/ Crash \/ ProviderExits

Spec == Init /\ [][Next]_vars

\* The process runs: an Execute that can take a step takes one.
FairSpec == Spec /\ WF_vars(Step)

----------------------------------------------------------------------------
(* Properties *)

Phases == {"absent", "authority_persisted", "pid_event_failed", "pid_event_persisted"}

Terms == {"none"} \cup ClaimTerminals

Fins ==
    [term : Terms, class : {"none", "plain", "misrouted", "service"}, stop : BOOLEAN,
     api : {"normal", "prepid"}, reroute : BOOLEAN]

\* The stores and the running Execute have the shape of the Go records: every
\* terminal written is one of the three that validTerminalEnum accepts.
TypeOK ==
    /\ log \in [Attempts -> [seen : BOOLEAN, launch : BOOLEAN, pid : BOOLEAN,
                             int : {"none", "soft", "service", "hard"}, term : Terms,
                             class : {"none", "plain", "misrouted", "service", "hard"},
                             last : {"none", "terminal", "success"}]]
    /\ streamOK \in BOOLEAN
    /\ lastTerm \in [Items -> Terms]
    /\ claims \in [Attempts -> {"absent", "open"} \cup ClaimTerminals]
    /\ auth \in [Attempts -> [phase : Phases, done : Terms]]
    /\ proc \in [Attempts -> {"none", "live", "dead"}]
    /\ merged \subseteq Attempts
    /\ run.item \in Items \cup {NoItem} /\ run.gen \in Gens
    /\ run.fin \in Fins
    /\ run.ev \in [Items -> Terms]

\* The order of the finalization holds across crashes and failed writes: a claim
\* is closed only with the terminal the log has, and an authority row completed
\* only with the terminal its claim was closed with (finalizeTerminal, recovery).
StoresAgree ==
    \A k \in Attempts :
       /\ claims[k] \in ClaimTerminals => log[k].term = claims[k]
       /\ auth[k].done # "none" => claims[k] = auth[k].done

\* However often Execute dies and is started again, two providers of the run
\* are never alive at once, the orphan of a dead Execute included.
SingleProvider ==
    \A k, m \in Attempts : proc[k] = "live" /\ proc[m] = "live" => k = m

\* A generation is claimed only when every earlier one is finished in all three
\* stores: terminal event, closed claim, completed authority row if it has one.
GenerationsSerial ==
    \A i \in Items, g, h \in Gens :
       h < g /\ claims[<<i, g>>] # "absent" /\ claims[<<i, h>>] # "absent" =>
          /\ claims[<<i, h>>] \in ClaimTerminals
          /\ auth[<<i, h>>] # NoAuthority => auth[<<i, h>>].done # "none"

\* An item is launched only after its hard predecessors succeeded, durably and,
\* when the run integrates, with their product on the goal branch.
DepsFirst ==
    \A i \in Items, g \in Gens : log[<<i, g>>].launch =>
       \A p \in HardPreds(Graph, i) : \E h \in Gens :
          claims[<<p, h>>] = "succeeded" /\ (Integrates => <<p, h>> \in merged)

\* Execute hands the run to its owner: nothing is ready, every item has ended and
\* the required ones have succeeded, by the evidence of this Execute.
AwaitsOwner ==
    /\ run.pc = "wave" /\ run.ctx /\ Ready = {}
    /\ \A i \in Items : run.ev[i] # "none"
    /\ \A i \in Items \ Graph.optional : run.ev[i] = "succeeded"

\* What is handed over is so in the stores, not only in the memory of Execute:
\* every required item has a durable success, integrated if the run integrates,
\* and no attempt of the run, of whichever Execute, is open or alive.
HumanGateBacked ==
    AwaitsOwner =>
       /\ \A i \in Items \ Graph.optional : \E g \in Gens :
             claims[<<i, g>>] = "succeeded" /\ (Integrates => <<i, g>> \in merged)
       /\ \A k \in Attempts :
             /\ claims[k] # "open" /\ proc[k] # "live"
             /\ auth[k] = NoAuthority \/ auth[k].done # "none"

\* Success is durable before anything else can happen to the item: once the log
\* has a succeeded terminal, no later step of any Execute, recovery included,
\* starts a provider for that item.
NoRelaunch ==
    [][\A i \in Items : (\E g \in Gens : log[<<i, g>>].term = "succeeded") =>
          \A g \in Gens : proc'[<<i, g>>] = "live" => proc[<<i, g>>] = "live"]_vars

\* A crash or failure at any point leaves an attempt whose pid event is durable in
\* a state the next recovery accepts, unless it was in the middle of a service
\* interrupt, OnProcessStart took the pid event for failed, or goalrun's resume
\* marked it with a soft interrupt, which recovery refuses.
PidAttemptRecovers ==
    run.pc = "down" =>
       \A k \in Attempts :
          /\ log[k].pid /\ auth[k].phase # "pid_event_failed"
          /\ log[k].int = "service" => log[k].term # "none"
          /\ log[k].int # "soft"
          /\ log[k].class # "misrouted"
          => Recoverable(k)

\* Where AttemptLife sees an item: its launches are its tries, and it is failed
\* when the last generation there is has failed.
Launched(i) == {g \in Gens : log[<<i, g>>].launch}

UnderWay(i) == \E g \in Launched(i) : log[<<i, g>>].term = "none"

SucceededIn(i) == \E g \in Gens : log[<<i, g>>].term = "succeeded"

LifeOf(i) ==
    IF \A g \in Gens : claims[<<i, g>>] = "absent" THEN "absent"
    ELSE IF SucceededIn(i) THEN "done"
    ELSE IF UnderWay(i) THEN "trying"
    ELSE IF Launched(i) = Gens THEN "failed" ELSE "open"

\* Over any number of Executes, recoveries and resumes an item is launched again
\* only when the launch before has a terminal, never after a success, and a
\* success is recorded only of a launch: log, claims and generations together
\* implement AttemptLife.
Life ==
    INSTANCE AttemptLife WITH
        Jobs <- Items,
        MaxTries <- MaxGen + 1,
        life <- [i \in Items |-> LifeOf(i)],
        tries <- [i \in Items |-> Cardinality(Launched(i))]

ImplementsLife == Life!LifeSpec

\* What ValidateEventStreamInvariants says of the states it refuses, "impossible
\* exactly-once states": no Execute and no recovery writes a stream it refuses.
StreamPossible == streamOK

\* Every Execute returns, through recovery and all waves, whatever fails.
Terminates == run.pc # "down" ~> run.pc = "down"
=============================================================================
