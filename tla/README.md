# Verification of loopcoder's execution core

TLA+ models of the part of loopcoder that decides who may execute which work
item, carries an execution through its durable stores, accounts for the
provider capacity and budget it uses, delivers what it made and reports its
progress; TLC configurations that check the models on small instances; TLAPS
proofs, for all values of the constants, of what each model's safety rests on.

## 1. Inventory of the system

loopcoder takes a need, turns it into a graph of work items, runs each item
with a provider command-line tool in a git worktree, and delivers the result
through commits, pull requests, review and gates.  It is a single Go binary;
what it knows between two invocations is in files under `LOOPCODER_HOME` and
in SQLite.  The v0.9 paths (`goalrun` -> `workflowrun` for a graph, `run` ->
`directrun` -> `directdelivery` for one issue) are the core modelled here.  Of
the v0.8 path (`orchestration`), still in the tree, the nested scheduler is.

| Part | State it keeps | Operations | Hard behaviour | What makes it correct |
|---|---|---|---|---|
| `workgraph` | none: items, dependencies, limits are an input | `ValidateExecutable`, `EvaluateReady` | optional items, soft edges, evidence that is missing | an item is ready only if its hard predecessors have the outcome demanded |
| `workclaim` | claims by item and attempt, live pointer, generation and id counters; memory and one JSON file | open, claim, renew, close | lease expiry against late callers, failed saves, crash between file and answer, second process | one live lease per item, answers durable, generations fence, history final |
| `workflowrun` service | event log, claims, execution-authority rows, goal branch; one run in memory | one `Execute`: waves, claims, launch, finalization, alternate attempt | death between any two writes, torn appends, orphan providers, cancellation | stores in finalization order, one provider, no relaunch of a success, recovery accepts what crashes leave |
| `goalrun` resume | checkpoint | resume from the event log, then `Execute` | two recoveries over one log, a checkpoint that lags | the same, and generations chosen without a gap in finality |
| `storage` authority rows | phase and completion of an attempt | persist, transition, complete | fencing by phase | completed only with the claim's terminal |
| `capacityledger`, `quotamode` | entries by attempt in one JSON file; soft reservations, id counter in memory | reserve, reconcile, release, observe, open | expiry, replay after a failed save, restore with the original expiry, id reuse | holds match entries, the file reopens and never promises more than a window has, outcomes final |
| `waveschedule` | plans and worktree owners in memory | plan, persist, complete | partial reservation of worktrees | at most one writer per worktree |
| `wtclaim`, `directattempt`, `childattempt` | claims of worktrees in memory | prepare, reuse, clean up | lock given up between lookup and creation | one owner per worktree |
| `admission` | reservations in SQLite | admit, renew, release, expire | refresh rolled back with a refused request | budgets are not exceeded |
| `directrun`, `directdelivery`, the `run` command | stage receipt, worktree, capacity hold, remote branch, pull request | one invocation: reserve, adopt, allocate, launch, terminal receipt, verify, commit, push, pull request, checks, gate | death or error at any point, provider that outlives its parent, others pushing, head that moves under the checks | one provider and one launch, product kept, no false success, gate only with evidence |
| delivery stages (`commitstage`, `pushstage`, `prstage`, `ciwatch`, gates, receipts) | receipts | commit, push, open, watch, merge, resume | crash after the side effect, before the receipt | each effect at most once |
| supervision (`supervisedexec`, `termination`, `processtree`) | process identities | spawn, signal, drain, recover | pid reuse, unobservable processes | no orphan left alive |
| nested scheduler (`orchestration/nested_scheduler.go`, `storage/nested_graph.go`) | run tree, edges, claims with phase and generation, concurrency and budget reservations in SQLite | schedule a plan: persist, gates, waves, claim, bind, launch, heartbeat, complete, propagate, parent status | two calls on one tree, leases against running providers, busy store, deadline, order of a Go map | limits hold across calls, a provider starts at most once, budget settled, parent after children |
| progress outbox (`progress`) | obligations, attempts, results, acknowledgments, replay cursors in SQLite | persist, claim, begin, record, acknowledge, replay | expiry between attempt and result, late results, backoff against replay | nothing sent twice, every attempt can be resolved, bounded attempts |
| rest of v0.8 `orchestration`, `statebranch` | SQLite rows, git branch | tick, dispatch, handoff, promote | concurrent ticks, lost compare-and-push | one dispatch per issue |
| routing, providers, CLI, reports, configuration | caches, snapshots | pure choice, I/O | - | - |

How they interact: `goalrun` reserves capacity for each child in
`capacityledger`, resumes from the event log and calls `workflowrun.Execute`.
`Execute` asks `workgraph` what is ready, takes claims from `workclaim`, and
writes each attempt to the event log, the claim file and the authority store
in a fixed order.  The next `Execute` of the run reads all three, kills what
is still alive and finishes what was half written.  The executor calls back
(`OnProcessStart`) between spawn and run.  The `run` command reserves capacity
in the same ledger, lets `directrun` launch one provider in a worktree it keeps
between invocations, and passes its product to `directdelivery`.  The nested
scheduler and the progress outbox share SQLite with whoever else has it open:
their calls meet only in its transactions.  There is no message passing except
from the outbox to its sinks; everything hard comes from death between two
writes, writes that fail, time, and two processes on one store.

`PROJECT.json` lists every part, modelled or not, and every hazard at its
line.

## 2. Plan

Order, most important behaviour first:

1. `WorkGraph`, `WorkClaim` and the proofs of both (done).
2. `WorkflowRun`: Execute, event log, authority, recovery, resume, and its
   proofs (done).
3. `CapacityLedger` and its proofs (done).
4. `ProgressOutbox`, the abstract `AttemptLife` it implements, and the proofs
   of both (done).
5. `DirectRun`: the run command with worker and delivery, and its proofs
   (done).
6. `NestedRuns`: the nested scheduler on its store, again an `AttemptLife`, and
   its proofs (done).
7. Further proofs (done): `FileWithinCapacity`; what recovery accepts when
   `Resumes` holds; what `EvaluateReady` and `ValidateExecutable` promise the
   wave loop; what is left of the claim ledger with several processes;
   `WorkflowRun` as an `AttemptLife`.
8. Left: provider-native children in `NestedRuns` (agent federation),
   merge and goal branches behind the gate of `DirectRun`.

Composition: `WorkflowRun` extends `WorkGraph` and uses the claim ledger
through what a single owner can see of it; `WorkClaim` extends `WorkGraph` for
the readiness check inside `Claim`.  `DirectRun` composes the run command, the
attempt engine, the supervisor and the delivery stages, with the capacity
ledger as one hold.  `NestedRuns` composes the scheduler's calls with the
transactions of the store.  `AttemptLife` is the abstract specification that
`WorkflowRun`, `ProgressOutbox` and `NestedRuns` implement.  `CapacityLedger` stands alone.

## 3. Modules

### WorkGraph
Operators for the graph contract (`contract.go`) and `EvaluateReady`
(`ready.go`): hard edges, cycles, depth, fan-out, limits, and the lifecycle of
an item from its own evidence and that of its predecessors.  A graph is a
record of items, optional items, dependencies, integration order, declared
terminals and limits.  Digests, titles and acceptance texts are left out.

### WorkClaim
`mem[p]` is the Store of process `p`, `disk` the file, `holding` what
executors were answered, `view` the evidence they pass to `Claim`.  One action
per method: `Claim` with its replay, reuse, expiry and grant branches,
`Renew`, `Close`, opening, and the death of a process.  A mutation
changes memory and saves; a save that fails rolls memory back; a process may
die between the rename and the answer.  `Procs` decides how many processes
have the file open.

### WorkflowRun
The durable stores are `log`, `claims`, `auth` and `merged`; `proc` is the
provider of an attempt; `run` is the Execute in progress, with a program
counter for each point between two writes.  The event log is kept as what its
readers compute from it, and `streamOK` as whether
`ValidateEventStreamInvariants` accepts it; both are functions of the log.
Actions follow the code: `Start`, `SoftInterrupt` and `Resume` (goalrun),
`Validate` and the `Recover*` actions (authoritative recovery), `Wave`,
`Reuse`, `Claim`, the linkage events, `Spawn`, the three writes of
`OnProcessStart`, `Outcome`, `Interrupt`, `Accept`, `Merge`, and the three
writes of `finalizeTerminal`, plus the alternate attempt after
`model_unavailable`.  `Append` may fail with the line written or not.
`Faults` chooses what goes wrong: process death, failing appends, failing
stores, cancellation, processes that cannot be observed.
The refinement counts the generations of an item that were launched as its
tries; an item is *trying* while a launched generation has no terminal, *done*
with a succeeded terminal, and *failed* when every generation the bound
`MaxGen` allows was launched and ended otherwise (the code has no bound, so
there an item stays open).

### CapacityLedger
`mem` holds the entries, the soft reservations and the id counter of the open
ledger, `disk` the entries of the file.  `Reserve`, `Reconcile`, `Release`,
`ObserveAfterBound`, `Open` (load, release of expired entries, restore, seed of
the counter), `Crash` and `Tick`.  Unlike the claim ledger this one does not
roll back: after a failed save memory keeps the change, and `Save` has that
branch.  A route stands for the full identity of a request, `WindowOf` for the
key that accounting uses; fractions are whole units.

### AttemptLife
What is promised of anything that is tried more than once: a job is absent,
open, being tried, done or failed; tries are counted and bounded, one at a
time; what ended stays ended.  Several jobs may move in one step, because one
transaction of a store may move several.

### ProgressOutbox
`obl` is the obligation row, `attempts` the attempt rows with their results,
`cursor` the replay cursor of one host origin; `sender` and `host` are where
each caller is between two transactions, and `wire` is what the transport did.
One action per operation of `outbox.go` (`Persist`, `Claim`, `ClaimUnknown`,
`Begin`, `Report`, `Reconcile`, `Acknowledge`) and per step of the replay in
`host_replay.go`.  Results are reported truthfully, however late and by whom.
The refinement maps an obligation with an unresolved attempt to *trying* and
`attempt_count` to the tries.

### DirectRun
One issue, a sequence of invocations.  `receipt` is the stage receipt, `tree`
the worktree (`work` not committed, `head` committed), `kids` the provider
processes, `hold` the capacity entry, `ref` the remote branch, `pr` the pull
request; `run` is the invocation under way, with a program counter for each
point between two effects.  A commit is the set of products it contains, so a
push that is not a fast-forward is one that loses a member.  `Die` ends an
invocation anywhere; `OthersPush` and `OthersClose` are the rest of the world.
`ParentDeathSignal` says whether the kernel kills the provider with its parent
(Linux); without it `OneProvider` and `HoldCoversProvider` do not hold, the
other properties do.

### NestedRuns
`status` and `edge` are the run and edge rows, `claim` the claim row with its
concurrency reservation, `budget` and `spent` the budget reservations and the
policy's aggregate; `call[k]` is an invocation of `ScheduleNestedRuns` and
`job[k][c]` its `runChild` of a child.  An action is one transaction with its
caller's steps up to the next: `Load`, `Persist`, `Gate`, `Prepare`, `Block`,
`Wave`, `Claim`, `Take`, `Refuse`, `Bind`, `Reject`, `UpdatePhase`, `Renew`,
`Finish`, `Propagate`, `ParentDone`; `StoreError` is a transaction that fails.
A child may have a plan of its own, which another call schedules.  A call that
dies is one that takes no further step, which costs no state: every property
but the refinement is a statement about states such a call leaves behind, and
nothing is assumed to happen later.  All children are required and none is
provider-native; root and provider are the same for all, so their two
reservation rows count alike; one hard budget policy applies.

`MC*` modules give the instances their graphs, windows and symmetries.

## 4. Runs

| Run | Expect | Instance | Shows |
|---|---|---|---|
| `claim_leases` | pass | one item, 2 executors, 2 attempts, leases of 0 and 1, time to 3, 6 ids | `ExclusiveLease`, `GrantDurable`, `Reopens`, `GenerationFence`, `HistoryImmutable` |
| `claim_deps` | pass | chain of two items, 1 executor, 2 attempts | `DepsSucceeded`: stale evidence never lets an item overtake its predecessor |
| `run_faults` | pass | chain of a required and an optional item, integration, all faults, generations 0 to 2 | `StoresAgree`, `SingleProvider`, `GenerationsSerial`, `DepsFirst`, `NoRelaunch`, `PidAttemptRecovers`, `HumanGateBacked`, and under fairness `Terminates` |
| `run_resume` | pass | the same through goalrun's resume, generations 0 and 1 | `ImplementsLife`: one attempt under way at a time, launches bounded, success final |
| `run_stream` | violation | one item, crash, resume | integrate event, crash, recovery's interrupt: a stream the code calls impossible |
| `capacity_ledger` | pass | 2 attempts, 2 routes on one window, demands 1 and 2 of capacity 2, lifetime 2, time to 4, failing saves | `PressureBacked`, `Reopens`, `FileWithinCapacity`, `OutcomeKept` |
| `progress_outbox` | pass | one obligation, 2 senders, 1 host, both policies, 2 attempts, lease 1, backoff 1 or a delay of 2, time to 3 and 3 generations, deaths | `OpenAttemptAccepted`, `SentOnce`, `BackoffKept`, `AcknowledgedWasDelivered`, `ImplementsLife` |
| `direct_run` | pass | 3 invocations, 3 provider starts, one push by others | `OneProvider`, `HoldCoversProvider`, `NoSecondLaunch`, `ProductKept`, `GateEvidence`, `NoRewrite`, and under fairness `Terminates` |
| `direct_false_success` | violation | 2 invocations, one provider | a failed worker's receipt is adopted as a success |
| `nested_runs` | pass | root with two children, the second after the first (limit 1), the first with a child of its own (limit 2), 2 calls, budget 2, lease 2, time to 2, 2 generations, all faults | `SlotsWithinLimit`, `BudgetSettled`, `ImplementsLife` |
| `nested_deps` | violation | chain of three children, one call, no faults | the last of the chain is launched although the first failed |
| `nested_parent` | violation | one child, one call, busy store | the parent succeeds without its child |

**Bounds.**  `MaxTime` is at least one more than the longest lease or hold, so
that expiry, a claim after it and a late caller all happen.  `MaxSeq` leaves
room for every attempt, a retry and, in the capacity ledger, an attribution
that takes an id in between.  Two attempts and two executors are enough for
every pair of conflicting callers; the properties relate at most two claims,
entries or attempts.  `MaxGen = 2` gives an attempt, its recovery and a
second retry or an alternate; `run_resume` also holds with `MaxGen = 2`
(1.4 million states), and stays at 1 for its running time.  A bound only
disables the action that would pass it.  The obligations of the outbox do not
interact except in the order of a replay, so one is enough for what is claimed
of each; three invocations give `direct_run` a death, an adoption of what it
left and one more.  In `nested_runs` the tree has a sibling dependency, a
subtree that propagation ends and a limit smaller than the children; two calls
cover a call against its successor and the calls of parent and child plan; the
budget is smaller than the children, so it refuses one; time 2 with lease 2
lets a lease run out after a claim at time 0.  The calls are symmetric and its
properties are safety properties, for which symmetry is sound.

**Deadlock** is checked for the run and the capacity ledger, where an
environment step or a restart is always possible.  In the others the clock,
the ids, the attempts, the calls or the invocations run out, so it is off.

**Fairness.**  `Terminates` assumes `WF_vars(Step)`: the process executes, so
an Execute that can take a step takes one.  No fairness is assumed of the
environment: not of the provider (the executor returns because it stops the
provider at its deadline), not of a restart, and not of the absence of faults.
`Terminates` of `DirectRun` assumes the same of the steps of an invocation and,
since the supervisor waits for the provider with a deadline it enforces, that a
running provider exits; a pull request whose checks never end is not waited
for, because the code looks twice and stops.

## 5. Where code and documents differ

The four violation runs each quote a line of the repository in
`PROJECT.json`.  In short: a crash between integrate and terminal event makes a
run unrecoverable; the receipt of a failed direct run has no error and can be
adopted as a success; a child of a nested plan can be launched although the
child its dependency depends on failed; a nested parent can be recorded as
succeeded although the claim of its child failed on a busy store.

Seen while modelling, and in the models, without a run of their own: an
ambiguous expiry of a work claim is reclaimable with a new attempt id, and a
released generation can still be closed as succeeded (`workclaim/doc.go:4-6`);
the claim file is not safe for two processes; the soft interrupt of goalrun's
resume makes the run it resumes unrecoverable (`resume_eventlog.go:116`); a
reservation whose save failed stays in memory, is answered from there, and is
granted again after a restart (`ledger.go:481`); after a death behind the
commit every later `run` of the issue fails on an empty index
(`directdelivery/service.go:274`); gates, deadlines and propagation of the
nested scheduler change children that another call is executing, against
`docs/specs/0646-nested-sub-agent-plan.md:471`.

`PidAttemptRecovers` names four cases it leaves out, each a state the next
recovery rejects: a service interrupt whose terminal is missing (the cancelled
alternate attempt ends this way, `service.go:2252`), the terminal of an
alternate written with the route of the attempt it supersedes, phase
`pid_event_failed` with the pid event in the log after a failed sync, and the
soft interrupt of goalrun's resume.

An optional item behind an optional one that failed never gets a terminal, so
an Execute with such a pair answers "no ready items but graph incomplete"
(`service.go:820`) although all required items succeeded.

## 6. Proofs

`WorkGraphProofs` (any finite graph that passes `ValidateExecutable`, any
evidence): `UnfailedWorkProceeds`, `OnlyFailureStops`, `ReadinessIsStable`.
A graph without a cycle is one in which every set of items has a member without
a successor in the set.  Of the sets whose members all wait inside the set a
smallest one is taken; such a member can be left out of it, so there is none.
This needs the graph to be finite, and no induction over its depth.

`WorkClaimProofs` (any graph that passes `ValidateExecutable`, any executors,
attempts, leases and bounds):

* The inductive invariant `IInv` is: types; `StoreOK(disk)`, the
  well-formedness of the file (live pointers match live claims, counters bound
  ids and generations, ids unique, generations ordered as ids, terminals only
  on closed claims); memory equals the file while the process is up, because
  a failed save rolls back; what executors hold is in the file and live until
  its lease ends; evidence that says succeeded is backed by a closed claim.
  Exclusion alone is not inductive: it needs the live pointer to be the only
  live claim and the answer to be recorded under it.
* From it, for one process on the file (`SingleProcess`): `LeaseExclusion`,
  `GrantsAreDurable`, `ClaimsFollowDependencies`, and the action property
  `HistoryNeverRewritten`.  With two processes these are false: each saves its
  own copy over the other's grants.
* `SharedInv` is what survives any number of processes: the file and every
  copy in memory satisfy `StoreOK`, because every operation takes one
  well-formed store to another and a save replaces the file whole.  From it:
  `CopiesStayWellFormed`, `TypeCorrect`, `AlwaysReopens`, `GenerationsFence`,
  without `SingleProcess`.

`CapacityLedgerProofs` (any attempts, routes, windows, demands; saves may
fail):

* Here memory and file may differ, so `IInv` relates them by `Kept`, a
  reflexive and transitive relation: memory takes nothing back of what the
  file says.  With it go `LoadOK` of both, ids below the counter, blank
  entries, and `PressureMatches`.  `EntryChange`, `EndChange` and `NewChange`
  show that each change in memory preserves this; `SaveKeeps` carries it
  through the three ways a save ends.  That the seeded counter exists rests on
  the well-foundedness of `<` on the naturals.
* From it: `CapacityTypeCorrect`, `PressureIsBacked`, `CapacityReopens`, and
  the action property `OutcomesAreKept`.
* `CapacityNotPromisedTwice` needs more: that memory fits its windows as well
  as the file does, because a later save writes memory as it is then.  A
  granted demand fits because `PressureBacked` makes the quotamode store count
  every hold that has not run out.  The sum of the holds is the number of units
  they are made of, so one entry is taken out of it by cardinality and not by
  induction; that the units are finitely many follows from the ids being
  unique and below the counter.

`WorkflowRunProofs` (any graph that passes `ValidateExecutable`, any
`MaxGen`, any set of faults, with or without integration and resume; the items
are finite):

* `IInv` is `StoreInv /\ RunOK(run)`.  `StoreInv` says how the durable stores
  stand to each other between any two writes, whoever wrote last: `AttemptOK`
  for each attempt (event log, claim, authority row, process and goal branch),
  no gaps between generations, and the three invariants over several attempts.
  `RunOK` says what the running Execute may rely on at each program counter:
  `MemoryOK` (what it read is still true), `RecoveryOK` (every attempt left half
  finished is on recovery's list, frozen in a mode that still fits),
  `LiveOK` (a live provider is the one it waits for), `QuietOK` (between
  attempts everything is settled in all stores), `AlternateOK` and `WorkOK`
  (how far the attempt at work has been written).  `SingleProvider`, for
  instance, is not inductive alone: a second spawn is ruled out only because
  recovery has killed or found dead every orphan before the first wave.
* From it: `WorkflowTypeCorrect`, `FinalizationOrdered`, `ProvidersSingle`,
  `GenerationsInOrder`, `DependenciesFirst`, and the action property
  `SuccessNeverRelaunched`.  `PidAttemptsRecover` holds with and without
  resume, outside the four cases of section 5.  `OwnerGetsSettledRun` says that
  the run Execute hands to its owner is settled in the stores: it needs `QuietOK`
  for what is open and `MemoryOK` for what Execute believes has succeeded.
  `WavesStallOnFailureOnly` carries `OnlyFailureStops` to the wave loop.
* `IInv` was model-checked on the instances of `WorkflowRunFaults.cfg` and
  `WorkflowRunResume.cfg` before it was proved.

`WorkflowLifeProofs` (the same assumptions): `WorkflowImplementsLife`, from
`LifeInv`, which is `IInv` with the fact that only a launched attempt is on its
way to a success.  Of the stores only three facts about an attempt matter:
claimed, launched, terminal.  Five actions change one of them, each for one
attempt, and `GenerationsSerial` makes that attempt the only one of its item
that has not ended; the count of launches is a cardinality.

`ProgressOutboxProofs` (any obligations, senders, hosts, attempts and times):

* `IInv` is types, `RowOK` for each obligation (its status against its
  attempts, what the transport has of each, and the retry time), `SenderOK`
  (the attempt a sender is working on is unresolved, its own, and not yet on
  the wire while only prepared) and `HostOK`.  That an attempt once prepared
  is not given to a second sender is what `SentOnce` needs and does not say.
* From it: `OutboxTypeCorrect`, `LateResultAccepted`, `DeliveredAtMostOnce`,
  `BackoffAlwaysKept`, `AcknowledgmentBacked`, and `OutboxImplementsLife`: each
  step changes at most one obligation and is a step of `AttemptLife` for it,
  or none.

`DirectRunProofs` (any number of invocations one after the other, each of
which may die between any two steps, others pushing and closing on the host):

* `RInv` is types, `LaunchKnown` (up to the start of the provider the receipt
  has no launch, and a worker that ends knows of every launch the receipt has),
  `ProductCovered` (a product has a worktree and a receipt, and a worktree is
  removed only before either) and `Evidence` (what each delivery stage has
  established when the next begins).
* From it: `RunTypeCorrect`, `GateIsBacked` and the action properties
  `LaunchedOnce`, `ProductSurvives`, `NothingRewritten`.
* `ProvidersAttended`, `SingleProviderAlive` and `HoldOutlastsProvider` have the
  hypothesis `ParentDeathSignal`: the supervisor asks the kernel to kill the
  provider with its parent, which only Linux offers.  Without it they are false.

`NestedRunsProofs` (any finite tree of plans, any calls, limits, leases and
budget policies):

* `IInv` is `StoreInv` (status, edge, claim, reservation and budget of each child
  against each other, the aggregate against what it counts) and `CallsInv` (what
  a call and each of its jobs may rely on at each point, given that another
  call may have taken the child over).
* From it: `NestedTypeCorrect`, `ConcurrencyBounded` (the count of unexpired
  reservations is by cardinality, so it rests on the library's theorems about
  finite sets), `BudgetAlwaysSettled`, and `NestedImplementsLife`.

The assumptions on the constants (`ClaimConstants`, `CapacityConstants`,
`OutboxConstants`, `NestedConstants`, and `RunConstants` of `WorkflowRun` and of
`DirectRun`) are evaluated by TLC in the runs of each module.

Only model-checked: `Terminates` of `WorkflowRun` and of `DirectRun`, since
liveness under fairness is outside the prover; and the violation runs.

## 7. Not modelled

Power loss (no file of the claim or capacity ledger is synced; the models have
process death only), files edited by hand, clocks that go back, the content of
events and reports, file copying inside `IntegrateChild`, routing and provider
adapters, and the parts listed as `not_modelled` in `PROJECT.json` with their
reasons.  Of the parts listed as `partly`: provider-native and optional
children and agent federation, detached runs, merge and goal branches, the v0.8
tick, review and promotion, and the projections of progress.

The models cover a small share of the repository's lines.  Most of it is
command-line parsing and printing, adapters for provider tools and their
quota pages, diagnostics and projections that only read, schema migrations,
and acceptance harnesses; these have no interleaving or failure of their own
that a model would explore, or their state is the outside world.  What is left
that would repay a model is named at the end of the plan.
