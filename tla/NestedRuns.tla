----------------------------- MODULE NestedRuns -----------------------------
(***************************************************************************)
(* `loopcoder nested run`: ScheduleNestedRuns starts the children of an    *)
(* accepted plan, each behind a claim in the SQLite store that several     *)
(* calls share (orchestration/nested_scheduler.go, storage/nested_graph.go *)
(* and storage/child_execution_request.go).                                *)
(*                                                                         *)
(* A call runs once; a retry of the command is another call, and executor  *)
(* ids are unique to a call, so the call stands for its ids.  Every action *)
(* is one transaction of the store with the steps of its caller up to the  *)
(* next one.  A call that dies is one that takes no further step.  A child *)
(* may itself have a plan, submitted while its provider runs.              *)
(*                                                                         *)
(* All children are required and none is provider-native.  The root and    *)
(* the provider are the same for all of them, so the two rows of the       *)
(* concurrency reservation for root and provider count alike, and one      *)
(* budget policy, with hard mode and cost 1, applies to each.              *)
(***************************************************************************)
EXTENDS Naturals, Sequences, FiniteSets

CONSTANTS
    Root,           \* the run at the top of the tree
    Plan,           \* the children of each run that has a plan, in plan order
    Deps,           \* depends_on of each child: siblings
    MaxConcurrency, \* max_concurrency of each plan
    Ceiling,        \* what the budget policy allows
    Calls,          \* invocations of the scheduler
    NoCall,         \* owner of a child without a claim
    Lease,          \* nestedClaimLeaseDuration
    Outcomes,       \* statuses an executor may return
    Faults,         \* the faults that may happen
    MaxGen,         \* bound on claim generations
    MaxTime         \* bound on the clock

Children == UNION {{Plan[r][i] : i \in 1 .. Len(Plan[r])} : r \in DOMAIN Plan}

FaultKinds == {"stop", "busy", "gate", "contract"}

ASSUME NestedConstants ==
    /\ IsFiniteSet(DOMAIN Plan) /\ \A r \in DOMAIN Plan : Plan[r] \in Seq(Children)
    /\ Root \in DOMAIN Plan /\ Root \notin Children
    /\ DOMAIN Plan \subseteq Children \cup {Root}
    /\ Deps \in [Children -> SUBSET Children]
    /\ MaxConcurrency \in [DOMAIN Plan -> Nat \ {0}]
    /\ Ceiling \in Nat
    /\ NoCall \notin Calls
    /\ Lease \in Nat \ {0}
    /\ Outcomes \subseteq {"succeeded", "failed", "timed_out", "needs-human"}
    /\ Faults \subseteq FaultKinds
    /\ MaxGen \in Nat /\ MaxTime \in Nat

VARIABLES
    status,   \* status of each run
    edge,     \* status of the edge from its parent to each child
    claim,    \* the claim of each child, with its concurrency reservation
    budget,   \* the budget reservation of each child and generation
    spent,    \* the aggregate of the budget policy
    launches, \* providers started for each child
    call,     \* where each call is
    job,      \* where each call is with each child
    now       \* the clock

store == <<status, edge, claim, budget, spent>>
vars == <<status, edge, claim, budget, spent, launches, call, job, now>>

----------------------------------------------------------------------------
(* State *)

Parent ==
    [c \in Children |->
        CHOOSE r \in DOMAIN Plan : \E i \in 1 .. Len(Plan[r]) : Plan[r][i] = c]

ChildrenOf == [r \in DOMAIN Plan |-> {c \in Children : Parent[c] = r}]

Kids(k) == ChildrenOf[call[k].plan]

\* The runs below a child that PropagateRunTreeTerminal walks, with the child.
Subtree ==
    LET reach[n \in 0 .. Cardinality(Children), c \in Children] ==
            IF n = 0 THEN {c}
            ELSE reach[n - 1, c] \cup {d \in Children : Parent[d] \in reach[n - 1, c]}
    IN  [c \in Children |-> reach[Cardinality(Children), c]]

\* durableTerminalStatus, durableBlockedStatus, nestedFailurePropagates
Blocked == {"needs-human", "blocked", "lost"}
Failing == {"failed", "timed_out", "cancelled"} \cup Blocked
Ended == {"succeeded"} \cup Failing

Statuses == {"none", "queued", "launching", "running"} \cup Ended

\* durableAllowedTransitions for the statuses the scheduler writes.
Allowed ==
    [s \in Statuses |->
        CASE s = "none" -> {"queued"}
          [] s = "queued" -> {"launching", "running"} \cup (Failing \ {"failed"})
          [] s = "launching" -> {"running"} \cup Ended
          [] s = "running" -> Ended
          [] s \in {"failed", "timed_out", "cancelled", "blocked"} -> {"needs-human", "lost"}
          [] OTHER -> {}]

Valid(from, to) == from = to \/ to \in Allowed[from]

\* transitionRunStatusTx moves a child and its edge, or fails the transaction.
CanMove(c, s) == Valid(status[c], s) /\ Valid(edge[c], s)

Move(c, s) ==
    /\ status' = [status EXCEPT ![c] = s]
    /\ edge' = [edge EXCEPT ![c] = s]

Phases == {"none", "claimed", "executing", "completed"}

NoClaim == [owner |-> NoCall, gen |-> 0, lease |-> 0, phase |-> "none", slot |-> FALSE]

Gens == 1 .. MaxGen

Results == {""} \cup Statuses

JobSteps ==
    {"idle", "pending", "blocked", "ready", "refused", "bind", "reject", "phase", "run", "done"}

NewCall ==
    [pc |-> "new", plan |-> Root, next |-> 1, replay |-> [c \in Children |-> "none"],
     result |-> [c \in Children |-> ""], stopped |-> FALSE, suppress |-> FALSE]

NoJobs == [c \in Children |-> [pc |-> "idle", gen |-> 0]]

Init ==
    /\ status = [r \in Children \cup {Root} |-> "none"]
    /\ edge = [c \in Children |-> "none"]
    /\ claim = [c \in Children |-> NoClaim]
    /\ budget = [c \in Children |-> [g \in Gens |-> "none"]]
    /\ spent = [reserved |-> 0, committed |-> 0]
    /\ launches = [c \in Children |-> 0]
    /\ call = [k \in Calls |-> NewCall]
    /\ job = [k \in Calls |-> NoJobs]
    /\ now = 0

At(k, pc) == call[k].pc = pc
Goto(k, pc) == call' = [call EXCEPT ![k].pc = pc]

\* The call returns, with its report or an error.
Returns(k) ==
    /\ call' = [call EXCEPT ![k] = [NewCall EXCEPT !.pc = "over"]]
    /\ job' = [job EXCEPT ![k] = NoJobs]

\* runChild goes on, or ends with a result; "" is the result of one that only
\* noted an error.
Step(k, c, pc) ==
    /\ job' = [job EXCEPT ![k][c].pc = pc]
    /\ UNCHANGED call

EndJob(k, c, result) ==
    /\ job' = [job EXCEPT ![k][c] = [pc |-> "done", gen |-> 0]]
    /\ call' = [call EXCEPT ![k].result[c] = result]

\* The same with the parent's completion suppressed.
EndJobSuppressed(k, c, result) ==
    /\ job' = [job EXCEPT ![k][c] = [pc |-> "done", gen |-> 0]]
    /\ call' = [call EXCEPT ![k].result[c] = result, ![k].suppress = TRUE]

----------------------------------------------------------------------------
(* Claims and reservations *)

\* Mutant: an expired claim is taken over whatever its phase.
TakeoverAllowedAlways(c) == TRUE

\* claimPhaseAutoTakeoverAllowed: the provider was not launched.
TakeoverAllowed(c) == claim[c].phase \in {"none", "claimed"}

ClaimLive(c) == claim[c].owner # NoCall /\ claim[c].lease > now

\* Reservation rows a count of the store sees.
SlotLive(c) == claim[c].slot /\ claim[c].lease > now

LiveIn(S) == Cardinality({c \in S : SlotLive(c)})

\* reserveNestedSchedulerResourcesTx: no row of this child's new generation
\* exists yet, and its earlier rows have expired.
SlotFree(k, c) ==
    /\ LiveIn(Children \ {c}) < MaxConcurrency[call[k].plan]
    /\ LiveIn(Kids(k) \ {c}) < MaxConcurrency[call[k].plan]

\* Mutant: the ceiling counts what is committed and not what is reserved.
BudgetFreeCommitted == spent.committed < Ceiling

\* reserveNestedSchedulerBudgetTx in hard mode.
BudgetFree == spent.reserved + spent.committed < Ceiling

\* The fence of every write of an owner.
Owns(k, c) == claim[c].owner = k /\ claim[c].gen = job[k][c].gen

\* Renewal and release take the rows that are active and whose lease is later
\* than the time of the request; all of them, or the transaction fails.
HeldAt(c, at) ==
    /\ claim[c].slot /\ claim[c].lease > at
    /\ budget[c][claim[c].gen] = "active"

\* Mutant: a renewal revives rows whose lease has run out.
RenewableEver(c) == HeldAt(c, 0)

\* renewNestedSchedulerReservationsTx, renewNestedSchedulerBudgetTx
Renewable(c) == HeldAt(c, now)

\* Mutant: the reservation is committed however the child ended.
BudgetEndCommitted(s) == "committed"

\* releaseNestedSchedulerBudgetTx: a success commits, anything else cancels.
BudgetEnd(s) == IF s = "succeeded" THEN "committed" ELSE "cancelled"

\* The claims of the children C end with the statuses s; each is held.
Release(C, s) ==
    LET won == Cardinality({c \in C : BudgetEnd(s[c]) = "committed"})
    IN  /\ claim' = [c \in Children |->
                        IF c \in C THEN [claim[c] EXCEPT !.phase = "completed", !.slot = FALSE]
                        ELSE claim[c]]
        /\ budget' = [c \in Children |->
                        IF c \in C THEN [budget[c] EXCEPT ![claim[c].gen] = BudgetEnd(s[c])]
                        ELSE budget[c]]
        /\ spent' = [reserved |-> spent.reserved - Cardinality(C),
                     committed |-> spent.committed + won]

\* One child of a call ends with status s: fence, transition, release.
CanComplete(k, c, s, at) == Owns(k, c) /\ CanMove(c, s) /\ HeldAt(c, at)

Complete(c, s) ==
    /\ Move(c, s)
    /\ Release({c}, [d \in {c} |-> s])

----------------------------------------------------------------------------
(* PropagateRunTreeTerminal *)

\* classifyRunTreeTerminal
Classify(c, requested) ==
    CASE requested \in Blocked -> requested
      [] requested \notin Blocked /\ claim[c].phase \in {"none", "claimed"} ->
            IF requested = "failed" THEN "cancelled" ELSE requested
      [] requested \notin Blocked /\ claim[c].phase = "executing" -> "lost"
      [] OTHER -> "needs-human"

Open(c) == {d \in Children : d \in Subtree[c] /\ status[d] \notin Ended \cup {"none"}}

\* One transaction: every node classified and every claim released as of the
\* time the child finished, or none.
CanPropagate(c, s, at) ==
    \A d \in Open(c) :
        /\ CanMove(d, Classify(d, s))
        /\ claim[d].owner # NoCall => HeldAt(d, at)

PropagateTo(c, s) ==
    LET next == [d \in Open(c) |-> Classify(d, s)]
    IN  /\ status' = [r \in DOMAIN status |-> IF r \in Open(c) THEN next[r] ELSE status[r]]
        /\ edge' = [d \in Children |-> IF d \in Open(c) THEN next[d] ELSE edge[d]]
        /\ Release({d \in Open(c) : claim[d].owner # NoCall}, next)

----------------------------------------------------------------------------
(* The call up to the first wave *)

\* resolveChildPlanReplay reads the stored children.  A plan of a child comes
\* from the child's provider.
Load(k) ==
    /\ At(k, "new")
    /\ \E p \in DOMAIN Plan :
          /\ p # Root => launches[p] > 0
          /\ call' = [call EXCEPT ![k].pc = "persist", ![k].plan = p,
                                  ![k].replay = [c \in Children |->
                                      IF c \in ChildrenOf[p] THEN status[c] ELSE "none"]]
    /\ UNCHANGED <<store, launches, job, now>>

\* persistAcceptedChildPlan: what is stored already keeps its status.
Persist(k) ==
    /\ At(k, "persist")
    /\ LET new == {c \in Kids(k) : status[c] = "none"}
       IN  /\ status' = [r \in DOMAIN status |->
                            IF r \in new THEN "queued"
                            ELSE IF r = call[k].plan /\ status[r] = "none" THEN "running"
                            ELSE status[r]]
           /\ edge' = [c \in Children |-> IF c \in new THEN "queued" ELSE edge[c]]
    /\ Goto(k, "prepare")
    /\ UNCHANGED <<claim, budget, spent, launches, job, now>>

\* The next child in plan order, if there is one.
Current(k) == Plan[call[k].plan][call[k].next]
More(k) == call[k].next <= Len(Plan[call[k].plan])

Advance(k, c, result) ==
    call' = [call EXCEPT ![k] = [call[k] EXCEPT !.next = call[k].next + 1,
                                                !.result[c] = result, !.replay[c] = "none"]]

\* The last child of the plan is behind, and the waves begin.
InWaves(k) == At(k, "prepare") /\ ~More(k)

\* What is left below a child that finished with s ends, as of some time up to
\* now; an error ends the call.
Ends(k, c, s) ==
    \E at \in 0 .. now :
        \/ /\ CanPropagate(c, s, at)
           /\ PropagateTo(c, s)
           /\ Advance(k, c, s)
           /\ UNCHANGED job
        \/ ~CanPropagate(c, s, at) /\ Returns(k) /\ UNCHANGED store

\* A child stopped at the route, budget or circuit gate is marked without a
\* look at its claim; a status that cannot move ends the call.
Gate(k) ==
    /\ At(k, "prepare") /\ More(k)
    /\ "gate" \in Faults
    /\ LET c == Current(k)
       IN  \/ /\ CanMove(c, "needs-human")
              /\ Move(c, "needs-human")
              /\ Advance(k, c, "needs-human")
              /\ UNCHANGED <<claim, budget, spent, job>>
           \/ ~CanMove(c, "needs-human") /\ Returns(k) /\ UNCHANGED store
    /\ UNCHANGED <<launches, now>>

\* replayActionForStatus: an ended child keeps its stored result, and a failed
\* one ends what is left below it; the others are dispatched.
Prepare(k) ==
    /\ At(k, "prepare") /\ More(k)
    /\ LET c == Current(k)
           s == call[k].replay[c]
           propagates == s \in Failing \ Blocked
       IN  \/ /\ s \in Ended /\ ~propagates
              /\ Advance(k, c, s)
              /\ UNCHANGED <<store, job>>
           \/ propagates /\ Ends(k, c, s)
           \/ /\ s \notin Ended
              /\ Advance(k, c, "")
              /\ job' = [job EXCEPT ![k][c].pc = "pending"]
              /\ UNCHANGED store
    /\ UNCHANGED <<launches, now>>

----------------------------------------------------------------------------
(* Waves *)

JobsAt(k, pcs) == {c \in Kids(k) : job[k][c].pc \in pcs}

\* blockedByNestedDependency
BlockedByDependency(k, c) == \E d \in Deps[c] : call[k].result[d] \in Failing

\* Places of the semaphore that are taken.
Working(k) == JobsAt(k, {"refused", "bind", "reject", "phase", "run"})

\* No wave is under way.
Between(k) == InWaves(k) /\ JobsAt(k, {"ready"}) \cup Working(k) = {}

\* A pending child whose dependency failed is blocked.  An error of the
\* transition is only noted.
Block(k, c) ==
    /\ Between(k)
    /\ job[k][c].pc = "pending"
    /\ BlockedByDependency(k, c)
    /\ job' = [job EXCEPT ![k][c].pc = "blocked"]
    /\ call' = [call EXCEPT ![k].result[c] = "blocked"]
    /\ \/ CanMove(c, "blocked") /\ ~call[k].stopped /\ Move(c, "blocked")
       \/ (~CanMove(c, "blocked") \/ call[k].stopped) /\ UNCHANGED <<status, edge>>
    /\ UNCHANGED <<claim, budget, spent, launches, now>>

\* The pass visits each pending child once, in any order (a Go map): one that is
\* visited before its dependency is blocked in the same pass is left pending.
PassOver(k) ==
    \A c \in JobsAt(k, {"pending"}) :
        \A d \in Deps[c] : call[k].result[d] \in Failing => job[k][d].pc = "blocked"

\* readyNestedChildren: every dependency has some result.
ReadyNow(k) ==
    {c \in JobsAt(k, {"pending"}) : \A d \in Deps[c] : call[k].result[d] # ""}

\* After the pass the wave begins; with nothing pending the waves are over, and
\* with nothing ready the call fails.
Wave(k) ==
    /\ Between(k) /\ PassOver(k)
    /\ \/ /\ JobsAt(k, {"pending"}) = {}
          /\ call' = [call EXCEPT ![k].pc = "propagate", ![k].next = 1]
          /\ UNCHANGED job
       \/ JobsAt(k, {"pending"}) # {} /\ ReadyNow(k) = {} /\ Returns(k)
       \/ /\ ReadyNow(k) # {}
          /\ job' = [job EXCEPT ![k] =
                        [c \in Children |->
                            CASE c \in ReadyNow(k) -> [job[k][c] EXCEPT !.pc = "ready"]
                              [] job[k][c].pc = "blocked" -> [job[k][c] EXCEPT !.pc = "done"]
                              [] OTHER -> job[k][c]]]
          /\ UNCHANGED call
    /\ UNCHANGED <<store, launches, now>>

Before(c, d) ==
    \E i, j \in 1 .. Len(Plan[Parent[c]]) :
        i < j /\ Plan[Parent[c]][i] = c /\ Plan[Parent[c]][j] = d

\* A ready child gets a place of the semaphore when those before it in the plan
\* have theirs.
Started(k, c) ==
    /\ job[k][c].pc = "ready"
    /\ Cardinality(Working(k)) + Cardinality({d \in JobsAt(k, {"ready"}) : Before(d, c)})
          < MaxConcurrency[call[k].plan]

\* A ready child finds the context done instead: the deadline of the call has
\* passed.  Before the waves that only makes the call return, and the end of a
\* call and of a child have contexts of their own.
StoppedEarly(k, c) ==
    /\ job[k][c].pc = "ready"
    /\ "stop" \in Faults
    /\ job' = [job EXCEPT ![k][c].pc = "done"]
    /\ call' = [call EXCEPT ![k].result[c] = "timed_out", ![k].stopped = TRUE]
    /\ \/ CanMove(c, "timed_out") /\ Move(c, "timed_out")
       \/ ~CanMove(c, "timed_out") /\ UNCHANGED <<status, edge>>
    /\ UNCHANGED <<claim, budget, spent, launches, now>>

----------------------------------------------------------------------------
(* runChild *)

\* ClaimChildRunExecutionWithReservations: what the claim finds in the store.
Claim(k, c) ==
    /\ Started(k, c) /\ ~call[k].stopped
    /\ \/ /\ status[c] \in Blocked
          /\ EndJob(k, c, "needs-human") /\ UNCHANGED store
       \/ /\ status[c] \in Ended \ Blocked
          /\ EndJob(k, c, status[c]) /\ UNCHANGED store
       \/ /\ status[c] \notin Ended /\ ClaimLive(c)
          /\ EndJob(k, c, "running") /\ UNCHANGED store
       \/ /\ status[c] \notin Ended /\ ~ClaimLive(c) /\ ~TakeoverAllowed(c)
          /\ Move(c, "needs-human")
          /\ EndJob(k, c, "needs-human") /\ UNCHANGED <<claim, budget, spent>>
    /\ UNCHANGED <<launches, now>>

\* It takes a child without a live claim with the next generation, and the
\* reservations in the same transaction.
Take(k, c) ==
    /\ Started(k, c) /\ ~call[k].stopped
    /\ status[c] \notin Ended /\ ~ClaimLive(c) /\ TakeoverAllowed(c)
    /\ \/ /\ SlotFree(k, c) /\ BudgetFree
          /\ claim[c].gen < MaxGen
          /\ LET gen == claim[c].gen + 1
             IN  /\ claim' = [claim EXCEPT ![c] =
                                 [owner |-> k, gen |-> gen, lease |-> now + Lease,
                                  phase |-> "claimed", slot |-> TRUE]]
                 /\ budget' = [budget EXCEPT ![c][gen] = "active"]
                 /\ spent' = [spent EXCEPT !.reserved = @ + 1]
                 /\ Move(c, IF status[c] = "running" THEN "running" ELSE "launching")
                 /\ job' = [job EXCEPT ![k][c] = [pc |-> "bind", gen |-> gen]]
                 /\ UNCHANGED call
       \/ /\ ~(SlotFree(k, c) /\ BudgetFree)
          /\ Step(k, c, "refused") /\ UNCHANGED store
    /\ UNCHANGED <<launches, now>>

\* No slot or no budget: the child is marked in a transaction of its own.
Refuse(k, c) ==
    /\ job[k][c].pc = "refused" /\ ~call[k].stopped
    /\ \/ /\ CanMove(c, "needs-human")
          /\ Move(c, "needs-human")
          /\ EndJob(k, c, "needs-human") /\ UNCHANGED <<claim, budget, spent>>
       \/ ~CanMove(c, "needs-human") /\ EndJob(k, c, "") /\ UNCHANGED store
    /\ UNCHANGED <<launches, now>>

\* BindChildExecutionRequestClaim: the fence, and the stored contract.
Bind(k, c) ==
    /\ job[k][c].pc = "bind" /\ ~call[k].stopped
    /\ \/ Owns(k, c) /\ Step(k, c, "phase")
       \/ ~Owns(k, c) /\ Step(k, c, "reject")
       \/ "contract" \in Faults /\ Step(k, c, "reject")
    /\ UNCHANGED <<store, launches, now>>

\* RejectClaimedChildExecutionRequest
Reject(k, c) ==
    /\ job[k][c].pc = "reject" /\ ~call[k].stopped
    /\ \/ /\ CanComplete(k, c, "needs-human", now)
          /\ Complete(c, "needs-human")
          /\ EndJob(k, c, "needs-human")
       \/ /\ ~CanComplete(k, c, "needs-human", now)
          /\ EndJobSuppressed(k, c, "") /\ UNCHANGED store
    /\ UNCHANGED <<launches, now>>

\* UpdateChildRunClaimPhase; the provider starts when it commits.
UpdatePhase(k, c) ==
    /\ job[k][c].pc = "phase" /\ ~call[k].stopped
    /\ \/ /\ Owns(k, c) /\ CanMove(c, "running")
          /\ claim' = [claim EXCEPT ![c].phase = "executing"]
          /\ Move(c, "running")
          /\ launches' = [launches EXCEPT ![c] = @ + 1]
          /\ Step(k, c, "run") /\ UNCHANGED <<budget, spent>>
       \/ /\ ~Owns(k, c)
          /\ EndJobSuppressed(k, c, "needs-human") /\ UNCHANGED <<store, launches>>
       \/ /\ Owns(k, c) /\ ~CanMove(c, "running")
          /\ EndJob(k, c, "") /\ UNCHANGED <<store, launches>>
    /\ UNCHANGED now

\* A transaction fails without effect when the store stays busy or the context
\* is done, and runChild returns with the error noted.
StoreError(k, c) ==
    /\ "busy" \in Faults \/ call[k].stopped
    /\ \/ (Started(k, c) \/ job[k][c].pc \in {"refused", "phase"}) /\ EndJob(k, c, "")
       \/ job[k][c].pc = "bind" /\ Step(k, c, "reject")
       \/ job[k][c].pc = "reject" /\ EndJobSuppressed(k, c, "")
    /\ UNCHANGED <<store, launches, now>>

\* RenewChildRunClaim, by the heartbeat.
Renew(k, c) ==
    /\ job[k][c].pc = "run"
    /\ Owns(k, c) /\ Renewable(c)
    /\ claim' = [claim EXCEPT ![c].lease = now + Lease]
    /\ UNCHANGED <<status, edge, budget, spent, launches, call, job, now>>

\* The executor returns with the time it finished, and CompleteClaimedChildRun
\* records it.
Finish(k, c) ==
    /\ job[k][c].pc = "run"
    /\ \E s \in Outcomes, at \in 0 .. now :
          \/ CanComplete(k, c, s, at) /\ Complete(c, s) /\ EndJob(k, c, s)
          \/ /\ ~CanComplete(k, c, s, at)
             /\ EndJobSuppressed(k, c, IF Owns(k, c) THEN s ELSE "needs-human")
             /\ UNCHANGED store
    /\ UNCHANGED <<launches, now>>

----------------------------------------------------------------------------
(* The end of a call *)

\* Each failed result ends what is left of its run's subtree, in plan order.
Propagate(k) ==
    /\ At(k, "propagate") /\ More(k)
    /\ LET c == Current(k)
           s == call[k].result[c]
       IN  \/ s \notin Failing /\ Advance(k, c, s) /\ UNCHANGED <<store, job>>
           \/ s \in Failing /\ Ends(k, c, s)
    /\ UNCHANGED <<launches, now>>

\* nestedParentStatus for required children; a result "" counts for nothing.
ParentStatus(k) ==
    IF \E c \in Kids(k) : call[k].result[c] = "running" THEN "running"
    ELSE IF \E c \in Kids(k) : call[k].result[c] \in Failing THEN "needs-human"
    ELSE "succeeded"

\* recordNestedParentDone: the parent's run moves, no edge does.
ParentDone(k) ==
    /\ At(k, "propagate") /\ ~More(k)
    /\ LET p == call[k].plan
       IN  \/ /\ ~call[k].suppress /\ Valid(status[p], ParentStatus(k))
              /\ status' = [status EXCEPT ![p] = ParentStatus(k)]
           \/ /\ call[k].suppress \/ ~Valid(status[p], ParentStatus(k))
              /\ UNCHANGED status
    /\ Returns(k)
    /\ UNCHANGED <<edge, claim, budget, spent, launches, now>>

----------------------------------------------------------------------------
(* Time *)

Tick ==
    /\ now < MaxTime
    /\ now' = now + 1
    /\ UNCHANGED <<store, launches, call, job>>

CallStep(k) ==
    \/ Load(k) \/ Persist(k) \/ Gate(k) \/ Prepare(k) \/ Wave(k)
    \/ Propagate(k) \/ ParentDone(k)

JobStep(k, c) ==
    \/ Block(k, c) \/ StoppedEarly(k, c)
    \/ Claim(k, c) \/ Take(k, c) \/ Refuse(k, c)
    \/ Bind(k, c) \/ Reject(k, c) \/ UpdatePhase(k, c)
    \/ StoreError(k, c) \/ Renew(k, c) \/ Finish(k, c)

Next ==
    \/ \E k \in Calls : CallStep(k) \/ \E c \in Kids(k) : JobStep(k, c)
    \/ Tick

Spec == Init /\ [][Next]_vars

----------------------------------------------------------------------------
(* Properties *)

\* Every record keeps its type; the aggregate of the hard budget policy stays
\* between zero and the ceiling.
TypeOK ==
    /\ status \in [Children \cup {Root} -> Statuses]
    /\ edge \in [Children -> Statuses]
    /\ claim \in [Children -> [owner : Calls \cup {NoCall}, gen : 0 .. MaxGen,
                               lease : 0 .. MaxTime + Lease, phase : Phases, slot : BOOLEAN]]
    /\ budget \in [Children -> [Gens -> {"none", "active", "committed", "cancelled"}]]
    /\ spent \in [reserved : 0 .. Ceiling, committed : 0 .. Ceiling]
    /\ spent.reserved + spent.committed <= Ceiling
    /\ launches \in [Children -> Nat]
    /\ \A k \in Calls :
          /\ call[k].pc \in {"new", "persist", "prepare", "propagate", "over"}
          /\ call[k].plan \in DOMAIN Plan
          /\ call[k].next \in 1 .. Len(Plan[call[k].plan]) + 1
          /\ call[k].replay \in [Children -> Statuses]
          /\ call[k].result \in [Children -> Results]
          /\ {call[k].stopped, call[k].suppress} \subseteq BOOLEAN
    /\ job \in [Calls -> [Children -> [pc : JobSteps, gen : 0 .. MaxGen]]]
    /\ now \in 0 .. MaxTime

\* The concurrency limit of a plan holds across calls, crashes and leases that
\* run out while a provider still works: never more unexpired reservations
\* under a parent than its plan allows, nor under the root than the most
\* generous plan allows (reserveNestedSchedulerResourcesTx with the renewals).
SlotsWithinLimit ==
    /\ \A r \in DOMAIN Plan :
          LiveIn(ChildrenOf[r]) <= MaxConcurrency[r]
    /\ \E r \in DOMAIN Plan : LiveIn(Children) <= MaxConcurrency[r]

\* The budget reservations in state s.
Rows(s) == {r \in Children \X Gens : budget[r[1]][r[2]] = s}

\* The aggregate of the policy is what its reservations say, and a reservation
\* is committed exactly for a child whose edge says succeeded, once
\* (reserveNestedSchedulerBudgetTx, releaseNestedSchedulerBudgetTx).
BudgetSettled ==
    /\ spent.reserved = Cardinality(Rows("active"))
    /\ spent.committed = Cardinality(Rows("committed"))
    /\ \A c \in Children :
          Cardinality({g \in Gens : budget[c][g] = "committed"})
              = (IF edge[c] = "succeeded" THEN 1 ELSE 0)

\* Where AttemptLife sees a child.
LifeOf(c) ==
    CASE status[c] = "none" -> "absent"
      [] status[c] \in {"queued", "launching"} -> "open"
      [] status[c] = "running" -> "trying"
      [] status[c] = "succeeded" -> "done"
      [] OTHER -> "failed"

\* The provider of a child is launched at most once, by whichever call and
\* generation, and a child that ended stays ended: the claims, phases and
\* status transitions together implement AttemptLife with a single try.
Life ==
    INSTANCE AttemptLife WITH
        Jobs <- Children,
        MaxTries <- 1,
        life <- [c \in Children |-> LifeOf(c)],
        tries <- launches

ImplementsLife == Life!LifeSpec

\* Refuted: depends_on lists siblings "that must finish first" (docs/specs/
\* 0646-nested-sub-agent-plan.md:166), and a dependent of a failed child is
\* blocked: a child is launched only after those it depends on have succeeded
\* (blockedByNestedDependency, readyNestedChildren).
DependenciesFirst ==
    \A c \in Children : launches[c] > 0 => \A d \in Deps[c] : status[d] = "succeeded"

\* Refuted: "The parent may become terminal only after every aggregation-
\* participating child terminal state has persisted successfully" (ibid. 289):
\* the root is recorded as succeeded only when all its children are
\* (nestedParentStatus, recordNestedParentDone).
ParentAfterChildren ==
    status[Root] = "succeeded" =>
        \A c \in ChildrenOf[Root] : status[c] = "succeeded"
=============================================================================
