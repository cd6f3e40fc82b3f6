----------------------------- MODULE DirectRun -----------------------------
(***************************************************************************)
(* The command `loopcoder run`: one issue, one capacity reservation, one   *)
(* worktree, one provider process, and the delivery of its product through *)
(* commit, push, pull request, checks and verifier to the human merge gate *)
(* (cli, directrun, directattempt, directdelivery and the stages they      *)
(* drive).                                                                 *)
(*                                                                         *)
(* The run id and the attempt id are functions of the request, so every    *)
(* invocation of the command for the same issue meets the reservation, the *)
(* stage receipt, the worktree, the branch and the pull request of the     *)
(* ones before it.  The process may die between any two steps.  The stores *)
(* of the attempt and of the delivery stages live in memory and die too.   *)
(*                                                                         *)
(* A commit is the set of the provider processes whose changes it has;     *)
(* base is {} and 0 stands for a commit of somebody else.  Invocations     *)
(* that are refused before the reservation is looked at change nothing and *)
(* are left out; so is a moved base branch, which the reservation refuses. *)
(***************************************************************************)
EXTENDS Naturals, FiniteSets

CONSTANTS
    ParentDeathSignal, \* whether a provider dies with its parent (Linux)
    MaxRuns,           \* bound on invocations
    MaxKids,           \* bound on provider processes
    MaxForeign         \* bound on pushes of others to the branch

ASSUME RunConstants ==
    /\ ParentDeathSignal \in BOOLEAN
    /\ MaxRuns \in Nat
    /\ MaxKids \in Nat
    /\ MaxForeign \in Nat

VARIABLES
    hold,    \* the reservation in the capacity ledger
    receipt, \* the stage receipt of the run
    tree,    \* the worktree of the run
    kids,    \* provider processes
    ref,     \* the branch on the remote
    pr,      \* the pull request of the branch
    run,     \* the invocation under way
    runs,    \* invocations so far
    foreign  \* pushes of others so far

vars == <<hold, receipt, tree, kids, ref, pr, run, runs, foreign>>

----------------------------------------------------------------------------
(* State *)

Kids == 1 .. MaxKids

Commits == SUBSET (0 .. MaxKids)

ReceiptStates == {"none", "admitted", "intent_spawn", "spawned", "cleanup_terminal"}

\* StageReceipt: kid stands for the pid with its birth identity, ok for an exit
\* code of zero, error for the Error field.
Receipts ==
    [state : ReceiptStates, launch : 0 .. 1, kid : 0 .. MaxKids, changed : Commits,
     ok : BOOLEAN, error : BOOLEAN]

NoReceipt ==
    [state |-> "none", launch |-> 0, kid |-> 0, changed |-> {}, ok |-> FALSE, error |-> FALSE]

Trees == [there : BOOLEAN, work : Commits, head : Commits]

NoTree == [there |-> FALSE, work |-> {}, head |-> {}]

Delivery ==
    {"verify", "commit", "push", "recheck", "send", "readback", "pr", "create", "readpr",
     "ci", "checks", "ciafter", "verifier", "gate"}

Runs ==
    [pc : {"idle", "reserved", "allocate", "admit", "launch", "spawn", "started", "wait", "term",
           "fail"} \cup Delivery,
     kid : 0 .. MaxKids, launch : 0 .. 1, ok : BOOLEAN, owned : Commits, commit : Commits,
     green : Commits, looks : 0 .. 2]

Idle ==
    [pc |-> "idle", kid |-> 0, launch |-> 0, ok |-> FALSE, owned |-> {}, commit |-> {},
     green |-> {}, looks |-> 0]

\* The invocation goes on at pc.
At(pc) == run.pc = pc
Goto(pc) == run' = [run EXCEPT !.pc = pc]
Fails == Goto("fail")

\* A new receipt replaces the file; the write may fail and leaves the old one.
WriteReceipt(r) == receipt' = r

----------------------------------------------------------------------------
(* Reservation *)

\* Reserve: a reservation that is still held is handed out again, any other
\* state of the attempt refuses.  A hold that expired was released when the
\* ledger was opened, and a refusal is an entry too.
Reserve ==
    /\ At("idle")
    /\ runs < MaxRuns
    /\ runs' = runs + 1
    /\ \/ /\ hold \in {"none", "reserved"}
          /\ hold' = "reserved"
          /\ run' = [Idle EXCEPT !.pc = "reserved"]
       \/ /\ hold' = "ended"
          /\ UNCHANGED run
    /\ UNCHANGED <<receipt, tree, kids, ref, pr, foreign>>

\* Release after a failure, or the final accounting.  An error of it is not
\* looked at: the ledger's file then still has the reservation.
Settle ==
    /\ run.pc \in {"fail", "gate"}
    /\ hold' \in {"ended", hold}
    /\ run' = Idle
    /\ UNCHANGED <<receipt, tree, kids, ref, pr, runs, foreign>>

----------------------------------------------------------------------------
(* Worker: directrun.Execute *)

\* A terminal receipt of the one launch is adopted without another.
Adoptable == receipt.state = "cleanup_terminal" /\ receipt.launch = 1

\* Mutant: a provider that died before it left anything is tried again.
RefusedDeadRetried == receipt.launch = 1 /\ kids[receipt.kid] = "running"

\* A launch on the receipt without a terminal refuses: the provider may still
\* run, or died with unknown effect.
Refused == receipt.launch = 1 /\ ~Adoptable

\* Mutant: every invocation allocates the worktree.
NewTreeAlways == FALSE

\* A receipt without a launch whose worktree is still there: it is kept.
KeepsTree == receipt.state # "none" /\ tree.there

\* The durable receipt decides before anything is allocated or launched.
Adopt ==
    /\ At("reserved")
    /\ \/ /\ Adoptable
          /\ run' = [run EXCEPT !.pc = IF receipt.error THEN "fail" ELSE "verify",
                                !.owned = receipt.changed]
       \/ Refused /\ Fails
       \/ ~Adoptable /\ ~Refused /\ KeepsTree /\ Goto("admit")
       \/ ~Adoptable /\ ~Refused /\ ~KeepsTree /\ Goto("allocate")
    /\ UNCHANGED <<hold, receipt, tree, kids, ref, pr, runs, foreign>>

\* allocateGitWorktree: whatever is at the path is removed, then a detached
\* worktree is added at the base.  The preflight may block first, and git may
\* fail after the removal.
Allocate ==
    /\ At("allocate")
    /\ \/ tree' = [NoTree EXCEPT !.there = TRUE] /\ Goto("admit")
       \/ tree' = NoTree /\ Fails
       \/ UNCHANGED tree /\ Fails
    /\ UNCHANGED <<hold, receipt, kids, ref, pr, runs, foreign>>

\* Receipts before the launch.
Unlaunched(state) == [NoReceipt EXCEPT !.state = state]

\* The start report is rendered and acknowledged and the attempt admitted.
Admit ==
    /\ At("admit")
    /\ \/ WriteReceipt(Unlaunched("admitted")) /\ Goto("launch")
       \/ UNCHANGED receipt /\ Fails
    /\ UNCHANGED <<hold, tree, kids, ref, pr, runs, foreign>>

\* TryLaunch up to the intent to spawn; it may refuse the bundle.  Without that
\* receipt the provider call counts as failed, and the attempt still goes
\* through its cleanup.
Intend ==
    /\ At("launch")
    /\ \/ WriteReceipt(Unlaunched("intent_spawn")) /\ Goto("spawn")
       \/ UNCHANGED receipt /\ Fails
       \/ UNCHANGED receipt /\ Goto("term")
    /\ UNCHANGED <<hold, tree, kids, ref, pr, runs, foreign>>

\* The provider process starts, or cannot be started.
Spawn ==
    /\ At("spawn")
    /\ \/ \E k \in Kids :
             /\ kids[k] = "none"
             /\ \A j \in 1 .. k - 1 : kids[j] # "none"
             /\ kids' = [kids EXCEPT ![k] = "running"]
             /\ run' = [run EXCEPT !.pc = "started", !.kid = k]
       \/ UNCHANGED kids /\ Goto("term")
    /\ UNCHANGED <<hold, receipt, tree, ref, pr, runs, foreign>>

\* Mutant: the process runs on although its start could not be recorded.
KeptRunning(k) == kids

\* A process whose start cannot be recorded is killed.
KilledUnrecorded(k) ==
    IF kids[k] = "running" THEN [kids EXCEPT ![k] = "killed"] ELSE kids

\* OnProviderStart: the launch and the pid become durable.
Started ==
    /\ At("started")
    /\ \/ /\ WriteReceipt([Unlaunched("spawned") EXCEPT !.launch = 1, !.kid = run.kid])
          /\ run' = [run EXCEPT !.pc = "wait", !.launch = 1]
          /\ UNCHANGED kids
       \/ /\ UNCHANGED receipt
          /\ run' = [run EXCEPT !.pc = "term", !.launch = 1]
          /\ kids' = KilledUnrecorded(run.kid)
    /\ UNCHANGED <<hold, tree, ref, pr, runs, foreign>>

\* The provider ended: exit code, failure class, actual route and output decide.
Outcome ==
    /\ At("wait")
    /\ kids[run.kid] # "running"
    /\ \E ok \in BOOLEAN : run' = [run EXCEPT !.pc = "term", !.ok = ok]
    /\ UNCHANGED <<hold, receipt, tree, kids, ref, pr, runs, foreign>>

\* Mutant: the counter of the intent is written as a launch of its own.
TermReceiptCounted ==
    [state |-> "cleanup_terminal", launch |-> run.launch + 1, kid |-> 0,
     changed |-> tree.work \cup tree.head, ok |-> run.ok, error |-> FALSE]

\* The receipt of the ended worker.  Its Error is taken from the result before
\* the failure is entered there, so it is always empty.
TermReceipt ==
    [state |-> "cleanup_terminal", launch |-> run.launch, kid |-> 0,
     changed |-> tree.work \cup tree.head, ok |-> run.ok, error |-> FALSE]

\* FinishCleanup, terminal report and receipt; a failed provider ends here.
Terminal ==
    /\ At("term")
    /\ \/ /\ WriteReceipt(TermReceipt)
          /\ run' = [run EXCEPT !.pc = IF run.ok THEN "verify" ELSE "fail",
                                !.owned = TermReceipt.changed]
       \/ UNCHANGED receipt /\ Fails
    /\ UNCHANGED <<hold, tree, kids, ref, pr, runs, foreign>>

----------------------------------------------------------------------------
(* Delivery: directdelivery.Execute *)

\* StagePaths refuses changes that the worker did not report.
Drift == ~(tree.work \subseteq run.owned)

\* Local verification and the pre-commit hook on the staged paths.
Verify ==
    /\ At("verify")
    /\ \/ run.owned # {} /\ ~Drift /\ Goto("commit")
       \/ Fails
    /\ UNCHANGED <<hold, receipt, tree, kids, ref, pr, runs, foreign>>

\* CommitOrAdopt: the stage's receipts are new with each invocation, so there
\* is nothing to adopt and an empty index is an error, as any other that git may
\* have.  Reading the commit back may fail too.
Commit ==
    /\ At("commit")
    /\ \/ /\ tree.work # {}
          /\ ~Drift
          /\ tree' = [tree EXCEPT !.head = tree.head \cup tree.work, !.work = {}]
          /\ \/ run' = [run EXCEPT !.pc = "push", !.commit = tree.head \cup tree.work]
             \/ Fails
       \/ Fails /\ UNCHANGED tree
    /\ UNCHANGED <<hold, receipt, kids, ref, pr, runs, foreign>>

\* PushOrAdopt, first read: the branch is new, or already at the commit.
PushRead ==
    /\ At("push")
    /\ \/ ref.exists /\ ref.oid = run.commit /\ Goto("pr")
       \/ ~ref.exists /\ Goto("recheck")
       \/ Fails
    /\ UNCHANGED <<hold, receipt, tree, kids, ref, pr, runs, foreign>>

\* PushNonForce reads once more; the branch must not exist.
PushRecheck ==
    /\ At("recheck")
    /\ \/ ~ref.exists /\ Goto("send")
       \/ Fails
    /\ UNCHANGED <<hold, receipt, tree, kids, ref, pr, runs, foreign>>

\* Mutant: a push that overwrites.
TakesAnything == TRUE

\* The remote takes a plain push to a new branch or from an ancestor.
TakesPush == ~ref.exists \/ ref.oid \subseteq run.commit

\* git push.  An error may hide a push that was applied.
Push ==
    /\ At("send")
    /\ \/ /\ TakesPush
          /\ ref' = [exists |-> TRUE, oid |-> run.commit]
          /\ Goto("readback") \/ Fails
       \/ UNCHANGED ref /\ Fails
    /\ UNCHANGED <<hold, receipt, tree, kids, pr, runs, foreign>>

PushReadBack ==
    /\ At("readback")
    /\ \/ ref.oid = run.commit /\ Goto("pr")
       \/ Fails
    /\ UNCHANGED <<hold, receipt, tree, kids, ref, pr, runs, foreign>>

\* The pull request as GitHub shows it: open, with the branch at the commit.
PRMatches == pr = "open" /\ ref.oid = run.commit

\* CreateOrAdopt: an open pull request of the branch is adopted if its head is
\* the commit.
FindPR ==
    /\ At("pr")
    /\ \/ PRMatches /\ Goto("ci")
       \/ pr # "open" /\ Goto("create")
       \/ Fails
    /\ UNCHANGED <<hold, receipt, tree, kids, ref, pr, runs, foreign>>

\* gh pr create.  An error may hide a pull request that was created.
CreatePR ==
    /\ At("create")
    /\ \/ pr # "open" /\ pr' = "open" /\ (Goto("readpr") \/ Fails)
       \/ UNCHANGED pr /\ Fails
    /\ UNCHANGED <<hold, receipt, tree, kids, ref, runs, foreign>>

ReadPR ==
    /\ At("readpr")
    /\ \/ PRMatches /\ Goto("ci")
       \/ Fails
    /\ UNCHANGED <<hold, receipt, tree, kids, ref, pr, runs, foreign>>

\* ObserveChecks: the head of the pull request, its checks, and the head again.
HeadBefore ==
    /\ At("ci")
    /\ \/ PRMatches /\ Goto("checks")
       \/ Fails
    /\ UNCHANGED <<hold, receipt, tree, kids, ref, pr, runs, foreign>>

ReadChecks ==
    /\ At("checks")
    /\ \/ \E g \in {{}, ref.oid} : run' = [run EXCEPT !.pc = "ciafter", !.green = g]
       \/ Fails
    /\ UNCHANGED <<hold, receipt, tree, kids, ref, pr, runs, foreign>>

\* Mutant: the checks are asked for until they are green.
LooksForever == TRUE

\* The checks are looked at twice at most.
LooksAgain == run.looks = 0

\* classify: every required check of the watched head succeeded.
Ready == run.green # {}

\* Mutant: the head is read only before the checks.
HeadAfterSkipped ==
    /\ At("ciafter")
    /\ \/ Ready /\ Goto("verifier")
       \/ ~Ready /\ run' = [run EXCEPT !.pc = "ci", !.looks = 1] /\ LooksAgain
       \/ Fails
    /\ UNCHANGED <<hold, receipt, tree, kids, ref, pr, runs, foreign>>

\* The head did not move, and the watcher is ready or looks once more.
HeadAfter ==
    /\ At("ciafter")
    /\ \/ PRMatches /\ Ready /\ Goto("verifier")
       \/ /\ PRMatches /\ ~Ready /\ LooksAgain
          /\ run' = [run EXCEPT !.pc = "ci", !.looks = 1]
       \/ Fails
    /\ UNCHANGED <<hold, receipt, tree, kids, ref, pr, runs, foreign>>

\* The read-only verifier on the commit, then the human merge gate.  The head of
\* the pull request is not read again.
Verifier ==
    /\ At("verifier")
    /\ Goto("gate") \/ Fails
    /\ UNCHANGED <<hold, receipt, tree, kids, ref, pr, runs, foreign>>

----------------------------------------------------------------------------
(* Environment *)

\* A provider changes files of the worktree.
Works(k) ==
    /\ kids[k] = "running"
    /\ tree.there
    /\ k \notin tree.work \cup tree.head
    /\ tree' = [tree EXCEPT !.work = @ \cup {k}]
    /\ UNCHANGED <<hold, receipt, kids, ref, pr, run, runs, foreign>>

\* A provider ends; the supervisor ends one that does not.
Exits(k) ==
    /\ kids[k] = "running"
    /\ kids' = [kids EXCEPT ![k] = "exited"]
    /\ UNCHANGED <<hold, receipt, tree, ref, pr, run, runs, foreign>>

\* Mutant: a provider outlives its parent on every platform.
Outlives(k) == kids

\* The kernel kills the child with its parent, where it can.
DiesWithParent(k) ==
    IF ParentDeathSignal /\ k # 0 /\ kids[k] = "running"
    THEN [kids EXCEPT ![k] = "killed"] ELSE kids

\* The process dies.
Die ==
    /\ ~At("idle")
    /\ kids' = IF run.kid = 0 THEN kids ELSE DiesWithParent(run.kid)
    /\ run' = Idle
    /\ UNCHANGED <<hold, receipt, tree, ref, pr, runs, foreign>>

\* Somebody else creates the branch, adds to it, or closes the pull request.
OthersPush ==
    /\ foreign < MaxForeign
    /\ foreign' = foreign + 1
    /\ \/ ~ref.exists /\ ref' \in [exists : {TRUE}, oid : {{}, {0}}]
       \/ ref.exists /\ 0 \notin ref.oid /\ ref' = [ref EXCEPT !.oid = @ \cup {0}]
    /\ UNCHANGED <<hold, receipt, tree, kids, pr, run, runs>>

OthersClose ==
    /\ pr = "open"
    /\ foreign < MaxForeign
    /\ foreign' = foreign + 1
    /\ pr' = "closed"
    /\ UNCHANGED <<hold, receipt, tree, kids, ref, run, runs>>

Init ==
    /\ hold = "none"
    /\ receipt = NoReceipt
    /\ tree = NoTree
    /\ kids = [k \in Kids |-> "none"]
    /\ ref = [exists |-> FALSE, oid |-> {}]
    /\ pr = "none"
    /\ run = Idle
    /\ runs = 0
    /\ foreign = 0

WorkerStep ==
    \/ Adopt \/ Allocate \/ Admit \/ Intend \/ Spawn \/ Started \/ Outcome \/ Terminal

DeliveryStep ==
    \/ Verify \/ Commit \/ PushRead \/ PushRecheck \/ Push \/ PushReadBack
    \/ FindPR \/ CreatePR \/ ReadPR \/ HeadBefore \/ ReadChecks \/ HeadAfter \/ Verifier

\* What an invocation does by itself once it began.
RunStep == WorkerStep \/ DeliveryStep \/ Settle

KidStep == \E k \in Kids : Exits(k)

Next ==
    \/ Reserve \/ RunStep \/ KidStep \/ Die
    \/ \E k \in Kids : Works(k)
    \/ OthersPush \/ OthersClose

Spec == Init /\ [][Next]_vars

\* The invocation keeps running, and a provider ends in the end: every wait of
\* the command has a timeout, and the supervisor bounds the provider.
FairSpec == Spec /\ WF_vars(RunStep) /\ WF_vars(KidStep)

----------------------------------------------------------------------------
(* Properties *)

TypeOK ==
    /\ hold \in {"none", "reserved", "ended"}
    /\ receipt \in Receipts
    /\ tree \in Trees
    /\ kids \in [Kids -> {"none", "running", "exited", "killed"}]
    /\ ref \in [exists : BOOLEAN, oid : Commits]
    /\ pr \in {"none", "open", "closed"}
    /\ run \in Runs
    /\ runs \in 0 .. MaxRuns
    /\ foreign \in 0 .. MaxForeign

\* Once a launch is on the receipt no further provider is started, whatever
\* died, failed to be written or is called again: a second one would spend the
\* same attempt twice and work in the same files.
NoSecondLaunch ==
    [][receipt.launch = 1 =>
          /\ receipt'.launch = 1
          /\ \A k \in Kids : kids[k] = "none" => kids'[k] = "none"]_vars

\* Two providers of a run are never alive together, also when the process dies
\* between the start of one and its record.
OneProvider == Cardinality({k \in Kids : kids[k] = "running"}) <= 1

\* The capacity of an attempt is not given back while its provider runs.
HoldCoversProvider == (\E k \in Kids : kids[k] = "running") => hold = "reserved"

\* What providers left in the worktree is never thrown away, by no failure,
\* death or repeated call.
ProductKept ==
    [][tree.work \cup tree.head \subseteq tree'.work \cup tree'.head]_vars

\* An invocation stops at the human gate with a commit that has all the receipt
\* reported, that is on the remote branch, and whose own checks were green,
\* although others push to the branch and earlier invocations died anywhere.
GateEvidence ==
    At("gate") =>
        /\ run.commit # {}
        /\ receipt.changed \subseteq run.commit
        /\ run.green = run.commit
        /\ ref.exists /\ run.commit \subseteq ref.oid

\* The command never takes a commit of others off the branch.
NoRewrite ==
    [][ref.exists /\ foreign' = foreign => ref'.exists /\ ref.oid \subseteq ref'.oid]_vars

\* Every invocation comes to an end.
Terminates == ~At("idle") ~> At("idle")

\* Refuted: "Execute runs through cleanup-terminal or fails typed without false
\* success" (directrun/service.go:119).
NoFalseSuccess == run.pc \in Delivery => receipt.ok
=============================================================================
