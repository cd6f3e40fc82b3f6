-------------------------- MODULE DirectRunProofs --------------------------
(***************************************************************************)
(* Proofs about DirectRun, for any number of invocations, provider         *)
(* processes and pushes of others, with a process that may die between any *)
(* two steps.  What depends on the kernel killing a provider with its      *)
(* parent has ParentDeathSignal as a hypothesis of its theorem.            *)
(***************************************************************************)
EXTENDS DirectRun, FiniteSetTheorems, TLAPS

----------------------------------------------------------------------------
(* The inductive invariant *)

\* Everything the providers left in the worktree.
Product == tree.work \cup tree.head

\* Up to the start of the provider the receipt has no launch, and a worker that
\* ends knows of every launch the receipt has.
LaunchKnown ==
    /\ run.pc \in {"allocate", "admit", "launch", "spawn", "started"} => receipt.launch = 0
    /\ run.pc = "wait" => run.launch = 1
    /\ run.pc = "term" /\ receipt.launch = 1 => run.launch = 1
    /\ run.pc \in {"started", "wait"} => run.kid \in Kids

\* A product needs a worktree and a receipt, a receipt reports no more than the
\* product, and a worktree is removed only before either.
ProductCovered ==
    /\ receipt.changed \subseteq Product
    /\ ~tree.there => Product = {}
    /\ receipt.state = "none" => Product = {} /\ \A k \in Kids : kids[k] # "running"
    /\ run.pc = "allocate" => receipt.state = "none" \/ ~tree.there
    /\ run.pc \in {"launch", "spawn", "started", "wait", "term"} => receipt.state # "none"

Pushed == {"pr", "create", "readpr", "ci", "checks", "ciafter", "verifier", "gate"}

\* What is delivered has all the receipt reports; past the push the branch has
\* it, and green checks belong to a head between the two.
Evidence ==
    /\ run.pc \in {"push", "recheck", "send", "readback"} \cup Pushed =>
          run.commit # {} /\ receipt.changed \subseteq run.commit
    /\ run.pc = "readback" => ref.exists
    /\ run.pc \in Pushed => ref.exists /\ run.commit \subseteq ref.oid
    /\ run.pc = "ciafter" /\ run.green # {} =>
          run.commit \subseteq run.green /\ run.green \subseteq ref.oid
    /\ run.pc \in {"verifier", "gate"} => run.green = run.commit

RInv == TypeOK /\ LaunchKnown /\ ProductCovered /\ Evidence

\* The only provider that runs is the one the live invocation waits for, and an
\* invocation has its reservation.
Attended ==
    /\ run.pc # "idle" => hold = "reserved"
    /\ \A k \in Kids : kids[k] = "running" => run.kid = k /\ run.pc \in {"started", "wait"}

----------------------------------------------------------------------------
(* Steps that only move the invocation *)

PCs ==
    {"idle", "reserved", "allocate", "admit", "launch", "spawn", "started", "wait", "term",
     "fail"} \cup Delivery

\* What must be true for the invocation to go on at pc.
Lands(pc) ==
    /\ pc \in {"allocate", "admit", "launch", "spawn", "started"} => receipt.launch = 0
    /\ pc \notin {"wait", "started"}
    /\ pc = "term" => receipt.launch = 0
    /\ pc = "allocate" => receipt.state = "none" \/ ~tree.there
    /\ pc \in {"launch", "spawn", "term"} => receipt.state # "none"
    /\ pc \in {"push", "recheck", "send", "readback"} \cup Pushed =>
          run.commit # {} /\ receipt.changed \subseteq run.commit
    /\ pc = "readback" => ref.exists
    /\ pc \in Pushed => ref.exists /\ run.commit \subseteq ref.oid
    /\ pc # "ciafter"
    /\ pc \in {"verifier", "gate"} => run.green = run.commit

LEMMA StartTypes ==
  /\ Idle \in Runs /\ Idle.pc = "idle"
  /\ NoTree \in Trees /\ NoTree.work = {} /\ NoTree.head = {} /\ NoTree.there = FALSE
  /\ NoReceipt \in Receipts /\ NoReceipt.launch = 0 /\ NoReceipt.changed = {}
<1>1. 0 \in 0 .. MaxKids /\ {} \in Commits
  BY RunConstants DEF Commits
<1>2. QED BY <1>1 DEF Idle, Runs, NoTree, Trees, NoReceipt, Receipts, ReceiptStates

LEMMA RunFields ==
  ASSUME run \in Runs, NEW pc \in PCs, run' = [run EXCEPT !.pc = pc]
  PROVE  /\ run' \in Runs /\ run'.pc = pc /\ run'.kid = run.kid /\ run'.launch = run.launch
         /\ run'.ok = run.ok /\ run'.owned = run.owned /\ run'.commit = run.commit
         /\ run'.green = run.green /\ run'.looks = run.looks
  BY DEF Runs, PCs

\* Stores that only the ledger, the pull request and the counters are in.
OthersTyped ==
    /\ hold' \in {"none", "reserved", "ended"} /\ pr' \in {"none", "open", "closed"}
    /\ runs' \in 0 .. MaxRuns /\ foreign' \in 0 .. MaxForeign

LEMMA MoveOK ==
  ASSUME RInv, NEW pc \in PCs, Goto(pc), Lands(pc),
         UNCHANGED <<receipt, tree, kids, ref>>, OthersTyped
  PROVE  RInv'
<1>1. /\ run' \in Runs /\ run'.pc = pc /\ run'.kid = run.kid /\ run'.launch = run.launch
      /\ run'.commit = run.commit /\ run'.green = run.green
  BY RunFields DEF RInv, TypeOK, Goto
<1>2. TypeOK'
  BY <1>1 DEF RInv, TypeOK, OthersTyped
<1>3. LaunchKnown'
  BY <1>1 DEF LaunchKnown, Lands
<1>4. ProductCovered'
  BY <1>1 DEF RInv, ProductCovered, Product, Lands
<1>5. Evidence'
  BY <1>1 DEF Evidence, Lands
<1>6. QED BY <1>2, <1>3, <1>4, <1>5 DEF RInv

\* A failure lands anywhere.
LEMMA FailOK ==
  ASSUME RInv, Fails, UNCHANGED <<receipt, tree, kids, ref>>, OthersTyped
  PROVE  RInv'
<1>1. Lands("fail") /\ "fail" \in PCs
  BY DEF Lands, PCs, Pushed
<1>2. QED BY <1>1, MoveOK DEF Fails

\* The invocation is over.
LEMMA IdleOK ==
  ASSUME RInv, run' = Idle, UNCHANGED <<receipt, tree, ref>>, OthersTyped,
         kids' \in [Kids -> {"none", "running", "exited", "killed"}],
         \A k \in Kids : kids'[k] = "running" => kids[k] = "running"
  PROVE  RInv'
<1>1. run' \in Runs /\ run'.pc = "idle"
  BY StartTypes
<1>2. TypeOK'
  BY <1>1 DEF RInv, TypeOK, OthersTyped
<1>3. LaunchKnown'
  BY <1>1 DEF LaunchKnown
<1>4. ProductCovered'
  BY <1>1 DEF RInv, ProductCovered, Product
<1>5. Evidence'
  BY <1>1 DEF Evidence, Pushed
<1>6. QED BY <1>2, <1>3, <1>4, <1>5 DEF RInv

\* Nothing else of the stores moves.
LEMMA OthersKept ==
  ASSUME RInv, UNCHANGED <<hold, pr, runs, foreign>>
  PROVE  OthersTyped
  BY DEF RInv, TypeOK, OthersTyped

----------------------------------------------------------------------------
(* Reservation and worker *)

LEMMA ReserveOK == ASSUME RInv, Reserve PROVE RInv'
<1>1. OthersTyped /\ UNCHANGED <<receipt, tree, kids, ref>>
  BY RunConstants DEF RInv, TypeOK, Reserve, OthersTyped
<1>2. CASE run' = [Idle EXCEPT !.pc = "reserved"]
  <2>1. run' \in Runs /\ run'.pc = "reserved"
    BY <1>2, StartTypes DEF Runs
  <2>2. TypeOK'
    BY <1>1, <2>1 DEF RInv, TypeOK, OthersTyped
  <2>3. LaunchKnown' /\ Evidence'
    BY <2>1 DEF LaunchKnown, Evidence, Pushed
  <2>4. ProductCovered'
    BY <1>1, <2>1 DEF RInv, ProductCovered, Product
  <2>5. QED BY <2>2, <2>3, <2>4 DEF RInv
<1>3. CASE UNCHANGED run
  <2>1. TypeOK'
    BY <1>1, <1>3 DEF RInv, TypeOK, OthersTyped
  <2>2. LaunchKnown' /\ Evidence' /\ ProductCovered'
    BY <1>1, <1>3 DEF RInv, LaunchKnown, Evidence, ProductCovered, Product
  <2>3. QED BY <2>1, <2>2 DEF RInv
<1>4. QED BY <1>2, <1>3 DEF Reserve

LEMMA SettleOK == ASSUME RInv, Settle PROVE RInv'
<1>1. OthersTyped /\ UNCHANGED <<receipt, tree, kids, ref>> /\ run' = Idle
  BY DEF RInv, TypeOK, Settle, OthersTyped
<1>2. kids' \in [Kids -> {"none", "running", "exited", "killed"}]
  BY <1>1 DEF RInv, TypeOK
<1>3. QED BY <1>1, <1>2, IdleOK

LEMMA AdoptOK == ASSUME RInv, Adopt PROVE RInv'
<1>1. OthersTyped /\ UNCHANGED <<receipt, tree, kids, ref>> /\ run.pc = "reserved"
      /\ receipt \in Receipts
  BY OthersKept DEF Adopt, At, RInv, TypeOK
<1>2. CASE /\ Adoptable
           /\ run' = [run EXCEPT !.pc = IF receipt.error THEN "fail" ELSE "verify",
                                 !.owned = receipt.changed]
  <2>1. run'.pc \in {"fail", "verify"} /\ run' \in Runs
    <3>1. run \in Runs /\ receipt.changed \in Commits
          /\ {"fail", "verify"} \subseteq PCs
      BY <1>1 DEF RInv, TypeOK, Receipts, PCs, Delivery
    <3>2. QED BY <1>2, <3>1 DEF Runs, PCs
  <2>2. TypeOK'
    BY <1>1, <2>1 DEF RInv, TypeOK, OthersTyped
  <2>3. LaunchKnown' /\ Evidence'
    BY <2>1 DEF LaunchKnown, Evidence, Pushed
  <2>4. ProductCovered'
    BY <1>1, <2>1 DEF RInv, ProductCovered, Product
  <2>5. QED BY <2>2, <2>3, <2>4 DEF RInv
<1>3. CASE Refused /\ Fails
  BY <1>1, <1>3, FailOK
<1>4. CASE ~Adoptable /\ ~Refused
  <2>1. receipt.launch = 0
    BY <1>1, <1>4 DEF Refused, Receipts
  <2>2. CASE KeepsTree /\ Goto("admit")
    <3>1. Lands("admit") /\ "admit" \in PCs
      BY <2>1 DEF Lands, PCs, Pushed
    <3>2. QED BY <1>1, <2>2, <3>1, MoveOK
  <2>3. CASE ~KeepsTree /\ Goto("allocate")
    <3>1. Lands("allocate") /\ "allocate" \in PCs
      BY <2>1, <2>3 DEF Lands, PCs, Pushed, KeepsTree
    <3>2. QED BY <1>1, <2>3, <3>1, MoveOK
  <2>4. QED BY <1>4, <1>2, <1>3, <2>2, <2>3 DEF Adopt
<1>5. QED BY <1>2, <1>3, <1>4 DEF Adopt

LEMMA AllocateOK == ASSUME RInv, Allocate PROVE RInv'
<1>1. OthersTyped /\ UNCHANGED <<receipt, kids, ref>> /\ run.pc = "allocate"
  BY OthersKept DEF Allocate, At, RInv, TypeOK
<1>2. CASE UNCHANGED tree /\ Fails
  BY <1>1, <1>2, FailOK
<1>3. CASE \/ tree' = [NoTree EXCEPT !.there = TRUE] /\ Goto("admit")
           \/ tree' = NoTree /\ Fails
  <2>1. Product = {} /\ Product' = {} /\ tree' \in Trees
    <3>1. Product = {}
      BY <1>1 DEF RInv, ProductCovered
    <3>2. tree' \in Trees /\ tree'.work = {} /\ tree'.head = {}
      BY <1>3, StartTypes DEF Trees
    <3>3. QED BY <3>1, <3>2 DEF Product
  <2>2. PICK pc \in {"admit", "fail"} : Goto(pc)
    BY <1>3 DEF Fails
  <2>3. run' \in Runs /\ run'.pc = pc
    BY <2>2, RunFields DEF Goto, RInv, TypeOK, PCs
  <2>4. TypeOK'
    BY <1>1, <2>1, <2>3 DEF RInv, TypeOK, OthersTyped
  <2>5. LaunchKnown'
    BY <1>1, <2>3 DEF RInv, LaunchKnown
  <2>6. Evidence'
    BY <2>3 DEF Evidence, Pushed
  <2>7. ProductCovered'
    BY <1>1, <2>1, <2>2, <2>3 DEF RInv, ProductCovered
  <2>8. QED BY <2>4, <2>5, <2>6, <2>7 DEF RInv
<1>4. QED BY <1>2, <1>3 DEF Allocate

LEMMA UnlaunchedFields ==
  ASSUME NEW state \in ReceiptStates
  PROVE  /\ Unlaunched(state) \in Receipts /\ Unlaunched(state).state = state
         /\ Unlaunched(state).launch = 0 /\ Unlaunched(state).changed = {}
  BY StartTypes DEF Unlaunched, Receipts

\* A receipt without a launch is written on the way to the launch.
LEMMA UnlaunchedOK ==
  ASSUME RInv, NEW state \in ReceiptStates \ {"none"}, NEW pc \in {"launch", "spawn"},
         receipt' = Unlaunched(state), Goto(pc), UNCHANGED <<tree, kids, ref>>, OthersTyped
  PROVE  RInv'
<1>1. run' \in Runs /\ run'.pc = pc
  BY RunFields DEF Goto, RInv, TypeOK, PCs
<1>2. /\ receipt' \in Receipts /\ receipt'.state = state
      /\ receipt'.launch = 0 /\ receipt'.changed = {}
  BY UnlaunchedFields
<1>3. TypeOK'
  BY <1>1, <1>2 DEF RInv, TypeOK, OthersTyped
<1>4. LaunchKnown' /\ Evidence'
  BY <1>1, <1>2 DEF LaunchKnown, Evidence, Pushed
<1>5. ProductCovered'
  BY <1>1, <1>2 DEF RInv, ProductCovered, Product
<1>6. QED BY <1>3, <1>4, <1>5 DEF RInv

LEMMA AdmitOK == ASSUME RInv, Admit PROVE RInv'
<1>1. OthersTyped /\ UNCHANGED <<tree, kids, ref>>
  BY OthersKept DEF Admit
<1>2. CASE WriteReceipt(Unlaunched("admitted")) /\ Goto("launch")
  BY <1>1, <1>2, UnlaunchedOK DEF WriteReceipt, ReceiptStates
<1>3. CASE UNCHANGED receipt /\ Fails
  BY <1>1, <1>3, FailOK
<1>4. QED BY <1>2, <1>3 DEF Admit

LEMMA IntendOK == ASSUME RInv, Intend PROVE RInv'
<1>1. OthersTyped /\ UNCHANGED <<tree, kids, ref>> /\ run.pc = "launch"
  BY OthersKept DEF Intend, At
<1>2. CASE WriteReceipt(Unlaunched("intent_spawn")) /\ Goto("spawn")
  BY <1>1, <1>2, UnlaunchedOK DEF WriteReceipt, ReceiptStates
<1>3. CASE UNCHANGED receipt /\ Fails
  BY <1>1, <1>3, FailOK
<1>4. CASE UNCHANGED receipt /\ Goto("term")
  <2>1. Lands("term") /\ "term" \in PCs
    BY <1>1 DEF RInv, LaunchKnown, ProductCovered, Lands, PCs, Pushed
  <2>2. QED BY <1>1, <1>4, <2>1, MoveOK
<1>5. QED BY <1>2, <1>3, <1>4 DEF Intend

LEMMA SpawnOK == ASSUME RInv, Spawn PROVE RInv'
<1>1. OthersTyped /\ UNCHANGED <<receipt, tree, ref>> /\ run.pc = "spawn" /\ run \in Runs
  BY OthersKept DEF Spawn, At, RInv, TypeOK
<1>2. receipt.state # "none" /\ receipt.launch = 0
  BY <1>1 DEF RInv, LaunchKnown, ProductCovered
<1>3. CASE UNCHANGED kids /\ Goto("term")
  <2>1. Lands("term") /\ "term" \in PCs
    BY <1>2 DEF Lands, PCs, Pushed
  <2>2. QED BY <1>1, <1>3, <2>1, MoveOK
<1>4. ASSUME NEW k \in Kids, kids' = [kids EXCEPT ![k] = "running"],
             run' = [run EXCEPT !.pc = "started", !.kid = k]
      PROVE  RInv'
  <2>1. run' \in Runs /\ run'.pc = "started" /\ run'.kid = k
    <3>1. k \in 0 .. MaxKids
      BY DEF Kids
    <3>2. QED BY <1>1, <1>4, <3>1 DEF Runs
  <2>2. kids' \in [Kids -> {"none", "running", "exited", "killed"}]
    BY <1>4 DEF RInv, TypeOK
  <2>3. TypeOK'
    BY <1>1, <2>1, <2>2 DEF RInv, TypeOK, OthersTyped
  <2>4. LaunchKnown' /\ Evidence'
    BY <1>1, <1>2, <2>1 DEF LaunchKnown, Evidence, Pushed
  <2>5. ProductCovered'
    BY <1>1, <1>2, <2>1 DEF RInv, ProductCovered, Product
  <2>6. QED BY <2>3, <2>4, <2>5 DEF RInv
<1>5. QED BY <1>3, <1>4 DEF Spawn

LEMMA StartedOK == ASSUME RInv, Started PROVE RInv'
<1>1. /\ OthersTyped /\ UNCHANGED <<tree, ref>> /\ run.pc = "started" /\ run \in Runs
      /\ run.kid \in Kids /\ receipt.state # "none"
      /\ kids \in [Kids -> {"none", "running", "exited", "killed"}]
  BY OthersKept DEF Started, At, RInv, TypeOK, LaunchKnown, ProductCovered
<1>2. PICK pc \in {"wait", "term"} : run' = [run EXCEPT !.pc = pc, !.launch = 1]
  BY DEF Started
<1>3. run' \in Runs /\ run'.pc = pc /\ run'.kid = run.kid /\ run'.launch = 1
  <2>1. pc \in PCs /\ 1 \in 0 .. 1
    BY DEF PCs
  <2>2. QED BY <1>1, <1>2, <2>1 DEF Runs, PCs
<1>4. CASE /\ WriteReceipt([Unlaunched("spawned") EXCEPT !.launch = 1, !.kid = run.kid])
           /\ UNCHANGED kids
  <2>1. /\ receipt' \in Receipts /\ receipt'.state = "spawned" /\ receipt'.changed = {}
    <3>1. run.kid \in 0 .. MaxKids
      BY <1>1 DEF Runs
    <3>2. Unlaunched("spawned") \in Receipts /\ Unlaunched("spawned").state = "spawned"
          /\ Unlaunched("spawned").changed = {}
      BY UnlaunchedFields DEF ReceiptStates
    <3>3. PICK u : u = Unlaunched("spawned")
      OBVIOUS
    <3>4. receipt' = [u EXCEPT !.launch = 1, !.kid = run.kid] /\ 1 \in 0 .. 1
      BY <1>4, <3>3 DEF WriteReceipt
    <3>5. QED BY <3>1, <3>2, <3>3, <3>4 DEF Receipts
  <2>2. TypeOK'
    BY <1>1, <1>3, <1>4, <2>1 DEF RInv, TypeOK, OthersTyped
  <2>3. LaunchKnown' /\ Evidence'
    BY <1>1, <1>3 DEF LaunchKnown, Evidence, Pushed
  <2>4. ProductCovered'
    BY <1>1, <1>3, <1>4, <2>1 DEF RInv, ProductCovered, Product
  <2>5. QED BY <2>2, <2>3, <2>4 DEF RInv
<1>5. CASE UNCHANGED receipt /\ kids' = KilledUnrecorded(run.kid)
  <2>1. kids' \in [Kids -> {"none", "running", "exited", "killed"}]
    BY <1>1, <1>5 DEF KilledUnrecorded
  <2>2. TypeOK'
    BY <1>1, <1>3, <1>5, <2>1 DEF RInv, TypeOK, OthersTyped
  <2>3. LaunchKnown' /\ Evidence'
    BY <1>1, <1>3 DEF LaunchKnown, Evidence, Pushed
  <2>4. ProductCovered'
    BY <1>1, <1>3, <1>5 DEF RInv, ProductCovered, Product
  <2>5. QED BY <2>2, <2>3, <2>4 DEF RInv
<1>6. QED BY <1>4, <1>5 DEF Started

LEMMA OutcomeOK == ASSUME RInv, Outcome PROVE RInv'
<1>1. /\ OthersTyped /\ UNCHANGED <<receipt, tree, kids, ref>> /\ run.pc = "wait" /\ run \in Runs
      /\ run.launch = 1 /\ receipt.state # "none"
  BY OthersKept DEF Outcome, At, RInv, TypeOK, LaunchKnown, ProductCovered
<1>2. PICK ok \in BOOLEAN : run' = [run EXCEPT !.pc = "term", !.ok = ok]
  BY DEF Outcome
<1>3. run' \in Runs /\ run'.pc = "term" /\ run'.launch = 1
  BY <1>1, <1>2 DEF Runs
<1>4. TypeOK'
  BY <1>1, <1>3 DEF RInv, TypeOK, OthersTyped
<1>5. LaunchKnown' /\ Evidence'
  BY <1>1, <1>3 DEF LaunchKnown, Evidence, Pushed
<1>6. ProductCovered'
  BY <1>1, <1>3 DEF RInv, ProductCovered, Product
<1>7. QED BY <1>4, <1>5, <1>6 DEF RInv

LEMMA TerminalOK == ASSUME RInv, Terminal PROVE RInv'
<1>1. /\ OthersTyped /\ UNCHANGED <<tree, kids, ref>> /\ run.pc = "term" /\ run \in Runs
      /\ tree \in Trees
  BY OthersKept DEF Terminal, At, RInv, TypeOK
<1>2. CASE UNCHANGED receipt /\ Fails
  BY <1>1, <1>2, FailOK
<1>3. CASE /\ WriteReceipt(TermReceipt)
           /\ run' = [run EXCEPT !.pc = IF run.ok THEN "verify" ELSE "fail",
                                 !.owned = TermReceipt.changed]
  <2>1. /\ TermReceipt \in Receipts /\ TermReceipt.state = "cleanup_terminal"
        /\ TermReceipt.changed = Product
    <3>1. run.launch \in 0 .. 1 /\ run.ok \in BOOLEAN /\ tree.work \cup tree.head \in Commits
          /\ 0 \in 0 .. MaxKids
      BY <1>1, RunConstants DEF Runs, Trees, Commits
    <3>2. QED BY <3>1 DEF TermReceipt, Receipts, ReceiptStates, Product
  <2>2. run' \in Runs /\ run'.pc \in {"verify", "fail"}
    <3>1. {"verify", "fail"} \subseteq PCs /\ TermReceipt.changed \in Commits
      BY <2>1 DEF PCs, Delivery, Receipts
    <3>2. QED BY <1>1, <1>3, <3>1 DEF Runs, PCs
  <2>3. TypeOK'
    BY <1>1, <1>3, <2>1, <2>2 DEF RInv, TypeOK, OthersTyped, WriteReceipt
  <2>4. LaunchKnown' /\ Evidence'
    BY <2>2 DEF LaunchKnown, Evidence, Pushed
  <2>5. ProductCovered'
    BY <1>1, <1>3, <2>1, <2>2 DEF RInv, ProductCovered, Product, WriteReceipt
  <2>6. QED BY <2>3, <2>4, <2>5 DEF RInv
<1>4. QED BY <1>2, <1>3 DEF Terminal

----------------------------------------------------------------------------
(* Delivery *)

\* The steps of the delivery that read and go on.
Reads ==
    \/ Verify \/ PushRead \/ PushRecheck \/ PushReadBack \/ FindPR \/ CreatePR \/ ReadPR
    \/ HeadBefore \/ Verifier

\* Each of them goes on only where it may land.
LEMMA ReadsOK == ASSUME RInv, Reads PROVE RInv'
<1>1. /\ UNCHANGED <<receipt, tree, kids, ref, hold, runs, foreign>>
      /\ pr' \in {"none", "open", "closed"}
  BY DEF Reads, Verify, PushRead, PushRecheck, PushReadBack, FindPR, CreatePR, ReadPR,
         HeadBefore, Verifier, RInv, TypeOK
<1>2. OthersTyped
  BY <1>1 DEF OthersTyped, RInv, TypeOK
<1>3. \/ Fails
      \/ \E pc \in PCs : Goto(pc) /\ Lands(pc)
  <2>1. Evidence
    BY DEF RInv
  <2>2. CASE Verify
    <3>1. Lands("commit") /\ "commit" \in PCs
      BY DEF Lands, PCs, Pushed, Delivery
    <3>2. QED BY <2>2, <3>1 DEF Verify
  <2>3. CASE PushRead
    <3>1. run.commit # {} /\ receipt.changed \subseteq run.commit
      BY <2>1, <2>3 DEF Evidence, PushRead, At
    <3>2. Lands("recheck") /\ {"pr", "recheck"} \subseteq PCs
      BY <3>1 DEF Lands, PCs, Pushed, Delivery
    <3>3. ref.exists /\ ref.oid = run.commit => Lands("pr")
      BY <3>1 DEF Lands, Pushed
    <3>4. QED BY <2>3, <3>2, <3>3 DEF PushRead
  <2>4. CASE PushRecheck
    <3>1. Lands("send") /\ "send" \in PCs
      BY <2>1, <2>4 DEF Evidence, PushRecheck, At, Lands, PCs, Pushed, Delivery
    <3>2. QED BY <2>4, <3>1 DEF PushRecheck
  <2>5. CASE PushReadBack
    <3>1. ref.oid = run.commit => Lands("pr")
      BY <2>1, <2>5 DEF Evidence, PushReadBack, At, Lands, Pushed
    <3>2. "pr" \in PCs
      BY DEF PCs, Delivery
    <3>3. QED BY <2>5, <3>1, <3>2 DEF PushReadBack
  <2>6. CASE FindPR \/ CreatePR \/ ReadPR \/ HeadBefore
    <3>1. run.pc \in Pushed
      BY <2>6 DEF FindPR, CreatePR, ReadPR, HeadBefore, At, Pushed
    <3>2. Lands("ci") /\ Lands("create") /\ Lands("readpr") /\ Lands("checks")
      BY <2>1, <3>1 DEF Evidence, Lands, Pushed
    <3>3. {"ci", "create", "readpr", "checks"} \subseteq PCs
      BY DEF PCs, Delivery
    <3>4. QED BY <2>6, <3>2, <3>3 DEF FindPR, CreatePR, ReadPR, HeadBefore
  <2>7. CASE Verifier
    <3>1. Lands("gate") /\ "gate" \in PCs
      BY <2>1, <2>7 DEF Evidence, Verifier, At, Lands, Pushed, PCs, Delivery
    <3>2. QED BY <2>7, <3>1 DEF Verifier
  <2>8. QED BY <2>2, <2>3, <2>4, <2>5, <2>6, <2>7 DEF Reads
<1>4. CASE Fails
  BY <1>1, <1>2, <1>4, FailOK
<1>5. CASE \E pc \in PCs : Goto(pc) /\ Lands(pc)
  BY <1>1, <1>2, <1>5, MoveOK
<1>6. QED BY <1>3, <1>4, <1>5

LEMMA CommitOK == ASSUME RInv, Commit PROVE RInv'
<1>1. OthersTyped /\ UNCHANGED <<receipt, kids, ref>> /\ run \in Runs /\ tree \in Trees
      /\ run.pc = "commit"
  BY OthersKept DEF Commit, At, RInv, TypeOK
<1>2. CASE Fails /\ UNCHANGED tree
  BY <1>1, <1>2, FailOK
<1>3. CASE /\ tree.work # {}
           /\ tree' = [tree EXCEPT !.head = tree.head \cup tree.work, !.work = {}]
           /\ \/ run' = [run EXCEPT !.pc = "push", !.commit = tree.head \cup tree.work]
              \/ Fails
  <2>1. /\ tree' \in Trees /\ tree'.there = tree.there
        /\ tree'.head = tree.head \cup tree.work /\ tree'.work = {}
    <3>1. tree.head \cup tree.work \in Commits /\ {} \in Commits
      BY <1>1 DEF Trees, Commits
    <3>2. QED BY <1>1, <1>3, <3>1 DEF Trees
  <2>2. Product' = Product
    BY <2>1 DEF Product
  <2>3. CASE Fails
    <3>1. run' \in Runs /\ run'.pc = "fail"
      BY <1>1, <2>3, RunFields DEF Fails, Goto, PCs
    <3>2. TypeOK'
      BY <1>1, <2>1, <3>1 DEF RInv, TypeOK, OthersTyped
    <3>3. LaunchKnown' /\ Evidence'
      BY <3>1 DEF LaunchKnown, Evidence, Pushed
    <3>4. ProductCovered'
      BY <1>1, <2>1, <2>2, <3>1 DEF RInv, ProductCovered
    <3>5. QED BY <3>2, <3>3, <3>4 DEF RInv
  <2>4. CASE run' = [run EXCEPT !.pc = "push", !.commit = tree.head \cup tree.work]
    <3>1. run' \in Runs /\ run'.pc = "push" /\ run'.commit = tree.head \cup tree.work
      <4>1. tree.head \cup tree.work \in Commits /\ "push" \in PCs
        BY <1>1 DEF Trees, Commits, PCs, Delivery
      <4>2. QED BY <1>1, <2>4, <4>1 DEF Runs, PCs
    <3>2. TypeOK'
      BY <1>1, <2>1, <3>1 DEF RInv, TypeOK, OthersTyped
    <3>3. LaunchKnown'
      BY <3>1 DEF LaunchKnown
    <3>4. run'.commit # {} /\ receipt'.changed \subseteq run'.commit
      BY <1>1, <1>3, <3>1 DEF RInv, ProductCovered, Product
    <3>5. Evidence'
      BY <3>1, <3>4 DEF Evidence, Pushed
    <3>6. ProductCovered'
      BY <1>1, <2>1, <2>2, <3>1 DEF RInv, ProductCovered
    <3>7. QED BY <3>2, <3>3, <3>5, <3>6 DEF RInv
  <2>5. QED BY <1>3, <2>3, <2>4
<1>4. QED BY <1>2, <1>3 DEF Commit

LEMMA PushOK == ASSUME RInv, Push PROVE RInv'
<1>1. OthersTyped /\ UNCHANGED <<receipt, tree, kids>> /\ run \in Runs /\ run.pc = "send"
      /\ run.commit # {} /\ receipt.changed \subseteq run.commit
  BY OthersKept DEF Push, At, RInv, TypeOK, Evidence
<1>2. CASE UNCHANGED ref /\ Fails
  BY <1>1, <1>2, FailOK
<1>3. CASE ref' = [exists |-> TRUE, oid |-> run.commit] /\ (Goto("readback") \/ Fails)
  <2>1. PICK pc \in {"readback", "fail"} : Goto(pc)
    BY <1>3 DEF Fails
  <2>2. run' \in Runs /\ run'.pc = pc /\ run'.commit = run.commit
    BY <1>1, <2>1, RunFields DEF Goto, PCs, Delivery
  <2>3. ref' \in [exists : BOOLEAN, oid : Commits] /\ ref'.exists
    BY <1>1, <1>3 DEF Runs
  <2>4. TypeOK'
    BY <1>1, <2>2, <2>3 DEF RInv, TypeOK, OthersTyped
  <2>5. LaunchKnown'
    BY <2>2 DEF LaunchKnown
  <2>6. Evidence'
    BY <1>1, <2>2, <2>3 DEF Evidence, Pushed
  <2>7. ProductCovered'
    BY <1>1, <2>2 DEF RInv, ProductCovered, Product
  <2>8. QED BY <2>4, <2>5, <2>6, <2>7 DEF RInv
<1>4. QED BY <1>2, <1>3 DEF Push

LEMMA ReadChecksOK == ASSUME RInv, ReadChecks PROVE RInv'
<1>1. OthersTyped /\ UNCHANGED <<receipt, tree, kids, ref>> /\ run \in Runs /\ run.pc = "checks"
      /\ ref \in [exists : BOOLEAN, oid : Commits]
  BY OthersKept DEF ReadChecks, At, RInv, TypeOK
<1>2. CASE Fails
  BY <1>1, <1>2, FailOK
<1>3. ASSUME NEW g \in {{}, ref.oid}, run' = [run EXCEPT !.pc = "ciafter", !.green = g]
      PROVE  RInv'
  <2>1. run' \in Runs /\ run'.pc = "ciafter" /\ run'.green = g /\ run'.commit = run.commit
    <3>1. g \in Commits /\ "ciafter" \in PCs
      BY <1>1 DEF PCs, Delivery, Commits
    <3>2. QED BY <1>1, <1>3, <3>1 DEF Runs, PCs
  <2>2. TypeOK'
    BY <1>1, <2>1 DEF RInv, TypeOK, OthersTyped
  <2>3. LaunchKnown'
    BY <2>1 DEF LaunchKnown
  <2>4. Evidence'
    BY <1>1, <2>1 DEF RInv, Evidence, Pushed
  <2>5. ProductCovered'
    BY <1>1, <2>1 DEF RInv, ProductCovered, Product
  <2>6. QED BY <2>2, <2>3, <2>4, <2>5 DEF RInv
<1>4. QED BY <1>2, <1>3 DEF ReadChecks

LEMMA HeadAfterOK == ASSUME RInv, HeadAfter PROVE RInv'
<1>1. OthersTyped /\ UNCHANGED <<receipt, tree, kids, ref>> /\ run \in Runs /\ run.pc = "ciafter"
      /\ Evidence
  BY OthersKept DEF HeadAfter, At, RInv, TypeOK
<1>2. CASE Fails
  BY <1>1, <1>2, FailOK
<1>3. CASE PRMatches /\ Ready /\ Goto("verifier")
  <2>1. run.green = run.commit
    BY <1>1, <1>3 DEF Evidence, PRMatches, Ready
  <2>2. Lands("verifier") /\ "verifier" \in PCs
    BY <1>1, <2>1 DEF Evidence, Lands, Pushed, PCs, Delivery
  <2>3. QED BY <1>1, <1>3, <2>2, MoveOK
<1>4. CASE run' = [run EXCEPT !.pc = "ci", !.looks = 1]
  <2>1. run' \in Runs /\ run'.pc = "ci" /\ run'.commit = run.commit
    <3>1. "ci" \in PCs /\ 1 \in 0 .. 2
      BY DEF PCs, Delivery
    <3>2. QED BY <1>1, <1>4, <3>1 DEF Runs, PCs
  <2>2. TypeOK'
    BY <1>1, <2>1 DEF RInv, TypeOK, OthersTyped
  <2>3. LaunchKnown'
    BY <2>1 DEF LaunchKnown
  <2>4. Evidence'
    BY <1>1, <2>1 DEF Evidence, Pushed
  <2>5. ProductCovered'
    BY <1>1, <2>1 DEF RInv, ProductCovered, Product
  <2>6. QED BY <2>2, <2>3, <2>4, <2>5 DEF RInv
<1>5. QED BY <1>2, <1>3, <1>4 DEF HeadAfter

----------------------------------------------------------------------------
(* Environment *)

LEMMA WorksOK == ASSUME RInv, NEW k \in Kids, Works(k) PROVE RInv'
<1>1. OthersTyped /\ UNCHANGED <<receipt, kids, ref, run>> /\ tree \in Trees
      /\ kids[k] = "running" /\ tree.there /\ tree' = [tree EXCEPT !.work = @ \cup {k}]
  BY OthersKept DEF Works, RInv, TypeOK
<1>2. tree' \in Trees /\ tree'.work = tree.work \cup {k} /\ tree'.head = tree.head
      /\ tree'.there = tree.there
  <2>1. tree.work \cup {k} \in Commits
    BY <1>1 DEF Trees, Commits, Kids
  <2>2. QED BY <1>1, <2>1 DEF Trees
<1>3. TypeOK'
  BY <1>1, <1>2 DEF RInv, TypeOK, OthersTyped
<1>4. LaunchKnown' /\ Evidence'
  BY <1>1 DEF RInv, LaunchKnown, Evidence
<1>5. ProductCovered'
  BY <1>1, <1>2 DEF RInv, ProductCovered, Product
<1>6. QED BY <1>3, <1>4, <1>5 DEF RInv

LEMMA ExitsOK == ASSUME RInv, NEW k \in Kids, Exits(k) PROVE RInv'
<1>1. OthersTyped /\ UNCHANGED <<receipt, tree, ref, run>>
      /\ kids \in [Kids -> {"none", "running", "exited", "killed"}]
      /\ kids' = [kids EXCEPT ![k] = "exited"]
  BY OthersKept DEF Exits, RInv, TypeOK
<1>2. TypeOK'
  BY <1>1 DEF RInv, TypeOK, OthersTyped
<1>3. LaunchKnown' /\ Evidence'
  BY <1>1 DEF RInv, LaunchKnown, Evidence
<1>4. ProductCovered'
  BY <1>1 DEF RInv, ProductCovered, Product
<1>5. QED BY <1>2, <1>3, <1>4 DEF RInv

LEMMA DieOK == ASSUME RInv, Die PROVE RInv'
<1>1. OthersTyped /\ UNCHANGED <<receipt, tree, ref>> /\ run' = Idle
  BY OthersKept DEF Die
<1>2. kids \in [Kids -> {"none", "running", "exited", "killed"}] /\ run.kid \in 0 .. MaxKids
  BY DEF RInv, TypeOK, Runs
<1>3. /\ kids' \in [Kids -> {"none", "running", "exited", "killed"}]
      /\ \A k \in Kids : kids'[k] = "running" => kids[k] = "running"
  <2>1. run.kid # 0 => run.kid \in Kids
    BY <1>2, RunConstants DEF Kids
  <2>2. QED BY <1>2, <2>1 DEF Die, DiesWithParent
<1>4. QED BY <1>1, <1>3, IdleOK

LEMMA OthersOK == ASSUME RInv, OthersPush \/ OthersClose PROVE RInv'
<1>1. OthersTyped /\ UNCHANGED <<receipt, tree, kids, run>>
  <2>1. /\ foreign \in 0 .. MaxForeign /\ foreign < MaxForeign /\ foreign' = foreign + 1
        /\ UNCHANGED <<receipt, tree, kids, run, hold, runs>>
        /\ pr' \in {pr, "closed"}
    BY DEF OthersPush, OthersClose, RInv, TypeOK
  <2>2. foreign' \in 0 .. MaxForeign
    BY <2>1, RunConstants
  <2>3. QED BY <2>1, <2>2 DEF RInv, TypeOK, OthersTyped
<1>2. /\ ref' \in [exists : BOOLEAN, oid : Commits]
      /\ ref.exists => ref'.exists /\ ref.oid \subseteq ref'.oid
  <2>1. ref \in [exists : BOOLEAN, oid : Commits]
    BY DEF RInv, TypeOK
  <2>2. {} \in Commits /\ {0} \in Commits /\ ref.oid \cup {0} \in Commits
    BY <2>1, RunConstants DEF Commits
  <2>3. CASE ~ref.exists /\ ref' \in [exists : {TRUE}, oid : {{}, {0}}]
    BY <2>2, <2>3
  <2>4. CASE ref.exists /\ ref' = [ref EXCEPT !.oid = @ \cup {0}]
    BY <2>1, <2>2, <2>4
  <2>5. CASE ref' = ref
    BY <2>1, <2>5
  <2>6. QED BY <2>3, <2>4, <2>5 DEF OthersPush, OthersClose
<1>3. TypeOK'
  BY <1>1, <1>2 DEF RInv, TypeOK, OthersTyped
<1>4. LaunchKnown' /\ ProductCovered'
  BY <1>1 DEF RInv, LaunchKnown, ProductCovered, Product
<1>5. Evidence'
  BY <1>1, <1>2 DEF RInv, Evidence, Pushed
<1>6. QED BY <1>3, <1>4, <1>5 DEF RInv

LEMMA InitOK == ASSUME Init PROVE RInv
<1>1. TypeOK
  BY StartTypes, RunConstants DEF Init, TypeOK, Commits
<1>2. LaunchKnown /\ Evidence
  BY StartTypes DEF Init, LaunchKnown, Evidence, Pushed
<1>3. ProductCovered
  BY StartTypes DEF Init, ProductCovered, Product
<1>4. QED BY <1>1, <1>2, <1>3 DEF RInv

LEMMA NextOK == ASSUME RInv, [Next]_vars PROVE RInv'
<1>1. CASE Reserve
  BY <1>1, ReserveOK
<1>2. CASE WorkerStep
  BY <1>2, AdoptOK, AllocateOK, AdmitOK, IntendOK, SpawnOK, StartedOK, OutcomeOK, TerminalOK
     DEF WorkerStep
<1>3. CASE DeliveryStep
  BY <1>3, ReadsOK, CommitOK, PushOK, ReadChecksOK, HeadAfterOK DEF DeliveryStep, Reads
<1>4. CASE Settle
  BY <1>4, SettleOK
<1>5. CASE KidStep \/ \E k \in Kids : Works(k)
  BY <1>5, ExitsOK, WorksOK DEF KidStep
<1>6. CASE Die
  BY <1>6, DieOK
<1>7. CASE OthersPush \/ OthersClose
  BY <1>7, OthersOK
<1>8. CASE UNCHANGED vars
  <2>1. UNCHANGED <<hold, receipt, tree, kids, ref, pr, run, runs, foreign>>
    BY <1>8 DEF vars
  <2>2. QED BY <2>1 DEF RInv, TypeOK, LaunchKnown, ProductCovered, Product, Evidence
<1>9. QED BY <1>1, <1>2, <1>3, <1>4, <1>5, <1>6, <1>7, <1>8 DEF Next, RunStep

----------------------------------------------------------------------------
(* Theorems *)

\* The invariant holds in every reachable state.
THEOREM RunInductive == Spec => []RInv
<1>1. Init => RInv
  BY InitOK
<1>2. RInv /\ [Next]_vars => RInv'
  BY NextOK
<1>3. QED BY <1>1, <1>2, PTL DEF Spec

\* Receipts, worktrees, branches and invocations keep their types.
THEOREM RunTypeCorrect == Spec => []TypeOK
<1>1. RInv => TypeOK
  BY DEF RInv
<1>2. QED BY <1>1, RunInductive, PTL

\* What an invocation leaves at the human gate is what the worker reported, is
\* on the branch, and was checked (directdelivery.Execute up to the merge gate).
THEOREM GateIsBacked == Spec => []GateEvidence
<1>1. RInv => GateEvidence
  BY DEF RInv, Evidence, Pushed, GateEvidence, At
<1>2. QED BY <1>1, RunInductive, PTL

\* A launch on the receipt is the last one (directrun.Execute and TryLaunch).
THEOREM LaunchedOnce == Spec => NoSecondLaunch
<1> DEFINE A == receipt.launch = 1 =>
                   /\ receipt'.launch = 1
                   /\ \A k \in Kids : kids[k] = "none" => kids'[k] = "none"
<1>1. RInv /\ [Next]_vars => [A]_vars
  <2> SUFFICES ASSUME RInv, Next, receipt.launch = 1
               PROVE  /\ receipt'.launch = 1
                      /\ \A k \in Kids : kids[k] = "none" => kids'[k] = "none"
    OBVIOUS
  <2>1. /\ run.pc \notin {"allocate", "admit", "launch", "spawn", "started"}
        /\ run.pc = "term" => run.launch = 1
        /\ kids \in [Kids -> {"none", "running", "exited", "killed"}]
    BY DEF RInv, LaunchKnown, TypeOK
  <2>2. CASE WorkerStep
    <3>1. CASE Adopt \/ Outcome
      BY <3>1 DEF Adopt, Outcome
    <3>2. CASE Terminal
      <4>1. UNCHANGED kids /\ (receipt' = receipt \/ receipt' = TermReceipt) /\ run.launch = 1
        BY <3>2, <2>1 DEF Terminal, At, WriteReceipt
      <4>2. TermReceipt.launch = run.launch
        BY DEF TermReceipt
      <4>3. QED BY <4>1, <4>2
    <3>3. CASE Allocate \/ Admit \/ Intend \/ Spawn \/ Started
      BY <3>3, <2>1 DEF Allocate, Admit, Intend, Spawn, Started, At
    <3>4. QED BY <2>2, <3>1, <3>2, <3>3 DEF WorkerStep
  <2>3. CASE Reserve \/ Settle \/ DeliveryStep \/ OthersPush \/ OthersClose
    BY <2>3 DEF Reserve, Settle, DeliveryStep, OthersPush, OthersClose, Verify, Commit, PushRead,
                PushRecheck, Push, PushReadBack, FindPR, CreatePR, ReadPR, HeadBefore, ReadChecks,
                HeadAfter, Verifier
  <2>4. CASE Die
    <3>1. run.kid \in 0 .. MaxKids
      BY DEF RInv, TypeOK, Runs
    <3>2. QED BY <2>1, <2>4, <3>1, RunConstants DEF Die, DiesWithParent, Kids
  <2>5. CASE KidStep \/ \E k \in Kids : Works(k)
    BY <2>1, <2>5 DEF KidStep, Exits, Works
  <2>6. QED BY <2>2, <2>3, <2>4, <2>5 DEF Next, RunStep
<1>2. QED BY <1>1, RunInductive, PTL DEF Spec, NoSecondLaunch

\* No step throws away what a provider left (allocateGitWorktree against the
\* receipt that a worktree goes with).
THEOREM ProductSurvives == Spec => ProductKept
<1>1. RInv /\ [Next]_vars =>
         [tree.work \cup tree.head \subseteq tree'.work \cup tree'.head]_vars
  <2> SUFFICES ASSUME RInv, Next
               PROVE  tree.work \cup tree.head \subseteq tree'.work \cup tree'.head
    OBVIOUS
  <2>1. tree \in Trees
    BY DEF RInv, TypeOK
  <2>2. CASE Allocate
    BY <2>2 DEF RInv, ProductCovered, Product, Allocate, At
  <2>3. CASE Commit
    BY <2>1, <2>3 DEF Commit, Trees
  <2>4. CASE \E k \in Kids : Works(k)
    BY <2>1, <2>4 DEF Works, Trees
  <2>5. CASE UNCHANGED tree
    BY <2>5
  <2>6. CASE WorkerStep
    <3>1. CASE Adopt \/ Admit \/ Intend \/ Spawn \/ Started \/ Outcome \/ Terminal
      BY <3>1, <2>5 DEF Adopt, Admit, Intend, Spawn, Started, Outcome, Terminal
    <3>2. QED BY <2>6, <3>1, <2>2 DEF WorkerStep
  <2>7. CASE DeliveryStep
    <3>1. CASE \/ Verify \/ PushRead \/ PushRecheck \/ Push \/ PushReadBack \/ FindPR \/ CreatePR
               \/ ReadPR \/ HeadBefore \/ ReadChecks \/ HeadAfter \/ Verifier
      BY <3>1, <2>5 DEF Verify, PushRead, PushRecheck, Push, PushReadBack, FindPR, CreatePR,
                        ReadPR, HeadBefore, ReadChecks, HeadAfter, Verifier
    <3>2. QED BY <2>7, <3>1, <2>3 DEF DeliveryStep
  <2>8. CASE Reserve \/ Settle \/ KidStep \/ Die \/ OthersPush \/ OthersClose
    BY <2>8, <2>5 DEF Reserve, Settle, KidStep, Exits, Die, OthersPush, OthersClose
  <2>9. QED BY <2>4, <2>6, <2>7, <2>8 DEF Next, RunStep
<1>2. QED BY <1>1, RunInductive, PTL DEF Spec, ProductKept

\* The command only ever adds to a branch that exists (PushNonForce).
THEOREM NothingRewritten == Spec => NoRewrite
<1>1. RInv /\ [Next]_vars =>
         [ref.exists /\ foreign' = foreign => ref'.exists /\ ref.oid \subseteq ref'.oid]_vars
  <2> SUFFICES ASSUME RInv, Next, ref.exists, foreign' = foreign
               PROVE  ref'.exists /\ ref.oid \subseteq ref'.oid
    OBVIOUS
  <2>1. CASE Push
    BY <2>1 DEF Push, TakesPush
  <2>2. CASE UNCHANGED ref
    BY <2>2
  <2>3. CASE OthersPush
    <3>1. foreign \in 0 .. MaxForeign /\ foreign' = foreign + 1
      BY <2>3 DEF OthersPush, RInv, TypeOK
    <3>2. QED BY <3>1, RunConstants
  <2>4. CASE WorkerStep
    BY <2>2, <2>4 DEF WorkerStep, Adopt, Allocate, Admit, Intend, Spawn, Started, Outcome, Terminal
  <2>5. CASE DeliveryStep
    <3>1. CASE \/ Verify \/ Commit \/ PushRead \/ PushRecheck \/ PushReadBack \/ FindPR \/ CreatePR
               \/ ReadPR \/ HeadBefore \/ ReadChecks \/ HeadAfter \/ Verifier
      BY <3>1, <2>2 DEF Verify, Commit, PushRead, PushRecheck, PushReadBack, FindPR, CreatePR,
                        ReadPR, HeadBefore, ReadChecks, HeadAfter, Verifier
    <3>2. QED BY <2>5, <3>1, <2>1 DEF DeliveryStep
  <2>6. CASE Reserve \/ Settle \/ KidStep \/ Die \/ OthersClose \/ \E k \in Kids : Works(k)
    BY <2>6, <2>2 DEF Reserve, Settle, KidStep, Exits, Die, OthersClose, Works
  <2>7. QED BY <2>3, <2>4, <2>5, <2>6 DEF Next, RunStep
<1>2. QED BY <1>1, RunInductive, PTL DEF Spec, NoRewrite

----------------------------------------------------------------------------
(* Where a provider dies with its parent *)

\* Nothing starts and nothing is left alone where no provider runs.
LEMMA AttendedQuiet ==
  ASSUME Attended, run.pc \notin {"started", "wait"}, kids' = kids,
         run'.pc # "idle" => hold' = "reserved"
  PROVE  Attended'
  BY DEF Attended

LEMMA AttendedNext == ASSUME ParentDeathSignal, RInv, Attended, [Next]_vars PROVE Attended'
<1>1. /\ run \in Runs /\ kids \in [Kids -> {"none", "running", "exited", "killed"}]
      /\ run.pc \in {"started", "wait"} => run.kid \in Kids
  BY DEF RInv, TypeOK, LaunchKnown
<1>2. CASE Reserve
  <2>1. CASE run' = [Idle EXCEPT !.pc = "reserved"] /\ hold' = "reserved"
    BY <1>2, <2>1, AttendedQuiet DEF Reserve, At
  <2>2. CASE UNCHANGED run
    BY <1>2, <2>2, AttendedQuiet DEF Reserve, At
  <2>3. QED BY <1>2, <2>1, <2>2 DEF Reserve
<1>3. CASE Settle
  BY <1>3, StartTypes, AttendedQuiet DEF Settle
<1>4. CASE Adopt \/ Allocate \/ Admit \/ Intend \/ Terminal \/ DeliveryStep
  <2>1. run.pc \notin {"idle", "started", "wait"} /\ kids' = kids /\ hold' = hold
    BY <1>4 DEF Adopt, Allocate, Admit, Intend, Terminal, DeliveryStep, Verify, Commit, PushRead,
                PushRecheck, Push, PushReadBack, FindPR, CreatePR, ReadPR, HeadBefore, ReadChecks,
                HeadAfter, Verifier, At
  <2>2. QED BY <2>1, AttendedQuiet DEF Attended
<1>5. CASE Spawn
  <2>1. run.pc = "spawn" /\ hold' = hold /\ hold = "reserved"
        /\ \A k \in Kids : kids[k] # "running"
    BY <1>5 DEF Spawn, At, Attended
  <2>2. CASE UNCHANGED kids
    BY <2>1, <2>2, AttendedQuiet
  <2>3. ASSUME NEW k \in Kids, kids' = [kids EXCEPT ![k] = "running"],
               run' = [run EXCEPT !.pc = "started", !.kid = k]
        PROVE  Attended'
    <3>1. run'.pc = "started" /\ run'.kid = k
      BY <1>1, <2>3 DEF Runs
    <3>2. QED BY <1>1, <2>1, <2>3, <3>1 DEF Attended
  <2>4. QED BY <1>5, <2>2, <2>3 DEF Spawn
<1>6. CASE Started
  <2>1. run.pc = "started" /\ hold' = hold /\ hold = "reserved" /\ run.kid \in Kids
    BY <1>1, <1>6 DEF Started, At, Attended
  <2>2. CASE run' = [run EXCEPT !.pc = "wait", !.launch = 1] /\ UNCHANGED kids
    <3>1. run'.pc = "wait" /\ run'.kid = run.kid
      BY <1>1, <2>2 DEF Runs
    <3>2. QED BY <2>1, <2>2, <3>1 DEF Attended
  <2>3. CASE kids' = KilledUnrecorded(run.kid)
    <3>1. \A k \in Kids : kids'[k] # "running"
      BY <1>1, <2>1, <2>3 DEF KilledUnrecorded, Attended
    <3>2. QED BY <2>1, <3>1 DEF Attended
  <2>4. QED BY <1>6, <2>2, <2>3 DEF Started
<1>7. CASE Outcome
  BY <1>1, <1>7 DEF Outcome, At, Attended
<1>8. CASE KidStep \/ \E k \in Kids : Works(k)
  <2>1. run' = run /\ hold' = hold /\ \A k \in Kids : kids'[k] = "running" => kids[k] = "running"
    BY <1>1, <1>8 DEF KidStep, Exits, Works
  <2>2. QED BY <2>1 DEF Attended
<1>9. CASE Die
  <2>1. run'.pc = "idle"
    BY <1>9, StartTypes DEF Die
  <2>2. \A k \in Kids : kids'[k] # "running"
    <3>1. ASSUME NEW k \in Kids, kids[k] = "running" PROVE kids'[k] # "running"
      <4>1. run.kid = k /\ run.kid # 0
        BY <3>1 DEF Attended, Kids
      <4>2. QED BY <1>1, <1>9, <3>1, <4>1 DEF Die, DiesWithParent
    <3>2. ASSUME NEW k \in Kids, kids[k] # "running" PROVE kids'[k] # "running"
      <4>1. run.kid \in 0 .. MaxKids
        BY <1>1 DEF Runs
      <4>2. run.kid # 0 => run.kid \in Kids
        BY <4>1, RunConstants DEF Kids
      <4>3. QED BY <1>1, <1>9, <3>2, <4>2 DEF Die, DiesWithParent
    <3>3. QED BY <3>1, <3>2
  <2>3. QED BY <2>1, <2>2 DEF Attended
<1>10. CASE OthersPush \/ OthersClose \/ UNCHANGED vars
  BY <1>10 DEF OthersPush, OthersClose, vars, Attended
<1>11. QED
  BY <1>2, <1>3, <1>4, <1>5, <1>6, <1>7, <1>8, <1>9, <1>10 DEF Next, RunStep, WorkerStep

\* Where the kernel kills a provider with its parent, a provider that runs
\* belongs to the live invocation, which has its reservation.
THEOREM ProvidersAttended == ASSUME ParentDeathSignal PROVE Spec => []Attended
<1>1. Init => Attended
  BY StartTypes DEF Init, Attended
<1>2. RInv /\ Attended /\ [Next]_vars => Attended'
  BY AttendedNext
<1>3. QED BY <1>1, <1>2, RunInductive, PTL DEF Spec

\* Two providers of a run are never alive together.
THEOREM SingleProviderAlive == ASSUME ParentDeathSignal PROVE Spec => []OneProvider
<1>1. Attended => OneProvider
  <2> SUFFICES ASSUME Attended PROVE Cardinality({k \in Kids : kids[k] = "running"}) <= 1
    BY DEF OneProvider
  <2> DEFINE S == {k \in Kids : kids[k] = "running"}
  <2>1. S \subseteq {run.kid}
    BY DEF Attended
  <2>2. IsFiniteSet({run.kid}) /\ Cardinality({run.kid}) = 1
    BY FS_Singleton
  <2> HIDE DEF S
  <2>3. IsFiniteSet(S) /\ Cardinality(S) <= Cardinality({run.kid})
    BY <2>1, <2>2, FS_Subset
  <2>4. QED BY <2>2, <2>3 DEF S
<1>2. QED BY <1>1, ProvidersAttended, PTL

\* The capacity of an attempt is held as long as its provider runs.
THEOREM HoldOutlastsProvider == ASSUME ParentDeathSignal PROVE Spec => []HoldCoversProvider
<1>1. Attended => HoldCoversProvider
  BY DEF Attended, HoldCoversProvider
<1>2. QED BY <1>1, ProvidersAttended, PTL
=============================================================================
