----------------------------- MODULE WorkClaim -----------------------------
(***************************************************************************)
(* The durable claim ledger of internal/workclaim: one attempt generation  *)
(* owns a WorkItem at a time, leases expire, renew and close are fenced.   *)
(*                                                                         *)
(* Every process in Procs opens the same file.  The mutex of a Store is    *)
(* in-process, so one call of one process is one step, and the calls of    *)
(* different processes interleave: each works on the copy it loaded and    *)
(* saves that copy whole.  The file stays well formed however many there   *)
(* are; exclusion, durability and history need a single one.               *)
(*                                                                         *)
(* A store is [claims, live, gen, seq]: claims[i][a] is the record under   *)
(* the attempt key <<i, a>> (state "absent": no record), live[i] the       *)
(* attempt the live pointer of i leads to, gen[i] the generation counter   *)
(* of i, seq the counter that claim and event ids are drawn from.  Events  *)
(* keep only the ids they consume.                                         *)
(***************************************************************************)
EXTENDS WorkGraph

CONSTANTS
    Procs,          \* processes that open the claim file
    Executors,      \* executor identities presented with a request
    Attempts,       \* attempt ids (their own namespace under every item)
    NoAttempt,      \* "no attempt": empty live pointer, empty supersedes
    NoExecutor,     \* executor of an absent record
    Graph,          \* the work graph version the claims are about
    Leases,         \* lease durations a caller asks for; 0 is no lease
    CloseTerminals, \* terminals a caller closes with
    MaxTime,        \* bound on the clock
    MaxSeq          \* bound on the id counter (renewals are unlimited in the code)

Items == Graph.items

\* EvaluateReady(req.Graph, ...).Valid: the graph is the same on every call.
GraphValid == ValidateExecutable(Graph)

ASSUME ClaimConstants ==
    /\ NoAttempt \notin Attempts
    /\ NoExecutor \notin Executors
    /\ Leases \subseteq Nat
    /\ CloseTerminals \subseteq Terminals \ {"none"}
    /\ MaxTime \in Nat
    /\ MaxSeq \in Nat
    /\ Graph.term \in [Items -> Terminals]

VARIABLES
    mem,      \* mem[p]: the store process p holds in memory
    up,       \* up[p]: p has the file open
    disk,     \* the claim file
    now,      \* the clock; starts at 1 because 0 is the zero time
    view,     \* view[e]: the terminal evidence executor e last read
    holding   \* handles callers were given by Claim or Renew and did not close

vars == <<mem, up, disk, now, view, holding>>

----------------------------------------------------------------------------
(* Records *)

LiveStates == {"claimed", "running"}

ClaimStates == LiveStates \cup {"absent", "closed", "released", "ambiguous"}

Claims ==
    [state: ClaimStates, id: Nat, gen: Nat, executor: Executors \cup {NoExecutor},
     terminal: Terminals, evidence: BOOLEAN, lease: Nat,
     supersedes: Attempts \cup {NoAttempt}]

NoClaim ==
    [state |-> "absent", id |-> 0, gen |-> 0, executor |-> NoExecutor,
     terminal |-> "none", evidence |-> FALSE, lease |-> 0, supersedes |-> NoAttempt]

Stores ==
    [claims: [Items -> [Attempts -> Claims]],
     live: [Items -> Attempts \cup {NoAttempt}],
     gen: [Items -> Nat],
     seq: Nat]

NewStore ==
    [claims |-> [i \in Items |-> [a \in Attempts |-> NoClaim]],
     live |-> [i \in Items |-> NoAttempt],
     gen |-> [i \in Items |-> 0],
     seq |-> 0]

Handles ==
    [item: Items, attempt: Attempts, id: Nat, gen: Nat, executor: Executors, lease: Nat]

Handle(s, i, a) ==
    LET c == s.claims[i][a]
    IN  [item |-> i, attempt |-> a, id |-> c.id, gen |-> c.gen,
         executor |-> c.executor, lease |-> c.lease]

\* AllClaims / GetByAttempt: any caller can read the identity of any record.
AllClaims(s) ==
    {Handle(s, k[1], k[2]) :
        k \in {j \in Items \X Attempts : s.claims[j[1]][j[2]].state # "absent"}}

----------------------------------------------------------------------------
(* Store operations *)

\* A lease of 0 never expires; otherwise the comparison is now.After(LeaseUntil).
Expired(lease) == lease # 0 /\ now > lease

LeaseUntil(lease) == IF lease > 0 THEN now + lease ELSE 0

LogicalSucceeded(s, i) ==
    \E a \in Attempts :
        s.claims[i][a].state = "closed" /\ s.claims[i][a].terminal = "succeeded"

(***************************************************************************)
(* AcceptedTerminals: per item the closed attempt with the highest         *)
(* generation wins.                                                        *)
(***************************************************************************)
NewestClosed(s, i) ==
    LET closed == {a \in Attempts : s.claims[i][a].state = "closed"}
    IN  {a \in closed : \A b \in closed : s.claims[i][b].gen <= s.claims[i][a].gen}

AcceptedTerminals(s) ==
    [i \in Items |->
        IF NewestClosed(s, i) = {} THEN "none"
        ELSE s.claims[i][CHOOSE a \in NewestClosed(s, i) : TRUE].terminal]

\* What every operation does: one record of one item, its live pointer, its
\* generation counter and the id counter are written together.
Put(s, i, a, c, live, gen, seq) ==
    [claims |-> [s.claims EXCEPT ![i] = [@ EXCEPT ![a] = c]],
     live |-> [s.live EXCEPT ![i] = live],
     gen |-> [s.gen EXCEPT ![i] = gen],
     seq |-> seq]

\* Mutant: the expired record gets the state "expired" and keeps its pointer.
ExpireAsExpired(s, i, a, nonLaunchProven) ==
    Put(s, i, a, [s.claims[i][a] EXCEPT !.state = "expired"], s.live[i], s.gen[i], s.seq + 1)

\* An expired live claim: released when non-launch is proven and it never ran,
\* ambiguous otherwise.  Either way its live pointer goes.
ExpireClaim(s, i, a, nonLaunchProven) ==
    LET c == s.claims[i][a]
        state == IF nonLaunchProven /\ c.state = "claimed" THEN "released" ELSE "ambiguous"
    IN  Put(s, i, a, [c EXCEPT !.state = state], NoAttempt, s.gen[i], s.seq + 1)

NewClaim(s, e, i, lease, supersedes) ==
    [state |-> "claimed", id |-> s.seq + 1, gen |-> s.gen[i] + 1, executor |-> e,
     terminal |-> "none", evidence |-> FALSE, lease |-> LeaseUntil(lease),
     supersedes |-> supersedes]

\* Mutant: the generation counter of the item is not advanced.
GrantWithoutGeneration(s, e, i, a, lease, supersedes) ==
    Put(s, i, a, NewClaim(s, e, i, lease, supersedes), a, s.gen[i], s.seq + 2)

\* A new generation: the id takes one number, the events one (two with a
\* supersession).
GrantClaim(s, e, i, a, lease, supersedes) ==
    Put(s, i, a, NewClaim(s, e, i, lease, supersedes), a, s.gen[i] + 1,
        s.seq + (IF supersedes = NoAttempt THEN 2 ELSE 3))

RenewClaim(s, i, a, lease) ==
    LET c == s.claims[i][a]
        until == IF lease > 0 THEN now + lease ELSE c.lease
    IN  Put(s, i, a, [c EXCEPT !.state = "running", !.lease = until],
            s.live[i], s.gen[i], s.seq + 1)

\* Evidence given with another terminal than success is never read again.
ClosedClaim(c, terminal, evidence) ==
    [c EXCEPT !.state = "closed", !.terminal = terminal,
              !.evidence = evidence /\ terminal = "succeeded"]

\* Mutant: clearLiveLocked is forgotten on close.
CloseKeepsPointer(s, i, a, terminal, evidence) ==
    Put(s, i, a, ClosedClaim(s.claims[i][a], terminal, evidence),
        s.live[i], s.gen[i], s.seq + 1)

CloseClaim(s, i, a, terminal, evidence) ==
    Put(s, i, a, ClosedClaim(s.claims[i][a], terminal, evidence),
        IF s.live[i] = a THEN NoAttempt ELSE s.live[i], s.gen[i], s.seq + 1)

----------------------------------------------------------------------------
(* Load and save *)

\* recomputedGen: the high-water generation of the records of i.
RecomputedGen(s, i) ==
    LET gens == {0} \cup {s.claims[i][a].gen : a \in Attempts}
    IN  CHOOSE n \in gens : \A m \in gens : m <= n

(***************************************************************************)
(* load: everything OpenPath rejects.  Ids are compared across items       *)
(* because they index one map.                                             *)
(***************************************************************************)
LoadOK(s) ==
    /\ \A i \in Items : \A a \in Attempts :
          LET c == s.claims[i][a] IN
          c.state # "absent" =>
            /\ c.id > 0 /\ c.gen > 0 /\ c.executor # NoExecutor
            /\ \A j \in Items : \A b \in Attempts :
                  s.claims[j][b].state # "absent" /\ s.claims[j][b].id = c.id
                     => j = i /\ b = a
            /\ c.state = "closed" =>
                  /\ c.terminal # "none"
                  /\ c.terminal = "succeeded" => c.evidence
            /\ c.state # "closed" => c.terminal = "none"
            /\ c.state \in LiveStates => s.live[i] # NoAttempt
            /\ c.state \in LiveStates =>
                  \A b \in Attempts : s.claims[i][b].state \in LiveStates => b = a
    /\ \A i \in Items :
          /\ s.live[i] # NoAttempt => s.claims[i][s.live[i]].state \in LiveStates
          /\ s.gen[i] = RecomputedGen(s, i)

(***************************************************************************)
(* commitLocked: the file is replaced by rename and the call returns; or   *)
(* the save fails and memory is rolled back; or the process dies after the *)
(* rename and before the answer.  got is what callers hold when the call   *)
(* returns, left what they hold when it never does.                        *)
(***************************************************************************)
\* Mutant: the call answers from memory although the file was not replaced.
AnswerUnsaved(p, s, got) ==
    /\ mem' = [mem EXCEPT ![p] = s]
    /\ holding' = got
    /\ UNCHANGED <<up, disk>>

CommitSaved(p, s, got) ==
    /\ mem' = [mem EXCEPT ![p] = s]
    /\ disk' = s
    /\ holding' = got
    /\ UNCHANGED up

CommitFailed == UNCHANGED <<mem, up, disk, holding>>

CommitDied(p, s, left) ==
    /\ mem' = [mem EXCEPT ![p] = NewStore]
    /\ up' = [up EXCEPT ![p] = FALSE]
    /\ disk' = s
    /\ holding' = left

Commit(p, s, got, left) ==
    CommitSaved(p, s, got) \/ CommitFailed \/ CommitDied(p, s, left)

----------------------------------------------------------------------------
(* Claim *)

SupersedesOK(s, i, supersedes) ==
    supersedes # NoAttempt => s.claims[i][supersedes].state = "closed"

\* The checks before any write: ready on the evidence the caller brought, and
\* no attempt of the item has succeeded.
Claimable(p, e, i) ==
    /\ GraphValid
    /\ Lifecycle(Graph, view[e], i) = "ready"
    /\ ~LogicalSucceeded(mem[p], i)

LiveAttempt(p, i) == mem[p].live[i]

\* An expired live record: of the requested attempt itself, or, if the attempt
\* is new, of the attempt that holds the item.
ExpiredRecord(p, i, a) ==
    IF mem[p].claims[i][a].state # "absent" THEN a ELSE LiveAttempt(p, i)

\* Mutant: the lease is not consulted before the live record is expired.
ExpiresAnyLive(p, i, a) ==
    LET b == ExpiredRecord(p, i, a) IN
    b # NoAttempt /\ mem[p].claims[i][b].state \in LiveStates

HasExpired(p, i, a) ==
    LET b == ExpiredRecord(p, i, a) IN
    /\ b # NoAttempt
    /\ mem[p].claims[i][b].state \in LiveStates
    /\ Expired(mem[p].claims[i][b].lease)

Grant(p, s, e, i, a, lease, supersedes) ==
    LET t == GrantClaim(s, e, i, a, lease, supersedes)
    IN  CommitSaved(p, t, holding \cup {Handle(t, i, a)}) \/ CommitDied(p, t, holding)

\* Refused without a write: blocked, not_ready, terminal_reused,
\* already_running, needs_human or conflict.
ClaimRefused(p, e, i, a, supersedes) ==
    /\ \/ ~Claimable(p, e, i)
       \/ /\ ~HasExpired(p, i, a)
          /\ \/ mem[p].claims[i][a].state # "absent"
             \/ LiveAttempt(p, i) # NoAttempt
             \/ ~SupersedesOK(mem[p], i, supersedes)
    /\ UNCHANGED <<mem, up, disk, holding>>

\* An expired record ends the call, except a released one of another attempt.
ClaimExpires(p, e, i, a, nonLaunchProven) ==
    /\ Claimable(p, e, i)
    /\ HasExpired(p, i, a)
    /\ Commit(p, ExpireClaim(mem[p], i, ExpiredRecord(p, i, a), nonLaunchProven),
              holding, holding)

\* The other attempt's record is released and committed, then the call goes on
\* to grant; when the second save fails or the supersession conflicts, the
\* release alone stays (ClaimExpires).
ClaimReplaces(p, e, i, a, lease, supersedes) ==
    LET b == ExpiredRecord(p, i, a)
        r == ExpireClaim(mem[p], i, b, TRUE)
    IN  /\ Claimable(p, e, i)
        /\ HasExpired(p, i, a)
        /\ b # a
        /\ r.claims[i][b].state = "released"
        /\ SupersedesOK(r, i, supersedes)
        /\ Grant(p, r, e, i, a, lease, supersedes)

ClaimGrants(p, e, i, a, lease, supersedes) ==
    /\ Claimable(p, e, i)
    /\ mem[p].claims[i][a].state = "absent"
    /\ LiveAttempt(p, i) = NoAttempt
    /\ SupersedesOK(mem[p], i, supersedes)
    /\ Grant(p, mem[p], e, i, a, lease, supersedes) \/ CommitFailed

Claim(p, e, i, a, lease, nonLaunchProven, supersedes) ==
    /\ up[p]
    /\ \/ ClaimRefused(p, e, i, a, supersedes)
       \/ ClaimExpires(p, e, i, a, nonLaunchProven)
       \/ nonLaunchProven /\ ClaimReplaces(p, e, i, a, lease, supersedes)
       \/ ClaimGrants(p, e, i, a, lease, supersedes)
    /\ UNCHANGED <<now, view>>

----------------------------------------------------------------------------
(* Renew and Close, by the handle h presented by executor e *)

Fenced(s, i, a, h, e) ==
    /\ s.claims[i][a].state # "absent"
    /\ s.claims[i][a].id = h.id
    /\ s.claims[i][a].gen = h.gen
    /\ s.claims[i][a].executor = e
    /\ a = h.attempt

\* What callers hold once the holder of the record has asked to give it up or
\* to change its lease.
Without(h) == {g \in holding : g.id # h.id}

\* ErrNotFound, stale_generation: no record answers to the handle.
FenceMismatch(p, h, e) ==
    /\ \A i \in Items : \A a \in Attempts : ~Fenced(mem[p], i, a, h, e)
    /\ UNCHANGED <<mem, up, disk, holding>>

Renew(p, h, e, lease) ==
    /\ up[p]
    /\ mem[p].seq < MaxSeq
    /\ \/ FenceMismatch(p, h, e)
       \/ \E i \in Items : \E a \in Attempts :
            /\ Fenced(mem[p], i, a, h, e)
            /\ IF mem[p].claims[i][a].state \in LiveStates
               THEN LET s == RenewClaim(mem[p], i, a, lease)
                    IN  Commit(p, s, Without(h) \cup {Handle(s, i, a)}, Without(h))
               ELSE UNCHANGED <<mem, up, disk, holding>>
    /\ UNCHANGED <<now, view>>

\* Mutant: a closed claim may be closed again with another terminal.
ClosableAgain(c, terminal, evidence) ==
    c.state # "ambiguous" /\ (terminal = "succeeded" => evidence)

\* closed: idempotent or conflict; ambiguous: needs_human; success needs evidence.
Closable(c, terminal, evidence) ==
    /\ c.state \notin {"closed", "ambiguous"}
    /\ terminal = "succeeded" => evidence

Close(p, h, e, terminal, evidence) ==
    /\ up[p]
    /\ \/ FenceMismatch(p, h, e)
       \/ \E i \in Items : \E a \in Attempts :
            /\ Fenced(mem[p], i, a, h, e)
            /\ IF Closable(mem[p].claims[i][a], terminal, evidence)
               THEN Commit(p, CloseClaim(mem[p], i, a, terminal, evidence), Without(h), Without(h))
               ELSE UNCHANGED <<mem, up, disk, holding>>
    /\ UNCHANGED <<now, view>>

----------------------------------------------------------------------------
(* The processes and their callers *)

\* OpenPath; a file load rejects stays closed.
OpenPath(p) ==
    /\ ~up[p]
    /\ LoadOK(disk)
    /\ mem' = [mem EXCEPT ![p] = disk]
    /\ up' = [up EXCEPT ![p] = TRUE]
    /\ UNCHANGED <<disk, now, view, holding>>

Crash(p) ==
    /\ up[p]
    /\ mem' = [mem EXCEPT ![p] = NewStore]
    /\ up' = [up EXCEPT ![p] = FALSE]
    /\ UNCHANGED <<disk, now, view, holding>>

\* An executor reads the evidence it will bring to later claims.
ReadEvidence(p, e) ==
    /\ up[p]
    /\ view' = [view EXCEPT ![e] = AcceptedTerminals(mem[p])]
    /\ UNCHANGED <<mem, up, disk, now, holding>>

Tick ==
    /\ now < MaxTime
    /\ now' = now + 1
    /\ UNCHANGED <<mem, up, disk, view, holding>>

Init ==
    /\ mem = [p \in Procs |-> NewStore]
    /\ up = [p \in Procs |-> FALSE]
    /\ disk = NewStore
    /\ now = 1
    /\ view = [e \in Executors |-> [i \in Items |-> "none"]]
    /\ holding = {}

Next ==
    \/ \E p \in Procs : OpenPath(p) \/ Crash(p)
    \/ \E p \in Procs, e \in Executors : ReadEvidence(p, e)
    \/ \E p \in Procs, e \in Executors, i \in Items, a \in Attempts, lease \in Leases,
          nonLaunchProven \in BOOLEAN, supersedes \in Attempts \cup {NoAttempt} :
          Claim(p, e, i, a, lease, nonLaunchProven, supersedes)
    \/ \E p \in Procs, e \in Executors, lease \in Leases :
          \E h \in holding \cup AllClaims(mem[p]) : Renew(p, h, e, lease)
    \/ \E p \in Procs, e \in Executors, terminal \in CloseTerminals, evidence \in BOOLEAN :
          \E h \in holding \cup AllClaims(mem[p]) : Close(p, h, e, terminal, evidence)
    \/ Tick

Spec == Init /\ [][Next]_vars

----------------------------------------------------------------------------
(* Properties *)

TypeOK ==
    /\ mem \in [Procs -> Stores]
    /\ up \in [Procs -> BOOLEAN]
    /\ disk \in Stores
    /\ now \in Nat
    /\ view \in [Executors -> [Items -> Terminals]]
    /\ holding \subseteq Handles

(***************************************************************************)
(* At most one caller holds an unexpired lease on an item: Claim never     *)
(* hands out an item whose holder is still inside the lease it was told,   *)
(* across save failures, lost answers, restarts and renewals.              *)
(***************************************************************************)
ExclusiveLease ==
    \A g, h \in holding :
        g.item = h.item /\ ~Expired(g.lease) /\ ~Expired(h.lease) => g.attempt = h.attempt

(***************************************************************************)
(* What a caller was told it owns is on disk under the same id, generation *)
(* and executor: commitLocked answers only for a saved claim, and nothing  *)
(* later takes the record away.                                            *)
(***************************************************************************)
GrantDurable ==
    \A h \in holding :
        LET c == disk.claims[h.item][h.attempt]
        IN  c.state # "absent" /\ c.id = h.id /\ c.gen = h.gen /\ c.executor = h.executor

(***************************************************************************)
(* The file this code wrote is always one that OpenPath accepts: the       *)
(* fail-closed validation of load never locks the owner out of a store     *)
(* that its own operations produced.                                       *)
(***************************************************************************)
Reopens == LoadOK(disk)

(***************************************************************************)
(* An item is claimed only in an executable graph and after every hard     *)
(* predecessor has a succeeded closed claim, however old the evidence the  *)
(* caller brought.                                                         *)
(***************************************************************************)
DepsSucceededIn(s) ==
    \A i \in Items : \A a \in Attempts :
        s.claims[i][a].state # "absent" =>
            /\ GraphValid
            /\ \A d \in HardPreds(Graph, i) :
                  Graph.term[d] = "succeeded" \/ LogicalSucceeded(s, d)

DepsSucceeded == DepsSucceededIn(disk)

(***************************************************************************)
(* Every generation of an item is given once and in order of its claim id, *)
(* so the fence (generation, executor, attempt) names one record.          *)
(***************************************************************************)
GenerationFence ==
    \A i \in Items : \A a, b \in Attempts :
        LET c == disk.claims[i][a]
            d == disk.claims[i][b]
        IN  c.state # "absent" /\ d.state # "absent" /\ a # b
               => c.gen # d.gen /\ (c.id < d.id <=> c.gen < d.gen)

(***************************************************************************)
(* A closed attempt never changes again, and the attempt it superseded was *)
(* and stays closed; a recorded attempt keeps its id, generation and       *)
(* executor for ever.                                                      *)
(***************************************************************************)
HistoryKept(s, t) ==
    \A i \in Items : \A a \in Attempts :
        LET c == s.claims[i][a]
            d == t.claims[i][a]
        IN  c.state # "absent" =>
              /\ d.state # "absent" /\ d.id = c.id /\ d.gen = c.gen
              /\ d.executor = c.executor
              /\ c.state = "closed" => d = c
              /\ c.supersedes # NoAttempt => t.claims[i][c.supersedes].state = "closed"

HistoryImmutable == [][HistoryKept(disk, disk')]_vars

(***************************************************************************)
(* The strengthening behind the invariants above.                          *)
(***************************************************************************)
Present(s, i, a) == s.claims[i][a].state # "absent"

LivePointers(s) ==
    \A i \in Items :
        /\ s.live[i] # NoAttempt => s.claims[i][s.live[i]].state \in LiveStates
        /\ \A a \in Attempts : s.claims[i][a].state \in LiveStates => s.live[i] = a

Counters(s) ==
    \A i \in Items :
        /\ s.gen[i] # 0 => \E a \in Attempts : s.claims[i][a].gen = s.gen[i]
        /\ \A a \in Attempts :
              IF Present(s, i, a)
              THEN /\ s.claims[i][a].id \in 1 .. s.seq
                   /\ s.claims[i][a].gen \in 1 .. s.gen[i]
                   /\ s.claims[i][a].executor # NoExecutor
              ELSE s.claims[i][a] = NoClaim

UniqueIds(s) ==
    \A i, j \in Items : \A a, b \in Attempts :
        Present(s, i, a) /\ Present(s, j, b) /\ s.claims[i][a].id = s.claims[j][b].id
            => i = j /\ a = b

OrderedGenerations(s) ==
    \A i \in Items : \A a, b \in Attempts :
        Present(s, i, a) /\ Present(s, i, b) /\ a # b
            => /\ s.claims[i][a].gen # s.claims[i][b].gen
               /\ s.claims[i][a].id < s.claims[i][b].id
                    <=> s.claims[i][a].gen < s.claims[i][b].gen

TerminalRecords(s) ==
    \A i \in Items : \A a \in Attempts :
        LET c == s.claims[i][a] IN
        /\ c.state = "closed" <=> c.terminal # "none"
        /\ c.terminal = "succeeded" => c.evidence
        /\ c.supersedes # NoAttempt => s.claims[i][c.supersedes].state = "closed"

StoreOK(s) ==
    /\ LivePointers(s)
    /\ Counters(s)
    /\ UniqueIds(s)
    /\ OrderedGenerations(s)
    /\ TerminalRecords(s)

MemIsDisk == \A p \in Procs : up[p] => mem[p] = disk

HoldingIn(s, H) ==
    \A h \in H :
        LET c == s.claims[h.item][h.attempt] IN
        /\ c.state # "absent" /\ c.id = h.id /\ c.gen = h.gen
        /\ c.executor = h.executor /\ c.lease = h.lease
        /\ ~Expired(h.lease) => c.state \in LiveStates

ViewsBacked ==
    \A e \in Executors : \A i \in Items :
        view[e][i] = "succeeded" => LogicalSucceeded(disk, i)

IInv ==
    /\ TypeOK
    /\ StoreOK(disk)
    /\ MemIsDisk
    /\ HoldingIn(disk, holding)
    /\ ViewsBacked
    /\ DepsSucceeded

\* What is left of it when several processes have the file open and overwrite
\* each other's saves: every copy is well formed.
SharedInv ==
    /\ TypeOK
    /\ StoreOK(disk)
    /\ \A p \in Procs : up[p] => StoreOK(mem[p])
=============================================================================
