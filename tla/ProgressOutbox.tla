-------------------------- MODULE ProgressOutbox --------------------------
(***************************************************************************)
(* The durable outbox of progress receipts (internal/progress): delivery   *)
(* obligations with leased claims, prepared attempts, results and          *)
(* acknowledgments, and the replay of pending obligations to a host with a *)
(* cursor per origin.                                                      *)
(*                                                                         *)
(* Every operation is one SQLite transaction, so an action is atomic; what *)
(* happens between two operations of one caller is not.  Senders are the   *)
(* transport adapters, hosts the dispatch processes that replay to one     *)
(* origin; all hosts claim under the owner name of their adapter.          *)
(* Obligations are numbered in the order created_at, obligation_id.        *)
(* Receipts, evidence and digests are left out, and so are calls that are  *)
(* refused without a change.                                               *)
(***************************************************************************)
EXTENDS Naturals, FiniteSets

CONSTANTS
    MaxObligations, \* obligations of the delivery run
    Senders,        \* transport adapters
    Hosts,          \* dispatch processes of one host origin
    HostOwner,      \* the claim owner all of them use
    AckPolicies,    \* negotiated acknowledgment policies
    Outcomes,       \* result statuses that senders report
    MaxAttempts,    \* max_attempts of an obligation
    Leases,         \* lease durations senders ask for
    HostLease,      \* lease duration of a replay
    RetryBase,      \* first backoff
    RetryCap,       \* largest backoff
    Delays,         \* delays callers ask for instead of the backoff
    ReplayLimit,    \* obligations of one replay
    Crashes,        \* whether senders and hosts may die
    MaxGen,         \* bound on claim generations
    MaxTime         \* bound on the clock

Obligations == 1 .. MaxObligations

Owners == Senders \cup {HostOwner}

NoOwner == "none"

ResultStatus ==
    {"delivered-unacknowledged", "unsupported", "retryable-failure",
     "terminal-failure", "expired", "superseded"}

TerminalStatus == {"acknowledged", "unsupported", "terminal-failure", "expired", "superseded"}

Statuses ==
    {"none", "pending", "attempting", "needs-reconciliation"} \cup ResultStatus \cup TerminalStatus

ASSUME OutboxConstants ==
    /\ MaxObligations \in Nat
    /\ HostOwner \notin Senders
    /\ NoOwner \notin Owners
    /\ AckPolicies \subseteq {"required-ack", "no-ack"}
    /\ Outcomes \subseteq ResultStatus
    /\ MaxAttempts \in Nat \ {0}
    /\ Leases \subseteq Nat \ {0}
    /\ HostLease \in Nat \ {0}
    /\ RetryBase \in Nat \ {0}
    /\ RetryCap \in Nat \ {0}
    /\ Delays \subseteq Nat \ {0}
    /\ ReplayLimit \in Nat \ {0}
    /\ Crashes \in BOOLEAN
    /\ MaxGen \in Nat
    /\ MaxTime \in Nat

VARIABLES
    obl,      \* rows of progress_delivery_obligations
    attempts, \* rows of progress_delivery_attempts with their results
    cursor,   \* the obligation of the origin's replay cursor, 0 without one
    sender,   \* what each sender is doing
    host,     \* what each host is doing
    wire,     \* per attempt: what the transport did with it (external)
    now       \* the store's clock

vars == <<obl, attempts, cursor, sender, host, wire, now>>

----------------------------------------------------------------------------
(* Records *)

Ordinals == 1 .. MaxAttempts

Rows ==
    [status : Statuses, owner : Owners \cup {NoOwner}, gen : 0 .. MaxGen, exp : Nat,
     count : 0 .. MaxAttempts, next : Nat, policy : AckPolicies \cup {"none"}, acked : BOOLEAN]

NoRow ==
    [status |-> "none", owner |-> NoOwner, gen |-> 0, exp |-> 0,
     count |-> 0, next |-> 0, policy |-> "none", acked |-> FALSE]

AttemptRows ==
    [owner : Owners \cup {NoOwner}, gen : 0 .. MaxGen, prepared : Nat,
     result : ResultStatus \cup {"none"}, next : Nat]

NoAttempt == [owner |-> NoOwner, gen |-> 0, prepared |-> 0, result |-> "none", next |-> 0]

SenderStates ==
    [pc : {"idle", "claimed", "prepared", "sent"}, o : 0 .. MaxObligations,
     gen : 0 .. MaxGen, k : 0 .. MaxAttempts]

IdleSender == [pc |-> "idle", o |-> 0, gen |-> 0, k |-> 0]

HostStates ==
    [pc : {"idle", "list", "loop", "claimed", "shown"}, start : Nat, after : 0 .. MaxObligations,
     todo : SUBSET Obligations, o : 0 .. MaxObligations, gen : 0 .. MaxGen]

IdleHost == [pc |-> "idle", start |-> 0, after |-> 0, todo |-> {}, o |-> 0, gen |-> 0]

\* The earliest obligation of a replay that is still to be handled.
FirstOf(s) == CHOOSE o \in s : \A p \in s : o <= p

----------------------------------------------------------------------------
(* Helpers of the store *)

\* retryDelayForAttempt: doubled with each attempt after the first, up to the cap.
retryDelay(k) ==
    LET doubled == RetryBase * 2 ^ (k - 1)
    IN  IF k <= 1 THEN RetryBase ELSE IF doubled \in 1 .. RetryCap THEN doubled ELSE RetryCap

\* Attempt k of o was prepared.
Prepared(o, k) == attempts[o][k].gen # 0

\* loadUnresolvedDeliveryAttemptTx: attempts without a result.
Unresolved(o) == {k \in Ordinals : Prepared(o, k) /\ attempts[o][k].result = "none"}

\* Mutant: an expired claim is taken over whatever its attempt did.
LeaseIsOver(o) == FALSE

\* An expired claim whose attempt has no result: nobody knows what was sent.
UnknownResult(o) ==
    /\ obl[o].status = "attempting"
    /\ obl[o].exp <= now
    /\ Unresolved(o) # {}

\* Mutant: an obligation that was delivered may be claimed.
ClaimableDelivered(o) ==
    /\ obl[o].status \in {"pending", "attempting", "retryable-failure", "delivered-unacknowledged"}
    /\ obl[o].status = "retryable-failure" => obl[o].next <= now
    /\ obl[o].status = "attempting" => obl[o].exp <= now /\ ~UnknownResult(o)
    /\ obl[o].gen < MaxGen

\* Mutant: the time of the next attempt is not looked at.
ClaimableEarly(o) ==
    /\ obl[o].status \in {"pending", "attempting", "retryable-failure"}
    /\ obl[o].status = "attempting" => obl[o].exp <= now /\ ~UnknownResult(o)
    /\ obl[o].gen < MaxGen

\* ClaimDeliveryObligation goes through.
Claimable(o) ==
    /\ obl[o].status \in {"pending", "attempting", "retryable-failure"}
    /\ obl[o].status = "retryable-failure" => obl[o].next <= now
    /\ obl[o].status = "attempting" => obl[o].exp <= now /\ ~UnknownResult(o)
    /\ obl[o].gen < MaxGen

\* Its update: the next generation, leased until exp.
Claimed(o, owner, exp) ==
    [obl EXCEPT ![o] = [@ EXCEPT !.status = "attempting", !.owner = owner, !.gen = obl[o].gen + 1,
                             !.exp = exp]]

\* Mutant: marked with a status the schema does not have.
MarkedLost(o) == [obl EXCEPT ![o].status = "unknown"]

\* An expired claim with an unknown result is marked, and the claim is refused.
MarkedUnknown(o) == [obl EXCEPT ![o].status = "needs-reconciliation"]

\* requireCurrentClaim.
CurrentClaim(o, owner, gen) ==
    /\ obl[o].owner = owner
    /\ obl[o].gen = gen
    /\ obl[o].exp > now

\* The claim is given back and the obligation is pending again.
Released(o) ==
    [obl EXCEPT ![o] = [@ EXCEPT !.status = "pending", !.owner = NoOwner, !.exp = 0]]

----------------------------------------------------------------------------
(* Producer *)

\* PersistReceiptWithObligation: the receipt and its obligation in one
\* transaction.  A second call for the receipt finds the obligation and leaves
\* it alone, or is refused because the contract differs.
Persist(o) ==
    /\ obl[o].status = "none"
    /\ o = 1 \/ (o > 1 /\ obl[o - 1].status # "none")
    /\ \E p \in AckPolicies :
          obl' = [obl EXCEPT ![o] = [@ EXCEPT !.status = "pending", !.policy = p]]
    /\ UNCHANGED <<attempts, cursor, sender, host, wire, now>>

----------------------------------------------------------------------------
(* Senders *)

\* ClaimDeliveryObligation by a sender.
Claim(s, o) ==
    /\ sender[s].pc = "idle"
    /\ Claimable(o)
    /\ \E d \in Leases : obl' = Claimed(o, s, now + d)
    /\ sender' = [sender EXCEPT ![s] = [pc |-> "claimed", o |-> o, gen |-> obl[o].gen + 1, k |-> 0]]
    /\ UNCHANGED <<attempts, cursor, host, wire, now>>

\* The same, on an obligation whose last claim left an attempt without a result.
ClaimUnknown(s, o) ==
    /\ sender[s].pc = "idle"
    /\ UnknownResult(o)
    /\ obl' = MarkedUnknown(o)
    /\ UNCHANGED <<attempts, cursor, sender, host, wire, now>>

\* BeginDeliveryAttempt: prepares the one attempt of the claim's generation.
Begin(s) ==
    LET o == sender[s].o
        k == obl[o].count + 1
    IN /\ sender[s].pc = "claimed"
       /\ obl[o].status = "attempting"
       /\ CurrentClaim(o, s, sender[s].gen)
       /\ obl[o].count < MaxAttempts
       /\ attempts' = [attempts EXCEPT ![o][k] =
                          [owner |-> s, gen |-> sender[s].gen, prepared |-> now,
                           result |-> "none", next |-> 0]]
       /\ obl' = [obl EXCEPT ![o].count = k]
       /\ sender' = [sender EXCEPT ![s] = [@ EXCEPT !.pc = "prepared", !.k = k]]
       /\ UNCHANGED <<cursor, host, wire, now>>

\* Begin is refused: the claim is stale, its lease over or no attempt left, and
\* the sender drops it.
BeginRefused(s) ==
    LET o == sender[s].o
    IN /\ sender[s].pc = "claimed"
       /\ ~(/\ obl[o].status = "attempting"
            /\ CurrentClaim(o, s, sender[s].gen)
            /\ obl[o].count < MaxAttempts)
       /\ sender' = [sender EXCEPT ![s] = IdleSender]
       /\ UNCHANGED <<obl, attempts, cursor, host, wire, now>>

\* The transport takes the message or refuses it.  Nothing checks the lease here.
Send(s) ==
    /\ sender[s].pc = "prepared"
    /\ \E w \in {"delivered", "refused"} :
          wire' = [wire EXCEPT ![sender[s].o][sender[s].k] = w]
    /\ sender' = [sender EXCEPT ![s].pc = "sent"]
    /\ UNCHANGED <<obl, attempts, cursor, host, now>>

\* What is known to have happened to an attempt, as the caller reports it.
Truthful(o, k, r) == (r = "delivered-unacknowledged") <=> (wire[o][k] = "delivered")

\* Mutant: the last attempt may be repeated as well.
ExhaustedLate(k, r) == r = "retryable-failure" /\ k > MaxAttempts

\* A retryable failure of the last attempt.
Exhausted(k, r) == r = "retryable-failure" /\ k >= MaxAttempts

\* Mutant: every delivery counts as acknowledged.
ResultStateAcked(o, k, r) ==
    IF r = "delivered-unacknowledged" THEN "acknowledged"
    ELSE IF Exhausted(k, r) THEN "terminal-failure" ELSE r

\* The state an obligation takes with result r of attempt k.
ResultState(o, k, r) ==
    IF r = "delivered-unacknowledged" /\ obl[o].policy = "no-ack" THEN "acknowledged"
    ELSE IF Exhausted(k, r) THEN "terminal-failure" ELSE r

\* RecordDeliveryAttemptResult goes through for attempt k: no result yet, the
\* obligation waits for it, and the claim has not changed hands.  The lease is
\* not asked for.
Accepts(o, k) ==
    /\ Prepared(o, k)
    /\ attempts[o][k].result = "none"
    /\ obl[o].status \in {"attempting", "needs-reconciliation"}
    /\ obl[o].owner = attempts[o][k].owner
    /\ obl[o].gen = attempts[o][k].gen
    /\ obl[o].count = k

\* Its insert and update.  A failure that may be repeated is due after the delay
\* the caller gave, or the backoff.
RecordResult(o, k, r, d) ==
    LET st == ResultState(o, k, r)
        due == IF r = "retryable-failure" /\ ~Exhausted(k, r) THEN now + d ELSE 0
        ended == st \in TerminalStatus
    IN /\ Accepts(o, k)
       /\ attempts' = [attempts EXCEPT ![o][k] = [@ EXCEPT !.result = r, !.next = due]]
       /\ obl' = [obl EXCEPT ![o] =
                     [@ EXCEPT !.status = st, !.next = due,
                               !.owner = IF ended THEN NoOwner ELSE obl[o].owner,
                               !.exp = IF ended THEN 0 ELSE obl[o].exp]]

\* The sender reports what happened to its attempt.
Report(s) ==
    /\ sender[s].pc = "sent"
    /\ \E r \in Outcomes, d \in Delays \cup {retryDelay(sender[s].k)} :
          /\ Truthful(sender[s].o, sender[s].k, r)
          /\ RecordResult(sender[s].o, sender[s].k, r, d)
    /\ sender' = [sender EXCEPT ![s] = IdleSender]
    /\ UNCHANGED <<cursor, host, wire, now>>

\* The result of an attempt whose sender is gone is found out and recorded
\* under the identity of the attempt.
Reconcile(o, k) ==
    /\ \A s \in Senders : ~(sender[s].pc \in {"prepared", "sent"} /\ sender[s].o = o /\ sender[s].k = k)
    /\ \E r \in Outcomes, d \in Delays \cup {retryDelay(k)} :
          Truthful(o, k, r) /\ RecordResult(o, k, r, d)
    /\ UNCHANGED <<cursor, sender, host, wire, now>>

\* AcknowledgeDelivery: needs a delivered result under the obligation's claim.
Acknowledge(o, k) ==
    /\ obl[o].policy = "required-ack"
    /\ obl[o].status = "delivered-unacknowledged"
    /\ Prepared(o, k)
    /\ attempts[o][k].result = "delivered-unacknowledged"
    /\ obl[o].owner = attempts[o][k].owner
    /\ obl[o].gen = attempts[o][k].gen
    /\ obl' = [obl EXCEPT ![o] = [@ EXCEPT !.status = "acknowledged", !.owner = NoOwner,
                                           !.exp = 0, !.next = 0, !.acked = TRUE]]
    /\ UNCHANGED <<attempts, cursor, sender, host, wire, now>>

----------------------------------------------------------------------------
(* Replay to a host *)

\* latestReplayCursor, when a dispatch starts.
ReplayStart(h) ==
    /\ host[h].pc = "idle"
    /\ host' = [host EXCEPT ![h] = [IdleHost EXCEPT !.pc = "list", !.start = now, !.after = cursor]]
    /\ UNCHANGED <<obl, attempts, cursor, sender, wire, now>>

\* What a replay offers: pending, or due for another try.
Offered(o, at) ==
    \/ obl[o].status = "pending"
    \/ obl[o].status = "retryable-failure" /\ obl[o].next <= at

\* pendingHostReplayObligations: in order, after the cursor, up to the limit.
ReplayList(h) ==
    LET found == {o \in Obligations : o > host[h].after /\ Offered(o, host[h].start)}
    IN /\ host[h].pc = "list"
       /\ host' = [host EXCEPT ![h] =
                      [@ EXCEPT !.pc = "loop",
                                !.todo = {o \in found : Cardinality({p \in found : p < o}) < ReplayLimit}]]
       /\ UNCHANGED <<obl, attempts, cursor, sender, wire, now>>

\* The replay is over, or gives up with an error.
ReplayEnds(h) == host' = [host EXCEPT ![h] = IdleHost]

ReplayDone(h) ==
    /\ host[h].pc = "loop"
    /\ host[h].todo = {} \/ host[h].start + HostLease <= now
    /\ ReplayEnds(h)
    /\ UNCHANGED <<obl, attempts, cursor, sender, wire, now>>

\* ClaimDeliveryObligation of the next obligation, leased from the start of the
\* replay; a refused one is passed over.
ReplayClaim(h) ==
    LET o == FirstOf(host[h].todo)
    IN /\ host[h].pc = "loop"
       /\ host[h].todo # {}
       /\ host[h].start + HostLease > now
       /\ \/ /\ Claimable(o)
             /\ obl' = Claimed(o, HostOwner, host[h].start + HostLease)
             /\ host' = [host EXCEPT ![h] = [@ EXCEPT !.pc = "claimed", !.todo = host[h].todo \ {o},
                                                      !.o = o, !.gen = obl[o].gen + 1]]
          \/ /\ ~Claimable(o)
             /\ obl[o].gen < MaxGen
             /\ obl' = IF UnknownResult(o) THEN MarkedUnknown(o) ELSE obl
             /\ host' = [host EXCEPT ![h].todo = @ \ {o}]
       /\ UNCHANGED <<attempts, cursor, sender, wire, now>>

\* The receipt is shown.
ReplayShow(h) ==
    /\ host[h].pc = "claimed"
    /\ host' = [host EXCEPT ![h].pc = "shown"]
    /\ UNCHANGED <<obl, attempts, cursor, sender, wire, now>>

\* It cannot be shown: releaseHostReplayClaim, and the replay ends.
ReplayShowFails(h) ==
    /\ host[h].pc = "claimed"
    /\ obl' = IF CurrentClaim(host[h].o, HostOwner, host[h].gen) THEN Released(host[h].o) ELSE obl
    /\ ReplayEnds(h)
    /\ UNCHANGED <<attempts, cursor, sender, wire, now>>

\* advanceDeliveryReplayCursorAndRelease, while the claim is current.
ReplayAdvance(h) ==
    /\ host[h].pc = "shown"
    /\ IF CurrentClaim(host[h].o, HostOwner, host[h].gen)
       THEN /\ cursor' = host[h].o
            /\ obl' = Released(host[h].o)
            /\ host' = [host EXCEPT ![h].pc = "loop"]
       ELSE ReplayEnds(h) /\ UNCHANGED <<obl, cursor>>
    /\ UNCHANGED <<attempts, sender, wire, now>>

----------------------------------------------------------------------------
(* Environment *)

SenderDies(s) ==
    /\ Crashes
    /\ sender[s].pc # "idle"
    /\ sender' = [sender EXCEPT ![s] = IdleSender]
    /\ UNCHANGED <<obl, attempts, cursor, host, wire, now>>

HostDies(h) ==
    /\ Crashes
    /\ host[h].pc # "idle"
    /\ ReplayEnds(h)
    /\ UNCHANGED <<obl, attempts, cursor, sender, wire, now>>

Tick ==
    /\ now < MaxTime
    /\ now' = now + 1
    /\ UNCHANGED <<obl, attempts, cursor, sender, host, wire>>

Init ==
    /\ obl = [o \in Obligations |-> NoRow]
    /\ attempts = [o \in Obligations |-> [k \in Ordinals |-> NoAttempt]]
    /\ cursor = 0
    /\ sender = [s \in Senders |-> IdleSender]
    /\ host = [h \in Hosts |-> IdleHost]
    /\ wire = [o \in Obligations |-> [k \in Ordinals |-> "none"]]
    /\ now = 1

SenderStep(s) ==
    \/ \E o \in Obligations : Claim(s, o) \/ ClaimUnknown(s, o)
    \/ Begin(s) \/ BeginRefused(s) \/ Send(s) \/ Report(s) \/ SenderDies(s)

HostStep(h) ==
    \/ ReplayStart(h) \/ ReplayList(h) \/ ReplayClaim(h) \/ ReplayDone(h)
    \/ ReplayShow(h) \/ ReplayShowFails(h) \/ ReplayAdvance(h) \/ HostDies(h)

Next ==
    \/ \E o \in Obligations : Persist(o)
    \/ \E o \in Obligations, k \in Ordinals : Reconcile(o, k) \/ Acknowledge(o, k)
    \/ \E s \in Senders : SenderStep(s)
    \/ \E h \in Hosts : HostStep(h)
    \/ Tick

Spec == Init /\ [][Next]_vars

----------------------------------------------------------------------------
(* Properties *)

\* Every row keeps its type; the schema's CHECK constraints are part of it.
TypeOK ==
    /\ obl \in [Obligations -> Rows]
    /\ attempts \in [Obligations -> [Ordinals -> AttemptRows]]
    /\ cursor \in 0 .. MaxObligations
    /\ sender \in [Senders -> SenderStates]
    /\ host \in [Hosts -> HostStates]
    /\ wire \in [Obligations -> [Ordinals -> {"none", "delivered", "refused"}]]
    /\ now \in 1 .. MaxTime + 1

\* The result of a prepared attempt is accepted however late it comes: expiry of
\* the lease, claims of others and replays never take the fence of an attempt
\* that may have been sent.  So there is never a second open attempt.
OpenAttemptAccepted == \A o \in Obligations : \A k \in Unresolved(o) : Accepts(o, k)

\* The transport takes an obligation at most once, over all senders, crashes,
\* expiries and retries, as long as results are reported as they happened.
SentOnce ==
    \A o \in Obligations : Cardinality({k \in Ordinals : wire[o][k] = "delivered"}) <= 1

\* An attempt follows only a retryable failure of the one before, and not before
\* the time that failure set, whoever claims or replays in between.
BackoffKept ==
    \A o \in Obligations : \A k \in Ordinals :
        k > 1 /\ Prepared(o, k) =>
            /\ attempts[o][k - 1].result = "retryable-failure"
            /\ attempts[o][k - 1].next <= attempts[o][k].prepared

\* An acknowledged obligation was taken by the transport, and where the contract
\* requires an acknowledgment there is one.
AcknowledgedWasDelivered ==
    \A o \in Obligations : obl[o].status = "acknowledged" =>
        /\ \E k \in Ordinals : wire[o][k] = "delivered"
        /\ obl[o].policy = "required-ack" => obl[o].acked

\* Where an obligation is in the life of a job.
LifeOf(o) ==
    IF obl[o].status = "none" THEN "absent"
    ELSE IF Unresolved(o) # {} THEN "trying"
    ELSE IF obl[o].status \in {"delivered-unacknowledged", "acknowledged"} THEN "done"
    ELSE IF obl[o].status \in TerminalStatus THEN "failed" ELSE "open"

Life == INSTANCE AttemptLife WITH
    Jobs <- Obligations, MaxTries <- MaxAttempts,
    life <- [o \in Obligations |-> LifeOf(o)],
    tries <- [o \in Obligations |-> obl[o].count]

\* The outbox implements the life of a job: one attempt at a time, no more than
\* max_attempts, an obligation that is retried has attempts left, and one that
\* ended stays ended.
ImplementsLife == Life!LifeSpec
=============================================================================
