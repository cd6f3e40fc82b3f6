------------------------ MODULE ProgressOutboxProofs ------------------------
(***************************************************************************)
(* Proofs about ProgressOutbox, for every number of obligations, senders,  *)
(* hosts and attempts, with crashes and leases that run out at any time.   *)
(*                                                                         *)
(* RowOK ties an obligation to its attempts and to what the transport did; *)
(* SenderOK says what a sender in the middle of an attempt still knows to  *)
(* be true, although others claim, mark and replay meanwhile.              *)
(***************************************************************************)
EXTENDS ProgressOutbox, FiniteSetTheorems, WellFoundedInduction, TLAPS

----------------------------------------------------------------------------
(* The inductive invariant *)

\* Attempts are numbered without a gap up to attempt_count, each under a claim
\* that was given out to a sender.
Numbered(o) ==
    \A k \in Ordinals :
        /\ Prepared(o, k) <=> k <= obl[o].count
        /\ Prepared(o, k) => attempts[o][k].owner \in Senders
        /\ attempts[o][k].gen <= obl[o].gen

\* Every attempt but the last failed in a way that may be repeated, and the next
\* one was prepared when it was due.
Earlier(o) ==
    \A k \in Ordinals : k < obl[o].count =>
        /\ attempts[o][k].result = "retryable-failure"
        /\ attempts[o][k].next <= attempts[o][k + 1].prepared

\* An attempt without a result is the last one and holds the claim.
Fenced(o) == \A k \in Unresolved(o) : Accepts(o, k)

\* The status says how the last attempt ended: what may be claimed failed
\* before and is due, or waits for its time.
Due(o) ==
    /\ \/ obl[o].status \in {"pending", "retryable-failure"}
       \/ obl[o].status = "attempting" /\ Unresolved(o) = {}
    /\ obl[o].count > 0
    => LET last == attempts[o][obl[o].count]
       IN  /\ last.result = "retryable-failure"
           /\ IF obl[o].status = "retryable-failure" THEN obl[o].next = last.next
              ELSE last.next <= now

\* A delivered obligation has the result, and the acknowledgment it asks for.
Ended(o) ==
    /\ obl[o].status \in {"delivered-unacknowledged", "acknowledged"} =>
          /\ obl[o].count > 0
          /\ attempts[o][obl[o].count].result = "delivered-unacknowledged"
    /\ obl[o].status = "acknowledged" /\ obl[o].policy = "required-ack" => obl[o].acked

\* Results are what the transport did.
Honest(o) ==
    \A k \in Ordinals :
        /\ wire[o][k] # "none" => Prepared(o, k)
        /\ attempts[o][k].result = "delivered-unacknowledged" => wire[o][k] = "delivered"
        /\ wire[o][k] = "delivered" =>
              attempts[o][k].result \in {"none", "delivered-unacknowledged"}

\* A host's claim is never under an attempt, and nothing precedes the receipt.
Owned(o) ==
    /\ obl[o].owner = HostOwner => obl[o].status = "attempting"
    /\ obl[o].status = "none" => obl[o].count = 0

RowOK(o) ==
    /\ Numbered(o) /\ Earlier(o) /\ Fenced(o) /\ Due(o)
    /\ Ended(o) /\ Honest(o) /\ Owned(o)

\* The claim of a sender has no attempt yet; an attempt of a sender that has not
\* reported has no result, and is on the wire only once it was sent.
SenderOK(s) ==
    LET me == sender[s]
    IN  /\ me.pc # "idle" => me.o \in Obligations /\ me.gen # 0
        /\ me.pc = "claimed" =>
              /\ me.gen <= obl[me.o].gen
              /\ \A k \in Ordinals :
                    ~(attempts[me.o][k].owner = s /\ attempts[me.o][k].gen = me.gen)
        /\ me.pc \in {"prepared", "sent"} =>
              /\ me.k \in Unresolved(me.o)
              /\ attempts[me.o][me.k].owner = s
              /\ me.pc = "prepared" => wire[me.o][me.k] = "none"

HostOK(h) == host[h].pc \in {"claimed", "shown"} => host[h].o \in Obligations

IInv ==
    /\ TypeOK
    /\ \A o \in Obligations : RowOK(o)
    /\ \A s \in Senders : SenderOK(s)
    /\ \A h \in Hosts : HostOK(h)

----------------------------------------------------------------------------
(* Rows *)

\* The first obligation of a replay exists and is one of them.
LEMMA FirstOfOK ==
  ASSUME NEW S \in SUBSET Obligations, S # {}
  PROVE  FirstOf(S) \in S
<1> DEFINE R == OpToRel(<, Nat)
<1>1. IsWellFoundedOn(R, Nat)
  BY NatLessThanWellFounded
<1>2. \A x, y \in Nat : x < y => <<x, y>> \in R
  BY DEF OpToRel
<1>3. S \subseteq Nat
  BY OutboxConstants DEF Obligations
<1>4. PICK x \in S : \A y \in S : ~ (<<y, x>> \in R)
  <2> HIDE DEF R
  <2>1. QED BY <1>1, <1>3, WFMin
<1>5. ASSUME NEW y \in S PROVE x <= y
  <2>1. x \in Nat /\ y \in Nat
    BY <1>3
  <2> HIDE DEF R
  <2>2. ~ (y < x)
    BY <2>1, <1>2, <1>4
  <2>3. QED BY <2>1, <2>2
<1>6. QED BY <1>5 DEF FirstOf

\* The backoff is a time, whatever the attempt.
LEMMA RetryDelayType == ASSUME NEW k PROVE retryDelay(k) \in Nat
  BY OutboxConstants DEF retryDelay

\* Nothing changes for an obligation whose row, attempts and wire are left alone.
LEMMA RowFrame ==
  ASSUME TypeOK, NEW o \in Obligations, RowOK(o),
         obl'[o] = obl[o], attempts'[o] = attempts[o], wire'[o] = wire[o],
         now' \in Nat, now <= now'
  PROVE  RowOK(o)'
<1>1. /\ obl[o] \in Rows
      /\ \A k \in Ordinals : attempts[o][k] \in AttemptRows
      /\ now \in Nat
  BY OutboxConstants DEF TypeOK
<1>2. Unresolved(o)' = Unresolved(o)
  BY DEF Unresolved, Prepared
<1>3. (Numbered(o) /\ Earlier(o) /\ Ended(o) /\ Honest(o) /\ Owned(o))'
  BY DEF RowOK, Numbered, Earlier, Ended, Honest, Owned, Prepared
<1>4. Fenced(o)'
  BY <1>2 DEF RowOK, Fenced, Accepts, Prepared
<1>5. Due(o)'
  <2>1. obl[o].count > 0 => obl[o].count \in Ordinals
    BY <1>1, OutboxConstants DEF Rows, Ordinals
  <2>2. obl[o].count > 0 => attempts[o][obl[o].count].next \in Nat
    BY <1>1, <2>1 DEF AttemptRows
  <2>3. QED BY <1>1, <1>2, <2>2 DEF RowOK, Due
<1>6. QED BY <1>3, <1>4, <1>5 DEF RowOK

\* Where only rows change, senders keep what they know as long as generations do
\* not go back.
LEMMA SenderFrame ==
  ASSUME TypeOK, NEW s \in Senders, SenderOK(s), sender'[s] = sender[s],
         attempts' = attempts, wire' = wire,
         obl' \in [Obligations -> Rows],
         \A p \in Obligations : obl[p].gen <= obl'[p].gen
  PROVE  SenderOK(s)'
<1>1. /\ \A p \in Obligations : obl[p].gen \in Nat /\ obl'[p].gen \in Nat
      /\ sender[s].gen \in Nat
  BY OutboxConstants DEF TypeOK, Rows, SenderStates
<1>2. \A p \in Obligations : Unresolved(p)' = Unresolved(p)
  BY DEF Unresolved, Prepared
<1>3. QED BY <1>1, <1>2 DEF SenderOK

\* A claim goes through only where no attempt waits for its result.
LEMMA ClaimableResolved ==
  ASSUME NEW o \in Obligations, RowOK(o), Claimable(o)
  PROVE  Unresolved(o) = {}
  BY DEF RowOK, Fenced, Accepts, Claimable, UnknownResult

\* ClaimDeliveryObligation keeps the rows.
LEMMA ClaimedOK ==
  ASSUME IInv, NEW o \in Obligations, NEW owner \in Owners, NEW exp \in Nat,
         Claimable(o), obl' = Claimed(o, owner, exp),
         attempts' = attempts, wire' = wire, now' = now
  PROVE  /\ obl' \in [Obligations -> Rows]
         /\ \A p \in Obligations : RowOK(p)'
         /\ \A p \in Obligations : obl[p].gen <= obl'[p].gen
<1>1. /\ obl \in [Obligations -> Rows] /\ obl[o] \in Rows
      /\ \A k \in Ordinals : attempts[o][k] \in AttemptRows
      /\ now \in Nat
  BY OutboxConstants DEF IInv, TypeOK
<1>2. obl[o].gen < MaxGen /\ RowOK(o) /\ TypeOK
  BY DEF Claimable, IInv
<1>3. obl'[o] = [obl[o] EXCEPT !.status = "attempting", !.owner = owner,
                               !.gen = obl[o].gen + 1, !.exp = exp]
  BY <1>1 DEF Claimed
<1>4. \A p \in Obligations : p # o => obl'[p] = obl[p]
  BY <1>1 DEF Claimed
<1>5. /\ obl'[o].status = "attempting" /\ obl'[o].owner = owner
      /\ obl'[o].gen = obl[o].gen + 1 /\ obl'[o].count = obl[o].count
      /\ obl'[o].policy = obl[o].policy /\ obl'[o].acked = obl[o].acked
  BY <1>1, <1>3 DEF Rows
<1>6. obl' \in [Obligations -> Rows]
  <2>1. "attempting" \in Statuses /\ owner \in Owners \cup {NoOwner}
    BY DEF Statuses
  <2>2. obl[o].gen + 1 \in 0 .. MaxGen
    BY <1>1, <1>2, OutboxConstants DEF Rows
  <2>3. obl'[o] \in Rows
    BY <1>1, <1>3, <2>1, <2>2 DEF Rows
  <2>4. QED BY <1>1, <2>3 DEF Claimed
<1>7. Unresolved(o) = {} /\ Unresolved(o)' = {}
  <2>1. Unresolved(o)' = Unresolved(o)
    BY DEF Unresolved, Prepared
  <2>2. QED BY <1>2, <2>1, ClaimableResolved
<1>8. RowOK(o)'
  <2>1. Numbered(o)'
    <3>1. \A k \in Ordinals : attempts[o][k].gen \in Nat
      BY <1>1 DEF AttemptRows
    <3>2. obl[o].gen \in Nat
      BY <1>1 DEF Rows
    <3>3. QED BY <1>2, <1>5, <3>1, <3>2 DEF RowOK, Numbered, Prepared
  <2>2. (Earlier(o) /\ Honest(o))'
    BY <1>2, <1>5 DEF RowOK, Earlier, Honest, Prepared
  <2>3. Fenced(o)'
    BY <1>7 DEF Fenced
  <2>4. (Ended(o) /\ Owned(o))'
    BY <1>5 DEF Ended, Owned
  <2>5. Due(o)'
    BY <1>2, <1>5, <1>7 DEF RowOK, Due, Claimable
  <2>6. QED BY <2>1, <2>2, <2>3, <2>4, <2>5 DEF RowOK
<1>9. \A p \in Obligations : RowOK(p)'
  <2> TAKE p \in Obligations
  <2>1. CASE p = o
    BY <1>8, <2>1
  <2>2. CASE p # o
    BY <1>1, <1>2, <1>4, <2>2, RowFrame DEF IInv
  <2>3. QED BY <2>1, <2>2
<1>10. \A p \in Obligations : obl[p].gen <= obl'[p].gen
  <2>1. \A p \in Obligations : obl[p].gen \in Nat
    BY <1>1 DEF Rows
  <2>2. QED BY <1>4, <1>5, <2>1
<1>11. QED BY <1>6, <1>9, <1>10

\* A step that touches one obligation keeps the others.
LEMMA OneRow ==
  ASSUME IInv, NEW o \in Obligations, RowOK(o)', now' = now,
         \A p \in Obligations : p # o => /\ obl'[p] = obl[p]
                                         /\ attempts'[p] = attempts[p]
                                         /\ wire'[p] = wire[p]
  PROVE  \A p \in Obligations : RowOK(p)'
<1> TAKE p \in Obligations
<1>1. TypeOK /\ RowOK(p) /\ now' \in Nat /\ now <= now'
  BY OutboxConstants DEF IInv, TypeOK
<1>2. CASE p = o
  BY <1>2
<1>3. CASE p # o
  BY <1>1, <1>3, RowFrame
<1>4. QED BY <1>2, <1>3

\* An attempt without a result keeps its obligation from being a host's.
LEMMA OpenNotHosts ==
  ASSUME NEW o \in Obligations, RowOK(o), obl[o].owner = HostOwner
  PROVE  Unresolved(o) = {}
<1> SUFFICES ASSUME NEW k \in Unresolved(o) PROVE FALSE
  OBVIOUS
<1>1. k \in Ordinals /\ Prepared(o, k) /\ obl[o].owner = attempts[o][k].owner
  BY DEF Unresolved, RowOK, Fenced, Accepts
<1>2. attempts[o][k].owner \in Senders
  BY <1>1 DEF RowOK, Numbered
<1>3. QED BY <1>1, <1>2, OutboxConstants

\* A claim that finds an unknown result leaves its fence where it is.
LEMMA MarkedOK ==
  ASSUME IInv, NEW o \in Obligations, UnknownResult(o), obl' = MarkedUnknown(o),
         attempts' = attempts, wire' = wire, now' = now
  PROVE  /\ obl' \in [Obligations -> Rows]
         /\ \A p \in Obligations : RowOK(p)'
         /\ \A p \in Obligations : obl[p].gen <= obl'[p].gen
<1>1. /\ obl \in [Obligations -> Rows] /\ obl[o] \in Rows /\ RowOK(o)
      /\ \A p \in Obligations : obl[p].gen \in Nat
  BY OutboxConstants DEF IInv, TypeOK, Rows
<1>2. /\ obl'[o] = [obl[o] EXCEPT !.status = "needs-reconciliation"]
      /\ \A p \in Obligations : p # o => obl'[p] = obl[p]
  BY <1>1 DEF MarkedUnknown
<1>3. /\ obl'[o].status = "needs-reconciliation" /\ obl'[o].owner = obl[o].owner
      /\ obl'[o].gen = obl[o].gen /\ obl'[o].count = obl[o].count
  BY <1>1, <1>2 DEF Rows
<1>4. obl' \in [Obligations -> Rows]
  <2>1. "needs-reconciliation" \in Statuses
    BY DEF Statuses
  <2>2. obl'[o] \in Rows
    BY <1>1, <1>2, <2>1 DEF Rows
  <2>3. QED BY <1>1, <2>2 DEF MarkedUnknown
<1>5. obl[o].owner # HostOwner
  BY <1>1, OpenNotHosts DEF UnknownResult
<1>6. RowOK(o)'
  <2>1. (Numbered(o) /\ Earlier(o) /\ Honest(o))'
    BY <1>1, <1>3 DEF RowOK, Numbered, Earlier, Honest, Prepared
  <2>2. Fenced(o)'
    BY <1>1, <1>3 DEF RowOK, Fenced, Accepts, Unresolved, Prepared
  <2>3. (Due(o) /\ Ended(o) /\ Owned(o))'
    BY <1>3, <1>5 DEF Due, Ended, Owned
  <2>4. QED BY <2>1, <2>2, <2>3 DEF RowOK
<1>7. \A p \in Obligations : RowOK(p)'
  BY <1>2, <1>6, OneRow
<1>8. \A p \in Obligations : obl[p].gen <= obl'[p].gen
  <2>1. \A p \in Obligations : p # o => obl'[p] = obl[p]
    BY <1>2
  <2>2. QED BY <1>1, <1>3, <2>1
<1>9. QED BY <1>4, <1>7, <1>8

\* A host gives back only what nobody has an attempt for.
LEMMA ReleasedOK ==
  ASSUME IInv, NEW o \in Obligations, obl[o].owner = HostOwner, obl' = Released(o),
         attempts' = attempts, wire' = wire, now' = now
  PROVE  /\ obl' \in [Obligations -> Rows]
         /\ \A p \in Obligations : RowOK(p)'
         /\ \A p \in Obligations : obl[p].gen <= obl'[p].gen
<1>1. /\ obl \in [Obligations -> Rows] /\ obl[o] \in Rows /\ RowOK(o)
      /\ \A p \in Obligations : obl[p].gen \in Nat
  BY OutboxConstants DEF IInv, TypeOK, Rows
<1>2. /\ obl'[o] = [obl[o] EXCEPT !.status = "pending", !.owner = NoOwner, !.exp = 0]
      /\ \A p \in Obligations : p # o => obl'[p] = obl[p]
  BY <1>1 DEF Released
<1>3. /\ obl'[o].status = "pending" /\ obl'[o].owner = NoOwner
      /\ obl'[o].gen = obl[o].gen /\ obl'[o].count = obl[o].count
  BY <1>1, <1>2 DEF Rows
<1>4. obl' \in [Obligations -> Rows]
  <2>1. "pending" \in Statuses /\ NoOwner \in Owners \cup {NoOwner} /\ 0 \in Nat
    BY DEF Statuses
  <2>2. obl'[o] \in Rows
    BY <1>1, <1>2, <2>1 DEF Rows
  <2>3. QED BY <1>1, <2>2 DEF Released
<1>5. /\ Unresolved(o) = {} /\ Unresolved(o)' = Unresolved(o)
      /\ obl[o].status = "attempting"
  BY <1>1, OpenNotHosts DEF Unresolved, Prepared, RowOK, Owned
<1>6. RowOK(o)'
  <2>1. (Numbered(o) /\ Earlier(o) /\ Honest(o))'
    BY <1>1, <1>3 DEF RowOK, Numbered, Earlier, Honest, Prepared
  <2>2. (Fenced(o) /\ Ended(o))'
    BY <1>3, <1>5 DEF Fenced, Ended
  <2>3. Due(o)'
    BY <1>1, <1>3, <1>5 DEF RowOK, Due
  <2>4. Owned(o)'
    BY <1>3, OutboxConstants DEF Owned, Owners
  <2>5. QED BY <2>1, <2>2, <2>3, <2>4 DEF RowOK
<1>7. \A p \in Obligations : RowOK(p)'
  BY <1>2, <1>6, OneRow
<1>8. \A p \in Obligations : obl[p].gen <= obl'[p].gen
  <2>1. \A p \in Obligations : p # o => obl'[p] = obl[p]
    BY <1>2
  <2>2. QED BY <1>1, <1>3, <2>1
<1>9. QED BY <1>4, <1>7, <1>8

\* A new obligation has no attempt.
LEMMA PersistOK ==
  ASSUME IInv, NEW o \in Obligations, Persist(o)
  PROVE  /\ obl' \in [Obligations -> Rows]
         /\ \A p \in Obligations : RowOK(p)'
         /\ \A p \in Obligations : obl[p].gen <= obl'[p].gen
<1>1. /\ obl \in [Obligations -> Rows] /\ obl[o] \in Rows /\ RowOK(o)
      /\ \A p \in Obligations : obl[p].gen \in Nat
      /\ obl[o].status = "none" /\ obl[o].count = 0
  BY OutboxConstants DEF IInv, TypeOK, Rows, Persist, RowOK, Owned
<1>2. PICK y \in AckPolicies :
         obl' = [obl EXCEPT ![o] = [@ EXCEPT !.status = "pending", !.policy = y]]
  BY DEF Persist
<1>3. /\ obl'[o] = [obl[o] EXCEPT !.status = "pending", !.policy = y]
      /\ \A p \in Obligations : p # o => obl'[p] = obl[p]
  BY <1>1, <1>2
<1>4. /\ obl'[o].status = "pending" /\ obl'[o].owner = obl[o].owner
      /\ obl'[o].gen = obl[o].gen /\ obl'[o].count = obl[o].count
  BY <1>1, <1>3 DEF Rows
<1>5. obl' \in [Obligations -> Rows]
  <2>1. "pending" \in Statuses /\ y \in AckPolicies \cup {"none"}
    BY DEF Statuses
  <2>2. obl'[o] \in Rows
    BY <1>1, <1>3, <2>1 DEF Rows
  <2>3. QED BY <1>1, <1>2, <2>2
<1>6. attempts' = attempts /\ wire' = wire /\ now' = now
  BY DEF Persist
<1>7. Unresolved(o)' = {}
  <2>1. \A k \in Ordinals : ~ (k <= obl[o].count)
    BY <1>1 DEF Ordinals
  <2>2. QED BY <1>1, <1>6, <2>1 DEF Unresolved, Prepared, RowOK, Numbered
<1>8. RowOK(o)'
  <2>1. (Numbered(o) /\ Earlier(o) /\ Honest(o))'
    BY <1>1, <1>4, <1>6 DEF RowOK, Numbered, Earlier, Honest, Prepared
  <2>2. (Fenced(o) /\ Ended(o))'
    BY <1>4, <1>7 DEF Fenced, Ended
  <2>3. (Due(o) /\ Owned(o))'
    BY <1>1, <1>4 DEF Due, Owned, RowOK
  <2>4. QED BY <2>1, <2>2, <2>3 DEF RowOK
<1>9. \A p \in Obligations : RowOK(p)'
  BY <1>3, <1>6, <1>8, OneRow
<1>10. \A p \in Obligations : obl[p].gen <= obl'[p].gen
  <2>1. \A p \in Obligations : p # o => obl'[p] = obl[p]
    BY <1>3
  <2>2. QED BY <1>1, <1>4, <2>1
<1>11. QED BY <1>5, <1>9, <1>10

\* BeginDeliveryAttempt: the claim has no attempt yet, so the new one is alone.
LEMMA BeginOK ==
  ASSUME IInv, NEW s \in Senders, Begin(s)
  PROVE  IInv'
<1>0. PICK o, k, g : o = sender[s].o /\ k = obl[o].count + 1 /\ g = sender[s].gen
  OBVIOUS
<1> DEFINE new == [owner |-> s, gen |-> g, prepared |-> now, result |-> "none", next |-> 0]
<1>1. /\ TypeOK /\ SenderOK(s) /\ sender[s].pc = "claimed" /\ o \in Obligations
      /\ obl[o].status = "attempting" /\ obl[o].owner = s /\ obl[o].gen = g
      /\ obl[o].count < MaxAttempts /\ RowOK(o) /\ g # 0
  BY <1>0 DEF Begin, IInv, SenderOK, CurrentClaim
<1>2. /\ obl \in [Obligations -> Rows] /\ obl[o] \in Rows
      /\ attempts \in [Obligations -> [Ordinals -> AttemptRows]]
      /\ now \in Nat /\ g \in 0 .. MaxGen /\ obl[o].count \in Nat /\ k \in Ordinals
      /\ sender \in [Senders -> SenderStates] /\ MaxAttempts \in Nat
  <2>1. /\ obl \in [Obligations -> Rows] /\ obl[o] \in Rows /\ sender[s] \in SenderStates
        /\ attempts \in [Obligations -> [Ordinals -> AttemptRows]]
        /\ now \in Nat /\ sender \in [Senders -> SenderStates] /\ MaxAttempts \in Nat
    BY <1>1, OutboxConstants DEF TypeOK
  <2>2. g \in 0 .. MaxGen /\ obl[o].count \in 0 .. MaxAttempts
    BY <1>0, <2>1 DEF Rows, SenderStates
  <2>3. QED BY <1>0, <1>1, <2>1, <2>2 DEF Ordinals
<1>3. /\ attempts' = [attempts EXCEPT ![o][k] = new]
      /\ obl' = [obl EXCEPT ![o].count = k]
      /\ sender' = [sender EXCEPT ![s] = [@ EXCEPT !.pc = "prepared", !.k = k]]
      /\ UNCHANGED <<cursor, host, wire, now>>
  BY <1>0 DEF Begin
<1>4. Unresolved(o) = {}
  <2> SUFFICES ASSUME NEW j \in Unresolved(o) PROVE FALSE
    OBVIOUS
  <2>1. /\ j \in Ordinals
        /\ attempts[o][j].owner = s /\ attempts[o][j].gen = g
    BY <1>1 DEF Unresolved, RowOK, Fenced, Accepts
  <2>2. QED BY <1>0, <1>1, <2>1 DEF SenderOK
<1>5. /\ obl'[o] = [obl[o] EXCEPT !.count = k]
      /\ attempts'[o][k] = new
      /\ \A j \in Ordinals : j # k => attempts'[o][j] = attempts[o][j]
  BY <1>1, <1>2, <1>3
<1>6. \A p \in Obligations : p # o => obl'[p] = obl[p] /\ attempts'[p] = attempts[p]
  BY <1>2, <1>3
<1>7. /\ obl'[o].status = "attempting" /\ obl'[o].owner = s /\ obl'[o].gen = g
      /\ obl'[o].count = k
  BY <1>1, <1>2, <1>5 DEF Rows
<1>8. /\ attempts'[o][k].owner = s /\ attempts'[o][k].gen = g
      /\ attempts'[o][k].prepared = now /\ attempts'[o][k].result = "none"
      /\ new \in AttemptRows
  BY <1>2, <1>5 DEF AttemptRows, Owners
<1> HIDE DEF new
<1>9. TypeOK'
  <2>1. k \in 0 .. MaxAttempts /\ k # 0
    BY <1>2 DEF Ordinals
  <2>2. obl'[o] \in Rows
    BY <1>2, <1>5, <2>1 DEF Rows
  <2>3. obl' \in [Obligations -> Rows]
    BY <1>1, <1>2, <1>3, <2>2
  <2>4. attempts' \in [Obligations -> [Ordinals -> AttemptRows]]
    BY <1>1, <1>2, <1>3, <1>8
  <2>5. sender' \in [Senders -> SenderStates]
    BY <1>2, <1>3, <2>1 DEF SenderStates
  <2>6. QED BY <1>1, <1>3, <2>3, <2>4, <2>5 DEF TypeOK
<1>10. \A j \in Ordinals : Prepared(o, j)' <=> Prepared(o, j) \/ j = k
  BY <1>1, <1>5, <1>8 DEF Prepared
<1>11. Unresolved(o)' = {k}
  BY <1>2, <1>4, <1>5, <1>8, <1>10 DEF Unresolved
<1>12. ~Prepared(o, k) /\ wire[o][k] = "none"
  BY <1>0, <1>1, <1>2 DEF RowOK, Numbered, Honest
<1>13. RowOK(o)'
  <2>1. Numbered(o)'
    <3>1. \A j \in Ordinals : j <= k <=> j <= obl[o].count \/ j = k
      BY <1>0, <1>2 DEF Ordinals
    <3>2. ASSUME NEW j \in Ordinals
          PROVE  /\ Prepared(o, j)' <=> j <= obl'[o].count
                 /\ Prepared(o, j)' => attempts'[o][j].owner \in Senders
                 /\ attempts'[o][j].gen <= obl'[o].gen
      <4>1. CASE j = k
        BY <4>1, <1>2, <1>7, <1>8, <1>10, <3>1
      <4>2. CASE j # k
        BY <4>2, <1>1, <1>5, <1>7, <1>10, <3>1 DEF RowOK, Numbered
      <4>3. QED BY <4>1, <4>2
    <3>3. QED BY <3>2 DEF Numbered
  <2>2. Earlier(o)'
    <3> SUFFICES ASSUME NEW j \in Ordinals, j < k
                 PROVE  /\ attempts'[o][j].result = "retryable-failure"
                        /\ attempts'[o][j].next <= attempts'[o][j + 1].prepared
      BY <1>7 DEF Earlier
    <3>1. attempts'[o][j] = attempts[o][j]
      BY <1>2, <1>5 DEF Ordinals
    <3>2. CASE j = obl[o].count
      <4>1. j + 1 = k /\ obl[o].count > 0
        BY <3>2, <1>0, <1>2 DEF Ordinals
      <4>2. attempts[o][j].result = "retryable-failure" /\ attempts[o][j].next <= now
        BY <3>2, <4>1, <1>1, <1>4 DEF RowOK, Due
      <4>3. QED BY <3>1, <4>1, <4>2, <1>8
    <3>3. CASE j # obl[o].count
      <4>1. j < obl[o].count /\ j + 1 \in Ordinals /\ j + 1 # k
        BY <3>3, <1>0, <1>1, <1>2 DEF Ordinals
      <4>2. QED BY <3>1, <4>1, <1>1, <1>5 DEF RowOK, Earlier
    <3>4. QED BY <3>2, <3>3
  <2>3. Fenced(o)'
    BY <1>1, <1>7, <1>8, <1>10, <1>11, <1>2 DEF Fenced, Accepts
  <2>4. (Due(o) /\ Ended(o) /\ Owned(o))'
    BY <1>7, <1>11 DEF Due, Ended, Owned
  <2>5. Honest(o)'
    <3>1. wire' = wire
      BY <1>3
    <3>2. ASSUME NEW j \in Ordinals
          PROVE  /\ wire[o][j] # "none" => Prepared(o, j)'
                 /\ attempts'[o][j].result = "delivered-unacknowledged" => wire[o][j] = "delivered"
                 /\ wire[o][j] = "delivered" =>
                       attempts'[o][j].result \in {"none", "delivered-unacknowledged"}
      <4>1. CASE j = k
        BY <4>1, <1>8, <1>12
      <4>2. CASE j # k
        BY <4>2, <1>1, <1>5, <1>10 DEF RowOK, Honest
      <4>3. QED BY <4>1, <4>2
    <3>3. QED BY <3>1, <3>2 DEF Honest
  <2>6. QED BY <2>1, <2>2, <2>3, <2>4, <2>5 DEF RowOK
<1>14. \A p \in Obligations : RowOK(p)'
  <2>1. wire' = wire /\ now' = now
    BY <1>3
  <2>2. o \in Obligations
    BY <1>1
  <2>3. QED BY <1>6, <1>13, <2>1, <2>2, OneRow
<1>15. ASSUME NEW t \in Senders PROVE SenderOK(t)'
  <2>1. CASE t = s
    <3>1. sender'[s] = [sender[s] EXCEPT !.pc = "prepared", !.k = k]
      BY <1>2, <1>3
    <3>2. /\ sender'[s].pc = "prepared" /\ sender'[s].o = o /\ sender'[s].k = k
          /\ sender'[s].gen = g
      BY <1>0, <1>2, <3>1 DEF SenderStates
    <3>3. wire' = wire
      BY <1>3
    <3>4. QED BY <2>1, <3>2, <3>3, <1>1, <1>8, <1>11, <1>12 DEF SenderOK
  <2>2. CASE t # s
    <3>1. sender'[t] = sender[t] /\ wire' = wire /\ SenderOK(t)
      BY <2>2, <1>2, <1>3 DEF IInv
    <3>2. \A p \in Obligations : obl'[p].gen = obl[p].gen
      BY <1>1, <1>6, <1>7
    <3>3. \A p \in Obligations : p # o => Unresolved(p)' = Unresolved(p)
      BY <1>6 DEF Unresolved, Prepared
    <3>4. sender[t].pc \in {"prepared", "sent"} => sender[t].o # o /\ sender[t].o \in Obligations
      BY <3>1, <1>4 DEF SenderOK
    <3>5. (sender[t].pc = "claimed" =>
             \A j \in Ordinals :
               ~(attempts[sender[t].o][j].owner = t /\ attempts[sender[t].o][j].gen = sender[t].gen))'
      <4>1. CASE sender[t].o = o
        BY <4>1, <2>2, <3>1, <1>5, <1>8 DEF SenderOK
      <4>2. CASE sender[t].o # o
        BY <4>2, <3>1, <1>6 DEF SenderOK
      <4>3. QED BY <4>1, <4>2
    <3>6. QED BY <3>1, <3>2, <3>3, <3>4, <3>5, <1>6 DEF SenderOK
  <2>3. QED BY <2>1, <2>2
<1>16. \A h \in Hosts : HostOK(h)'
  BY <1>3 DEF IInv, HostOK
<1>17. QED BY <1>9, <1>14, <1>15, <1>16 DEF IInv

\* The transport's answer is written down for the attempt of this sender alone.
LEMMA SendOK ==
  ASSUME IInv, NEW s \in Senders, Send(s)
  PROVE  IInv'
<1>1. PICK o, k, w : /\ o = sender[s].o /\ k = sender[s].k /\ w \in {"delivered", "refused"}
                     /\ wire' = [wire EXCEPT ![o][k] = w]
  BY DEF Send
<1>2. /\ TypeOK /\ sender[s].pc = "prepared" /\ sender[s].gen # 0
      /\ o \in Obligations /\ k \in Unresolved(o) /\ attempts[o][k].owner = s /\ RowOK(o)
  BY <1>1 DEF Send, IInv, SenderOK
<1>3. k \in Ordinals /\ Prepared(o, k) /\ attempts[o][k].result = "none"
  BY <1>2 DEF Unresolved
<1>4. /\ wire \in [Obligations -> [Ordinals -> {"none", "delivered", "refused"}]]
      /\ sender \in [Senders -> SenderStates]
  BY <1>2 DEF TypeOK
<1>5. /\ sender' = [sender EXCEPT ![s].pc = "sent"]
      /\ obl' = obl /\ attempts' = attempts /\ cursor' = cursor /\ host' = host /\ now' = now
  BY DEF Send
<1>6. /\ \A p \in Obligations : p # o => wire'[p] = wire[p]
      /\ \A j \in Ordinals : j # k => wire'[o][j] = wire[o][j]
  BY <1>1, <1>2, <1>3, <1>4
<1>7. TypeOK'
  <2>1. wire' \in [Obligations -> [Ordinals -> {"none", "delivered", "refused"}]]
    BY <1>1, <1>2, <1>3, <1>4
  <2>2. sender' \in [Senders -> SenderStates]
    BY <1>4, <1>5 DEF SenderStates
  <2>3. QED BY <1>2, <1>5, <2>1, <2>2 DEF TypeOK
<1>8. \A p \in Obligations : Unresolved(p)' = Unresolved(p)
  BY <1>5 DEF Unresolved, Prepared
<1>9. RowOK(o)'
  <2>1. (Numbered(o) /\ Earlier(o) /\ Ended(o) /\ Owned(o))'
    BY <1>2, <1>5 DEF RowOK, Numbered, Earlier, Ended, Owned, Prepared
  <2>2. (Fenced(o) /\ Due(o))'
    BY <1>2, <1>5, <1>8 DEF RowOK, Fenced, Due, Accepts, Prepared
  <2>3. Honest(o)'
    BY <1>2, <1>3, <1>5, <1>6 DEF RowOK, Honest, Prepared
  <2>4. QED BY <2>1, <2>2, <2>3 DEF RowOK
<1>10. \A p \in Obligations : RowOK(p)'
  BY <1>2, <1>5, <1>6, <1>9, OneRow
<1>11. ASSUME NEW t \in Senders PROVE SenderOK(t)'
  <2>1. CASE t = s
    <3>1. sender'[s] = [sender[s] EXCEPT !.pc = "sent"]
      BY <1>4, <1>5
    <3>2. /\ sender'[s].pc = "sent" /\ sender'[s].o = o /\ sender'[s].k = k
          /\ sender'[s].gen # 0
      BY <1>1, <1>2, <1>4, <3>1 DEF SenderStates
    <3>3. QED BY <2>1, <3>2, <1>2, <1>5, <1>8 DEF SenderOK
  <2>2. CASE t # s
    <3>1. sender'[t] = sender[t] /\ SenderOK(t)
      BY <2>2, <1>4, <1>5 DEF IInv
    <3>2. sender[t].pc \in {"prepared", "sent"} =>
             /\ sender[t].o \in Obligations /\ sender[t].k \in Ordinals
             /\ ~(sender[t].o = o /\ sender[t].k = k)
      BY <2>2, <3>1, <1>2 DEF SenderOK, Unresolved
    <3>3. sender[t].pc \in {"prepared", "sent"} =>
             wire'[sender[t].o][sender[t].k] = wire[sender[t].o][sender[t].k]
      BY <3>2, <1>6
    <3>4. QED BY <3>1, <3>3, <1>5, <1>8 DEF SenderOK
  <2>3. QED BY <2>1, <2>2
<1>12. \A h \in Hosts : HostOK(h)'
  BY <1>5 DEF IInv, HostOK
<1>13. QED BY <1>7, <1>10, <1>11, <1>12 DEF IInv

\* RecordDeliveryAttemptResult: the result is the one of the last attempt, and
\* the row takes the state that goes with it.
LEMMA RecordOK ==
  ASSUME IInv, NEW o \in Obligations, NEW k \in Ordinals, NEW r \in Outcomes, NEW d \in Nat,
         Truthful(o, k, r), RecordResult(o, k, r, d), wire' = wire, now' = now
  PROVE  /\ obl' \in [Obligations -> Rows]
         /\ attempts' \in [Obligations -> [Ordinals -> AttemptRows]]
         /\ \A p \in Obligations : RowOK(p)'
         /\ \A p \in Obligations : /\ obl'[p].gen = obl[p].gen
                                   /\ p # o => attempts'[p] = attempts[p]
         /\ \A j \in Ordinals : /\ attempts'[o][j].owner = attempts[o][j].owner
                                /\ attempts'[o][j].gen = attempts[o][j].gen
                                /\ j # k => attempts'[o][j] = attempts[o][j]
<1>1. PICK st, due, own, exp :
         /\ st = ResultState(o, k, r)
         /\ due = IF r = "retryable-failure" /\ ~Exhausted(k, r) THEN now + d ELSE 0
         /\ own \in {NoOwner, obl[o].owner} /\ exp \in {0, obl[o].exp}
         /\ attempts' = [attempts EXCEPT ![o][k] = [@ EXCEPT !.result = r, !.next = due]]
         /\ obl' = [obl EXCEPT ![o] = [@ EXCEPT !.status = st, !.next = due,
                                                !.owner = own, !.exp = exp]]
  BY DEF RecordResult
<1>2. /\ TypeOK /\ RowOK(o) /\ Accepts(o, k) /\ r \in ResultStatus
  BY OutboxConstants DEF IInv, RecordResult
<1>3. /\ obl \in [Obligations -> Rows] /\ obl[o] \in Rows
      /\ attempts \in [Obligations -> [Ordinals -> AttemptRows]]
      /\ attempts[o][k] \in AttemptRows /\ now \in Nat
  BY <1>2, OutboxConstants DEF TypeOK
<1>4. /\ obl'[o] = [obl[o] EXCEPT !.status = st, !.next = due, !.owner = own, !.exp = exp]
      /\ attempts'[o][k] = [attempts[o][k] EXCEPT !.result = r, !.next = due]
  BY <1>1, <1>3
<1>5. /\ \A p \in Obligations : p # o => obl'[p] = obl[p] /\ attempts'[p] = attempts[p]
      /\ \A j \in Ordinals : j # k => attempts'[o][j] = attempts[o][j]
  BY <1>1, <1>3
<1>6. /\ obl'[o].status = st /\ obl'[o].next = due /\ obl'[o].owner = own
      /\ obl'[o].gen = obl[o].gen /\ obl'[o].count = obl[o].count
      /\ obl'[o].policy = obl[o].policy
  BY <1>3, <1>4 DEF Rows
<1>7. /\ attempts'[o][k].result = r /\ attempts'[o][k].next = due
      /\ attempts'[o][k].owner = attempts[o][k].owner
      /\ attempts'[o][k].gen = attempts[o][k].gen
      /\ attempts'[o][k].prepared = attempts[o][k].prepared
  BY <1>3, <1>4 DEF AttemptRows
<1>8. /\ st \in Statuses /\ due \in Nat
      /\ st \in {"pending", "attempting", "none", "needs-reconciliation"} => FALSE
      /\ st \in {"delivered-unacknowledged", "acknowledged"} => r = "delivered-unacknowledged"
      /\ st = "acknowledged" => obl[o].policy = "no-ack"
      /\ st = "retryable-failure" => r = "retryable-failure"
  <2>1. /\ st \in Statuses
        /\ st \in {"pending", "attempting", "none", "needs-reconciliation"} => FALSE
        /\ st \in {"delivered-unacknowledged", "acknowledged"} => r = "delivered-unacknowledged"
        /\ st = "acknowledged" => obl[o].policy = "no-ack"
        /\ st = "retryable-failure" => r = "retryable-failure"
    BY <1>1, <1>2 DEF ResultState, ResultStatus, Statuses, TerminalStatus
  <2>2. now + d \in Nat
    BY <1>3
  <2>3. due \in Nat
    BY <1>1, <2>2
  <2>4. QED BY <2>1, <2>3
<1>9. obl' \in [Obligations -> Rows]
  <2>1. own \in Owners \cup {NoOwner} /\ exp \in Nat
    BY <1>1, <1>3 DEF Rows
  <2>2. obl'[o] \in Rows
    BY <1>3, <1>4, <1>8, <2>1 DEF Rows
  <2>3. QED BY <1>1, <1>3, <2>2
<1>10. attempts' \in [Obligations -> [Ordinals -> AttemptRows]]
  <2>1. attempts'[o][k] \in AttemptRows
    BY <1>2, <1>3, <1>4, <1>8 DEF AttemptRows
  <2>2. QED BY <1>1, <1>3, <2>1
<1>11. /\ obl[o].count = k /\ Prepared(o, k) /\ obl[o].owner = attempts[o][k].owner
       /\ attempts[o][k].owner \in Senders
  BY <1>2 DEF Accepts, RowOK, Numbered
<1>12. \A j \in Ordinals : /\ Prepared(o, j)' <=> Prepared(o, j)
                           /\ attempts'[o][j].owner = attempts[o][j].owner
                           /\ attempts'[o][j].gen = attempts[o][j].gen
                           /\ attempts'[o][j].prepared = attempts[o][j].prepared
  BY <1>5, <1>7 DEF Prepared
<1>13. Unresolved(o)' = {}
  <2>1. \A j \in Unresolved(o) : j = k
    BY <1>2, <1>11 DEF RowOK, Fenced, Accepts
  <2>2. r # "none"
    BY <1>2 DEF ResultStatus
  <2>3. QED BY <2>1, <2>2, <1>5, <1>7, <1>12 DEF Unresolved
<1>14. RowOK(o)'
  <2>1. Numbered(o)'
    BY <1>2, <1>6, <1>12 DEF RowOK, Numbered
  <2>2. Earlier(o)'
    <3> SUFFICES ASSUME NEW j \in Ordinals, j < k
                 PROVE  /\ attempts'[o][j].result = "retryable-failure"
                        /\ attempts'[o][j].next <= attempts'[o][j + 1].prepared
      BY <1>6, <1>11 DEF Earlier
    <3>1. j # k /\ j + 1 \in Ordinals
      BY OutboxConstants DEF Ordinals
    <3>2. QED BY <3>1, <1>2, <1>5, <1>11, <1>12 DEF RowOK, Earlier
  <2>3. (Fenced(o) /\ Due(o))'
    BY <1>6, <1>7, <1>8, <1>11, <1>13 DEF Fenced, Due
  <2>4. Ended(o)'
    <3>1. k > 0
      BY DEF Ordinals
    <3>2. QED BY <3>1, <1>6, <1>7, <1>8, <1>11 DEF Ended
  <2>5. Owned(o)'
    BY <1>1, <1>6, <1>8, <1>11, OutboxConstants DEF Owned, Owners
  <2>6. Honest(o)'
    <3>1. (r = "delivered-unacknowledged") <=> (wire[o][k] = "delivered")
      BY DEF Truthful
    <3>2. QED BY <3>1, <1>2, <1>5, <1>7, <1>11, <1>12 DEF RowOK, Honest
  <2>7. QED BY <2>1, <2>2, <2>3, <2>4, <2>5, <2>6 DEF RowOK
<1>15. \A p \in Obligations : RowOK(p)'
  BY <1>5, <1>14, OneRow
<1>16. \A p \in Obligations : obl'[p].gen = obl[p].gen
  BY <1>5, <1>6
<1>17. QED BY <1>5, <1>9, <1>10, <1>12, <1>15, <1>16

----------------------------------------------------------------------------
(* Steps *)

\* Senders that are not in the middle of an attempt that got its result keep
\* what they know.
LEMMA SendersPastResult ==
  ASSUME IInv, NEW o \in Obligations, NEW k \in Ordinals, NEW t \in Senders,
         ~(sender[t].pc \in {"prepared", "sent"} /\ sender[t].o = o /\ sender[t].k = k),
         sender'[t] = sender[t], wire' = wire,
         \A p \in Obligations : /\ obl'[p].gen = obl[p].gen
                                /\ p # o => attempts'[p] = attempts[p],
         \A j \in Ordinals : /\ attempts'[o][j].owner = attempts[o][j].owner
                             /\ attempts'[o][j].gen = attempts[o][j].gen
                             /\ j # k => attempts'[o][j] = attempts[o][j]
  PROVE  SenderOK(t)'
<1>1. SenderOK(t)
  BY DEF IInv
<1>2. ASSUME sender[t].pc \in {"prepared", "sent"}
      PROVE  (sender[t].k \in Unresolved(sender[t].o))'
  <2>1. sender[t].o \in Obligations /\ sender[t].k \in Unresolved(sender[t].o)
    BY <1>1, <1>2 DEF SenderOK
  <2>2. attempts'[sender[t].o][sender[t].k] = attempts[sender[t].o][sender[t].k]
    BY <1>2, <2>1 DEF Unresolved
  <2>3. QED BY <2>1, <2>2 DEF Unresolved, Prepared
<1>3. \A p \in Obligations, j \in Ordinals :
         attempts'[p][j].owner = attempts[p][j].owner /\ attempts'[p][j].gen = attempts[p][j].gen
  OBVIOUS
<1>4. sender[t].pc \in {"prepared", "sent"} => sender[t].k \in Ordinals
  BY <1>1 DEF SenderOK, Unresolved
<1>5. QED BY <1>1, <1>2, <1>3, <1>4 DEF SenderOK

LEMMA ReportOK ==
  ASSUME IInv, NEW s \in Senders, Report(s)
  PROVE  IInv'
<1>1. PICK o, k, r, d :
         /\ o = sender[s].o /\ k = sender[s].k
         /\ r \in Outcomes /\ d \in Delays \cup {retryDelay(k)}
         /\ Truthful(o, k, r) /\ RecordResult(o, k, r, d)
  BY DEF Report
<1>2. /\ TypeOK /\ sender \in [Senders -> SenderStates] /\ sender[s].pc = "sent"
      /\ o \in Obligations /\ k \in Ordinals /\ attempts[o][k].owner = s
  BY <1>1 DEF Report, IInv, TypeOK, SenderOK, Unresolved
<1>3. d \in Nat
  BY <1>1, RetryDelayType, OutboxConstants
<1>4. /\ wire' = wire /\ now' = now /\ cursor' = cursor /\ host' = host
      /\ sender' = [sender EXCEPT ![s] = IdleSender]
  BY DEF Report
<1>5. /\ obl' \in [Obligations -> Rows]
      /\ attempts' \in [Obligations -> [Ordinals -> AttemptRows]]
      /\ \A p \in Obligations : RowOK(p)'
      /\ \A p \in Obligations : /\ obl'[p].gen = obl[p].gen
                                /\ p # o => attempts'[p] = attempts[p]
      /\ \A j \in Ordinals : /\ attempts'[o][j].owner = attempts[o][j].owner
                             /\ attempts'[o][j].gen = attempts[o][j].gen
                             /\ j # k => attempts'[o][j] = attempts[o][j]
  BY <1>1, <1>2, <1>3, <1>4, RecordOK
<1>6. TypeOK'
  <2>1. sender' \in [Senders -> SenderStates]
    BY <1>2, <1>4, OutboxConstants DEF IdleSender, SenderStates
  <2>2. QED BY <1>2, <1>4, <1>5, <2>1 DEF TypeOK
<1>7. ASSUME NEW t \in Senders PROVE SenderOK(t)'
  <2>1. CASE t = s
    <3>1. sender'[t].pc = "idle"
      BY <2>1, <1>2, <1>4 DEF IdleSender
    <3>2. QED BY <3>1 DEF SenderOK
  <2>2. CASE t # s
    <3>1. sender'[t] = sender[t]
      BY <2>2, <1>2, <1>4
    <3>2. ~(sender[t].pc \in {"prepared", "sent"} /\ sender[t].o = o /\ sender[t].k = k)
      BY <2>2, <1>2 DEF IInv, SenderOK
    <3>3. QED BY <3>1, <3>2, <1>2, <1>4, <1>5, SendersPastResult
  <2>3. QED BY <2>1, <2>2
<1>8. \A h \in Hosts : HostOK(h)'
  BY <1>4 DEF IInv, HostOK
<1>9. QED BY <1>5, <1>6, <1>7, <1>8 DEF IInv

LEMMA ReconcileOK ==
  ASSUME IInv, NEW o \in Obligations, NEW k \in Ordinals, Reconcile(o, k)
  PROVE  IInv'
<1>1. PICK r \in Outcomes, d \in Delays \cup {retryDelay(k)} :
         Truthful(o, k, r) /\ RecordResult(o, k, r, d)
  BY DEF Reconcile
<1>2. d \in Nat
  BY <1>1, RetryDelayType, OutboxConstants
<1>3. /\ wire' = wire /\ now' = now /\ cursor' = cursor /\ host' = host /\ sender' = sender
  BY DEF Reconcile
<1>4. /\ obl' \in [Obligations -> Rows]
      /\ attempts' \in [Obligations -> [Ordinals -> AttemptRows]]
      /\ \A p \in Obligations : RowOK(p)'
      /\ \A p \in Obligations : /\ obl'[p].gen = obl[p].gen
                                /\ p # o => attempts'[p] = attempts[p]
      /\ \A j \in Ordinals : /\ attempts'[o][j].owner = attempts[o][j].owner
                             /\ attempts'[o][j].gen = attempts[o][j].gen
                             /\ j # k => attempts'[o][j] = attempts[o][j]
  BY <1>1, <1>2, <1>3, RecordOK
<1>5. TypeOK'
  BY <1>3, <1>4 DEF IInv, TypeOK
<1>6. ASSUME NEW t \in Senders PROVE SenderOK(t)'
  <2>1. ~(sender[t].pc \in {"prepared", "sent"} /\ sender[t].o = o /\ sender[t].k = k)
    BY DEF Reconcile
  <2>2. QED BY <2>1, <1>3, <1>4, SendersPastResult
<1>7. \A h \in Hosts : HostOK(h)'
  BY <1>3 DEF IInv, HostOK
<1>8. QED BY <1>4, <1>5, <1>6, <1>7 DEF IInv

\* Where only rows of obligations change, and to rows that are well.
LEMMA RowStep ==
  ASSUME IInv, UNCHANGED <<attempts, wire, now>>, obl' \in [Obligations -> Rows],
         \A p \in Obligations : RowOK(p)',
         \A p \in Obligations : obl[p].gen <= obl'[p].gen,
         cursor' \in 0 .. MaxObligations,
         host' \in [Hosts -> HostStates], \A h \in Hosts : HostOK(h)',
         UNCHANGED sender
  PROVE  IInv'
<1>1. TypeOK'
  BY DEF IInv, TypeOK
<1>2. \A s \in Senders : SenderOK(s)'
  BY SenderFrame DEF IInv
<1>3. QED BY <1>1, <1>2 DEF IInv

LEMMA AcknowledgeOK ==
  ASSUME IInv, NEW o \in Obligations, NEW k \in Ordinals, Acknowledge(o, k)
  PROVE  IInv'
<1>1. /\ obl \in [Obligations -> Rows] /\ obl[o] \in Rows /\ RowOK(o)
      /\ \A p \in Obligations : obl[p].gen \in Nat
      /\ obl[o].status = "delivered-unacknowledged"
  BY OutboxConstants DEF IInv, TypeOK, Rows, Acknowledge
<1>2. obl'[o] = [obl[o] EXCEPT !.status = "acknowledged", !.owner = NoOwner,
                               !.exp = 0, !.next = 0, !.acked = TRUE]
  BY <1>1 DEF Acknowledge
<1>3. \A p \in Obligations : p # o => obl'[p] = obl[p]
  BY <1>1 DEF Acknowledge
<1>4. UNCHANGED <<attempts, cursor, sender, host, wire, now>>
  BY DEF Acknowledge
<1>5. /\ obl'[o].status = "acknowledged" /\ obl'[o].owner = NoOwner /\ obl'[o].acked = TRUE
      /\ obl'[o].gen = obl[o].gen /\ obl'[o].count = obl[o].count
  BY <1>1, <1>2 DEF Rows
<1>6. obl' \in [Obligations -> Rows]
  <2>1. "acknowledged" \in Statuses /\ NoOwner \in Owners \cup {NoOwner} /\ 0 \in Nat
    BY DEF Statuses, TerminalStatus
  <2>2. obl'[o] \in Rows
    BY <1>1, <1>2, <2>1 DEF Rows
  <2>3. QED BY <1>1, <2>2 DEF Acknowledge
<1>7. Unresolved(o) = {} /\ Unresolved(o)' = Unresolved(o)
  BY <1>1, <1>4 DEF Unresolved, Prepared, RowOK, Fenced, Accepts
<1>8. RowOK(o)'
  <2>1. (Numbered(o) /\ Earlier(o) /\ Honest(o))'
    BY <1>1, <1>4, <1>5 DEF RowOK, Numbered, Earlier, Honest, Prepared
  <2>2. (Fenced(o) /\ Due(o))'
    BY <1>5, <1>7 DEF Fenced, Due
  <2>3. (Ended(o) /\ Owned(o))'
    BY <1>1, <1>4, <1>5, OutboxConstants DEF Ended, Owned, RowOK, Owners
  <2>4. QED BY <2>1, <2>2, <2>3 DEF RowOK
<1>9. \A p \in Obligations : RowOK(p)'
  BY <1>3, <1>4, <1>8, OneRow
<1>10. \A p \in Obligations : obl[p].gen <= obl'[p].gen
  BY <1>1, <1>3, <1>5
<1>11. host' \in [Hosts -> HostStates] /\ cursor' \in 0 .. MaxObligations
  BY <1>4 DEF IInv, TypeOK
<1>12. \A h \in Hosts : HostOK(h)'
  BY <1>4 DEF IInv, HostOK
<1>13. QED BY <1>4, <1>6, <1>9, <1>10, <1>11, <1>12, RowStep

LEMMA ClaimStepOK ==
  ASSUME IInv, NEW s \in Senders, NEW o \in Obligations, Claim(s, o)
  PROVE  IInv'
<1>1. PICK d \in Leases : obl' = Claimed(o, s, now + d)
  BY DEF Claim
<1>2. /\ TypeOK /\ RowOK(o) /\ Claimable(o) /\ s \in Owners /\ now + d \in Nat
      /\ sender \in [Senders -> SenderStates] /\ obl[o] \in Rows
      /\ \A k \in Ordinals : attempts[o][k] \in AttemptRows
  BY OutboxConstants DEF IInv, TypeOK, Claim, Owners
<1>3. /\ sender' = [sender EXCEPT ![s] =
                       [pc |-> "claimed", o |-> o, gen |-> obl[o].gen + 1, k |-> 0]]
      /\ UNCHANGED <<attempts, cursor, host, wire, now>>
  BY DEF Claim
<1>4. /\ obl' \in [Obligations -> Rows]
      /\ \A p \in Obligations : RowOK(p)'
      /\ \A p \in Obligations : obl[p].gen <= obl'[p].gen
  BY <1>1, <1>2, <1>3, ClaimedOK
<1>5. obl'[o].gen = obl[o].gen + 1
  BY <1>1, <1>2 DEF Claimed, TypeOK, Rows
<1>6. obl[o].gen \in Nat /\ obl[o].gen + 1 \in 0 .. MaxGen /\ obl[o].gen + 1 # 0
  <2>1. obl[o].gen \in 0 .. MaxGen
    BY <1>2 DEF Rows
  <2>2. obl[o].gen < MaxGen /\ MaxGen \in Nat
    BY <1>2, OutboxConstants DEF Claimable
  <2>3. QED BY <2>1, <2>2
<1>7. TypeOK'
  <2>1. sender' \in [Senders -> SenderStates]
    BY <1>2, <1>3, <1>6, OutboxConstants DEF SenderStates, Obligations
  <2>2. QED BY <1>2, <1>3, <1>4, <2>1 DEF TypeOK
<1>8. ASSUME NEW t \in Senders PROVE SenderOK(t)'
  <2>1. CASE t = s
    <3>1. /\ sender'[s].pc = "claimed" /\ sender'[s].o = o /\ sender'[s].gen = obl[o].gen + 1
      BY <1>2, <1>3
    <3>2. \A k \in Ordinals : attempts[o][k].gen # obl[o].gen + 1
      <4>1. \A k \in Ordinals : attempts[o][k].gen \in Nat
        BY <1>2 DEF AttemptRows
      <4>2. QED BY <4>1, <1>2, <1>6 DEF RowOK, Numbered
    <3>3. obl[o].gen + 1 <= obl'[o].gen /\ attempts' = attempts
      BY <1>3, <1>5, <1>6
    <3>4. QED BY <2>1, <3>1, <3>2, <3>3, <1>6 DEF SenderOK
  <2>2. CASE t # s
    <3>1. sender'[t] = sender[t] /\ SenderOK(t)
      BY <2>2, <1>2, <1>3 DEF IInv
    <3>2. QED BY <3>1, <1>2, <1>3, <1>4, SenderFrame
  <2>3. QED BY <2>1, <2>2
<1>9. \A h \in Hosts : HostOK(h)'
  BY <1>3 DEF IInv, HostOK
<1>10. QED BY <1>4, <1>7, <1>8, <1>9 DEF IInv

LEMMA ClaimUnknownOK ==
  ASSUME IInv, NEW s \in Senders, NEW o \in Obligations, ClaimUnknown(s, o)
  PROVE  IInv'
<1>1. /\ UnknownResult(o) /\ obl' = MarkedUnknown(o)
      /\ UNCHANGED <<attempts, cursor, sender, host, wire, now>>
  BY DEF ClaimUnknown
<1>2. /\ obl' \in [Obligations -> Rows]
      /\ \A p \in Obligations : RowOK(p)'
      /\ \A p \in Obligations : obl[p].gen <= obl'[p].gen
  BY <1>1, MarkedOK
<1>3. host' \in [Hosts -> HostStates] /\ cursor' \in 0 .. MaxObligations
  BY <1>1 DEF IInv, TypeOK
<1>4. \A h \in Hosts : HostOK(h)'
  BY <1>1 DEF IInv, HostOK
<1>5. QED BY <1>1, <1>2, <1>3, <1>4, RowStep

LEMMA PersistStepOK ==
  ASSUME IInv, NEW o \in Obligations, Persist(o)
  PROVE  IInv'
<1>1. UNCHANGED <<attempts, cursor, sender, host, wire, now>>
  BY DEF Persist
<1>2. /\ obl' \in [Obligations -> Rows]
      /\ \A p \in Obligations : RowOK(p)'
      /\ \A p \in Obligations : obl[p].gen <= obl'[p].gen
  BY PersistOK
<1>3. host' \in [Hosts -> HostStates] /\ cursor' \in 0 .. MaxObligations
  BY <1>1 DEF IInv, TypeOK
<1>4. \A h \in Hosts : HostOK(h)'
  BY <1>1 DEF IInv, HostOK
<1>5. QED BY <1>1, <1>2, <1>3, <1>4, RowStep

\* Rows are as they were when no table is written.
LEMMA QuietRows ==
  ASSUME IInv, UNCHANGED <<obl, attempts, wire, now>>
  PROVE  /\ obl' \in [Obligations -> Rows]
         /\ \A p \in Obligations : RowOK(p)'
         /\ \A p \in Obligations : obl[p].gen <= obl'[p].gen
<1>1. TypeOK /\ now' \in Nat /\ now <= now' /\ obl' \in [Obligations -> Rows]
  BY OutboxConstants DEF IInv, TypeOK
<1>2. \A p \in Obligations : RowOK(p)'
  BY <1>1, RowFrame DEF IInv
<1>3. \A p \in Obligations : obl[p].gen <= obl'[p].gen
  BY <1>1, OutboxConstants DEF TypeOK, Rows
<1>4. QED BY <1>1, <1>2, <1>3

\* A sender drops what it was doing.
LEMMA SenderDropsOK ==
  ASSUME IInv, NEW s \in Senders, sender' = [sender EXCEPT ![s] = IdleSender],
         UNCHANGED <<obl, attempts, cursor, host, wire, now>>
  PROVE  IInv'
<1>1. TypeOK /\ sender \in [Senders -> SenderStates]
  BY DEF IInv, TypeOK
<1>2. /\ obl' \in [Obligations -> Rows]
      /\ \A p \in Obligations : RowOK(p)'
      /\ \A p \in Obligations : obl[p].gen <= obl'[p].gen
  BY QuietRows
<1>3. TypeOK'
  <2>1. sender' \in [Senders -> SenderStates]
    BY <1>1, OutboxConstants DEF IdleSender, SenderStates
  <2>2. QED BY <1>1, <2>1 DEF TypeOK
<1>4. ASSUME NEW t \in Senders PROVE SenderOK(t)'
  <2>1. CASE t = s
    <3>1. sender'[t].pc = "idle"
      BY <2>1, <1>1 DEF IdleSender
    <3>2. QED BY <3>1 DEF SenderOK
  <2>2. CASE t # s
    <3>1. sender'[t] = sender[t] /\ SenderOK(t)
      BY <2>2, <1>1 DEF IInv
    <3>2. QED BY <3>1, <1>1, <1>2, SenderFrame
  <2>3. QED BY <2>1, <2>2
<1>5. \A h \in Hosts : HostOK(h)'
  BY DEF IInv, HostOK
<1>6. QED BY <1>2, <1>3, <1>4, <1>5 DEF IInv

\* A host's step that writes no row.
LEMMA HostQuietOK ==
  ASSUME IInv, NEW h \in Hosts, NEW v \in HostStates,
         v.pc \in {"claimed", "shown"} => v.o \in Obligations,
         host' = [host EXCEPT ![h] = v],
         UNCHANGED <<obl, attempts, cursor, sender, wire, now>>
  PROVE  IInv'
<1>1. host \in [Hosts -> HostStates] /\ cursor' \in 0 .. MaxObligations
  BY DEF IInv, TypeOK
<1>2. \A g \in Hosts : HostOK(g)'
  BY <1>1 DEF IInv, HostOK
<1>3. host' \in [Hosts -> HostStates]
  BY <1>1
<1>4. QED BY <1>1, <1>2, <1>3, QuietRows, RowStep

LEMMA IdleHostType == IdleHost \in HostStates /\ IdleHost.pc = "idle"
  BY OutboxConstants DEF IdleHost, HostStates

\* A host's step that writes rows.
LEMMA HostRowOK ==
  ASSUME IInv, NEW h \in Hosts, NEW v \in HostStates,
         v.pc \in {"claimed", "shown"} => v.o \in Obligations,
         host' = [host EXCEPT ![h] = v], cursor' \in 0 .. MaxObligations,
         obl' \in [Obligations -> Rows],
         \A p \in Obligations : RowOK(p)',
         \A p \in Obligations : obl[p].gen <= obl'[p].gen,
         UNCHANGED <<attempts, sender, wire, now>>
  PROVE  IInv'
<1>1. host \in [Hosts -> HostStates]
  BY DEF IInv, TypeOK
<1>2. \A g \in Hosts : HostOK(g)'
  BY <1>1 DEF IInv, HostOK
<1>3. host' \in [Hosts -> HostStates]
  BY <1>1
<1>4. QED BY <1>2, <1>3, RowStep

LEMMA ReplayClaimOK ==
  ASSUME IInv, NEW h \in Hosts, ReplayClaim(h)
  PROVE  IInv'
<1>1. PICK o, v : o = FirstOf(host[h].todo) /\ v = host[h]
  OBVIOUS
<1>2. /\ v \in HostStates /\ host \in [Hosts -> HostStates] /\ v.todo # {} /\ v.pc = "loop"
      /\ v.todo \in SUBSET Obligations
      /\ obl \in [Obligations -> Rows] /\ cursor \in 0 .. MaxObligations
  BY <1>1 DEF IInv, TypeOK, ReplayClaim, HostStates
<1>3. o \in Obligations /\ o \in 0 .. MaxObligations
  BY <1>1, <1>2, FirstOfOK, OutboxConstants DEF Obligations
<1>4. UNCHANGED <<attempts, cursor, sender, wire, now>>
  BY DEF ReplayClaim
<1>5. v.todo \ {o} \in SUBSET Obligations
  BY <1>2
<1>6. CASE /\ Claimable(o)
           /\ obl' = Claimed(o, HostOwner, v.start + HostLease)
           /\ host' = [host EXCEPT ![h] = [@ EXCEPT !.pc = "claimed", !.todo = v.todo \ {o},
                                                    !.o = o, !.gen = obl[o].gen + 1]]
  <2>1. v.start + HostLease \in Nat /\ HostOwner \in Owners
    BY <1>2, OutboxConstants DEF HostStates, Owners
  <2>2. /\ obl' \in [Obligations -> Rows]
        /\ \A p \in Obligations : RowOK(p)'
        /\ \A p \in Obligations : obl[p].gen <= obl'[p].gen
    BY <1>3, <1>4, <1>6, <2>1, ClaimedOK
  <2>3. obl[o].gen + 1 \in 0 .. MaxGen
    <3>1. obl[o].gen \in 0 .. MaxGen /\ obl[o].gen < MaxGen /\ MaxGen \in Nat
      BY <1>2, <1>3, <1>6, OutboxConstants DEF Rows, Claimable
    <3>2. QED BY <3>1
  <2>4. PICK w : w = [v EXCEPT !.pc = "claimed", !.todo = v.todo \ {o},
                               !.o = o, !.gen = obl[o].gen + 1]
    OBVIOUS
  <2>5. w \in HostStates /\ w.o = o
    BY <1>2, <1>3, <1>5, <2>3, <2>4 DEF HostStates
  <2>6. host' = [host EXCEPT ![h] = w]
    BY <1>1, <1>2, <1>6, <2>4
  <2>7. QED BY <1>2, <1>3, <1>4, <2>2, <2>5, <2>6, HostRowOK
<1>7. CASE /\ obl' = IF UnknownResult(o) THEN MarkedUnknown(o) ELSE obl
           /\ host' = [host EXCEPT ![h].todo = @ \ {o}]
  <2>1. /\ obl' \in [Obligations -> Rows]
        /\ \A p \in Obligations : RowOK(p)'
        /\ \A p \in Obligations : obl[p].gen <= obl'[p].gen
    <3>1. CASE UnknownResult(o)
      BY <1>3, <1>4, <1>7, <3>1, MarkedOK
    <3>2. CASE ~UnknownResult(o)
      BY <1>4, <1>7, <3>2, QuietRows
    <3>3. QED BY <3>1, <3>2
  <2>2. PICK w : w = [v EXCEPT !.todo = v.todo \ {o}]
    OBVIOUS
  <2>3. w \in HostStates /\ w.pc = "loop"
    BY <1>2, <1>5, <2>2 DEF HostStates
  <2>4. host' = [host EXCEPT ![h] = w]
    BY <1>1, <1>2, <1>7, <2>2
  <2>5. QED BY <1>2, <1>4, <2>1, <2>3, <2>4, HostRowOK
<1>8. QED BY <1>1, <1>6, <1>7 DEF ReplayClaim

LEMMA HostStepOK ==
  ASSUME IInv, NEW h \in Hosts, HostStep(h)
  PROVE  IInv'
<1>1. PICK v : v = host[h]
  OBVIOUS
<1>2. /\ v \in HostStates /\ host \in [Hosts -> HostStates] /\ cursor \in 0 .. MaxObligations
      /\ now \in Nat /\ HostOK(h)
  BY <1>1, OutboxConstants DEF IInv, TypeOK
<1>3. CASE ReplayStart(h)
  <2>1. PICK w : w = [IdleHost EXCEPT !.pc = "list", !.start = now, !.after = cursor]
    OBVIOUS
  <2>2. w \in HostStates /\ w.pc = "list"
    BY <1>2, <2>1, IdleHostType DEF HostStates
  <2>3. QED BY <1>3, <2>1, <2>2, HostQuietOK DEF ReplayStart
<1>4. CASE ReplayList(h)
  <2>1. PICK todo \in SUBSET Obligations :
           host' = [host EXCEPT ![h] = [@ EXCEPT !.pc = "loop", !.todo = todo]]
    BY <1>4 DEF ReplayList
  <2>2. PICK w : w = [v EXCEPT !.pc = "loop", !.todo = todo]
    OBVIOUS
  <2>3. w \in HostStates /\ w.pc = "loop"
    BY <1>2, <2>2 DEF HostStates
  <2>4. host' = [host EXCEPT ![h] = w]
    BY <1>1, <1>2, <2>1, <2>2
  <2>5. QED BY <1>4, <2>3, <2>4, HostQuietOK DEF ReplayList
<1>5. CASE ReplayClaim(h)
  BY <1>5, ReplayClaimOK
<1>6. CASE ReplayDone(h) \/ HostDies(h)
  BY <1>6, IdleHostType, HostQuietOK DEF ReplayDone, HostDies, ReplayEnds
<1>7. CASE ReplayShow(h)
  <2>1. PICK w : w = [v EXCEPT !.pc = "shown"]
    OBVIOUS
  <2>2. w \in HostStates /\ w.o \in Obligations
    BY <1>1, <1>2, <1>7, <2>1 DEF HostStates, HostOK, ReplayShow
  <2>3. host' = [host EXCEPT ![h] = w]
    BY <1>1, <1>2, <1>7, <2>1 DEF ReplayShow
  <2>4. QED BY <1>7, <2>2, <2>3, HostQuietOK DEF ReplayShow
<1>8. CASE ReplayShowFails(h)
  <2>1. v.o \in Obligations
    BY <1>1, <1>2, <1>8 DEF HostOK, ReplayShowFails
  <2>2. /\ obl' = IF CurrentClaim(v.o, HostOwner, v.gen) THEN Released(v.o) ELSE obl
        /\ UNCHANGED <<attempts, cursor, sender, wire, now>>
        /\ host' = [host EXCEPT ![h] = IdleHost]
    BY <1>1, <1>8 DEF ReplayShowFails, ReplayEnds
  <2>3. CASE CurrentClaim(v.o, HostOwner, v.gen)
    <3>1. obl[v.o].owner = HostOwner /\ obl' = Released(v.o)
      BY <2>2, <2>3 DEF CurrentClaim
    <3>2. QED BY <1>2, <2>1, <2>2, <3>1, ReleasedOK, IdleHostType, HostRowOK
  <2>4. CASE ~CurrentClaim(v.o, HostOwner, v.gen)
    BY <1>2, <2>2, <2>4, IdleHostType, HostQuietOK
  <2>5. QED BY <2>3, <2>4
<1>9. CASE ReplayAdvance(h)
  <2>1. v.o \in Obligations /\ v.o \in 0 .. MaxObligations
    BY <1>1, <1>2, <1>9 DEF HostOK, ReplayAdvance, HostStates
  <2>2. UNCHANGED <<attempts, sender, wire, now>>
    BY <1>9 DEF ReplayAdvance
  <2>3. CASE CurrentClaim(v.o, HostOwner, v.gen)
    <3>1. /\ obl[v.o].owner = HostOwner /\ obl' = Released(v.o) /\ cursor' = v.o
          /\ host' = [host EXCEPT ![h].pc = "loop"]
      BY <1>1, <1>9, <2>3 DEF CurrentClaim, ReplayAdvance
    <3>2. PICK w : w = [v EXCEPT !.pc = "loop"]
      OBVIOUS
    <3>3. w \in HostStates /\ w.pc = "loop"
      BY <1>2, <3>2 DEF HostStates
    <3>4. host' = [host EXCEPT ![h] = w]
      BY <1>1, <1>2, <3>1, <3>2
    <3>5. QED BY <2>1, <2>2, <3>1, <3>3, <3>4, ReleasedOK, HostRowOK
  <2>4. CASE ~CurrentClaim(v.o, HostOwner, v.gen)
    <3>1. UNCHANGED <<obl, cursor>> /\ host' = [host EXCEPT ![h] = IdleHost]
      BY <1>1, <1>9, <2>4 DEF ReplayAdvance, ReplayEnds
    <3>2. QED BY <2>2, <3>1, IdleHostType, HostQuietOK
  <2>5. QED BY <2>3, <2>4
<1>10. QED
  BY <1>3, <1>4, <1>5, <1>6, <1>7, <1>8, <1>9 DEF HostStep

LEMMA TickOK ==
  ASSUME IInv, Tick
  PROVE  IInv'
<1>1. /\ TypeOK /\ now \in Nat /\ now' \in 1 .. MaxTime + 1 /\ now' \in Nat /\ now <= now'
      /\ UNCHANGED <<obl, attempts, cursor, sender, host, wire>>
  BY OutboxConstants DEF Tick, IInv, TypeOK
<1>2. TypeOK'
  BY <1>1 DEF TypeOK
<1>3. \A p \in Obligations : RowOK(p)'
  BY <1>1, RowFrame DEF IInv
<1>4. \A s \in Senders : SenderOK(s)'
  <2>1. obl' \in [Obligations -> Rows] /\ \A p \in Obligations : obl[p].gen <= obl'[p].gen
    BY <1>1, OutboxConstants DEF TypeOK, Rows
  <2>2. QED BY <1>1, <2>1, SenderFrame DEF IInv
<1>5. \A h \in Hosts : HostOK(h)'
  BY <1>1 DEF IInv, HostOK
<1>6. QED BY <1>2, <1>3, <1>4, <1>5 DEF IInv

LEMMA SenderStepOK ==
  ASSUME IInv, NEW s \in Senders, SenderStep(s)
  PROVE  IInv'
<1>1. CASE \E o \in Obligations : Claim(s, o) \/ ClaimUnknown(s, o)
  BY <1>1, ClaimStepOK, ClaimUnknownOK
<1>2. CASE Begin(s)
  BY <1>2, BeginOK
<1>3. CASE Send(s)
  BY <1>3, SendOK
<1>4. CASE Report(s)
  BY <1>4, ReportOK
<1>5. CASE BeginRefused(s) \/ SenderDies(s)
  BY <1>5, SenderDropsOK DEF BeginRefused, SenderDies
<1>6. QED BY <1>1, <1>2, <1>3, <1>4, <1>5 DEF SenderStep

LEMMA InitOK == ASSUME Init PROVE IInv
<1>1. NoRow \in Rows /\ NoAttempt \in AttemptRows /\ IdleSender \in SenderStates
  <2>1. "none" \in Statuses /\ NoOwner \in Owners \cup {NoOwner} /\ 0 \in 0 .. MaxGen
        /\ 0 \in 0 .. MaxAttempts /\ 0 \in 0 .. MaxObligations
    BY OutboxConstants DEF Statuses
  <2>2. QED BY <2>1 DEF NoRow, Rows, NoAttempt, AttemptRows, IdleSender, SenderStates
<1>2. TypeOK
  BY <1>1, IdleHostType, OutboxConstants DEF Init, TypeOK
<1>3. ASSUME NEW o \in Obligations PROVE RowOK(o)
  <2>1. obl[o] = NoRow /\ \A k \in Ordinals : attempts[o][k] = NoAttempt /\ wire[o][k] = "none"
    BY DEF Init
  <2>2. /\ obl[o].status = "none" /\ obl[o].owner = NoOwner /\ obl[o].gen = 0
        /\ obl[o].count = 0
    BY <2>1 DEF NoRow
  <2>3. \A k \in Ordinals : attempts[o][k].gen = 0 /\ attempts[o][k].result = "none"
    BY <2>1 DEF NoAttempt
  <2>4. \A k \in Ordinals : ~Prepared(o, k) /\ ~(k <= 0) /\ ~(k < 0)
    BY <2>3 DEF Prepared, Ordinals
  <2>5. Unresolved(o) = {}
    BY <2>4 DEF Unresolved
  <2>6. Numbered(o) /\ Earlier(o) /\ Honest(o)
    BY <2>1, <2>2, <2>3, <2>4 DEF Numbered, Earlier, Honest
  <2>7. Fenced(o) /\ Due(o) /\ Ended(o) /\ Owned(o)
    BY <2>2, <2>5, OutboxConstants DEF Fenced, Due, Ended, Owned, Owners
  <2>8. QED BY <2>6, <2>7 DEF RowOK
<1>4. \A s \in Senders : SenderOK(s)
  BY DEF Init, IdleSender, SenderOK
<1>5. \A h \in Hosts : HostOK(h)
  BY IdleHostType DEF Init, HostOK
<1>6. QED BY <1>2, <1>3, <1>4, <1>5 DEF IInv

LEMMA NextOK == ASSUME IInv, [Next]_vars PROVE IInv'
<1>1. CASE \E o \in Obligations : Persist(o)
  BY <1>1, PersistStepOK
<1>2. CASE \E o \in Obligations, k \in Ordinals : Reconcile(o, k) \/ Acknowledge(o, k)
  BY <1>2, ReconcileOK, AcknowledgeOK
<1>3. CASE \E s \in Senders : SenderStep(s)
  BY <1>3, SenderStepOK
<1>4. CASE \E h \in Hosts : HostStep(h)
  BY <1>4, HostStepOK
<1>5. CASE Tick
  BY <1>5, TickOK
<1>6. CASE UNCHANGED vars
  <2>1. UNCHANGED <<obl, attempts, cursor, sender, host, wire, now>>
    BY <1>6 DEF vars
  <2>2. host' \in [Hosts -> HostStates] /\ cursor' \in 0 .. MaxObligations
    BY <2>1 DEF IInv, TypeOK
  <2>3. \A h \in Hosts : HostOK(h)'
    BY <2>1 DEF IInv, HostOK
  <2>4. QED BY <2>1, <2>2, <2>3, QuietRows, RowStep
<1>7. QED BY <1>1, <1>2, <1>3, <1>4, <1>5, <1>6 DEF Next

----------------------------------------------------------------------------
(* Invariants *)

\* An obligation is on the wire at most under its last attempt.
LEMMA DeliveredIsLast ==
  ASSUME IInv, NEW o \in Obligations, NEW k \in Ordinals, wire[o][k] = "delivered"
  PROVE  k = obl[o].count
<1>1. RowOK(o) /\ obl[o].count \in 0 .. MaxAttempts
  BY DEF IInv, TypeOK, Rows
<1>2. Prepared(o, k) /\ attempts[o][k].result # "retryable-failure"
  BY <1>1 DEF RowOK, Honest
<1>3. k <= obl[o].count /\ ~(k < obl[o].count)
  BY <1>1, <1>2 DEF RowOK, Numbered, Earlier
<1>4. QED BY <1>1, <1>3, OutboxConstants DEF Ordinals

LEMMA Consequences ==
  ASSUME IInv
  PROVE  /\ TypeOK /\ OpenAttemptAccepted /\ SentOnce /\ BackoffKept
         /\ AcknowledgedWasDelivered
<1>1. OpenAttemptAccepted
  BY DEF IInv, RowOK, Fenced, OpenAttemptAccepted
<1>2. SentOnce
  <2> SUFFICES ASSUME NEW o \in Obligations
               PROVE  Cardinality({k \in Ordinals : wire[o][k] = "delivered"}) <= 1
    BY DEF SentOnce
  <2> DEFINE S == {k \in Ordinals : wire[o][k] = "delivered"}
  <2>1. S \subseteq {obl[o].count}
    BY DeliveredIsLast
  <2>2. IsFiniteSet({obl[o].count}) /\ Cardinality({obl[o].count}) = 1
    BY FS_Singleton
  <2> HIDE DEF S
  <2>3. IsFiniteSet(S) /\ Cardinality(S) <= Cardinality({obl[o].count})
    BY <2>1, <2>2, FS_Subset
  <2>4. QED BY <2>2, <2>3 DEF S
<1>3. BackoffKept
  <2> SUFFICES ASSUME NEW o \in Obligations, NEW k \in Ordinals, k > 1, Prepared(o, k)
               PROVE  /\ attempts[o][k - 1].result = "retryable-failure"
                      /\ attempts[o][k - 1].next <= attempts[o][k].prepared
    BY DEF BackoffKept
  <2>1. RowOK(o) /\ obl[o].count \in 0 .. MaxAttempts
    BY DEF IInv, TypeOK, Rows
  <2>2. k <= obl[o].count
    BY <2>1 DEF RowOK, Numbered
  <2>3. k - 1 \in Ordinals /\ k - 1 < obl[o].count /\ (k - 1) + 1 = k
    BY <2>1, <2>2, OutboxConstants DEF Ordinals
  <2>4. QED BY <2>1, <2>3 DEF RowOK, Earlier
<1>4. AcknowledgedWasDelivered
  <2> SUFFICES ASSUME NEW o \in Obligations, obl[o].status = "acknowledged"
               PROVE  /\ \E k \in Ordinals : wire[o][k] = "delivered"
                      /\ obl[o].policy = "required-ack" => obl[o].acked
    BY DEF AcknowledgedWasDelivered
  <2>1. RowOK(o) /\ obl[o].count \in 0 .. MaxAttempts /\ obl[o].count > 0
        /\ attempts[o][obl[o].count].result = "delivered-unacknowledged"
    BY DEF IInv, TypeOK, Rows, RowOK, Ended
  <2>2. obl[o].count \in Ordinals
    BY <2>1, OutboxConstants DEF Ordinals
  <2>3. QED BY <2>1, <2>2 DEF RowOK, Honest, Ended
<1>5. QED BY <1>1, <1>2, <1>3, <1>4 DEF IInv

\* The invariant holds in every reachable state, for any number of obligations,
\* senders, hosts and attempts.
THEOREM OutboxInductive == Spec => []IInv
<1>1. Init => IInv
  BY InitOK
<1>2. IInv /\ [Next]_vars => IInv'
  BY NextOK
<1>3. QED BY <1>1, <1>2, PTL DEF Spec

\* Rows keep the types and the CHECK constraints of the schema.
THEOREM OutboxTypeCorrect == Spec => []TypeOK
<1>1. IInv => TypeOK
  BY Consequences
<1>2. QED BY <1>1, OutboxInductive, PTL

\* The result of a prepared attempt is accepted however late it is reported
\* (RecordDeliveryAttemptResult behind ClaimDeliveryObligation and replays).
THEOREM LateResultAccepted == Spec => []OpenAttemptAccepted
<1>1. IInv => OpenAttemptAccepted
  BY Consequences
<1>2. QED BY <1>1, OutboxInductive, PTL

\* The transport takes an obligation at most once while results are honest.
THEOREM DeliveredAtMostOnce == Spec => []SentOnce
<1>1. IInv => SentOnce
  BY Consequences
<1>2. QED BY <1>1, OutboxInductive, PTL

\* No attempt before the time that the failure of the one before has set.
THEOREM BackoffAlwaysKept == Spec => []BackoffKept
<1>1. IInv => BackoffKept
  BY Consequences
<1>2. QED BY <1>1, OutboxInductive, PTL

\* Nothing is acknowledged that the transport did not take, and an obligation
\* that asks for an acknowledgment has one.
THEOREM AcknowledgmentBacked == Spec => []AcknowledgedWasDelivered
<1>1. IInv => AcknowledgedWasDelivered
  BY Consequences
<1>2. QED BY <1>1, OutboxInductive, PTL

----------------------------------------------------------------------------
(* Refinement: the life of an obligation *)

\* What a step may do to the life of one obligation.
LifeStep(o) ==
    \/ LifeOf(o) = "absent" /\ LifeOf(o)' = "open" /\ obl'[o].count = obl[o].count
    \/ /\ LifeOf(o) = "open" /\ LifeOf(o)' = "trying"
       /\ obl[o].count < MaxAttempts /\ obl'[o].count = obl[o].count + 1
    \/ LifeOf(o) = "trying" /\ LifeOf(o)' \in {"done", "failed"} /\ obl'[o].count = obl[o].count
    \/ /\ LifeOf(o) = "trying" /\ LifeOf(o)' = "open"
       /\ obl[o].count < MaxAttempts /\ obl'[o].count = obl[o].count
    \/ LifeOf(o)' = LifeOf(o) /\ obl'[o].count = obl[o].count

\* Such steps of all obligations are a step of AttemptLife.
LEMMA LifeStepsAreLife ==
  ASSUME IInv', \A o \in Obligations : LifeStep(o)
  PROVE  Life!LifeNext
<1> DEFINE life == [o \in Obligations |-> LifeOf(o)]
           tries == [o \in Obligations |-> obl[o].count]
<1>1. life' \in [Obligations -> Life!Lives]
  BY DEF LifeOf, Life!Lives
<1>2. tries' \in [Obligations -> 0 .. MaxAttempts]
  <2>1. \A o \in Obligations : obl'[o].count \in 0 .. MaxAttempts
    BY DEF IInv, TypeOK, Rows
  <2>2. QED BY <2>1
<1>3. ASSUME NEW o \in Obligations
      PROVE  \/ Life!Create(o) \/ Life!Try(o) \/ Life!Succeed(o)
             \/ Life!Retry(o) \/ Life!GiveUp(o) \/ Life!Stay(o)
  <2>1. /\ life[o] = LifeOf(o) /\ life'[o] = LifeOf(o)'
        /\ tries[o] = obl[o].count /\ tries'[o] = obl'[o].count
    OBVIOUS
  <2>2. LifeStep(o)
    OBVIOUS
  <2>3. QED
    BY <2>1, <2>2 DEF LifeStep, Life!Create, Life!Try, Life!Succeed, Life!Retry, Life!GiveUp,
                      Life!Stay, Life!Moves
<1>4. QED BY <1>1, <1>2, <1>3 DEF Life!LifeNext

\* An obligation whose status and attempts stay, stays where it is.
LEMMA LifeFrame ==
  ASSUME NEW o \in Obligations, obl'[o] = obl[o], attempts'[o] = attempts[o]
  PROVE  LifeStep(o)
<1>1. Unresolved(o)' = Unresolved(o)
  BY DEF Unresolved, Prepared
<1>2. QED BY <1>1 DEF LifeStep, LifeOf

\* A change of status without a change of attempts is a creation or no step.
LEMMA StatusLife ==
  ASSUME NEW o \in Obligations, attempts' = attempts, obl'[o].count = obl[o].count,
         \A p \in Obligations : p # o => obl'[p] = obl[p],
         \/ obl[o].status = "none" /\ Unresolved(o) = {} /\ obl'[o].status = "pending"
         \/ /\ Unresolved(o) = {}
            /\ {obl[o].status, obl'[o].status} \subseteq {"pending", "attempting", "retryable-failure"}
         \/ Unresolved(o) # {} /\ "none" \notin {obl[o].status, obl'[o].status}
         \/ /\ Unresolved(o) = {}
            /\ {obl[o].status, obl'[o].status} \subseteq {"delivered-unacknowledged", "acknowledged"}
  PROVE  \A p \in Obligations : LifeStep(p)
<1> TAKE p \in Obligations
<1>1. CASE p # o
  BY <1>1, LifeFrame
<1>2. CASE p = o
  <2>1. Unresolved(o)' = Unresolved(o)
    BY DEF Unresolved, Prepared
  <2>2. QED BY <1>2, <2>1 DEF LifeStep, LifeOf, TerminalStatus
<1>3. QED BY <1>1, <1>2

LEMMA ClaimedLife ==
  ASSUME IInv, NEW o \in Obligations, NEW owner, NEW exp, Claimable(o),
         obl' = Claimed(o, owner, exp), attempts' = attempts
  PROVE  \A p \in Obligations : LifeStep(p)
<1>1. RowOK(o) /\ obl \in [Obligations -> Rows] /\ obl[o] \in Rows
  BY DEF IInv, TypeOK
<1>2. Unresolved(o) = {}
  BY <1>1, ClaimableResolved
<1>3. obl'[o] = [obl[o] EXCEPT !.status = "attempting", !.owner = owner,
                               !.gen = obl[o].gen + 1, !.exp = exp]
  BY <1>1 DEF Claimed
<1>4. obl'[o].status = "attempting" /\ obl'[o].count = obl[o].count
  BY <1>1, <1>3 DEF Rows
<1>5. \A p \in Obligations : p # o => obl'[p] = obl[p]
  BY <1>1 DEF Claimed
<1>6. obl[o].status \in {"pending", "attempting", "retryable-failure"}
  BY DEF Claimable
<1>7. QED BY <1>2, <1>4, <1>5, <1>6, StatusLife

LEMMA MarkedLife ==
  ASSUME IInv, NEW o \in Obligations, UnknownResult(o), obl' = MarkedUnknown(o),
         attempts' = attempts
  PROVE  \A p \in Obligations : LifeStep(p)
<1>1. obl \in [Obligations -> Rows] /\ obl[o] \in Rows
  BY DEF IInv, TypeOK
<1>2. obl'[o] = [obl[o] EXCEPT !.status = "needs-reconciliation"]
  BY <1>1 DEF MarkedUnknown
<1>3. obl'[o].status = "needs-reconciliation" /\ obl'[o].count = obl[o].count
  BY <1>1, <1>2 DEF Rows
<1>4. \A p \in Obligations : p # o => obl'[p] = obl[p]
  BY <1>1 DEF MarkedUnknown
<1>5. obl[o].status = "attempting" /\ Unresolved(o) # {}
  BY DEF UnknownResult
<1>6. QED BY <1>3, <1>4, <1>5, StatusLife

LEMMA ReleasedLife ==
  ASSUME IInv, NEW o \in Obligations, obl[o].owner = HostOwner, obl' = Released(o),
         attempts' = attempts
  PROVE  \A p \in Obligations : LifeStep(p)
<1>1. RowOK(o) /\ obl \in [Obligations -> Rows] /\ obl[o] \in Rows
  BY DEF IInv, TypeOK
<1>2. obl'[o] = [obl[o] EXCEPT !.status = "pending", !.owner = NoOwner, !.exp = 0]
  BY <1>1 DEF Released
<1>3. obl'[o].status = "pending" /\ obl'[o].count = obl[o].count
  BY <1>1, <1>2 DEF Rows
<1>4. \A p \in Obligations : p # o => obl'[p] = obl[p]
  BY <1>1 DEF Released
<1>5. obl[o].status = "attempting" /\ Unresolved(o) = {}
  BY <1>1, OpenNotHosts DEF RowOK, Owned
<1>6. QED BY <1>3, <1>4, <1>5, StatusLife

LEMMA PersistLife ==
  ASSUME IInv, NEW o \in Obligations, Persist(o)
  PROVE  \A p \in Obligations : LifeStep(p)
<1>1. RowOK(o) /\ obl \in [Obligations -> Rows] /\ obl[o] \in Rows /\ obl[o].status = "none"
      /\ attempts' = attempts
  BY DEF IInv, TypeOK, Persist
<1>2. PICK y : obl' = [obl EXCEPT ![o] = [@ EXCEPT !.status = "pending", !.policy = y]]
  BY DEF Persist
<1>3. obl'[o] = [obl[o] EXCEPT !.status = "pending", !.policy = y]
  BY <1>1, <1>2
<1>4. obl'[o].status = "pending" /\ obl'[o].count = obl[o].count
  BY <1>1, <1>3 DEF Rows
<1>5. \A p \in Obligations : p # o => obl'[p] = obl[p]
  BY <1>1, <1>2
<1>6. Unresolved(o) = {}
  BY <1>1 DEF RowOK, Fenced, Accepts
<1>7. QED BY <1>1, <1>4, <1>5, <1>6, StatusLife

LEMMA AcknowledgeLife ==
  ASSUME IInv, NEW o \in Obligations, NEW k \in Ordinals, Acknowledge(o, k)
  PROVE  \A p \in Obligations : LifeStep(p)
<1>1. /\ RowOK(o) /\ obl \in [Obligations -> Rows] /\ obl[o] \in Rows /\ attempts' = attempts
      /\ obl[o].status = "delivered-unacknowledged"
  BY DEF IInv, TypeOK, Acknowledge
<1>2. obl'[o] = [obl[o] EXCEPT !.status = "acknowledged", !.owner = NoOwner,
                               !.exp = 0, !.next = 0, !.acked = TRUE]
  BY <1>1 DEF Acknowledge
<1>3. obl'[o].status = "acknowledged" /\ obl'[o].count = obl[o].count
  BY <1>1, <1>2 DEF Rows
<1>4. \A p \in Obligations : p # o => obl'[p] = obl[p]
  BY <1>1 DEF Acknowledge
<1>5. Unresolved(o) = {}
  BY <1>1 DEF RowOK, Fenced, Accepts
<1>6. QED BY <1>1, <1>3, <1>4, <1>5, StatusLife

LEMMA BeginLife ==
  ASSUME IInv, NEW s \in Senders, Begin(s)
  PROVE  \A p \in Obligations : LifeStep(p)
<1>1. PICK o, k : o = sender[s].o /\ k = obl[o].count + 1
  OBVIOUS
<1>2. /\ TypeOK /\ SenderOK(s) /\ sender[s].pc = "claimed" /\ o \in Obligations /\ RowOK(o)
      /\ obl[o].status = "attempting" /\ obl[o].owner = s /\ obl[o].gen = sender[s].gen
      /\ obl[o].count < MaxAttempts /\ sender[s].gen # 0
  BY <1>1 DEF Begin, IInv, SenderOK, CurrentClaim
<1>3. /\ obl \in [Obligations -> Rows] /\ obl[o] \in Rows
      /\ attempts \in [Obligations -> [Ordinals -> AttemptRows]]
  BY <1>2 DEF TypeOK
<1>4. PICK new : /\ new = [owner |-> s, gen |-> sender[s].gen, prepared |-> now,
                           result |-> "none", next |-> 0]
                 /\ attempts' = [attempts EXCEPT ![o][k] = new]
                 /\ obl' = [obl EXCEPT ![o].count = k]
  BY <1>1 DEF Begin
<1>5. k \in Ordinals
  <2>1. obl[o].count \in 0 .. MaxAttempts
    BY <1>3 DEF Rows
  <2>2. QED BY <1>1, <1>2, <2>1, OutboxConstants DEF Ordinals
<1>6. obl'[o].status = "attempting" /\ obl'[o].count = k
  BY <1>2, <1>3, <1>4 DEF Rows
<1>7. attempts'[o][k] = new /\ \A p \in Obligations : p # o => attempts'[p] = attempts[p]
  BY <1>2, <1>3, <1>4, <1>5
<1>8. \A p \in Obligations : p # o => obl'[p] = obl[p]
  BY <1>3, <1>4
<1>9. Unresolved(o) = {}
  <2> SUFFICES ASSUME NEW j \in Unresolved(o) PROVE FALSE
    OBVIOUS
  <2>1. /\ j \in Ordinals
        /\ attempts[o][j].owner = s /\ attempts[o][j].gen = sender[s].gen
    BY <1>2 DEF Unresolved, RowOK, Fenced, Accepts
  <2>2. QED BY <1>1, <1>2, <2>1 DEF SenderOK
<1>10. k \in Unresolved(o)'
  BY <1>2, <1>4, <1>5, <1>7 DEF Unresolved, Prepared
<1>11. LifeStep(o)
  <2>1. LifeOf(o) = "open"
    BY <1>2, <1>9 DEF LifeOf, TerminalStatus
  <2>2. LifeOf(o)' = "trying"
    BY <1>6, <1>10 DEF LifeOf
  <2>3. QED BY <1>1, <1>2, <1>6, <2>1, <2>2 DEF LifeStep
<1>12. QED BY <1>7, <1>8, <1>11, LifeFrame

LEMMA RecordLife ==
  ASSUME IInv, NEW o \in Obligations, NEW k \in Ordinals, NEW r \in Outcomes, NEW d,
         RecordResult(o, k, r, d)
  PROVE  \A p \in Obligations : LifeStep(p)
<1>1. PICK st, due, own, exp :
         /\ st = ResultState(o, k, r)
         /\ attempts' = [attempts EXCEPT ![o][k] = [@ EXCEPT !.result = r, !.next = due]]
         /\ obl' = [obl EXCEPT ![o] = [@ EXCEPT !.status = st, !.next = due,
                                                !.owner = own, !.exp = exp]]
  BY DEF RecordResult
<1>2. /\ RowOK(o) /\ Accepts(o, k) /\ r \in ResultStatus
      /\ obl \in [Obligations -> Rows] /\ obl[o] \in Rows
      /\ attempts \in [Obligations -> [Ordinals -> AttemptRows]]
      /\ attempts[o][k] \in AttemptRows
  BY OutboxConstants DEF IInv, TypeOK, RecordResult
<1>3. /\ obl'[o] = [obl[o] EXCEPT !.status = st, !.next = due, !.owner = own, !.exp = exp]
      /\ attempts'[o][k] = [attempts[o][k] EXCEPT !.result = r, !.next = due]
  BY <1>1, <1>2
<1>4. /\ \A p \in Obligations : p # o => obl'[p] = obl[p] /\ attempts'[p] = attempts[p]
      /\ \A j \in Ordinals : j # k => attempts'[o][j] = attempts[o][j]
  BY <1>1, <1>2
<1>5. obl'[o].status = st /\ obl'[o].count = obl[o].count /\ attempts'[o][k].result = r
  BY <1>2, <1>3 DEF Rows, AttemptRows
<1>6. k \in Unresolved(o) /\ obl[o].count = k
  BY <1>2 DEF Accepts, Unresolved
<1>7. Unresolved(o)' = {}
  <2>1. \A j \in Unresolved(o) : j = k
    BY <1>2, <1>6 DEF RowOK, Fenced, Accepts
  <2>2. r # "none"
    BY <1>2 DEF ResultStatus
  <2>3. QED BY <2>1, <2>2, <1>4, <1>5 DEF Unresolved, Prepared
<1>8. LifeOf(o) = "trying"
  BY <1>2, <1>6 DEF LifeOf, Accepts
<1>9. LifeStep(o)
  <2>1. CASE st = "retryable-failure"
    <3>1. r = "retryable-failure" /\ ~Exhausted(k, r)
      BY <2>1, <1>1 DEF ResultState
    <3>2. k < MaxAttempts
      BY <3>1, OutboxConstants DEF Exhausted, Ordinals
    <3>3. LifeOf(o)' = "open"
      BY <2>1, <1>5, <1>7 DEF LifeOf, TerminalStatus
    <3>4. QED BY <3>2, <3>3, <1>5, <1>6, <1>8 DEF LifeStep
  <2>2. CASE st # "retryable-failure"
    <3>1. st \in {"delivered-unacknowledged"} \cup TerminalStatus
      BY <2>2, <1>1, <1>2 DEF ResultState, ResultStatus, TerminalStatus
    <3>2. LifeOf(o)' \in {"done", "failed"}
      BY <3>1, <1>5, <1>7 DEF LifeOf, TerminalStatus
    <3>3. QED BY <3>2, <1>5, <1>8 DEF LifeStep
  <2>3. QED BY <2>1, <2>2
<1>10. QED BY <1>4, <1>9, LifeFrame

LEMMA HostLife ==
  ASSUME IInv, NEW h \in Hosts, HostStep(h)
  PROVE  \A p \in Obligations : LifeStep(p)
<1>1. PICK v : v = host[h]
  OBVIOUS
<1>2. v \in HostStates /\ HostOK(h)
  BY <1>1 DEF IInv, TypeOK
<1>3. CASE \/ ReplayStart(h) \/ ReplayList(h) \/ ReplayDone(h) \/ ReplayShow(h) \/ HostDies(h)
  BY <1>3, LifeFrame DEF ReplayStart, ReplayList, ReplayDone, ReplayShow, HostDies
<1>4. CASE ReplayClaim(h)
  <2>1. PICK o : o = FirstOf(v.todo)
    OBVIOUS
  <2>2. o \in Obligations
    BY <1>1, <1>2, <1>4, <2>1, FirstOfOK DEF ReplayClaim, HostStates
  <2>3. attempts' = attempts
    BY <1>4 DEF ReplayClaim
  <2>4. CASE Claimable(o) /\ obl' = Claimed(o, HostOwner, v.start + HostLease)
    BY <2>2, <2>3, <2>4, ClaimedLife
  <2>5. CASE obl' = IF UnknownResult(o) THEN MarkedUnknown(o) ELSE obl
    <3>1. CASE UnknownResult(o)
      BY <2>2, <2>3, <2>5, <3>1, MarkedLife
    <3>2. CASE ~UnknownResult(o)
      BY <2>3, <2>5, <3>2, LifeFrame
    <3>3. QED BY <3>1, <3>2
  <2>6. QED BY <1>1, <1>4, <2>1, <2>4, <2>5 DEF ReplayClaim
<1>5. CASE ReplayShowFails(h) \/ ReplayAdvance(h)
  <2>1. v.o \in Obligations /\ attempts' = attempts
    BY <1>1, <1>2, <1>5 DEF HostOK, ReplayShowFails, ReplayAdvance
  <2>2. CASE CurrentClaim(v.o, HostOwner, v.gen)
    <3>1. obl[v.o].owner = HostOwner /\ obl' = Released(v.o)
      BY <1>1, <1>5, <2>2 DEF CurrentClaim, ReplayShowFails, ReplayAdvance
    <3>2. QED BY <2>1, <3>1, ReleasedLife
  <2>3. CASE ~CurrentClaim(v.o, HostOwner, v.gen)
    <3>1. obl' = obl
      BY <1>1, <1>5, <2>3 DEF ReplayShowFails, ReplayAdvance
    <3>2. QED BY <2>1, <3>1, LifeFrame
  <2>4. QED BY <2>2, <2>3
<1>6. QED BY <1>3, <1>4, <1>5 DEF HostStep

LEMMA SenderLife ==
  ASSUME IInv, NEW s \in Senders, SenderStep(s)
  PROVE  \A p \in Obligations : LifeStep(p)
<1>1. ASSUME NEW o \in Obligations, Claim(s, o) PROVE \A p \in Obligations : LifeStep(p)
  <2>1. PICK d \in Leases : obl' = Claimed(o, s, now + d)
    BY <1>1 DEF Claim
  <2>2. QED BY <1>1, <2>1, ClaimedLife DEF Claim
<1>2. ASSUME NEW o \in Obligations, ClaimUnknown(s, o) PROVE \A p \in Obligations : LifeStep(p)
  BY <1>2, MarkedLife DEF ClaimUnknown
<1>3. CASE Begin(s)
  BY <1>3, BeginLife
<1>4. CASE Report(s)
  <2>1. PICK o, k, r, d : /\ o = sender[s].o /\ k = sender[s].k
                          /\ r \in Outcomes /\ RecordResult(o, k, r, d)
    BY <1>4 DEF Report
  <2>2. o \in Obligations /\ k \in Ordinals
    BY <1>4, <2>1 DEF Report, IInv, SenderOK, Unresolved
  <2>3. QED BY <2>1, <2>2, RecordLife
<1>5. CASE BeginRefused(s) \/ Send(s) \/ SenderDies(s)
  BY <1>5, LifeFrame DEF BeginRefused, Send, SenderDies
<1>6. QED BY <1>1, <1>2, <1>3, <1>4, <1>5 DEF SenderStep

LEMMA NextLife == ASSUME IInv, Next PROVE \A p \in Obligations : LifeStep(p)
<1>1. CASE \E o \in Obligations : Persist(o)
  BY <1>1, PersistLife
<1>2. ASSUME NEW o \in Obligations, NEW k \in Ordinals, Reconcile(o, k)
      PROVE  \A p \in Obligations : LifeStep(p)
  <2>1. PICK r \in Outcomes, d \in Delays \cup {retryDelay(k)} : RecordResult(o, k, r, d)
    BY <1>2 DEF Reconcile
  <2>2. QED BY <2>1, RecordLife
<1>3. ASSUME NEW o \in Obligations, NEW k \in Ordinals, Acknowledge(o, k)
      PROVE  \A p \in Obligations : LifeStep(p)
  BY <1>3, AcknowledgeLife
<1>4. CASE \E s \in Senders : SenderStep(s)
  BY <1>4, SenderLife
<1>5. CASE \E h \in Hosts : HostStep(h)
  BY <1>5, HostLife
<1>6. CASE Tick
  BY <1>6, LifeFrame DEF Tick
<1>7. QED BY <1>1, <1>2, <1>3, <1>4, <1>5, <1>6 DEF Next

\* The outbox, with its claims, leases, crashes and replays, implements the life
\* of a job: one attempt at a time, at most max_attempts of them, and an end that
\* stays.
THEOREM OutboxImplementsLife == Spec => ImplementsLife
<1>1. Init => Life!LifeInit
  <2> SUFFICES ASSUME Init PROVE Life!LifeInit
    OBVIOUS
  <2>1. \A o \in Obligations : LifeOf(o) = "absent" /\ obl[o].count = 0
    BY DEF Init, NoRow, LifeOf
  <2>2. QED BY <2>1 DEF Life!LifeInit
<1>2. IInv /\ IInv' /\ [Next]_vars => [Life!LifeNext]_(Life!lifeVars)
  <2> SUFFICES ASSUME IInv, IInv', [Next]_vars
               PROVE  Life!LifeNext \/ UNCHANGED Life!lifeVars
    OBVIOUS
  <2>1. CASE Next
    BY <2>1, NextLife, LifeStepsAreLife
  <2>2. CASE UNCHANGED vars
    <3>1. obl' = obl /\ attempts' = attempts
      BY <2>2 DEF vars
    <3>2. QED BY <3>1, LifeFrame, LifeStepsAreLife
  <2>3. QED BY <2>1, <2>2
<1>3. QED BY <1>1, <1>2, OutboxInductive, PTL DEF Spec, ImplementsLife, Life!LifeSpec
=============================================================================
