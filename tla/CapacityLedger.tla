-------------------------- MODULE CapacityLedger --------------------------
(***************************************************************************)
(* Capacity accounting: the durable ledger of internal/capacityledger, one *)
(* entry per attempt, over the in-memory soft reservations of              *)
(* internal/quotamode that hold a fraction of a provider's quota window    *)
(* until they are released, reconciled or run out of their TTL.            *)
(*                                                                         *)
(* One process has the ledger open.  A mutation changes memory and then    *)
(* rewrites the whole file; when the write fails the call returns the      *)
(* error and memory keeps the change.  Fractions are whole units, so a sum *)
(* of fractions is the number of units it is made of (HeldUnits); the      *)
(* notes appended to a record, and calls refused without a change, are     *)
(* left out.  Records from before execution identities are not in the      *)
(* file.                                                                   *)
(***************************************************************************)
EXTENDS Integers, FiniteSets

CONSTANTS
    Attempts,    \* attempt identities: project, run and attempt id
    Routes,      \* full identities of a request: digests, provider, account, install, ...
    NoRoute,     \* route of an entry that was refused without a window
    Windows,     \* quota windows
    WindowOf,    \* the window a route draws on
    Demands,     \* demanded fractions
    Remaining,   \* remaining fractions a capacity snapshot reports
    Headroom,    \* CompletionHeadroom of the policy
    SoftTTL,     \* lifetime of a soft reservation
    Actuals,     \* observed usages
    NoActual,    \* usage is unknown
    SaveFails,   \* whether the write of the file can fail
    MaxTime,     \* bound on the clock
    MaxSeq       \* bound on the id counter

ASSUME CapacityConstants ==
    /\ NoRoute \notin Routes
    /\ NoActual \notin Actuals
    /\ WindowOf \in [Routes -> Windows]
    /\ Demands \subseteq Nat \ {0}
    /\ Remaining \subseteq Nat
    /\ Headroom \in Nat
    /\ SoftTTL \in Nat \ {0}
    /\ SaveFails \in BOOLEAN
    /\ MaxTime \in Nat
    /\ MaxSeq \in Nat

VARIABLES
    mem,      \* the open ledger: entries, soft reservations, id counter
    up,       \* a process has the ledger open
    disk,     \* the entries in capacity-ledger.json
    now       \* the clock; starts at 1 because 0 is the zero time

vars == <<mem, up, disk, now>>

----------------------------------------------------------------------------
(* Records *)

Ids == 1 .. MaxSeq

EntryStates == {"none", "reserved", "refused", "released", "reconciled"}

Entries ==
    [state : EntryStates, id : 0 .. MaxSeq, route : Routes \cup {NoRoute}, hold : Nat,
     expires : Nat, actual : Actuals \cup {NoActual}, after : {"none", "derived", "observed"}]

NoEntry ==
    [state |-> "none", id |-> 0, route |-> NoRoute, hold |-> 0,
     expires |-> 0, actual |-> NoActual, after |-> "none"]

\* The states terminal() lists, and active.
SoftStates == {"none", "active", "refused", "released", "reconciled", "expired"}

Reservations == [state : SoftStates, route : Routes \cup {NoRoute}, hold : Nat, expires : Nat]

NoReservation == [state |-> "none", route |-> NoRoute, hold |-> 0, expires |-> 0]

Ledgers == [entries : [Attempts -> Entries], soft : [Ids -> Reservations], seq : 0 .. MaxSeq]

NewLedger ==
    [entries |-> [a \in Attempts |-> NoEntry], soft |-> [i \in Ids |-> NoReservation], seq |-> 0]

----------------------------------------------------------------------------
(* quotamode.Store *)

\* expireLocked: not now.Before(ExpiresAt).
ExpireSoft(soft) ==
    [i \in Ids |-> IF soft[i].state = "active" /\ now >= soft[i].expires
                   THEN [soft[i] EXCEPT !.state = "expired"] ELSE soft[i]]

\* The units that the members of S hold, by the hold each has in holds.
HeldUnits(holds, S) == UNION {{i} \X (1 .. holds[i].hold) : i \in S}

\* Mutant: only reservations of the very same route count.
ActiveOfRoute(soft, r) ==
    Cardinality(HeldUnits(soft, {i \in Ids : soft[i].state = "active" /\ soft[i].route = r}))

\* The active reservations on the window of route r.
ActiveOn(soft, r) ==
    {i \in Ids : soft[i].state = "active" /\ WindowOf[soft[i].route] = WindowOf[r]}

\* activeFractionLocked: what is held in the window of route r.
ActiveFraction(soft, r) == Cardinality(HeldUnits(soft, ActiveOn(soft, r)))

\* headroomAvailable accepts: demand fits beside the active holds and the headroom.
HeadroomOK(soft, r, remaining, demand) ==
    /\ remaining > 0
    /\ demand <= remaining - ActiveFraction(soft, r) - Headroom

\* Mutant: the hold of a released attempt stays active.
SoftKept(soft, id, state) == soft

\* Release and Reconcile of the store; an id it does not know changes nothing,
\* Release leaves a terminal state alone, Reconcile any but its own.
SoftEnd(soft, id, state) ==
    [i \in Ids |->
        IF /\ i = id
           /\ soft[i].state = "active" \/ (state = "reconciled" /\ soft[i].state # "none")
        THEN [soft[i] EXCEPT !.state = state] ELSE soft[i]]

\* The attribution of a reconciled reservation takes a number of the id counter.
Attributes(soft, id) ==
    IF id \in Ids /\ soft[id].state \notin {"none", "reconciled"} THEN 1 ELSE 0

----------------------------------------------------------------------------
(* Load and save *)

\* What load rejects: a repeated reservation id, and an active reservation
\* without its identity or expiry.
LoadOK(entries) ==
    /\ \A a, b \in Attempts : entries[a].id # 0 /\ entries[a].id = entries[b].id => a = b
    /\ \A a \in Attempts : entries[a].state = "reserved" =>
          /\ entries[a].route # NoRoute /\ entries[a].id # 0
          /\ entries[a].hold > 0 /\ entries[a].expires # 0

\* Mutant: the entry takes the state of the soft reservation.
ExpireOnLoad(entries) ==
    [a \in Attempts |->
        IF entries[a].state = "reserved" /\ entries[a].expires <= now
        THEN [entries[a] EXCEPT !.state = "expired"] ELSE entries[a]]

\* Reserved entries past their expiry are released on load.
ReleaseExpired(entries) ==
    [a \in Attempts |->
        IF entries[a].state = "reserved" /\ entries[a].expires <= now
        THEN [entries[a] EXCEPT !.state = "released"] ELSE entries[a]]

\* Mutant: restored holds start a new TTL instead of their original expiry.
RestoreWithNewTTL(entries) ==
    [i \in Ids |->
        IF \E a \in Attempts : entries[a].state = "reserved" /\ entries[a].id = i
        THEN LET e == entries[CHOOSE a \in Attempts :
                                 entries[a].state = "reserved" /\ entries[a].id = i]
             IN  [state |-> "active", route |-> e.route, hold |-> e.hold, expires |-> now + SoftTTL]
        ELSE NoReservation]

\* RestoreActive of every entry that is still reserved.
RestoreActive(entries) ==
    [i \in Ids |->
        IF \E a \in Attempts : entries[a].state = "reserved" /\ entries[a].id = i
        THEN LET e == entries[CHOOSE a \in Attempts :
                                 entries[a].state = "reserved" /\ entries[a].id = i]
             IN  [state |-> "active", route |-> e.route, hold |-> e.hold, expires |-> e.expires]
        ELSE NoReservation]

\* Mutant: the id counter starts from the active reservations only.
SeedActive(entries) ==
    LET used == {0} \cup {entries[a].id : a \in {b \in Attempts : entries[b].state = "reserved"}}
    IN  CHOOSE n \in used : \A m \in used : m <= n

\* SeedSeq: the high-water id of all entries.
SeedSeq(entries) ==
    LET used == {0} \cup {entries[a].id : a \in Attempts}
    IN  CHOOSE n \in used : \A m \in used : m <= n

(***************************************************************************)
(* saveLocked at the end of a mutation: the file is replaced and the call  *)
(* answers; or the write fails, the call returns the error and memory      *)
(* keeps the change; or the process dies after the rename.                 *)
(***************************************************************************)
Save(m) ==
    \/ /\ mem' = m /\ disk' = m.entries
       /\ UNCHANGED up
    \/ /\ SaveFails
       /\ mem' = m
       /\ UNCHANGED <<disk, up>>
    \/ /\ mem' = NewLedger /\ up' = FALSE
       /\ disk' = m.entries

----------------------------------------------------------------------------
(* Reserve *)

Refused(id, r) == [NoEntry EXCEPT !.state = "refused", !.id = id, !.route = r]

Reserved(id, r, demand) ==
    [NoEntry EXCEPT !.state = "reserved", !.id = id, !.route = r, !.hold = demand,
                    !.expires = now + SoftTTL]

Hold(e) == [state |-> "active", route |-> e.route, hold |-> e.hold, expires |-> e.expires]

RefusedHold(r, demand) == [state |-> "refused", route |-> r, hold |-> demand, expires |-> now]

\* An attempt that has an entry is answered from it, or with a conflict, and
\* nothing changes.  pickWindow finds no fresh window for the route:
ReserveNoWindow(a) ==
    /\ mem.entries[a].state = "none"
    /\ Save([mem EXCEPT !.entries = [@ EXCEPT ![a] = Refused(0, NoRoute)]])

\* The store expires stale holds, takes an id and holds or refuses the demand.
ReserveNew(a, r, remaining, demand) ==
    LET soft == ExpireSoft(mem.soft)
        id == mem.seq + 1
        e == IF HeadroomOK(soft, r, remaining, demand) THEN Reserved(id, r, demand) ELSE Refused(id, r)
        hold == IF e.state = "reserved" THEN Hold(e) ELSE RefusedHold(r, demand)
        m == [entries |-> [mem.entries EXCEPT ![a] = e],
              soft |-> [soft EXCEPT ![id] = hold],
              seq |-> id]
    IN  /\ mem.entries[a].state = "none"
        /\ mem.seq < MaxSeq
        /\ Save(m)

Reserve(a, r, remaining, demand) ==
    /\ up
    /\ ReserveNoWindow(a) \/ ReserveNew(a, r, remaining, demand)
    /\ UNCHANGED now

----------------------------------------------------------------------------
(* Reconcile, Release, ObserveAfterBound *)

\* Mutant: a second reconcile replaces the first.
ReconcilesAgain(e) == e.state # "none"

\* A reconciled entry is answered as it is, or with a conflict.
Reconcilable(e) == e.state \notin {"none", "reconciled"}

ReconciledEntry(e, actual) ==
    [e EXCEPT !.state = "reconciled", !.actual = actual,
              !.after = IF @ = "observed" THEN @ ELSE "derived"]

Reconcile(a, actual) ==
    LET e == mem.entries[a]
        m == [entries |-> [mem.entries EXCEPT ![a] = ReconciledEntry(e, actual)],
              soft |-> SoftEnd(mem.soft, e.id, "reconciled"),
              seq |-> mem.seq + Attributes(mem.soft, e.id)]
    IN  /\ up
        /\ Reconcilable(e)
        /\ mem.seq < MaxSeq
        /\ Save(m)
        /\ UNCHANGED now

ReleasedEntry(e) == [e EXCEPT !.state = "released", !.actual = NoActual]

Release(a) ==
    LET e == mem.entries[a]
        m == [entries |-> [mem.entries EXCEPT ![a] = ReleasedEntry(e)],
              soft |-> SoftEnd(mem.soft, e.id, "released"),
              seq |-> mem.seq]
    IN  /\ up
        /\ e.state \in {"reserved", "refused"}
        /\ Save(m)
        /\ UNCHANGED now

\* The observation must name the window of the entry.
ObserveAfterBound(a, w) ==
    LET e == mem.entries[a] IN
    /\ up
    /\ e.state # "none" /\ e.route # NoRoute /\ WindowOf[e.route] = w
    /\ Save([mem EXCEPT !.entries = [@ EXCEPT ![a] = [e EXCEPT !.after = "observed"]]])
    /\ UNCHANGED now

----------------------------------------------------------------------------
(* The process *)

\* Open: a file load rejects stays closed; releases found on load are saved.
Open ==
    LET entries == ReleaseExpired(disk) IN
    /\ ~up
    /\ LoadOK(disk)
    /\ mem' = [entries |-> entries, soft |-> RestoreActive(entries), seq |-> SeedSeq(entries)]
    /\ up' = TRUE
    /\ disk' = entries
    /\ UNCHANGED now

Crash ==
    /\ up
    /\ mem' = NewLedger
    /\ up' = FALSE
    /\ UNCHANGED <<disk, now>>

Tick ==
    /\ now < MaxTime
    /\ now' = now + 1
    /\ UNCHANGED <<mem, up, disk>>

Init ==
    /\ mem = NewLedger
    /\ up = FALSE
    /\ disk = NewLedger.entries
    /\ now = 1

Next ==
    \/ Open \/ Crash \/ Tick
    \/ \E a \in Attempts :
          \/ \E r \in Routes, remaining \in Remaining, demand \in Demands :
                Reserve(a, r, remaining, demand)
          \/ \E actual \in Actuals : Reconcile(a, actual)
          \/ Release(a)
          \/ \E w \in Windows : ObserveAfterBound(a, w)

Spec == Init /\ [][Next]_vars

----------------------------------------------------------------------------
(* Properties *)

\* Entries, soft reservations and counters have the shape of the Go records.
TypeOK ==
    /\ mem \in Ledgers
    /\ up \in BOOLEAN
    /\ disk \in [Attempts -> Entries]
    /\ now \in Nat

\* The entries with an unexpired hold on window w.
Holding(entries, w) ==
    {a \in Attempts : /\ entries[a].state = "reserved"
                      /\ WindowOf[entries[a].route] = w /\ now < entries[a].expires}

\* What they hold fits what some capacity snapshot reports, less the headroom.
WithinCapacity(entries) ==
    \A w \in Windows : Holding(entries, w) # {} =>
       \E remaining \in Remaining :
          Cardinality(HeldUnits(entries, Holding(entries, w))) <= remaining - Headroom

(***************************************************************************)
(* The file never promises the same capacity twice: what its reserved      *)
(* entries hold of a window fits the capacity, whatever failed to be       *)
(* saved, expired, was refused or was restored before.                     *)
(***************************************************************************)
FileWithinCapacity == WithinCapacity(disk)

(***************************************************************************)
(* The two views of a reservation agree: a soft hold is active only for an *)
(* entry that is reserved with the same route, fraction and expiry, so no  *)
(* finished attempt keeps pressure on a window; and a reserved entry has   *)
(* its hold until its own expiry, after a restart as before it.            *)
(***************************************************************************)
PressureMatches(m) ==
    /\ \A i \in Ids : m.soft[i].state = "active" =>
          \E a \in Attempts : /\ m.entries[a].state = "reserved" /\ m.entries[a].id = i
                              /\ m.soft[i] = Hold(m.entries[a])
    /\ \A a \in Attempts : m.entries[a].state = "reserved" =>
          \/ m.soft[m.entries[a].id].state = "active"
          \/ m.soft[m.entries[a].id].state = "expired" /\ m.entries[a].expires <= now

PressureBacked == PressureMatches(mem)

(***************************************************************************)
(* The ledger never writes a file its own load refuses: no reservation id  *)
(* is used twice, whatever was lost, refused or reconciled before a        *)
(* restart.                                                                *)
(***************************************************************************)
Reopens == LoadOK(disk)

(***************************************************************************)
(* What the file says of an attempt is never taken back: a finished or     *)
(* refused attempt is never reserved again, reconciled usage never         *)
(* changes, and an observed remaining fraction is never replaced by the    *)
(* derived one.                                                            *)
(***************************************************************************)
Kept(d, e) ==
    /\ d.state \in {"refused", "released", "reconciled"} =>
          e.state \in {"released", "reconciled"} \cup {d.state}
    /\ d.state = "reconciled" => e.state = "reconciled" /\ e.actual = d.actual
    /\ d.after = "observed" => e.after = "observed"
    /\ d.state # "none" => e.state # "none" /\ e.id = d.id

OutcomeKept == [][\A a \in Attempts : Kept(disk[a], disk'[a])]_vars

(***************************************************************************)
(* The strengthening behind the invariants above: entries the file would   *)
(* accept, ids below the counter and holds that match, in memory; and in   *)
(* the file nothing that memory has taken back.                            *)
(***************************************************************************)
IdsUsed(m) == \A a \in Attempts : m.entries[a].id <= m.seq

BlankEntries(entries) ==
    \A a \in Attempts : entries[a].state = "none" => entries[a] = NoEntry

LedgerOK(m) ==
    /\ LoadOK(m.entries)
    /\ IdsUsed(m)
    /\ BlankEntries(m.entries)
    /\ PressureMatches(m)

AllKept(old, new) == \A a \in Attempts : Kept(old[a], new[a])

IInv ==
    /\ TypeOK
    /\ LedgerOK(mem)
    /\ LoadOK(disk) /\ BlankEntries(disk)
    /\ up => AllKept(disk, mem.entries)
=============================================================================
