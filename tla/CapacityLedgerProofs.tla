------------------------ MODULE CapacityLedgerProofs ------------------------
(***************************************************************************)
(* Proofs about CapacityLedger, for every set of attempts, routes, windows *)
(* and demands, with saves that may fail.  LedgerOK is preserved by every  *)
(* change a call makes in memory; SaveKeeps then carries it, and what the  *)
(* file records, through the three ways a save can end.                    *)
(***************************************************************************)
EXTENDS CapacityLedger, FiniteSetTheorems, WellFoundedInduction, TLAPS

(***************************************************************************)
(* A bounded set of numbers that holds 0 has a largest member: SeedSeq's   *)
(* high-water mark exists.                                                 *)
(***************************************************************************)
LEMMA LargestMember ==
  ASSUME NEW n \in Nat, NEW S \in SUBSET (0 .. n), 0 \in S
  PROVE  \E x \in S : \A y \in S : y <= x
<1> DEFINE T == {k \in Nat : n - k \in S}
           R == OpToRel(<, Nat)
<1>1. T \subseteq Nat /\ n \in T
  OBVIOUS
<1>2. IsWellFoundedOn(R, Nat)
  BY NatLessThanWellFounded
<1>3. \A x, y \in Nat : x < y => <<x, y>> \in R
  BY DEF OpToRel
<1>4. PICK k \in T : \A j \in T : ~ (<<j, k>> \in R)
  <2> HIDE DEF T, R
  <2>1. QED BY <1>1, <1>2, WFMin
<1>5. ASSUME NEW j \in T PROVE k <= j
  <2>1. j \in Nat /\ k \in Nat
    OBVIOUS
  <2> HIDE DEF T, R
  <2>2. ~ (j < k)
    BY <2>1, <1>3, <1>4
  <2>3. QED BY <2>1, <2>2
<1>6. n - k \in S
  OBVIOUS
<1>7. ASSUME NEW y \in S PROVE y <= n - k
  <2>1. n - y \in T /\ y \in Int
    OBVIOUS
  <2>2. k <= n - y
    BY <2>1, <1>5
  <2>3. QED BY <2>1, <2>2
<1>8. QED BY <1>6, <1>7

\* SeedSeq is at least the id of every entry, and an id itself or 0.
LEMMA SeedSeqBounds ==
  ASSUME NEW entries \in [Attempts -> Entries]
  PROVE  /\ SeedSeq(entries) \in 0 .. MaxSeq
         /\ \A a \in Attempts : entries[a].id <= SeedSeq(entries)
<1> DEFINE used == {0} \cup {entries[a].id : a \in Attempts}
<1>1. used \in SUBSET (0 .. MaxSeq) /\ 0 \in used
  BY CapacityConstants DEF Entries
<1>2. \E x \in used : \A y \in used : y <= x
  <2> HIDE DEF used
  <2>1. QED BY <1>1, LargestMember, CapacityConstants
<1>3. SeedSeq(entries) = CHOOSE x \in used : \A y \in used : y <= x
  BY DEF SeedSeq
<1>4. SeedSeq(entries) \in used /\ \A y \in used : y <= SeedSeq(entries)
  <2> HIDE DEF used
  <2>1. QED BY <1>2, <1>3
<1>5. \A a \in Attempts : entries[a].id \in used
  OBVIOUS
<1>6. QED
  <2> HIDE DEF used
  <2>1. QED BY <1>1, <1>4, <1>5

\* What is kept stays kept: Kept is reflexive and transitive.
LEMMA KeptReflexive ==
  ASSUME NEW d \in Entries PROVE Kept(d, d)
BY DEF Kept, Entries, EntryStates

LEMMA KeptTransitive ==
  ASSUME NEW d \in Entries, NEW e \in Entries, NEW f \in Entries, Kept(d, e), Kept(e, f)
  PROVE  Kept(d, f)
BY DEF Kept, Entries, EntryStates

(***************************************************************************)
(* The three ways saveLocked ends: a change in memory that is well formed  *)
(* and takes nothing back leads to a state that is well formed, with a     *)
(* file that takes nothing back either.                                    *)
(***************************************************************************)
LEMMA SaveKeeps ==
  ASSUME IInv, up, NEW m \in Ledgers, LedgerOK(m), AllKept(mem.entries, m.entries),
         Save(m), UNCHANGED now
  PROVE  IInv' /\ AllKept(disk, disk')
<1>1. /\ mem \in Ledgers /\ disk \in [Attempts -> Entries] /\ up \in BOOLEAN
      /\ mem.entries \in [Attempts -> Entries] /\ m.entries \in [Attempts -> Entries]
      /\ now \in Nat /\ now' = now
      /\ AllKept(disk, mem.entries)
  BY DEF IInv, TypeOK, Ledgers
<1>2. AllKept(disk, m.entries)
  BY <1>1, KeptTransitive DEF AllKept
<1>3. AllKept(disk, disk) /\ AllKept(m.entries, m.entries)
  BY <1>1, KeptReflexive DEF AllKept
<1>4. LoadOK(m.entries) /\ BlankEntries(m.entries) /\ LoadOK(disk) /\ BlankEntries(disk)
  BY DEF LedgerOK, IInv
<1>5. CASE mem' = m /\ disk' = m.entries /\ UNCHANGED up
  <2>1. TypeOK'
    BY <1>1, <1>5 DEF TypeOK
  <2>2. LedgerOK(mem)'
    BY <1>1, <1>5 DEF LedgerOK, PressureMatches, IdsUsed, Hold
  <2>3. QED BY <2>1, <2>2, <1>2, <1>3, <1>4, <1>5 DEF IInv, LoadOK, BlankEntries, AllKept
<1>6. CASE mem' = m /\ UNCHANGED <<disk, up>>
  <2>1. TypeOK'
    BY <1>1, <1>6 DEF TypeOK
  <2>2. LedgerOK(mem)'
    BY <1>1, <1>6 DEF LedgerOK, PressureMatches, IdsUsed, Hold
  <2>3. QED BY <2>1, <2>2, <1>2, <1>3, <1>4, <1>6 DEF IInv, LoadOK, BlankEntries, AllKept
<1>7. CASE mem' = NewLedger /\ up' = FALSE /\ disk' = m.entries
  <2>1. NewLedger \in Ledgers
    BY CapacityConstants DEF NewLedger, Ledgers, NoEntry, NoReservation, Entries, EntryStates,
                             Reservations, SoftStates, Ids
  <2>2. TypeOK'
    BY <1>1, <1>7, <2>1 DEF TypeOK
  <2>3. LedgerOK(mem)'
    BY <1>7, CapacityConstants
       DEF LedgerOK, LoadOK, BlankEntries, PressureMatches, IdsUsed, NewLedger, NoEntry, NoReservation
  <2>4. QED BY <2>2, <2>3, <1>2, <1>4, <1>7 DEF IInv, LoadOK, BlankEntries
<1>8. QED BY <1>5, <1>6, <1>7 DEF Save

\* The entry of a refused attempt, written out.
LEMMA RefusedShape ==
  ASSUME NEW id, NEW r, NEW e, e = Refused(id, r)
  PROVE  e = [state |-> "refused", id |-> id, route |-> r, hold |-> 0,
              expires |-> 0, actual |-> NoActual, after |-> "none"]
BY DEF Refused, NoEntry

(***************************************************************************)
(* The change each call makes in memory.                                   *)
(***************************************************************************)

\* Outside attempt a nothing changes, and the soft store is left alone.
LEMMA EntryChange ==
  ASSUME IInv, NEW a \in Attempts, NEW e \in Entries,
         e.state = "reserved" => mem.entries[a].state = "reserved" /\ Hold(e) = Hold(mem.entries[a]),
         mem.entries[a].state = "reserved" => e.state = "reserved",
         e.id = mem.entries[a].id, e.state # "none",
         Kept(mem.entries[a], e)
  PROVE  LET m == [mem EXCEPT !.entries = [@ EXCEPT ![a] = e]]
         IN  m \in Ledgers /\ LedgerOK(m) /\ AllKept(mem.entries, m.entries)
<1> DEFINE m == [mem EXCEPT !.entries = [@ EXCEPT ![a] = e]]
<1>1. /\ mem \in Ledgers /\ mem.entries \in [Attempts -> Entries]
      /\ mem.soft \in [Ids -> Reservations] /\ mem.seq \in 0 .. MaxSeq
      /\ LedgerOK(mem)
  BY DEF IInv, TypeOK, Ledgers
<1>2. /\ m = [entries |-> [mem.entries EXCEPT ![a] = e], soft |-> mem.soft, seq |-> mem.seq]
      /\ m \in Ledgers
  BY <1>1 DEF Ledgers
<1>3. /\ m.entries[a] = e /\ m.soft = mem.soft /\ m.seq = mem.seq
      /\ \A b \in Attempts : b # a => m.entries[b] = mem.entries[b]
  BY <1>1, <1>2
<1> HIDE DEF m
<1>4. LoadOK(m.entries)
  BY <1>1, <1>3 DEF LedgerOK, LoadOK, Hold
<1>5. IdsUsed(m) /\ BlankEntries(m.entries)
  BY <1>1, <1>3 DEF LedgerOK, IdsUsed, BlankEntries
<1>6. PressureMatches(m)
  <2>1. ASSUME NEW i \in Ids, m.soft[i].state = "active"
        PROVE  \E b \in Attempts : /\ m.entries[b].state = "reserved" /\ m.entries[b].id = i
                                   /\ m.soft[i] = Hold(m.entries[b])
    BY <1>1, <1>3, <2>1 DEF LedgerOK, PressureMatches
  <2>2. ASSUME NEW b \in Attempts, m.entries[b].state = "reserved"
        PROVE  \/ m.soft[m.entries[b].id].state = "active"
               \/ m.soft[m.entries[b].id].state = "expired" /\ m.entries[b].expires <= now
    BY <1>1, <1>3, <2>2 DEF LedgerOK, PressureMatches, Hold
  <2>3. QED BY <2>1, <2>2 DEF PressureMatches
<1>7. AllKept(mem.entries, m.entries)
  BY <1>1, <1>3, KeptReflexive DEF AllKept
<1>8. QED BY <1>2, <1>4, <1>5, <1>6, <1>7 DEF LedgerOK, m

\* Attempt a ends: its entry is final and its hold is given up.
LEMMA EndChange ==
  ASSUME IInv, NEW a \in Attempts, NEW e \in Entries,
         NEW st \in {"released", "reconciled"}, NEW s \in mem.seq .. MaxSeq,
         e.state \notin {"none", "reserved"}, e.id = mem.entries[a].id,
         Kept(mem.entries[a], e)
  PROVE  LET m == [entries |-> [mem.entries EXCEPT ![a] = e],
                   soft |-> SoftEnd(mem.soft, mem.entries[a].id, st), seq |-> s]
         IN  m \in Ledgers /\ LedgerOK(m) /\ AllKept(mem.entries, m.entries)
<1> DEFINE id == mem.entries[a].id
           soft == SoftEnd(mem.soft, id, st)
           m == [entries |-> [mem.entries EXCEPT ![a] = e], soft |-> soft, seq |-> s]
<1>1. /\ mem.entries \in [Attempts -> Entries] /\ mem.soft \in [Ids -> Reservations]
      /\ mem.seq \in 0 .. MaxSeq /\ MaxSeq \in Nat
      /\ LedgerOK(mem)
  BY CapacityConstants DEF IInv, TypeOK, Ledgers
<1>2. /\ soft \in [Ids -> Reservations]
      /\ \A i \in Ids : i # id => soft[i] = mem.soft[i]
      /\ \A i \in Ids : i = id => soft[i].state # "active"
  BY <1>1 DEF SoftEnd, Reservations, SoftStates
<1> HIDE DEF soft
<1>3. m \in Ledgers
  BY <1>1, <1>2 DEF Ledgers
<1>4. /\ m.entries[a] = e /\ m.soft = soft /\ m.seq = s
      /\ \A b \in Attempts : b # a => m.entries[b] = mem.entries[b]
  BY <1>1
<1> HIDE DEF m
<1>5. LoadOK(m.entries)
  BY <1>1, <1>4 DEF LedgerOK, LoadOK
<1>6. IdsUsed(m) /\ BlankEntries(m.entries)
  BY <1>1, <1>4 DEF LedgerOK, IdsUsed, BlankEntries, Entries
<1>7. PressureMatches(m)
  <2>1. ASSUME NEW i \in Ids, m.soft[i].state = "active"
        PROVE  \E b \in Attempts : /\ m.entries[b].state = "reserved" /\ m.entries[b].id = i
                                   /\ m.soft[i] = Hold(m.entries[b])
    <3>1. i # id /\ mem.soft[i].state = "active" /\ m.soft[i] = mem.soft[i]
      BY <1>2, <1>4, <2>1
    <3>2. PICK b \in Attempts : /\ mem.entries[b].state = "reserved" /\ mem.entries[b].id = i
                                /\ mem.soft[i] = Hold(mem.entries[b])
      BY <1>1, <3>1 DEF LedgerOK, PressureMatches
    <3>3. b # a
      BY <3>1, <3>2
    <3>4. QED BY <1>4, <3>1, <3>2, <3>3
  <2>2. ASSUME NEW b \in Attempts, m.entries[b].state = "reserved"
        PROVE  \/ m.soft[m.entries[b].id].state = "active"
               \/ m.soft[m.entries[b].id].state = "expired" /\ m.entries[b].expires <= now
    <3>1. b # a /\ m.entries[b] = mem.entries[b]
      BY <1>4, <2>2
    <3>2. mem.entries[b].id \in Ids /\ mem.entries[b].id # id
      BY <1>1, <2>2, <3>1 DEF LedgerOK, LoadOK, Entries, Ids
    <3>3. QED BY <1>1, <1>2, <1>4, <2>2, <3>1, <3>2 DEF LedgerOK, PressureMatches
  <2>3. QED BY <2>1, <2>2 DEF PressureMatches
<1>8. AllKept(mem.entries, m.entries)
  BY <1>1, <1>4, KeptReflexive DEF AllKept
<1>9. QED BY <1>3, <1>5, <1>6, <1>7, <1>8 DEF LedgerOK, m, soft

\* A new attempt takes the next id; every hold that has run out expires first.
LEMMA NewChange ==
  ASSUME IInv, NEW a \in Attempts, NEW r \in Routes, NEW demand \in Demands,
         mem.entries[a].state = "none", mem.seq < MaxSeq,
         NEW e, NEW hold,
         \/ e = Reserved(mem.seq + 1, r, demand) /\ hold = Hold(e)
         \/ e = Refused(mem.seq + 1, r) /\ hold = RefusedHold(r, demand)
  PROVE  LET m == [entries |-> [mem.entries EXCEPT ![a] = e],
                   soft |-> [ExpireSoft(mem.soft) EXCEPT ![mem.seq + 1] = hold],
                   seq |-> mem.seq + 1]
         IN  m \in Ledgers /\ LedgerOK(m) /\ AllKept(mem.entries, m.entries)
<1> DEFINE id == mem.seq + 1
           old == ExpireSoft(mem.soft)
           soft == [old EXCEPT ![id] = hold]
           m == [entries |-> [mem.entries EXCEPT ![a] = e], soft |-> soft, seq |-> id]
<1>1. /\ mem.entries \in [Attempts -> Entries] /\ mem.soft \in [Ids -> Reservations]
      /\ mem.seq \in 0 .. MaxSeq /\ MaxSeq \in Nat /\ now \in Nat
      /\ LedgerOK(mem) /\ mem.entries[a] = NoEntry
  BY CapacityConstants DEF IInv, TypeOK, Ledgers, LedgerOK, BlankEntries
<1>2. /\ e \in Entries /\ hold \in Reservations /\ e.id = id /\ id \in Ids
      /\ e.state \in {"reserved", "refused"}
      /\ e.state = "reserved" => e.route # NoRoute /\ e.hold > 0 /\ e.expires # 0
                                 /\ hold = Hold(e) /\ hold.state = "active"
      /\ e.state # "reserved" => hold.state = "refused"
  <2>1. /\ id \in Ids /\ id \in 0 .. MaxSeq /\ demand \in Nat /\ demand > 0
        /\ now + SoftTTL \in Nat /\ now + SoftTTL # 0 /\ r # NoRoute
    BY <1>1, CapacityConstants DEF Ids
  <2> DEFINE till == now + SoftTTL
  <2>2. CASE e = Reserved(id, r, demand) /\ hold = Hold(e)
    <3>1. e = [state |-> "reserved", id |-> id, route |-> r, hold |-> demand,
               expires |-> till, actual |-> NoActual, after |-> "none"]
      BY <2>2 DEF Reserved, NoEntry
    <3>2. hold = [state |-> "active", route |-> r, hold |-> demand, expires |-> till]
      BY <2>2, <3>1 DEF Hold
    <3> HIDE DEF id, till
    <3>3. QED BY <2>1, <2>2, <3>1, <3>2 DEF Entries, EntryStates, Reservations, SoftStates, till
  <2>3. CASE e = Refused(id, r) /\ hold = RefusedHold(r, demand)
    <3>1. e = [state |-> "refused", id |-> id, route |-> r, hold |-> 0,
               expires |-> 0, actual |-> NoActual, after |-> "none"]
      BY <2>3, RefusedShape
    <3> HIDE DEF id
    <3>2. QED BY <1>1, <2>1, <2>3, <3>1 DEF RefusedHold, Entries, EntryStates, Reservations, SoftStates
  <2>4. QED BY <2>2, <2>3
<1>3. /\ old \in [Ids -> Reservations]
      /\ \A i \in Ids : old[i].state = "active" => old[i] = mem.soft[i] /\ mem.soft[i].state = "active"
      /\ \A i \in Ids : mem.soft[i].state = "expired" => old[i].state = "expired"
      /\ \A i \in Ids : mem.soft[i].state = "active" =>
            old[i].state = "active" \/ (old[i].state = "expired" /\ mem.soft[i].expires <= now)
  BY <1>1 DEF ExpireSoft, Reservations, SoftStates
<1> HIDE DEF old
<1>4. m \in Ledgers
  BY <1>1, <1>2, <1>3 DEF Ledgers, Ids
<1>5. /\ m.entries[a] = e /\ m.seq = id /\ m.soft[id] = hold
      /\ \A b \in Attempts : b # a => m.entries[b] = mem.entries[b]
      /\ \A i \in Ids : i # id => m.soft[i] = old[i]
      /\ \A b \in Attempts : mem.entries[b].id # id
  BY <1>1, <1>2, <1>3 DEF LedgerOK, IdsUsed, Entries
<1> HIDE DEF m
<1>6. LoadOK(m.entries)
  BY <1>1, <1>2, <1>5 DEF LedgerOK, LoadOK, Ids
<1>7. IdsUsed(m) /\ BlankEntries(m.entries)
  BY <1>1, <1>2, <1>5 DEF LedgerOK, IdsUsed, BlankEntries, Entries
<1>8. PressureMatches(m)
  <2>1. ASSUME NEW i \in Ids, m.soft[i].state = "active"
        PROVE  \E b \in Attempts : /\ m.entries[b].state = "reserved" /\ m.entries[b].id = i
                                   /\ m.soft[i] = Hold(m.entries[b])
    <3>1. CASE i = id
      BY <1>2, <1>5, <2>1, <3>1
    <3>2. CASE i # id
      <4>1. m.soft[i] = mem.soft[i] /\ mem.soft[i].state = "active"
        BY <1>3, <1>5, <2>1, <3>2
      <4>2. PICK b \in Attempts : /\ mem.entries[b].state = "reserved" /\ mem.entries[b].id = i
                                  /\ mem.soft[i] = Hold(mem.entries[b])
        BY <1>1, <4>1 DEF LedgerOK, PressureMatches
      <4>3. b # a
        BY <4>2
      <4>4. QED BY <1>5, <4>1, <4>2, <4>3
    <3>3. QED BY <3>1, <3>2
  <2>2. ASSUME NEW b \in Attempts, m.entries[b].state = "reserved"
        PROVE  \/ m.soft[m.entries[b].id].state = "active"
               \/ m.soft[m.entries[b].id].state = "expired" /\ m.entries[b].expires <= now
    <3>1. CASE b = a
      BY <1>2, <1>5, <2>2, <3>1
    <3>2. CASE b # a
      <4> DEFINE i == mem.entries[b].id
      <4>1. m.entries[b] = mem.entries[b] /\ i \in Ids /\ i # id /\ m.soft[i] = old[i]
        BY <1>1, <1>5, <2>2, <3>2 DEF LedgerOK, LoadOK, Entries, Ids
      <4>2. CASE mem.soft[i].state = "active"
        <5>1. PICK c \in Attempts : /\ mem.entries[c].state = "reserved" /\ mem.entries[c].id = i
                                    /\ mem.soft[i] = Hold(mem.entries[c])
          BY <1>1, <4>1, <4>2 DEF LedgerOK, PressureMatches
        <5>2. c = b
          BY <1>1, <4>1, <5>1 DEF LedgerOK, LoadOK, Ids
        <5>3. mem.soft[i].expires = mem.entries[b].expires
          BY <5>1, <5>2 DEF Hold
        <5>4. QED BY <1>3, <4>1, <4>2, <5>3
      <4>3. CASE mem.soft[i].state = "expired" /\ mem.entries[b].expires <= now
        BY <1>3, <4>1, <4>3
      <4>4. QED BY <1>1, <2>2, <4>1, <4>2, <4>3 DEF LedgerOK, PressureMatches
    <3>3. QED BY <3>1, <3>2
  <2>3. QED BY <2>1, <2>2 DEF PressureMatches
<1>9. AllKept(mem.entries, m.entries)
  <2>1. Kept(mem.entries[a], e)
    BY <1>1 DEF Kept, NoEntry
  <2>2. QED BY <2>1, <1>1, <1>5, KeptReflexive DEF AllKept
<1>10. QED BY <1>4, <1>6, <1>7, <1>8, <1>9 DEF LedgerOK, m, old

\* The ledger of a process that has just died, or was never started.
LEMMA NewLedgerOK == NewLedger \in Ledgers /\ LedgerOK(NewLedger)
<1>1. NewLedger \in Ledgers
  BY CapacityConstants DEF NewLedger, Ledgers, NoEntry, NoReservation, Entries, EntryStates,
                           Reservations, SoftStates, Ids
<1>2. LedgerOK(NewLedger)
  BY CapacityConstants
     DEF LedgerOK, LoadOK, BlankEntries, PressureMatches, IdsUsed, NewLedger, NoEntry, NoReservation
<1>3. QED BY <1>1, <1>2

(***************************************************************************)
(* One lemma per action: the invariant is preserved, and the file takes    *)
(* nothing back.                                                           *)
(***************************************************************************)
LEMMA ReserveStep ==
  ASSUME IInv, NEW a \in Attempts, NEW r \in Routes, NEW remaining \in Remaining,
         NEW demand \in Demands, Reserve(a, r, remaining, demand)
  PROVE  IInv' /\ AllKept(disk, disk')
<1>1. /\ up /\ now' = now /\ now \in Nat
      /\ mem \in Ledgers /\ mem.entries \in [Attempts -> Entries] /\ mem.seq \in 0 .. MaxSeq
      /\ disk \in [Attempts -> Entries]
  BY DEF Reserve, IInv, TypeOK, Ledgers
<1>2. CASE ReserveNoWindow(a)
  <2> DEFINE e == Refused(0, NoRoute)
             m == [mem EXCEPT !.entries = [@ EXCEPT ![a] = e]]
  <2>1. mem.entries[a] = NoEntry
    BY <1>2 DEF ReserveNoWindow, IInv, LedgerOK, BlankEntries
  <2>2. e \in Entries /\ e.id = 0 /\ e.state = "refused"
    <3>1. e = [state |-> "refused", id |-> 0, route |-> NoRoute, hold |-> 0,
               expires |-> 0, actual |-> NoActual, after |-> "none"]
      BY RefusedShape, Zenon
    <3>2. QED BY <3>1, CapacityConstants DEF Entries, EntryStates
  <2>3. Kept(mem.entries[a], e)
    BY <2>1 DEF Kept, NoEntry
  <2>4. mem.entries[a].state = "none" /\ mem.entries[a].id = 0
    BY <2>1 DEF NoEntry
  <2>5. Save(m)
    BY <1>2 DEF ReserveNoWindow
  <2> HIDE DEF e
  <2>6. m \in Ledgers /\ LedgerOK(m) /\ AllKept(mem.entries, m.entries)
    BY <2>2, <2>3, <2>4, EntryChange
  <2> HIDE DEF m
  <2>7. QED BY <1>1, <2>5, <2>6, SaveKeeps
<1>3. CASE ReserveNew(a, r, remaining, demand)
  <2> DEFINE id == mem.seq + 1
             fits == HeadroomOK(ExpireSoft(mem.soft), r, remaining, demand)
             e == IF fits THEN Reserved(id, r, demand) ELSE Refused(id, r)
             hold == IF e.state = "reserved" THEN Hold(e) ELSE RefusedHold(r, demand)
             m == [entries |-> [mem.entries EXCEPT ![a] = e],
                   soft |-> [ExpireSoft(mem.soft) EXCEPT ![id] = hold], seq |-> id]
  <2>1. mem.entries[a].state = "none" /\ mem.seq < MaxSeq /\ Save(m)
    BY <1>3 DEF ReserveNew
  <2>2. Reserved(id, r, demand).state = "reserved" /\ Refused(id, r).state = "refused"
    BY DEF Reserved, Refused, NoEntry
  <2>3. \/ e = Reserved(id, r, demand) /\ hold = Hold(e)
        \/ e = Refused(id, r) /\ hold = RefusedHold(r, demand)
    <3> HIDE DEF fits
    <3>1. QED BY <2>2
  <2> HIDE DEF e, hold, fits
  <2>4. m \in Ledgers /\ LedgerOK(m) /\ AllKept(mem.entries, m.entries)
    BY <2>1, <2>3, NewChange
  <2> HIDE DEF m
  <2>5. QED BY <1>1, <2>1, <2>4, SaveKeeps
<1>4. QED BY <1>2, <1>3 DEF Reserve

LEMMA ReconcileStep ==
  ASSUME IInv, NEW a \in Attempts, NEW actual \in Actuals, Reconcile(a, actual)
  PROVE  IInv' /\ AllKept(disk, disk')
<1> DEFINE e == ReconciledEntry(mem.entries[a], actual)
           id == mem.entries[a].id
           s == mem.seq + Attributes(mem.soft, id)
           m == [entries |-> [mem.entries EXCEPT ![a] = e],
                 soft |-> SoftEnd(mem.soft, id, "reconciled"), seq |-> s]
<1>1. /\ up /\ now' = now /\ Reconcilable(mem.entries[a]) /\ mem.seq < MaxSeq
      /\ Save(m)
  BY DEF Reconcile
<1>2. mem.entries[a] \in Entries /\ mem.seq \in 0 .. MaxSeq /\ MaxSeq \in Nat
  BY CapacityConstants DEF IInv, TypeOK, Ledgers
<1>3. /\ e \in Entries /\ e.state = "reconciled" /\ e.id = id
      /\ Kept(mem.entries[a], e)
  BY <1>1, <1>2 DEF ReconciledEntry, Reconcilable, Entries, EntryStates, Kept
<1>4. s \in mem.seq .. MaxSeq
  BY <1>1, <1>2 DEF Attributes
<1> HIDE DEF e, s
<1>5. m \in Ledgers /\ LedgerOK(m) /\ AllKept(mem.entries, m.entries)
  BY <1>3, <1>4, EndChange
<1> HIDE DEF m
<1>6. QED BY <1>1, <1>2, <1>5, SaveKeeps

LEMMA ReleaseStep ==
  ASSUME IInv, NEW a \in Attempts, Release(a)
  PROVE  IInv' /\ AllKept(disk, disk')
<1> DEFINE e == ReleasedEntry(mem.entries[a])
           id == mem.entries[a].id
           m == [entries |-> [mem.entries EXCEPT ![a] = e],
                 soft |-> SoftEnd(mem.soft, id, "released"), seq |-> mem.seq]
<1>1. /\ mem \in Ledgers /\ mem.entries[a] \in Entries
      /\ mem.seq \in 0 .. MaxSeq /\ MaxSeq \in Nat
  BY CapacityConstants DEF IInv, TypeOK, Ledgers
<1>2. /\ up /\ now' = now /\ mem.entries[a].state \in {"reserved", "refused"}
      /\ Save(m)
  BY DEF Release
<1>3. /\ e \in Entries /\ e.state = "released" /\ e.id = id
      /\ Kept(mem.entries[a], e)
  BY <1>1, <1>2 DEF ReleasedEntry, Entries, EntryStates, Kept
<1> HIDE DEF e
<1>4. m \in Ledgers /\ LedgerOK(m) /\ AllKept(mem.entries, m.entries)
  BY <1>1, <1>3, EndChange
<1> HIDE DEF m
<1>5. QED BY <1>1, <1>2, <1>4, SaveKeeps

LEMMA ObserveStep ==
  ASSUME IInv, NEW a \in Attempts, NEW w \in Windows, ObserveAfterBound(a, w)
  PROVE  IInv' /\ AllKept(disk, disk')
<1> DEFINE old == mem.entries[a]
           e == [old EXCEPT !.after = "observed"]
           m == [mem EXCEPT !.entries = [@ EXCEPT ![a] = e]]
<1>1. old \in Entries
  BY DEF IInv, TypeOK, Ledgers
<1>2. up /\ now' = now /\ old.state # "none" /\ Save(m)
  BY DEF ObserveAfterBound
<1> HIDE DEF old
<1>3. /\ e \in Entries /\ e.state = old.state /\ e.id = old.id /\ Hold(e) = Hold(old)
      /\ Kept(old, e)
  BY <1>1 DEF Entries, EntryStates, Kept, Hold
<1> HIDE DEF e
<1>4. m \in Ledgers /\ LedgerOK(m) /\ AllKept(mem.entries, m.entries)
  BY <1>2, <1>3, EntryChange DEF old
<1> HIDE DEF m
<1>5. QED BY <1>1, <1>2, <1>4, SaveKeeps

LEMMA OpenStep ==
  ASSUME IInv, Open
  PROVE  IInv' /\ AllKept(disk, disk')
<1> DEFINE entries == ReleaseExpired(disk)
           m == [entries |-> entries, soft |-> RestoreActive(entries), seq |-> SeedSeq(entries)]
<1>1. /\ mem' = m /\ up' = TRUE /\ disk' = entries /\ now' = now
      /\ LoadOK(disk) /\ BlankEntries(disk)
      /\ disk \in [Attempts -> Entries] /\ now \in Nat
  BY DEF Open, IInv, TypeOK
<1>2. /\ entries \in [Attempts -> Entries]
      /\ \A a \in Attempts :
            \/ entries[a] = disk[a]
            \/ disk[a].state = "reserved" /\ entries[a] = [disk[a] EXCEPT !.state = "released"]
  BY <1>1 DEF ReleaseExpired, Entries, EntryStates
<1>3. AllKept(disk, entries)
  BY <1>1, <1>2 DEF AllKept, Kept, Entries, EntryStates
<1>4. LoadOK(entries) /\ BlankEntries(entries)
  BY <1>1, <1>2 DEF LoadOK, BlankEntries, Entries
<1> HIDE DEF entries
<1>5. SeedSeq(entries) \in 0 .. MaxSeq /\ \A a \in Attempts : entries[a].id <= SeedSeq(entries)
  BY <1>2, SeedSeqBounds
<1> DEFINE soft == RestoreActive(entries)
           Holder(i, a) == entries[a].state = "reserved" /\ entries[a].id = i
<1>6. ASSUME NEW i \in Ids, \E a \in Attempts : Holder(i, a)
      PROVE  \E a \in Attempts : Holder(i, a) /\ soft[i] = Hold(entries[a])
  <2> DEFINE a == CHOOSE b \in Attempts : Holder(i, b)
  <2>1. a \in Attempts /\ Holder(i, a)
    BY <1>6
  <2>2. soft[i] = Hold(entries[a])
    BY <1>6 DEF RestoreActive, Hold
  <2>3. QED BY <2>1, <2>2
<1>7. ASSUME NEW i \in Ids, ~ \E a \in Attempts : Holder(i, a)
      PROVE  soft[i] = NoReservation
  BY <1>7 DEF RestoreActive
<1>8. soft = [i \in Ids |-> soft[i]]
  BY DEF RestoreActive
<1> HIDE DEF soft
<1>9. soft \in [Ids -> Reservations]
  <2>1. ASSUME NEW i \in Ids PROVE soft[i] \in Reservations
    <3>1. NoReservation \in Reservations
      BY DEF NoReservation, Reservations, SoftStates
    <3>2. \A a \in Attempts : Hold(entries[a]) \in Reservations
      BY <1>2 DEF Hold, Entries, Reservations, SoftStates
    <3>3. QED BY <3>1, <3>2, <1>6, <1>7
  <2>2. QED BY <1>8, <2>1
<1>10. m \in Ledgers
  BY <1>2, <1>5, <1>9 DEF Ledgers, soft
<1>11. m.entries = entries /\ m.soft = soft /\ m.seq = SeedSeq(entries)
  BY DEF soft
<1> HIDE DEF m
<1>12. PressureMatches(m)
  <2>1. ASSUME NEW i \in Ids, m.soft[i].state = "active"
        PROVE  \E a \in Attempts : /\ m.entries[a].state = "reserved" /\ m.entries[a].id = i
                                   /\ m.soft[i] = Hold(m.entries[a])
    BY <1>6, <1>7, <1>11, <2>1 DEF NoReservation
  <2>2. ASSUME NEW a \in Attempts, m.entries[a].state = "reserved"
        PROVE  m.soft[m.entries[a].id].state = "active"
    <3>1. entries[a].id \in Ids
      BY <1>2, <1>4, <1>11, <2>2 DEF LoadOK, Entries, Ids
    <3>2. PICK b \in Attempts : soft[entries[a].id] = Hold(entries[b])
      BY <1>6, <1>11, <2>2, <3>1
    <3>3. QED BY <1>11, <3>2 DEF Hold
  <2>3. QED BY <2>1, <2>2 DEF PressureMatches
<1>13. LedgerOK(m)
  BY <1>4, <1>5, <1>11, <1>12 DEF LedgerOK, IdsUsed
<1>14. TypeOK'
  BY <1>1, <1>2, <1>10 DEF TypeOK
<1>15. LedgerOK(mem)'
  BY <1>1, <1>13 DEF LedgerOK, LoadOK, IdsUsed, BlankEntries, PressureMatches, Hold
<1>16. AllKept(entries, entries)
  BY <1>2, KeptReflexive DEF AllKept
<1>17. QED BY <1>1, <1>3, <1>4, <1>11, <1>14, <1>15, <1>16 DEF IInv, AllKept, LoadOK, BlankEntries

LEMMA TickStep ==
  ASSUME IInv, Tick
  PROVE  IInv' /\ AllKept(disk, disk')
<1>1. /\ UNCHANGED <<mem, up, disk>> /\ now' = now + 1 /\ now \in Nat
      /\ mem.entries \in [Attempts -> Entries] /\ disk \in [Attempts -> Entries]
  BY DEF Tick, IInv, TypeOK, Ledgers
<1>2. TypeOK'
  BY <1>1 DEF IInv, TypeOK
<1>3. PressureMatches(mem)'
  <2>1. ASSUME NEW a \in Attempts, mem.entries[a].expires <= now
        PROVE  mem.entries[a].expires <= now + 1
    BY <1>1, <2>1 DEF Entries
  <2>2. QED BY <1>1, <2>1 DEF IInv, LedgerOK, PressureMatches, Hold
<1>4. LedgerOK(mem)'
  BY <1>1, <1>3 DEF IInv, LedgerOK, LoadOK, IdsUsed, BlankEntries
<1>5. AllKept(disk, disk)
  BY <1>1, KeptReflexive DEF AllKept
<1>6. QED BY <1>1, <1>2, <1>4, <1>5 DEF IInv, LoadOK, BlankEntries, AllKept

LEMMA CrashStep ==
  ASSUME IInv, Crash
  PROVE  IInv' /\ AllKept(disk, disk')
<1>1. /\ mem' = NewLedger /\ up' = FALSE /\ UNCHANGED <<disk, now>>
      /\ disk \in [Attempts -> Entries]
  BY DEF Crash, IInv, TypeOK
<1>2. TypeOK'
  BY <1>1, NewLedgerOK DEF IInv, TypeOK
<1>3. LedgerOK(mem)'
  BY <1>1, NewLedgerOK DEF LedgerOK, LoadOK, IdsUsed, BlankEntries, PressureMatches, Hold
<1>4. AllKept(disk, disk)
  BY <1>1, KeptReflexive DEF AllKept
<1>5. QED BY <1>1, <1>2, <1>3, <1>4 DEF IInv, LoadOK, BlankEntries, AllKept

LEMMA InitOK == Init => IInv
<1> SUFFICES ASSUME Init PROVE IInv
  OBVIOUS
<1>1. /\ mem = NewLedger /\ up = FALSE /\ disk = NewLedger.entries /\ now = 1
  BY DEF Init
<1>2. NewLedger.entries \in [Attempts -> Entries]
  BY NewLedgerOK DEF Ledgers
<1>3. TypeOK
  BY <1>1, <1>2, NewLedgerOK DEF TypeOK
<1>4. QED BY <1>1, <1>3, NewLedgerOK DEF IInv, LedgerOK

LEMMA NextOK == IInv /\ [Next]_vars => IInv' /\ AllKept(disk, disk')
<1> SUFFICES ASSUME IInv, [Next]_vars PROVE IInv' /\ AllKept(disk, disk')
  OBVIOUS
<1>1. CASE Open
  BY <1>1, OpenStep
<1>2. CASE Crash
  BY <1>2, CrashStep
<1>3. CASE Tick
  BY <1>3, TickStep
<1>4. CASE \E a \in Attempts, r \in Routes, remaining \in Remaining, demand \in Demands :
              Reserve(a, r, remaining, demand)
  BY <1>4, ReserveStep
<1>5. CASE \E a \in Attempts, actual \in Actuals : Reconcile(a, actual)
  BY <1>5, ReconcileStep
<1>6. CASE \E a \in Attempts : Release(a)
  BY <1>6, ReleaseStep
<1>7. CASE \E a \in Attempts, w \in Windows : ObserveAfterBound(a, w)
  BY <1>7, ObserveStep
<1>8. CASE UNCHANGED vars
  <2>1. UNCHANGED <<mem, up, disk, now>> /\ disk \in [Attempts -> Entries]
    BY <1>8 DEF vars, IInv, TypeOK
  <2>2. AllKept(disk, disk)
    BY <2>1, KeptReflexive DEF AllKept
  <2>3. TypeOK'
    BY <2>1 DEF IInv, TypeOK
  <2>4. LedgerOK(mem)'
    BY <2>1 DEF IInv, LedgerOK, LoadOK, IdsUsed, BlankEntries, PressureMatches, Hold
  <2>5. QED BY <2>1, <2>2, <2>3, <2>4 DEF IInv, LoadOK, BlankEntries, AllKept
<1>9. QED
  BY <1>1, <1>2, <1>3, <1>4, <1>5, <1>6, <1>7, <1>8 DEF Next

----------------------------------------------------------------------------
(* Theorems *)

(***************************************************************************)
(* The strengthened invariant holds in every behaviour, whatever fails to  *)
(* be saved and whenever the process dies.                                 *)
(***************************************************************************)
THEOREM CapacityInductive == Spec => []IInv
<1>1. Init => IInv
  BY InitOK
<1>2. IInv /\ [Next]_vars => IInv'
  BY NextOK
<1>3. QED BY <1>1, <1>2, PTL DEF Spec

(***************************************************************************)
(* The capacity ledger stays well typed.                                   *)
(***************************************************************************)
THEOREM CapacityTypeCorrect == Spec => []TypeOK
<1>1. IInv => TypeOK
  BY DEF IInv
<1>2. QED BY <1>1, CapacityInductive, PTL

(***************************************************************************)
(* The soft reservations of the quotamode store and the entries of the     *)
(* ledger agree at all times, across failed saves and restarts.            *)
(***************************************************************************)
THEOREM PressureIsBacked == Spec => []PressureBacked
<1>1. IInv => PressureBacked
  BY DEF IInv, LedgerOK, PressureBacked
<1>2. QED BY <1>1, CapacityInductive, PTL

(***************************************************************************)
(* load accepts every file the ledger has written.                         *)
(***************************************************************************)
THEOREM CapacityReopens == Spec => []Reopens
<1>1. IInv => Reopens
  BY DEF IInv, Reopens
<1>2. QED BY <1>1, CapacityInductive, PTL

(***************************************************************************)
(* Reserve, Reconcile, Release, ObserveAfterBound and load never take back *)
(* what the file says of an attempt.                                       *)
(***************************************************************************)
THEOREM OutcomesAreKept == Spec => OutcomeKept
<1>1. IInv /\ [Next]_vars => [\A a \in Attempts : Kept(disk[a], disk'[a])]_vars
  BY NextOK DEF AllKept
<1>2. QED BY <1>1, CapacityInductive, PTL DEF Spec, OutcomeKept

----------------------------------------------------------------------------
(* What the file promises of a window *)

\* Holding and WithinCapacity at a given time.
HoldingAt(entries, w, t) ==
    {a \in Attempts : /\ entries[a].state = "reserved"
                      /\ WindowOf[entries[a].route] = w /\ t < entries[a].expires}

WithinAt(entries, t) ==
    \A w \in Windows : HoldingAt(entries, w, t) # {} =>
       \E remaining \in Remaining :
          Cardinality(HeldUnits(entries, HoldingAt(entries, w, t))) <= remaining - Headroom

LEMMA UnitsIn ==
  ASSUME NEW holds, NEW S
  PROVE  /\ \A x \in S : \A u \in 1 .. holds[x].hold : <<x, u>> \in HeldUnits(holds, S)
         /\ \A y \in HeldUnits(holds, S) :
               \E x \in S : \E u \in 1 .. holds[x].hold : y = <<x, u>>
BY DEF HeldUnits

LEMMA UnitsFinite ==
  ASSUME NEW S, IsFiniteSet(S), NEW holds, \A x \in S : holds[x].hold \in Nat
  PROVE  IsFiniteSet(HeldUnits(holds, S))
<1> DEFINE Of(x) == {x} \X (1 .. holds[x].hold)
           All == {Of(x) : x \in S}
           f == [x \in S |-> Of(x)]
<1>1. f \in Surjection(S, All)
  BY DEF Surjection
<1>2. IsFiniteSet(All)
  <2> HIDE DEF f, All
  <2>1. QED BY <1>1, FS_Surjection
<1>3. ASSUME NEW T \in All PROVE IsFiniteSet(T)
  <2>1. PICK x \in S : T = Of(x)
    OBVIOUS
  <2>2. IsFiniteSet({x}) /\ IsFiniteSet(1 .. holds[x].hold)
    <3>1. 1 \in Int /\ holds[x].hold \in Int
      OBVIOUS
    <3>2. IsFiniteSet(1 .. holds[x].hold)
      BY <3>1, FS_Interval, Zenon
    <3>3. QED BY <3>2, FS_Singleton, Zenon
  <2>3. QED BY <2>1, <2>2, FS_Product
<1>4. HeldUnits(holds, S) = UNION All
  BY DEF HeldUnits
<1>5. QED
  <2> HIDE DEF All
  <2>1. QED BY <1>2, <1>3, <1>4, FS_UNION

\* Reservation ids are unique, so a file has finitely many holds.
LEMMA HoldingFinite ==
  ASSUME NEW entries \in [Attempts -> Entries], LoadOK(entries), NEW w, NEW t
  PROVE  /\ IsFiniteSet(HoldingAt(entries, w, t))
         /\ IsFiniteSet(HeldUnits(entries, HoldingAt(entries, w, t)))
<1> DEFINE H == HoldingAt(entries, w, t)
           f == [a \in H |-> entries[a].id]
<1>1. \A a \in H : a \in Attempts /\ entries[a].id \in Ids /\ entries[a].hold \in Nat
  BY DEF HoldingAt, LoadOK, Entries, Ids
<1>2. \A a, b \in H : entries[a].id = entries[b].id => a = b
  BY DEF HoldingAt, LoadOK
<1> HIDE DEF H
<1>3. f \in Injection(H, Ids)
  BY <1>1, <1>2 DEF Injection, IsInjective
<1>4. IsFiniteSet(Ids)
  BY FS_Interval, CapacityConstants DEF Ids
<1>5. IsFiniteSet(H)
  <2> HIDE DEF f
  <2>1. QED BY <1>3, <1>4, FS_Injection
<1>6. IsFiniteSet(HeldUnits(entries, H))
  BY <1>1, <1>5, UnitsFinite
<1>7. QED BY <1>5, <1>6 DEF H

\* Ending holds, and time, leave room.
LEMMA EndingFits ==
  ASSUME NEW old \in [Attempts -> Entries], NEW new \in [Attempts -> Entries], LoadOK(old),
         NEW t \in Nat, NEW u \in Nat, t <= u, WithinAt(old, t),
         \A a \in Attempts : new[a].state = "reserved" =>
            old[a].state = "reserved" /\ Hold(new[a]) = Hold(old[a])
  PROVE  WithinAt(new, u)
<1> SUFFICES ASSUME NEW w \in Windows, HoldingAt(new, w, u) # {}
             PROVE  \E remaining \in Remaining :
                       Cardinality(HeldUnits(new, HoldingAt(new, w, u))) <= remaining - Headroom
  BY DEF WithinAt
<1> DEFINE H == HoldingAt(new, w, u)
           G == HoldingAt(old, w, t)
<1>1. \A a \in H : a \in G /\ new[a].hold = old[a].hold
  <2> SUFFICES ASSUME NEW a \in H PROVE a \in G /\ new[a].hold = old[a].hold
    OBVIOUS
  <2>1. /\ a \in Attempts /\ new[a].state = "reserved"
        /\ WindowOf[new[a].route] = w /\ u < new[a].expires
    BY DEF HoldingAt
  <2>2. /\ old[a].state = "reserved" /\ new[a].route = old[a].route
        /\ new[a].hold = old[a].hold /\ new[a].expires = old[a].expires
    BY <2>1 DEF Hold
  <2>3. old[a].expires \in Nat
    BY <2>1 DEF Entries
  <2>4. t < old[a].expires
    BY <2>1, <2>2, <2>3
  <2>5. QED BY <2>1, <2>2, <2>4 DEF HoldingAt
<1> HIDE DEF H, G
<1>2. HeldUnits(new, H) \subseteq HeldUnits(old, G)
  BY <1>1, UnitsIn
<1>3. IsFiniteSet(HeldUnits(old, G))
  BY HoldingFinite DEF G
<1>4. PICK remaining \in Remaining : Cardinality(HeldUnits(old, G)) <= remaining - Headroom
  BY <1>1 DEF WithinAt, G, H
<1>5. Cardinality(HeldUnits(new, H)) <= Cardinality(HeldUnits(old, G))
  BY <1>2, <1>3, FS_Subset
<1>6. Cardinality(HeldUnits(new, H)) \in Nat /\ Cardinality(HeldUnits(old, G)) \in Nat
  BY <1>2, <1>3, FS_Subset, FS_CardinalityType
<1>7. remaining \in Nat /\ Headroom \in Nat
  BY CapacityConstants
<1>8. QED BY <1>4, <1>5, <1>6, <1>7 DEF H

\* Whatever still holds of the window of a route, the quotamode store counts.
LEMMA ActiveCovers ==
  ASSUME IInv, NEW r \in Routes
  PROVE  LET H == HoldingAt(mem.entries, WindowOf[r], now)
         IN  /\ Cardinality(HeldUnits(mem.entries, H)) <= ActiveFraction(ExpireSoft(mem.soft), r)
             /\ ActiveFraction(ExpireSoft(mem.soft), r) \in Nat
<1> DEFINE H == HoldingAt(mem.entries, WindowOf[r], now)
           soft == ExpireSoft(mem.soft)
           A == ActiveOn(soft, r)
           f == [y \in HeldUnits(mem.entries, H) |-> <<mem.entries[y[1]].id, y[2]>>]
<1>1. /\ mem.entries \in [Attempts -> Entries] /\ mem.soft \in [Ids -> Reservations]
      /\ now \in Nat /\ LoadOK(mem.entries) /\ PressureMatches(mem)
  BY DEF IInv, TypeOK, Ledgers, LedgerOK
<1>2. soft \in [Ids -> Reservations]
  BY <1>1 DEF ExpireSoft, Reservations, SoftStates
<1>3. ASSUME NEW a \in H
      PROVE  mem.entries[a].id \in A /\ soft[mem.entries[a].id].hold = mem.entries[a].hold
  <2> DEFINE i == mem.entries[a].id
  <2>1. /\ a \in Attempts /\ mem.entries[a].state = "reserved"
        /\ WindowOf[mem.entries[a].route] = WindowOf[r] /\ now < mem.entries[a].expires
    BY DEF HoldingAt
  <2>2. i \in Ids /\ mem.entries[a].expires \in Nat /\ i # 0
    BY <1>1, <2>1 DEF LoadOK, Entries, Ids
  <2>3. mem.soft[i].state = "active"
    BY <1>1, <2>1, <2>2 DEF PressureMatches
  <2>4. PICK b \in Attempts : /\ mem.entries[b].state = "reserved" /\ mem.entries[b].id = i
                              /\ mem.soft[i] = Hold(mem.entries[b])
    BY <1>1, <2>2, <2>3 DEF PressureMatches
  <2>5. b = a
    BY <1>1, <2>1, <2>2, <2>4 DEF LoadOK
  <2>6. /\ mem.soft[i].route = mem.entries[a].route /\ mem.soft[i].hold = mem.entries[a].hold
        /\ mem.soft[i].expires = mem.entries[a].expires
    BY <2>4, <2>5 DEF Hold
  <2>7. soft[i] = mem.soft[i]
    <3>1. ~(now >= mem.soft[i].expires)
      BY <1>1, <2>1, <2>2, <2>6
    <3>2. QED BY <2>2, <3>1 DEF ExpireSoft
  <2>8. QED BY <2>1, <2>2, <2>3, <2>6, <2>7 DEF ActiveOn
<1>4. \A a, b \in H : mem.entries[a].id = mem.entries[b].id => a = b
  BY <1>1 DEF HoldingAt, LoadOK
<1>5. \A i \in A : i \in Ids /\ soft[i].hold \in Nat
  BY <1>2 DEF ActiveOn, Reservations
<1>6. IsFiniteSet(A)
  <2>1. IsFiniteSet(Ids)
    BY FS_Interval, CapacityConstants DEF Ids
  <2>2. A \subseteq Ids
    BY <1>5
  <2> HIDE DEF A
  <2>3. QED BY <2>1, <2>2, FS_Subset
<1> HIDE DEF H, A, soft
<1>7. IsFiniteSet(HeldUnits(soft, A))
  BY <1>5, <1>6, UnitsFinite
<1>8. f \in Injection(HeldUnits(mem.entries, H), HeldUnits(soft, A))
  <2>1. ASSUME NEW y \in HeldUnits(mem.entries, H)
        PROVE  /\ y[1] \in H /\ y = <<y[1], y[2]>>
               /\ <<mem.entries[y[1]].id, y[2]>> \in HeldUnits(soft, A)
    <3>0. PICK a \in H : \E u \in 1 .. mem.entries[a].hold : y = <<a, u>>
      BY UnitsIn
    <3>1. PICK u \in 1 .. mem.entries[a].hold : y = <<a, u>>
      BY <3>0
    <3>2. u \in 1 .. soft[mem.entries[a].id].hold
      BY <1>3, <3>1
    <3>3. <<mem.entries[a].id, u>> \in HeldUnits(soft, A)
      BY <1>3, <3>2, UnitsIn
    <3>4. QED BY <3>1, <3>3
  <2>2. f \in [HeldUnits(mem.entries, H) -> HeldUnits(soft, A)]
    BY <2>1
  <2>3. ASSUME NEW y \in HeldUnits(mem.entries, H), NEW z \in HeldUnits(mem.entries, H),
               f[y] = f[z]
        PROVE  y = z
    <3>1. mem.entries[y[1]].id = mem.entries[z[1]].id /\ y[2] = z[2]
      BY <2>3
    <3>2. QED BY <1>4, <2>1, <3>1
  <2> HIDE DEF f
  <2>4. QED BY <2>2, <2>3 DEF Injection, IsInjective
<1>9. Cardinality(HeldUnits(mem.entries, H)) <= Cardinality(HeldUnits(soft, A))
  <2> HIDE DEF f
  <2>1. QED BY <1>7, <1>8, FS_Injection
<1>10. Cardinality(HeldUnits(soft, A)) \in Nat
  BY <1>7, FS_CardinalityType
<1>11. QED BY <1>9, <1>10 DEF H, A, soft, ActiveFraction

\* A demand the store granted fits beside what is held.
LEMMA GrantFits ==
  ASSUME IInv, WithinAt(mem.entries, now), NEW a \in Attempts, NEW r \in Routes,
         NEW remaining \in Remaining, NEW demand \in Demands,
         mem.entries[a].state = "none",
         HeadroomOK(ExpireSoft(mem.soft), r, remaining, demand),
         NEW e, e = Reserved(mem.seq + 1, r, demand)
  PROVE  WithinAt([mem.entries EXCEPT ![a] = e], now)
<1> DEFINE old == mem.entries
           new == [mem.entries EXCEPT ![a] = e]
           H(w) == HoldingAt(old, w, now)
           G(w) == HoldingAt(new, w, now)
           own == {a} \X (1 .. demand)
<1>1. /\ old \in [Attempts -> Entries] /\ LoadOK(old) /\ now \in Nat
      /\ remaining \in Nat /\ Headroom \in Nat /\ demand \in Nat
  BY CapacityConstants DEF IInv, TypeOK, Ledgers, LedgerOK
<1>2. e.route = r /\ e.hold = demand
  BY DEF Reserved, NoEntry
<1>3. /\ new[a] = e
      /\ \A b \in Attempts : b # a => new[b] = old[b]
  BY <1>1
<1> HIDE DEF new
<1> SUFFICES ASSUME NEW w \in Windows, G(w) # {}
             PROVE  \E n \in Remaining : Cardinality(HeldUnits(new, G(w))) <= n - Headroom
  BY DEF WithinAt, new
<1>4. a \notin H(w) /\ \A b \in H(w) : b \in Attempts
  BY DEF HoldingAt
<1>5. \A b \in G(w) : b = a \/ b \in H(w)
  BY <1>3 DEF HoldingAt
<1>6. IsFiniteSet(HeldUnits(old, H(w))) /\ Cardinality(HeldUnits(old, H(w))) \in Nat
  BY <1>1, HoldingFinite, FS_CardinalityType
<1>7. IsFiniteSet(own) /\ Cardinality(own) = demand
  <2>1. IsFiniteSet(1 .. demand) /\ Cardinality(1 .. demand) = demand
    <3>1. 1 \in Int /\ demand \in Int
      BY <1>1
    <3>2. IsFiniteSet(1 .. demand) /\ Cardinality(1 .. demand) = IF 1 > demand THEN 0 ELSE demand - 1 + 1
      BY <3>1, FS_Interval, Zenon
    <3>3. QED BY <1>1, <3>2
  <2>2. IsFiniteSet({a}) /\ Cardinality({a}) = 1
    BY FS_Singleton
  <2>3. IsFiniteSet(own) /\ Cardinality(own) = Cardinality({a}) * Cardinality(1 .. demand)
    BY <2>1, <2>2, FS_Product
  <2> HIDE DEF own
  <2>4. QED BY <1>1, <2>1, <2>2, <2>3
<1>8. CASE w = WindowOf[r]
  <2>1. HeldUnits(new, G(w)) \subseteq HeldUnits(old, H(w)) \cup own
    <3> SUFFICES ASSUME NEW y \in HeldUnits(new, G(w))
                 PROVE  y \in HeldUnits(old, H(w)) \cup own
      OBVIOUS
    <3>1. PICK b \in G(w) : \E u \in 1 .. new[b].hold : y = <<b, u>>
      BY UnitsIn
    <3>2. PICK u \in 1 .. new[b].hold : y = <<b, u>>
      BY <3>1
    <3>3. CASE b = a
      BY <1>2, <1>3, <3>2, <3>3
    <3>4. CASE b # a
      <4>1. b \in H(w) /\ u \in 1 .. old[b].hold
        BY <1>3, <1>4, <1>5, <3>2, <3>4
      <4> HIDE DEF H, G
      <4>2. QED BY <3>2, <4>1, UnitsIn
    <3>5. QED BY <3>3, <3>4
  <2> HIDE DEF own
  <2>2. /\ IsFiniteSet(HeldUnits(old, H(w)) \cup own)
        /\ Cardinality(HeldUnits(old, H(w)) \cup own) <= Cardinality(HeldUnits(old, H(w))) + demand
    <3> DEFINE U == HeldUnits(old, H(w))
    <3>1. IsFiniteSet(U) /\ Cardinality(U) \in Nat
      BY <1>6
    <3> HIDE DEF U
    <3>2. /\ IsFiniteSet(U \cup own)
          /\ Cardinality(U \cup own) = Cardinality(U) + Cardinality(own) - Cardinality(U \cap own)
      BY <1>7, <3>1, FS_Union
    <3>3. Cardinality(U \cap own) \in Nat
      BY <3>1, FS_Intersection, FS_CardinalityType
    <3>4. QED BY <1>1, <1>7, <3>1, <3>2, <3>3 DEF U
  <2>3. /\ Cardinality(HeldUnits(old, H(w))) <= ActiveFraction(ExpireSoft(mem.soft), r)
        /\ ActiveFraction(ExpireSoft(mem.soft), r) \in Nat
    BY <1>8, ActiveCovers
  <2>4. demand <= remaining - ActiveFraction(ExpireSoft(mem.soft), r) - Headroom
    BY DEF HeadroomOK
  <2>5. /\ Cardinality(HeldUnits(new, G(w))) <= Cardinality(HeldUnits(old, H(w)) \cup own)
        /\ Cardinality(HeldUnits(new, G(w))) \in Nat
        /\ Cardinality(HeldUnits(old, H(w)) \cup own) \in Nat
    <3> HIDE DEF H, G
    <3>1. QED BY <2>1, <2>2, FS_Subset, FS_CardinalityType
  <2> HIDE DEF H, G
  <2>6. Cardinality(HeldUnits(new, G(w))) <= remaining - Headroom
    BY <1>1, <1>6, <2>2, <2>3, <2>4, <2>5
  <2>7. QED BY <2>6
<1>9. CASE w # WindowOf[r]
  <2>1. a \notin G(w)
    BY <1>2, <1>3, <1>9 DEF HoldingAt
  <2>2. \A b \in G(w) : b \in H(w) /\ new[b].hold = old[b].hold
    BY <1>3, <1>4, <1>5, <2>1
  <2>3. PICK n \in Remaining : Cardinality(HeldUnits(old, H(w))) <= n - Headroom
    BY <2>2 DEF WithinAt
  <2> HIDE DEF H, G
  <2>4. HeldUnits(new, G(w)) \subseteq HeldUnits(old, H(w))
    <3> SUFFICES ASSUME NEW y \in HeldUnits(new, G(w)) PROVE y \in HeldUnits(old, H(w))
      OBVIOUS
    <3>1. PICK b \in G(w) : \E u \in 1 .. new[b].hold : y = <<b, u>>
      BY UnitsIn
    <3>2. QED BY <2>2, <3>1, UnitsIn
  <2>5. /\ Cardinality(HeldUnits(new, G(w))) <= Cardinality(HeldUnits(old, H(w)))
        /\ Cardinality(HeldUnits(new, G(w))) \in Nat
    BY <1>6, <2>4, FS_Subset, FS_CardinalityType
  <2>6. n \in Nat
    BY CapacityConstants
  <2>7. QED BY <1>1, <1>6, <2>3, <2>5, <2>6
<1>10. QED BY <1>8, <1>9

\* Nothing is held by a ledger that is not open.
LEMMA ClosedFits == ASSUME NEW t PROVE WithinAt(NewLedger.entries, t)
<1>1. \A a \in Attempts : NewLedger.entries[a].state # "reserved"
  BY DEF NewLedger, NoEntry
<1>2. QED BY <1>1 DEF WithinAt, HoldingAt

\* However the save ends, memory and file fit when the change does.
LEMMA SaveFits ==
  ASSUME WithinAt(mem.entries, now), WithinAt(disk, now), NEW m, WithinAt(m.entries, now),
         Save(m), UNCHANGED now
  PROVE  WithinAt(mem'.entries, now') /\ WithinAt(disk', now')
<1>1. WithinAt(NewLedger.entries, now)
  BY ClosedFits
<1>2. /\ mem' = m \/ mem' = NewLedger
      /\ disk' = m.entries \/ disk' = disk
      /\ now' = now
  BY DEF Save
<1>3. WithinAt(mem'.entries, now)
  BY <1>1, <1>2
<1>4. WithinAt(disk', now)
  BY <1>2
<1>5. QED BY <1>2, <1>3, <1>4

\* A call that ends a hold or leaves it alone.
LEMMA EntryFits ==
  ASSUME IInv, WithinAt(mem.entries, now), NEW a \in Attempts, NEW e \in Entries,
         e.state = "reserved" => mem.entries[a].state = "reserved" /\ Hold(e) = Hold(mem.entries[a])
  PROVE  WithinAt([mem.entries EXCEPT ![a] = e], now)
<1> DEFINE new == [mem.entries EXCEPT ![a] = e]
<1>1. /\ mem.entries \in [Attempts -> Entries] /\ LoadOK(mem.entries) /\ now \in Nat /\ now <= now
  BY DEF IInv, TypeOK, Ledgers, LedgerOK
<1>2. /\ new \in [Attempts -> Entries]
      /\ \A b \in Attempts : new[b].state = "reserved" =>
            mem.entries[b].state = "reserved" /\ Hold(new[b]) = Hold(mem.entries[b])
  BY <1>1
<1> HIDE DEF new
<1>3. WithinAt(new, now)
  BY <1>1, <1>2, EndingFits
<1>4. QED BY <1>3 DEF new

LEMMA RefusedFits ==
  ASSUME IInv, WithinAt(mem.entries, now), NEW a \in Attempts, NEW id \in 0 .. MaxSeq,
         NEW r \in Routes \cup {NoRoute}
  PROVE  WithinAt([mem.entries EXCEPT ![a] = Refused(id, r)], now)
<1> DEFINE e == Refused(id, r)
<1>1. e = [state |-> "refused", id |-> id, route |-> r, hold |-> 0,
           expires |-> 0, actual |-> NoActual, after |-> "none"]
  BY RefusedShape, Zenon
<1>2. e \in Entries /\ e.state # "reserved"
  BY <1>1 DEF Entries, EntryStates
<1> HIDE DEF e
<1>3. WithinAt([mem.entries EXCEPT ![a] = e], now)
  BY <1>2, EntryFits
<1>4. QED BY <1>3 DEF e

LEMMA ReserveFits ==
  ASSUME IInv, WithinAt(mem.entries, now), WithinAt(disk, now), NEW a \in Attempts,
         NEW r \in Routes, NEW remaining \in Remaining, NEW demand \in Demands,
         Reserve(a, r, remaining, demand)
  PROVE  WithinAt(mem'.entries, now') /\ WithinAt(disk', now')
<1>1. mem \in Ledgers /\ mem.seq \in 0 .. MaxSeq /\ UNCHANGED now /\ MaxSeq \in Nat
  BY CapacityConstants DEF Reserve, IInv, TypeOK, Ledgers
<1>2. CASE ReserveNoWindow(a)
  <2> DEFINE m == [mem EXCEPT !.entries = [@ EXCEPT ![a] = Refused(0, NoRoute)]]
  <2>1. Save(m)
    BY <1>2 DEF ReserveNoWindow
  <2>2. m.entries = [mem.entries EXCEPT ![a] = Refused(0, NoRoute)]
    BY <1>1 DEF Ledgers
  <2>3. WithinAt(m.entries, now)
    <3>1. 0 \in 0 .. MaxSeq
      BY <1>1
    <3>2. QED BY <2>2, <3>1, RefusedFits
  <2> HIDE DEF m
  <2>4. QED BY <1>1, <2>1, <2>3, SaveFits
<1>3. CASE ReserveNew(a, r, remaining, demand)
  <2> DEFINE id == mem.seq + 1
             fits == HeadroomOK(ExpireSoft(mem.soft), r, remaining, demand)
             e == IF fits THEN Reserved(id, r, demand) ELSE Refused(id, r)
             hold == IF e.state = "reserved" THEN Hold(e) ELSE RefusedHold(r, demand)
             m == [entries |-> [mem.entries EXCEPT ![a] = e],
                   soft |-> [ExpireSoft(mem.soft) EXCEPT ![id] = hold], seq |-> id]
  <2>1. mem.entries[a].state = "none" /\ mem.seq < MaxSeq /\ Save(m)
    BY <1>3 DEF ReserveNew
  <2>2. m.entries = [mem.entries EXCEPT ![a] = e]
    OBVIOUS
  <2>3. id \in 0 .. MaxSeq
    BY <1>1, <2>1
  <2> HIDE DEF m
  <2>4. WithinAt(m.entries, now)
    <3>1. CASE fits
      BY <2>1, <2>2, <3>1, GrantFits
    <3>2. CASE ~fits
      <4>1. e = Refused(id, r)
        BY <3>2
      <4> HIDE DEF e, id
      <4>2. QED BY <2>2, <2>3, <4>1, RefusedFits
    <3>3. QED BY <3>1, <3>2
  <2>5. QED BY <1>1, <2>1, <2>4, SaveFits
<1>4. QED BY <1>2, <1>3 DEF Reserve

LEMMA EndFits ==
  ASSUME IInv, WithinAt(mem.entries, now), WithinAt(disk, now), NEW a \in Attempts,
         \/ \E actual \in Actuals : Reconcile(a, actual)
         \/ Release(a)
         \/ \E w \in Windows : ObserveAfterBound(a, w)
  PROVE  WithinAt(mem'.entries, now') /\ WithinAt(disk', now')
<1>1. /\ mem \in Ledgers /\ mem.entries \in [Attempts -> Entries] /\ mem.entries[a] \in Entries
      /\ UNCHANGED now
  BY DEF Reconcile, Release, ObserveAfterBound, IInv, TypeOK, Ledgers
<1>2. ASSUME NEW actual \in Actuals, Reconcile(a, actual)
      PROVE  WithinAt(mem'.entries, now') /\ WithinAt(disk', now')
  <2> DEFINE e == ReconciledEntry(mem.entries[a], actual)
             m == [entries |-> [mem.entries EXCEPT ![a] = e],
                   soft |-> SoftEnd(mem.soft, mem.entries[a].id, "reconciled"),
                   seq |-> mem.seq + Attributes(mem.soft, mem.entries[a].id)]
  <2>1. Save(m)
    BY <1>2 DEF Reconcile
  <2>2. e \in Entries /\ e.state # "reserved"
    BY <1>1 DEF ReconciledEntry, Entries, EntryStates
  <2>3. m.entries = [mem.entries EXCEPT ![a] = e]
    OBVIOUS
  <2> HIDE DEF e, m
  <2>4. WithinAt(m.entries, now)
    BY <2>2, <2>3, EntryFits
  <2>5. QED BY <1>1, <2>1, <2>4, SaveFits
<1>3. ASSUME Release(a)
      PROVE  WithinAt(mem'.entries, now') /\ WithinAt(disk', now')
  <2> DEFINE e == ReleasedEntry(mem.entries[a])
             m == [entries |-> [mem.entries EXCEPT ![a] = e],
                   soft |-> SoftEnd(mem.soft, mem.entries[a].id, "released"),
                   seq |-> mem.seq]
  <2>1. Save(m)
    BY <1>3 DEF Release
  <2>2. e \in Entries /\ e.state # "reserved"
    BY <1>1 DEF ReleasedEntry, Entries, EntryStates
  <2>3. m.entries = [mem.entries EXCEPT ![a] = e]
    OBVIOUS
  <2> HIDE DEF e, m
  <2>4. WithinAt(m.entries, now)
    BY <2>2, <2>3, EntryFits
  <2>5. QED BY <1>1, <2>1, <2>4, SaveFits
<1>4. ASSUME NEW w \in Windows, ObserveAfterBound(a, w)
      PROVE  WithinAt(mem'.entries, now') /\ WithinAt(disk', now')
  <2> DEFINE e == [mem.entries[a] EXCEPT !.after = "observed"]
             m == [mem EXCEPT !.entries = [@ EXCEPT ![a] = e]]
  <2>1. Save(m)
    BY <1>4 DEF ObserveAfterBound
  <2>2. e \in Entries /\ e.state = mem.entries[a].state /\ Hold(e) = Hold(mem.entries[a])
    BY <1>1 DEF Entries, EntryStates, Hold
  <2>3. m.entries = [mem.entries EXCEPT ![a] = e]
    BY <1>1 DEF Ledgers
  <2> HIDE DEF e, m
  <2>4. WithinAt(m.entries, now)
    BY <2>2, <2>3, EntryFits
  <2>5. QED BY <1>1, <2>1, <2>4, SaveFits
<1>5. QED BY <1>2, <1>3, <1>4

LEMMA ProcessFits ==
  ASSUME IInv, WithinAt(mem.entries, now), WithinAt(disk, now), Open \/ Crash \/ Tick
  PROVE  WithinAt(mem'.entries, now') /\ WithinAt(disk', now')
<1>1. /\ mem.entries \in [Attempts -> Entries] /\ LoadOK(mem.entries)
      /\ disk \in [Attempts -> Entries] /\ LoadOK(disk) /\ now \in Nat
  BY DEF IInv, TypeOK, Ledgers, LedgerOK
<1>2. CASE Open
  <2> DEFINE new == ReleaseExpired(disk)
  <2>1. mem'.entries = new /\ disk' = new /\ now' = now
    BY <1>2 DEF Open
  <2>2. /\ new \in [Attempts -> Entries]
        /\ \A a \in Attempts : new[a].state = "reserved" => new[a] = disk[a]
    BY <1>1 DEF ReleaseExpired, Entries, EntryStates
  <2> HIDE DEF new
  <2>3. WithinAt(new, now)
    BY <1>1, <2>2, EndingFits
  <2>4. QED BY <2>1, <2>3
<1>3. CASE Crash
  <2>1. mem' = NewLedger /\ disk' = disk /\ now' = now
    BY <1>3 DEF Crash
  <2>2. QED BY <2>1, ClosedFits
<1>4. CASE Tick
  <2>1. mem' = mem /\ disk' = disk /\ now' = now + 1
    BY <1>4 DEF Tick
  <2>2. now + 1 \in Nat /\ now <= now + 1
    BY <1>1
  <2>3. WithinAt(mem.entries, now + 1) /\ WithinAt(disk, now + 1)
    BY <1>1, <2>2, EndingFits
  <2>4. QED BY <2>1, <2>3
<1>5. QED BY <1>2, <1>3, <1>4

(***************************************************************************)
(* The file never promises the same capacity twice.  The file may be older *)
(* than memory, when saves failed, so memory must fit as well: what one    *)
(* save later writes is memory as it is then.  That a granted demand fits  *)
(* rests on PressureBacked: every hold of an entry that has not run out is *)
(* one the quotamode store counts.                                         *)
(***************************************************************************)
THEOREM CapacityNotPromisedTwice == Spec => []FileWithinCapacity
<1> DEFINE Fits == WithinAt(mem.entries, now) /\ WithinAt(disk, now)
<1>1. Init => Fits
  BY ClosedFits DEF Init
<1>2. IInv /\ Fits /\ [Next]_vars => Fits'
  <2> SUFFICES ASSUME IInv, Fits, [Next]_vars
               PROVE  WithinAt(mem'.entries, now') /\ WithinAt(disk', now')
    BY DEF WithinAt, HoldingAt, HeldUnits
  <2>1. CASE Open \/ Crash \/ Tick
    BY <2>1, ProcessFits
  <2>2. CASE \E a \in Attempts, r \in Routes, remaining \in Remaining, demand \in Demands :
                Reserve(a, r, remaining, demand)
    BY <2>2, ReserveFits
  <2>3. CASE \E a \in Attempts : \/ \E actual \in Actuals : Reconcile(a, actual)
                                 \/ Release(a)
                                 \/ \E w \in Windows : ObserveAfterBound(a, w)
    BY <2>3, EndFits
  <2>4. CASE UNCHANGED vars
    BY <2>4 DEF vars
  <2>5. QED BY <2>1, <2>2, <2>3, <2>4 DEF Next
<1>3. Fits => FileWithinCapacity
  BY DEF FileWithinCapacity, WithinCapacity, WithinAt, Holding, HoldingAt
<1>4. QED BY <1>1, <1>2, <1>3, CapacityInductive, PTL DEF Spec
=============================================================================
