-------------------------- MODULE WorkClaimProofs --------------------------
(***************************************************************************)
(* Proofs about the claim ledger, for every graph, every set of attempts   *)
(* and executors and every lease.  Exclusion, durability, dependencies and *)
(* history rest on the design assumption that one process has the claim    *)
(* file open; well-formedness holds for any number of processes.           *)
(***************************************************************************)
EXTENDS WorkClaim, TLAPS

SingleProcess == \A p, q \in Procs : p = q

(***************************************************************************)
(* A record that is present and not closed may be rewritten under the same *)
(* identity, with the live pointer kept in step: ExpireClaim, RenewClaim   *)
(* and CloseClaim are such rewrites.                                       *)
(***************************************************************************)
LEMMA RewriteOK ==
    ASSUME NEW s \in Stores, NEW i \in Items, NEW a \in Attempts, NEW c \in Claims,
           NEW live \in Attempts \cup {NoAttempt},
           StoreOK(s), Present(s, i, a), s.claims[i][a].state # "closed",
           c.state # "absent",
           c.id = s.claims[i][a].id, c.gen = s.claims[i][a].gen,
           c.executor = s.claims[i][a].executor,
           c.supersedes = s.claims[i][a].supersedes,
           c.state = "closed" <=> c.terminal # "none",
           c.terminal = "succeeded" => c.evidence,
           c.state \in LiveStates => s.claims[i][a].state \in LiveStates,
           live = IF c.state \notin LiveStates /\ s.live[i] = a THEN NoAttempt ELSE s.live[i]
    PROVE  LET t == Put(s, i, a, c, live, s.gen[i], s.seq + 1) IN
           t \in Stores /\ StoreOK(t) /\ HistoryKept(s, t)
<1> DEFINE t == Put(s, i, a, c, live, s.gen[i], s.seq + 1)
<1>1. s.gen[i] \in Nat /\ s.seq \in Nat /\ s.seq + 1 \in Nat
  BY DEF Stores
<1>2. /\ t \in Stores
      /\ \A j \in Items : \A b \in Attempts :
            t.claims[j][b] = IF j = i /\ b = a THEN c ELSE s.claims[j][b]
      /\ \A j \in Items : t.live[j] = IF j = i THEN live ELSE s.live[j]
      /\ \A j \in Items : t.gen[j] = s.gen[j]
      /\ t.seq = s.seq + 1
  <2>1. /\ t \in Stores
        /\ \A j \in Items : \A b \in Attempts :
              t.claims[j][b] = IF j = i /\ b = a THEN c ELSE s.claims[j][b]
        /\ \A j \in Items : t.live[j] = IF j = i THEN live ELSE s.live[j]
        /\ \A j \in Items : t.gen[j] = IF j = i THEN s.gen[i] ELSE s.gen[j]
        /\ t.seq = s.seq + 1
    BY <1>1 DEF Put, Stores
  <2> HIDE DEF t
  <2>2. QED BY <2>1
<1> HIDE DEF t
<1>3. \A j \in Items : \A b \in Attempts : s.claims[j][b] \in Claims
  BY DEF Stores
<1>a. \A j \in Items : s.live[j] \in Attempts \cup {NoAttempt}
  BY DEF Stores
<1>4. LivePointers(t)
  <2> SUFFICES ASSUME NEW j \in Items
               PROVE  /\ t.live[j] # NoAttempt => t.claims[j][t.live[j]].state \in LiveStates
                      /\ \A b \in Attempts :
                            t.claims[j][b].state \in LiveStates => t.live[j] = b
    BY DEF LivePointers
  <2>1. /\ s.live[j] # NoAttempt => s.claims[j][s.live[j]].state \in LiveStates
        /\ \A b \in Attempts : s.claims[j][b].state \in LiveStates => s.live[j] = b
    BY DEF StoreOK, LivePointers
  <2>2. CASE j = i
    BY <1>2, <1>a, <2>1, <2>2, ClaimConstants
  <2>3. CASE j # i
    BY <1>2, <1>a, <2>1, <2>3
  <2>4. QED BY <2>2, <2>3
<1>5. Counters(t)
  <2> SUFFICES ASSUME NEW j \in Items
               PROVE  /\ t.gen[j] # 0 => \E b \in Attempts : t.claims[j][b].gen = t.gen[j]
                      /\ \A b \in Attempts :
                            IF Present(t, j, b)
                            THEN /\ t.claims[j][b].id \in 1 .. t.seq
                                 /\ t.claims[j][b].gen \in 1 .. t.gen[j]
                                 /\ t.claims[j][b].executor # NoExecutor
                            ELSE t.claims[j][b] = NoClaim
    BY DEF Counters
  <2>1. t.gen[j] # 0 => \E b \in Attempts : t.claims[j][b].gen = t.gen[j]
    BY <1>2 DEF StoreOK, Counters
  <2>2. ASSUME NEW b \in Attempts
        PROVE  IF Present(t, j, b)
               THEN /\ t.claims[j][b].id \in 1 .. t.seq
                    /\ t.claims[j][b].gen \in 1 .. t.gen[j]
                    /\ t.claims[j][b].executor # NoExecutor
               ELSE t.claims[j][b] = NoClaim
    BY <1>1, <1>2, <1>3 DEF StoreOK, Counters, Present, Claims
  <2>3. QED BY <2>1, <2>2
<1>b. \A j \in Items : \A b \in Attempts :
         /\ Present(t, j, b) => Present(s, j, b)
         /\ t.claims[j][b].id = s.claims[j][b].id
         /\ t.claims[j][b].gen = s.claims[j][b].gen
  BY <1>2 DEF Present
<1>6. UniqueIds(t)
  <2>1. UniqueIds(s)
    BY DEF StoreOK
  <2>2. QED BY <1>b, <2>1 DEF UniqueIds
<1>7. OrderedGenerations(t)
  <2>1. OrderedGenerations(s)
    BY DEF StoreOK
  <2>2. QED BY <1>b, <2>1 DEF OrderedGenerations
<1>8. TerminalRecords(t)
  <2> SUFFICES ASSUME NEW j \in Items, NEW b \in Attempts
               PROVE  /\ t.claims[j][b].state = "closed" <=> t.claims[j][b].terminal # "none"
                      /\ t.claims[j][b].terminal = "succeeded" => t.claims[j][b].evidence
                      /\ t.claims[j][b].supersedes # NoAttempt =>
                           t.claims[j][t.claims[j][b].supersedes].state = "closed"
    BY DEF TerminalRecords
  <2>1. s.claims[j][b].supersedes \in Attempts \cup {NoAttempt}
    BY <1>3 DEF Claims
  <2>2. t.claims[j][b].supersedes = s.claims[j][b].supersedes
    BY <1>2
  <2>3. t.claims[j][b].supersedes # NoAttempt =>
           t.claims[j][t.claims[j][b].supersedes].state = "closed"
    BY <1>2, <2>1, <2>2 DEF StoreOK, TerminalRecords
  <2>4. /\ t.claims[j][b].state = "closed" <=> t.claims[j][b].terminal # "none"
        /\ t.claims[j][b].terminal = "succeeded" => t.claims[j][b].evidence
    <3>1. CASE j = i /\ b = a
      BY <1>2, <3>1
    <3>2. CASE ~(j = i /\ b = a)
      <4>1. t.claims[j][b] = s.claims[j][b]
        BY <1>2, <3>2
      <4>2. QED BY <4>1 DEF StoreOK, TerminalRecords
    <3>3. QED BY <3>1, <3>2
  <2>5. QED BY <2>3, <2>4
<1>9. HistoryKept(s, t)
  <2> SUFFICES ASSUME NEW j \in Items, NEW b \in Attempts, s.claims[j][b].state # "absent"
               PROVE  LET o == s.claims[j][b]
                          d == t.claims[j][b]
                      IN  /\ d.state # "absent" /\ d.id = o.id /\ d.gen = o.gen
                          /\ d.executor = o.executor
                          /\ o.state = "closed" => d = o
                          /\ o.supersedes # NoAttempt =>
                                t.claims[j][o.supersedes].state = "closed"
    BY DEF HistoryKept
  <2>1. t.claims[j][b].supersedes = s.claims[j][b].supersedes
    BY <1>2
  <2>2. s.claims[j][b].supersedes # NoAttempt =>
           t.claims[j][s.claims[j][b].supersedes].state = "closed"
    BY <1>8, <2>1 DEF TerminalRecords
  <2>3. QED BY <1>2, <2>2
<1>10. QED BY <1>2, <1>4, <1>5, <1>6, <1>7, <1>8, <1>9 DEF StoreOK, t

(***************************************************************************)
(* A new generation under an attempt key that has no record, on an item    *)
(* without a live claim.                                                   *)
(***************************************************************************)
LEMMA GrantOK ==
    ASSUME NEW s \in Stores, NEW i \in Items, NEW a \in Attempts, NEW c \in Claims,
           NEW seq \in Nat,
           StoreOK(s), ~Present(s, i, a), s.live[i] = NoAttempt,
           c.state = "claimed", c.id = s.seq + 1, c.gen = s.gen[i] + 1,
           c.executor # NoExecutor, c.terminal = "none",
           c.supersedes # NoAttempt => s.claims[i][c.supersedes].state = "closed",
           seq >= s.seq + 1
    PROVE  LET t == Put(s, i, a, c, a, s.gen[i] + 1, seq) IN
           t \in Stores /\ StoreOK(t) /\ HistoryKept(s, t)
<1> DEFINE t == Put(s, i, a, c, a, s.gen[i] + 1, seq)
<1>1. s.gen[i] \in Nat /\ s.seq \in Nat /\ s.gen[i] + 1 \in Nat
  BY DEF Stores
<1>2. /\ t \in Stores
      /\ \A j \in Items : \A b \in Attempts :
            t.claims[j][b] = IF j = i /\ b = a THEN c ELSE s.claims[j][b]
      /\ \A j \in Items : t.live[j] = IF j = i THEN a ELSE s.live[j]
      /\ \A j \in Items : t.gen[j] = IF j = i THEN s.gen[i] + 1 ELSE s.gen[j]
      /\ t.seq = seq
  BY <1>1 DEF Put, Stores
<1> HIDE DEF t
<1>3. \A j \in Items : \A b \in Attempts : s.claims[j][b] \in Claims
  BY DEF Stores
<1>4. \A j \in Items : s.gen[j] \in Nat /\ s.live[j] \in Attempts \cup {NoAttempt}
  BY DEF Stores
<1>5. /\ s.claims[i][a].state = "absent" /\ s.claims[i][a].gen = 0
      /\ s.claims[i][a].supersedes = NoAttempt
  BY DEF StoreOK, Counters, Present, NoClaim
<1>6. \A j \in Items : \A b \in Attempts :
         Present(s, j, b) =>
            /\ s.claims[j][b].id \in 1 .. s.seq
            /\ s.claims[j][b].gen \in 1 .. s.gen[j]
            /\ s.claims[j][b].executor # NoExecutor
  BY DEF StoreOK, Counters
<1>7. LivePointers(t)
  BY <1>2, <1>4, ClaimConstants DEF StoreOK, LivePointers, LiveStates
<1>8. Counters(t)
  <2> SUFFICES ASSUME NEW j \in Items
               PROVE  /\ t.gen[j] # 0 => \E b \in Attempts : t.claims[j][b].gen = t.gen[j]
                      /\ \A b \in Attempts :
                            IF Present(t, j, b)
                            THEN /\ t.claims[j][b].id \in 1 .. t.seq
                                 /\ t.claims[j][b].gen \in 1 .. t.gen[j]
                                 /\ t.claims[j][b].executor # NoExecutor
                            ELSE t.claims[j][b] = NoClaim
    BY DEF Counters
  <2>1. t.gen[j] # 0 => \E b \in Attempts : t.claims[j][b].gen = t.gen[j]
    <3>1. CASE j = i  BY <1>2, <3>1
    <3>2. CASE j # i  BY <1>2, <3>2 DEF StoreOK, Counters
    <3>3. QED BY <3>1, <3>2
  <2>2. ASSUME NEW b \in Attempts
        PROVE  IF Present(t, j, b)
               THEN /\ t.claims[j][b].id \in 1 .. t.seq
                    /\ t.claims[j][b].gen \in 1 .. t.gen[j]
                    /\ t.claims[j][b].executor # NoExecutor
               ELSE t.claims[j][b] = NoClaim
    <3>1. CASE j = i /\ b = a
      BY <1>1, <1>2, <3>1 DEF Present
    <3>2. CASE ~(j = i /\ b = a) /\ Present(s, j, b)
      BY <1>1, <1>2, <1>4, <1>6, <3>2 DEF Present
    <3>3. CASE ~(j = i /\ b = a) /\ ~Present(s, j, b)
      BY <1>2, <3>3 DEF Present, StoreOK, Counters
    <3>4. QED BY <3>1, <3>2, <3>3
  <2>3. QED BY <2>1, <2>2
<1>9. UniqueIds(t)
  <2> SUFFICES ASSUME NEW j \in Items, NEW k \in Items, NEW b \in Attempts, NEW d \in Attempts,
                      Present(t, j, b), Present(t, k, d), t.claims[j][b].id = t.claims[k][d].id
               PROVE  j = k /\ b = d
    BY DEF UniqueIds
  <2>1. CASE j = i /\ b = a  BY <1>1, <1>2, <1>6, <2>1 DEF Present
  <2>2. CASE k = i /\ d = a  BY <1>1, <1>2, <1>6, <2>2 DEF Present
  <2>3. CASE ~(j = i /\ b = a) /\ ~(k = i /\ d = a)
    BY <1>2, <2>3 DEF Present, StoreOK, UniqueIds
  <2>4. QED BY <2>1, <2>2, <2>3
<1>10. OrderedGenerations(t)
  <2> SUFFICES ASSUME NEW j \in Items, NEW b \in Attempts, NEW d \in Attempts,
                      Present(t, j, b), Present(t, j, d), b # d
               PROVE  /\ t.claims[j][b].gen # t.claims[j][d].gen
                      /\ t.claims[j][b].id < t.claims[j][d].id
                           <=> t.claims[j][b].gen < t.claims[j][d].gen
    BY DEF OrderedGenerations
  <2>1. CASE j = i /\ b = a  BY <1>1, <1>2, <1>6, <2>1 DEF Present
  <2>2. CASE j = i /\ d = a  BY <1>1, <1>2, <1>6, <2>2 DEF Present
  <2>3. CASE ~(j = i /\ b = a) /\ ~(j = i /\ d = a)
    BY <1>2, <2>3 DEF Present, StoreOK, OrderedGenerations
  <2>4. QED BY <2>1, <2>2, <2>3
<1>11. TerminalRecords(t)
  <2> SUFFICES ASSUME NEW j \in Items, NEW b \in Attempts
               PROVE  /\ t.claims[j][b].state = "closed" <=> t.claims[j][b].terminal # "none"
                      /\ t.claims[j][b].terminal = "succeeded" => t.claims[j][b].evidence
                      /\ t.claims[j][b].supersedes # NoAttempt =>
                           t.claims[j][t.claims[j][b].supersedes].state = "closed"
    BY DEF TerminalRecords
  <2>1. /\ s.claims[j][b].supersedes \in Attempts \cup {NoAttempt}
        /\ c.supersedes \in Attempts \cup {NoAttempt}
    BY <1>3 DEF Claims
  <2>2. CASE j = i /\ b = a
    BY <1>2, <1>5, <2>1, <2>2
  <2>3. CASE ~(j = i /\ b = a)
    <3>1. t.claims[j][b] = s.claims[j][b]
      BY <1>2, <2>3
    <3>2. t.claims[j][b].supersedes # NoAttempt =>
             s.claims[j][t.claims[j][b].supersedes].state = "closed"
      BY <3>1 DEF StoreOK, TerminalRecords
    <3>3. t.claims[j][b].supersedes # NoAttempt =>
             t.claims[j][t.claims[j][b].supersedes].state = "closed"
      BY <1>2, <1>5, <2>1, <3>1, <3>2
    <3>4. QED BY <3>1, <3>3 DEF StoreOK, TerminalRecords
  <2>4. QED BY <2>2, <2>3
<1>12. HistoryKept(s, t)
  <2> SUFFICES ASSUME NEW j \in Items, NEW b \in Attempts, s.claims[j][b].state # "absent"
               PROVE  /\ t.claims[j][b] = s.claims[j][b]
                      /\ s.claims[j][b].supersedes # NoAttempt =>
                           t.claims[j][s.claims[j][b].supersedes].state = "closed"
    BY DEF HistoryKept
  <2>1. t.claims[j][b] = s.claims[j][b]
    BY <1>2, <1>5
  <2>2. QED BY <1>11, <2>1 DEF TerminalRecords
<1>13. QED BY <1>2, <1>7, <1>8, <1>9, <1>10, <1>11, <1>12 DEF StoreOK, t

\* t is well formed, continues the history of s and differs from it in the
\* record of one attempt: what each of the four store operations achieves.
Changes(s, t, i, a, c) ==
    /\ t \in Stores /\ StoreOK(t) /\ HistoryKept(s, t)
    /\ \A j \in Items : \A b \in Attempts :
          t.claims[j][b] = IF j = i /\ b = a THEN c ELSE s.claims[j][b]

(***************************************************************************)
(* ExpireClaim rewrites a live record: released or ambiguous afterwards,   *)
(* with the same identity and lease, and the live pointer is empty.        *)
(***************************************************************************)
LEMMA ExpireOK ==
    ASSUME NEW s \in Stores, NEW i \in Items, NEW a \in Attempts, NEW n \in BOOLEAN,
           StoreOK(s), s.claims[i][a].state \in LiveStates
    PROVE  \E c \in Claims :
              /\ Changes(s, ExpireClaim(s, i, a, n), i, a, c)
              /\ c.state = IF n /\ s.claims[i][a].state = "claimed" THEN "released" ELSE "ambiguous"
              /\ c.id = s.claims[i][a].id /\ c.gen = s.claims[i][a].gen
              /\ c.executor = s.claims[i][a].executor /\ c.lease = s.claims[i][a].lease
              /\ ExpireClaim(s, i, a, n).live[i] = NoAttempt
<1> DEFINE o == s.claims[i][a]
           st == IF n /\ o.state = "claimed" THEN "released" ELSE "ambiguous"
           c == [o EXCEPT !.state = st]
           t == Put(s, i, a, c, NoAttempt, s.gen[i], s.seq + 1)
<1>1. o \in Claims
  BY DEF Stores
<1>2. st \in {"released", "ambiguous"}
  OBVIOUS
<1>3. /\ c \in Claims /\ c.state = st /\ c.id = o.id /\ c.gen = o.gen
      /\ c.executor = o.executor /\ c.lease = o.lease /\ c.supersedes = o.supersedes
      /\ c.terminal = o.terminal
  <2> HIDE DEF o, st
  <2>1. QED BY <1>1, <1>2 DEF Claims, ClaimStates
<1>4. s.live[i] = a
  BY DEF StoreOK, LivePointers
<1>5. o.terminal = "none" /\ o.state # "closed"
  BY DEF StoreOK, TerminalRecords, LiveStates
<1>6. Present(s, i, a)
  BY DEF Present, LiveStates
<1>7. t = ExpireClaim(s, i, a, n)
  BY DEF ExpireClaim
<1>8. c.state \notin LiveStates /\ c.state # "absent" /\ c.state # "closed"
  BY <1>2, <1>3 DEF LiveStates
<1> HIDE DEF c
<1>9. t \in Stores /\ StoreOK(t) /\ HistoryKept(s, t)
  BY <1>3, <1>4, <1>5, <1>6, <1>8, RewriteOK
<1>10. /\ \A j \in Items : \A b \in Attempts :
             t.claims[j][b] = IF j = i /\ b = a THEN c ELSE s.claims[j][b]
       /\ t.live[i] = NoAttempt
  BY <1>3 DEF Put, Stores
<1>11. QED
  <2> HIDE DEF t, o, st
  <2>1. Changes(s, t, i, a, c)
    BY <1>9, <1>10 DEF Changes
  <2>2. st = IF n /\ o.state = "claimed" THEN "released" ELSE "ambiguous"
    BY DEF st
  <2>3. QED BY <1>3, <1>7, <1>10, <2>1, <2>2 DEF o

(***************************************************************************)
(* RenewClaim rewrites a live record: it is running afterwards, with the   *)
(* same identity.                                                          *)
(***************************************************************************)
LEMMA RenewOK ==
    ASSUME NEW s \in Stores, NEW i \in Items, NEW a \in Attempts, NEW l \in Nat,
           now \in Nat, StoreOK(s), s.claims[i][a].state \in LiveStates
    PROVE  \E c \in Claims :
              /\ Changes(s, RenewClaim(s, i, a, l), i, a, c)
              /\ c.state = "running"
              /\ c.id = s.claims[i][a].id /\ c.gen = s.claims[i][a].gen
              /\ c.executor = s.claims[i][a].executor
<1> DEFINE o == s.claims[i][a]
           u == IF l > 0 THEN now + l ELSE o.lease
           c == [o EXCEPT !.state = "running", !.lease = u]
           t == Put(s, i, a, c, s.live[i], s.gen[i], s.seq + 1)
<1>1. o \in Claims /\ s.live[i] \in Attempts \cup {NoAttempt}
  BY DEF Stores
<1>2. u \in Nat
  BY <1>1 DEF Claims
<1>3. /\ c \in Claims /\ c.state = "running" /\ c.id = o.id /\ c.gen = o.gen
      /\ c.executor = o.executor /\ c.supersedes = o.supersedes
      /\ c.terminal = o.terminal
  <2> HIDE DEF o, u
  <2>1. QED BY <1>1, <1>2 DEF Claims, ClaimStates, LiveStates
<1>5. o.terminal = "none" /\ o.state # "closed"
  BY DEF StoreOK, TerminalRecords, LiveStates
<1>6. Present(s, i, a)
  BY DEF Present, LiveStates
<1>7. t = RenewClaim(s, i, a, l)
  BY DEF RenewClaim
<1>8. c.state \in LiveStates /\ c.state # "absent" /\ c.state # "closed"
  BY <1>3 DEF LiveStates
<1> HIDE DEF c
<1>9. t \in Stores /\ StoreOK(t) /\ HistoryKept(s, t)
  BY <1>1, <1>3, <1>5, <1>6, <1>8, RewriteOK
<1>10. \A j \in Items : \A b \in Attempts :
          t.claims[j][b] = IF j = i /\ b = a THEN c ELSE s.claims[j][b]
  BY <1>1, <1>3 DEF Put, Stores
<1>11. QED
  <2> HIDE DEF t, o
  <2>1. Changes(s, t, i, a, c)
    BY <1>9, <1>10 DEF Changes
  <2>3. QED BY <1>3, <1>7, <2>1 DEF o

(***************************************************************************)
(* CloseClaim rewrites a record that Close accepts: it is closed           *)
(* afterwards.                                                             *)
(***************************************************************************)
LEMMA CloseOK ==
    ASSUME NEW s \in Stores, NEW i \in Items, NEW a \in Attempts,
           NEW m \in Terminals \ {"none"}, NEW v \in BOOLEAN,
           StoreOK(s), Present(s, i, a), Closable(s.claims[i][a], m, v)
    PROVE  \E c \in Claims :
              /\ Changes(s, CloseClaim(s, i, a, m, v), i, a, c)
              /\ c.state = "closed"
<1> DEFINE o == s.claims[i][a]
           w == v /\ m = "succeeded"
           c == [o EXCEPT !.state = "closed", !.terminal = m, !.evidence = w]
           l == IF s.live[i] = a THEN NoAttempt ELSE s.live[i]
           t == Put(s, i, a, c, l, s.gen[i], s.seq + 1)
<1>1. o \in Claims /\ l \in Attempts \cup {NoAttempt}
  BY DEF Stores
<1>2. w \in BOOLEAN /\ (m = "succeeded" => w)
  BY DEF Closable
<1>3. /\ c \in Claims /\ c.state = "closed" /\ c.id = o.id /\ c.gen = o.gen
      /\ c.executor = o.executor /\ c.supersedes = o.supersedes
      /\ c.terminal = m /\ c.evidence = w
  <2> HIDE DEF o, w
  <2>1. QED BY <1>1, <1>2 DEF Claims, ClaimStates
<1>5. o.state # "closed"
  BY DEF Closable
<1>7. t = CloseClaim(s, i, a, m, v)
  BY DEF CloseClaim, ClosedClaim
<1>8. c.state \notin LiveStates /\ c.state # "absent"
  BY <1>3 DEF LiveStates
<1>a. /\ c.state = "closed" <=> c.terminal # "none"
      /\ c.terminal = "succeeded" => c.evidence
  <2> HIDE DEF c, w
  <2>1. QED BY <1>2, <1>3
<1>b. l = IF c.state \notin LiveStates /\ s.live[i] = a THEN NoAttempt ELSE s.live[i]
  BY <1>8
<1> HIDE DEF c, l
<1>9. t \in Stores /\ StoreOK(t) /\ HistoryKept(s, t)
  BY <1>1, <1>3, <1>5, <1>8, <1>a, <1>b, RewriteOK
<1>10. \A j \in Items : \A b \in Attempts :
          t.claims[j][b] = IF j = i /\ b = a THEN c ELSE s.claims[j][b]
  BY <1>1, <1>3 DEF Put, Stores
<1>11. QED
  <2> HIDE DEF t, o
  <2>1. Changes(s, t, i, a, c)
    BY <1>9, <1>10 DEF Changes
  <2>3. QED BY <1>3, <1>7, <2>1 DEF o

(***************************************************************************)
(* GrantClaim adds the next generation of an item that has no live claim.  *)
(***************************************************************************)
LEMMA NewClaimOK ==
    ASSUME NEW s \in Stores, NEW i \in Items, NEW a \in Attempts, NEW e \in Executors,
           NEW l \in Nat, NEW x \in Attempts \cup {NoAttempt}, now \in Nat,
           StoreOK(s), ~Present(s, i, a), s.live[i] = NoAttempt, SupersedesOK(s, i, x)
    PROVE  \E c \in Claims :
              /\ Changes(s, GrantClaim(s, e, i, a, l, x), i, a, c)
              /\ c.state = "claimed" /\ c.executor = e
<1> DEFINE c == NewClaim(s, e, i, l, x)
           q == s.seq + (IF x = NoAttempt THEN 2 ELSE 3)
           t == Put(s, i, a, c, a, s.gen[i] + 1, q)
<1>1. s.seq \in Nat /\ s.gen[i] \in Nat
  BY DEF Stores
<1>2. q \in Nat /\ q >= s.seq + 1
  BY <1>1
<1>3. LeaseUntil(l) \in Nat
  BY DEF LeaseUntil
<1>4. /\ c \in Claims /\ c.state = "claimed" /\ c.id = s.seq + 1 /\ c.gen = s.gen[i] + 1
      /\ c.executor = e /\ c.terminal = "none" /\ c.supersedes = x
  BY <1>1, <1>3 DEF NewClaim, Claims, ClaimStates, LiveStates, Terminals
<1>5. c.executor # NoExecutor
  BY <1>4, ClaimConstants
<1>6. t = GrantClaim(s, e, i, a, l, x)
  BY DEF GrantClaim
<1>a. c.supersedes # NoAttempt => s.claims[i][c.supersedes].state = "closed"
  BY <1>4 DEF SupersedesOK
<1> HIDE DEF c, q
<1>7. t \in Stores /\ StoreOK(t) /\ HistoryKept(s, t)
  BY <1>2, <1>4, <1>5, <1>a, GrantOK
<1>8. \A j \in Items : \A b \in Attempts :
         t.claims[j][b] = IF j = i /\ b = a THEN c ELSE s.claims[j][b]
  BY <1>4 DEF Put, Stores
<1>9. QED
  <2> HIDE DEF t
  <2>1. Changes(s, t, i, a, c)
    BY <1>7, <1>8 DEF Changes
  <2>2. QED BY <1>4, <1>6, <2>1

----------------------------------------------------------------------------
(***************************************************************************)
(* A success that is recorded stays recorded.                              *)
(***************************************************************************)
LEMMA SucceededKept ==
    ASSUME NEW s, NEW t, NEW i \in Items, HistoryKept(s, t), LogicalSucceeded(s, i)
    PROVE  LogicalSucceeded(t, i)
  BY DEF HistoryKept, LogicalSucceeded

(***************************************************************************)
(* A valid graph names only its own items in its edges.                    *)
(***************************************************************************)
LEMMA PredsAreItems ==
    ASSUME GraphValid, NEW i \in Items, NEW d \in HardPreds(Graph, i)
    PROVE  d \in Items
<1>1. PICK h \in Graph.deps : h.from = d
  BY DEF HardPreds, HardEdges
<1>2. QED BY <1>1 DEF GraphValid, ValidateExecutable, ValidateGraph, Items

(***************************************************************************)
(* Rewriting a record that exists, or adding one whose predecessors have   *)
(* succeeded, keeps every claim behind its predecessors.                   *)
(***************************************************************************)
LEMMA DepsKept ==
    ASSUME NEW s, NEW t, NEW i \in Items, NEW a \in Attempts, NEW c \in Claims,
           Changes(s, t, i, a, c), DepsSucceededIn(s),
           \/ Present(s, i, a)
           \/ /\ GraphValid
              /\ \A d \in HardPreds(Graph, i) :
                    Graph.term[d] = "succeeded" \/ LogicalSucceeded(s, d)
    PROVE  DepsSucceededIn(t)
<1> SUFFICES ASSUME NEW j \in Items, NEW b \in Attempts, t.claims[j][b].state # "absent"
             PROVE  /\ GraphValid
                    /\ \A d \in HardPreds(Graph, j) :
                          Graph.term[d] = "succeeded" \/ LogicalSucceeded(t, d)
  BY DEF DepsSucceededIn
<1>1. /\ GraphValid
      /\ \A d \in HardPreds(Graph, j) :
            Graph.term[d] = "succeeded" \/ LogicalSucceeded(s, d)
  <2>1. CASE j = i /\ b = a
    BY <2>1 DEF DepsSucceededIn, Present
  <2>2. CASE ~(j = i /\ b = a)
    BY <2>2 DEF DepsSucceededIn, Changes
  <2>3. QED BY <2>1, <2>2
<1>2. HistoryKept(s, t)
  BY DEF Changes
<1>3. QED BY <1>1, <1>2, SucceededKept, PredsAreItems

(***************************************************************************)
(* Whatever evidence the caller brought, an item it found ready has all    *)
(* its hard predecessors succeeded in the ledger.                          *)
(***************************************************************************)
LEMMA ReadyIsBacked ==
    ASSUME IInv, NEW e \in Executors, NEW i \in Items, GraphValid,
           Lifecycle(Graph, view[e], i) = "ready", NEW d \in HardPreds(Graph, i)
    PROVE  Graph.term[d] = "succeeded" \/ LogicalSucceeded(disk, d)
<1> DEFINE t == Effective(Graph, view[e])
<1>1. d \in Items
  BY PredsAreItems
<1>2. t[d] = IF view[e][d] # "none" THEN view[e][d] ELSE Graph.term[d]
  BY <1>1 DEF Effective, Items
<1> HIDE DEF t
<1>3. t[d] = "succeeded"
  <2>1. ~Blocks(Graph, t, i, d) /\ ~OptionalFailed(Graph, t, i, d)
    BY DEF Lifecycle, t
  <2>2. QED BY <2>1 DEF Blocks
<1>4. view[e][d] = "succeeded" => LogicalSucceeded(disk, d)
  BY <1>1 DEF IInv, ViewsBacked
<1>5. QED BY <1>2, <1>3, <1>4

(***************************************************************************)
(* The facts about the file hold in the next state of the store that is on *)
(* disk there.                                                             *)
(***************************************************************************)
LEMMA FileFacts ==
    ASSUME NEW t, disk' = t, StoreOK(t), DepsSucceededIn(t)
    PROVE  StoreOK(disk)' /\ DepsSucceeded'
<1>1. (LivePointers(disk) /\ Counters(disk))'
  BY DEF StoreOK, LivePointers, Counters, Present
<1>2. (UniqueIds(disk) /\ OrderedGenerations(disk))'
  BY DEF StoreOK, UniqueIds, OrderedGenerations, Present
<1>3. TerminalRecords(disk)'
  BY DEF StoreOK, TerminalRecords
<1>4. DepsSucceeded'
  BY DEF DepsSucceeded, DepsSucceededIn, LogicalSucceeded
<1>5. QED BY <1>1, <1>2, <1>3, <1>4 DEF StoreOK

(***************************************************************************)
(* A step that leaves the file alone keeps the facts about it and the      *)
(* history.                                                                *)
(***************************************************************************)
LEMMA FileUntouched ==
    ASSUME IInv, disk' = disk
    PROVE  StoreOK(disk)' /\ DepsSucceeded' /\ HistoryKept(disk, disk')
<1>1. StoreOK(disk) /\ DepsSucceededIn(disk)
  BY DEF IInv, DepsSucceeded
<1>2. HistoryKept(disk, disk)
  BY <1>1 DEF StoreOK, TerminalRecords, HistoryKept
<1>3. QED BY <1>1, <1>2, FileFacts

(***************************************************************************)
(* Commit of a store that extends the one on disk keeps the invariant.     *)
(***************************************************************************)
LEMMA CommitOK ==
    ASSUME IInv, SingleProcess, NEW p \in Procs, NEW t \in Stores,
           StoreOK(t), HistoryKept(disk, t), DepsSucceededIn(t),
           NEW got \in SUBSET Handles, NEW left \in SUBSET Handles,
           HoldingIn(t, got), HoldingIn(t, left),
           CommitSaved(p, t, got) \/ CommitDied(p, t, left),
           now' = now, view' = view
    PROVE  IInv' /\ HistoryKept(disk, disk')
<1>1. disk' = t
  BY DEF CommitSaved, CommitDied
<1>2. TypeOK'
  <2>1. NewStore \in Stores
    BY ClaimConstants DEF NewStore, NoClaim, Stores, Claims, ClaimStates, Terminals
  <2>2. CASE CommitSaved(p, t, got)
    BY <2>2 DEF IInv, TypeOK, CommitSaved
  <2>3. CASE CommitDied(p, t, left)
    BY <2>1, <2>3 DEF IInv, TypeOK, CommitDied
  <2>4. QED BY <2>2, <2>3
<1>3. MemIsDisk'
  <2> SUFFICES ASSUME NEW q \in Procs, up'[q] PROVE mem'[q] = disk'
    BY DEF MemIsDisk
  <2>1. q = p /\ mem \in [Procs -> Stores] /\ up \in [Procs -> BOOLEAN]
    BY DEF SingleProcess, IInv, TypeOK
  <2>2. CASE CommitSaved(p, t, got)
    BY <2>1, <2>2 DEF CommitSaved
  <2>3. CASE CommitDied(p, t, left)
    BY <2>1, <2>3 DEF CommitDied
  <2>4. QED BY <2>2, <2>3
<1>4. HoldingIn(disk, holding)'
  <2>1. holding' = got \/ holding' = left
    BY DEF CommitSaved, CommitDied
  <2>2. QED BY <1>1, <2>1 DEF HoldingIn, Expired
<1>5. ViewsBacked'
  BY <1>1, SucceededKept DEF IInv, ViewsBacked
<1>6. StoreOK(disk)' /\ DepsSucceeded'
  BY <1>1, FileFacts
<1>7. QED BY <1>1, <1>2, <1>3, <1>4, <1>5, <1>6 DEF IInv

(***************************************************************************)
(* A record that no handle outside H names, or whose identity and lease    *)
(* stay while it is live or expired, leaves the handles in H backed.       *)
(***************************************************************************)
LEMMA HoldingKept ==
    ASSUME IInv, NEW t, NEW i \in Items, NEW a \in Attempts, NEW c \in Claims,
           Changes(disk, t, i, a, c), NEW H \in SUBSET holding,
           \/ \A h \in H : ~(h.item = i /\ h.attempt = a)
           \/ /\ c.state # "absent" /\ c.id = disk.claims[i][a].id
              /\ c.gen = disk.claims[i][a].gen
              /\ c.executor = disk.claims[i][a].executor
              /\ c.lease = disk.claims[i][a].lease
              /\ ~Expired(c.lease) => c.state \in LiveStates
    PROVE  HoldingIn(t, H)
<1> SUFFICES ASSUME NEW h \in H
             PROVE  LET d == t.claims[h.item][h.attempt] IN
                    /\ d.state # "absent" /\ d.id = h.id /\ d.gen = h.gen
                    /\ d.executor = h.executor /\ d.lease = h.lease
                    /\ ~Expired(h.lease) => d.state \in LiveStates
  BY DEF HoldingIn
<1>1. h.item \in Items /\ h.attempt \in Attempts
  BY DEF IInv, TypeOK, Handles
<1>2. LET d == disk.claims[h.item][h.attempt] IN
      /\ d.state # "absent" /\ d.id = h.id /\ d.gen = h.gen
      /\ d.executor = h.executor /\ d.lease = h.lease
      /\ ~Expired(h.lease) => d.state \in LiveStates
  BY DEF IInv, HoldingIn
<1>3. t.claims[h.item][h.attempt] =
        IF h.item = i /\ h.attempt = a THEN c ELSE disk.claims[h.item][h.attempt]
  BY <1>1 DEF Changes
<1>4. QED BY <1>2, <1>3

(***************************************************************************)
(* The handle of a record is well typed once an executor holds it.         *)
(***************************************************************************)
LEMMA HandleOK ==
    ASSUME NEW t \in Stores, NEW i \in Items, NEW a \in Attempts,
           t.claims[i][a].executor \in Executors, t.claims[i][a].state \in LiveStates
    PROVE  Handle(t, i, a) \in Handles /\ HoldingIn(t, {Handle(t, i, a)})
<1>1. t.claims[i][a] \in Claims
  BY DEF Stores
<1>2. Handle(t, i, a) \in Handles
  BY <1>1 DEF Handle, Handles, Claims
<1>3. HoldingIn(t, {Handle(t, i, a)})
  BY DEF HoldingIn, Handle, LiveStates
<1>4. QED BY <1>2, <1>3

(***************************************************************************)
(* Handles backed apart are backed together.                               *)
(***************************************************************************)
LEMMA HoldingUnion ==
    ASSUME NEW t, NEW G, NEW H, HoldingIn(t, G), HoldingIn(t, H)
    PROVE  HoldingIn(t, G \cup H)
  BY Zenon DEF HoldingIn

(***************************************************************************)
(* History kept twice is history kept.                                     *)
(***************************************************************************)
LEMMA HistoryTransitive ==
    ASSUME NEW r \in Stores, NEW s, NEW t, HistoryKept(r, s), HistoryKept(s, t)
    PROVE  HistoryKept(r, t)
<1> SUFFICES ASSUME NEW j \in Items, NEW b \in Attempts, r.claims[j][b].state # "absent"
             PROVE  LET o == r.claims[j][b]
                        d == t.claims[j][b]
                    IN  /\ d.state # "absent" /\ d.id = o.id /\ d.gen = o.gen
                        /\ d.executor = o.executor
                        /\ o.state = "closed" => d = o
                        /\ o.supersedes # NoAttempt =>
                              t.claims[j][o.supersedes].state = "closed"
  BY DEF HistoryKept
<1>1. LET o == r.claims[j][b]
          d == s.claims[j][b]
      IN  /\ d.state # "absent" /\ d.id = o.id /\ d.gen = o.gen
          /\ d.executor = o.executor
          /\ o.state = "closed" => d = o
          /\ o.supersedes # NoAttempt => s.claims[j][o.supersedes].state = "closed"
  BY DEF HistoryKept
<1>2. r.claims[j][b].supersedes \in Attempts \cup {NoAttempt}
  BY DEF Stores, Claims
<1>3. \A a \in Attempts :
         LET o == s.claims[j][a]
             d == t.claims[j][a]
         IN  o.state # "absent" =>
               /\ d.state # "absent" /\ d.id = o.id /\ d.gen = o.gen
               /\ d.executor = o.executor
               /\ o.state = "closed" => d = o
  BY DEF HistoryKept
<1>4. QED BY <1>1, <1>2, <1>3

(***************************************************************************)
(* Granting on a store that is the one on disk, possibly with one record   *)
(* of the item released, keeps the invariant.                              *)
(***************************************************************************)
LEMMA GrantStep ==
    ASSUME IInv, SingleProcess, NEW p \in Procs, NEW s \in Stores,
           StoreOK(s), HistoryKept(disk, s), DepsSucceededIn(s), HoldingIn(s, holding),
           NEW e \in Executors, NEW i \in Items, NEW a \in Attempts, NEW l \in Nat,
           NEW x \in Attempts \cup {NoAttempt},
           GraphValid,
           \A d \in HardPreds(Graph, i) :
              Graph.term[d] = "succeeded" \/ LogicalSucceeded(disk, d),
           ~Present(s, i, a), s.live[i] = NoAttempt, SupersedesOK(s, i, x),
           Grant(p, s, e, i, a, l, x), now' = now, view' = view
    PROVE  IInv' /\ HistoryKept(disk, disk')
<1> DEFINE t == GrantClaim(s, e, i, a, l, x)
<1>1. now \in Nat
  BY DEF IInv, TypeOK
<1>2. PICK c \in Claims : Changes(s, t, i, a, c) /\ c.state = "claimed" /\ c.executor = e
  BY <1>1, NewClaimOK
<1>3. CommitSaved(p, t, holding \cup {Handle(t, i, a)}) \/ CommitDied(p, t, holding)
  BY DEF Grant
<1> HIDE DEF t
<1>4. t \in Stores /\ StoreOK(t) /\ HistoryKept(s, t)
  BY <1>2 DEF Changes
<1>5. HistoryKept(disk, t)
  BY <1>4, HistoryTransitive DEF IInv, TypeOK
<1>6. DepsSucceededIn(t)
  <2>1. \A d \in HardPreds(Graph, i) :
           Graph.term[d] = "succeeded" \/ LogicalSucceeded(s, d)
    BY SucceededKept, PredsAreItems
  <2>2. QED BY <1>2, <2>1, DepsKept
<1>7. t.claims[i][a] = c
  BY <1>2 DEF Changes
<1>8. Handle(t, i, a) \in Handles /\ HoldingIn(t, {Handle(t, i, a)})
  BY <1>2, <1>4, <1>7, HandleOK DEF LiveStates
<1>9. HoldingIn(t, holding)
  <2> SUFFICES ASSUME NEW h \in holding
               PROVE  LET d == t.claims[h.item][h.attempt] IN
                      /\ d.state # "absent" /\ d.id = h.id /\ d.gen = h.gen
                      /\ d.executor = h.executor /\ d.lease = h.lease
                      /\ ~Expired(h.lease) => d.state \in LiveStates
    BY DEF HoldingIn
  <2>1. h.item \in Items /\ h.attempt \in Attempts
    BY DEF IInv, TypeOK, Handles
  <2>2. LET d == s.claims[h.item][h.attempt] IN
        /\ d.state # "absent" /\ d.id = h.id /\ d.gen = h.gen
        /\ d.executor = h.executor /\ d.lease = h.lease
        /\ ~Expired(h.lease) => d.state \in LiveStates
    BY DEF HoldingIn
  <2>3. t.claims[h.item][h.attempt] = s.claims[h.item][h.attempt]
    BY <1>2, <2>1, <2>2 DEF Changes, Present
  <2>4. QED BY <2>2, <2>3
<1>10. HoldingIn(t, holding \cup {Handle(t, i, a)})
  BY <1>8, <1>9, HoldingUnion
<1>11. holding \in SUBSET Handles /\ holding \cup {Handle(t, i, a)} \in SUBSET Handles
  BY <1>8 DEF IInv, TypeOK
<1> DEFINE H == holding \cup {Handle(t, i, a)}
<1> HIDE DEF H
<1>12. H \in SUBSET Handles /\ HoldingIn(t, H)
  BY <1>10, <1>11 DEF H
<1>13. CommitSaved(p, t, H) \/ CommitDied(p, t, holding)
  BY <1>3 DEF H
<1>14. QED BY <1>4, <1>5, <1>6, <1>9, <1>11, <1>12, <1>13, CommitOK

----------------------------------------------------------------------------
(***************************************************************************)
(* Steps that leave the ledger, the processes and the handles alone.       *)
(***************************************************************************)
LEMMA QuietStep ==
    ASSUME IInv, UNCHANGED <<mem, up, disk, holding>>, now' = now, view' = view
    PROVE  IInv' /\ HistoryKept(disk, disk')
<1>1. (TypeOK /\ MemIsDisk)'
  BY DEF IInv, TypeOK, MemIsDisk
<1>2. HoldingIn(disk, holding)'
  BY DEF IInv, HoldingIn, Expired
<1>3. ViewsBacked'
  BY DEF IInv, ViewsBacked, LogicalSucceeded
<1>4. QED BY <1>1, <1>2, <1>3, FileUntouched DEF IInv

(***************************************************************************)
(* The expired record a claim finds, its release or ambiguity, and what    *)
(* that does to the ledger.                                                *)
(***************************************************************************)
LEMMA ExpireStep ==
    ASSUME IInv, NEW p \in Procs, up[p], NEW i \in Items, NEW a \in Attempts,
           HasExpired(p, i, a), NEW n \in BOOLEAN
    PROVE  LET b == ExpiredRecord(p, i, a)
               r == ExpireClaim(mem[p], i, b, n)
           IN  /\ b \in Attempts
               /\ r \in Stores /\ StoreOK(r) /\ HistoryKept(disk, r)
               /\ DepsSucceededIn(r) /\ HoldingIn(r, holding)
               /\ r.live[i] = NoAttempt
               /\ \A d \in Attempts : Present(r, i, d) => Present(disk, i, d)
<1>1. mem[p] = disk /\ disk \in Stores /\ StoreOK(disk)
  BY DEF IInv, TypeOK, MemIsDisk
<1> DEFINE b == ExpiredRecord(p, i, a)
           r == ExpireClaim(disk, i, b, n)
<1>2. /\ b \in Attempts /\ disk.claims[i][b].state \in LiveStates
      /\ Expired(disk.claims[i][b].lease)
  <2>1. disk.live[i] \in Attempts \cup {NoAttempt}
    BY <1>1 DEF Stores
  <2>2. QED BY <1>1, <2>1 DEF HasExpired, ExpiredRecord, LiveAttempt
<1> HIDE DEF b
<1>3. PICK c \in Claims :
        /\ Changes(disk, r, i, b, c)
        /\ c.state = IF n /\ disk.claims[i][b].state = "claimed" THEN "released" ELSE "ambiguous"
        /\ c.id = disk.claims[i][b].id /\ c.gen = disk.claims[i][b].gen
        /\ c.executor = disk.claims[i][b].executor /\ c.lease = disk.claims[i][b].lease
        /\ r.live[i] = NoAttempt
  BY <1>1, <1>2, ExpireOK
<1> HIDE DEF r
<1>4. r \in Stores /\ StoreOK(r) /\ HistoryKept(disk, r)
  BY <1>3 DEF Changes
<1>5. Present(disk, i, b)
  BY <1>2 DEF Present, LiveStates
<1>6. DepsSucceededIn(r)
  BY <1>2, <1>3, <1>5, DepsKept DEF IInv, DepsSucceeded
<1>7. HoldingIn(r, holding)
  <2>1. c.state # "absent" /\ Expired(c.lease)
    BY <1>2, <1>3
  <2>2. QED BY <1>2, <1>3, <2>1, HoldingKept
<1>8. \A d \in Attempts : Present(r, i, d) => Present(disk, i, d)
  BY <1>2, <1>3, <1>5 DEF Changes, Present
<1>9. QED BY <1>1, <1>2, <1>3, <1>4, <1>6, <1>7, <1>8 DEF b, r

(***************************************************************************)
(* A call of Claim keeps the invariant, whichever of its exits it takes.   *)
(***************************************************************************)
LEMMA ClaimStep ==
    ASSUME IInv, SingleProcess, NEW p \in Procs, NEW e \in Executors, NEW i \in Items,
           NEW a \in Attempts, NEW l \in Leases, NEW n \in BOOLEAN,
           NEW x \in Attempts \cup {NoAttempt}, Claim(p, e, i, a, l, n, x)
    PROVE  IInv' /\ HistoryKept(disk, disk')
<1>1. up[p] /\ now' = now /\ view' = view /\ l \in Nat
  BY ClaimConstants DEF Claim
<1>2. mem[p] = disk /\ disk \in Stores /\ StoreOK(disk) /\ holding \in SUBSET Handles
  BY <1>1 DEF IInv, TypeOK, MemIsDisk
<1>3. CASE ClaimRefused(p, e, i, a, x)
  BY <1>1, <1>3, QuietStep DEF ClaimRefused
<1>4. CASE ClaimExpires(p, e, i, a, n)
  <2> DEFINE r == ExpireClaim(mem[p], i, ExpiredRecord(p, i, a), n)
  <2>1. /\ HasExpired(p, i, a)
        /\ CommitSaved(p, r, holding) \/ CommitFailed \/ CommitDied(p, r, holding)
    BY <1>4 DEF ClaimExpires, Commit
  <2>2. /\ r \in Stores /\ StoreOK(r) /\ HistoryKept(disk, r)
        /\ DepsSucceededIn(r) /\ HoldingIn(r, holding)
    BY <1>1, <2>1, ExpireStep
  <2> HIDE DEF r
  <2>3. CASE CommitFailed
    BY <1>1, <2>3, QuietStep DEF CommitFailed
  <2>4. CASE CommitSaved(p, r, holding) \/ CommitDied(p, r, holding)
    BY <1>1, <1>2, <2>2, <2>4, CommitOK
  <2>5. QED BY <2>1, <2>3, <2>4
<1>5. Claimable(p, e, i) =>
        /\ GraphValid
        /\ \A d \in HardPreds(Graph, i) :
              Graph.term[d] = "succeeded" \/ LogicalSucceeded(disk, d)
  BY ReadyIsBacked DEF Claimable
<1>6. CASE n /\ ClaimReplaces(p, e, i, a, l, x)
  <2> DEFINE b == ExpiredRecord(p, i, a)
             r == ExpireClaim(mem[p], i, b, TRUE)
  <2>1. /\ Claimable(p, e, i) /\ HasExpired(p, i, a) /\ b # a
        /\ SupersedesOK(r, i, x) /\ Grant(p, r, e, i, a, l, x)
    BY <1>6 DEF ClaimReplaces
  <2>2. /\ r \in Stores /\ StoreOK(r) /\ HistoryKept(disk, r)
        /\ DepsSucceededIn(r) /\ HoldingIn(r, holding) /\ r.live[i] = NoAttempt
        /\ \A d \in Attempts : Present(r, i, d) => Present(disk, i, d)
    BY <1>1, <2>1, ExpireStep
  <2>3. ~Present(disk, i, a)
    BY <1>2, <2>1 DEF ExpiredRecord, Present
  <2> HIDE DEF r, b
  <2>4. QED BY <1>1, <1>5, <2>1, <2>2, <2>3, GrantStep
<1>7. CASE ClaimGrants(p, e, i, a, l, x)
  <2>1. /\ Claimable(p, e, i) /\ ~Present(disk, i, a) /\ disk.live[i] = NoAttempt
        /\ SupersedesOK(disk, i, x)
        /\ Grant(p, disk, e, i, a, l, x) \/ CommitFailed
    BY <1>2, <1>7 DEF ClaimGrants, LiveAttempt, Present
  <2>2. HistoryKept(disk, disk) /\ DepsSucceededIn(disk) /\ HoldingIn(disk, holding)
    BY DEF IInv, StoreOK, TerminalRecords, HistoryKept, DepsSucceeded
  <2>3. CASE CommitFailed
    BY <1>1, <2>3, QuietStep DEF CommitFailed
  <2>4. CASE Grant(p, disk, e, i, a, l, x)
    BY <1>1, <1>2, <1>5, <2>1, <2>2, <2>4, GrantStep
  <2>5. QED BY <2>1, <2>3, <2>4
<1>8. QED BY <1>3, <1>4, <1>6, <1>7 DEF Claim

(***************************************************************************)
(* A fenced record is named by no handle left after Without.               *)
(***************************************************************************)
LEMMA WithoutOK ==
    ASSUME IInv, NEW i \in Items, NEW a \in Attempts, NEW h, NEW e, Fenced(disk, i, a, h, e)
    PROVE  /\ Without(h) \in SUBSET holding
           /\ \A g \in Without(h) : ~(g.item = i /\ g.attempt = a)
  BY DEF Fenced, Without, IInv, HoldingIn

(***************************************************************************)
(* A call of Renew keeps the invariant.                                    *)
(***************************************************************************)
LEMMA RenewStep ==
    ASSUME IInv, SingleProcess, NEW p \in Procs, NEW e \in Executors, NEW l \in Leases,
           NEW h, Renew(p, h, e, l)
    PROVE  IInv' /\ HistoryKept(disk, disk')
<1>1. up[p] /\ now' = now /\ view' = view /\ l \in Nat
  BY ClaimConstants DEF Renew
<1>2. /\ mem[p] = disk /\ disk \in Stores /\ StoreOK(disk) /\ holding \in SUBSET Handles
      /\ now \in Nat
  BY <1>1 DEF IInv, TypeOK, MemIsDisk
<1>3. CASE UNCHANGED <<mem, up, disk, holding>>
  BY <1>1, <1>3, QuietStep
<1>4. ASSUME NEW i \in Items, NEW a \in Attempts, Fenced(mem[p], i, a, h, e),
             mem[p].claims[i][a].state \in LiveStates,
             Commit(p, RenewClaim(mem[p], i, a, l),
                    Without(h) \cup {Handle(RenewClaim(mem[p], i, a, l), i, a)}, Without(h))
      PROVE  IInv' /\ HistoryKept(disk, disk')
  <2> DEFINE t == RenewClaim(disk, i, a, l)
             H == Without(h) \cup {Handle(t, i, a)}
  <2>1. PICK c \in Claims :
          /\ Changes(disk, t, i, a, c) /\ c.state = "running"
          /\ c.id = disk.claims[i][a].id /\ c.gen = disk.claims[i][a].gen
          /\ c.executor = disk.claims[i][a].executor
    BY <1>1, <1>2, <1>4, RenewOK
  <2>2. CommitSaved(p, t, H) \/ CommitFailed \/ CommitDied(p, t, Without(h))
    BY <1>2, <1>4 DEF Commit
  <2> HIDE DEF t
  <2>3. t \in Stores /\ StoreOK(t) /\ HistoryKept(disk, t) /\ t.claims[i][a] = c
    BY <2>1 DEF Changes
  <2>4. Present(disk, i, a) /\ Fenced(disk, i, a, h, e)
    BY <1>2, <1>4 DEF Present, LiveStates
  <2>5. DepsSucceededIn(t)
    BY <2>1, <2>4, DepsKept DEF IInv, DepsSucceeded
  <2>6. Without(h) \in SUBSET holding /\ HoldingIn(t, Without(h))
    BY <2>1, <2>4, WithoutOK, HoldingKept
  <2>7. Handle(t, i, a) \in Handles /\ HoldingIn(t, {Handle(t, i, a)})
    BY <2>1, <2>3, <2>4, HandleOK DEF Fenced, LiveStates
  <2>8. H \in SUBSET Handles /\ Without(h) \in SUBSET Handles /\ HoldingIn(t, H)
    BY <1>2, <2>6, <2>7, HoldingUnion
  <2> HIDE DEF H
  <2>9. CASE CommitFailed
    BY <1>1, <2>9, QuietStep DEF CommitFailed
  <2>10. CASE CommitSaved(p, t, H) \/ CommitDied(p, t, Without(h))
    BY <1>1, <2>3, <2>5, <2>6, <2>8, <2>10, CommitOK
  <2>11. QED BY <2>2, <2>9, <2>10
<1>5. QED BY <1>3, <1>4 DEF Renew, FenceMismatch

(***************************************************************************)
(* A call of Close keeps the invariant.                                    *)
(***************************************************************************)
LEMMA CloseStep ==
    ASSUME IInv, SingleProcess, NEW p \in Procs, NEW e \in Executors,
           NEW m \in CloseTerminals, NEW v \in BOOLEAN, NEW h, Close(p, h, e, m, v)
    PROVE  IInv' /\ HistoryKept(disk, disk')
<1>1. up[p] /\ now' = now /\ view' = view /\ m \in Terminals \ {"none"}
  BY ClaimConstants DEF Close
<1>2. mem[p] = disk /\ disk \in Stores /\ StoreOK(disk) /\ holding \in SUBSET Handles
  BY <1>1 DEF IInv, TypeOK, MemIsDisk
<1>3. CASE UNCHANGED <<mem, up, disk, holding>>
  BY <1>1, <1>3, QuietStep
<1>4. ASSUME NEW i \in Items, NEW a \in Attempts, Fenced(mem[p], i, a, h, e),
             Closable(mem[p].claims[i][a], m, v),
             Commit(p, CloseClaim(mem[p], i, a, m, v), Without(h), Without(h))
      PROVE  IInv' /\ HistoryKept(disk, disk')
  <2> DEFINE t == CloseClaim(disk, i, a, m, v)
  <2>1. Present(disk, i, a) /\ Fenced(disk, i, a, h, e) /\ Closable(disk.claims[i][a], m, v)
    BY <1>2, <1>4 DEF Present, Fenced
  <2>2. PICK c \in Claims : Changes(disk, t, i, a, c) /\ c.state = "closed"
    BY <1>1, <1>2, <2>1, CloseOK
  <2>3. CommitSaved(p, t, Without(h)) \/ CommitFailed \/ CommitDied(p, t, Without(h))
    BY <1>2, <1>4 DEF Commit
  <2> HIDE DEF t
  <2>4. t \in Stores /\ StoreOK(t) /\ HistoryKept(disk, t)
    BY <2>2 DEF Changes
  <2>5. DepsSucceededIn(t)
    BY <2>1, <2>2, DepsKept DEF IInv, DepsSucceeded
  <2>6. Without(h) \in SUBSET Handles /\ HoldingIn(t, Without(h))
    BY <1>2, <2>1, <2>2, WithoutOK, HoldingKept
  <2>7. CASE CommitFailed
    BY <1>1, <2>7, QuietStep DEF CommitFailed
  <2>8. CASE CommitSaved(p, t, Without(h)) \/ CommitDied(p, t, Without(h))
    BY <1>1, <2>4, <2>5, <2>6, <2>8, CommitOK
  <2>9. QED BY <2>3, <2>7, <2>8
<1>5. QED BY <1>3, <1>4 DEF Close, FenceMismatch

(***************************************************************************)
(* Evidence an executor reads is evidence the ledger has.                  *)
(***************************************************************************)
LEMMA AcceptedBacked ==
    ASSUME NEW s \in Stores
    PROVE  /\ AcceptedTerminals(s) \in [Items -> Terminals]
           /\ \A i \in Items :
                 AcceptedTerminals(s)[i] = "succeeded" => LogicalSucceeded(s, i)
<1> SUFFICES ASSUME NEW i \in Items
             PROVE  /\ AcceptedTerminals(s)[i] \in Terminals
                    /\ AcceptedTerminals(s)[i] = "succeeded" => LogicalSucceeded(s, i)
  BY DEF AcceptedTerminals
<1> DEFINE N == NewestClosed(s, i)
           a == CHOOSE b \in N : TRUE
<1>1. AcceptedTerminals(s)[i] = IF N = {} THEN "none" ELSE s.claims[i][a].terminal
  BY DEF AcceptedTerminals
<1>2. CASE N = {}
  BY <1>1, <1>2 DEF Terminals
<1>3. CASE N # {}
  <2>1. a \in N
    BY <1>3
  <2>2. a \in Attempts /\ s.claims[i][a].state = "closed"
    BY <2>1 DEF NewestClosed
  <2> HIDE DEF a, N
  <2>3. s.claims[i][a].terminal \in Terminals
    BY <2>2 DEF Stores, Claims
  <2>4. QED BY <1>1, <1>3, <2>2, <2>3 DEF LogicalSucceeded
<1>4. QED BY <1>2, <1>3

(***************************************************************************)
(* Opening the file and losing the process keep the invariant.             *)
(***************************************************************************)
LEMMA ProcessStep ==
    ASSUME IInv, SingleProcess, NEW p \in Procs, OpenPath(p) \/ Crash(p)
    PROVE  IInv' /\ HistoryKept(disk, disk')
<1>1. UNCHANGED <<disk, now, view, holding>>
  BY DEF OpenPath, Crash
<1>2. mem' \in [Procs -> Stores] /\ up' \in [Procs -> BOOLEAN]
  <2>1. NewStore \in Stores
    BY ClaimConstants DEF NewStore, NoClaim, Stores, Claims, ClaimStates, Terminals
  <2>2. QED BY <2>1 DEF OpenPath, Crash, IInv, TypeOK
<1>3. MemIsDisk'
  BY DEF OpenPath, Crash, IInv, TypeOK, MemIsDisk, SingleProcess
<1>4. HoldingIn(disk, holding)'
  BY <1>1 DEF IInv, HoldingIn, Expired
<1>5. ViewsBacked'
  BY <1>1 DEF IInv, ViewsBacked, LogicalSucceeded
<1>6. TypeOK'
  BY <1>1, <1>2 DEF IInv, TypeOK
<1>7. QED BY <1>1, <1>3, <1>4, <1>5, <1>6, FileUntouched DEF IInv

(***************************************************************************)
(* Reading the accepted terminals keeps the invariant.                     *)
(***************************************************************************)
LEMMA ReadStep ==
    ASSUME IInv, NEW p \in Procs, NEW e \in Executors, ReadEvidence(p, e)
    PROVE  IInv' /\ HistoryKept(disk, disk')
<1>1. UNCHANGED <<mem, up, disk, now, holding>> /\ mem[p] = disk /\ disk \in Stores
  BY DEF ReadEvidence, IInv, MemIsDisk, TypeOK
<1>2. view' = [view EXCEPT ![e] = AcceptedTerminals(disk)]
  BY <1>1 DEF ReadEvidence
<1>3. TypeOK'
  BY <1>1, <1>2, AcceptedBacked DEF IInv, TypeOK
<1>4. ViewsBacked'
  <2> SUFFICES ASSUME NEW f \in Executors, NEW i \in Items, view'[f][i] = "succeeded"
               PROVE  LogicalSucceeded(disk, i)
    BY <1>1 DEF ViewsBacked, LogicalSucceeded
  <2>1. view \in [Executors -> [Items -> Terminals]]
    BY DEF IInv, TypeOK
  <2>2. CASE f = e
    BY <1>1, <1>2, <2>1, <2>2, AcceptedBacked
  <2>3. CASE f # e
    BY <1>2, <2>1, <2>3 DEF IInv, ViewsBacked
  <2>4. QED BY <2>2, <2>3
<1>5. MemIsDisk'
  BY <1>1 DEF IInv, MemIsDisk
<1>6. HoldingIn(disk, holding)'
  BY <1>1 DEF IInv, HoldingIn, Expired
<1>7. QED BY <1>1, <1>3, <1>4, <1>5, <1>6, FileUntouched DEF IInv

(***************************************************************************)
(* Time only makes leases expire.                                          *)
(***************************************************************************)
LEMMA TickStep ==
    ASSUME IInv, Tick
    PROVE  IInv' /\ HistoryKept(disk, disk')
<1>1. UNCHANGED <<mem, up, disk, view, holding>> /\ now' = now + 1 /\ now \in Nat
  BY DEF Tick, IInv, TypeOK
<1>2. HoldingIn(disk, holding)'
  <2> SUFFICES ASSUME NEW h \in holding
               PROVE  LET c == disk.claims[h.item][h.attempt] IN
                      /\ c.state # "absent" /\ c.id = h.id /\ c.gen = h.gen
                      /\ c.executor = h.executor /\ c.lease = h.lease
                      /\ ~(h.lease # 0 /\ now + 1 > h.lease) => c.state \in LiveStates
    BY <1>1 DEF HoldingIn, Expired
  <2>1. h.lease \in Nat
    BY DEF IInv, TypeOK, Handles
  <2>2. QED BY <1>1, <2>1 DEF IInv, HoldingIn, Expired
<1>3. (TypeOK /\ MemIsDisk)'
  BY <1>1 DEF IInv, TypeOK, MemIsDisk
<1>4. ViewsBacked'
  BY <1>1 DEF IInv, ViewsBacked, LogicalSucceeded
<1>5. QED BY <1>1, <1>2, <1>3, <1>4, FileUntouched DEF IInv

----------------------------------------------------------------------------
(***************************************************************************)
(* An empty ledger satisfies the invariant.                                *)
(***************************************************************************)
LEMMA InitOK == ASSUME Init PROVE IInv
<1>1. NewStore \in Stores
  BY ClaimConstants DEF NewStore, NoClaim, Stores, Claims, ClaimStates, Terminals
<1>2. TypeOK
  BY <1>1 DEF Init, TypeOK, Terminals
<1>3. /\ \A i \in Items : \A a \in Attempts : NewStore.claims[i][a] = NoClaim
      /\ \A i \in Items : NewStore.live[i] = NoAttempt /\ NewStore.gen[i] = 0
  BY DEF NewStore
<1>4. /\ NoClaim.state = "absent" /\ NoClaim.terminal = "none"
      /\ NoClaim.supersedes = NoAttempt
  BY DEF NoClaim
<1>5. StoreOK(NewStore)
  BY <1>3, <1>4 DEF StoreOK, LivePointers, Counters, UniqueIds, Present,
                    OrderedGenerations, TerminalRecords, LiveStates
<1>6. DepsSucceededIn(NewStore)
  BY <1>3, <1>4 DEF DepsSucceededIn
<1>7. QED BY <1>2, <1>5, <1>6 DEF Init, IInv, MemIsDisk, HoldingIn, ViewsBacked, DepsSucceeded

(***************************************************************************)
(* Every step of the one process keeps the invariant and the history.      *)
(***************************************************************************)
LEMMA NextOK ==
    ASSUME IInv, SingleProcess, [Next]_vars
    PROVE  IInv' /\ HistoryKept(disk, disk')
<1>1. CASE UNCHANGED vars
  BY <1>1, QuietStep DEF vars
<1>2. ASSUME NEW p \in Procs, OpenPath(p) \/ Crash(p) PROVE IInv' /\ HistoryKept(disk, disk')
  BY <1>2, ProcessStep
<1>3. ASSUME NEW p \in Procs, NEW e \in Executors, ReadEvidence(p, e)
      PROVE  IInv' /\ HistoryKept(disk, disk')
  BY <1>3, ReadStep
<1>4. ASSUME NEW p \in Procs, NEW e \in Executors, NEW i \in Items, NEW a \in Attempts,
             NEW l \in Leases, NEW n \in BOOLEAN, NEW x \in Attempts \cup {NoAttempt},
             Claim(p, e, i, a, l, n, x)
      PROVE  IInv' /\ HistoryKept(disk, disk')
  BY <1>4, ClaimStep
<1>5. ASSUME NEW p \in Procs, NEW e \in Executors, NEW l \in Leases,
             NEW h \in holding \cup AllClaims(mem[p]), Renew(p, h, e, l)
      PROVE  IInv' /\ HistoryKept(disk, disk')
  BY <1>5, RenewStep
<1>6. ASSUME NEW p \in Procs, NEW e \in Executors, NEW m \in CloseTerminals, NEW v \in BOOLEAN,
             NEW h \in holding \cup AllClaims(mem[p]), Close(p, h, e, m, v)
      PROVE  IInv' /\ HistoryKept(disk, disk')
  BY <1>6, CloseStep
<1>7. CASE Tick
  BY <1>7, TickStep
<1>8. QED BY <1>1, <1>2, <1>3, <1>4, <1>5, <1>6, <1>7 DEF Next

(***************************************************************************)
(* A well-formed store passes every check of load.                         *)
(***************************************************************************)
LEMMA WellFormedLoads ==
    ASSUME NEW s \in Stores, StoreOK(s) PROVE LoadOK(s)
<1>1. \A i \in Items : \A a \in Attempts : s.claims[i][a] \in Claims /\ s.gen[i] \in Nat
  BY DEF Stores
<1>2. ASSUME NEW i \in Items PROVE s.gen[i] = RecomputedGen(s, i)
  <2> DEFINE gens == {0} \cup {s.claims[i][a].gen : a \in Attempts}
  <2>1. gens \subseteq Nat
    BY <1>1 DEF Claims
  <2>2. s.gen[i] \in Nat
    BY DEF Stores
  <2>3. s.gen[i] \in gens
    BY <2>2 DEF StoreOK, Counters
  <2>4. \A n \in gens : n <= s.gen[i]
    <3>1. ASSUME NEW a \in Attempts PROVE s.claims[i][a].gen <= s.gen[i]
      BY <1>1, <2>2 DEF StoreOK, Counters, NoClaim
    <3>2. QED BY <2>2, <3>1
  <2> HIDE DEF gens
  <2>5. \A n \in gens : (\A m \in gens : m <= n) => n = s.gen[i]
    <3> SUFFICES ASSUME NEW n \in gens, \A m \in gens : m <= n PROVE n = s.gen[i]
      OBVIOUS
    <3>1. n \in Nat /\ n <= s.gen[i] /\ s.gen[i] <= n
      BY <2>1, <2>3, <2>4
    <3>2. QED BY <2>2, <3>1
  <2>6. (CHOOSE n \in gens : \A m \in gens : m <= n) = s.gen[i]
    BY <2>3, <2>4, <2>5
  <2>7. QED BY <2>6 DEF RecomputedGen, gens
<1>3. ASSUME NEW i \in Items, NEW a \in Attempts, s.claims[i][a].state # "absent"
      PROVE  LET c == s.claims[i][a] IN
            /\ c.id > 0 /\ c.gen > 0 /\ c.executor # NoExecutor
            /\ \A j \in Items : \A b \in Attempts :
                  s.claims[j][b].state # "absent" /\ s.claims[j][b].id = c.id
                     => j = i /\ b = a
            /\ c.state = "closed" =>
                  /\ c.terminal # "none"
                  /\ c.terminal = "succeeded" => c.evidence
            /\ c.state # "closed" => c.terminal = "none"
            /\ c.state \in LiveStates => s.live[i] # NoAttempt
            /\ c.state \in LiveStates =>
                  \A b \in Attempts : s.claims[i][b].state \in LiveStates => b = a
  <2>1. s.claims[i][a].id > 0 /\ s.claims[i][a].gen > 0 /\ s.claims[i][a].executor # NoExecutor
    BY <1>1, <1>3 DEF StoreOK, Counters, Present, Claims
  <2>2. \A j \in Items : \A b \in Attempts :
           s.claims[j][b].state # "absent" /\ s.claims[j][b].id = s.claims[i][a].id
              => j = i /\ b = a
    BY <1>3 DEF StoreOK, UniqueIds, Present
  <2>3. s.claims[i][a].state \in LiveStates =>
           /\ s.live[i] # NoAttempt
           /\ \A b \in Attempts : s.claims[i][b].state \in LiveStates => b = a
    BY ClaimConstants DEF StoreOK, LivePointers
  <2>4. /\ s.claims[i][a].state = "closed" <=> s.claims[i][a].terminal # "none"
        /\ s.claims[i][a].terminal = "succeeded" => s.claims[i][a].evidence
    BY DEF StoreOK, TerminalRecords
  <2>5. QED BY <2>1, <2>2, <2>3, <2>4
<1>4. QED BY <1>2, <1>3 DEF LoadOK, StoreOK, LivePointers

(***************************************************************************)
(* What the invariant implies of the properties the runs check.            *)
(***************************************************************************)
LEMMA Consequences ==
    ASSUME IInv
    PROVE  ExclusiveLease /\ GrantDurable /\ DepsSucceeded
<1>1. DepsSucceeded
  BY DEF IInv
<1>2. GrantDurable
  BY DEF IInv, HoldingIn, GrantDurable
<1>3. ExclusiveLease
  BY DEF IInv, TypeOK, Handles, HoldingIn, StoreOK, LivePointers, ExclusiveLease
<1>4. QED BY <1>1, <1>2, <1>3

(***************************************************************************)
(* With one process on the file, the invariants of the ledger hold in      *)
(* every behaviour, whatever the graph, the leases and the failures of     *)
(* save, answer and process.                                               *)
(***************************************************************************)
THEOREM LedgerInductive == ASSUME SingleProcess PROVE Spec => []IInv
<1>1. Init => IInv
  BY InitOK
<1>2. IInv /\ [Next]_vars => IInv'
  BY NextOK
<1>3. QED BY <1>1, <1>2, PTL DEF Spec

(***************************************************************************)
(* No two callers hold unexpired leases on one item.                       *)
(***************************************************************************)
THEOREM LeaseExclusion == ASSUME SingleProcess PROVE Spec => []ExclusiveLease
<1>1. IInv => ExclusiveLease
  BY Consequences
<1>2. QED BY <1>1, LedgerInductive, PTL

(***************************************************************************)
(* Every answered grant is on disk and stays there.                        *)
(***************************************************************************)
THEOREM GrantsAreDurable == ASSUME SingleProcess PROVE Spec => []GrantDurable
<1>1. IInv => GrantDurable
  BY Consequences
<1>2. QED BY <1>1, LedgerInductive, PTL

(***************************************************************************)
(* Stale evidence never lets an item overtake a hard predecessor.          *)
(***************************************************************************)
THEOREM ClaimsFollowDependencies == ASSUME SingleProcess PROVE Spec => []DepsSucceeded
<1>1. IInv => DepsSucceeded
  BY Consequences
<1>2. QED BY <1>1, LedgerInductive, PTL

(***************************************************************************)
(* Closed attempts, identities and supersessions are never rewritten.      *)
(***************************************************************************)
THEOREM HistoryNeverRewritten == ASSUME SingleProcess PROVE Spec => HistoryImmutable
<1>1. IInv /\ [Next]_vars => [HistoryKept(disk, disk')]_vars
  BY NextOK
<1>2. QED BY <1>1, LedgerInductive, PTL DEF Spec, HistoryImmutable
----------------------------------------------------------------------------
(***************************************************************************)
(* Several processes on one file: what survives without SingleProcess.     *)
(* Writing a well-formed copy back keeps every copy well formed.           *)
(***************************************************************************)
LEMMA SharedCommit ==
    ASSUME SharedInv, NEW p \in Procs, NEW t \in Stores, StoreOK(t),
           NEW got \in SUBSET Handles, NEW left \in SUBSET Handles,
           CommitSaved(p, t, got) \/ CommitDied(p, t, left), now' = now, view' = view
    PROVE  SharedInv'
<1>1. NewStore \in Stores
  BY ClaimConstants DEF NewStore, NoClaim, Stores, Claims, ClaimStates, Terminals
<1>2. mem \in [Procs -> Stores] /\ up \in [Procs -> BOOLEAN] /\ disk' = t
  BY DEF SharedInv, TypeOK, CommitSaved, CommitDied
<1>3. mem' \in [Procs -> Stores] /\ up' \in [Procs -> BOOLEAN] /\ holding' \in SUBSET Handles
  BY <1>1, <1>2 DEF CommitSaved, CommitDied
<1>4. TypeOK'
  BY <1>2, <1>3 DEF SharedInv, TypeOK
<1>5. ASSUME NEW q \in Procs, up'[q] PROVE StoreOK(mem'[q])
  <2>1. mem'[q] = t \/ (up[q] /\ mem'[q] = mem[q])
    BY <1>2, <1>5 DEF CommitSaved, CommitDied
  <2>2. StoreOK(mem[q]) \/ ~up[q]
    BY DEF SharedInv
  <2>3. QED BY <2>1, <2>2
<1>6. StoreOK(disk') /\ \A q \in Procs : up'[q] => StoreOK(mem'[q])
  BY <1>2, <1>5
<1>7. QED BY <1>4, <1>6 DEF SharedInv, StoreOK, LivePointers, Counters, UniqueIds,
                            OrderedGenerations, TerminalRecords, Present

(***************************************************************************)
(* A step that writes no store, opens one or loses one.                    *)
(***************************************************************************)
LEMMA SharedQuiet ==
    ASSUME SharedInv, TypeOK', disk' = disk,
           \A q \in Procs : up'[q] => mem'[q] = disk \/ (up[q] /\ mem'[q] = mem[q])
    PROVE  SharedInv'
<1>1. ASSUME NEW q \in Procs, up'[q] PROVE StoreOK(mem'[q])
  <2>1. mem'[q] = disk \/ (up[q] /\ mem'[q] = mem[q])
    BY <1>1
  <2>2. StoreOK(disk) /\ (up[q] => StoreOK(mem[q]))
    BY DEF SharedInv
  <2>3. QED BY <2>1, <2>2
<1>2. StoreOK(disk') /\ \A q \in Procs : up'[q] => StoreOK(mem'[q])
  BY <1>1 DEF SharedInv
<1>3. QED BY <1>2 DEF SharedInv, StoreOK, LivePointers, Counters, UniqueIds,
                      OrderedGenerations, TerminalRecords, Present

(***************************************************************************)
(* Refusals and failed saves leave every copy as it was.                   *)
(***************************************************************************)
LEMMA SharedRefused ==
    ASSUME SharedInv, UNCHANGED <<mem, up, disk, holding>>, now' = now, view' = view
    PROVE  SharedInv'
<1>1. TypeOK'
  BY DEF SharedInv, TypeOK
<1>2. QED BY <1>1, SharedQuiet

(***************************************************************************)
(* A grant on a well-formed copy, however stale.                           *)
(***************************************************************************)
LEMMA SharedGrant ==
    ASSUME SharedInv, NEW p \in Procs, NEW s \in Stores, StoreOK(s),
           NEW e \in Executors, NEW i \in Items, NEW a \in Attempts, NEW l \in Nat,
           NEW x \in Attempts \cup {NoAttempt},
           ~Present(s, i, a), s.live[i] = NoAttempt, SupersedesOK(s, i, x),
           Grant(p, s, e, i, a, l, x), now' = now, view' = view
    PROVE  SharedInv'
<1> DEFINE t == GrantClaim(s, e, i, a, l, x)
           H == holding \cup {Handle(t, i, a)}
<1>1. now \in Nat /\ holding \in SUBSET Handles
  BY DEF SharedInv, TypeOK
<1>2. PICK c \in Claims : Changes(s, t, i, a, c) /\ c.state = "claimed" /\ c.executor = e
  BY <1>1, NewClaimOK
<1>3. CommitSaved(p, t, H) \/ CommitDied(p, t, holding)
  BY DEF Grant
<1> HIDE DEF t
<1>4. t \in Stores /\ StoreOK(t) /\ t.claims[i][a] = c
  BY <1>2 DEF Changes
<1>5. Handle(t, i, a) \in Handles
  BY <1>2, <1>4, HandleOK DEF LiveStates
<1>6. H \in SUBSET Handles
  BY <1>1, <1>5
<1> HIDE DEF H
<1>7. QED BY <1>1, <1>3, <1>4, <1>6, SharedCommit

(***************************************************************************)
(* A call of Claim on a copy that other processes may have overtaken.      *)
(***************************************************************************)
LEMMA SharedClaim ==
    ASSUME SharedInv, NEW p \in Procs, NEW e \in Executors, NEW i \in Items,
           NEW a \in Attempts, NEW l \in Leases, NEW n \in BOOLEAN,
           NEW x \in Attempts \cup {NoAttempt}, Claim(p, e, i, a, l, n, x)
    PROVE  SharedInv'
<1> DEFINE s == mem[p]
           b == ExpiredRecord(p, i, a)
<1>1. up[p] /\ now' = now /\ view' = view /\ l \in Nat
  BY ClaimConstants DEF Claim
<1>2. s \in Stores /\ StoreOK(s) /\ holding \in SUBSET Handles
  BY <1>1 DEF SharedInv, TypeOK
<1>3. CASE ClaimRefused(p, e, i, a, x)
  BY <1>1, <1>3, SharedRefused DEF ClaimRefused
<1>4. ASSUME HasExpired(p, i, a), NEW m \in BOOLEAN
      PROVE  LET r == ExpireClaim(s, i, b, m) IN
             /\ r \in Stores /\ StoreOK(r) /\ r.live[i] = NoAttempt
             /\ \A d \in Attempts : Present(r, i, d) => Present(s, i, d)
  <2>1. s.live[i] \in Attempts \cup {NoAttempt}
    BY <1>2 DEF Stores
  <2>2. b \in Attempts /\ s.claims[i][b].state \in LiveStates
    BY <1>4, <2>1 DEF HasExpired, ExpiredRecord, LiveAttempt
  <2> HIDE DEF s, b
  <2>3. PICK c \in Claims :
           /\ Changes(s, ExpireClaim(s, i, b, m), i, b, c)
           /\ ExpireClaim(s, i, b, m).live[i] = NoAttempt
    BY <1>2, <2>2, ExpireOK
  <2>4. Present(s, i, b)
    BY <2>2 DEF Present, LiveStates
  <2>5. QED BY <2>3, <2>4 DEF Changes, Present
<1>5. CASE ClaimExpires(p, e, i, a, n)
  <2> DEFINE r == ExpireClaim(s, i, b, n)
  <2>1. /\ HasExpired(p, i, a)
        /\ CommitSaved(p, r, holding) \/ CommitFailed \/ CommitDied(p, r, holding)
    BY <1>5 DEF ClaimExpires, Commit
  <2>2. r \in Stores /\ StoreOK(r)
    BY <1>4, <2>1
  <2> HIDE DEF r, s, b
  <2>3. CASE CommitFailed
    BY <1>1, <2>3, SharedRefused DEF CommitFailed
  <2>4. CASE CommitSaved(p, r, holding) \/ CommitDied(p, r, holding)
    BY <1>1, <1>2, <2>2, <2>4, SharedCommit
  <2>5. QED BY <2>1, <2>3, <2>4
<1>6. CASE n /\ ClaimReplaces(p, e, i, a, l, x)
  <2> DEFINE r == ExpireClaim(s, i, b, TRUE)
  <2>1. /\ HasExpired(p, i, a) /\ b # a
        /\ SupersedesOK(r, i, x) /\ Grant(p, r, e, i, a, l, x)
    BY <1>6 DEF ClaimReplaces
  <2>2. /\ r \in Stores /\ StoreOK(r) /\ r.live[i] = NoAttempt
        /\ \A d \in Attempts : Present(r, i, d) => Present(s, i, d)
    BY <1>4, <2>1
  <2>3. ~Present(s, i, a)
    BY <2>1 DEF ExpiredRecord, Present
  <2> HIDE DEF r, s, b
  <2>4. QED BY <1>1, <2>1, <2>2, <2>3, SharedGrant
<1>7. CASE ClaimGrants(p, e, i, a, l, x)
  <2>1. /\ ~Present(s, i, a) /\ s.live[i] = NoAttempt /\ SupersedesOK(s, i, x)
        /\ Grant(p, s, e, i, a, l, x) \/ CommitFailed
    BY <1>7 DEF ClaimGrants, LiveAttempt, Present
  <2> HIDE DEF s
  <2>2. CASE CommitFailed
    BY <1>1, <2>2, SharedRefused DEF CommitFailed
  <2>3. CASE Grant(p, s, e, i, a, l, x)
    BY <1>1, <1>2, <2>1, <2>3, SharedGrant
  <2>4. QED BY <2>1, <2>2, <2>3
<1>8. QED BY <1>3, <1>5, <1>6, <1>7 DEF Claim

(***************************************************************************)
(* Renew and Close on such a copy.                                         *)
(***************************************************************************)
LEMMA SharedRenew ==
    ASSUME SharedInv, NEW p \in Procs, NEW e \in Executors, NEW l \in Leases,
           NEW h, Renew(p, h, e, l)
    PROVE  SharedInv'
<1>1. up[p] /\ now' = now /\ view' = view /\ l \in Nat
  BY ClaimConstants DEF Renew
<1>2. mem[p] \in Stores /\ StoreOK(mem[p]) /\ holding \in SUBSET Handles /\ now \in Nat
  BY <1>1 DEF SharedInv, TypeOK
<1>3. CASE UNCHANGED <<mem, up, disk, holding>>
  BY <1>1, <1>3, SharedRefused
<1>4. ASSUME NEW i \in Items, NEW a \in Attempts, Fenced(mem[p], i, a, h, e),
             mem[p].claims[i][a].state \in LiveStates,
             Commit(p, RenewClaim(mem[p], i, a, l),
                    Without(h) \cup {Handle(RenewClaim(mem[p], i, a, l), i, a)}, Without(h))
      PROVE  SharedInv'
  <2> DEFINE t == RenewClaim(mem[p], i, a, l)
             H == Without(h) \cup {Handle(t, i, a)}
  <2>1. PICK c \in Claims :
          /\ Changes(mem[p], t, i, a, c) /\ c.state = "running"
          /\ c.executor = mem[p].claims[i][a].executor
    BY <1>1, <1>2, <1>4, RenewOK
  <2>2. CommitSaved(p, t, H) \/ CommitFailed \/ CommitDied(p, t, Without(h))
    BY <1>4 DEF Commit
  <2> HIDE DEF t
  <2>3. t \in Stores /\ StoreOK(t) /\ t.claims[i][a] = c
    BY <2>1 DEF Changes
  <2>4. Handle(t, i, a) \in Handles
    BY <1>4, <2>1, <2>3, HandleOK DEF Fenced, LiveStates
  <2>5. Without(h) \in SUBSET Handles /\ H \in SUBSET Handles
    BY <1>2, <2>4 DEF Without
  <2> HIDE DEF H
  <2>6. CASE CommitFailed
    BY <1>1, <2>6, SharedRefused DEF CommitFailed
  <2>7. CASE CommitSaved(p, t, H) \/ CommitDied(p, t, Without(h))
    BY <1>1, <2>3, <2>5, <2>7, SharedCommit
  <2>8. QED BY <2>2, <2>6, <2>7
<1>5. QED BY <1>3, <1>4 DEF Renew, FenceMismatch

LEMMA SharedClose ==
    ASSUME SharedInv, NEW p \in Procs, NEW e \in Executors,
           NEW m \in CloseTerminals, NEW v \in BOOLEAN, NEW h, Close(p, h, e, m, v)
    PROVE  SharedInv'
<1>1. up[p] /\ now' = now /\ view' = view /\ m \in Terminals \ {"none"}
  BY ClaimConstants DEF Close
<1>2. mem[p] \in Stores /\ StoreOK(mem[p]) /\ holding \in SUBSET Handles
  BY <1>1 DEF SharedInv, TypeOK
<1>3. CASE UNCHANGED <<mem, up, disk, holding>>
  BY <1>1, <1>3, SharedRefused
<1>4. ASSUME NEW i \in Items, NEW a \in Attempts, Fenced(mem[p], i, a, h, e),
             Closable(mem[p].claims[i][a], m, v),
             Commit(p, CloseClaim(mem[p], i, a, m, v), Without(h), Without(h))
      PROVE  SharedInv'
  <2> DEFINE t == CloseClaim(mem[p], i, a, m, v)
  <2>1. Present(mem[p], i, a)
    BY <1>4 DEF Present, Fenced
  <2>2. PICK c \in Claims : Changes(mem[p], t, i, a, c)
    BY <1>1, <1>2, <1>4, <2>1, CloseOK
  <2>3. CommitSaved(p, t, Without(h)) \/ CommitFailed \/ CommitDied(p, t, Without(h))
    BY <1>4 DEF Commit
  <2> HIDE DEF t
  <2>4. t \in Stores /\ StoreOK(t)
    BY <2>2 DEF Changes
  <2>5. Without(h) \in SUBSET Handles
    BY <1>2 DEF Without
  <2>6. CASE CommitFailed
    BY <1>1, <2>6, SharedRefused DEF CommitFailed
  <2>7. CASE CommitSaved(p, t, Without(h)) \/ CommitDied(p, t, Without(h))
    BY <1>1, <2>4, <2>5, <2>7, SharedCommit
  <2>8. QED BY <2>3, <2>6, <2>7
<1>5. QED BY <1>3, <1>4 DEF Close, FenceMismatch

(***************************************************************************)
(* Every step of any process keeps every copy well formed.                 *)
(***************************************************************************)
LEMMA SharedNext == ASSUME SharedInv, [Next]_vars PROVE SharedInv'
<1>1. CASE UNCHANGED vars
  BY <1>1, SharedRefused DEF vars
<1>2. ASSUME NEW p \in Procs, OpenPath(p) \/ Crash(p) PROVE SharedInv'
  <2>1. NewStore \in Stores
    BY ClaimConstants DEF NewStore, NoClaim, Stores, Claims, ClaimStates, Terminals
  <2>2. TypeOK'
    BY <1>2, <2>1 DEF OpenPath, Crash, SharedInv, TypeOK
  <2>3. /\ disk' = disk
        /\ \A q \in Procs : up'[q] => mem'[q] = disk \/ (up[q] /\ mem'[q] = mem[q])
    BY <1>2 DEF OpenPath, Crash, SharedInv, TypeOK
  <2>4. QED BY <2>2, <2>3, SharedQuiet
<1>3. ASSUME NEW p \in Procs, NEW e \in Executors, ReadEvidence(p, e) PROVE SharedInv'
  <2>1. mem[p] \in Stores
    BY DEF SharedInv, TypeOK
  <2>2. TypeOK' /\ UNCHANGED <<mem, up, disk>>
    BY <1>3, <2>1, AcceptedBacked DEF ReadEvidence, SharedInv, TypeOK
  <2>3. QED BY <2>2, SharedQuiet
<1>4. ASSUME NEW p \in Procs, NEW e \in Executors, NEW i \in Items, NEW a \in Attempts,
             NEW l \in Leases, NEW n \in BOOLEAN, NEW x \in Attempts \cup {NoAttempt},
             Claim(p, e, i, a, l, n, x)
      PROVE  SharedInv'
  BY <1>4, SharedClaim
<1>5. ASSUME NEW p \in Procs, NEW e \in Executors, NEW l \in Leases,
             NEW h \in holding \cup AllClaims(mem[p]), Renew(p, h, e, l)
      PROVE  SharedInv'
  BY <1>5, SharedRenew
<1>6. ASSUME NEW p \in Procs, NEW e \in Executors, NEW m \in CloseTerminals, NEW v \in BOOLEAN,
             NEW h \in holding \cup AllClaims(mem[p]), Close(p, h, e, m, v)
      PROVE  SharedInv'
  BY <1>6, SharedClose
<1>7. CASE Tick
  <2>1. TypeOK' /\ UNCHANGED <<mem, up, disk>>
    BY <1>7 DEF Tick, SharedInv, TypeOK
  <2>2. QED BY <2>1, SharedQuiet
<1>8. QED BY <1>1, <1>2, <1>3, <1>4, <1>5, <1>6, <1>7 DEF Next

(***************************************************************************)
(* However many processes share the file, every copy stays well formed.    *)
(***************************************************************************)
THEOREM CopiesStayWellFormed == Spec => []SharedInv
<1>1. Init => SharedInv
  BY InitOK DEF IInv, SharedInv, Init
<1>2. SharedInv /\ [Next]_vars => SharedInv'
  BY SharedNext
<1>3. QED BY <1>1, <1>2, PTL DEF Spec

(***************************************************************************)
(* The claim ledger stays well typed.                                      *)
(***************************************************************************)
THEOREM TypeCorrect == Spec => []TypeOK
<1>1. SharedInv => TypeOK
  BY DEF SharedInv
<1>2. QED BY <1>1, CopiesStayWellFormed, PTL

(***************************************************************************)
(* OpenPath accepts every file the ledger itself has written, even when    *)
(* processes overwrite each other's saves.                                 *)
(***************************************************************************)
THEOREM AlwaysReopens == Spec => []Reopens
<1>1. SharedInv => Reopens
  BY WellFormedLoads DEF SharedInv, TypeOK, Reopens
<1>2. QED BY <1>1, CopiesStayWellFormed, PTL

(***************************************************************************)
(* Generations of an item are distinct and ordered as their ids, even when *)
(* processes overwrite each other's saves.                                 *)
(***************************************************************************)
THEOREM GenerationsFence == Spec => []GenerationFence
<1>1. SharedInv => GenerationFence
  BY DEF SharedInv, StoreOK, OrderedGenerations, Present, GenerationFence
<1>2. QED BY <1>1, CopiesStayWellFormed, PTL
=============================================================================
