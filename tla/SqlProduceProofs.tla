-------------------------- MODULE SqlProduceProofs --------------------------
(***************************************************************************)
(* That IInv is an invariant of SqlProduce, for any sessions and bounds,   *)
(* and what follows from it: the LSO never passes a record in flight, the  *)
(* ring leaks no reservation, and a committed marker has a synced record.  *)
(* The conjuncts on ownership, reservations and durability are here, one   *)
(* lemma each with one step per action; the others are in SqlProduceLemmas.*)
(***************************************************************************)
EXTENDS SqlProduceLemmas

\* What RELEASE and ROLLBACK TO SAVEPOINT leave of the log and the markers.
LEMMA OwnerStep ==
  ASSUME TypeOK, SessionInv, NEW s \in Sessions, ReleaseSavepoint(s) \/ RollbackSub(s)
  PROVE  /\ Len(log') = Len(log)
         /\ DOMAIN log' = DOMAIN log
         /\ \A i \in DOMAIN log' : /\ i \in DOMAIN log /\ log'[i].kind = log[i].kind
                                   /\ log'[i].kind = "sql" => log'[i].xid = log[i].xid
         /\ \A m \in markers' : \E n \in markers : m.xid = n.xid /\ m.base = n.base
<1>1. pc[s] # "idle" /\ Nested(s)
  BY DEF ReleaseSavepoint, RollbackSub
<1>2. /\ Inner(s) \in 0 .. MaxSub /\ 0 \in 0 .. MaxSub /\ xid[s] \in Xids
      /\ subs[s][Len(subs[s]) - 1] \in 0 .. MaxSub
  BY SMTT(30), <1>1, StackFacts, ConstantFacts DEF SubIds
<1>3. CASE ReleaseSavepoint(s)
  <2>1. \A m \in markers' : \E n \in markers : m.xid = n.xid /\ m.base = n.base
    <3> SUFFICES ASSUME NEW m \in markers', m \notin markers
                 PROVE  \E n \in markers : m.xid = n.xid /\ m.base = n.base
      OBVIOUS
    <3>1. PICK n \in markers : m = [n EXCEPT !.sub = subs[s][Len(subs[s]) - 1]]
      BY <1>3 DEF ReleaseSavepoint, MarkersOf
    <3>2. QED
      BY <3>1 DEF TypeOK, Marker
  <2>2. log' = Handed(xid[s], Inner(s), subs[s][Len(subs[s]) - 1])
    BY <1>3 DEF ReleaseSavepoint
  <2> DEFINE parent == subs[s][Len(subs[s]) - 1]
             handed == Handed(xid[s], Inner(s), parent)
  <2>3. parent \in 0 .. MaxSub /\ log' = handed
    BY <1>2, <2>2
  <2> HIDE DEF parent
  <2>4. /\ Len(handed) = Len(log) /\ DOMAIN handed = DOMAIN log
        /\ \A i \in DOMAIN log : /\ handed[i].kind = log[i].kind
                                 /\ log[i].kind = "sql" => handed[i].xid = log[i].xid
    BY <1>2, <2>3, HandedFacts
  <2> HIDE DEF handed
  <2>5. QED
    BY <2>1, <2>3, <2>4
<1>4. CASE RollbackSub(s)
  <2>1. markers' \subseteq markers
    BY <1>4 DEF RollbackSub
  <2> DEFINE handed == Handed(xid[s], Inner(s), 0)
  <2>2. log' = handed
    BY <1>4 DEF RollbackSub
  <2>3. /\ Len(handed) = Len(log) /\ DOMAIN handed = DOMAIN log
        /\ \A i \in DOMAIN log : /\ handed[i].kind = log[i].kind
                                 /\ log[i].kind = "sql" => handed[i].xid = log[i].xid
    BY <1>2, HandedFacts
  <2> HIDE DEF handed
  <2>4. QED
    BY <2>1, <2>2, <2>3
<1>5. QED
  BY <1>3, <1>4

\* What an append leaves of the log.
LEMMA AppendStep ==
  ASSUME TypeOK, NEW r \in Record, log' = Append(log, r)
  PROVE  /\ Len(log) \in Nat /\ Len(log') = Len(log) + 1
         /\ DOMAIN log = 1 .. Len(log) /\ DOMAIN log' = 1 .. Len(log) + 1
         /\ \A i \in DOMAIN log : log'[i] = log[i]
         /\ log'[Len(log) + 1] = r
<1>1. log \in Seq(Record)
  BY DEF TypeOK
<1>2. QED
  BY <1>1, AppendProperties, LenProperties

\* A call's record is a record.
LEMMA ProducedRecord ==
  ASSUME TypeOK, SessionInv, NEW s \in Sessions, Produce(s)
  PROVE  [kind |-> "sql", xid |-> xid[s], gen |-> generation[s], sub |-> Inner(s)] \in Record
<1>1. Inner(s) \in SubIds /\ xid[s] \in Xids
  BY StackFacts DEF Produce
<1>2. QED
  BY <1>1, ConstantFacts DEF Record, SqlRecord, TypeOK, SubIds

\* What a crash leaves of the log.
LEMMA CrashStep ==
  ASSUME TypeOK, Crash
  PROVE  /\ DOMAIN log' \subseteq DOMAIN log
         /\ \A i \in DOMAIN log' : log'[i] = log[i]
         /\ Len(log') \in Nat /\ synced' = Len(log')
         /\ ~RestoreMayLoseSynced => synced' >= synced
<1>1. PICK n \in 0 .. Len(log) : /\ RestoreMayLoseSynced \/ n >= synced
                                 /\ log' = SubSeq(log, 1, n) /\ synced' = n
  BY DEF Crash
<1>2. log \in Seq(Record) /\ Len(log) \in Nat /\ DOMAIN log = 1 .. Len(log)
  BY DEF TypeOK
<1>3. Len(log') = n /\ DOMAIN log' = 1 .. n /\ \A i \in 1 .. n : log'[i] = log[i]
  BY <1>1, <1>2
<1>4. QED
  BY <1>1, <1>2, <1>3

\* The transactions the log and the markers name.
LEMMA XidsOfLog ==
  ASSUME TypeOK
  PROVE  /\ \A i \in DOMAIN log : log[i].kind = "sql" => log[i].xid \in Xids
         /\ \A m \in markers : m.xid \in Xids /\ m.base \in Nat
<1>1. \A i \in DOMAIN log : log[i] \in Record
  BY ElementOfSeq, LenProperties DEF TypeOK
<1>2. \A r \in Record : r.kind = "sql" => r.xid \in Xids
  BY DEF Record, WireRecord, SqlRecord
<1>3. \A m \in markers : m.xid \in Xids /\ m.base \in Nat
  BY ConstantFacts DEF TypeOK, Marker, Offsets
<1>4. QED
  BY <1>1, <1>2, <1>3

\* A step that adds neither a record, a marker nor a transaction keeps them owned.
LEMMA XidFrame ==
  ASSUME XidInv, UNCHANGED <<log, status, xid>>, markers' \subseteq markers
  PROVE  XidInv'
BY DEF XidInv

\* Every step keeps one session per running transaction.
LEMMA XidStep ==
  ASSUME IInv, Next
  PROVE  XidInv'
<1> USE DEF IInv
<1>1. ASSUME NEW s \in Sessions, Begin(s) PROVE XidInv'
  <2>1. PICK x \in Xids : /\ status[x] = "unused"
                          /\ status' = [status EXCEPT ![x] = "running"]
                          /\ xid' = [xid EXCEPT ![s] = x]
    BY ZenonT(40), <1>1 DEF Begin
  <2>2. \A t \in Sessions : xid[t] # 0 => xid[t] # x
    <3> SUFFICES ASSUME NEW t \in Sessions, xid[t] # 0 PROVE status[xid[t]] # "unused"
      BY <2>1
    <3>1. pc[t] # "idle" /\ pc[t] \in InTxn \cup {"visible", "gone"}
      BY DEF SessionInv, SessionOK, TypeOK, InTxn
    <3>2. QED
      BY <3>1 DEF SessionInv, SessionOK
  <2>3. xid[s] = 0 /\ x # 0
    BY <1>1, ConstantFacts DEF Begin, SessionInv, SessionOK, Xids
  <2>4. \A t, u \in Sessions : xid'[t] = xid'[u] /\ xid'[t] # 0 => t = u
    BY SMTT(30), <2>1, <2>2 DEF XidInv, TypeOK
  <2>5. \A y \in Xids : status'[y] = "running" => \E t \in Sessions : xid'[t] = y
    <3> SUFFICES ASSUME NEW y \in Xids, status'[y] = "running"
                 PROVE  \E t \in Sessions : xid'[t] = y
      OBVIOUS
    <3>1. CASE y = x
      BY <2>1, <3>1 DEF TypeOK
    <3>2. CASE y # x
      <4>1. status[y] = "running" /\ y # 0
        BY <2>1, <3>2, ConstantFacts DEF TypeOK, Xids
      <4>2. PICK t \in Sessions : xid[t] = y
        BY <4>1 DEF XidInv
      <4>3. t # s
        BY <2>3, <4>1, <4>2
      <4>4. xid'[t] = y
        BY <2>1, <4>2, <4>3 DEF TypeOK
      <4>5. QED
        BY <4>4
    <3>3. QED
      BY <3>1, <3>2
  <2>6. \A y \in Xids : status[y] # "unused" => status'[y] # "unused"
    BY <2>1 DEF TypeOK
  <2>7. /\ \A i \in DOMAIN log : log[i].kind = "sql" => log[i].xid \in Xids
        /\ \A m \in markers : m.xid \in Xids
    BY XidsOfLog
  <2>8. QED
    BY <1>1, <2>4, <2>5, <2>6, <2>7 DEF Begin, XidInv
<1>2. ASSUME NEW s \in Sessions, Savepoint(s) PROVE XidInv'
  <2>1. UNCHANGED <<log, status, xid>> /\ markers' \subseteq markers
    BY <1>2 DEF Savepoint
  <2>2. QED
    BY <2>1, XidFrame
<1>3. ASSUME NEW s \in Sessions, ReleaseSavepoint(s) PROVE XidInv'
  <2>1. status' = status /\ xid' = xid
    BY <1>3 DEF ReleaseSavepoint
  <2>2. \A i \in DOMAIN log' : log'[i].kind = "sql" => status[log'[i].xid] # "unused"
    <3> SUFFICES ASSUME NEW i \in DOMAIN log', log'[i].kind = "sql"
                 PROVE  status[log'[i].xid] # "unused"
      OBVIOUS
    <3>1. /\ i \in DOMAIN log /\ log'[i].kind = log[i].kind
          /\ log'[i].kind = "sql" => log'[i].xid = log[i].xid
      BY <1>3, OwnerStep
    <3>2. QED
      BY <3>1 DEF XidInv
  <2>3. \A m \in markers' : status[m.xid] # "unused"
    BY <1>3, OwnerStep DEF XidInv
  <2>4. QED
    BY <2>1, <2>2, <2>3 DEF XidInv
<1>4. ASSUME NEW s \in Sessions, RollbackSub(s) PROVE XidInv'
  <2>1. status' = status /\ xid' = xid
    BY <1>4 DEF RollbackSub
  <2>2. \A i \in DOMAIN log' : log'[i].kind = "sql" => status[log'[i].xid] # "unused"
    <3> SUFFICES ASSUME NEW i \in DOMAIN log', log'[i].kind = "sql"
                 PROVE  status[log'[i].xid] # "unused"
      OBVIOUS
    <3>1. /\ i \in DOMAIN log /\ log'[i].kind = log[i].kind
          /\ log'[i].kind = "sql" => log'[i].xid = log[i].xid
      BY <1>4, OwnerStep
    <3>2. QED
      BY <3>1 DEF XidInv
  <2>3. \A m \in markers' : status[m.xid] # "unused"
    BY <1>4, OwnerStep DEF XidInv
  <2>4. QED
    BY <2>1, <2>2, <2>3 DEF XidInv
<1>5. ASSUME NEW s \in Sessions, Produce(s) PROVE XidInv'
  <2>1. status[xid[s]] # "unused"
    BY <1>5 DEF Produce, SessionInv, SessionOK, InTxn
  <2>2. \A i \in DOMAIN log' : log'[i].kind = "sql" => status[log'[i].xid] # "unused"
    <3>1. log' = Append(log, [kind |-> "sql", xid |-> xid[s], gen |-> generation[s],
                              sub |-> Inner(s)])
      BY <1>5 DEF Produce
    <3>2. /\ DOMAIN log = 1 .. Len(log) /\ Len(log) \in Nat
          /\ DOMAIN log' = 1 .. Len(log) + 1
          /\ \A i \in DOMAIN log : log'[i] = log[i]
          /\ log'[Len(log) + 1].xid = xid[s]
      <4> DEFINE r == [kind |-> "sql", xid |-> xid[s], gen |-> generation[s],
                       sub |-> Inner(s)]
      <4>1. r \in Record /\ log' = Append(log, r)
        BY <1>5, <3>1, ProducedRecord
      <4>2. r.xid = xid[s]
        OBVIOUS
      <4> HIDE DEF r
      <4>3. QED
        BY <4>1, <4>2, AppendStep
    <3>3. \A i \in DOMAIN log' : i \in DOMAIN log \/ i = Len(log) + 1
      BY <3>2
    <3>4. QED
      BY <2>1, <3>2, <3>3 DEF XidInv
  <2>3. QED
    BY <1>5, <2>2 DEF Produce, XidInv
<1>6. ASSUME NEW s \in Sessions, ProduceFails(s) PROVE XidInv'
  <2>1. UNCHANGED <<log, status, xid>> /\ markers' \subseteq markers
    BY <1>6 DEF ProduceFails
  <2>2. QED
    BY <2>1, XidFrame
<1>7. ASSUME NEW s \in Sessions, InsertMarker(s) PROVE XidInv'
  <2>1. status[xid[s]] # "unused"
    BY <1>7 DEF InsertMarker, SessionInv, SessionOK, InTxn
  <2>2. \A m \in markers' : status[m.xid] # "unused"
    BY <1>7, <2>1 DEF InsertMarker, XidInv
  <2>3. QED
    BY ZenonT(40), <1>7, <2>2 DEF InsertMarker, XidInv
<1>8. ASSUME NEW s \in Sessions, MarkerFails(s) PROVE XidInv'
  <2>1. UNCHANGED <<log, status, xid>> /\ markers' \subseteq markers
    BY <1>8 DEF MarkerFails
  <2>2. QED
    BY <2>1, XidFrame
<1>9. ASSUME NEW s \in Sessions, PreCommit(s) PROVE XidInv'
  <2>1. UNCHANGED <<log, status, xid>> /\ markers' \subseteq markers
    BY <1>9 DEF PreCommit
  <2>2. QED
    BY <2>1, XidFrame
<1>10. ASSUME NEW s \in Sessions, Commit(s) PROVE XidInv'
  BY <1>10 DEF Commit, XidInv, SessionInv, SessionOK, TypeOK, sessionVars, brokerVars
<1>11. ASSUME NEW s \in Sessions, Abort(s) PROVE XidInv'
  BY <1>11 DEF Abort, XidInv, SessionInv, SessionOK, TypeOK, sessionVars, brokerVars
<1>12. ASSUME NEW s \in Sessions, Callback(s) PROVE XidInv'
  BY <1>12 DEF Callback, XidInv, SessionInv, SessionOK, TypeOK, sessionVars, brokerVars
<1>13. ASSUME NEW from \in Offsets, FetchHighWatermark(from) PROVE XidInv'
  <2>1. UNCHANGED <<log, status, xid>> /\ markers' \subseteq markers
    BY <1>13 DEF FetchHighWatermark, sessionVars
  <2>2. QED
    BY <2>1, XidFrame
<1>14. CASE WireAppend
  BY <1>14 DEF WireAppend, XidInv, SessionInv, SessionOK, TypeOK, sessionVars, brokerVars
<1>15. CASE SyncBeforeAck
  <2>1. UNCHANGED <<log, status, xid>> /\ markers' \subseteq markers
    BY <1>15 DEF SyncBeforeAck, sessionVars
  <2>2. QED
    BY <2>1, XidFrame
<1>16. CASE FetchLso
  <2>1. UNCHANGED <<log, status, xid>> /\ markers' \subseteq markers
    BY <1>16 DEF FetchLso, sessionVars
  <2>2. QED
    BY <2>1, XidFrame
<1>17. CASE FetchMarkers
  <2>1. UNCHANGED <<log, status, xid>> /\ markers' \subseteq markers
    BY <1>17 DEF FetchMarkers, sessionVars
  <2>2. QED
    BY <2>1, XidFrame
<1>18. CASE FetchScan
  <2>1. UNCHANGED <<log, status, xid>> /\ markers' \subseteq markers
    BY <1>18 DEF FetchScan, sessionVars
  <2>2. QED
    BY <2>1, XidFrame
<1>19. CASE Crash
  <2>1. \A x \in Xids : /\ status[x] # "unused" => status'[x] # "unused"
                        /\ status'[x] # "running"
    BY <1>19 DEF Crash, TypeOK
  <2>2. \A i \in DOMAIN log' : log'[i].kind = "sql" => status'[log'[i].xid] # "unused"
    BY <1>19, <2>1, CrashStep, XidsOfLog DEF XidInv
  <2>3. \A m \in markers' : status'[m.xid] # "unused"
    BY <1>19, <2>1, XidsOfLog DEF Crash, XidInv
  <2>4. \A t \in Sessions : xid'[t] = 0
    BY <1>19 DEF Crash
  <2>5. QED
    BY <2>1, <2>2, <2>3, <2>4 DEF XidInv
<1>20. CASE WorkerRestart
  <2>1. UNCHANGED <<log, status, xid>> /\ markers' \subseteq markers
    BY <1>20 DEF WorkerRestart, sessionVars
  <2>2. QED
    BY <2>1, XidFrame
<1>21. CASE RaiseEpochs
  <2>1. UNCHANGED <<log, status, xid>> /\ markers' \subseteq markers
    BY <1>21 DEF RaiseEpochs, sessionVars
  <2>2. QED
    BY <2>1, XidFrame
<1>22. CASE ReconcileRead
  <2>1. UNCHANGED <<log, status, xid>> /\ markers' \subseteq markers
    BY <1>22 DEF ReconcileRead, sessionVars
  <2>2. QED
    BY <2>1, XidFrame
<1>23. CASE ReconcileDelete
  <2>1. UNCHANGED <<log, status, xid>> /\ markers' \subseteq markers
    BY <1>23 DEF ReconcileDelete, sessionVars
  <2>2. QED
    BY <2>1, XidFrame
<1>24. CASE ReconcileFails
  <2>1. UNCHANGED <<log, status, xid>> /\ markers' \subseteq markers
    BY <1>24 DEF ReconcileFails, sessionVars
  <2>2. QED
    BY <2>1, XidFrame
<1>25. QED
  BY SMTT(30), <1>1, <1>2, <1>3, <1>4, <1>5, <1>6, <1>7, <1>8, <1>9, <1>10, <1>11, <1>12, <1>13, <1>14, <1>15, <1>16, <1>17, <1>18, <1>19, <1>20, <1>21, <1>22, <1>23, <1>24
  DEF Next, Session, Fetch, Start

\* Where a session's reservation may be.
LEMMA ReservedFacts ==
  ASSUME TypeOK, ReservationInv, NEW s \in Sessions
  PROVE  Len(log) \in Nat /\ reserved[s] \in Int /\ reserved[s] < Len(log)
<1>1. Len(log) \in Nat
  BY DEF TypeOK
<1>2. reserved[s] \in Offsets \cup {-1} /\ reserved[s] < Len(log)
  BY DEF TypeOK, ReservationInv
<1>3. QED
  BY <1>1, <1>2, ConstantFacts DEF Offsets

\* A step that touches neither log nor reservations keeps them so.
LEMMA ReservationFrame ==
  ASSUME ReservationInv, UNCHANGED <<log, pending, reserved, xid>>
  PROVE  ReservationInv'
<1>1. ReservationsExact'
  BY DEF ReservationInv, ReservationsExact
<1>2. QED
  BY <1>1 DEF ReservationInv

\* Every step keeps the reservations exact and below their transactions' records.
LEMMA ReservationStep ==
  ASSUME IInv, Next
  PROVE  ReservationInv'
<1> USE DEF IInv
<1>1. ASSUME NEW s \in Sessions, Begin(s) PROVE ReservationInv'
  <2>1. PICK x \in Xids : status[x] = "unused" /\ xid' = [xid EXCEPT ![s] = x]
    BY ZenonT(40), <1>1 DEF Begin
  <2>2. log' = log /\ reserved' = reserved /\ pending' = pending
    BY <1>1 DEF Begin
  <2>3. \A t \in Sessions : xid'[t] = IF t = s THEN x ELSE xid[t]
    BY <2>1 DEF TypeOK
  <2>4. \A i \in DOMAIN log : log[i].kind = "sql" => log[i].xid # x
    BY <2>1 DEF XidInv
  <2>5. ASSUME NEW t \in Sessions, NEW i \in DOMAIN log,
               log[i].kind = "sql", log[i].xid = xid'[t]
        PROVE  reserved[t] # -1 /\ reserved[t] < i
    BY <2>3, <2>4, <2>5 DEF ReservationInv
  <2>6. ReservationsExact'
    BY <2>2 DEF ReservationInv, ReservationsExact
  <2>7. \A t \in Sessions : reserved[t] < Len(log)
    BY DEF ReservationInv
  <2>8. QED
    BY ZenonT(40), <2>2, <2>5, <2>6, <2>7 DEF ReservationInv
<1>2. ASSUME NEW s \in Sessions, Savepoint(s) PROVE ReservationInv'
  <2>1. UNCHANGED <<log, pending, reserved, xid>>
    BY <1>2 DEF Savepoint
  <2>2. QED
    BY <2>1, ReservationFrame
<1>3. ASSUME NEW s \in Sessions, ReleaseSavepoint(s) PROVE ReservationInv'
  <2>1. xid' = xid /\ reserved' = reserved /\ pending' = pending
    BY <1>3 DEF ReleaseSavepoint
  <2>2. Len(log') = Len(log)
    BY <1>3, OwnerStep
  <2>3. ASSUME NEW t \in Sessions, NEW i \in DOMAIN log',
               log'[i].kind = "sql", log'[i].xid = xid[t]
        PROVE  reserved[t] # -1 /\ reserved[t] < i
    <3>1. /\ i \in DOMAIN log /\ log'[i].kind = log[i].kind
          /\ log'[i].kind = "sql" => log'[i].xid = log[i].xid
      BY <1>3, OwnerStep
    <3>2. QED
      BY <2>3, <3>1 DEF ReservationInv
  <2>4. QED
    BY <2>1, <2>2, <2>3 DEF ReservationInv, ReservationsExact
<1>4. ASSUME NEW s \in Sessions, RollbackSub(s) PROVE ReservationInv'
  <2>1. xid' = xid /\ reserved' = reserved /\ pending' = pending
    BY ZenonT(40), <1>4 DEF RollbackSub
  <2>2. Len(log') = Len(log)
    BY <1>4, OwnerStep
  <2>3. ASSUME NEW t \in Sessions, NEW i \in DOMAIN log',
               log'[i].kind = "sql", log'[i].xid = xid[t]
        PROVE  reserved[t] # -1 /\ reserved[t] < i
    <3>1. /\ i \in DOMAIN log /\ log'[i].kind = log[i].kind
          /\ log'[i].kind = "sql" => log'[i].xid = log[i].xid
      BY <1>4, OwnerStep
    <3>2. QED
      BY <2>3, <3>1 DEF ReservationInv
  <2>4. QED
    BY <2>1, <2>2, <2>3 DEF ReservationInv, ReservationsExact
<1>5. ASSUME NEW s \in Sessions, Produce(s) PROVE ReservationInv'
  <2> DEFINE r == [kind |-> "sql", xid |-> xid[s], gen |-> generation[s], sub |-> Inner(s)]
  <2>1. r \in Record /\ log' = Append(log, r) /\ xid' = xid
    BY ZenonT(40), <1>5, ProducedRecord DEF Produce
  <2>2. r.xid = xid[s]
    OBVIOUS
  <2> HIDE DEF r
  <2>3. /\ Len(log) \in Nat /\ Len(log') = Len(log) + 1
        /\ DOMAIN log = 1 .. Len(log) /\ DOMAIN log' = 1 .. Len(log) + 1
        /\ \A i \in DOMAIN log : log'[i] = log[i]
        /\ log'[Len(log) + 1] = r
    BY <2>1, AppendStep
  <2>4. xid[s] # 0
    BY <1>5 DEF Produce, SessionInv, SessionOK
  <2>5. \A t \in Sessions : reserved[t] \in Int /\ reserved[t] < Len(log)
    BY ReservedFacts
  <2>6. /\ reserved'[s] = IF reserved[s] = -1 THEN Len(log) ELSE reserved[s]
        /\ \A t \in Sessions \ {s} : reserved'[t] = reserved[t]
    <3>1. CASE reserved[s] = -1
      BY <1>5, <3>1 DEF Produce, HighWatermark, TypeOK
    <3>2. CASE reserved[s] # -1
      BY <1>5, <3>2 DEF Produce, HighWatermark, TypeOK
    <3>3. QED
      BY <3>1, <3>2
  <2>7. ReservationsExact'
    <3>1. CASE reserved[s] # -1
      BY ZenonT(40), <1>5, <3>1 DEF Produce, ReservationInv, ReservationsExact
    <3>2. CASE reserved[s] = -1
      <4>1. reserved' = [reserved EXCEPT ![s] = Len(log)] /\ pending' = pending \cup {Len(log)}
        BY <1>5, <3>2 DEF Produce, HighWatermark
      <4>2. reserved'[s] = Len(log) /\ \A t \in Sessions \ {s} : reserved'[t] = reserved[t]
        BY <4>1 DEF TypeOK
      <4>3. \A t, u \in Sessions : reserved'[t] = reserved'[u] /\ reserved'[t] # -1 => t = u
        BY <2>5, <4>2 DEF ReservationInv, ReservationsExact
      <4>4. \A b : b \in pending' <=> \E t \in Sessions : reserved'[t] # -1 /\ b = reserved'[t]
        <5>1. \A b : b \in pending <=> \E t \in Sessions : reserved[t] # -1 /\ b = reserved[t]
          BY DEF ReservationInv, ReservationsExact
        <5>2. Len(log) # -1
          BY <2>3
        <5>3. QED
          BY <3>2, <4>1, <4>2, <5>1, <5>2
      <4>5. QED
        BY <4>3, <4>4 DEF ReservationsExact
    <3>3. QED
      BY <3>1, <3>2
  <2>8. \A t \in Sessions : reserved'[t] < Len(log')
    <3> SUFFICES ASSUME NEW t \in Sessions PROVE reserved'[t] < Len(log) + 1
      BY <2>3
    <3>1. reserved'[t] = reserved[t] \/ reserved'[t] = Len(log)
      BY <2>6
    <3>2. reserved[t] \in Int /\ reserved[t] < Len(log) /\ Len(log) \in Nat
      BY <2>3, <2>5
    <3>3. QED
      BY <3>1, <3>2
  <2>9. ASSUME NEW t \in Sessions, NEW i \in DOMAIN log',
               log'[i].kind = "sql", log'[i].xid = xid[t]
        PROVE  reserved'[t] # -1 /\ reserved'[t] < i
    <3>1. CASE i \in DOMAIN log
      <4>1. reserved[t] # -1 /\ reserved[t] < i
        BY <2>3, <2>9, <3>1 DEF ReservationInv
      <4>2. QED
        BY <2>6, <4>1
    <3>2. CASE i = Len(log) + 1
      <4>1. t = s
        BY <2>2, <2>3, <2>4, <2>9, <3>2 DEF XidInv
      <4>2. reserved[s] \in Int /\ reserved[s] < Len(log) /\ Len(log) \in Nat
        BY <2>3, <2>5
      <4>3. QED
        BY <2>6, <3>2, <4>1, <4>2
    <3>3. QED
      BY <2>3, <3>1, <3>2
  <2>10. QED
    BY ZenonT(40), <2>1, <2>7, <2>8, <2>9 DEF ReservationInv
<1>6. ASSUME NEW s \in Sessions, ProduceFails(s) PROVE ReservationInv'
  <2>1. UNCHANGED <<log, pending, reserved, xid>>
    BY <1>6 DEF ProduceFails
  <2>2. QED
    BY <2>1, ReservationFrame
<1>7. ASSUME NEW s \in Sessions, InsertMarker(s) PROVE ReservationInv'
  <2>1. UNCHANGED <<log, pending, reserved, xid>>
    BY <1>7 DEF InsertMarker
  <2>2. QED
    BY <2>1, ReservationFrame
<1>8. ASSUME NEW s \in Sessions, MarkerFails(s) PROVE ReservationInv'
  <2>1. UNCHANGED <<log, pending, reserved, xid>>
    BY <1>8 DEF MarkerFails
  <2>2. QED
    BY <2>1, ReservationFrame
<1>9. ASSUME NEW s \in Sessions, PreCommit(s) PROVE ReservationInv'
  <2>1. UNCHANGED <<log, pending, reserved, xid>>
    BY <1>9 DEF PreCommit
  <2>2. QED
    BY <2>1, ReservationFrame
<1>10. ASSUME NEW s \in Sessions, Commit(s) PROVE ReservationInv'
  <2>1. UNCHANGED <<log, pending, reserved, xid>>
    BY <1>10 DEF Commit
  <2>2. QED
    BY <2>1, ReservationFrame
<1>11. ASSUME NEW s \in Sessions, Abort(s) PROVE ReservationInv'
  <2>1. UNCHANGED <<log, pending, reserved, xid>>
    BY <1>11 DEF Abort
  <2>2. QED
    BY <2>1, ReservationFrame
<1>12. ASSUME NEW s \in Sessions, Callback(s) PROVE ReservationInv'
  <2>1. /\ pending' = pending \ {reserved[s]}
        /\ reserved' = [reserved EXCEPT ![s] = -1] /\ xid' = [xid EXCEPT ![s] = 0]
        /\ log' = log
    BY <1>12 DEF Callback
  <2>2. /\ reserved'[s] = -1 /\ \A t \in Sessions \ {s} : reserved'[t] = reserved[t]
        /\ xid'[s] = 0 /\ \A t \in Sessions \ {s} : xid'[t] = xid[t]
    BY <2>1 DEF TypeOK
  <2>3. ReservationsExact'
    <3>1. \A t, u \in Sessions : reserved'[t] = reserved'[u] /\ reserved'[t] # -1 => t = u
      BY <2>2 DEF ReservationInv, ReservationsExact
    <3>2. \A b : b \in pending <=> \E t \in Sessions : reserved[t] # -1 /\ b = reserved[t]
      BY DEF ReservationInv, ReservationsExact
    <3>3. \A t \in Sessions \ {s} : reserved[t] # -1 => reserved[t] # reserved[s]
      BY DEF ReservationInv, ReservationsExact
    <3>4. \A b : b \in pending' <=> \E t \in Sessions : reserved'[t] # -1 /\ b = reserved'[t]
      BY <2>1, <2>2, <3>2, <3>3
    <3>5. QED
      BY <3>1, <3>4 DEF ReservationsExact
  <2>4. \A t \in Sessions : reserved'[t] < Len(log')
    <3>2. -1 < Len(log)
      BY DEF TypeOK
    <3>3. QED
      BY <2>1, <2>2, <3>2 DEF ReservationInv
  <2>5. ASSUME NEW t \in Sessions, NEW i \in DOMAIN log',
               log'[i].kind = "sql", log'[i].xid = xid'[t]
        PROVE  reserved'[t] # -1 /\ reserved'[t] < i
    <3>1. xid'[t] # 0
      BY <2>1, <2>5, ConstantFacts, XidsOfLog DEF Xids
    <3>2. t # s
      BY <2>2, <3>1
    <3>3. QED
      BY <2>1, <2>2, <2>5, <3>2 DEF ReservationInv
  <2>6. QED
    BY <2>3, <2>4, <2>5 DEF ReservationInv
<1>13. ASSUME NEW from \in Offsets, FetchHighWatermark(from) PROVE ReservationInv'
  <2>1. UNCHANGED <<log, pending, reserved, xid>>
    BY <1>13 DEF FetchHighWatermark, sessionVars
  <2>2. QED
    BY <2>1, ReservationFrame
<1>14. CASE WireAppend
  <2>1. [kind |-> "wire"] \in Record /\ log' = Append(log, [kind |-> "wire"])
    BY <1>14 DEF WireAppend, Record, WireRecord
  <2>2. /\ Len(log) \in Nat /\ Len(log') = Len(log) + 1
        /\ DOMAIN log = 1 .. Len(log) /\ DOMAIN log' = 1 .. Len(log) + 1
        /\ \A i \in DOMAIN log : log'[i] = log[i]
        /\ log'[Len(log) + 1].kind = "wire"
    BY <2>1, AppendStep
  <2>3. xid' = xid /\ reserved' = reserved /\ pending' = pending
    BY <1>14 DEF WireAppend, sessionVars
  <2>4. \A t \in Sessions : reserved[t] < Len(log')
    <3> SUFFICES ASSUME NEW t \in Sessions PROVE reserved[t] < Len(log) + 1
      BY <2>2
    <3>1. QED
      BY ReservedFacts
  <2>5. ASSUME NEW t \in Sessions, NEW i \in DOMAIN log',
               log'[i].kind = "sql", log'[i].xid = xid[t]
        PROVE  reserved[t] # -1 /\ reserved[t] < i
    <3>1. i # Len(log) + 1
      BY ZenonT(40), <2>2, <2>5
    <3>2. i \in 1 .. Len(log) + 1 /\ Len(log) \in Nat
      BY <2>2
    <3>3. i \in 1 .. Len(log)
      BY <3>1, <3>2
    <3>4. i \in DOMAIN log
      BY <2>2, <3>3
    <3>5. QED
      BY <2>2, <2>5, <3>4 DEF ReservationInv
  <2>6. QED
    BY <2>3, <2>4, <2>5 DEF ReservationInv, ReservationsExact
<1>15. CASE SyncBeforeAck
  <2>1. UNCHANGED <<log, pending, reserved, xid>>
    BY <1>15 DEF SyncBeforeAck, sessionVars
  <2>2. QED
    BY <2>1, ReservationFrame
<1>16. CASE FetchLso
  <2>1. UNCHANGED <<log, pending, reserved, xid>>
    BY <1>16 DEF FetchLso, sessionVars
  <2>2. QED
    BY <2>1, ReservationFrame
<1>17. CASE FetchMarkers
  <2>1. UNCHANGED <<log, pending, reserved, xid>>
    BY <1>17 DEF FetchMarkers, sessionVars
  <2>2. QED
    BY <2>1, ReservationFrame
<1>18. CASE FetchScan
  <2>1. UNCHANGED <<log, pending, reserved, xid>>
    BY <1>18 DEF FetchScan, sessionVars
  <2>2. QED
    BY <2>1, ReservationFrame
<1>19. CASE Crash
  <2>1. /\ pending' = {} /\ reserved' = [t \in Sessions |-> -1]
        /\ xid' = [t \in Sessions |-> 0]
    BY <1>19 DEF Crash
  <2>2. Len(log') \in Nat
    BY <1>19, CrashStep
  <2>3. \A i \in DOMAIN log' : log'[i].kind = "sql" => log'[i].xid \in Xids
    BY <1>19, CrashStep, XidsOfLog
  <2>4. ReservationsExact'
    BY <2>1 DEF ReservationsExact
  <2>5. \A t \in Sessions : reserved'[t] < Len(log')
    BY <2>1, <2>2
  <2>6. 0 \notin Xids
    BY ConstantFacts DEF Xids
  <2>7. QED
    BY <2>1, <2>3, <2>4, <2>5, <2>6 DEF ReservationInv
<1>20. CASE WorkerRestart
  <2>1. UNCHANGED <<log, pending, reserved, xid>>
    BY <1>20 DEF WorkerRestart, sessionVars
  <2>2. QED
    BY <2>1, ReservationFrame
<1>21. CASE RaiseEpochs
  <2>1. UNCHANGED <<log, pending, reserved, xid>>
    BY <1>21 DEF RaiseEpochs, sessionVars
  <2>2. QED
    BY <2>1, ReservationFrame
<1>22. CASE ReconcileRead
  <2>1. UNCHANGED <<log, pending, reserved, xid>>
    BY <1>22 DEF ReconcileRead, sessionVars
  <2>2. QED
    BY <2>1, ReservationFrame
<1>23. CASE ReconcileDelete
  <2>1. UNCHANGED <<log, pending, reserved, xid>>
    BY <1>23 DEF ReconcileDelete, sessionVars
  <2>2. QED
    BY <2>1, ReservationFrame
<1>24. CASE ReconcileFails
  <2>1. UNCHANGED <<log, pending, reserved, xid>>
    BY <1>24 DEF ReconcileFails, sessionVars
  <2>2. QED
    BY <2>1, ReservationFrame
<1>25. QED
  BY SMTT(30), <1>1, <1>2, <1>3, <1>4, <1>5, <1>6, <1>7, <1>8, <1>9, <1>10, <1>11, <1>12, <1>13, <1>14, <1>15, <1>16, <1>17, <1>18, <1>19, <1>20, <1>21, <1>22, <1>23, <1>24
  DEF Next, Session, Fetch, Start

\* A marker of a session's transaction is at an offset; so is a synced log end.
LEMMA DurableFacts ==
  ASSUME TypeOK
  PROVE  /\ synced \in Nat /\ Len(log) \in Nat /\ synced <= Len(log)
         /\ \A m \in markers : m.base \in Nat /\ m.xid \in Xids
         /\ 0 \notin Xids
<1>1. synced \in 0 .. Len(log) /\ Len(log) \in Nat
  BY DEF TypeOK
<1>2. 0 \notin Xids
  BY ConstantFacts DEF Xids
<1>3. QED
  BY <1>1, <1>2, XidsOfLog

\* A step that appends and syncs nothing keeps committed markers on synced
\* records when it gives no session a marker and clears no debt that is due.
LEMMA DurableFrame ==
  ASSUME DurableInv, Len(log') = Len(log), synced' = synced,
         \A m \in markers' : \E n \in markers :
           /\ m.xid = n.xid /\ m.base = n.base
           /\ Visible(m)' => Visible(n) \/ n.base < synced,
         \A t \in Sessions, m \in markers' : m.xid = xid'[t] =>
           /\ m.xid = xid[t]
           /\ pc'[t] = "synced" => pc[t] = "synced"
           /\ pc'[t] \in {"open", "appended", "failed"}
                => pc[t] \in {"open", "appended", "failed"} /\ owed'[t] = owed[t],
         \A t \in Sessions : pc'[t] = "appended" => pc[t] = "appended" /\ owed'[t] = owed[t]
  PROVE  DurableInv'
<1>1. CommittedIsDurable'
  <2> SUFFICES ASSUME ~RestoreMayLoseSynced, NEW m \in markers', Visible(m)'
               PROVE  m.base < synced'
    BY DEF CommittedIsDurable
  <2>1. PICK n \in markers : m.base = n.base /\ (Visible(n) \/ n.base < synced)
    OBVIOUS
  <2>2. n.base < synced
    BY <2>1 DEF DurableInv, CommittedIsDurable
  <2>3. QED
    BY <2>1, <2>2
<1>2. ASSUME NEW t \in Sessions, NEW m \in markers', m.xid = xid'[t]
      PROVE  /\ m.base < Len(log')
             /\ pc'[t] = "synced" => m.base < synced'
             /\ pc'[t] \in {"open", "appended", "failed"} => owed'[t]
  <2>1. PICK n \in markers : m.xid = n.xid /\ m.base = n.base
    OBVIOUS
  <2>2. /\ m.xid = xid[t]
        /\ pc'[t] = "synced" => pc[t] = "synced"
        /\ pc'[t] \in {"open", "appended", "failed"}
             => pc[t] \in {"open", "appended", "failed"} /\ owed'[t] = owed[t]
    BY ZenonT(40), <1>2, <2>1
  <2>3. QED
    BY <2>1, <2>2 DEF DurableInv
<1>3. \A t \in Sessions : pc'[t] = "appended" => owed'[t]
  BY DEF DurableInv
<1>4. QED
  BY ZenonT(40), <1>1, <1>2, <1>3 DEF DurableInv

\* Nor does a step that leaves log, markers and sessions alone.
LEMMA DurableUnchanged ==
  ASSUME DurableInv, UNCHANGED <<log, synced, markers, status, xid, pc, owed>>
  PROVE  DurableInv'
<1>1. \A m \in markers : Visible(m)' => Visible(m)
  BY DEF Visible
<1>2. QED
  BY <1>1, DurableFrame

\* Every step keeps committed markers on synced records.
LEMMA DurableStep ==
  ASSUME IInv, Next
  PROVE  DurableInv'
<1> USE DEF IInv
<1>1. ASSUME NEW s \in Sessions, Begin(s) PROVE DurableInv'
  <2>1. PICK x \in Xids : /\ status[x] = "unused"
                          /\ status' = [status EXCEPT ![x] = "running"]
                          /\ xid' = [xid EXCEPT ![s] = x]
    BY ZenonT(40), <1>1 DEF Begin
  <2>2. /\ log' = log /\ synced' = synced /\ markers' = markers /\ owed' = owed
        /\ pc' = [pc EXCEPT ![s] = "open"]
    BY <1>1 DEF Begin
  <2>3. \A m \in markers : m.xid # x /\ m.xid \in Xids
    BY <2>1, DurableFacts DEF XidInv
  <2>4. \A m \in markers : Visible(m)' => Visible(m)
    BY <2>1, <2>3 DEF Visible, TypeOK
  <2>5. /\ xid'[s] = x /\ pc'[s] = "open"
        /\ \A t \in Sessions \ {s} : xid'[t] = xid[t] /\ pc'[t] = pc[t]
    BY <2>1, <2>2 DEF TypeOK
  <2>6. QED
    BY <2>2, <2>3, <2>4, <2>5, DurableFrame
<1>2. ASSUME NEW s \in Sessions, Savepoint(s) PROVE DurableInv'
  <2>1. UNCHANGED <<log, synced, markers, status, xid, pc, owed>>
    BY <1>2 DEF Savepoint
  <2>2. QED
    BY <2>1, DurableUnchanged
<1>3. ASSUME NEW s \in Sessions, ReleaseSavepoint(s) PROVE DurableInv'
  <2>1. /\ xid' = xid /\ status' = status /\ synced' = synced /\ owed' = owed
        /\ pc' = pc
    BY <1>3 DEF ReleaseSavepoint
  <2>2. Len(log') = Len(log)
    BY <1>3, OwnerStep
  <2>3. \A t \in Sessions : /\ pc'[t] = "synced" => pc[t] = "synced"
                            /\ pc'[t] = "appended" => pc[t] = "appended"
                            /\ pc'[t] \in {"open", "appended", "failed"}
                                 => pc[t] \in {"open", "appended", "failed"}
    BY <2>1 DEF TypeOK
  <2>4. \A m \in markers' : \E n \in markers : m.xid = n.xid /\ m.base = n.base
    BY <1>3, OwnerStep
  <2>5. \A m \in markers' : \E n \in markers : /\ m.xid = n.xid /\ m.base = n.base
                                               /\ Visible(m)' => Visible(n)
    BY <2>1, <2>4 DEF Visible
  <2>6. QED
    BY <2>1, <2>2, <2>3, <2>5, DurableFrame
<1>4. ASSUME NEW s \in Sessions, RollbackSub(s) PROVE DurableInv'
  <2>1. /\ xid' = xid /\ status' = status /\ synced' = synced /\ owed' = owed
        /\ pc' = [pc EXCEPT ![s] = "open"] /\ pc[s] \in {"open", "appended", "failed"}
    BY ZenonT(40), <1>4 DEF RollbackSub
  <2>2. Len(log') = Len(log)
    BY <1>4, OwnerStep
  <2>3. \A t \in Sessions : /\ pc'[t] = "synced" => pc[t] = "synced"
                            /\ pc'[t] = "appended" => pc[t] = "appended"
                            /\ pc'[t] \in {"open", "appended", "failed"}
                                 => pc[t] \in {"open", "appended", "failed"}
    BY <2>1 DEF TypeOK
  <2>4. \A m \in markers' : \E n \in markers : m.xid = n.xid /\ m.base = n.base
    BY ZenonT(40), <1>4, OwnerStep
  <2>5. \A m \in markers' : \E n \in markers : /\ m.xid = n.xid /\ m.base = n.base
                                               /\ Visible(m)' => Visible(n)
    BY <2>1, <2>4 DEF Visible
  <2>6. QED
    BY <2>1, <2>2, <2>3, <2>5, DurableFrame
<1>5. ASSUME NEW s \in Sessions, Produce(s) PROVE DurableInv'
  <2>1. /\ xid' = xid /\ status' = status /\ synced' = synced /\ markers' = markers
        /\ owed' = [owed EXCEPT ![s] = TRUE] /\ pc' = [pc EXCEPT ![s] = "appended"]
        /\ pc[s] = "open"
    BY <1>5 DEF Produce
  <2>2. Len(log') = Len(log) + 1
    BY ZenonT(40), <1>5, AppendStep, ProducedRecord DEF Produce
  <2>3. /\ owed'[s] /\ pc'[s] = "appended"
        /\ \A t \in Sessions \ {s} : owed'[t] = owed[t] /\ pc'[t] = pc[t]
    BY <2>1 DEF TypeOK
  <2>4. CommittedIsDurable'
    BY ZenonT(40), <2>1 DEF CommittedIsDurable, Visible, DurableInv
  <2>5. ASSUME NEW t \in Sessions, NEW m \in markers', m.xid = xid'[t]
        PROVE  /\ m.base < Len(log')
               /\ pc'[t] = "synced" => m.base < synced'
               /\ pc'[t] \in {"open", "appended", "failed"} => owed'[t]
    <3>1. m.base < Len(log) /\ m.base \in Nat /\ Len(log) \in Nat
      BY <2>1, <2>5, DurableFacts DEF DurableInv
    <3>2. m.base < Len(log')
      BY <2>2, <3>1
    <3>3. CASE t = s
      BY <2>3, <3>2, <3>3
    <3>4. CASE t # s
      BY <2>1, <2>3, <2>5, <3>2, <3>4 DEF DurableInv
    <3>5. QED
      BY <3>3, <3>4
  <2>6. \A t \in Sessions : pc'[t] = "appended" => owed'[t]
    BY <2>3 DEF DurableInv
  <2>7. QED
    BY ZenonT(40), <2>4, <2>5, <2>6 DEF DurableInv
<1>6. ASSUME NEW s \in Sessions, ProduceFails(s) PROVE DurableInv'
  <2>1. /\ UNCHANGED <<log, synced, markers, status, xid, owed>>
        /\ pc[s] = "open" /\ pc' = [pc EXCEPT ![s] = "failed"]
    BY <1>6 DEF ProduceFails
  <2>2. pc'[s] = "failed" /\ \A t \in Sessions \ {s} : pc'[t] = pc[t]
    BY <2>1 DEF TypeOK
  <2>3. \A m \in markers : Visible(m)' => Visible(m)
    BY <2>1 DEF Visible
  <2>4. QED
    BY <2>1, <2>2, <2>3, DurableFrame
<1>7. ASSUME NEW s \in Sessions, InsertMarker(s) PROVE DurableInv'
  <2> DEFINE new == [base |-> base[s], xid |-> xid[s], sub |-> Inner(s)]
  <2>1. /\ xid' = xid /\ status' = status /\ synced' = synced /\ log' = log
        /\ owed' = owed /\ pc' = [pc EXCEPT ![s] = "open"] /\ pc[s] = "appended"
        /\ markers' = markers \cup {new}
    BY <1>7 DEF InsertMarker
  <2>2. new.base = base[s] /\ new.xid = xid[s]
    OBVIOUS
  <2> HIDE DEF new
  <2>3. /\ base[s] < Len(log) /\ status[xid[s]] = "running" /\ xid[s] # 0
    BY <2>1 DEF SessionInv, SessionOK, InTxn, TypeOK
  <2>4. pc'[s] = "open" /\ \A t \in Sessions \ {s} : pc'[t] = pc[t]
    BY <2>1 DEF TypeOK
  <2>5. owed[s]
    BY ZenonT(40), <2>1 DEF DurableInv
  <2>6. CommittedIsDurable'
    BY <2>1, <2>2, <2>3 DEF CommittedIsDurable, Visible, DurableInv
  <2>7. ASSUME NEW t \in Sessions, NEW m \in markers', m.xid = xid'[t]
        PROVE  /\ m.base < Len(log')
               /\ pc'[t] = "synced" => m.base < synced'
               /\ pc'[t] \in {"open", "appended", "failed"} => owed'[t]
    <3>1. CASE m = new
      <4>1. t = s
        BY <2>1, <2>2, <2>3, <2>7, <3>1 DEF XidInv
      <4>2. QED
        BY <2>1, <2>2, <2>3, <2>4, <2>5, <3>1, <4>1
    <3>2. CASE m \in markers
      BY <2>1, <2>4, <2>5, <2>7, <3>2 DEF DurableInv
    <3>3. QED
      BY <2>1, <3>1, <3>2
  <2>8. \A t \in Sessions : pc'[t] = "appended" => owed'[t]
    BY <2>1, <2>4 DEF DurableInv
  <2>9. QED
    BY <2>6, <2>7, <2>8 DEF DurableInv
<1>8. ASSUME NEW s \in Sessions, MarkerFails(s) PROVE DurableInv'
  <2>1. /\ UNCHANGED <<log, synced, markers, status, xid, owed>>
        /\ pc[s] = "appended" /\ pc' = [pc EXCEPT ![s] = "failed"]
    BY <1>8 DEF MarkerFails
  <2>2. pc'[s] = "failed" /\ \A t \in Sessions \ {s} : pc'[t] = pc[t]
    BY <2>1 DEF TypeOK
  <2>3. \A m \in markers : Visible(m)' => Visible(m)
    BY <2>1 DEF Visible
  <2>4. QED
    BY <2>1, <2>2, <2>3, DurableFrame
<1>9. ASSUME NEW s \in Sessions, PreCommit(s) PROVE DurableInv'
  <2>1. /\ xid' = xid /\ status' = status /\ log' = log /\ markers' = markers
        /\ synced' = IF owed[s] THEN Len(log) ELSE synced
        /\ owed' = [owed EXCEPT ![s] = FALSE] /\ pc' = [pc EXCEPT ![s] = "synced"]
        /\ pc[s] = "open"
    BY <1>9 DEF PreCommit
  <2>2. synced' \in Nat /\ synced' >= synced /\ synced \in Nat
    BY <2>1, DurableFacts
  <2>3. /\ pc'[s] = "synced"
        /\ \A t \in Sessions \ {s} : owed'[t] = owed[t] /\ pc'[t] = pc[t]
    BY <2>1 DEF TypeOK
  <2>4. \A m \in markers : m.base < synced => m.base < synced'
    BY <2>2, DurableFacts
  <2>5. CommittedIsDurable'
    BY ZenonT(40), <2>1, <2>4 DEF CommittedIsDurable, Visible, DurableInv
  <2>6. ASSUME NEW t \in Sessions, NEW m \in markers', m.xid = xid'[t]
        PROVE  /\ m.base < Len(log')
               /\ pc'[t] = "synced" => m.base < synced'
               /\ pc'[t] \in {"open", "appended", "failed"} => owed'[t]
    <3>1. CASE t = s
      <4>1. owed[s] /\ m.base < Len(log)
        BY <2>1, <2>6, <3>1 DEF DurableInv
      <4>2. QED
        BY <2>1, <2>3, <3>1, <4>1
    <3>2. CASE t # s
      BY <2>1, <2>3, <2>4, <2>6, <3>2 DEF DurableInv
    <3>3. QED
      BY <3>1, <3>2
  <2>7. \A t \in Sessions : pc'[t] = "appended" => owed'[t]
    BY <2>3 DEF DurableInv
  <2>8. QED
    BY <2>5, <2>6, <2>7 DEF DurableInv
<1>10. ASSUME NEW s \in Sessions, Commit(s) PROVE DurableInv'
  <2>1. /\ UNCHANGED <<log, synced, markers, xid, owed>>
        /\ pc[s] = "synced" /\ pc' = [pc EXCEPT ![s] = "visible"]
        /\ status' = [status EXCEPT ![xid[s]] = "committed"]
    BY <1>10 DEF Commit
  <2>2. pc'[s] = "visible" /\ \A t \in Sessions \ {s} : pc'[t] = pc[t]
    BY <2>1 DEF TypeOK
  <2>3. \A m \in markers : m.xid # xid[s] /\ Visible(m)' => Visible(m)
    BY <2>1, DurableFacts DEF Visible, TypeOK
  <2>4. \A m \in markers : m.xid = xid[s] => m.base < synced
    BY ZenonT(40), <2>1 DEF DurableInv
  <2>5. QED
    BY <2>1, <2>2, <2>3, <2>4, DurableFrame
<1>11. ASSUME NEW s \in Sessions, Abort(s) PROVE DurableInv'
  <2>1. /\ UNCHANGED <<log, synced, xid>> /\ pc' = [pc EXCEPT ![s] = "gone"]
        /\ markers' = {m \in markers : m.xid # xid[s]}
        /\ owed' = [owed EXCEPT ![s] = FALSE]
        /\ status' = [status EXCEPT ![xid[s]] = "aborted"]
    BY ZenonT(40), <1>11 DEF Abort
  <2>2. /\ pc'[s] = "gone"
        /\ \A t \in Sessions \ {s} : pc'[t] = pc[t] /\ owed'[t] = owed[t]
    BY <2>1 DEF TypeOK
  <2>3. \A m \in markers' : m \in markers /\ m.xid # xid[s]
    BY <2>1
  <2>4. \A m \in markers' : Visible(m)' => Visible(m)
    BY <2>1, <2>3, DurableFacts DEF Visible, TypeOK
  <2>5. QED
    BY ZenonT(40), <2>1, <2>2, <2>3, <2>4, DurableFrame
<1>12. ASSUME NEW s \in Sessions, Callback(s) PROVE DurableInv'
  <2>1. /\ xid' = [xid EXCEPT ![s] = 0] /\ pc' = [pc EXCEPT ![s] = "idle"]
        /\ UNCHANGED <<log, synced, markers, status, owed>>
    BY <1>12 DEF Callback
  <2>2. /\ xid'[s] = 0 /\ pc'[s] = "idle"
        /\ \A t \in Sessions \ {s} : xid'[t] = xid[t] /\ pc'[t] = pc[t]
    BY <2>1 DEF TypeOK
  <2>3. \A t \in Sessions, m \in markers : m.xid = xid'[t] => t # s
    BY <2>2, DurableFacts
  <2>4. \A m \in markers : Visible(m)' => Visible(m)
    BY <2>1 DEF Visible
  <2>5. QED
    BY ZenonT(40), <2>1, <2>2, <2>3, <2>4, DurableFrame
<1>13. ASSUME NEW from \in Offsets, FetchHighWatermark(from) PROVE DurableInv'
  <2>1. UNCHANGED <<log, synced, markers, status, xid, pc, owed>>
    BY <1>13 DEF FetchHighWatermark, sessionVars, brokerVars
  <2>2. QED
    BY <2>1, DurableUnchanged
<1>14. CASE WireAppend
  <2>1. [kind |-> "wire"] \in Record /\ log' = Append(log, [kind |-> "wire"])
    BY <1>14 DEF WireAppend, Record, WireRecord
  <2>2. Len(log') = Len(log) + 1
    BY <2>1, AppendStep
  <2>3. UNCHANGED <<xid, status, synced, markers, owed, pc>>
    BY <1>14 DEF WireAppend, sessionVars
  <2>4. \A m \in markers : m.base < Len(log) => m.base < Len(log')
    BY <2>2, DurableFacts
  <2>5. QED
    BY ZenonT(40), <2>3, <2>4 DEF DurableInv, CommittedIsDurable, Visible
<1>15. CASE SyncBeforeAck
  <2>1. UNCHANGED <<xid, status, log, markers, owed, pc>> /\ synced' = Len(log)
    BY <1>15 DEF SyncBeforeAck, sessionVars
  <2>2. \A m \in markers : m.base < synced => m.base < synced'
    BY <2>1, DurableFacts
  <2>3. QED
    BY <2>1, <2>2 DEF DurableInv, CommittedIsDurable, Visible
<1>16. CASE FetchLso
  <2>1. UNCHANGED <<log, synced, markers, status, xid, pc, owed>>
    BY <1>16 DEF FetchLso, sessionVars, brokerVars
  <2>2. QED
    BY <2>1, DurableUnchanged
<1>17. CASE FetchMarkers
  <2>1. UNCHANGED <<log, synced, markers, status, xid, pc, owed>>
    BY <1>17 DEF FetchMarkers, sessionVars, brokerVars
  <2>2. QED
    BY <2>1, DurableUnchanged
<1>18. CASE FetchScan
  <2>1. UNCHANGED <<log, synced, markers, status, xid, pc, owed>>
    BY <1>18 DEF FetchScan, sessionVars, brokerVars
  <2>2. QED
    BY <2>1, DurableUnchanged
<1>19. CASE Crash
  <2>1. /\ pc' = [t \in Sessions |-> "idle"] /\ xid' = [t \in Sessions |-> 0]
        /\ markers' = {m \in markers : Visible(m)}
        /\ status' = [x \in Xids |-> IF status[x] = "running" THEN "aborted" ELSE status[x]]
    BY <1>19 DEF Crash
  <2>2. ~RestoreMayLoseSynced => synced' >= synced /\ synced' \in Nat
    BY <1>19, CrashStep
  <2>3. CommittedIsDurable'
    <3> SUFFICES ASSUME ~RestoreMayLoseSynced, NEW m \in markers' PROVE m.base < synced'
      BY DEF CommittedIsDurable
    <3>1. m \in markers /\ Visible(m)
      BY <2>1
    <3>2. m.base < synced
      BY <3>1 DEF DurableInv, CommittedIsDurable
    <3>3. synced \in Nat /\ m.base \in Nat
      BY <3>1, DurableFacts
    <3>4. QED
      BY <2>2, <3>2, <3>3
  <2>4. \A t \in Sessions, m \in markers' : m.xid # xid'[t]
    BY <2>1, DurableFacts
  <2>5. QED
    BY <2>1, <2>3, <2>4 DEF DurableInv
<1>20. CASE WorkerRestart
  <2>1. UNCHANGED <<log, synced, markers, status, xid, pc, owed>>
    BY <1>20 DEF WorkerRestart, sessionVars, brokerVars
  <2>2. QED
    BY <2>1, DurableUnchanged
<1>21. CASE RaiseEpochs
  <2>1. UNCHANGED <<log, synced, markers, status, xid, pc, owed>>
    BY <1>21 DEF RaiseEpochs, sessionVars, brokerVars
  <2>2. QED
    BY <2>1, DurableUnchanged
<1>22. CASE ReconcileRead
  <2>1. UNCHANGED <<log, synced, markers, status, xid, pc, owed>>
    BY <1>22 DEF ReconcileRead, sessionVars, brokerVars
  <2>2. QED
    BY <2>1, DurableUnchanged
<1>23. CASE ReconcileDelete
  <2>1. UNCHANGED <<log, synced, status, xid, pc, owed>>
    BY <1>23 DEF ReconcileDelete, sessionVars
  <2>2. markers' \subseteq markers
    BY <1>23 DEF ReconcileDelete
  <2>3. \A m \in markers' : m \in markers /\ (Visible(m)' => Visible(m))
    BY <2>1, <2>2 DEF Visible
  <2>4. QED
    BY <2>1, <2>3, DurableFrame
<1>24. CASE ReconcileFails
  <2>1. UNCHANGED <<log, synced, markers, status, xid, pc, owed>>
    BY <1>24 DEF ReconcileFails, sessionVars, brokerVars
  <2>2. QED
    BY <2>1, DurableUnchanged
<1>25. QED
  BY SMTT(30), <1>1, <1>2, <1>3, <1>4, <1>5, <1>6, <1>7, <1>8, <1>9, <1>10, <1>11, <1>12, <1>13, <1>14, <1>15, <1>16, <1>17, <1>18, <1>19, <1>20, <1>21, <1>22, <1>23, <1>24
  DEF Next, Session, Fetch, Start

-----------------------------------------------------------------------------
(* The inductive invariant holds initially and is kept by every step *)

\* The invariant holds when the server starts on an empty log.
LEMMA InitIInv == Init => IInv
<1> SUFFICES ASSUME Init PROVE IInv
  OBVIOUS
<1>1. TypeOK
  <2>1. log \in Seq(Record) /\ Len(log) = 0 /\ log = <<>>
    BY DEF Init
  <2>2. \A s \in Sessions : subs[s] = <<>> /\ <<>> \in Seq(SubIds)
    BY DEF Init
  <2>3. subs \in [Sessions -> Seq(SubIds)]
    BY <2>2 DEF Init
  <2>4. fetch \in FetchState
    BY ConstantFacts DEF Init, NoFetch, FetchState, Offsets
  <2>5. /\ Len(log) <= MaxLog /\ synced \in 0 .. Len(log)
        /\ pending \subseteq Offsets /\ markers \subseteq Marker
        /\ logEnd \in Offsets /\ restarts \in 0 .. MaxRestarts
    BY <2>1, ConstantFacts, ConstantsAssumption DEF Init, Offsets
  <2>6. /\ status \in [Xids -> {"unused", "running", "committed", "aborted"}]
        /\ xid \in [Sessions -> Xids \cup {0}]
        /\ base \in [Sessions -> Offsets \cup {-1}]
        /\ reserved \in [Sessions -> Offsets \cup {-1}]
        /\ owed \in [Sessions -> BOOLEAN]
    BY DEF Init
  <2>7. /\ nextSub \in [Sessions -> 1 .. MaxSub + 1]
        /\ generation \in [Sessions -> 0 .. MaxSub]
        /\ maxSubid \in [Sessions -> 0 .. MaxSub]
    BY ConstantFacts DEF Init
  <2>8. QED
    BY ZenonT(40), <2>1, <2>3, <2>4, <2>5, <2>6, <2>7 DEF Init, TypeOK
<1>2. SessionInv
  BY DEF Init, SessionInv, SessionOK, InTxn
<1>3. XidInv
  BY DEF Init, XidInv
<1>4. ReservationInv
  BY DEF Init, ReservationInv, ReservationsExact
<1>5. DurableInv
  BY DEF Init, DurableInv, CommittedIsDurable
<1>6. QED
  BY <1>1, <1>2, <1>3, <1>4, <1>5 DEF IInv

\* Steps that change nothing keep it.
LEMMA StutterIInv == IInv /\ UNCHANGED vars => IInv'
<1> SUFFICES ASSUME IInv, UNCHANGED vars PROVE IInv'
  OBVIOUS
<1> USE DEF IInv, vars, sessionVars, brokerVars
<1>1. TypeOK'
  BY DEF TypeOK
<1>2. SessionInv'
  BY ZenonT(40) DEF SessionInv, SessionOK, InTxn
<1>3. XidInv'
  BY ZenonT(40) DEF XidInv
<1>4. ReservationInv'
  BY ZenonT(40) DEF ReservationInv, ReservationsExact
<1>5. DurableInv'
  BY DurableUnchanged
<1>6. QED
  BY <1>1, <1>2, <1>3, <1>4, <1>5

\* In every behaviour of the sessions, the broker and the crashes, the session
\* states, the transactions, the reservations and the markers agree (IInv).
THEOREM SqlProduceInvariant == Spec => []IInv
<1>1. IInv /\ [Next]_vars => IInv'
  <2> SUFFICES ASSUME IInv, [Next]_vars PROVE IInv'
    OBVIOUS
  <2>1. CASE Next
    BY <2>1, TypeStep, SessionStep, XidStep, ReservationStep, DurableStep DEF IInv
  <2>2. CASE UNCHANGED vars
    BY <2>2, StutterIInv
  <2>3. QED
    BY <2>1, <2>2
<1>2. QED
  BY <1>1, InitIInv, PTL DEF Spec

\* The last stable offset of Slot::pending_floor never passes a record whose
\* transaction is still running, whatever sessions, savepoints and restarts do.
THEOREM LsoCorrect == Spec => []LsoHoldsInFlight
<1>1. IInv => LsoHoldsInFlight
  <2> SUFFICES ASSUME IInv, NEW o \in 0 .. Len(log) - 1, log[o + 1].kind = "sql",
                      status[log[o + 1].xid] = "running"
               PROVE  \E b \in pending : b <= o
    BY DEF LsoHoldsInFlight
  <2> USE DEF IInv
  <2>1. o + 1 \in DOMAIN log /\ o \in Int
    BY DEF TypeOK
  <2>2. PICK s \in Sessions : xid[s] = log[o + 1].xid
    BY <2>1, XidsOfLog DEF XidInv
  <2>3. reserved[s] # -1 /\ reserved[s] < o + 1
    BY <2>1, <2>2 DEF ReservationInv
  <2>4. reserved[s] \in pending
    BY <2>3 DEF ReservationInv, ReservationsExact
  <2>5. reserved[s] <= o
    BY <2>1, <2>3, ReservedFacts
  <2>6. QED
    BY <2>4, <2>5
<1>2. QED
  BY <1>1, SqlProduceInvariant, PTL

\* append_pending() and release_pending() keep exactly one reservation per
\* transaction whose callback has not run: none leaks and none is lost.
THEOREM ReservationsCorrect == Spec => []ReservationsExact
<1>1. IInv => ReservationsExact
  BY DEF IInv, ReservationInv
<1>2. QED
  BY <1>1, SqlProduceInvariant, PTL

\* sync_owed() at pre-commit is enough: a committed marker always points at a
\* record an fsync covers.
THEOREM DurabilityCorrect == Spec => []CommittedIsDurable
<1>1. IInv => CommittedIsDurable
  BY DEF IInv, DurableInv
<1>2. QED
  BY <1>1, SqlProduceInvariant, PTL

=============================================================================
