-------------------------- MODULE SqlProduceLemmas --------------------------
(***************************************************************************)
(* The first conjuncts of SqlProduce's invariant are kept by every step:   *)
(* types, and where a session is in its transaction.  One lemma for each,  *)
(* with one step per action.                                               *)
(***************************************************************************)
EXTENDS SqlProduce, SequenceTheorems, TLAPS

\* The bounds leave room for the empty log and the top-level transaction.
LEMMA ConstantFacts ==
  /\ MaxLog \in Nat /\ MaxSub \in Nat /\ MaxXid \in Nat /\ MaxRestarts \in Nat
  /\ 0 \in Offsets /\ Top \in SubIds
  /\ NoFetch \in FetchState
BY ConstantsAssumption DEF Offsets, Top, SubIds, NoFetch, FetchState

\* A session in a transaction has an xid and a stack of subtransactions.
LEMMA StackFacts ==
  ASSUME TypeOK, SessionInv, NEW s \in Sessions, pc[s] # "idle"
  PROVE  /\ xid[s] \in Xids
         /\ Inner(s) \in SubIds
         /\ Nested(s) => /\ subs[s][Len(subs[s]) - 1] \in SubIds
                         /\ Outer(s) \in Seq(SubIds)
                         /\ Len(Outer(s)) = Len(subs[s]) - 1
<1>1. subs[s] \in Seq(SubIds) /\ Len(subs[s]) \in Nat /\ Len(subs[s]) > 0
  BY DEF TypeOK, SessionInv, SessionOK
<1>2. xid[s] \in Xids
  BY DEF TypeOK, SessionInv, SessionOK
<1>3. Inner(s) \in SubIds
  <2>1. Len(subs[s]) \in 1 .. Len(subs[s])
    BY <1>1
  <2>2. QED
    BY <1>1, <2>1, ElementOfSeq DEF Inner
<1>4. ASSUME Nested(s) PROVE subs[s][Len(subs[s]) - 1] \in SubIds
  <2>1. Len(subs[s]) - 1 \in 1 .. Len(subs[s])
    BY <1>1, <1>4 DEF Nested
  <2>2. QED
    BY <1>1, <2>1, ElementOfSeq
<1>5. ASSUME Nested(s)
      PROVE  Outer(s) \in Seq(SubIds) /\ Len(Outer(s)) = Len(subs[s]) - 1
  <2>1. \A i \in 1 .. Len(subs[s]) - 1 : subs[s][i] \in SubIds
    BY <1>1, ElementOfSeq
  <2>2. 1 \in Int /\ Len(subs[s]) - 1 \in Int /\ 1 <= Len(subs[s]) - 1
    BY <1>1, <1>5 DEF Nested
  <2>3. QED
    BY <1>1, <2>1, <2>2, SubSeqProperties DEF Outer
<1>6. QED
  BY <1>2, <1>3, <1>4, <1>5

\* Giving a SQL record another owner leaves it a record of the same batch.
LEMMA RecordFacts ==
  ASSUME NEW r \in Record, r.kind = "sql", NEW to \in 0 .. MaxSub
  PROVE  /\ r \in SqlRecord
         /\ [r EXCEPT !.sub = to] \in Record
         /\ [r EXCEPT !.sub = to].kind = r.kind
         /\ [r EXCEPT !.sub = to].xid = r.xid
<1>1. r \in SqlRecord
  BY DEF Record, WireRecord, SqlRecord
<1>2. QED
  BY <1>1 DEF Record, SqlRecord

\* Handing a subtransaction's records over changes nothing but their owner.
LEMMA HandedFacts ==
  ASSUME TypeOK, NEW x \in Xids, NEW from \in 0 .. MaxSub, NEW to \in 0 .. MaxSub
  PROVE  /\ Handed(x, from, to) \in Seq(Record)
         /\ Len(Handed(x, from, to)) = Len(log)
         /\ DOMAIN Handed(x, from, to) = DOMAIN log
         /\ \A i \in DOMAIN log : /\ Handed(x, from, to)[i].kind = log[i].kind
                                  /\ log[i].kind = "sql" => Handed(x, from, to)[i].xid = log[i].xid
<1>1. log \in Seq(Record) /\ Len(log) \in Nat /\ DOMAIN log = 1 .. Len(log)
  BY DEF TypeOK
<1>2. \A i \in DOMAIN log : log[i] \in Record
  BY <1>1, ElementOfSeq
<1>3. ASSUME NEW i \in DOMAIN log
      PROVE  /\ Handed(x, from, to)[i] \in Record
             /\ Handed(x, from, to)[i].kind = log[i].kind
             /\ log[i].kind = "sql" => Handed(x, from, to)[i].xid = log[i].xid
  <2> DEFINE r == log[i]
  <2>1. r \in Record
    BY <1>2
  <2>2. Handed(x, from, to)[i] = IF r.kind = "sql" /\ r.xid = x /\ r.sub = from
                                 THEN [r EXCEPT !.sub = to] ELSE r
    BY DEF Handed
  <2> HIDE DEF r
  <2>3. QED
    BY <2>1, <2>2, RecordFacts DEF r
<1>4. DOMAIN Handed(x, from, to) = 1 .. Len(log)
  BY <1>1 DEF Handed
<1>5. QED
  BY <1>1, <1>3, <1>4 DEF Handed

\* Every step keeps the types.
LEMMA TypeStep ==
  ASSUME IInv, Next
  PROVE  TypeOK'
<1> USE DEF IInv
<1>1. ASSUME NEW s \in Sessions, Begin(s) PROVE TypeOK'
  <2>1. <<Top>> \in Seq(SubIds) /\ Top + 1 \in 1 .. MaxSub + 1 /\ 0 \in 0 .. MaxSub
    BY ConstantFacts DEF Top, SubIds
  <2>2. PICK x \in Xids : /\ status' = [status EXCEPT ![x] = "running"]
                          /\ xid' = [xid EXCEPT ![s] = x]
    BY ZenonT(40), <1>1 DEF Begin
  <2>3. /\ status' \in [Xids -> {"unused", "running", "committed", "aborted"}]
        /\ xid' \in [Sessions -> Xids \cup {0}]
    BY <2>2 DEF TypeOK
  <2>4. QED
    BY SMTT(30), <1>1, <2>1, <2>3 DEF Begin, TypeOK, brokerVars
<1>2. ASSUME NEW s \in Sessions, Savepoint(s) PROVE TypeOK'
  <2>1. nextSub[s] \in SubIds /\ nextSub[s] + 1 \in 1 .. MaxSub + 1
    BY <1>2, ConstantFacts DEF Savepoint, TypeOK, SubIds
  <2>2. Append(subs[s], nextSub[s]) \in Seq(SubIds)
    BY <2>1, AppendProperties DEF TypeOK
  <2>3. QED
    BY SMTT(30), <1>2, <2>1, <2>2 DEF Savepoint, TypeOK, brokerVars
<1>3. ASSUME NEW s \in Sessions, ReleaseSavepoint(s) PROVE TypeOK'
  <2>1. pc[s] # "idle" /\ Nested(s)
    BY <1>3 DEF ReleaseSavepoint
  <2>2. Handed(xid[s], Inner(s), subs[s][Len(subs[s]) - 1]) \in Seq(Record)
        /\ Len(Handed(xid[s], Inner(s), subs[s][Len(subs[s]) - 1])) = Len(log)
    <3>1. Inner(s) \in 0 .. MaxSub /\ subs[s][Len(subs[s]) - 1] \in 0 .. MaxSub /\ xid[s] \in Xids
      BY <2>1, StackFacts, ConstantFacts DEF SubIds
    <3>2. QED
      BY <3>1, HandedFacts
  <2>3. markers' \subseteq Marker
    <3>1. subs[s][Len(subs[s]) - 1] \in SubIds
      BY <2>1, StackFacts
    <3>2. \A m \in markers : [m EXCEPT !.sub = subs[s][Len(subs[s]) - 1]] \in Marker
      BY ZenonT(40), <3>1 DEF Marker, TypeOK
    <3>3. QED
      BY <1>3, <3>2 DEF ReleaseSavepoint, MarkersOf, TypeOK
  <2>4. QED
    BY ZenonT(40), <1>3, <2>1, <2>2, <2>3, StackFacts DEF ReleaseSavepoint, TypeOK, brokerVars
<1>4. ASSUME NEW s \in Sessions, RollbackSub(s) PROVE TypeOK'
  <2>1. pc[s] # "idle" /\ Nested(s)
    BY <1>4 DEF RollbackSub
  <2>2. Handed(xid[s], Inner(s), 0) \in Seq(Record) /\ Len(Handed(xid[s], Inner(s), 0)) = Len(log)
    <3>1. Inner(s) \in 0 .. MaxSub /\ 0 \in 0 .. MaxSub /\ xid[s] \in Xids
      BY <2>1, StackFacts, ConstantFacts DEF SubIds
    <3>2. QED
      BY <3>1, HandedFacts
  <2>3. generation' \in [Sessions -> 0 .. MaxSub] /\ maxSubid' \in [Sessions -> 0 .. MaxSub]
    <3>1. generation[s] \in 0 .. MaxSub /\ Len(subs[s]) \in Nat /\ Len(subs[s]) > 0
          /\ nextSub[s] \in 1 .. MaxSub + 1 /\ generation[s] + Len(subs[s]) < nextSub[s]
      BY <2>1 DEF SessionInv, SessionOK, TypeOK
    <3>2. generation[s] + 1 \in 0 .. MaxSub
      BY <3>1, ConstantFacts
    <3>3. QED
      <4>1. 0 \in 0 .. MaxSub
        BY ConstantFacts
      <4>2. CASE maxSubid[s] >= Inner(s)
        <5>1. /\ generation' = [generation EXCEPT ![s] = generation[s] + 1]
              /\ maxSubid' = [maxSubid EXCEPT ![s] = 0]
          BY <1>4, <4>2 DEF RollbackSub, RolledBack
        <5>2. QED
          BY <3>2, <4>1, <5>1 DEF TypeOK
      <4>3. CASE ~(maxSubid[s] >= Inner(s))
        BY <1>4, <4>3 DEF RollbackSub, RolledBack, TypeOK
      <4>4. QED
        BY <4>2, <4>3
  <2>4. QED
    BY ZenonT(40), <1>4, <2>1, <2>2, <2>3, StackFacts DEF RollbackSub, MarkersOf, TypeOK, brokerVars
<1>5. ASSUME NEW s \in Sessions, Produce(s) PROVE TypeOK'
  <2>1. Inner(s) \in SubIds /\ xid[s] \in Xids
    BY <1>5, StackFacts DEF Produce
  <2>2. [kind |-> "sql", xid |-> xid[s], gen |-> generation[s], sub |-> Inner(s)] \in Record
    BY <2>1, ConstantFacts DEF Record, SqlRecord, TypeOK, SubIds
  <2>3. log' \in Seq(Record) /\ Len(log') = Len(log) + 1
    BY <1>5, <2>2 DEF Produce, TypeOK
  <2>4. HighWatermark \in Offsets /\ Len(log') <= MaxLog
    BY <1>5, <2>3, ConstantFacts DEF Produce, HighWatermark, Offsets, TypeOK
  <2>5. maxSubid' \in [Sessions -> 0 .. MaxSub]
    BY <1>5, <2>1, ConstantFacts DEF Produce, Larger, TypeOK, SubIds
  <2>6. pending' \subseteq Offsets /\ reserved' \in [Sessions -> Offsets \cup {-1}]
    <3>1. CASE reserved[s] = -1
      <4>1. pending' = pending \cup {HighWatermark}
            /\ reserved' = [reserved EXCEPT ![s] = HighWatermark]
        BY <1>5, <3>1 DEF Produce
      <4>2. QED
        BY <2>4, <4>1 DEF TypeOK
    <3>2. CASE reserved[s] # -1
      BY SMTT(30), <1>5, <3>2 DEF Produce, TypeOK
    <3>3. QED
      BY <3>1, <3>2
  <2>7. QED
    BY SMTT(30), <1>5, <2>3, <2>4, <2>5, <2>6, ConstantFacts DEF Produce, TypeOK, brokerVars
<1>6. ASSUME NEW s \in Sessions, ProduceFails(s) PROVE TypeOK'
  BY SMTT(30), <1>6, StackFacts, ConstantFacts DEF ProduceFails, Larger, TypeOK, SubIds, brokerVars
<1>7. ASSUME NEW s \in Sessions, InsertMarker(s) PROVE TypeOK'
  <2>1. base[s] \in Offsets /\ Inner(s) \in SubIds /\ xid[s] \in Xids
    <3>1. pc[s] = "appended"
      BY <1>7 DEF InsertMarker
    <3>2. base[s] \in 0 .. Len(log) - 1
      BY <3>1 DEF SessionInv, SessionOK
    <3>3. base[s] \in Offsets \cup {-1}
      BY DEF TypeOK
    <3>4. QED
      BY <3>1, <3>2, <3>3, StackFacts
  <2>2. markers' \subseteq Marker
    BY <1>7, <2>1 DEF InsertMarker, Marker, TypeOK
  <2>3. QED
    BY SMTT(30), <1>7, <2>2 DEF InsertMarker, TypeOK, brokerVars
<1>8. ASSUME NEW s \in Sessions, MarkerFails(s) PROVE TypeOK'
  BY SMTT(30), <1>8 DEF MarkerFails, TypeOK, brokerVars
<1>9. ASSUME NEW s \in Sessions, PreCommit(s) PROVE TypeOK'
  BY SMTT(30), <1>9, StackFacts DEF PreCommit, TypeOK, brokerVars
<1>10. ASSUME NEW s \in Sessions, Commit(s) PROVE TypeOK'
  BY SMTT(30), <1>10, StackFacts DEF Commit, TypeOK, brokerVars
<1>11. ASSUME NEW s \in Sessions, Abort(s) PROVE TypeOK'
  BY SMTT(30), <1>11, StackFacts DEF Abort, TypeOK, brokerVars
<1>12. ASSUME NEW s \in Sessions, Callback(s) PROVE TypeOK'
  BY SMTT(30), <1>12, ConstantFacts DEF Callback, TypeOK, brokerVars
<1>13. ASSUME NEW from \in Offsets, FetchHighWatermark(from) PROVE TypeOK'
  <2>1. HighWatermark \in Offsets
    BY ConstantFacts DEF HighWatermark, Offsets, TypeOK
  <2>2. fetch' \in FetchState
    BY ZenonT(40), <1>13, <2>1, ConstantFacts DEF FetchHighWatermark, NoFetch, FetchState
  <2>3. QED
    BY <1>13, <2>2 DEF FetchHighWatermark, TypeOK, sessionVars, brokerVars
<1>14. CASE WireAppend
  <2>1. log' \in Seq(Record) /\ Len(log') = Len(log) + 1
    BY <1>14 DEF WireAppend, Record, WireRecord, TypeOK
  <2>2. QED
    BY <1>14, <2>1, ConstantFacts DEF WireAppend, HighWatermark, TypeOK, sessionVars, brokerVars
<1>15. CASE SyncBeforeAck
  BY <1>15 DEF SyncBeforeAck, TypeOK, sessionVars, brokerVars
<1>16. CASE FetchLso
  <2>1. fetch' \in FetchState
    BY ZenonT(40), <1>16, ConstantFacts DEF FetchLso, FetchState, TypeOK
  <2>2. QED
    BY <1>16, <2>1 DEF FetchLso, TypeOK, sessionVars, brokerVars
<1>17. CASE FetchMarkers
  <2>1. \A m \in markers : m.base \in Offsets
    BY DEF TypeOK, Marker
  <2>2. \A c \in 0 .. fetch.ceiling : c \in Offsets
    BY ConstantFacts DEF TypeOK, FetchState, Offsets
  <2>3. fetch' \in FetchState
    <3> DEFINE inRange == {m.base : m \in {n \in markers : /\ Visible(n)
                                                           /\ n.base >= fetch.from
                                                           /\ n.base < fetch.ceiling}}
               lowest == {b \in inRange :
                            Cardinality({c \in inRange : c < b}) < MarkersPerFetch}
    <3>1. lowest \in SUBSET Offsets
      BY <2>1
    <3>2. \E c \in 0 .. fetch.ceiling :
            fetch' = [fetch EXCEPT !.at = "markers", !.ceiling = c, !.committed = lowest]
      BY ZenonT(40), <1>17 DEF FetchMarkers
    <3> HIDE DEF lowest, inRange
    <3>3. PICK c \in 0 .. fetch.ceiling :
            fetch' = [fetch EXCEPT !.at = "markers", !.ceiling = c, !.committed = lowest]
      BY ZenonT(40), <3>2
    <3>4. QED
      BY ZenonT(40), <2>2, <3>1, <3>3 DEF FetchState, TypeOK
  <2>4. QED
    BY <1>17, <2>3 DEF FetchMarkers, TypeOK, sessionVars, brokerVars
<1>18. CASE FetchScan
  BY <1>18, ConstantFacts DEF FetchScan, TypeOK, sessionVars, brokerVars
<1>19. CASE Crash
  <2>1. PICK n \in 0 .. Len(log) : log' = SubSeq(log, 1, n) /\ synced' = n
    BY <1>19 DEF Crash
  <2>2. log' \in Seq(Record) /\ Len(log') = n
    BY <2>1 DEF TypeOK
  <2>3. QED
    <3>1. /\ status' \in [Xids -> {"unused", "running", "committed", "aborted"}]
          /\ markers' \subseteq Marker
      BY <1>19 DEF Crash, TypeOK
    <3>2. /\ <<>> \in Seq(SubIds) /\ 0 \in 0 .. MaxSub /\ 1 \in 1 .. MaxSub + 1
          /\ restarts + 1 \in 0 .. MaxRestarts
      BY <1>19, ConstantFacts DEF Crash, TypeOK
    <3>3. log' \in Seq(Record) /\ Len(log') <= MaxLog /\ synced' \in 0 .. Len(log')
      BY <2>1, <2>2, ConstantFacts DEF TypeOK
    <3>4. QED
      BY ZenonT(40), <1>19, <3>1, <3>2, <3>3, ConstantFacts DEF Crash, TypeOK
<1>20. CASE WorkerRestart
  BY <1>20, ConstantFacts DEF WorkerRestart, TypeOK, sessionVars
<1>21. CASE RaiseEpochs
  BY <1>21 DEF RaiseEpochs, TypeOK, sessionVars
<1>22. CASE ReconcileRead
  <2>1. HighWatermark \in Offsets
    BY ConstantFacts DEF HighWatermark, Offsets, TypeOK
  <2>2. QED
    BY <1>22, <2>1 DEF ReconcileRead, TypeOK, sessionVars
<1>23. CASE ReconcileDelete
  BY <1>23, ConstantFacts DEF ReconcileDelete, TypeOK, sessionVars
<1>24. CASE ReconcileFails
  BY <1>24, ConstantFacts DEF ReconcileFails, TypeOK, sessionVars
<1>25. QED
  BY SMTT(30), <1>1, <1>2, <1>3, <1>4, <1>5, <1>6, <1>7, <1>8, <1>9, <1>10, <1>11, <1>12, <1>13, <1>14, <1>15, <1>16, <1>17, <1>18, <1>19, <1>20, <1>21, <1>22, <1>23, <1>24
  DEF Next, Session, Fetch, Start

\* A step of the broker that only moves the broker on keeps sessions where they are.
LEMMA SessionFrame ==
  ASSUME SessionInv, UNCHANGED <<log, status, sessionVars>>
  PROVE  SessionInv'
BY DEF SessionInv, SessionOK, sessionVars

\* Every step leaves each session and its transaction in step.
LEMMA SessionStep ==
  ASSUME IInv, Next
  PROVE  SessionInv'
<1> USE DEF IInv
<1>1. ASSUME NEW s \in Sessions, Begin(s) PROVE SessionInv'
  <2>1. PICK x \in Xids : /\ status[x] = "unused"
                          /\ status' = [status EXCEPT ![x] = "running"]
                          /\ xid' = [xid EXCEPT ![s] = x]
    BY ZenonT(40), <1>1 DEF Begin
  <2>2. x # 0
    BY ConstantFacts DEF Xids
  <2>3. SessionOK(s)'
    BY <1>1, <2>1, <2>2 DEF Begin, TypeOK, SessionOK, InTxn, Top
  <2>4. ASSUME NEW t \in Sessions, t # s PROVE SessionOK(t)'
    BY SMTT(30), <1>1, <2>1, <2>4 DEF Begin, TypeOK, SessionInv, SessionOK, InTxn
  <2>5. QED
    BY <2>3, <2>4 DEF SessionInv
<1>2. ASSUME NEW s \in Sessions, Savepoint(s) PROVE SessionInv'
  BY SMTT(30), <1>2 DEF Savepoint, TypeOK, SessionInv, SessionOK, InTxn, sessionVars, brokerVars
<1>3. ASSUME NEW s \in Sessions, ReleaseSavepoint(s) PROVE SessionInv'
  <2>1. pc[s] # "idle" /\ Nested(s)
    BY <1>3 DEF ReleaseSavepoint
  <2>2. Inner(s) \in 0 .. MaxSub /\ subs[s][Len(subs[s]) - 1] \in 0 .. MaxSub /\ xid[s] \in Xids
    BY <2>1, StackFacts, ConstantFacts DEF SubIds
  <2>3. Len(log') = Len(log)
    BY <1>3, <2>2, HandedFacts DEF ReleaseSavepoint
  <2>4. Len(Outer(s)) = Len(subs[s]) - 1 /\ Len(subs[s]) > 1 /\ Len(subs[s]) \in Nat
    BY SMTT(30), <2>1, StackFacts DEF Nested, TypeOK
  <2>6. SessionOK(s)'
    BY SMTT(30), <1>3, <2>1, <2>3, <2>4 DEF ReleaseSavepoint, TypeOK, SessionInv, SessionOK, InTxn
  <2>7. ASSUME NEW t \in Sessions, t # s PROVE SessionOK(t)'
    BY <1>3, <2>3, <2>7 DEF ReleaseSavepoint, TypeOK, SessionInv, SessionOK, InTxn
  <2>8. QED
    BY <2>6, <2>7 DEF SessionInv
<1>4. ASSUME NEW s \in Sessions, RollbackSub(s) PROVE SessionInv'
  <2>1. pc[s] # "idle" /\ Nested(s)
    BY <1>4 DEF RollbackSub
  <2>2. Inner(s) \in 0 .. MaxSub /\ 0 \in 0 .. MaxSub /\ xid[s] \in Xids
    BY <2>1, StackFacts, ConstantFacts DEF SubIds
  <2>3. Len(log') = Len(log)
    BY <1>4, <2>2, HandedFacts DEF RollbackSub
  <2>4. Len(Outer(s)) = Len(subs[s]) - 1 /\ Len(subs[s]) > 1 /\ Len(subs[s]) \in Nat
    BY <2>1, StackFacts DEF Nested, TypeOK
  <2>5. /\ generation'[s] \in {generation[s], generation[s] + 1}
        /\ \A t \in Sessions : t # s => generation'[t] = generation[t]
    BY <1>4 DEF RollbackSub, RolledBack, TypeOK
  <2>6. SessionOK(s)'
    BY SMTT(30), <1>4, <2>1, <2>3, <2>4, <2>5 DEF RollbackSub, TypeOK, SessionInv, SessionOK, InTxn
  <2>7. ASSUME NEW t \in Sessions, t # s PROVE SessionOK(t)'
    BY SMTT(30), <1>4, <2>3, <2>7, <2>5 DEF RollbackSub, TypeOK, SessionInv, SessionOK, InTxn
  <2>8. QED
    BY <2>6, <2>7 DEF SessionInv
<1>5. ASSUME NEW s \in Sessions, Produce(s) PROVE SessionInv'
  <2>1. Len(log') = Len(log) + 1 /\ Len(log) \in Nat
    BY <1>5 DEF Produce, TypeOK
  <2>2. SessionOK(s)'
    BY <1>5, <2>1 DEF Produce, HighWatermark, TypeOK, SessionInv, SessionOK, InTxn
  <2>3. ASSUME NEW t \in Sessions, t # s PROVE SessionOK(t)'
    <3>1. reserved'[t] = reserved[t]
      BY <1>5, <2>3 DEF Produce, TypeOK
    <3>2. QED
      BY SMTT(30), <1>5, <2>1, <2>3, <3>1 DEF Produce, TypeOK, SessionInv, SessionOK, InTxn
  <2>4. QED
    BY <2>2, <2>3 DEF SessionInv
<1>6. ASSUME NEW s \in Sessions, ProduceFails(s) PROVE SessionInv'
  BY <1>6 DEF ProduceFails, TypeOK, SessionInv, SessionOK, InTxn, sessionVars, brokerVars
<1>7. ASSUME NEW s \in Sessions, InsertMarker(s) PROVE SessionInv'
  BY <1>7 DEF InsertMarker, TypeOK, SessionInv, SessionOK, InTxn, sessionVars, brokerVars
<1>8. ASSUME NEW s \in Sessions, MarkerFails(s) PROVE SessionInv'
  BY <1>8 DEF MarkerFails, TypeOK, SessionInv, SessionOK, InTxn, sessionVars, brokerVars
<1>9. ASSUME NEW s \in Sessions, PreCommit(s) PROVE SessionInv'
  BY SMTT(30), <1>9 DEF PreCommit, TypeOK, SessionInv, SessionOK, InTxn, sessionVars, brokerVars
<1>10. ASSUME NEW s \in Sessions, Commit(s) PROVE SessionInv'
  <2>1. xid[s] \in Xids /\ xid[s] # 0
    BY <1>10, StackFacts DEF Commit, SessionInv, SessionOK
  <2>2. SessionOK(s)'
    BY <1>10, <2>1 DEF Commit, TypeOK, SessionInv, SessionOK, InTxn
  <2>3. ASSUME NEW t \in Sessions, t # s PROVE SessionOK(t)'
    <3>1. pc[t] # "idle" => xid[t] # xid[s] /\ xid[t] \in Xids
      BY SMTT(30), <2>1, <2>3, StackFacts DEF XidInv
    <3>2. QED
      BY SMTT(30), <1>10, <2>1, <2>3, <3>1 DEF Commit, TypeOK, SessionInv, SessionOK, InTxn
  <2>4. QED
    BY <2>2, <2>3 DEF SessionInv
<1>11. ASSUME NEW s \in Sessions, Abort(s) PROVE SessionInv'
  <2>1. xid[s] \in Xids /\ xid[s] # 0
    BY <1>11, StackFacts DEF Abort, SessionInv, SessionOK
  <2>2. SessionOK(s)'
    BY <1>11, <2>1 DEF Abort, TypeOK, SessionInv, SessionOK, InTxn
  <2>3. ASSUME NEW t \in Sessions, t # s PROVE SessionOK(t)'
    <3>1. pc[t] # "idle" => xid[t] # xid[s] /\ xid[t] \in Xids
      BY <2>1, <2>3, StackFacts DEF XidInv
    <3>2. QED
      BY SMTT(30), <1>11, <2>1, <2>3, <3>1 DEF Abort, TypeOK, SessionInv, SessionOK, InTxn
  <2>4. QED
    BY <2>2, <2>3 DEF SessionInv
<1>12. ASSUME NEW s \in Sessions, Callback(s) PROVE SessionInv'
  BY <1>12 DEF Callback, TypeOK, SessionInv, SessionOK, InTxn, sessionVars, brokerVars
<1>13. ASSUME NEW from \in Offsets, FetchHighWatermark(from) PROVE SessionInv'
  <2>1. UNCHANGED <<log, status, sessionVars>>
    BY <1>13 DEF FetchHighWatermark, sessionVars
  <2>2. QED
    BY <2>1, SessionFrame
<1>14. CASE WireAppend
  BY <1>14 DEF WireAppend, TypeOK, SessionInv, SessionOK, InTxn, sessionVars, brokerVars
<1>15. CASE SyncBeforeAck
  <2>1. UNCHANGED <<log, status, sessionVars>>
    BY <1>15 DEF SyncBeforeAck, sessionVars
  <2>2. QED
    BY <2>1, SessionFrame
<1>16. CASE FetchLso
  <2>1. UNCHANGED <<log, status, sessionVars>>
    BY <1>16 DEF FetchLso, sessionVars
  <2>2. QED
    BY <2>1, SessionFrame
<1>17. CASE FetchMarkers
  <2>1. UNCHANGED <<log, status, sessionVars>>
    BY <1>17 DEF FetchMarkers, sessionVars
  <2>2. QED
    BY <2>1, SessionFrame
<1>18. CASE FetchScan
  <2>1. UNCHANGED <<log, status, sessionVars>>
    BY <1>18 DEF FetchScan, sessionVars
  <2>2. QED
    BY <2>1, SessionFrame
<1>19. CASE Crash
  BY <1>19 DEF Crash, TypeOK, SessionInv, SessionOK, InTxn, sessionVars, brokerVars
<1>20. CASE WorkerRestart
  <2>1. UNCHANGED <<log, status, sessionVars>>
    BY <1>20 DEF WorkerRestart, sessionVars
  <2>2. QED
    BY <2>1, SessionFrame
<1>21. CASE RaiseEpochs
  <2>1. UNCHANGED <<log, status, sessionVars>>
    BY <1>21 DEF RaiseEpochs, sessionVars
  <2>2. QED
    BY <2>1, SessionFrame
<1>22. CASE ReconcileRead
  <2>1. UNCHANGED <<log, status, sessionVars>>
    BY <1>22 DEF ReconcileRead, sessionVars
  <2>2. QED
    BY <2>1, SessionFrame
<1>23. CASE ReconcileDelete
  <2>1. UNCHANGED <<log, status, sessionVars>>
    BY <1>23 DEF ReconcileDelete, sessionVars
  <2>2. QED
    BY <2>1, SessionFrame
<1>24. CASE ReconcileFails
  <2>1. UNCHANGED <<log, status, sessionVars>>
    BY <1>24 DEF ReconcileFails, sessionVars
  <2>2. QED
    BY <2>1, SessionFrame
<1>25. QED
  BY SMTT(30), <1>1, <1>2, <1>3, <1>4, <1>5, <1>6, <1>7, <1>8, <1>9, <1>10, <1>11, <1>12, <1>13, <1>14, <1>15, <1>16, <1>17, <1>18, <1>19, <1>20, <1>21, <1>22, <1>23, <1>24
  DEF Next, Session, Fetch, Start
=============================================================================
