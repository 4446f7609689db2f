---------------------------- MODULE GroupsProofs ----------------------------
(***************************************************************************)
(* SharedOnce and HandedOver hold of the composition: what becomes of a    *)
(* record of a share group is decided once, and a partition of a KIP-848   *)
(* group has one owner at a time, whatever the other protocols do with the *)
(* same group id.  ShareGroupProofs and ConsumerGroupProofs have the steps *)
(* of the two groups; no other step touches their tables.                  *)
(***************************************************************************)
EXTENDS Groups, ShareGroupProofs, ConsumerGroupProofs

\* A step on the offsets leaves the scenario and the tables of the other two protocols alone, and
\* spends from one budget at most.
LEMMA OffsetsAside ==
  ASSUME Offsets_Next
  PROVE  scenario' = scenario /\ OnlyClassic /\ (spent' = spent \/ \E w \in Counts : Spend(w))
<1>1. ASSUME NEW m, NEW gen, NEW part, offset_commit(m, gen, part)
      PROVE  scenario' = scenario /\ OnlyClassic /\ Spend("commits")
  BY <1>1, ZenonT(40) DEF offset_commit
<1>2. ASSUME NEW c, NEW m, NEW gen, NEW part, txn_offset_commit(c, m, gen, part)
      PROVE  scenario' = scenario /\ OnlyClassic /\ Spend("txns")
  BY <1>2, ZenonT(40) DEF txn_offset_commit
<1>3. ASSUME NEW m, NEW gen, NEW part, NEW ends, OffsetFetch(m, part, gen) \/ EndTxn(m, ends)
      PROVE  scenario' = scenario /\ OnlyClassic /\ spent' = spent
  BY <1>3, ZenonT(40) DEF OffsetFetch, EndTxn
<1>4. ASSUME NEW part, offset_delete(part) \/ delete_group
      PROVE  scenario' = scenario /\ OnlyClassic /\ Spend("admin")
  BY <1>4, ZenonT(40) DEF offset_delete, delete_group
<1>5. {"commits", "txns", "admin"} \subseteq Counts
  BY DEF Counts
<1>6. QED
  BY <1>1, <1>2, <1>3, <1>4, <1>5, ZenonT(40) DEF Offsets_Next, Commits

\* No step changes the scenario.
LEMMA ScenarioKept ==
  ASSUME Next
  PROVE  scenario' = scenario
<1>1. CASE ClassicNext
  <2>1. ClassicServes \/ CompleteParked(TRUE) => scenario' = scenario
    BY ZenonT(40) DEF ClassicServes, ExpireGroupMembers, CompleteParked
  <2>2. WindowPasses \/ DeadlinePasses \/ (\E i \in DOMAIN parked : Elapse(i)) => scenario' = scenario
    BY DEF WindowPasses, DeadlinePasses, Elapse, ClassicTime
  <2>3. ASSUME NEW m \in Members, ClassicFollows(m) \/ Lapse(m) PROVE scenario' = scenario
    BY ZenonT(40), <2>3 DEF ClassicFollows, JoinGroup, SyncGroup, Heartbeat, Lapse
  <2>4. ASSUME NEW m \in Members, NEW b \in BOOLEAN, LeaveGroup(m, b) \/ HangUp(m, b) PROVE scenario' = scenario
    BY <2>4 DEF LeaveGroup, HangUp
  <2>5. QED
    BY ZenonT(40), <1>1, <2>1, <2>2, <2>3, <2>4 DEF ClassicNext
<1>2. CASE ConsumerNext
  <2>1. ExpireConsumers \/ Grow \/ Reassign => scenario' = scenario
    BY DEF ExpireConsumers, Grow, Reassign, ConsumerTime
  <2>2. ASSUME NEW m \in Members, NEW n, NEW got, ConsumerHeartbeat(m, n, got) PROVE scenario' = scenario
    BY ZenonT(40), <2>2 DEF ConsumerHeartbeat
  <2>3. ASSUME NEW m \in Members, Revoke(m) \/ TakeOn(m) \/ ConsumerCrash(m) \/ Resubscribe(m)
        PROVE  scenario' = scenario
    BY <2>3 DEF Revoke, TakeOn, ConsumerCrash, Resubscribe
  <2>4. ASSUME NEW m \in Members, RevokePast(m) \/ ConsumerLapse(m) \/ (\E static \in BOOLEAN : ConsumerLeave(m, static))
        PROVE  scenario' = scenario
    BY <2>4 DEF RevokePast, ConsumerLapse, ConsumerLeave, ConsumerTime
  <2>5. QED
    BY ZenonT(40), <1>2, <2>1, <2>2, <2>3, <2>4 DEF ConsumerNext, ConsumerFollows
<1>3. CASE ShareNext
  <2>1. expire \/ SqlReads \/ (\E o \in Offsets : LockLapses(o)) \/ (\E to \in 0 .. Records : MoveShareOffset(to))
          => scenario' = scenario
    BY ZenonT(40) DEF expire, SqlReads, LockLapses, MoveShareOffset, ShareTime
  <2>2. ASSUME NEW m \in Members, ShareHeartbeat(m) \/ ShareLeave(m) \/ ShareSessionEnds(m) \/ SqlAcquires(m)
                                  \/ ShareCrash(m) \/ ShareLapse(m)
        PROVE  scenario' = scenario
    BY <2>2 DEF ShareHeartbeat, ShareLeave, ShareSessionEnds, SqlAcquires, ShareCrash,
      ShareLapse, ShareTime
  <2>3. ASSUME NEW m \in Members, NEW b, NEW limit, NEW x, share_fetch(m, b, limit, x) \/ share_acknowledge(m, b, x)
        PROVE  scenario' = scenario
    BY <2>3 DEF share_fetch, share_acknowledge
  <2>4. QED
    BY ZenonT(40), <1>3, <2>1, <2>2, <2>3 DEF ShareNext
<1>4. CASE Offsets_Next
  BY <1>4, OffsetsAside
<1>5. QED
  BY <1>1, <1>2, <1>3, <1>4 DEF Next

\* What becomes of a record of a share group, with every other protocol on the same group id.
THEOREM ShareInvariant == Spec => []ShareInv
<1>1. Init => ShareInv
  BY InitShareInv DEF Init
<1>2. ShareInv /\ [Next]_groupVars => ShareInv'
  <2> SUFFICES ASSUME ShareInv, [Next]_groupVars PROVE ShareInv'
    OBVIOUS
  <2>1. CASE UNCHANGED <<scenario, q, worker, sqlFrom, fate>>
    BY <2>1, ShareFacts, Concludes DEF ShareInv, ShareTypeOK
  <2>2. CASE ShareNext
    BY <2>2, ShareStep
  <2>3. CASE (ClassicNext /\ OnlyClassic) \/ (ConsumerNext /\ OnlyConsumer) \/ Offsets_Next
    <3>1. UNCHANGED shareVars
      BY <2>3, OffsetsAside DEF OnlyClassic, OnlyConsumer
    <3>2. scenario' = scenario
      BY <2>3, ScenarioKept DEF Next
    <3>3. QED
      BY <2>1, <3>1, <3>2 DEF shareVars
  <2>4. CASE UNCHANGED groupVars
    BY <2>1, <2>4 DEF groupVars
  <2>5. QED
    BY <2>2, <2>3, <2>4 DEF Next
<1>3. QED
  BY <1>1, <1>2, PTL DEF Spec

\* SharedOnce: the start offset of a share group passes a record only when it is finished, and where
\* the broker alone acquires, one member accepts it and it is handed out at most
\* MAX_DELIVERY_ATTEMPTS times.
THEOREM SharedOnceCorrect == Spec => []SharedOnce
BY InvShared, ShareInvariant, PTL

-----------------------------------------------------------------------------

\* A step uses up at most one of the scenario's counts.
Spends == spent' = spent \/ \E w \in Counts : Spend(w)

LEMMA SpendsFacts ==
  /\ UNCHANGED spent => Spends
  /\ Spend("joins") \/ Spend("leaves") \/ Spend("hangups") \/ Spend("faults") => Spends
  /\ Spend("commits") \/ Spend("admin") => Spends
<1>1. {"joins", "leaves", "hangups", "faults", "commits", "admin"} \subseteq Counts
  BY DEF Counts
<1>2. QED
  BY ZenonT(40), <1>1 DEF Spends

\* So does every step of the other protocols.
LEMMA OthersSpend ==
  ASSUME ClassicNext \/ ShareNext \/ Offsets_Next
  PROVE  Spends
<1>1. CASE ClassicNext
  <2>1. ClassicServes \/ CompleteParked(TRUE) => Spends
    BY ZenonT(40), SpendsFacts DEF ClassicServes, ExpireGroupMembers, CompleteParked
  <2>2. WindowPasses \/ DeadlinePasses \/ (\E i \in DOMAIN parked : Elapse(i)) => Spends
    BY ZenonT(40), SpendsFacts DEF WindowPasses, DeadlinePasses, Elapse, ClassicTime
  <2>3. ASSUME NEW m \in Members, ClassicFollows(m) PROVE Spends
    BY ZenonT(40), <2>3, SpendsFacts DEF ClassicFollows, JoinGroup, SyncGroup, Heartbeat
  <2>4. ASSUME NEW m \in Members, Lapse(m) PROVE Spends
    BY ZenonT(40), <2>4, SpendsFacts DEF Lapse
  <2>5. ASSUME NEW m \in Members, NEW b \in BOOLEAN, LeaveGroup(m, b) \/ HangUp(m, b) PROVE Spends
    BY ZenonT(40), <2>5, SpendsFacts DEF LeaveGroup, HangUp
  <2>6. QED
    BY ZenonT(40), <1>1, <2>1, <2>2, <2>3, <2>4, <2>5 DEF ClassicNext
<1>2. CASE ShareNext
  <2>1. expire \/ SqlReads \/ (\E o \in Offsets : LockLapses(o)) \/ (\E to \in 0 .. Records : MoveShareOffset(to))
          => Spends
    BY ZenonT(40), SpendsFacts DEF expire, SqlReads, LockLapses, MoveShareOffset, ShareTime
  <2>2. ASSUME NEW m \in Members, ShareHeartbeat(m) \/ ShareLeave(m) \/ ShareSessionEnds(m) \/ SqlAcquires(m)
                                  \/ ShareCrash(m) \/ ShareLapse(m)
        PROVE  Spends
    BY ZenonT(40), <2>2, SpendsFacts
       DEF ShareHeartbeat, ShareLeave, ShareSessionEnds, SqlAcquires, ShareCrash, ShareLapse
  <2>3. ASSUME NEW m \in Members, NEW b, NEW limit, NEW x, share_fetch(m, b, limit, x) \/ share_acknowledge(m, b, x)
        PROVE  Spends
    BY ZenonT(40), <2>3, SpendsFacts DEF share_fetch, share_acknowledge
  <2>4. QED
    BY ZenonT(40), <1>2, <2>1, <2>2, <2>3 DEF ShareNext
<1>3. CASE Offsets_Next
  BY <1>3, OffsetsAside DEF Spends
<1>4. QED
  BY <1>1, <1>2, <1>3

\* What the broker granted the members of a KIP-848 group, and what they hold, with every other
\* protocol on the same group id.
THEOREM ConsumerInvariant == Spec => []ConsumerInv
<1>1. Init => ConsumerInv
  BY InitConsumerInv DEF Init
<1>2. ConsumerInv /\ [Next]_groupVars => ConsumerInv'
  <2> SUFFICES ASSUME ConsumerInv, [Next]_groupVars PROVE ConsumerInv'
    OBVIOUS
  <2>1. CASE ConsumerNext
    BY <2>1, ConsumerStep
  <2>2. CASE (ClassicNext /\ OnlyClassic) \/ (ShareNext /\ OnlyShare) \/ Offsets_Next
    <3>1. UNCHANGED consumerVars
      BY <2>2, OffsetsAside DEF OnlyClassic, OnlyShare
    <3>2. scenario' = scenario
      BY <2>2, ScenarioKept DEF Next
    <3>3. spent' = spent \/ \E w \in Counts : Spend(w)
      BY <2>2, OthersSpend DEF Spends
    <3>4. QED
      BY <3>1, <3>2, <3>3, AsideKept
  <2>3. CASE UNCHANGED groupVars
    BY <2>3, AsideKept DEF groupVars, consumerVars
  <2>4. QED
    BY <2>1, <2>2, <2>3 DEF Next
<1>3. QED
  BY <1>1, <1>2, PTL DEF Spec

\* HandedOver: reconcile never grants a partition that another member was granted and did not give
\* back, and while answers arrive and members are on time no two clients consume one.
THEOREM HandedOverCorrect == Spec => []HandedOver
BY InvHandedOver, ConsumerInvariant, PTL

=============================================================================
