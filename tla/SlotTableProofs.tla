--------------------------- MODULE SlotTableProofs ---------------------------
(***************************************************************************)
(* For any shard, any hash and any partitions: the slot a lookup finds     *)
(* first is current even when deletions leave holes; and until a topic is  *)
(* deleted the LSO holds back every reserved record and is not pinned.     *)
(***************************************************************************)
EXTENDS SlotTable, TLAPS

\* Probing orders the slots of the shard.
LEMMA RankFacts ==
  ASSUME NEW p \in Partitions, NEW i \in Slots
  PROVE  /\ Rank(p, i) \in Nat
         /\ \A j \in Slots : Rank(p, i) = Rank(p, j) => i = j
  BY ConstantsAssumption DEF Rank, Slots

\* Every operation keeps the types.
LEMMA TypeStep ==
  ASSUME TypeOK, [Next]_vars
  PROVE  TypeOK'
<1> USE ConstantsAssumption DEF TypeOK
<1>1. ASSUME NEW p \in Partitions, NEW i \in Slots
      PROVE  NextAt(p, i) \in Offsets /\ PendingAt(p, i) \in SUBSET Offsets
  BY DEF NextAt, PendingAt
<1>2. ASSUME NEW p \in Partitions, Append(p) PROVE TypeOK'
  <2>1. PICK i \in Slots, kept \in Kept(p) :
          /\ WithSlot(p, i) /\ NextAt(p, i) < MaxLog
          /\ next' = [next EXCEPT ![i] = NextAt(p, i) + 1]
          /\ files' = [files EXCEPT ![p] = IF kept THEN NextAt(p, i) + 1 ELSE @]
          /\ pending' = [pending EXCEPT ![i] = PendingAt(p, i)]
          /\ UNCHANGED <<topic, heldVars>>
    BY ZenonT(40), <1>2 DEF Append
  <2>2. NextAt(p, i) + 1 \in Offsets
    BY <2>1, <1>1 DEF Offsets
  <2>3. files' \in [Partitions -> Offsets]
    BY <2>1, <2>2
  <2> QED BY <2>1, <2>2, <2>3, <1>1 DEF WithSlot, heldVars
<1>3. ASSUME NEW p \in Partitions, Touch(p) PROVE TypeOK'
  <2>1. PICK i \in Slots : /\ WithSlot(p, i)
                           /\ next' = [next EXCEPT ![i] = NextAt(p, i)]
                           /\ pending' = [pending EXCEPT ![i] = PendingAt(p, i)]
                           /\ UNCHANGED <<files, topic, heldVars>>
    BY ZenonT(40), <1>3 DEF Touch
  <2> QED BY <2>1, <1>1 DEF WithSlot, heldVars
<1>4. ASSUME NEW p \in Partitions, FreeSlots(p) PROVE TypeOK'
  <2>1. 0 \in Offsets
    BY DEF Offsets
  <2> QED BY <1>4, <2>1 DEF FreeSlots, Topic, heldVars
<1>5. ASSUME NEW p \in Partitions, RemoveFiles(p) \/ EndDelete(p) PROVE TypeOK'
  <2>1. 0 \in Offsets
    BY DEF Offsets
  <2>2. CASE RemoveFiles(p)
    BY <2>1, <2>2 DEF RemoveFiles, Topic, slotVars
  <2>3. CASE EndDelete(p)
    BY <2>3 DEF EndDelete, Topic, slotVars, heldVars
  <2> QED BY <1>5, <2>2, <2>3
<1>6. ASSUME NEW t \in Holders, ReleasePending(t) PROVE TypeOK'
  <2>1. 0 \in Offsets
    BY DEF Offsets
  <2>2. pending' \in [Slots -> SUBSET Offsets]
    BY <1>6 DEF ReleasePending
  <2> QED BY <1>6, <2>1, <2>2 DEF ReleasePending
<1>7. ASSUME NEW t \in Holders, NEW p \in Partitions, AppendPending(t, p) PROVE TypeOK'
  <2>1. PICK i \in Slots, kept \in Kept(p) :
          /\ WithSlot(p, i) /\ NextAt(p, i) < MaxLog
          /\ next' = [next EXCEPT ![i] = NextAt(p, i) + 1]
          /\ files' = [files EXCEPT ![p] = IF kept THEN NextAt(p, i) + 1 ELSE @]
          /\ pending' = [pending EXCEPT ![i] = PendingAt(p, i) \cup {NextAt(p, i)}]
          /\ on' = [on EXCEPT ![t] = p]
          /\ base' = [base EXCEPT ![t] = NextAt(p, i)]
          /\ stands' = [stands EXCEPT ![t] = kept]
          /\ UNCHANGED topic
    BY ZenonT(40), <1>7 DEF AppendPending
  <2>2. NextAt(p, i) + 1 \in Offsets
    BY <2>1, <1>1 DEF Offsets
  <2>3. PendingAt(p, i) \cup {NextAt(p, i)} \in SUBSET Offsets
    BY <1>1
  <2>4. files' \in [Partitions -> Offsets]
    BY <2>1, <2>2
  <2>5. kept \in BOOLEAN
    BY ZenonT(40) DEF Kept
  <2> QED BY <2>1, <2>2, <2>3, <2>4, <2>5, <1>1 DEF WithSlot
<1>8. CASE Restart
  <2>1. 0 \in Offsets
    BY DEF Offsets
  <2> QED BY <1>8, <2>1 DEF Restart, Topic
<1>9. CASE UNCHANGED vars
  BY <1>9 DEF vars, slotVars, heldVars
<1> QED BY <1>2, <1>3, <1>4, <1>5, <1>6, <1>7, <1>8, <1>9 DEF Next

-----------------------------------------------------------------------------
(* Positions *)

\* What with_slot comes to is what a later lookup comes to first, and its
\* position is the files'.
LEMMA WithSlotFacts ==
  ASSUME IInv, NEW p \in Partitions, NEW i \in Slots, WithSlot(p, i)
  PROVE  /\ topic[p] = "live" => NextAt(p, i) = files[p]
         /\ \A j \in Slots : Snapshot(p, j)' => j = i
         /\ \A q \in Partitions : q # p => Of(q)' = Of(q)
<1> USE ConstantsAssumption DEF IInv, TypeOK, WithSlot
<1>1. topic[p] = "live" => NextAt(p, i) = files[p]
  <2>1. part[i] = p => Snapshot(p, i)
    BY DEF SlotFor, Snapshot, IsFirst, Of
  <2> QED BY <2>1 DEF NextAt, PositionIsCurrent, SlotFor, IsFirst, Of
<1>2. ASSUME NEW j \in Slots, Snapshot(p, j)' PROVE j = i
  <2>1. Of(p)' = Of(p) \cup {i}
    BY DEF Of
  <2>2. Rank(p, j) <= Rank(p, i) /\ j \in Of(p) \cup {i}
    BY <1>2, <2>1 DEF Snapshot, IsFirst, Rank
  <2>3. Rank(p, i) <= Rank(p, j)
    BY <2>2, RankFacts DEF SlotFor, IsFirst
  <2>4. Rank(p, i) \in Nat /\ Rank(p, j) \in Nat
    BY RankFacts
  <2>5. Rank(p, i) = Rank(p, j)
    BY <2>2, <2>3, <2>4
  <2> QED BY <2>5, RankFacts
<1>3. ASSUME NEW q \in Partitions, q # p PROVE Of(q)' = Of(q)
  BY <1>3 DEF SlotFor, IsFirst, Of
<1> QED BY <1>1, <1>2, <1>3

\* Every operation keeps the first slot of each partition current.
LEMMA PositionStep ==
  ASSUME IInv, [Next]_vars
  PROVE  PositionIsCurrent'
<1> USE ConstantsAssumption
<1>1. ASSUME NEW p \in Partitions, NEW i \in Slots, WithSlot(p, i), NEW n, NEW k,
             next' = [next EXCEPT ![i] = n], files' = [files EXCEPT ![p] = k],
             topic[p] = "live" => k = n, topic' = topic
      PROVE  PositionIsCurrent'
  <2> SUFFICES ASSUME NEW q \in Partitions, NEW j \in Slots, Snapshot(q, j)',
                      topic'[q] = "live"
               PROVE  next'[j] = files'[q]
    BY DEF PositionIsCurrent
  <2>1. CASE q = p
    <3>1. j = i
      BY <1>1, <2>1, WithSlotFacts
    <3> QED BY <1>1, <2>1, <3>1 DEF IInv, TypeOK
  <2>2. CASE q # p
    <3>1. Of(q)' = Of(q)
      BY <1>1, <2>2, WithSlotFacts
    <3>2. Snapshot(q, j) /\ j \in Of(q)'
      BY <3>1 DEF Snapshot, IsFirst, Rank
    <3>3. j # i
      BY <1>1, <2>2, <3>2 DEF Of, WithSlot, IInv, TypeOK
    <3> QED BY <1>1, <2>2, <3>2, <3>3 DEF IInv, TypeOK, PositionIsCurrent
  <2> QED BY <2>1, <2>2
<1>2. ASSUME NEW p \in Partitions, Append(p) PROVE PositionIsCurrent'
  <2>1. PICK i \in Slots, kept \in Kept(p) :
          /\ WithSlot(p, i) /\ topic' = topic
          /\ next' = [next EXCEPT ![i] = NextAt(p, i) + 1]
          /\ files' = [files EXCEPT ![p] = IF kept THEN NextAt(p, i) + 1 ELSE files[p]]
    BY ZenonT(40), <1>2 DEF Append
  <2>2. topic[p] = "live" => kept
    BY ZenonT(40) DEF Kept
  <2> QED BY ZenonT(40), <2>1, <2>2, <1>1
<1>3. ASSUME NEW p \in Partitions, Touch(p) PROVE PositionIsCurrent'
  <2>1. PICK i \in Slots : /\ WithSlot(p, i)
                           /\ next' = [next EXCEPT ![i] = NextAt(p, i)]
                           /\ pending' = [pending EXCEPT ![i] = PendingAt(p, i)]
                           /\ UNCHANGED <<files, topic, heldVars>>
    BY ZenonT(40), <1>3 DEF Touch
  <2>2. topic[p] = "live" => files[p] = NextAt(p, i)
    BY <2>1, WithSlotFacts
  <2>3. files' = [files EXCEPT ![p] = files[p]]
    BY <2>1 DEF IInv, TypeOK
  <2> QED BY ZenonT(40), <2>1, <2>2, <2>3, <1>1
<1>4. ASSUME NEW p \in Partitions, FreeSlots(p) PROVE PositionIsCurrent'
  <2> SUFFICES ASSUME NEW q \in Partitions, NEW j \in Slots, Snapshot(q, j)',
                      topic'[q] = "live"
               PROVE  next'[j] = files'[q]
    BY DEF PositionIsCurrent
  <2>1. q # p /\ topic[q] = "live" /\ part'[j] = q
    BY <1>4 DEF FreeSlots, Snapshot, IsFirst, Of, IInv, TypeOK
  <2>2. part[j] = q
    BY <1>4, <2>1 DEF FreeSlots
  <2>3. Of(q)' = Of(q)
    BY <1>4, <2>1 DEF FreeSlots, Of
  <2>4. Snapshot(q, j)
    BY <2>3 DEF Snapshot, IsFirst, Rank
  <2> QED BY <1>4, <2>1, <2>2, <2>4 DEF FreeSlots, IInv, PositionIsCurrent
<1>5. ASSUME NEW p \in Partitions, RemoveFiles(p) \/ EndDelete(p)
      PROVE  PositionIsCurrent'
  <2> SUFFICES ASSUME NEW q \in Partitions, NEW j \in Slots, Snapshot(q, j)',
                      topic'[q] = "live"
               PROVE  next'[j] = files'[q]
    BY DEF PositionIsCurrent
  <2>1. q # p /\ topic[q] = "live"
    BY <1>5 DEF RemoveFiles, EndDelete, IInv, TypeOK
  <2>2. part' = part /\ next' = next /\ files'[q] = files[q]
    BY <1>5, <2>1 DEF RemoveFiles, EndDelete, slotVars, IInv, TypeOK
  <2>3. Snapshot(q, j)
    BY <2>2 DEF Snapshot, IsFirst, Of, Rank
  <2> QED BY <2>1, <2>2, <2>3 DEF IInv, PositionIsCurrent
<1>6. ASSUME NEW t \in Holders, ReleasePending(t) PROVE PositionIsCurrent'
  BY <1>6 DEF ReleasePending, IInv, PositionIsCurrent, Snapshot, IsFirst, Of, Rank
<1>7. ASSUME NEW t \in Holders, NEW p \in Partitions, AppendPending(t, p)
      PROVE  PositionIsCurrent'
  <2>1. PICK i \in Slots, kept \in Kept(p) :
          /\ WithSlot(p, i) /\ topic' = topic
          /\ next' = [next EXCEPT ![i] = NextAt(p, i) + 1]
          /\ files' = [files EXCEPT ![p] = IF kept THEN NextAt(p, i) + 1 ELSE files[p]]
    BY ZenonT(40), <1>7 DEF AppendPending
  <2>2. topic[p] = "live" => kept
    BY ZenonT(40) DEF Kept
  <2> QED BY ZenonT(40), <2>1, <2>2, <1>1
<1>8. CASE Restart
  BY <1>8 DEF Restart, PositionIsCurrent, Snapshot, IsFirst, Of
<1>9. CASE UNCHANGED vars
  BY <1>9 DEF vars, slotVars, IInv, PositionIsCurrent, Snapshot, IsFirst, Of, Rank
<1> QED BY <1>2, <1>3, <1>4, <1>5, <1>6, <1>7, <1>8, <1>9 DEF Next

\* A new shard has no slot to be behind.
LEMMA InitIInv == Init => IInv
<1> SUFFICES ASSUME Init PROVE IInv
  OBVIOUS
<1>1. TypeOK
  BY ConstantsAssumption DEF Init, TypeOK, Offsets, Topic
<1>2. PositionIsCurrent
  BY ConstantsAssumption DEF Init, PositionIsCurrent, Snapshot, IsFirst, Of
<1> QED BY <1>1, <1>2 DEF IInv

\* The slot that slot_for and slot_snapshot come to first holds the position the
\* segment files end at, whatever was deleted in between.
THEOREM PositionCorrect == Spec => []PositionIsCurrent
<1>1. IInv /\ [Next]_vars => IInv'
  BY TypeStep, PositionStep DEF IInv
<1>2. IInv => PositionIsCurrent
  BY DEF IInv
<1> QED BY <1>1, <1>2, InitIInv, PTL DEF Spec

-----------------------------------------------------------------------------
(* Reservations, until a partition is dropped *)

\* Without holes with_slot comes to the partition's only slot, or claims the
\* first free one for a partition that has none and no reservation either.
LEMMA ClaimFacts ==
  ASSUME KeptInv, NEW p \in Partitions, NEW i \in Slots, WithSlot(p, i)
  PROVE  /\ part'[i] = p /\ \A j \in Slots \ {i} : part'[j] = part[j]
         /\ \A j \in Slots \ {i} : part[j] # p
         /\ part[i] # p => part[i] = Free /\ \A t \in Holders : on[t] # p
         /\ OneSlot' /\ NoHole'
<1> USE ConstantsAssumption DEF KeptInv, AllLive
<1>1. part'[i] = p /\ \A j \in Slots \ {i} : part'[j] = part[j]
  BY DEF WithSlot, TypeOK
<1>2. part[i] = p \/ part[i] = Free
  BY DEF WithSlot, SlotFor, IsFirst, Of
<1>3. \A j \in Slots : part[j] = p \/ part[j] = Free => Rank(p, i) <= Rank(p, j)
  BY DEF WithSlot, SlotFor, IsFirst, Of
<1>4. \A j \in Slots \ {i} : part[j] # p
  <2> SUFFICES ASSUME NEW j \in Slots \ {i}, part[j] = p PROVE FALSE
    OBVIOUS
  <2>1. CASE part[i] = p
    BY <2>1 DEF OneSlot
  <2>2. CASE part[i] = Free
    <3>1. Rank(p, j) < Rank(p, i)
      BY <2>2 DEF NoHole
    <3> QED BY <1>3, <3>1, RankFacts
  <2> QED BY <1>2, <2>1, <2>2
<1>5. ASSUME part[i] # p, NEW t \in Holders PROVE on[t] # p
  BY <1>4, <1>5 DEF HeldExact
<1>6. OneSlot'
  BY <1>1, <1>4 DEF OneSlot
<1>7. NoHole'
  <2> SUFFICES ASSUME NEW k \in Slots, NEW j \in Slots, part'[k] # Free, part'[j] = Free
               PROVE  Rank(part'[k], k) < Rank(part'[k], j)
    BY DEF NoHole, Rank
  <2>1. j # i /\ part[j] = Free
    BY <1>1
  <2>2. CASE k = i
    <3>1. Rank(p, i) <= Rank(p, j) /\ Rank(p, i) # Rank(p, j)
      BY <1>3, <2>1, RankFacts
    <3> QED BY <1>1, <2>2, <3>1, RankFacts
  <2>3. CASE k # i
    BY <1>1, <2>1, <2>3 DEF NoHole
  <2> QED BY <2>2, <2>3
<1> QED BY <1>1, <1>2, <1>4, <1>5, <1>6, <1>7

\* A batch or a read that reserves nothing.
LEMMA KeptSame ==
  ASSUME KeptInv, TypeOK', NEW p \in Partitions, NEW i \in Slots, WithSlot(p, i),
         NEW n \in Nat, n >= NextAt(p, i), next' = [next EXCEPT ![i] = n], topic' = topic,
         pending' = [pending EXCEPT ![i] = PendingAt(p, i)], UNCHANGED heldVars
  PROVE  KeptInv'
<1> USE ConstantsAssumption DEF KeptInv, AllLive
<1>1. /\ next'[i] = n /\ \A j \in Slots \ {i} : next'[j] = next[j]
      /\ pending'[i] = PendingAt(p, i) /\ \A j \in Slots \ {i} : pending'[j] = pending[j]
      /\ on' = on /\ base' = base /\ stands' = stands
  BY DEF TypeOK, heldVars
<1>2. RingExact'
  BY <1>1, ClaimFacts DEF RingExact, PendingAt
<1>3. \A t \in Holders : on[t] # Free => \E j \in Slots : part'[j] = on[t] /\ base[t] < next'[j]
  <2> SUFFICES ASSUME NEW t \in Holders, on[t] # Free
               PROVE  \E j \in Slots : part'[j] = on[t] /\ base[t] < next'[j]
    OBVIOUS
  <2>1. PICK j \in Slots : part[j] = on[t] /\ base[t] < next[j]
    BY ZenonT(40) DEF HeldExact
  <2>2. base[t] \in Nat /\ next[j] \in Nat
    BY DEF TypeOK, Offsets
  <2>3. CASE j = i
    <3>1. part[i] = p
      BY ZenonT(40), <2>1, <2>3, ClaimFacts
    <3> QED BY <1>1, <2>1, <2>2, <2>3, <3>1, ClaimFacts DEF NextAt
  <2>4. CASE j # i
    BY <1>1, <2>1, <2>4, ClaimFacts
  <2> QED BY <2>3, <2>4
<1>4. HeldExact'
  BY ZenonT(40), <1>1, <1>3 DEF HeldExact
<1> QED BY <1>2, <1>4, ClaimFacts

\* A transaction's first batch: its base is the slot's position, which no other
\* transaction of the partition has.
LEMMA KeptAppendPending ==
  ASSUME KeptInv, TypeOK', NEW t \in Holders, NEW p \in Partitions, AppendPending(t, p)
  PROVE  KeptInv'
<1> USE ConstantsAssumption DEF KeptInv, AllLive
<1>1. PICK i \in Slots : /\ WithSlot(p, i) /\ on[t] = Free
                         /\ next' = [next EXCEPT ![i] = NextAt(p, i) + 1]
                         /\ pending' = [pending EXCEPT ![i] =
                                         PendingAt(p, i) \cup {NextAt(p, i)}]
                         /\ on' = [on EXCEPT ![t] = p]
                         /\ base' = [base EXCEPT ![t] = NextAt(p, i)]
                         /\ stands' = [stands EXCEPT ![t] = TRUE]
                         /\ topic' = topic
  BY ZenonT(40) DEF AppendPending, Kept
<1>a. on[t] = Free
  BY <1>1
<1>b. /\ part'[i] = p
      /\ \A j \in Slots \ {i} : part'[j] = part[j] /\ part[j] # p
      /\ part[i] # p => part[i] = Free /\ \A u \in Holders : on[u] # p
      /\ OneSlot' /\ NoHole'
  BY <1>1, ClaimFacts
<1> DEFINE b == NextAt(p, i)
<1>2. /\ next'[i] = b + 1 /\ \A j \in Slots \ {i} : next'[j] = next[j]
      /\ pending'[i] = PendingAt(p, i) \cup {b}
      /\ \A j \in Slots \ {i} : pending'[j] = pending[j]
      /\ on'[t] = p /\ base'[t] = b /\ stands'[t]
      /\ \A u \in Holders \ {t} : /\ on'[u] = on[u] /\ base'[u] = base[u]
                                  /\ stands'[u] = stands[u]
  BY <1>1 DEF TypeOK
<1>3. b \in Nat
  BY DEF NextAt, TypeOK, Offsets
<1>4. part[i] = p => b = next[i]
  BY DEF NextAt
<1>5. part[i] # p => PendingAt(p, i) = {}
  BY DEF PendingAt
<1>6. part[i] = p => PendingAt(p, i) = pending[i]
  BY DEF PendingAt
<1> HIDE DEF b
<1>7. \A u \in Holders : on[u] = p => part[i] = p /\ base[u] < b
  <2> SUFFICES ASSUME NEW u \in Holders, on[u] = p PROVE part[i] = p /\ base[u] < b
    OBVIOUS
  <2>1. PICK j \in Slots : part[j] = p /\ base[u] < next[j]
    BY ZenonT(40) DEF HeldExact
  <2>2. j = i
    BY <1>1, <2>1, ClaimFacts
  <2> QED BY <1>4, <2>1, <2>2
<1>8. RingExact'
  <2> SUFFICES ASSUME NEW j \in Slots, NEW c \in Offsets
               PROVE  c \in pending'[j] <=>
                        \E u \in Holders : /\ on'[u] = part'[j] /\ on'[u] # Free
                                           /\ base'[u] = c
    BY ZenonT(40) DEF RingExact
  <2>1. CASE j = i
    <3>1. c \in PendingAt(p, i) <=> \E u \in Holders \ {t} : on[u] = p /\ base[u] = c
      BY <1>1, <1>5, <1>6, <1>7 DEF RingExact
    <3> QED BY <1>a, <1>b, <1>2, <2>1, <3>1
  <2>2. CASE j # i
    <3>1. part'[j] = part[j] /\ part[j] # p
      BY ZenonT(40), <1>b, <2>2
    <3>2. c \in pending[j] <=> \E u \in Holders : /\ on[u] = part[j] /\ on[u] # Free
                                                  /\ base[u] = c
      BY ZenonT(40) DEF RingExact
    <3> QED BY <1>a, <1>2, <2>2, <3>1, <3>2
  <2> QED BY <2>1, <2>2
<1>9. ASSUME NEW u \in Holders
      PROVE  /\ stands'[u] <=> on'[u] # Free
             /\ on'[u] # Free => \E j \in Slots : part'[j] = on'[u] /\ base'[u] < next'[j]
  <2>1. CASE u = t
    BY <1>b, <1>2, <1>3, <2>1
  <2>2. CASE u # t
    <3>1. stands'[u] <=> on'[u] # Free
      BY <1>2, <2>2 DEF HeldExact
    <3>2. ASSUME on'[u] # Free
          PROVE  \E j \in Slots : part'[j] = on'[u] /\ base'[u] < next'[j]
      <4>1. PICK j \in Slots : part[j] = on[u] /\ base[u] < next[j]
        BY <1>2, <2>2, <3>2 DEF HeldExact
      <4>2. CASE j = i
        <5>1. part[i] = p
          BY <1>b, <1>2, <2>2, <3>2, <4>1, <4>2
        <5>2. base[u] < b
          BY <1>4, <4>1, <4>2, <5>1
        <5>3. base[u] \in Nat
          BY DEF TypeOK, Offsets
        <5> QED BY <1>b, <1>2, <1>3, <2>2, <4>1, <4>2, <5>1, <5>2, <5>3
      <4>3. CASE j # i
        BY <1>b, <1>2, <2>2, <4>1, <4>3
      <4> QED BY ZenonT(40), <4>2, <4>3
    <3> QED BY <3>1, <3>2
  <2> QED BY ZenonT(40), <2>1, <2>2
<1>10. \A u, w \in Holders : on'[u] = on'[w] /\ on'[u] # Free /\ base'[u] = base'[w] => u = w
  <2>1. \A u \in Holders \ {t} : on[u] = p => base[u] # b
    <3>1. \A u \in Holders : base[u] \in Nat
      BY DEF TypeOK, Offsets
    <3> QED BY <1>3, <1>7, <3>1
  <2> QED BY <1>2, <2>1 DEF HeldExact
<1>11. HeldExact'
  BY ZenonT(40), <1>9, <1>10 DEF HeldExact
<1> QED BY <1>1, <1>8, <1>11, ClaimFacts

\* A release takes its own base from the partition's only ring.
LEMMA KeptRelease ==
  ASSUME KeptInv, TypeOK', NEW t \in Holders, ReleasePending(t)
  PROVE  KeptInv'
<1> USE ConstantsAssumption DEF KeptInv, AllLive
<1>1. /\ on[t] # Free /\ part' = part /\ next' = next
      /\ on' = [on EXCEPT ![t] = Free] /\ base' = [base EXCEPT ![t] = 0]
      /\ stands' = [stands EXCEPT ![t] = FALSE] /\ topic' = topic
  BY DEF ReleasePending
<1>2. PICK k \in Slots : part[k] = on[t]
  BY ZenonT(40), <1>1 DEF HeldExact
<1>3. pending' = [pending EXCEPT ![k] = @ \ {base[t]}]
  <2>1. k \in Of(on[t])
    BY <1>2 DEF Of
  <2>2. PICK i \in Slots : /\ IsLowest(on[t], i)
                           /\ pending' = [pending EXCEPT ![i] = @ \ {base[t]}]
    BY ZenonT(40), <2>1 DEF ReleasePending
  <2>3. i = k
    BY ZenonT(40), <1>1, <1>2, <2>2 DEF IsLowest, Of, OneSlot
  <2> QED BY <2>2, <2>3
<1>4. /\ pending'[k] = pending[k] \ {base[t]}
      /\ \A j \in Slots \ {k} : pending'[j] = pending[j]
      /\ on'[t] = Free /\ ~stands'[t]
      /\ \A u \in Holders \ {t} : /\ on'[u] = on[u] /\ base'[u] = base[u]
                                  /\ stands'[u] = stands[u]
  BY <1>1, <1>3 DEF TypeOK
<1>5. RingExact'
  <2> SUFFICES ASSUME NEW j \in Slots, NEW c \in Offsets
               PROVE  c \in pending'[j] <=>
                        \E u \in Holders : /\ on'[u] = part[j] /\ on'[u] # Free
                                           /\ base'[u] = c
    BY <1>1 DEF RingExact
  <2>1. c \in pending[j] <=> \E u \in Holders : /\ on[u] = part[j] /\ on[u] # Free
                                                /\ base[u] = c
    BY ZenonT(40) DEF RingExact
  <2>2. CASE j = k
    <3>1. \A u \in Holders \ {t} : on[u] = part[k] => base[u] # base[t]
      BY ZenonT(40), <1>1, <1>2 DEF HeldExact
    <3> QED BY ZenonT(40), <1>2, <1>4, <2>1, <2>2, <3>1
  <2>3. CASE j # k
    <3>1. part[j] # on[t]
      BY ZenonT(40), <1>1, <1>2, <2>3 DEF OneSlot
    <3> QED BY ZenonT(40), <1>4, <2>1, <2>3, <3>1
  <2> QED BY ZenonT(40), <2>2, <2>3
<1>6. HeldExact'
  BY <1>1, <1>4 DEF HeldExact
<1>7. OneSlot' /\ NoHole'
  BY ZenonT(40), <1>1 DEF OneSlot, NoHole, Rank
<1> QED BY ZenonT(40), <1>1, <1>5, <1>6, <1>7

\* A restart empties the shard.
LEMMA KeptRestart ==
  ASSUME TypeOK', AllLive', Restart
  PROVE  KeptInv'
<1>1. /\ \A i \in Slots : part'[i] = Free /\ pending'[i] = {}
      /\ \A t \in Holders : on'[t] = Free /\ ~stands'[t]
  BY DEF Restart
<1> QED BY ZenonT(40), <1>1 DEF KeptInv, OneSlot, NoHole, RingExact, HeldExact

\* A deletion leaves the topic other than live until the server restarts.
LEMMA DropMarks ==
  ASSUME TypeOK, NEW p \in Partitions, RemoveFiles(p) \/ FreeSlots(p) \/ EndDelete(p)
  PROVE  ~AllLive'
<1>1. CASE RemoveFiles(p)
  BY <1>1 DEF RemoveFiles, TypeOK, AllLive
<1>2. CASE FreeSlots(p)
  BY <1>2 DEF FreeSlots, TypeOK, AllLive
<1>3. CASE EndDelete(p)
  BY <1>3 DEF EndDelete, TypeOK, AllLive
<1> QED BY <1>1, <1>2, <1>3

\* Every step keeps it as long as no topic is deleted.
LEMMA KeptStep ==
  ASSUME KeptInv, [Next]_vars, AllLive'
  PROVE  KeptInv'
<1> USE ConstantsAssumption
<1>0. TypeOK /\ TypeOK'
  BY ZenonT(40), TypeStep DEF KeptInv
<1>a. ASSUME UNCHANGED <<slotVars, topic, heldVars>> PROVE KeptInv'
  BY <1>0, <1>a DEF KeptInv, AllLive, OneSlot, NoHole, RingExact, HeldExact, Rank, slotVars, heldVars
<1>b. ASSUME NEW p \in Partitions, NEW i \in Slots
      PROVE  NextAt(p, i) \in Nat
  BY <1>0 DEF NextAt, TypeOK, Offsets
<1>1. ASSUME NEW p \in Partitions, Append(p) PROVE KeptInv'
  <2>1. PICK i \in Slots : /\ WithSlot(p, i)
                           /\ next' = [next EXCEPT ![i] = NextAt(p, i) + 1]
                           /\ pending' = [pending EXCEPT ![i] = PendingAt(p, i)]
                           /\ UNCHANGED <<topic, heldVars>>
    BY ZenonT(40), <1>1 DEF Append
  <2>2. NextAt(p, i) + 1 \in Nat /\ NextAt(p, i) + 1 >= NextAt(p, i)
    BY <1>b
  <2> QED BY ZenonT(40), <1>0, <2>1, <2>2, KeptSame
<1>2. ASSUME NEW p \in Partitions, Touch(p) PROVE KeptInv'
  <2>1. PICK i \in Slots : /\ WithSlot(p, i)
                           /\ next' = [next EXCEPT ![i] = NextAt(p, i)]
                           /\ pending' = [pending EXCEPT ![i] = PendingAt(p, i)]
                           /\ UNCHANGED <<topic, heldVars>>
    BY ZenonT(40), <1>2 DEF Touch
  <2>2. NextAt(p, i) \in Nat /\ NextAt(p, i) >= NextAt(p, i)
    BY <1>b
  <2> QED BY ZenonT(40), <1>0, <2>1, <2>2, KeptSame
<1>3. ASSUME NEW p \in Partitions PROVE ~(RemoveFiles(p) \/ FreeSlots(p) \/ EndDelete(p))
  BY <1>0, DropMarks
<1>5. ASSUME NEW t \in Holders, ReleasePending(t) PROVE KeptInv'
  BY <1>0, <1>5, KeptRelease
<1>6. ASSUME NEW t \in Holders, NEW p \in Partitions, AppendPending(t, p) PROVE KeptInv'
  BY <1>0, <1>6, KeptAppendPending
<1>7. CASE Restart
  BY <1>0, <1>7, KeptRestart
<1>8. CASE UNCHANGED vars
  BY <1>a, <1>8 DEF vars
<1> QED BY <1>1, <1>2, <1>3, <1>5, <1>6, <1>7, <1>8 DEF Next

\* The only step from a shard with a deletion to one without is a restart.
LEMMA LiveAgain ==
  ASSUME TypeOK, ~AllLive, [Next]_vars, AllLive'
  PROVE  Restart
<1>1. ASSUME NEW p \in Partitions PROVE ~(RemoveFiles(p) \/ FreeSlots(p) \/ EndDelete(p))
  BY DropMarks
<1>2. topic' # topic
  BY DEF AllLive
<1>3. ASSUME NEW p \in Partitions PROVE ~Append(p) /\ ~Touch(p)
  BY <1>2 DEF Append, Touch
<1>4. ASSUME NEW t \in Holders, NEW p \in Partitions PROVE ~AppendPending(t, p)
  BY <1>2 DEF AppendPending
<1>5. ASSUME NEW t \in Holders PROVE ~ReleasePending(t)
  BY <1>2 DEF ReleasePending
<1>6. ~UNCHANGED vars
  BY <1>2 DEF vars
<1> QED BY <1>1, <1>3, <1>4, <1>5, <1>6 DEF Next

\* What last_stable_offset finds, and what it finds there.
LEMMA KeptProperties == KeptInv => LsoHoldsReserved /\ ReservationsReleased
<1> SUFFICES ASSUME KeptInv PROVE LsoHoldsReserved /\ ReservationsReleased
  OBVIOUS
<1> USE ConstantsAssumption DEF KeptInv, AllLive
<1>1. LsoHoldsReserved
  <2> SUFFICES ASSUME NEW t \in Holders, NEW i \in Slots, stands[t], SlotFor(on[t], i)
               PROVE  \E b \in PendingAt(on[t], i) : b <= base[t]
    BY DEF LsoHoldsReserved
  <2>1. on[t] \in Partitions /\ on[t] # Free /\ base[t] \in Offsets /\ base[t] \in Nat
    BY DEF HeldExact, TypeOK, Offsets
  <2>2. PICK j \in Slots : part[j] = on[t]
    BY ZenonT(40), <2>1 DEF HeldExact
  <2>3. part[i] = on[t]
    <3> SUFFICES ASSUME part[i] = Free PROVE FALSE
      BY ZenonT(40) DEF SlotFor, IsFirst, Of
    <3>1. Rank(on[t], j) < Rank(on[t], i)
      BY ZenonT(40), <2>1, <2>2 DEF NoHole
    <3>2. Rank(on[t], i) <= Rank(on[t], j)
      BY <2>2 DEF SlotFor, IsFirst, Of
    <3> QED BY <2>1, <3>1, <3>2, RankFacts
  <2>4. base[t] \in PendingAt(on[t], i)
    BY ZenonT(40), <2>1, <2>3 DEF RingExact, PendingAt
  <2> QED BY <2>1, <2>4
<1>2. ReservationsReleased
  <2> SUFFICES ASSUME NEW p \in Partitions, NEW i \in Slots, NEW b \in PendingAt(p, i)
               PROVE  \E t \in Holders : on[t] = p /\ base[t] = b
    BY DEF ReservationsReleased
  <2>1. part[i] = p /\ b \in pending[i] /\ b \in Offsets
    BY DEF PendingAt, TypeOK
  <2> QED BY <2>1 DEF RingExact
<1> QED BY <1>1, <1>2

\* The inductive invariant holds from Init on: KeptInv while no topic is deleted, the
\* types always.
LEMMA LiveInv ==
  Spec => [](TypeOK /\ (AllLive => KeptInv))
<1>1. Init => TypeOK /\ (AllLive => KeptInv)
  BY InitIInv DEF IInv, Init, KeptInv, OneSlot, NoHole, RingExact, HeldExact
<1>2. TypeOK /\ (AllLive => KeptInv) /\ [Next]_vars => TypeOK' /\ (AllLive' => KeptInv')
  <2> SUFFICES ASSUME TypeOK, AllLive => KeptInv, [Next]_vars
               PROVE  TypeOK' /\ (AllLive' => KeptInv')
    OBVIOUS
  <2>1. TypeOK'
    BY TypeStep
  <2>2. ASSUME AllLive, AllLive' PROVE KeptInv'
    BY <2>2, KeptStep
  <2>3. ASSUME ~AllLive, AllLive' PROVE KeptInv'
    BY <2>1, <2>3, LiveAgain, KeptRestart
  <2> QED BY <2>1, <2>2, <2>3
<1> QED BY <1>1, <1>2, PTL DEF Spec

\* Whichever topics may be deleted: until one is, the LSO stays at or below every record whose
\* transaction is yet to release it (append_pending, last_stable_offset).
THEOREM KeptLsoCorrect == Spec => []KeptLso
<1>1. TypeOK /\ (AllLive => KeptInv) => KeptLso
  BY KeptProperties DEF KeptLso
<1> QED BY <1>1, LiveInv, PTL

\* And until then no reservation outlives its transaction (release_pending).
THEOREM KeptReleasedCorrect == Spec => []KeptReleased
<1>1. TypeOK /\ (AllLive => KeptInv) => KeptReleased
  BY KeptProperties DEF KeptReleased
<1> QED BY <1>1, LiveInv, PTL

=============================================================================
