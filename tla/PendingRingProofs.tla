-------------------------- MODULE PendingRingProofs --------------------------
(***************************************************************************)
(* For a ring of any capacity and any set of offsets: the entries ascend   *)
(* and the cached minimum is the least of them after every reserve and     *)
(* release.  The argument is the inductive invariant IInv; ReserveEntries  *)
(* and ReleaseEntries say what each entry is after a step, counted from    *)
(* the head, and so hide which side of the ring a release shifted.         *)
(***************************************************************************)
EXTENDS PendingRing, FiniteSetTheorems, TLAPS

\* phys maps the entry numbers of a ring one to one onto its indexes.
LEMMA PhysNth ==
  ASSUME NEW h \in Slots, NEW j \in Slots
  PROVE  /\ Phys(h, j) \in Slots
         /\ Nth(h, Phys(h, j)) = j
BY CapAssumption DEF Phys, Nth, Slots

\* Every entry in use is one of the offsets.
LEMMA EntryInBases ==
  ASSUME IInv, NEW j \in Used
  PROVE  Entry(j) \in Bases /\ Entry(j) \in Nat
<1>1. j \in Slots /\ head \in Slots
  BY CapAssumption DEF IInv, TypeOK, Slots, Used
<1>2. Phys(head, j) \in Slots
  BY <1>1, PhysNth
<1>3. QED
  BY <1>2, BasesAssumption DEF Entry, IInv, TypeOK

\* What reserve leaves: the entries below the insertion point as they were,
\* the new base, then the others one place up.
LEMMA ReserveEntries ==
  ASSUME IInv, NEW base \in Bases, NEW at \in 0 .. len,
         len < Cap, head < Cap,
         ring' = Inserted(at, base), len' = len + 1, head' = head,
         NEW j \in 0 .. len
  PROVE  Entry(j)' = IF j = at THEN base
                     ELSE IF j > at THEN Entry(j - 1) ELSE Entry(j)
<1>1. j \in Slots /\ head \in Slots
  BY CapAssumption DEF IInv, TypeOK, Slots
<1>2. Phys(head, j) \in Slots /\ Nth(head, Phys(head, j)) = j
  BY <1>1, PhysNth
<1>3. Entry(j)' = ring'[Phys(head, j)]
  BY DEF Entry, Phys
<1>4. QED
  BY <1>1, <1>2, <1>3 DEF Inserted, Entry, IInv, TypeOK

\* What release leaves, whichever side was shifted: the entries below the gap
\* as they were and the others one place down.
LEMMA ReleaseEntries ==
  ASSUME IInv, NEW at \in Used, head < Cap, len' = len - 1, len' > 0,
         ring' = IF at < len \div 2 THEN ClosedFromHead(at) ELSE ClosedFromTail(at),
         head' = IF at < len \div 2 THEN Phys(head, 1) ELSE head,
         NEW j \in 0 .. len - 2
  PROVE  Entry(j)' = IF j < at THEN Entry(j) ELSE Entry(j + 1)
<1>1. /\ head \in Slots /\ j \in Slots /\ j + 1 \in Slots /\ 1 \in Slots
      /\ at \in Nat /\ len \in Nat /\ Cap \in Nat
  BY CapAssumption DEF IInv, TypeOK, Slots, Used
<1>2. Entry(j)' = ring'[Phys(head', j)]
  BY DEF Entry, Phys
<1>3. CASE at < len \div 2
  <2>1. Phys(head', j) = Phys(head, j + 1)
    BY <1>1, <1>3 DEF Phys, Slots
  <2>2. Phys(head, j + 1) \in Slots /\ Nth(head, Phys(head, j + 1)) = j + 1
    BY <1>1, PhysNth
  <2>3. QED
    BY <1>1, <1>2, <1>3, <2>1, <2>2 DEF ClosedFromHead, Entry
<1>4. CASE ~(at < len \div 2)
  <2>1. Phys(head, j) \in Slots /\ Nth(head, Phys(head, j)) = j
    BY <1>1, PhysNth
  <2>2. QED
    BY <1>1, <1>2, <1>4, <2>1 DEF ClosedFromTail, Entry
<1>5. QED
  BY <1>3, <1>4

\* Reserve keeps the inductive invariant.
LEMMA ReserveKeeps ==
  ASSUME IInv, NEW base \in Bases, Reserve(base)
  PROVE  IInv'
<1>1. PICK at \in 0 .. len : /\ len < Cap /\ head < Cap
                             /\ IsInsertAt(at, base)
                             /\ ring' = Inserted(at, base)
                             /\ len' = len + 1
                             /\ min' = ring'[head]
                             /\ head' = head
  BY DEF Reserve
<1>2. \A j \in 0 .. len : Entry(j)' = IF j = at THEN base
                                      ELSE IF j > at THEN Entry(j - 1) ELSE Entry(j)
  BY <1>1, ReserveEntries
<1>3. /\ len \in Nat /\ head \in Slots /\ at \in Nat /\ Cap \in Nat
      /\ ring \in [Slots -> Bases]
  BY <1>1, CapAssumption DEF IInv, TypeOK, Slots
<1>4. \A p \in Slots : ring'[p] \in Bases
  <2> SUFFICES ASSUME NEW p \in Slots PROVE ring'[p] \in Bases
    OBVIOUS
  <2>1. Nth(head, p) \in Slots
    BY <1>3 DEF Nth, Slots
  <2>2. Nth(head, p) > at => Phys(head, Nth(head, p) - 1) \in Slots
    <3>1. Nth(head, p) > at => Nth(head, p) - 1 \in Slots
      BY <1>3, <2>1 DEF Slots
    <3>2. QED
      BY <1>3, <3>1, PhysNth
  <2>3. QED
    BY <1>1, <1>3, <2>1, <2>2 DEF Inserted, Entry
<1>5. TypeOK'
  BY <1>1, <1>3, <1>4 DEF TypeOK, Inserted, Slots
<1>6. \A j \in 0 .. len - 1 : Entry(j) \in Nat
  BY EntryInBases DEF Used
<1>7. Ascending'
  <2> SUFFICES ASSUME NEW i \in 0 .. len, NEW j \in 0 .. len, i <= j
               PROVE  Entry(i)' <= Entry(j)'
    BY <1>1, <1>3 DEF Ascending, Used
  <2>1. \A k \in at .. len - 1 : Entry(k) > base
    BY <1>1 DEF IsInsertAt
  <2>2. \A k \in 0 .. at - 1 : Entry(k) <= base
    <3> SUFFICES ASSUME NEW k \in 0 .. at - 1 PROVE Entry(k) <= base
      OBVIOUS
    <3>1. Entry(at - 1) <= base
      BY <1>1, <1>3 DEF IsInsertAt
    <3>2. Entry(k) <= Entry(at - 1)
      BY <1>3 DEF IInv, Ascending, Used
    <3>3. QED
      BY <1>3, <1>6, <3>1, <3>2, BasesAssumption
  <2>3. \A k, m \in 0 .. len - 1 : k <= m => Entry(k) <= Entry(m)
    BY DEF IInv, Ascending, Used
  <2>4. QED
    BY <1>2, <1>3, <1>6, <2>1, <2>2, <2>3, BasesAssumption
<1>8. QED
  BY <1>1, <1>3, <1>5, <1>7 DEF IInv, Slots

\* Release keeps the inductive invariant.
LEMMA ReleaseKeeps ==
  ASSUME IInv, NEW base \in Bases, Release(base)
  PROVE  IInv'
<1>1. PICK at \in Used :
        /\ head < Cap
        /\ IsLowerBound(at, base)
        /\ ring' = IF at < len \div 2 THEN ClosedFromHead(at) ELSE ClosedFromTail(at)
        /\ len' = len - 1
        /\ head' = IF len' = 0 THEN 0
                   ELSE IF at < len \div 2 THEN Phys(head, 1) ELSE head
        /\ min' = IF len' = 0 THEN -1 ELSE ring'[head']
  BY DEF Release
<1>2. /\ len \in Nat /\ head \in Slots /\ at \in Nat /\ Cap \in Nat /\ len <= Cap
      /\ at < len /\ ring \in [Slots -> Bases]
  BY <1>1, CapAssumption DEF IInv, TypeOK, Slots, Used
<1>3. \A p \in Slots : ring'[p] \in Bases
  <2> SUFFICES ASSUME NEW p \in Slots PROVE ring'[p] \in Bases
    OBVIOUS
  <2>1. Nth(head, p) \in Slots
    BY <1>2 DEF Nth, Slots
  <2>2. Nth(head, p) >= 1 => Phys(head, Nth(head, p) - 1) \in Slots
    <3>1. Nth(head, p) >= 1 => Nth(head, p) - 1 \in Slots
      BY <1>2, <2>1 DEF Slots
    <3>2. QED
      BY <1>2, <3>1, PhysNth
  <2>3. Nth(head, p) < len - 1 => Phys(head, Nth(head, p) + 1) \in Slots
    <3>1. Nth(head, p) < len - 1 => Nth(head, p) + 1 \in Slots
      BY <1>2, <2>1 DEF Slots
    <3>2. QED
      BY <1>2, <3>1, PhysNth
  <2>4. QED
    BY <1>1, <1>2, <2>1, <2>2, <2>3 DEF ClosedFromHead, ClosedFromTail, Entry
<1>4. ring' \in [Slots -> Bases]
  BY <1>1, <1>3 DEF ClosedFromHead, ClosedFromTail
<1>5. head' \in Slots
  BY <1>1, <1>2 DEF Phys, Slots
<1>6. TypeOK'
  BY <1>1, <1>2, <1>4, <1>5 DEF TypeOK, Slots
<1>7. Ascending'
  <2> SUFFICES ASSUME NEW i \in 0 .. len - 2, NEW j \in 0 .. len - 2, i <= j
               PROVE  Entry(i)' <= Entry(j)'
    BY <1>1, <1>2 DEF Ascending, Used
  <2>1. len' > 0
    BY <1>1, <1>2
  <2>2. head' = IF at < len \div 2 THEN Phys(head, 1) ELSE head
    BY <1>1, <2>1
  <2>3. Entry(i)' = IF i < at THEN Entry(i) ELSE Entry(i + 1)
    BY <1>1, <2>1, <2>2, ReleaseEntries
  <2>4. Entry(j)' = IF j < at THEN Entry(j) ELSE Entry(j + 1)
    BY <1>1, <2>1, <2>2, ReleaseEntries
  <2>5. \A k, m \in 0 .. len - 1 : k <= m => Entry(k) <= Entry(m)
    BY DEF IInv, Ascending, Used
  <2>6. QED
    BY <1>2, <2>3, <2>4, <2>5
<1>8. QED
  BY <1>1, <1>2, <1>5, <1>6, <1>7 DEF IInv, Slots

\* The inductive invariant gives the floor pending_floor reads.
LEMMA IInvGivesFloor ==
  ASSUME IInv
  PROVE  FloorIsLeast
<1>1. CASE len = 0
  BY <1>1 DEF IInv, FloorIsLeast
<1>2. CASE len # 0
  <2>1. /\ 0 \in Used /\ head \in Nat /\ head < Cap /\ Cap \in Nat
    BY <1>2, CapAssumption DEF IInv, TypeOK, Used
  <2>2. Entry(0) = min
    BY <1>2, <2>1 DEF IInv, Entry, Phys
  <2>3. \A j \in Used : min <= Entry(j)
    BY <2>1, <2>2 DEF IInv, Ascending, Used
  <2>4. QED
    BY <1>2, <2>1, <2>2, <2>3 DEF FloorIsLeast
<1>3. QED
  BY <1>1, <1>2

\* Every call of pending.rs keeps the ring well formed, for any capacity.
THEOREM RingInvariant == Spec => []IInv
<1>1. Init => IInv
  BY CapAssumption DEF Init, IInv, TypeOK, Ascending, Used
<1>2. IInv /\ [Next]_vars => IInv'
  <2> SUFFICES ASSUME IInv, [Next]_vars PROVE IInv'
    OBVIOUS
  <2>1. CASE Next
    BY <2>1, ReserveKeeps, ReleaseKeeps DEF Next
  <2>2. CASE UNCHANGED vars
    BY <2>2 DEF vars, IInv, TypeOK, Ascending, Entry, Used, Phys
  <2>3. QED
    BY <2>1, <2>2
<1>3. QED
  BY <1>1, <1>2, PTL DEF Spec

\* The cached minimum every LSO read starts from is the least reserved base,
\* after any sequence of reserve and release calls on a ring of any capacity.
THEOREM FloorCorrect == Spec => []FloorIsLeast
<1>1. IInv => FloorIsLeast
  BY IInvGivesFloor
<1>2. QED
  BY <1>1, RingInvariant, PTL

-----------------------------------------------------------------------------
(* Refinement: the ring is the bounded bag of Reservations. *)

\* Opening a gap at one entry number keeps the number of entries.
LEMMA GapCardinality ==
  ASSUME NEW S \in SUBSET Nat, IsFiniteSet(S), NEW T \in SUBSET Nat, NEW at \in Nat,
         at \notin T,
         \A j \in Nat : j < at => (j \in S <=> j \in T),
         \A j \in Nat : j >= at => (j \in S <=> j + 1 \in T)
  PROVE  IsFiniteSet(T) /\ Cardinality(T) = Cardinality(S)
<1> DEFINE f == [j \in S |-> IF j < at THEN j ELSE j + 1]
<1>1. f \in [S -> T]
  OBVIOUS
<1>2. \A i, j \in S : f[i] = f[j] => i = j
  OBVIOUS
<1>3. \A t \in T : \E j \in S : f[j] = t
  <2> SUFFICES ASSUME NEW t \in T PROVE \E j \in S : f[j] = t
    OBVIOUS
  <2>1. CASE t < at
    BY <2>1
  <2>2. CASE t > at
    <3>1. t - 1 \in Nat /\ t - 1 >= at /\ t = (t - 1) + 1
      BY <2>2
    <3>2. t - 1 \in S
      BY <3>1
    <3>3. f[t - 1] = t
      BY <3>1, <3>2
    <3>4. QED
      BY <3>2, <3>3
  <2>3. QED
    BY <2>1, <2>2
<1>4. f \in Bijection(S, T)
  BY <1>1, <1>2, <1>3 DEF Bijection, Injection, Surjection, IsInjective
<1>5. ExistsBijection(S, T)
  BY <1>4 DEF ExistsBijection
<1>6. QED
  BY <1>5, FS_Bijection

\* The reservations at a base are finitely many, and some stand exactly when
\* the ring holds the base.
LEMMA AtFinite ==
  ASSUME IInv, NEW base \in Bases
  PROVE  /\ IsFiniteSet(At(base)) /\ At(base) \in SUBSET Nat
         /\ Cardinality(At(base)) \in Nat
         /\ Cardinality(At(base)) > 0 <=> At(base) # {}
<1>1. IsFiniteSet(Used) /\ Used \in SUBSET Nat
  BY FS_Interval DEF IInv, TypeOK, Used
<1>2. IsFiniteSet(At(base)) /\ At(base) \in SUBSET Nat
  BY <1>1, FS_Subset DEF At
<1>3. QED
  BY <1>2, FS_CardinalityType, FS_EmptySet

\* The floor of the ring is the floor of the bag it stands for.
LEMMA FloorRefines ==
  ASSUME IInv
  PROVE  R!IsFloor(min, Held)
<1>1. \A b \in Bases : Held[b] > 0 <=> At(b) # {}
  BY AtFinite DEF Held
<1>2. R!Standing(Held) = {b \in Bases : At(b) # {}}
  BY <1>1 DEF R!Standing
<1>3. FloorIsLeast
  BY IInvGivesFloor
<1>4. CASE len = 0
  <2>1. Used = {}
    BY <1>4 DEF Used
  <2>2. R!Standing(Held) = {}
    BY <1>2, <2>1 DEF At
  <2>3. QED
    BY <1>3, <1>4, <2>2 DEF FloorIsLeast, R!IsFloor
<1>5. CASE len # 0
  <2>1. PICK j \in Used : Entry(j) = min
    BY <1>3, <1>5 DEF FloorIsLeast
  <2>2. min \in Bases /\ j \in At(min)
    BY <2>1, EntryInBases DEF At
  <2>3. min \in R!Standing(Held)
    BY <1>2, <2>2
  <2>4. \A b \in R!Standing(Held) : min <= b
    BY <1>2, <1>3, <1>5 DEF FloorIsLeast, At
  <2>5. QED
    BY <2>3, <2>4 DEF R!IsFloor
<1>6. QED
  BY <1>4, <1>5

\* A reserve of the ring is a reserve of the bag.
LEMMA ReserveRefines ==
  ASSUME IInv, NEW base \in Bases, Reserve(base)
  PROVE  R!Reserve(base)
<1>1. PICK at \in 0 .. len : /\ len < Cap /\ head < Cap
                             /\ ring' = Inserted(at, base)
                             /\ len' = len + 1
                             /\ head' = head
  BY DEF Reserve
<1>2. IInv'
  BY ReserveKeeps
<1>3. \A j \in 0 .. len : Entry(j)' = IF j = at THEN base
                                      ELSE IF j > at THEN Entry(j - 1) ELSE Entry(j)
  BY <1>1, ReserveEntries
<1>4. len \in Nat /\ at \in Nat
  BY DEF IInv, TypeOK
<1>5. \A b \in Bases : Cardinality(At(b)') = IF b = base THEN Cardinality(At(b)) + 1
                                             ELSE Cardinality(At(b))
  <2> SUFFICES ASSUME NEW b \in Bases
               PROVE  Cardinality(At(b)') = IF b = base THEN Cardinality(At(b)) + 1
                                            ELSE Cardinality(At(b))
    OBVIOUS
  <2>1. At(b)' = {j \in 0 .. len : Entry(j)' = b}
    BY <1>1, <1>4 DEF At, Used
  <2> DEFINE T == At(b)' \ {at}
  <2>2. IsFiniteSet(At(b)) /\ At(b) \in SUBSET Nat /\ Cardinality(At(b)) \in Nat
    BY AtFinite
  <2>3. T \in SUBSET Nat /\ at \notin T
    BY <2>1, <1>4
  <2>4. \A j \in Nat : j < at => (j \in At(b) <=> j \in T)
    BY <1>3, <1>4, <2>1 DEF At, Used
  <2>5. \A j \in Nat : j >= at => (j \in At(b) <=> j + 1 \in T)
    BY <1>3, <1>4, <2>1 DEF At, Used
  <2> HIDE DEF T
  <2>6. IsFiniteSet(T) /\ Cardinality(T) = Cardinality(At(b))
    BY <1>4, <2>2, <2>3, <2>4, <2>5, GapCardinality
  <2>7. at \in At(b)' <=> b = base
    BY <1>3, <1>4, <2>1
  <2>8. At(b)' = IF b = base THEN T \cup {at} ELSE T
    BY <2>7 DEF T
  <2>9. QED
    BY <2>2, <2>3, <2>6, <2>8, FS_AddElement
<1>6. Held' = [Held EXCEPT ![base] = Held[base] + 1]
  BY <1>5 DEF Held
<1>7. R!IsFloor(min, Held)'
  BY <1>2, FloorRefines, PTL
<1>8. QED
  BY <1>1, <1>6, <1>7 DEF R!Reserve

\* A release of the ring is a release of the bag.
LEMMA ReleaseRefines ==
  ASSUME IInv, NEW base \in Bases, Release(base)
  PROVE  R!Release(base)
<1>1. PICK at \in Used :
        /\ head < Cap
        /\ Entry(at) = base
        /\ ring' = IF at < len \div 2 THEN ClosedFromHead(at) ELSE ClosedFromTail(at)
        /\ len' = len - 1
        /\ head' = IF len' = 0 THEN 0
                   ELSE IF at < len \div 2 THEN Phys(head, 1) ELSE head
  BY DEF Release
<1>2. IInv'
  BY ReleaseKeeps
<1>3. len \in Nat /\ at \in Nat /\ at < len
  BY DEF IInv, TypeOK, Used
<1>4. \A j \in 0 .. len - 2 : Entry(j)' = IF j < at THEN Entry(j) ELSE Entry(j + 1)
  <2> SUFFICES ASSUME NEW j \in 0 .. len - 2
               PROVE  Entry(j)' = IF j < at THEN Entry(j) ELSE Entry(j + 1)
    OBVIOUS
  <2>1. len' > 0
    BY <1>1, <1>3
  <2>2. head' = IF at < len \div 2 THEN Phys(head, 1) ELSE head
    BY <1>1, <2>1
  <2>3. QED
    BY <1>1, <2>1, <2>2, ReleaseEntries
<1>5. \A b \in Bases : Cardinality(At(b)') = IF b = base THEN Cardinality(At(b)) - 1
                                             ELSE Cardinality(At(b))
  <2> SUFFICES ASSUME NEW b \in Bases
               PROVE  Cardinality(At(b)') = IF b = base THEN Cardinality(At(b)) - 1
                                            ELSE Cardinality(At(b))
    OBVIOUS
  <2>1. At(b)' = {j \in 0 .. len - 2 : Entry(j)' = b}
    BY <1>1, <1>3 DEF At, Used
  <2> DEFINE T == At(b) \ {at}
             S == At(b)'
  <2>2. IsFiniteSet(At(b)) /\ At(b) \in SUBSET Nat /\ Cardinality(At(b)) \in Nat
    BY AtFinite
  <2>3. T \in SUBSET Nat /\ at \notin T
    BY <2>2
  <2>4. S \in SUBSET Nat /\ IsFiniteSet(S)
    <3>1. IsFiniteSet(0 .. len - 2)
      BY <1>3, FS_Interval
    <3>2. S \in SUBSET (0 .. len - 2) /\ 0 .. len - 2 \in SUBSET Nat
      BY <2>1
    <3>3. QED
      BY <3>1, <3>2, FS_Subset
  <2>5. \A j \in Nat : j < at => (j \in S <=> j \in T)
    BY <1>3, <1>4, <2>1 DEF At, Used
  <2>6. \A j \in Nat : j >= at => (j \in S <=> j + 1 \in T)
    BY <1>3, <1>4, <2>1 DEF At, Used
  <2>7. at \in At(b) <=> b = base
    BY <1>1 DEF At
  <2> HIDE DEF S, T
  <2>8. Cardinality(T) = Cardinality(S)
    BY <1>3, <2>3, <2>4, <2>5, <2>6, GapCardinality
  <2>9. Cardinality(T) = IF b = base THEN Cardinality(At(b)) - 1 ELSE Cardinality(At(b))
    BY <2>2, <2>7, FS_RemoveElement DEF T
  <2>10. QED
    BY <2>8, <2>9 DEF S
<1>6. Held' = [Held EXCEPT ![base] = Held[base] - 1]
  BY <1>5 DEF Held
<1>7. Held[base] > 0
  BY <1>1, AtFinite DEF Held, At
<1>8. R!IsFloor(min, Held)'
  BY <1>2, FloorRefines, PTL
<1>9. QED
  BY <1>1, <1>6, <1>7, <1>8 DEF R!Release

\* The shifting ring of pending.rs is, for any capacity and any offsets, a
\* bounded bag of reservations with its least element as the floor: no call
\* loses, doubles or misplaces another transaction's reservation.
THEOREM RingRefinesReservations == Spec => ImplementsReservations
<1>1. Init => R!Init
  <2> SUFFICES ASSUME Init PROVE R!Init
    OBVIOUS
  <2>1. \A b \in Bases : At(b) = {}
    BY DEF Init, At, Used
  <2>2. Held = [b \in Bases |-> 0]
    BY <2>1, FS_EmptySet DEF Held
  <2>3. QED
    BY <2>2 DEF Init, R!Init
<1>2. IInv /\ [Next]_vars => [R!Next]_(R!vars)
  <2> SUFFICES ASSUME IInv, [Next]_vars PROVE [R!Next]_(R!vars)
    OBVIOUS
  <2>1. CASE Next
    BY <2>1, ReserveRefines, ReleaseRefines DEF Next, R!Next
  <2>2. CASE UNCHANGED vars
    BY <2>2 DEF vars, R!vars, Held, At, Used, Entry, Phys
  <2>3. QED
    BY <2>1, <2>2
<1>3. QED
  BY <1>1, <1>2, RingInvariant, PTL DEF Spec, ImplementsReservations, R!Spec

\* Every reserve and every release of pending.rs changes the bag at the base it
\* was given and nowhere else, for every capacity and set of bases.
THEOREM CallsCorrect == Spec => EachCallAtItsBase
<1>1. IInv /\ [Next]_vars =>
        [\A base \in Bases : /\ Reserve(base) => R!Reserve(base)
                             /\ Release(base) => R!Release(base)]_vars
  BY ReserveRefines, ReleaseRefines
<1>2. QED
  BY <1>1, RingInvariant, PTL DEF Spec, EachCallAtItsBase
=============================================================================
