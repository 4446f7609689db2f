----------------------------- MODULE PendingRing -----------------------------
(***************************************************************************)
(* extension/src/storage/segment/pending.rs: the reservations of in-flight *)
(* kafgres_produce() transactions on one partition, kept ascending in a    *)
(* ring of shared memory.  The cached minimum is what every LSO read uses, *)
(* so it must be the least reserved base after any sequence of calls.      *)
(*                                                                         *)
(* A call that returns false changes nothing and is a stuttering step.     *)
(***************************************************************************)
EXTENDS Integers, FiniteSets

CONSTANTS Cap,      \* ring entries per slot, MaxBackends at start
          Bases     \* the offsets a transaction may reserve

ASSUME CapAssumption == Cap \in Nat

ASSUME BasesAssumption == Bases \subseteq Nat

VARIABLES ring,     \* the slot's ring in the shared region
          head,     \* index of the lowest entry
          len,      \* entries in use
          min       \* the cached lowest base, -1 when empty

vars == <<ring, head, len, min>>

Slots == 0 .. Cap - 1

\* The region index of the j-th entry of a ring that starts at h.
Phys(h, j) == IF h + j >= Cap THEN h + j - Cap ELSE h + j

\* The entry number of region index p, the inverse of Phys.
Nth(h, p) == IF p >= h THEN p - h ELSE p - h + Cap

Entry(j) == ring[Phys(head, j)]

Used == 0 .. len - 1

TypeOK == /\ ring \in [Slots -> Bases]
          /\ head \in Nat
          /\ len \in 0 .. Cap
          /\ min \in Bases \cup {-1}

\* A slot that another partition gave back keeps that partition's entries in
\* its ring, so an empty ring may hold anything.
Init == /\ ring \in [Slots -> Bases]
        /\ head = 0
        /\ len = 0
        /\ min = -1

-----------------------------------------------------------------------------
(* reserve *)

\* Where the insertion loop stops: it steps down from the tail over every
\* entry above the new base.
IsInsertAt(j, base) == /\ j \in 0 .. len
                       /\ \A k \in j .. len - 1 : Entry(k) > base
                       /\ j > 0 => Entry(j - 1) <= base

\* Mutant of Inserted: the last entry is not moved up.
InsertedShort(at, base) ==
  [p \in Slots |-> LET k == Nth(head, p)
                   IN  IF k = at THEN base
                       ELSE IF k > at /\ k < len THEN Entry(k - 1) ELSE ring[p]]

\* The ring with base at entry number at and the entries from there on moved
\* up by one.
Inserted(at, base) ==
  [p \in Slots |-> LET k == Nth(head, p)
                   IN  IF k = at THEN base
                       ELSE IF k > at /\ k <= len THEN Entry(k - 1) ELSE ring[p]]

Reserve(base) ==
  \E at \in 0 .. len : /\ len < Cap
                       /\ head < Cap
                       /\ IsInsertAt(at, base)
                       /\ ring' = Inserted(at, base)
                       /\ len' = len + 1
                       /\ min' = ring'[head]
                       /\ UNCHANGED head

-----------------------------------------------------------------------------
(* release *)

\* Mutant of BinarySearch: steps over entries equal to the base.
BinarySearchPastEqual(base) ==
  LET search[lo \in 0 .. len, hi \in 0 .. len] ==
        IF lo >= hi THEN lo
        ELSE LET mid == (lo + hi) \div 2
             IN  IF Entry(mid) <= base THEN search[mid + 1, hi] ELSE search[lo, mid]
  IN  search[0, len]

\* The binary search of release, over entries lo .. hi - 1.
BinarySearch(base) ==
  LET search[lo \in 0 .. len, hi \in 0 .. len] ==
        IF lo >= hi THEN lo
        ELSE LET mid == (lo + hi) \div 2
             IN  IF Entry(mid) < base THEN search[mid + 1, hi] ELSE search[lo, mid]
  IN  search[0, len]

\* What the search finds in an ascending ring; SearchIsLowerBound compares.
IsLowerBound(j, base) == /\ j \in 0 .. len
                         /\ \A k \in 0 .. j - 1 : Entry(k) < base
                         /\ j < len => Entry(j) >= base

\* The head side moves up over the gap.
ClosedFromHead(at) ==
  [p \in Slots |-> LET k == Nth(head, p)
                   IN  IF k >= 1 /\ k <= at THEN Entry(k - 1) ELSE ring[p]]

\* The tail side moves down over the gap.
ClosedFromTail(at) ==
  [p \in Slots |-> LET k == Nth(head, p)
                   IN  IF k >= at /\ k < len - 1 THEN Entry(k + 1) ELSE ring[p]]

\* Mutant of Release: the cached minimum is only reset when the ring empties.
ReleaseStaleMin(base) ==
  \E at \in Used :
    LET fromHead == at < len \div 2
    IN  /\ IsLowerBound(at, base)
        /\ Entry(at) = base
        /\ ring' = IF fromHead THEN ClosedFromHead(at) ELSE ClosedFromTail(at)
        /\ len' = len - 1
        /\ head' = IF len' = 0 THEN 0
                   ELSE IF fromHead THEN Phys(head, 1) ELSE head
        /\ min' = IF len' = 0 THEN -1 ELSE min

Release(base) ==
  \E at \in Used :
    LET fromHead == at < len \div 2
    IN  /\ head < Cap
        /\ IsLowerBound(at, base)
        /\ Entry(at) = base
        /\ ring' = IF fromHead THEN ClosedFromHead(at) ELSE ClosedFromTail(at)
        /\ len' = len - 1
        /\ head' = IF len' = 0 THEN 0
                   ELSE IF fromHead THEN Phys(head, 1) ELSE head
        /\ min' = IF len' = 0 THEN -1 ELSE ring'[head']

-----------------------------------------------------------------------------
Next == \E base \in Bases : Reserve(base) \/ Release(base)

Spec == Init /\ [][Next]_vars

-----------------------------------------------------------------------------
(* Properties *)

\* The entries in use ascend from the head, whichever side a release shifted:
\* the binary search and the cached minimum both rest on it.
Ascending == \A i, j \in Used : i <= j => Entry(i) <= Entry(j)

\* What pending_floor reads without touching the ring is the least entry.
FloorIsLeast == IF len = 0 THEN min = -1
                ELSE /\ \E j \in Used : Entry(j) = min
                     /\ \A j \in Used : min <= Entry(j)

\* The search a release runs finds the first entry not below its base, so an
\* existing reservation is never missed.
SearchIsLowerBound == \A base \in Bases : IsLowerBound(BinarySearch(base), base)

\* The inductive invariant: head stays inside the ring whenever there is one.
IInv == /\ TypeOK
        /\ head < Cap \/ (head = 0 /\ len = 0)
        /\ Ascending
        /\ min = IF len = 0 THEN -1 ELSE ring[head]

-----------------------------------------------------------------------------
(* The ring is a bounded bag with a floor. *)

At(base) == {j \in Used : Entry(j) = base}

Held == [base \in Bases |-> Cardinality(At(base))]

R == INSTANCE Reservations WITH held <- Held, count <- len, floor <- min

\* Every step adds one reservation or takes one back: none is lost or doubled
\* by the shifting that reserve and release do, and the floor follows.
ImplementsReservations == R!Spec

\* It is the caller's: a release takes back a reservation at the base it was
\* given, never a neighbour's, whichever side it closes the gap from.
EachCallAtItsBase ==
  [][\A base \in Bases : /\ Reserve(base) => R!Reserve(base)
                         /\ Release(base) => R!Release(base)]_vars
=============================================================================
