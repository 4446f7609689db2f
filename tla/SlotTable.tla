------------------------------ MODULE SlotTable ------------------------------
(***************************************************************************)
(* One lock shard of extension/src/storage/segment.rs: the slots that hold *)
(* the append position and the pending reservations of the partitions      *)
(* hashed to it.  A partition is looked for by linear probing from its     *)
(* hash, up to the first free slot, which it then claims from what its     *)
(* segment files say.  drop_partition frees slots where they are.          *)
(*                                                                         *)
(* Every operation on the slots holds the shard's lock throughout.         *)
(***************************************************************************)
EXTENDS Integers

CONSTANTS Partitions,   \* the partitions hashed to this shard
          Free,         \* topic 0, which marks a free slot
          Start,        \* partition_hash(p) % SLOTS_PER_SHARD
          N,            \* SLOTS_PER_SHARD
          Holders,      \* transactions, each reserving on one partition
          Droppable,    \* environment: the partitions whose topic may be deleted
          MaxLog        \* bound: records of a partition

ASSUME ConstantsAssumption == /\ N \in Nat \ {0}
                              /\ Free \notin Partitions
                              /\ Start \in [Partitions -> 0 .. N - 1]
                              /\ Droppable \subseteq Partitions
                              /\ MaxLog \in Nat

VARIABLES part,      \* the partition a slot belongs to, or Free
          next,      \* the slot's next_offset
          pending,   \* the bases in the slot's ring
          files,     \* records in the segment files of each partition
          topic,     \* its topic: see Topic
          on,        \* the partition a transaction is yet to release on, or Free
          base,      \* the base it reserved there
          stands     \* the record it reserved for still exists

slotVars == <<part, next, pending>>
heldVars == <<on, base, stands>>
vars == <<slotVars, files, topic, heldVars>>

\* delete_topic removes a partition's files, frees its slots, and commits, or
\* rolls back without them.
Topic == {"live", "removing", "deleting", "reverted", "deleted"}

Slots == 0 .. N - 1
Offsets == 0 .. MaxLog

TypeOK == /\ part \in [Slots -> Partitions \cup {Free}]
          /\ next \in [Slots -> Offsets]
          /\ pending \in [Slots -> SUBSET Offsets]
          /\ files \in [Partitions -> Offsets]
          /\ topic \in [Partitions -> Topic]
          /\ on \in [Holders -> Partitions \cup {Free}]
          /\ base \in [Holders -> Offsets]
          /\ stands \in [Holders -> BOOLEAN]

Init == /\ part = [i \in Slots |-> Free]
        /\ next = [i \in Slots |-> 0]
        /\ pending = [i \in Slots |-> {}]
        /\ files = [p \in Partitions |-> 0]
        /\ topic = [p \in Partitions |-> "live"]
        /\ on = [t \in Holders |-> Free]
        /\ base = [t \in Holders |-> 0]
        /\ stands = [t \in Holders |-> FALSE]

-----------------------------------------------------------------------------
(* Lookups *)

\* How many steps into a partition's probe slot i comes.
Rank(p, i) == IF i >= Start[p] THEN i - Start[p] ELSE i - Start[p] + N

IsFirst(p, i, candidates) == /\ i \in candidates
                             /\ \A j \in candidates : Rank(p, i) <= Rank(p, j)

Of(p) == {i \in Slots : part[i] = p}

\* Mutant: the first in the array.
SnapshotLowest(p, i) == i \in Of(p) /\ \A j \in Of(p) : i <= j

\* slot_snapshot passes over free slots.
Snapshot(p, i) == IsFirst(p, i, Of(p))

\* slot_for, and the lookups of a tracked slot, stop at a free one.
SlotFor(p, i) == IsFirst(p, i, Of(p) \cup Of(Free))

\* What a slot says once slot_for has claimed it, if it was free: recover() of
\* the files for the position, and an empty ring.
NextAt(p, i) == IF part[i] = p THEN next[i] ELSE files[p]
\* Mutant: the ring is emptied whether the slot was free or not.
PendingAtAnew(p, i) == {}

PendingAt(p, i) == IF part[i] = p THEN pending[i] ELSE {}

-----------------------------------------------------------------------------
(* Operations *)

\* Anything that goes through with_slot.  A deletion in progress is not yet
\* visible to other transactions; a call that looked the topic up before it
\* commits and arrives after changes what it would have changed before.
WithSlot(p, i) == /\ topic[p] # "deleted"
                  /\ SlotFor(p, i)
                  /\ part' = [part EXCEPT ![i] = p]

\* with_active opens a segment again only when its base or generation changed: a
\* process that has a removed one open may go on writing to it.
Kept(p) == {TRUE} \cup {topic[p] = "live"}

\* A batch outside any transaction, or a transaction's later one.
Append(p) ==
  \E i \in Slots, kept \in Kept(p) :
    /\ WithSlot(p, i)
    /\ NextAt(p, i) < MaxLog
    /\ next' = [next EXCEPT ![i] = NextAt(p, i) + 1]
    /\ files' = [files EXCEPT ![p] = IF kept THEN NextAt(p, i) + 1 ELSE @]
    /\ pending' = [pending EXCEPT ![i] = PendingAt(p, i)]
    /\ UNCHANGED <<topic, heldVars>>

\* A transaction's first batch, with its reservation in the same critical section.
AppendPending(t, p) ==
  \E i \in Slots, kept \in Kept(p) :
    /\ on[t] = Free
    /\ WithSlot(p, i)
    /\ NextAt(p, i) < MaxLog
    /\ next' = [next EXCEPT ![i] = NextAt(p, i) + 1]
    /\ files' = [files EXCEPT ![p] = IF kept THEN NextAt(p, i) + 1 ELSE @]
    /\ pending' = [pending EXCEPT ![i] = PendingAt(p, i) \cup {NextAt(p, i)}]
    /\ on' = [on EXCEPT ![t] = p]
    /\ base' = [base EXCEPT ![t] = NextAt(p, i)]
    /\ stands' = [stands EXCEPT ![t] = kept]
    /\ UNCHANGED topic

\* high_watermark, last_stable_offset and the other reads.
Touch(p) ==
  \E i \in Slots :
    /\ WithSlot(p, i)
    /\ next' = [next EXCEPT ![i] = NextAt(p, i)]
    /\ pending' = [pending EXCEPT ![i] = PendingAt(p, i)]
    /\ UNCHANGED <<files, topic, heldVars>>

\* release_pending takes the partition's slots in array order and stops at the
\* first.
IsLowest(p, i) == i \in Of(p) /\ \A j \in Of(p) : i <= j

\* Mutant: only the slot at the partition's hash is looked at.
ReleaseAtHash(t) ==
  /\ on[t] # Free
  /\ IF part[Start[on[t]]] = on[t]
     THEN pending' = [pending EXCEPT ![Start[on[t]]] = @ \ {base[t]}]
     ELSE UNCHANGED pending
  /\ on' = [on EXCEPT ![t] = Free]
  /\ base' = [base EXCEPT ![t] = 0]
  /\ stands' = [stands EXCEPT ![t] = FALSE]
  /\ UNCHANGED <<part, next, files, topic>>

ReleasePending(t) ==
  /\ on[t] # Free
  /\ \/ \E i \in Slots : /\ IsLowest(on[t], i)
                         /\ pending' = [pending EXCEPT ![i] = @ \ {base[t]}]
     \/ Of(on[t]) = {} /\ UNCHANGED pending
  /\ on' = [on EXCEPT ![t] = Free]
  /\ base' = [base EXCEPT ![t] = 0]
  /\ stands' = [stands EXCEPT ![t] = FALSE]
  /\ UNCHANGED <<part, next, files, topic>>

\* drop_partition, called by delete_topic before its transaction ends: the
\* directory goes first, outside the lock.
RemoveFiles(p) ==
  /\ p \in Droppable /\ topic[p] \in {"live", "reverted"}
  /\ topic' = [topic EXCEPT ![p] = "removing"]
  /\ files' = [files EXCEPT ![p] = 0]
  /\ stands' = [t \in Holders |-> stands[t] /\ on[t] # p]
  /\ UNCHANGED <<slotVars, on, base>>

\* Then every slot of the partition.
FreeSlots(p) ==
  /\ topic[p] = "removing"
  /\ topic' = [topic EXCEPT ![p] = "deleting"]
  /\ part' = [i \in Slots |-> IF part[i] = p THEN Free ELSE part[i]]
  /\ next' = [i \in Slots |-> IF part[i] = p THEN 0 ELSE next[i]]
  /\ pending' = [i \in Slots |-> IF part[i] = p THEN {} ELSE pending[i]]
  /\ UNCHANGED <<files, heldVars>>

EndDelete(p) ==
  /\ topic[p] = "deleting"
  /\ \E outcome \in {"deleted", "reverted"} : topic' = [topic EXCEPT ![p] = outcome]
  /\ UNCHANGED <<slotVars, files, heldVars>>

\* The server restarts: shared memory is created anew, transactions are gone, a
\* deletion in progress rolls back, and no process has a removed file open.
Restart ==
  /\ part' = [i \in Slots |-> Free]
  /\ next' = [i \in Slots |-> 0]
  /\ pending' = [i \in Slots |-> {}]
  /\ topic' = [p \in Partitions |-> IF topic[p] = "deleted" THEN "deleted" ELSE "live"]
  /\ on' = [t \in Holders |-> Free]
  /\ base' = [t \in Holders |-> 0]
  /\ stands' = [t \in Holders |-> FALSE]
  /\ UNCHANGED files

Next == \/ \E p \in Partitions : \/ Append(p) \/ Touch(p)
                                 \/ RemoveFiles(p) \/ FreeSlots(p) \/ EndDelete(p)
        \/ \E t \in Holders : ReleasePending(t) \/ \E p \in Partitions : AppendPending(t, p)
        \/ Restart

Spec == Init /\ [][Next]_vars

-----------------------------------------------------------------------------
(* Properties *)

\* The slot slot_snapshot comes to first is never behind the segment files,
\* however many slots a partition has come to hold next to deleted ones: no
\* offset is assigned twice and sync_partition flushes what is being written.
PositionIsCurrent ==
  \A p \in Partitions : \A i \in Slots :
    topic[p] = "live" /\ Snapshot(p, i) => next[i] = files[p]

\* The LSO last_stable_offset reads is at or below every record whose
\* transaction is yet to release it, in a topic nobody deletes.
LsoHoldsReserved ==
  \A t \in Holders : \A i \in Slots :
    stands[t] /\ topic[on[t]] = "live" /\ SlotFor(on[t], i)
      => \E b \in PendingAt(on[t], i) : b <= base[t]

\* Every reservation that holds the LSO back belongs to a transaction that is
\* yet to release it, so none pins it for good.
ReservationsReleased ==
  \A p \in Partitions : \A i \in Slots : \A b \in PendingAt(p, i) :
    topic[p] = "live" /\ SlotFor(p, i) => \E t \in Holders : on[t] = p /\ base[t] = b

\* No topic of the shard is deleted, or a restart has undone what a deletion began: no slot
\* was freed since shared memory was created.
AllLive == \A p \in Partitions : topic[p] = "live"

\* Until drop_partition leaves a hole in the shard, last_stable_offset stays at or below every
\* record whose transaction is yet to release it (append_pending), whatever slots collide.
KeptLso == AllLive => LsoHoldsReserved

\* And no reservation outlives its transaction there (release_pending).
KeptReleased == AllLive => ReservationsReleased

-----------------------------------------------------------------------------
(* Inductive invariants *)

\* Also with holes.
IInv == TypeOK /\ PositionIsCurrent

\* Without a hole: a partition has one slot at most, no free slot comes before it in
\* its probe, and a slot's ring holds the bases of the transactions that hold a
\* reservation on its partition, each base once.
OneSlot == \A i, j \in Slots : part[i] = part[j] /\ part[i] # Free => i = j
NoHole == \A i, j \in Slots :
            part[i] # Free /\ part[j] = Free => Rank(part[i], i) < Rank(part[i], j)
RingExact == \A i \in Slots : \A b \in Offsets :
               b \in pending[i] <=> \E t \in Holders : /\ on[t] = part[i] /\ on[t] # Free
                                                       /\ base[t] = b
HeldExact == \A t \in Holders :
               /\ stands[t] <=> on[t] # Free
               /\ on[t] # Free => \E i \in Slots : part[i] = on[t] /\ base[t] < next[i]
               /\ \A u \in Holders : on[t] = on[u] /\ on[t] # Free /\ base[t] = base[u]
                                      => t = u
KeptInv == TypeOK /\ AllLive /\ OneSlot /\ NoHole /\ RingExact /\ HeldExact
=============================================================================
