---------------------------- MODULE LeaderEpochs ----------------------------
(***************************************************************************)
(* One partition on two nodes: its log, how much of the log is on disk,    *)
(* and the leader epoch every start of a broker takes.                     *)
(*                                                                         *)
(* An epoch lives in two places.  The row (meta) is written by a           *)
(* transaction and commits or not; the slot is shared memory, is written   *)
(* first and never rolls back.  An append reads the row, then takes the    *)
(* slot's lock: two steps here, with a raise possible in between.          *)
(*                                                                         *)
(* Offset i - 1 is entry i of the log.  What a sweep took of it (start:    *)
(* the log start; gone: entries compacted away) stays in the sequence.     *)
(***************************************************************************)
EXTENDS Integers, Sequences, FiniteSets, FiniteSetsExt

CONSTANTS
    Scenarios,              \* the situations checked: budgets and inputs
    EPOCHS_PER_TIMELINE     \* 2^16 in the code

VARIABLES
    scenario,   \* the situation of this behaviour
    left,       \* what remains of its budgets
    node        \* the two nodes

Nodes == {"a", "b"}
NoSlot == -1
NoSeed == -2
\* i32::MAX / EPOCHS_PER_TIMELINE
MAX_TIMELINE == 32767

ASSUME EpochsAssumption == EPOCHS_PER_TIMELINE \in Nat \ {0}

Has(what) == left[what] > 0
Spend(what) == left' = [left EXCEPT ![what] = @ - 1]

\* A record: who wrote it, and which one it is.
Rec(src, txn, seq) == [src |-> src, txn |-> txn, seq |-> seq]

\* The rows of a partition: its epoch and where each epoch began, and kafgres_timeline.
NewMeta(epoch, last) == [epoch |-> epoch, hist |-> {[epoch |-> epoch, start |-> 0]},
                         last |-> last, bias |-> 0]

NewNode(role, meta, tl) ==
    [role |-> role, log |-> <<>>, start |-> 0, gone |-> {}, durable |-> 0, slot |-> NoSlot, meta |-> meta, tl |-> tl,
     raised |-> role = "primary", ready |-> role = "primary", raising |-> <<>>, seed |-> NoSeed]

End(n) == Len(node[n].log)
Serving(n) == node[n].role = "primary" /\ node[n].ready

-----------------------------------------------------------------------------
(* Taking an epoch. *)

\* The timeline epochs are taken from, as the bias to add to the WAL's.
epoch_bias(meta, wal) ==
    CASE meta.last = 0 -> IF meta.epoch = 0 THEN 0
                          ELSE Max({meta.epoch \div EPOCHS_PER_TIMELINE + 2 - wal, 0})
      [] meta.last > wal -> meta.bias + (meta.last - wal) + 1
      [] OTHER -> meta.bias

\* Mutant: a start only counts, whatever the timeline.
next_leader_epoch_Counts(current, timeline) == current + 1

next_leader_epoch(current, timeline) ==
    LET base == Min({Max({timeline - 1, 0}), MAX_TIMELINE}) * EPOCHS_PER_TIMELINE
    IN CASE current < base -> base
         [] current >= base /\ current % EPOCHS_PER_TIMELINE = EPOCHS_PER_TIMELINE - 1 -> current
         [] OTHER -> current + 1

\* Epochs that began at or past the new one's start have no records: they leave the history.
record_epoch(meta, epoch, start) ==
    [meta EXCEPT !.epoch = epoch,
                 !.hist = {h \in @ : ~(h.start >= start /\ h.epoch < epoch) /\ h.epoch # epoch}
                            \cup {[epoch |-> epoch, start |-> start]}]

\* The rows a start leaves: the timeline it saw, and the epoch it took at the log end.
RaisedMeta(n) ==
    LET bias == epoch_bias(node[n].meta, node[n].tl)
        seen == [node[n].meta EXCEPT !.last = node[n].tl, !.bias = bias]
        epoch == next_leader_epoch(seen.epoch, node[n].tl + bias)
    IN IF epoch <= seen.epoch THEN seen ELSE record_epoch(seen, epoch, End(n))

\* set_leader_epoch moves the slot before the transaction it belongs to commits.
RaiseBegin(n) ==
    /\ node[n].role = "primary" /\ ~node[n].ready /\ node[n].raising = <<>>
    /\ \E m \in {RaisedMeta(n)} :
         node' = [node EXCEPT ![n].raising = <<m>>,
                              ![n].slot = IF m.epoch > node[n].meta.epoch THEN m.epoch ELSE @]
    /\ UNCHANGED <<scenario, left>>

RaiseCommits(n) == [node[n] EXCEPT !.meta = node[n].raising[1], !.raising = <<>>,
                                   !.raised = TRUE, !.ready = TRUE]

\* A lock or statement timeout: nothing of the raise is kept but the slot.
RaiseAbort(n) ==
    /\ node[n].raising # <<>> /\ Has("aborts") /\ Spend("aborts")
    /\ node' = [node EXCEPT ![n].raising = <<>>]
    /\ UNCHANGED scenario

-----------------------------------------------------------------------------
(* Appending. *)

\* The epoch to stamp, NoSeed when the slot is ahead of the row (LeaderEpochUnsettled).
epoch_for_append(slot, seed) ==
    LET now == IF slot < 0 \/ seed > slot THEN seed ELSE slot
    IN IF now > seed THEN NoSeed ELSE now

\* Appends wait for the epochs to be raised, then read the row's.
AppendSeed(n) ==
    /\ node[n].role = "primary" /\ node[n].raised /\ node[n].seed = NoSeed /\ Has("appends")
    /\ node' = [node EXCEPT ![n].seed = node[n].meta.epoch]
    /\ Spend("appends")
    /\ UNCHANGED scenario

Appended(nd, recs, epoch) ==
    [nd EXCEPT !.slot = epoch,
               !.log = @ \o [i \in 1 .. Len(recs) |-> [rec |-> recs[i], epoch |-> epoch]]]

AppendWrite(n) ==
    /\ node[n].seed # NoSeed
    /\ \E e \in {epoch_for_append(node[n].slot, node[n].seed)} :
         node' = [node EXCEPT ![n] =
                    [IF e = NoSeed THEN @ ELSE Appended(@, <<Rec(n, left.appends, 0)>>, e)
                       EXCEPT !.seed = NoSeed]]
    /\ UNCHANGED <<scenario, left>>

Synced(nd) == [nd EXCEPT !.durable = Len(nd.log)]

SyncPartition(n) ==
    /\ node[n].role = "primary" /\ node[n].durable < End(n) /\ Has("syncs") /\ Spend("syncs")
    /\ node' = [node EXCEPT ![n] = Synced(@)]
    /\ UNCHANGED scenario

-----------------------------------------------------------------------------
(* What the epochs answer. *)

NoAnswer == -1

\* Mutant: an epoch that is over ends at the log's end.
epoch_end_offset_LogEnd(n, epoch) == IF epoch > node[n].meta.epoch THEN NoAnswer ELSE End(n)

\* Where `epoch' ended; NoAnswer sends the asker to its reset policy.
epoch_end_offset(n, epoch) ==
    LET hist == node[n].meta.hist
        known == {h.epoch : h \in {h \in hist : h.epoch <= epoch}}
        after == {h.start : h \in {h \in hist : h.epoch > Max(known)}}
    IN CASE epoch = node[n].meta.epoch -> End(n)
         [] epoch > node[n].meta.epoch -> NoAnswer
         [] epoch < node[n].meta.epoch /\ known = {} -> 0
         [] OTHER -> IF after = {} THEN End(n) ELSE Min(after)

-----------------------------------------------------------------------------
(* A server stops: shared memory is gone, and of the log what was not on disk may be. *)

Restarted(nd, keep) ==
    [nd EXCEPT !.log = SubSeq(@, 1, keep), !.gone = @ \cap (1 .. keep), !.durable = keep, !.slot = NoSlot, !.raised = FALSE,
               !.ready = FALSE, !.raising = <<>>, !.seed = NoSeed]

=============================================================================
