--------------------------------- MODULE Cdc --------------------------------
(***************************************************************************)
(* The change-data-capture worker: it peeks at the transactions past its   *)
(* replication slot, renders every change for the mappings of its table    *)
(* (and one summary per transaction for the mappings of the transactions), *)
(* appends, makes the log durable, records how far each mapping is, and    *)
(* moves the slot.  Each of those is a transaction of its own.             *)
(*                                                                         *)
(* A drain buffers: a lane per mapping holds a run of changes of one       *)
(* shape, flushed when the shape changes or the buffer is full.  What it   *)
(* still has to do is the stack drain.todo; "produce" and "persist" there  *)
(* commit, "offer", "flush" and "cut" only move memory.                    *)
(*                                                                         *)
(* scenario.txns are the transactions that commit, in that order; a change *)
(* is [table, row, shape, bad], bad when its mappings cannot render it.    *)
(* scenario.maps are the mappings [names, table, stall], a name for each   *)
(* of its definitions; they all render to the partition of node a.         *)
(***************************************************************************)
EXTENDS LeaderEpochs, SequencesExt

VARIABLES
    cdc,        \* what is durable: slot, positions, dead letters, snapshots
    drain       \* the worker's memory

NoHold == -1
SUMMARY_SEQ == 9
TRANSACTION_SOURCE == "transactions"

Maps == DOMAIN scenario.maps
IsSummary(i) == scenario.maps[i].table = TRANSACTION_SOURCE
TableLanes == SelectSeq([i \in Maps |-> i], LAMBDA i : ~IsSummary(i))
SummaryLanes == SelectSeq([i \in Maps |-> i], LAMBDA i : IsSummary(i))

\* A position: the transaction, and the change in it.
Pos(txn, seq) == txn * 10 + seq
\* What a lane is offered.
Element(txn, seq, c) == [txn |-> txn, pos |-> Pos(txn, seq), row |-> c.row, shape |-> c.shape, bad |-> c.bad]
Summary(txn) == [txn |-> txn, pos |-> Pos(txn, SUMMARY_SEQ), row |-> 0, shape |-> "[]", bad |-> FALSE]
Rendered(i, ver, e) == Rec(scenario.maps[i].names[ver + 1], e.pos, e.row)

Lane(delivered) == [delivered |-> delivered, moved |-> FALSE, run |-> <<>>, stopped |-> <<>>]
Quiet == [phase |-> "idle", from |-> 0, high |-> 0, rows |-> <<>>, lanes |-> <<>>, ver |-> <<>>,
          todo |-> <<>>, appended |-> FALSE]
NewCdc == [slot |-> 0, disk |-> 0, passed |-> 0, committed |-> 0, delivered |-> [i \in Maps |-> 0],
           ver |-> [i \in Maps |-> 0], dead |-> {},
           snap |-> [i \in Maps |-> [state |-> "none", cursor |-> 0]]]

-----------------------------------------------------------------------------
(* Tables and mappings, as their users change them. *)

CommitTxn ==
    /\ cdc.committed < Len(scenario.txns)
    /\ cdc' = [cdc EXCEPT !.committed = @ + 1]
    /\ UNCHANGED <<scenario, left, node, drain>>

\* kafgres_add_mapping over an existing one: it renders whatever the slot replays.
AddMapping(i) ==
    /\ cdc.ver[i] + 1 < Len(scenario.maps[i].names) /\ Has("redefines") /\ Spend("redefines")
    /\ cdc' = [cdc EXCEPT !.ver[i] = @ + 1, !.delivered[i] = 0]
    /\ UNCHANGED <<scenario, node, drain>>

SnapshotMapping(i) ==
    /\ ~IsSummary(i) /\ Has("snapshots") /\ Spend("snapshots")
    /\ cdc' = [cdc EXCEPT !.snap[i] = [state |-> "pending", cursor |-> 0]]
    /\ UNCHANGED <<scenario, node, drain>>

Outstanding == {i \in Maps : cdc.snap[i].state \in {"pending", "running"}}

-----------------------------------------------------------------------------
(* The drain: opening, and the memory it works in. *)

\* The rows of a peek: the changes of each transaction, then its end.
RowsOf(t) == [s \in 1 .. Len(scenario.txns[t]) |-> [txn |-> t, seq |-> s]]
               \o <<[txn |-> t, seq |-> SUMMARY_SEQ]>>
Peeked(from, to) == FlattenSeq([n \in 1 .. to - from |-> RowsOf(from + n)])

\* The worker waits for the raised epochs, and for snapshots, then peeks past the slot.
DrainOpen ==
    /\ drain.phase = "idle" /\ node["a"].raised /\ Outstanding = {}
    /\ cdc.slot < cdc.committed
    /\ \E high \in {Min({cdc.slot + scenario.peek, cdc.committed})} :
         drain' = [Quiet EXCEPT !.phase = "stream", !.from = cdc.slot, !.high = high,
                                !.rows = Peeked(cdc.slot, high), !.ver = cdc.ver,
                                !.lanes = [i \in Maps |-> Lane(cdc.delivered[i])]]
    /\ UNCHANGED <<scenario, left, node, cdc>>

\* Where the slot may go if this transaction is not delivered: to the one peeked before it.
HoldAt(txn) == IF txn - 1 > drain.from THEN txn - 1 ELSE NoHold

\* Mutant: a hold that has no earlier transaction is overlooked.
advance_target_Skips(high, holds) == Min({high} \cup (holds \ {NoHold}))

advance_target(high, holds) == CASE holds = {} -> high
                                 [] NoHold \in holds -> NoHold
                                 [] OTHER -> Min(holds)

Task(k, i) == [k |-> k, i |-> i]
Offer(i, e) == [k |-> "offer", i |-> i, e |-> e]
Produce(i, els, retry, rest, held) == [k |-> "produce", i |-> i, els |-> els, retry |-> retry,
                                       rest |-> rest, held |-> held, n |-> 0]
Todo(tasks) == drain' = [drain EXCEPT !.todo = tasks \o Tail(@)]
Buffered == FoldLeft(LAMBDA n, l : n + Len(l.run), 0, drain.lanes)
\* max_by_key: the last of the largest.
Largest == Max({i \in Maps : \A j \in Maps : Len(drain.lanes[j].run) <= Len(drain.lanes[i].run)})

\* Any error of a step ends the drain; what it had in memory is peeked again.
DrainFails ==
    /\ drain.phase \in {"flush", "save", "advance"} \/ (drain.phase = "stream" /\ drain.rows # <<>>)
    /\ drain.todo = <<>> /\ Has("fails") /\ Spend("fails")
    /\ drain' = Quiet
    /\ UNCHANGED <<scenario, node, cdc>>

\* The next row: a change is offered to its table's lanes, an end to the summary lanes.
StreamRow ==
    /\ drain.phase = "stream" /\ drain.todo = <<>> /\ drain.rows # <<>>
    /\ \E r \in {Head(drain.rows)} :
         drain' = [drain EXCEPT !.rows = Tail(@), !.todo =
           IF r.seq = SUMMARY_SEQ
           THEN [n \in 1 .. Len(SummaryLanes) |-> Offer(SummaryLanes[n], Summary(r.txn))]
           ELSE LET c == scenario.txns[r.txn][r.seq]
                    lanes == SelectSeq(TableLanes, LAMBDA i : scenario.maps[i].table = c.table)
                IN [n \in 1 .. Len(lanes) |-> Offer(lanes[n], Element(r.txn, r.seq, c))]]
    /\ UNCHANGED <<scenario, left, node, cdc>>

OfferStep ==
    /\ drain.todo # <<>> /\ Head(drain.todo).k = "offer"
    /\ \E t \in {Head(drain.todo)} :
         LET l == drain.lanes[t.i]
         IN CASE l.stopped # <<>> \/ t.e.pos <= l.delivered -> Todo(<<>>)
              [] l.stopped = <<>> /\ t.e.pos > l.delivered /\ l.run # <<>> /\ l.run[1].shape # t.e.shape ->
                   Todo(<<Task("flush", t.i), t>>)
              [] l.stopped = <<>> /\ t.e.pos > l.delivered
                   /\ (l.run = <<>> \/ l.run[1].shape = t.e.shape)
                   /\ Buffered > 0 /\ Buffered + 1 > scenario.chunk ->
                   Todo(<<Task("flush", Largest), t>>)
              [] OTHER -> drain' = [drain EXCEPT !.todo = Tail(@),
                                                 !.lanes[t.i].run = Append(@, t.e)]
    /\ UNCHANGED <<scenario, left, node, cdc>>

\* Mutant: a summary is flushed without its changes.
ChangesFirst_Not(i) == <<>>

\* changes_first: before a summary run, every table's run.
ChangesFirst(i) == IF IsSummary(i) THEN [n \in 1 .. Len(TableLanes) |-> Task("cut", TableLanes[n])]
                   ELSE <<>>

FlushStep ==
    /\ drain.todo # <<>> /\ Head(drain.todo).k = "flush"
    /\ Todo(ChangesFirst(Head(drain.todo).i) \o <<Task("cut", Head(drain.todo).i)>>)
    /\ UNCHANGED <<scenario, left, node, cdc>>

\* The run is taken; summaries past the earliest stopped transaction wait for it.
CutStep ==
    /\ drain.todo # <<>> /\ Head(drain.todo).k = "cut"
    /\ \E i \in {Head(drain.todo).i} :
         LET run == drain.lanes[i].run
             stops == {drain.lanes[j].stopped[1] :
                         j \in {j \in ToSet(TableLanes) : drain.lanes[j].stopped # <<>>}}
             held == IF IsSummary(i) /\ stops # {} THEN <<advance_target(0, stops)>> ELSE <<>>
             keep == IF held = <<>> THEN run ELSE SelectSeq(run, LAMBDA e : e.txn <= held[1])
         IN drain' = [drain EXCEPT
              !.lanes[i].run = <<>>,
              !.lanes[i].stopped = IF run # <<>> /\ keep = <<>> THEN <<HoldAt(run[1].txn)>> ELSE @,
              !.todo = (IF keep = <<>> THEN <<>> ELSE <<Produce(i, keep, FALSE, <<>>, held)>>) \o Tail(@)]
    /\ UNCHANGED <<scenario, left, node, cdc>>

-----------------------------------------------------------------------------
(* The drain: what commits. *)

\* The run's transactions, one piece each.
Transactions(els) ==
    LET txns == SetToSortSeq({e.txn : e \in ToSet(els)}, <)
    IN [n \in 1 .. Len(txns) |-> SelectSeq(els, LAMBDA e : e.txn = txns[n])]

\* A piece was delivered: the next one, or the end of this flush.
Delivered(d, t, persisted) ==
    [d EXCEPT !.lanes[t.i].delivered = t.els[Len(t.els)].pos,
              !.lanes[t.i].moved = ~persisted,
              !.lanes[t.i].stopped = IF t.rest = <<>> /\ t.held # <<>> THEN t.held ELSE @,
              !.todo = (IF t.rest = <<>> THEN <<>>
                        ELSE <<Produce(t.i, Head(t.rest), TRUE, Tail(t.rest), t.held)>>) \o Tail(@)]

Retries(nothing, t, pieces) == nothing /\ ~t.retry /\ scenario.maps[t.i].stall /\ Len(pieces) > 1

\* Nothing was appended: a mapping that stalls tries one transaction at a time, else it stops here.
Stopped(d, t, retry) ==
    LET pieces == Transactions(t.els)
    IN IF Retries(retry, t, pieces)
       THEN [d EXCEPT !.todo = <<Produce(t.i, Head(pieces), TRUE, Tail(pieces), t.held)>> \o Tail(@)]
       ELSE [d EXCEPT !.lanes[t.i].stopped = <<HoldAt(t.els[1].txn)>>, !.todo = Tail(@)]

\* Rendered and appended, n of them; in the end recorded at once while rows are still coming.
Produced(t, good, n, dead) ==
    /\ node' = IF n = 0 THEN node
               ELSE [node EXCEPT !["a"] =
                      Appended(@, [m \in 1 .. n |-> Rendered(t.i, drain.ver[t.i], good[m])], @.meta.epoch)]
    /\ cdc' = [cdc EXCEPT !.dead = @ \cup {<<t.i, e.pos>> : e \in dead}]
    /\ drain' = IF drain.phase = "stream"
                THEN [drain EXCEPT !.todo = <<[t EXCEPT !.k = "persist", !.n = n]>> \o Tail(@)]
                ELSE Delivered([drain EXCEPT !.appended = @ \/ n > 0], t, FALSE)

\* One of render_and_produce's ends: all of it, an error before the first append, or one after.
ProduceStep ==
    /\ drain.todo # <<>> /\ Head(drain.todo).k = "produce"
    /\ \E t \in {Head(drain.todo)} :
         LET bad == {e \in ToSet(t.els) : e.bad}
             good == SelectSeq(t.els, LAMBDA e : ~e.bad)
             unsettled == epoch_for_append(node["a"].slot, node["a"].meta.epoch) = NoSeed
         IN IF (scenario.maps[t.i].stall /\ bad # {}) \/ (good # <<>> /\ unsettled)
            THEN drain' = Stopped(drain, t, TRUE) /\ UNCHANGED <<left, node, cdc>>
            ELSE \/ Produced(t, good, Len(good), bad) /\ UNCHANGED left
                 \/ /\ good # <<>> /\ Has("fails") /\ Spend("fails")
                    /\ drain' = Stopped(drain, t, TRUE) /\ UNCHANGED <<node, cdc>>
                 \/ /\ Has("fails") /\ Spend("fails")
                    /\ \E n \in 1 .. Len(good) - 1 : Produced(t, good, n, ToSet(t.els))
    /\ UNCHANGED scenario

\* Mutant: positions are not recorded.
Saves_Never(i) == FALSE

\* save_positions: only while the definition is the one that rendered.
Saves(i) == cdc.ver[i] = drain.ver[i]
SavedAt(i, pos) == IF Saves(i) THEN pos ELSE cdc.delivered[i]

\* sync_all, before anything is recorded.
Flushed(nd) == Synced(nd)

\* persist: the log made durable, then the position; either may fail.
PersistStep ==
    /\ drain.todo # <<>> /\ Head(drain.todo).k = "persist"
    /\ \E t \in {Head(drain.todo)} :
         \/ /\ node' = IF t.n = 0 THEN node ELSE [node EXCEPT !["a"] = Flushed(@)]
            /\ cdc' = [cdc EXCEPT !.delivered[t.i] = SavedAt(t.i, t.els[Len(t.els)].pos)]
            /\ drain' = Delivered(drain, t, TRUE)
            /\ UNCHANGED left
         \/ /\ Has("fails") /\ Spend("fails")
            /\ drain' = Stopped([drain EXCEPT !.appended = @ \/ t.n > 0], t, FALSE)
            /\ UNCHANGED <<node, cdc>>
    /\ UNCHANGED scenario

-----------------------------------------------------------------------------
(* The drain: its end. *)

\* No rows are left: every run is flushed, the tables' first.
StreamEnd ==
    /\ drain.phase = "stream" /\ drain.todo = <<>> /\ drain.rows = <<>>
    /\ drain' = [drain EXCEPT !.phase = "flush",
                   !.todo = [n \in Maps |-> Task("flush", (TableLanes \o SummaryLanes)[n])]]
    /\ UNCHANGED <<scenario, left, node, cdc>>

DrainSync ==
    /\ drain.phase = "flush" /\ drain.todo = <<>>
    /\ node' = IF drain.appended THEN [node EXCEPT !["a"] = Flushed(@)] ELSE node
    /\ drain' = [drain EXCEPT !.phase = "save"]
    /\ UNCHANGED <<scenario, left, cdc>>

DrainSave ==
    /\ drain.phase = "save"
    /\ cdc' = [cdc EXCEPT !.delivered = [i \in Maps |->
                 IF drain.lanes[i].moved THEN SavedAt(i, drain.lanes[i].delivered) ELSE @[i]]]
    /\ drain' = [drain EXCEPT !.phase = "advance"]
    /\ UNCHANGED <<scenario, left, node>>

\* The slot moves in memory; Postgres writes it to disk later.
DrainAdvance ==
    /\ drain.phase = "advance"
    /\ \E to \in {advance_target(drain.high, {drain.lanes[i].stopped[1] :
                                               i \in {i \in Maps : drain.lanes[i].stopped # <<>>}})} :
         cdc' = [cdc EXCEPT !.slot = Max({@, to}), !.passed = Max({@, to})]
    /\ drain' = Quiet
    /\ UNCHANGED <<scenario, left, node>>

SlotSaved ==
    /\ cdc.disk # cdc.slot /\ Has("checkpoints") /\ Spend("checkpoints")
    /\ cdc' = [cdc EXCEPT !.disk = cdc.slot]
    /\ UNCHANGED <<scenario, node, drain>>

-----------------------------------------------------------------------------
(* Snapshots. *)

\* The committed changes of a table, by position.
ChangesOf(table) == {<<t, n>> \in (1 .. cdc.committed) \X (1 .. SUMMARY_SEQ - 1) :
                       n <= Len(scenario.txns[t]) /\ scenario.txns[t][n].table = table}
ChangeAt(c) == scenario.txns[c[1]][c[2]]
\* A row's last change: the one it shows.
Shown(table, row) == LET cs == {c \in ChangesOf(table) : ChangeAt(c).row = row}
                     IN CHOOSE c \in cs : \A d \in cs : Pos(d[1], d[2]) <= Pos(c[1], c[2])

\* The rows a snapshot has still to read.
RowsPast(i) == {ChangeAt(c).row : c \in ChangesOf(scenario.maps[i].table)} \ (0 .. cdc.snap[i].cursor)

\* Outstanding snapshots come before a drain.  A page of one row is read and rendered, and
\* appended or dead-lettered; a mapping that stalls fails, which the next pass tries again
\* before it would drain anything.
SnapshotPage(i) ==
    /\ drain.phase = "idle" /\ node["a"].raised /\ Outstanding # {} /\ i = Min(Outstanding)
    /\ \E rows \in {RowsPast(i)} :
         IF rows = {}
         THEN drain' = [Quiet EXCEPT !.phase = "snapshot", !.from = i] /\ UNCHANGED node
         ELSE \E c \in {Shown(scenario.maps[i].table, Min(rows))} :
                LET e == Element(c[1], c[2], ChangeAt(c))
                IN /\ IF e.bad THEN ~scenario.maps[i].stall
                      ELSE epoch_for_append(node["a"].slot, node["a"].meta.epoch) # NoSeed
                   /\ node' = IF e.bad THEN node
                              ELSE [node EXCEPT !["a"] =
                                     Appended(@, <<Rendered(i, cdc.ver[i], e)>>, @.meta.epoch)]
                   /\ drain' = [Quiet EXCEPT !.phase = "snapshot", !.from = i, !.high = e.row,
                                             !.rows = <<e>>, !.appended = ~e.bad]
    /\ UNCHANGED <<scenario, left, cdc>>

\* Mutant: a page without rows leaves the snapshot running.
AfterPage_Running(snap, last) == [state |-> "running", cursor |-> Max({snap.cursor, last})]

\* The page's last row is the new cursor; a page without rows ends the snapshot.
AfterPage(snap, last) == IF last = 0 THEN [snap EXCEPT !.state = "done"]
                         ELSE [state |-> "running", cursor |-> last]

\* Durable before the cursor moves past the row.
SnapshotSave ==
    /\ drain.phase = "snapshot"
    /\ \/ /\ node' = IF drain.appended THEN [node EXCEPT !["a"] = Flushed(@)] ELSE node
          /\ cdc' = [cdc EXCEPT
               !.snap[drain.from] = AfterPage(@, drain.high),
               !.dead = @ \cup {<<drain.from, e.pos>> : e \in {e \in ToSet(drain.rows) : e.bad}}]
          /\ UNCHANGED left
       \/ Has("fails") /\ Spend("fails") /\ UNCHANGED <<node, cdc>>
    /\ drain' = Quiet
    /\ UNCHANGED scenario

\* A power cut of the node: the worker starts over, the slot from where it was on disk.
CdcCut ==
    /\ drain' = Quiet
    /\ cdc' = [cdc EXCEPT !.slot = cdc.disk]

-----------------------------------------------------------------------------
(* Properties. *)

\* What a mapping has to deliver of the committed transactions.
Owed(i) == IF IsSummary(i) THEN {Pos(t, SUMMARY_SEQ) : t \in 1 .. cdc.committed}
           ELSE {Pos(c[1], c[2]) : c \in ChangesOf(scenario.maps[i].table)}
CdcLog == node["a"].log
\* Where a mapping's record of a position is, under the definitions given.
At(i, p, names) == {n \in DOMAIN CdcLog : CdcLog[n].rec.src \in names /\ CdcLog[n].rec.txn = p}
Names(i) == ToSet(scenario.maps[i].names)
DeadLettered(i, p) == <<i, p>> \in cdc.dead
CdcIdle == drain.phase = "idle" /\ Outstanding = {}

\* When the slot has passed everything and no snapshot is outstanding, the last record of every
\* row is the row's last change, unless that change was dead-lettered: drains, retries, crashes
\* and snapshots leave a consumer of the topic with the table.
CdcConverges ==
    CdcIdle /\ cdc.slot = cdc.committed =>
      \A i \in ToSet(TableLanes) : \A c \in ChangesOf(scenario.maps[i].table) :
        LET row == ChangeAt(c).row
            last == Shown(scenario.maps[i].table, row)
            recs == {n \in DOMAIN CdcLog : CdcLog[n].rec.src \in Names(i) /\ CdcLog[n].rec.seq = row}
        IN \/ DeadLettered(i, Pos(last[1], last[2]))
           \/ recs # {} /\ CdcLog[Max(recs)].rec.txn = Pos(last[1], last[2])

\* A change the slot has passed, or a mapping's recorded position, is in the durable log or
\* dead-lettered: neither moves, and no crash moves it, past what a power cut could still take.
CdcNothingLost ==
    \A i \in Maps : \A p \in Owed(i) : p \div 10 <= cdc.slot \/ p <= cdc.delivered[i] =>
      DeadLettered(i, p) \/ \E n \in At(i, p, Names(i)) : n <= node["a"].durable

\* A mapping redefined while the slot holds changes renders all of those anew: a position
\* past them is recorded only for what the current definition delivered.
CdcRedefinedAnew ==
    \A i \in Maps : \A p \in Owed(i) : p <= cdc.delivered[i] /\ p \div 10 > cdc.passed =>
      DeadLettered(i, p) \/ At(i, p, {scenario.maps[i].names[cdc.ver[i] + 1]}) # {}

\* What drain and drain_worker record as done has been delivered: durably, under the definition
\* in force, and in an order that leaves a consumer with the table.
CdcDelivered == CdcNothingLost /\ CdcRedefinedAnew /\ CdcConverges

\* A summary comes after the changes of its transaction and of all before it, on every
\* mapping: a consumer that has read it has what it counts, or that was dead-lettered.
CdcSummaryLast ==
    \A n \in DOMAIN CdcLog : \A i \in ToSet(SummaryLanes) : CdcLog[n].rec.src \in Names(i) =>
      \A j \in ToSet(TableLanes) : \A p \in Owed(j) : p < CdcLog[n].rec.txn =>
        DeadLettered(j, p) \/ \E k \in At(j, p, Names(j)) : k < n

\* A change is delivered once, and at most once more for each fault, redefinition or snapshot:
\* a mapping that holds the slot does not make the others deliver again.
CdcCopiesBounded ==
    LET Spent(what) == scenario.budget[what] - left[what]
    IN \A i \in Maps : \A p \in Owed(i) : Cardinality(At(i, p, Names(i)))
         <= 1 + Spent("cuts") + Spent("fails") + Spent("redefines") + Spent("snapshots")

\* The transactions before the first that a stalling mapping cannot render.
Reachable ==
    Min({cdc.committed} \cup {c[1] - 1 : c \in {c \in UNION {ChangesOf(scenario.maps[i].table) :
           i \in {i \in ToSet(TableLanes) : scenario.maps[i].stall}} : ChangeAt(c).bad}})

\* The first snapshot is of a mapping that stalls, at a row it cannot render.
SnapshotStuck ==
    /\ Outstanding # {}
    /\ \E i \in {Min(Outstanding)} :
         /\ scenario.maps[i].stall /\ RowsPast(i) # {}
         /\ ChangeAt(Shown(scenario.maps[i].table, Min(RowsPast(i)))).bad

\* The slot gets to everything before the change that stalls, again and again, through crashes,
\* failed steps and snapshots.  Only a snapshot that is stuck keeps every mapping waiting, for as
\* long as the row stays as it is: the worker passes over the drain while one is outstanding.
CdcDrains == []<>(cdc.slot >= Reachable \/ SnapshotStuck)

=============================================================================
