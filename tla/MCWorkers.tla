------------------------------ MODULE MCWorkers -----------------------------
(* The situations of the workers that TLC goes through. *)
EXTENDS Workers

None == [appends |-> 0, syncs |-> 0, aborts |-> 0, workers |-> 0, cuts |-> 0, drops |-> 0,
         promotions |-> 0, upgrades |-> 0, connects |-> 0, reclaims |-> 0,
         redefines |-> 0, snapshots |-> 0, fails |-> 0, checkpoints |-> 0,
         sweeps |-> 0, exits |-> 0, ticks |-> 0, reads |-> 0]
Base == [b |-> "none", epoch |-> 0, last |-> 1, tl |-> 1, orderly |-> TRUE,
         txns |-> <<>>, maps |-> <<>>, peek |-> 2, chunk |-> 2,
         recs |-> <<>>, deletes |-> FALSE, archives |-> FALSE, budget |-> None]

\* A consumer across crashes of a single node and restarts of its worker.
Restarts == [Base EXCEPT !.budget = [None EXCEPT !.appends = 3, !.syncs = 1,
               !.cuts = 2, !.connects = 2]]
Unsettled == [Base EXCEPT !.budget = [None EXCEPT !.appends = 3, !.aborts = 1, !.workers = 1,
               !.cuts = 1, !.connects = 2]]
\* A promotion beside a primary that lives on.
Failover == [Base EXCEPT !.b = "standby", !.budget = [None EXCEPT !.appends = 2, !.cuts = 1,
               !.promotions = 1, !.connects = 2]]
\* The follower across a crash of the leader.
Following == [Base EXCEPT !.b = "standby", !.budget = [None EXCEPT !.appends = 2, !.cuts = 2, !.drops = 1]]
\* ... and while the leader's sweeps take from the log.
Overtaking == [Base EXCEPT !.b = "standby", !.budget = [None EXCEPT !.appends = 3, !.reclaims = 1,
                 !.cuts = 1]]
\* pg_upgrade, both clusters started; and a cluster without its timeline row.
Upgraded == [Base EXCEPT !.tl = 2, !.last = 2, !.epoch = 9, !.budget = [None EXCEPT !.appends = 2,
               !.cuts = 1, !.upgrades = 1, !.connects = 2]]
FirstRow == [Upgraded EXCEPT !.last = 0, !.budget.upgrades = 0]

Ch(table, row, shape, bad) == [table |-> table, row |-> row, shape |-> shape, bad |-> bad]
Map(names, table, stall) == [names |-> names, table |-> table, stall |-> stall]
Summaries == Map(<<"s">>, TRANSACTION_SOURCE, FALSE)

\* Two tables and the summaries, through crashes and a failing step.
Draining == [Base EXCEPT
    !.txns = <<<<Ch("t", 1, "x", FALSE), Ch("u", 1, "x", FALSE)>>, <<Ch("t", 1, "y", FALSE)>>,
               <<Ch("t", 2, "y", FALSE)>>>>,
    !.maps = <<Map(<<"m">>, "t", TRUE), Map(<<"n">>, "u", FALSE), Summaries>>,
    !.budget = [None EXCEPT !.cuts = 1, !.fails = 1, !.checkpoints = 1]]
\* A change that stalls one mapping and is dead-lettered by another.
Stalling == [Base EXCEPT
    !.txns = <<<<Ch("t", 1, "x", FALSE)>>, <<Ch("t", 1, "x", TRUE), Ch("t", 2, "x", FALSE)>>,
               <<Ch("t", 1, "x", FALSE)>>>>,
    !.maps = <<Map(<<"m">>, "t", TRUE), Map(<<"n">>, "t", FALSE), Summaries>>,
    !.chunk = 5, !.budget = [None EXCEPT !.cuts = 1, !.fails = 1]]
\* A mapping redefined while a drain runs.
Redefining == [Base EXCEPT
    !.txns = <<<<Ch("t", 1, "x", FALSE), Ch("t", 1, "x", FALSE)>>, <<Ch("u", 1, "x", TRUE)>>>>,
    !.maps = <<Map(<<"m", "m2">>, "t", FALSE), Map(<<"n">>, "u", TRUE)>>, !.chunk = 1,
    !.budget = [None EXCEPT !.cuts = 1, !.redefines = 1, !.checkpoints = 1]]
\* Snapshots asked for at any moment.
Snapshotting == [Base EXCEPT
    !.txns = <<<<Ch("t", 1, "x", FALSE), Ch("t", 2, "x", FALSE)>>, <<Ch("t", 1, "x", FALSE)>>,
               <<Ch("t", 2, "x", TRUE)>>>>,
    !.maps = <<Map(<<"m">>, "t", FALSE)>>,
    !.budget = [None EXCEPT !.cuts = 1, !.snapshots = 1]]
\* ... and again while one runs.
SnapshotAgain == [Snapshotting EXCEPT !.txns = SubSeq(@, 1, 2),
    !.budget = [None EXCEPT !.snapshots = 2, !.fails = 1]]
\* A snapshot of a mapping that stalls, at a row it cannot render until that changes.
SnapshotStalling == [Base EXCEPT
    !.txns = <<<<Ch("u", 1, "x", FALSE)>>, <<Ch("t", 1, "x", TRUE)>>, <<Ch("t", 1, "x", FALSE)>>>>,
    !.maps = <<Map(<<"m">>, "t", TRUE), Map(<<"n">>, "u", FALSE)>>,
    !.budget = [None EXCEPT !.snapshots = 1, !.cuts = 1]]

R(key, val, fate, roll) == [key |-> key, val |-> val, fate |-> fate, roll |-> roll]
\* A key written, deleted and written beside another; two sweepers and a reader.
Deleting == [Base EXCEPT
    !.recs = <<R("k", "v", "ok", TRUE), R("k", "t", "ok", TRUE), R("l", "v", "ok", TRUE)>>,
    !.budget = [None EXCEPT !.sweeps = 2, !.ticks = 2, !.reads = 1]]
\* ... and a rewrite that does not land.
Failing == [Deleting EXCEPT !.recs = <<@[1], @[2], [@[3] EXCEPT !.roll = FALSE], @[3]>>,
    !.budget = [None EXCEPT !.sweeps = 2, !.ticks = 2, !.fails = 1]]
\* Transactions, more keys than a map holds, crashes and exits.
Compacting == [Base EXCEPT
    !.recs = <<R("k", "v", "ok", FALSE), R("k", "v", "abort", TRUE), R("l", "v", "commit", TRUE),
               R("m", "v", "ok", FALSE), R("l", "t", "ok", TRUE)>>,
    !.budget = [None EXCEPT !.sweeps = 2, !.cuts = 1, !.exits = 1]]
\* compact,delete with an archive.
Archiving == [Base EXCEPT
    !.recs = <<R("l", "v", "ok", FALSE), R("k", "v", "ok", TRUE), R("k", "v", "ok", TRUE)>>,
    !.deletes = TRUE, !.archives = TRUE,
    !.budget = [None EXCEPT !.sweeps = 2, !.cuts = 1]]

Situations == {Restarts, Unsettled, Failover, Following, Overtaking, Upgraded, FirstRow, Draining,
               Stalling, Redefining, Snapshotting, SnapshotAgain, SnapshotStalling, Deleting, Failing,
               Compacting, Archiving}

\* A promotion at any moment, the follower's round included.
Late == [Base EXCEPT !.b = "standby", !.orderly = FALSE,
           !.budget = [None EXCEPT !.appends = 2, !.promotions = 1, !.drops = 1]]
LateSituations == {Late}
=============================================================================
