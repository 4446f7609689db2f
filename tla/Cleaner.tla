------------------------------- MODULE Cleaner ------------------------------
(***************************************************************************)
(* Compaction, retention and the archive of one partition.                 *)
(*                                                                         *)
(* A sweep is one transaction under the retention lock.  It may be the     *)
(* broker's, bounded by a budget and resumed by the next one, or that of a *)
(* session's process, which runs to the end; each process has its own plan *)
(* and its own memory of what has been clean since when.  The cursor, the  *)
(* layout generation and the positions are shared memory.  Files change at *)
(* once; rows (log start, archive) when the sweep commits.                 *)
(*                                                                         *)
(* scenario.recs is what is appended, one record a batch: [key, val, fate, *)
(* roll]; val "t" is a tombstone, fate "ok" no transaction, else what the  *)
(* transaction comes to; roll closes the segment after it.                 *)
(***************************************************************************)
EXTENDS Integers, Sequences, FiniteSets, FiniteSetsExt, SequencesExt, LeaderEpochs

CONSTANTS
    MAX_COMPACT_KEYS,   \* keys one map holds
    DELETE_RETENTION    \* delete.retention.ms, in ticks

VARIABLES
    part,       \* the partition: segments on disk, and its slot in shared memory
    sweep,      \* the sweep that holds the lock, and each process's memory
    archive,    \* the archive's rows and copies, and the archiver's step
    reader      \* a consumer reading from the start, and the clock

Sweepers == {"broker", "session"}
Keys == {scenario.recs[n].key : n \in DOMAIN scenario.recs} \ {"null"}
NoOffset == -1

NoPlan == [on |-> FALSE, map |-> [k \in Keys |-> NoOffset], end |-> NoOffset, from |-> 0,
           mapping |-> FALSE, at |-> 0, gen |-> 0, abandoned |-> FALSE]
Off == [by |-> "none", stage |-> "idle", stable |-> 0, horizon |-> 0, last |-> 0,
        forgets |-> {}, start |-> 0]
NewPart == [segs |-> <<[base |-> 0, recs |-> <<>>]>>, next |-> 0, open |-> {}, aborted |-> {},
            start |-> 0, cursor |-> 0, gen |-> 0, dropped |-> 0]
NewSweep == [now |-> Off, plan |-> [p \in Sweepers |-> NoPlan], cleaned |-> [p \in Sweepers |-> <<>>]]
NewArchive == [rows |-> {}, copies |-> {}, job |-> <<>>]
NewReader == [pos |-> NoOffset, view |-> [k \in Keys |-> NoOffset], since |-> 0, clock |-> 0]

Sealed == Len(part.segs) - 1
SealedSegs == {part.segs[i] : i \in 1 .. Sealed}
Segment(base) == CHOOSE s \in ToSet(part.segs) : s.base = base
Stable == IF part.open = {} THEN part.next ELSE Min(part.open)
Committed(r) == r.off \notin part.aborted /\ r.off \notin part.open
Records == UNION {ToSet(s.recs) : s \in ToSet(part.segs)}

-----------------------------------------------------------------------------
(* Producers. *)

AppendRecord ==
    /\ part.next < Len(scenario.recs)
    /\ \E r \in {scenario.recs[part.next + 1]} :
         LET rec == [off |-> part.next, key |-> r.key, val |-> r.val]
             n == Len(part.segs)
             segs == [part.segs EXCEPT ![n].recs = Append(@, rec)]
         IN part' = [part EXCEPT
              !.segs = IF r.roll THEN Append(segs, [base |-> part.next + 1, recs |-> <<>>]) ELSE segs,
              !.next = @ + 1, !.open = IF r.fate = "ok" THEN @ ELSE @ \cup {part.next}]
    /\ UNCHANGED <<left, sweep, archive, reader>>

\* A transaction ends.
Decide ==
    /\ \E o \in part.open :
         part' = [part EXCEPT !.open = @ \ {o},
                              !.aborted = IF scenario.recs[o + 1].fate = "abort" THEN @ \cup {o} ELSE @]
    /\ UNCHANGED <<left, sweep, archive, reader>>

-----------------------------------------------------------------------------
(* A pass of a plan. *)

\* At least half of the cleanable log, past the cursor.
WorthIt(from) ==
    LET ends == [i \in 1 .. Sealed |-> part.segs[i + 1].base]
        clean == {i \in 1 .. Sealed : ends[i] <= from}
        Size(S) == MapThenSumSet(LAMBDA i : Len(part.segs[i].recs), S)
    IN Size((1 .. Sealed) \ clean) > 0 /\ Size((1 .. Sealed) \ clean) >= Size(clean)

NewPlan == [NoPlan EXCEPT !.on = TRUE, !.from = part.cursor, !.mapping = TRUE, !.at = part.cursor,
                          !.gen = part.gen]

\* claim; then compact_pass picks up the plan of this process, if the layout is still its own.
SweepStart(p) ==
    /\ sweep.now.by = "none" /\ Has("sweeps") /\ Spend("sweeps")
    /\ \E plan \in {IF Sealed = 0 \/ (sweep.plan[p].on /\ sweep.plan[p].gen = part.gen) THEN sweep.plan[p]
                    ELSE IF WorthIt(part.cursor) THEN NewPlan ELSE NoPlan} :
         sweep' = [sweep EXCEPT
           !.plan[p] = plan,
           !.now = [Off EXCEPT !.by = p, !.stage = IF Sealed > 0 /\ plan.on THEN "compact" ELSE "retain",
                               !.stable = Stable, !.horizon = reader.clock - DELETE_RETENTION,
                               !.last = part.segs[Len(part.segs)].base, !.start = part.start]]
    /\ UNCHANGED <<part, archive, reader>>

\* Nothing at or above the last stable offset is mapped.
Mappable(r, stable) == r.off < stable

\* add_batch: the keys fit, or the map is empty.
Fits(map, k) == LET held == {x \in Keys : map[x] # NoOffset}
                IN k = "null" \/ held = {} \/ Cardinality(held \cup {k}) <= MAX_COMPACT_KEYS

\* The batch cannot be read: what was mapped is kept, and the plan counts as abandoned.
MapFails(p) ==
    /\ sweep.now.by = p /\ sweep.now.stage = "compact" /\ sweep.plan[p].mapping
    /\ Has("fails") /\ Spend("fails")
    /\ sweep' = [sweep EXCEPT !.plan[p] = [@ EXCEPT !.mapping = FALSE, !.at = 0, !.abandoned = TRUE]]
    /\ UNCHANGED <<part, archive, reader>>

\* The next batch of the dirty section goes into the map, or ends it.
MapStep(p) ==
    /\ sweep.now.by = p /\ sweep.now.stage = "compact" /\ sweep.plan[p].mapping
    /\ \E plan \in {sweep.plan[p]} :
         LET ahead == {r \in Records : r.off >= plan.at /\ r.off < sweep.now.last}
             r == CHOOSE r \in ahead : \A q \in ahead : r.off <= q.off
         IN sweep' = [sweep EXCEPT !.plan[p] =
              IF ahead = {} \/ ~Mappable(r, sweep.now.stable) THEN [plan EXCEPT !.mapping = FALSE, !.at = 0]
              ELSE IF ~Committed(r) THEN [plan EXCEPT !.end = r.off, !.at = r.off + 1]
              ELSE IF ~Fits(plan.map, r.key) THEN [plan EXCEPT !.mapping = FALSE, !.at = 0]
              ELSE [plan EXCEPT !.map = [k \in Keys |-> IF k = r.key THEN r.off ELSE @[k]],
                                !.end = r.off, !.at = r.off + 1]]
    /\ UNCHANGED <<left, part, archive, reader>>

\* Mutant: a tombstone goes with the pass that finds it in the clean section.
tombstone_goes_AtOnce(p, plan, off) == ~plan.abandoned /\ off < plan.from

\* A tombstone goes once it has been clean for delete.retention.ms, and not in an abandoned plan.
tombstone_goes(p, plan, off) ==
    LET since == SelectSeq(sweep.cleaned[p], LAMBDA c : c.end >= off)
    IN ~plan.abandoned /\ off < plan.from /\ since # <<>> /\ since[1].at <= sweep.now.horizon

\* clean_batch, for a batch of one record.
Survives(p, plan, r) ==
    \/ r.off > plan.end
    \/ /\ Committed(r)
       /\ \/ r.key = "null"
          \/ /\ plan.map[r.key] <= r.off
             /\ ~(r.val = "t" /\ tombstone_goes(p, plan, r.off))

\* The next segment up to the map's end, rewritten and swapped, or not landing.
RewriteStep(p) ==
    /\ sweep.now.by = p /\ sweep.now.stage = "compact" /\ ~sweep.plan[p].mapping
    /\ \E plan \in {sweep.plan[p]} :
       \E bases \in {{s.base : s \in {s \in SealedSegs : s.base >= plan.at /\ s.base <= plan.end
                                                           /\ s.base < sweep.now.last}}} :
         /\ bases # {}
         /\ LET base == Min(bases)
                keep == SelectSeq(Segment(base).recs, LAMBDA r : Survives(p, plan, r))
            IN \/ /\ keep = Segment(base).recs
                  /\ sweep' = [sweep EXCEPT !.plan[p].at = base + 1]
                  /\ UNCHANGED <<left, part>>
               \/ /\ keep # Segment(base).recs
                  /\ part' = [part EXCEPT !.gen = @ + 1,
                                !.segs = SelectSeq([i \in DOMAIN @ |->
                                           IF @[i].base = base THEN [@[i] EXCEPT !.recs = keep] ELSE @[i]],
                                           LAMBDA s : s.base # base \/ s.recs # <<>>)]
                  /\ sweep' = [sweep EXCEPT !.plan[p].at = base + 1, !.plan[p].gen = part.gen + 1,
                                            !.now.forgets = @ \cup {base}]
                  /\ UNCHANGED left
               \/ /\ Has("fails") /\ Spend("fails")
                  /\ sweep' = [sweep EXCEPT !.plan[p].at = base + 1, !.plan[p].abandoned = TRUE]
                  /\ UNCHANGED part
    /\ UNCHANGED <<archive, reader>>

\* Mutant: the cursor moves although a rewrite did not land.
Finished_Anyway(plan) == plan.end >= 0

\* The plan cleaned all it mapped.
Finished(plan) == ~plan.abandoned /\ plan.end >= 0

\* No segment is left: the cursor moves, if it is where the plan found it.
PlanEnd(p) ==
    /\ sweep.now.by = p /\ sweep.now.stage = "compact" /\ ~sweep.plan[p].mapping
    /\ \E plan \in {sweep.plan[p]} :
         /\ \A s \in SealedSegs : s.base >= plan.at => s.base > plan.end \/ s.base >= sweep.now.last
         /\ LET moves == Finished(plan) /\ part.cursor = plan.from
            IN /\ part' = IF moves THEN [part EXCEPT !.cursor = plan.end + 1] ELSE part
               /\ sweep' = [sweep EXCEPT !.plan[p] = NoPlan, !.now.stage = "retain",
                    !.cleaned[p] = IF moves THEN Append(@, [end |-> plan.end, at |-> reader.clock]) ELSE @]
    /\ UNCHANGED <<left, archive, reader>>

\* The broker's budget is spent: the plan waits for the next sweep.
BudgetSpent ==
    /\ sweep.now.by = "broker" /\ sweep.now.stage = "compact"
    /\ sweep' = [sweep EXCEPT !.now.stage = "retain"]
    /\ UNCHANGED <<left, part, archive, reader>>

-----------------------------------------------------------------------------
(* Retention, in the same transaction, and its commit. *)

\* Mutant: a segment is unlinked whether it was archived or not.
Unlinkable_All(base) == TRUE

Unlinkable(base) == scenario.archives => base \in archive.rows \ sweep.now.forgets

\* reclaim up to a boundary between segments, or again below the log start: unlinks stop at the
\* first segment not archived, the log start does not.
Retain ==
    /\ sweep.now.stage = "retain"
    /\ \E n \in IF scenario.deletes THEN 0 .. Sealed ELSE {0} :
         LET target == Max({part.start, IF n = 0 THEN 0 ELSE part.segs[n + 1].base})
             below == {i \in 1 .. Sealed : scenario.deletes /\ part.segs[i + 1].base <= target}
             gone == {i \in below : \A j \in 1 .. i : Unlinkable(part.segs[j].base)}
         IN /\ part' = [part EXCEPT !.segs = SubSeq(@, Cardinality(gone) + 1, Len(@)),
                                    !.dropped = Max({@, target})]
            /\ sweep' = [sweep EXCEPT !.now.stage = "commit", !.now.start = target]
    /\ UNCHANGED <<left, archive, reader>>

SweepCommit ==
    /\ sweep.now.stage = "commit"
    /\ part' = [part EXCEPT !.start = sweep.now.start]
    /\ archive' = [archive EXCEPT !.rows = @ \ sweep.now.forgets]
    /\ sweep' = [sweep EXCEPT !.now = Off]
    /\ UNCHANGED <<left, reader>>

-----------------------------------------------------------------------------
(* The archiver: the command copies, then the row is committed. *)

ArchiveCopy ==
    /\ scenario.archives /\ archive.job = <<>>
    /\ \E s \in SealedSegs :
         /\ s.base \notin archive.rows
         /\ archive' = [archive EXCEPT !.copies = {c \in @ : c.base # s.base} \cup {s}, !.job = <<s.base>>]
    /\ UNCHANGED <<left, part, sweep, reader>>

ArchiveCommit ==
    /\ archive.job # <<>>
    /\ archive' = [archive EXCEPT !.rows = @ \cup {archive.job[1]}, !.job = <<>>]
    /\ UNCHANGED <<left, part, sweep, reader>>

-----------------------------------------------------------------------------
(* Crashes, the clock, a reader. *)

\* Shared memory is gone: the cursor and the generation.  So are the processes.
CleanerCrash ==
    /\ part' = [part EXCEPT !.cursor = 0, !.gen = 0]
    /\ sweep' = NewSweep
    /\ archive' = [archive EXCEPT !.job = <<>>]

\* Only the process of a sweeper exits: its transaction, plan and history are gone.
SweeperExits(p) ==
    /\ Has("exits") /\ Spend("exits")
    /\ sweep' = [sweep EXCEPT !.plan[p] = NoPlan, !.cleaned[p] = <<>>,
                              !.now = IF @.by = p THEN Off ELSE @]
    /\ UNCHANGED <<part, archive, reader>>

Tick ==
    /\ Has("ticks") /\ Spend("ticks")
    /\ reader' = [reader EXCEPT !.clock = @ + 1]
    /\ UNCHANGED <<part, sweep, archive>>

\* The consumer starts over, at the log start.
ReadStart ==
    /\ Has("reads") /\ Spend("reads")
    /\ reader' = [NewReader EXCEPT !.pos = part.start, !.clock = reader.clock, !.since = reader.clock]
    /\ UNCHANGED <<part, sweep, archive>>

ReadNext ==
    /\ reader.pos # NoOffset
    /\ \E ahead \in {{r \in Records : r.off >= reader.pos /\ r.off < Stable}} :
         LET r == CHOOSE r \in ahead : \A q \in ahead : r.off <= q.off
         IN IF ahead = {} THEN reader.pos < Stable /\ reader' = [reader EXCEPT !.pos = Stable]
            ELSE reader' = [reader EXCEPT !.pos = r.off + 1,
                              !.view = [k \in Keys |-> IF k = r.key /\ Committed(r) THEN r.off ELSE @[k]]]
    /\ UNCHANGED <<left, part, sweep, archive>>

-----------------------------------------------------------------------------
(* Properties. *)

\* The committed records ever appended, below the last stable offset.
History == {o \in 0 .. Stable - 1 : o \notin part.aborted}
\* The last offset of a key among some offsets.
LatestOf(k, offs) == Max({NoOffset} \cup {o \in offs : scenario.recs[o + 1].key = k})
\* What a table that followed those offsets holds for the key: nothing after a tombstone.
Held(o) == IF o = NoOffset THEN NoOffset ELSE IF scenario.recs[o + 1].val = "t" THEN NoOffset ELSE o

\* Compaction never changes what the log says: for every key whose last record retention has not
\* passed, a table built from the segments on disk equals one built from every record appended.
\* Sweeps of two processes, their budgets, failing rewrites, crashes and exits may fall anywhere.
CompactedSame ==
    \A k \in Keys : LatestOf(k, History) >= part.dropped =>
      Held(LatestOf(k, {r.off : r \in {r \in Records : r.off \in History}})) = Held(LatestOf(k, History))

\* A consumer that reads the log from the start to the end within delete.retention.ms ends with
\* the right table, whatever is compacted under it: it meets every tombstone it needs.
ReaderSeesDeletes ==
    reader.pos = Stable /\ reader.clock - reader.since < DELETE_RETENTION /\ ~scenario.deletes
      => \A k \in Keys : Held(reader.view[k]) = Held(LatestOf(k, History))

\* With an archive, no record leaves the disk by retention without a copy of it there: what the
\* log still owed at that boundary is in some archived segment.
ReclaimedIsArchived ==
    scenario.archives => \A k \in Keys :
      LET kept == {r.off : r \in Records} \cup {r.off : r \in UNION {ToSet(c.recs) : c \in archive.copies}}
      IN Held(LatestOf(k, History)) = NoOffset \/ LatestOf(k, History) \in kept

=============================================================================
