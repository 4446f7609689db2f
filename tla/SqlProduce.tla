----------------------------- MODULE SqlProduce -----------------------------
(***************************************************************************)
(* kafgres_produce() on one partition of the segment engine: SQL sessions  *)
(* append a batch to the log before their transaction commits, a row of    *)
(* kafgres_markers commits or rolls back with the transaction, and a       *)
(* read_committed fetch decides from the two, while other sessions commit, *)
(* roll back to savepoints, fail, and the server or the broker restarts.   *)
(*                                                                         *)
(* Every batch holds one record, as kafgres_produce() builds it.  The log  *)
(* and the pending reservations are shared memory and files: they never    *)
(* roll back.  Marker rows are PostgreSQL's: a row is visible once its     *)
(* transaction commits and gone once its (sub)transaction rolls back.      *)
(***************************************************************************)
EXTENDS Integers, Sequences, FiniteSets

CONSTANTS Sessions,      \* SQL backends
          MaxBackends,   \* entries of a partition's reservation ring
          MaxXid,        \* bound: transactions in a behaviour
          MaxSub,        \* bound: subtransactions of one transaction
          MaxLog,        \* bound: records in the log
          MaxRestarts,   \* bound: crashes and broker restarts
          MarkersPerFetch,  \* MARKERS_PER_FETCH
          QuietStart,    \* environment: no session produces until the broker serves
          RestoreMayLoseSynced, \* environment: a restart may be from a backup whose
                                \* log stops short of what was synced
          ReconcileMayFail  \* environment: reconciliation may fail other than on a lock

ASSUME ConstantsAssumption == /\ {MaxBackends, MaxXid, MaxLog} \subseteq Nat
                              /\ MaxSub \in Nat \ {0}
                              /\ MaxRestarts \in Nat
                              /\ MarkersPerFetch \in Nat \ {0}
                              /\ {QuietStart, RestoreMayLoseSynced, ReconcileMayFail}
                                   \subseteq BOOLEAN

VARIABLES
  log,           \* the records, offset o at index o + 1
  synced,        \* how many of them an fsync covers
  pending,       \* the bases reserved in the partition's slot
  markers,       \* rows of kafgres_markers, of running and committed transactions
  status,        \* what became of each transaction
  pc,            \* where each session is in its transaction
  xid,           \* the session's top-level transaction
  subs,          \* the stack of its open subtransactions, 1 the top level
  nextSub,       \* the next subtransaction id
  generation,    \* Producing.generation
  maxSubid,      \* Producing.max_subid
  base,          \* base_offset of the call in progress, -1 between calls
  reserved,      \* the base this transaction reserved, -1 for none
  owed,          \* the session owes the partition an fsync at pre-commit
  epochsRaised,  \* EPOCHS_RAISED
  broker,        \* how far the broker has started
  logEnd,        \* the log end reconciliation read
  fetch,         \* the fetch the broker is serving
  restarts       \* restarts so far

sessionVars == <<pc, xid, subs, nextSub, generation, maxSubid, base, reserved, owed>>
brokerVars == <<epochsRaised, broker, logEnd>>
vars == <<log, synced, pending, markers, status, sessionVars, brokerVars, fetch, restarts>>

Offsets == 0 .. MaxLog
Xids == 1 .. MaxXid
Top == 1
SubIds == 1 .. MaxSub

\* A wire record is acknowledged as it is appended.  A SQL record carries the
\* producer id <<xid, gen>>; sub is the subtransaction that now owns it, 0
\* once that has rolled back.
WireRecord == [kind : {"wire"}]
SqlRecord == [kind : {"sql"}, xid : Xids, gen : 0 .. MaxSub, sub : 0 .. MaxSub]
Record == WireRecord \cup SqlRecord
Marker == [base : Offsets, xid : Xids, sub : SubIds]

FetchState == [at : {"idle", "hw", "lso", "markers"}, from : Offsets, hw : Offsets,
               ceiling : Offsets, committed : SUBSET Offsets]
NoFetch == [at |-> "idle", from |-> 0, hw |-> 0, ceiling |-> 0, committed |-> {}]

TypeOK ==
  /\ log \in Seq(Record) /\ Len(log) <= MaxLog
  /\ synced \in 0 .. Len(log)
  /\ pending \subseteq Offsets
  /\ markers \subseteq Marker
  /\ status \in [Xids -> {"unused", "running", "committed", "aborted"}]
  /\ pc \in [Sessions -> {"idle", "open", "appended", "failed", "synced", "visible", "gone"}]
  /\ xid \in [Sessions -> Xids \cup {0}]
  /\ subs \in [Sessions -> Seq(SubIds)]
  /\ nextSub \in [Sessions -> 1 .. MaxSub + 1]
  /\ generation \in [Sessions -> 0 .. MaxSub]
  /\ maxSubid \in [Sessions -> 0 .. MaxSub]
  /\ base \in [Sessions -> Offsets \cup {-1}]
  /\ reserved \in [Sessions -> Offsets \cup {-1}]
  /\ owed \in [Sessions -> BOOLEAN]
  /\ epochsRaised \in BOOLEAN
  /\ broker \in {"starting", "raised", "reconciling", "serving"}
  /\ logEnd \in Offsets
  /\ fetch \in FetchState
  /\ restarts \in 0 .. MaxRestarts

Init ==
  /\ log = <<>> /\ synced = 0 /\ pending = {} /\ markers = {}
  /\ status = [x \in Xids |-> "unused"]
  /\ pc = [s \in Sessions |-> "idle"]
  /\ xid = [s \in Sessions |-> 0]
  /\ subs = [s \in Sessions |-> <<>>]
  /\ nextSub = [s \in Sessions |-> 1]
  /\ generation = [s \in Sessions |-> 0]
  /\ maxSubid = [s \in Sessions |-> 0]
  /\ base = [s \in Sessions |-> -1]
  /\ reserved = [s \in Sessions |-> -1]
  /\ owed = [s \in Sessions |-> FALSE]
  /\ epochsRaised = FALSE /\ broker = "starting" /\ logEnd = 0
  /\ fetch = NoFetch /\ restarts = 0

HighWatermark == Len(log)

\* Slot::pending_floor is the lowest reserved base, and never past the log end.
IsPendingFloor(f) == /\ f \in pending \cup {HighWatermark}
                     /\ \A b \in pending \cup {HighWatermark} : f <= b

Visible(m) == status[m.xid] = "committed"

Inner(s) == subs[s][Len(subs[s])]
Outer(s) == SubSeq(subs[s], 1, Len(subs[s]) - 1)
Nested(s) == Len(subs[s]) > 1

Larger(a, b) == IF a >= b THEN a ELSE b

-----------------------------------------------------------------------------
(* The session's transaction, as PostgreSQL drives it *)

Begin(s) ==
  /\ pc[s] = "idle"
  /\ \E x \in Xids :
       /\ status[x] = "unused" /\ \A y \in 1 .. x - 1 : status[y] # "unused"
       /\ status' = [status EXCEPT ![x] = "running"]
       /\ xid' = [xid EXCEPT ![s] = x]
  /\ pc' = [pc EXCEPT ![s] = "open"]
  /\ subs' = [subs EXCEPT ![s] = <<Top>>]
  /\ nextSub' = [nextSub EXCEPT ![s] = Top + 1]
  /\ generation' = [generation EXCEPT ![s] = 0]
  /\ maxSubid' = [maxSubid EXCEPT ![s] = 0]
  /\ UNCHANGED <<log, synced, pending, markers, base, reserved, owed, brokerVars, fetch, restarts>>

Savepoint(s) ==
  /\ pc[s] = "open" /\ nextSub[s] <= MaxSub
  /\ subs' = [subs EXCEPT ![s] = Append(@, nextSub[s])]
  /\ nextSub' = [nextSub EXCEPT ![s] = @ + 1]
  /\ UNCHANGED <<log, synced, pending, markers, status, pc, xid, generation, maxSubid,
                 base, reserved, owed, brokerVars, fetch, restarts>>

\* The log with the records of one subtransaction handed to another owner.
Handed(x, from, to) ==
  [i \in DOMAIN log |-> IF log[i].kind = "sql" /\ log[i].xid = x /\ log[i].sub = from
                        THEN [log[i] EXCEPT !.sub = to] ELSE log[i]]

MarkersOf(x, sub) == {m \in markers : m.xid = x /\ m.sub = sub}

\* RELEASE SAVEPOINT: what the innermost subtransaction wrote is its parent's.
ReleaseSavepoint(s) ==
  LET sub == Inner(s)
      parent == subs[s][Len(subs[s]) - 1]
  IN  /\ pc[s] = "open" /\ Nested(s)
      /\ subs' = [subs EXCEPT ![s] = Outer(s)]
      /\ log' = Handed(xid[s], sub, parent)
      /\ markers' = (markers \ MarkersOf(xid[s], sub))
                      \cup {[m EXCEPT !.sub = parent] : m \in MarkersOf(xid[s], sub)}
      /\ UNCHANGED <<synced, pending, status, pc, xid, nextSub, generation, maxSubid,
                     base, reserved, owed, brokerVars, fetch, restarts>>

\* Mutant: the subtransaction that produced last does not count itself.
RolledBackOuter(s, sub) ==
  IF maxSubid[s] > sub
  THEN /\ generation' = [generation EXCEPT ![s] = @ + 1]
       /\ maxSubid' = [maxSubid EXCEPT ![s] = 0]
  ELSE UNCHANGED <<generation, maxSubid>>

\* rolled_back(): a subtransaction at or below the highest that produced takes
\* the transaction to a new producer id.
RolledBack(s, sub) ==
  IF maxSubid[s] >= sub
  THEN /\ generation' = [generation EXCEPT ![s] = @ + 1]
       /\ maxSubid' = [maxSubid EXCEPT ![s] = 0]
  ELSE UNCHANGED <<generation, maxSubid>>

\* The innermost subtransaction rolls back, on request or because a statement
\* in it failed; ROLLBACK TO an outer one is several of these.
RollbackSub(s) ==
  LET sub == Inner(s)
  IN  /\ pc[s] \in {"open", "appended", "failed"} /\ Nested(s)
      /\ subs' = [subs EXCEPT ![s] = Outer(s)]
      /\ log' = Handed(xid[s], sub, 0)
      /\ markers' = markers \ MarkersOf(xid[s], sub)
      /\ RolledBack(s, sub)
      /\ pc' = [pc EXCEPT ![s] = "open"]
      /\ base' = [base EXCEPT ![s] = -1]
      /\ UNCHANGED <<synced, pending, status, xid, nextSub, reserved, owed,
                     brokerVars, fetch, restarts>>

-----------------------------------------------------------------------------
(* kafgres_produce() *)

\* enter_produce() and append_pending(): the batch and, for the transaction's
\* first on the partition, its reservation, in one critical section.
Produce(s) ==
  LET at == HighWatermark
  IN  /\ pc[s] = "open"
      /\ epochsRaised
      /\ QuietStart => broker = "serving"
      /\ at < MaxLog
      /\ reserved[s] = -1 => Cardinality(pending) < MaxBackends
      /\ maxSubid' = [maxSubid EXCEPT ![s] = Larger(@, Inner(s))]
      /\ log' = Append(log, [kind |-> "sql", xid |-> xid[s], gen |-> generation[s],
                             sub |-> Inner(s)])
      /\ IF reserved[s] = -1
         THEN /\ pending' = pending \cup {at}
              /\ reserved' = [reserved EXCEPT ![s] = at]
         ELSE UNCHANGED <<pending, reserved>>
      /\ base' = [base EXCEPT ![s] = at]
      /\ owed' = [owed EXCEPT ![s] = TRUE]
      /\ pc' = [pc EXCEPT ![s] = "appended"]
      /\ UNCHANGED <<synced, markers, status, xid, subs, nextSub, generation,
                     brokerVars, fetch, restarts>>

\* The wait for the epochs times out, the append is refused, or it fails: an
\* ERROR after enter_produce() and before anything is written.
ProduceFails(s) ==
  /\ pc[s] = "open"
  /\ maxSubid' = [maxSubid EXCEPT ![s] = Larger(@, Inner(s))]
  /\ pc' = [pc EXCEPT ![s] = "failed"]
  /\ UNCHANGED <<log, synced, pending, markers, status, xid, subs, nextSub, generation,
                 base, reserved, owed, brokerVars, fetch, restarts>>

\* The marker row; (topic, partition, base_offset) is its primary key.
InsertMarker(s) ==
  /\ pc[s] = "appended"
  /\ \A m \in markers : m.base # base[s]
  /\ markers' = markers \cup {[base |-> base[s], xid |-> xid[s], sub |-> Inner(s)]}
  /\ pc' = [pc EXCEPT ![s] = "open"]
  /\ base' = [base EXCEPT ![s] = -1]
  /\ UNCHANGED <<log, synced, pending, status, xid, subs, nextSub, generation, maxSubid,
                 reserved, owed, brokerVars, fetch, restarts>>

\* The INSERT is refused, by the key or otherwise.
MarkerFails(s) ==
  /\ pc[s] = "appended"
  /\ pc' = [pc EXCEPT ![s] = "failed"]
  /\ base' = [base EXCEPT ![s] = -1]
  /\ UNCHANGED <<log, synced, pending, markers, status, xid, subs, nextSub, generation,
                 maxSubid, reserved, owed, brokerVars, fetch, restarts>>
-----------------------------------------------------------------------------
(* Commit and abort, with the callbacks kafgres_produce() registered *)

\* Mutant: nothing is synced at pre-commit.
PreCommitUnsynced(s) ==
  /\ pc[s] = "open"
  /\ owed' = [owed EXCEPT ![s] = FALSE]
  /\ pc' = [pc EXCEPT ![s] = "synced"]
  /\ UNCHANGED <<log, synced, pending, markers, status, xid, subs, nextSub, generation,
                 maxSubid, base, reserved, brokerVars, fetch, restarts>>

\* Mutant: the reservation is given back before the commit is visible.
PreCommitReleases(s) ==
  /\ pc[s] = "open"
  /\ synced' = IF owed[s] THEN Len(log) ELSE synced
  /\ owed' = [owed EXCEPT ![s] = FALSE]
  /\ pending' = pending \ {reserved[s]}
  /\ reserved' = [reserved EXCEPT ![s] = -1]
  /\ pc' = [pc EXCEPT ![s] = "synced"]
  /\ UNCHANGED <<log, markers, status, xid, subs, nextSub, generation, maxSubid, base,
                 brokerVars, fetch, restarts>>

\* sync_owed() at pre-commit.  A failed fsync is an Abort.
PreCommit(s) ==
  /\ pc[s] = "open"
  /\ synced' = IF owed[s] THEN Len(log) ELSE synced
  /\ owed' = [owed EXCEPT ![s] = FALSE]
  /\ pc' = [pc EXCEPT ![s] = "synced"]
  /\ UNCHANGED <<log, pending, markers, status, xid, subs, nextSub, generation, maxSubid,
                 base, reserved, brokerVars, fetch, restarts>>

\* The commit is durable and visible; its callback is still to run.
Commit(s) ==
  /\ pc[s] = "synced"
  /\ status' = [status EXCEPT ![xid[s]] = "committed"]
  /\ pc' = [pc EXCEPT ![s] = "visible"]
  /\ UNCHANGED <<log, synced, pending, markers, xid, subs, nextSub, generation, maxSubid,
                 base, reserved, owed, brokerVars, fetch, restarts>>

Abort(s) ==
  /\ pc[s] \in {"open", "appended", "failed", "synced"}
  /\ status' = [status EXCEPT ![xid[s]] = "aborted"]
  /\ markers' = {m \in markers : m.xid # xid[s]}
  /\ pc' = [pc EXCEPT ![s] = "gone"]
  /\ base' = [base EXCEPT ![s] = -1]
  /\ owed' = [owed EXCEPT ![s] = FALSE]
  /\ UNCHANGED <<log, synced, pending, xid, subs, nextSub, generation, maxSubid,
                 reserved, brokerVars, fetch, restarts>>

\* Mutant: only a commit gives its reservation back.
CallbackOnCommit(s) ==
  /\ pc[s] \in {"visible", "gone"}
  /\ pending' = IF pc[s] = "visible" THEN pending \ {reserved[s]} ELSE pending
  /\ reserved' = [reserved EXCEPT ![s] = -1]
  /\ pc' = [pc EXCEPT ![s] = "idle"]
  /\ xid' = [xid EXCEPT ![s] = 0]
  /\ subs' = [subs EXCEPT ![s] = <<>>]
  /\ nextSub' = [nextSub EXCEPT ![s] = 1]
  /\ generation' = [generation EXCEPT ![s] = 0]
  /\ maxSubid' = [maxSubid EXCEPT ![s] = 0]
  /\ UNCHANGED <<log, synced, markers, status, base, owed, brokerVars, fetch, restarts>>

\* The Commit or Abort callback: release_pending() at the reserved base.
Callback(s) ==
  /\ pc[s] \in {"visible", "gone"}
  /\ pending' = pending \ {reserved[s]}
  /\ reserved' = [reserved EXCEPT ![s] = -1]
  /\ pc' = [pc EXCEPT ![s] = "idle"]
  /\ xid' = [xid EXCEPT ![s] = 0]
  /\ subs' = [subs EXCEPT ![s] = <<>>]
  /\ nextSub' = [nextSub EXCEPT ![s] = 1]
  /\ generation' = [generation EXCEPT ![s] = 0]
  /\ maxSubid' = [maxSubid EXCEPT ![s] = 0]
  /\ UNCHANGED <<log, synced, markers, status, base, owed, brokerVars, fetch, restarts>>

-----------------------------------------------------------------------------
(* The broker *)

\* A Kafka client's batch outside any transaction, and the fsync its
\* acknowledgement waits for.
WireAppend ==
  /\ broker = "serving" /\ fetch.at = "idle"
  /\ HighWatermark < MaxLog
  /\ log' = Append(log, [kind |-> "wire"])
  /\ UNCHANGED <<synced, pending, markers, status, sessionVars, brokerVars, fetch, restarts>>

SyncBeforeAck ==
  /\ broker = "serving" /\ fetch.at = "idle"
  /\ synced' = Len(log)
  /\ UNCHANGED <<log, pending, markers, status, sessionVars, brokerVars, fetch, restarts>>

\* SegmentStore::read for a read_committed fetch: the high watermark, the LSO,
\* the markers and the log are four reads, sessions running between them.
FetchHighWatermark(from) ==
  /\ broker = "serving" /\ fetch.at = "idle"
  /\ fetch' = [NoFetch EXCEPT !.at = "hw", !.from = from, !.hw = HighWatermark]
  /\ UNCHANGED <<log, synced, pending, markers, status, sessionVars, brokerVars, restarts>>

FetchLso ==
  /\ fetch.at = "hw"
  /\ \E lso \in Offsets :
       /\ IsPendingFloor(lso)
       /\ fetch' = IF fetch.from > fetch.hw \/ fetch.from >= lso THEN NoFetch
                   ELSE [fetch EXCEPT !.at = "lso", !.hw = 0, !.ceiling = lso]
  /\ UNCHANGED <<log, synced, pending, markers, status, sessionVars, brokerVars,
                 restarts>>

\* Mutant: at the cap the ceiling stays where the LSO put it.
FetchMarkersUncapped ==
  LET inRange == {m.base : m \in {n \in markers : /\ Visible(n)
                                                  /\ n.base >= fetch.from
                                                  /\ n.base < fetch.ceiling}}
  IN  /\ fetch.at = "lso"
      /\ fetch' = [fetch EXCEPT !.at = "markers",
                     !.committed = {b \in inRange : Cardinality({c \in inRange : c < b})
                                                      < MarkersPerFetch}]
      /\ UNCHANGED <<log, synced, pending, markers, status, sessionVars, brokerVars,
                     restarts>>

\* pmeta::committed_markers: at the cap, only offsets up to the highest marker
\* loaded are known, and the ceiling comes down to there.
FetchMarkers ==
  LET inRange == {m.base : m \in {n \in markers : /\ Visible(n)
                                                  /\ n.base >= fetch.from
                                                  /\ n.base < fetch.ceiling}}
      lowest == {b \in inRange : Cardinality({c \in inRange : c < b}) < MarkersPerFetch}
  IN  /\ fetch.at = "lso"
      /\ \E ceiling \in 0 .. fetch.ceiling :
           /\ IF Cardinality(lowest) < MarkersPerFetch
              THEN ceiling = fetch.ceiling
              ELSE ceiling - 1 \in lowest /\ \A b \in lowest : b < ceiling
           /\ fetch' = [fetch EXCEPT !.at = "markers", !.ceiling = ceiling,
                                     !.committed = lowest]
      /\ UNCHANGED <<log, synced, pending, markers, status, sessionVars, brokerVars,
                     restarts>>

\* Mutant: an abort is listed from the offset after its first record.
DeliveredFirstOrphan(next) ==
  LET orphan(o) == log[o + 1].kind = "sql" /\ o \notin fetch.committed
      hidden(o) == /\ log[o + 1].kind = "sql"
                   /\ \E a \in fetch.from .. o - 1 : /\ orphan(a)
                                                     /\ log[a + 1].xid = log[o + 1].xid
                                                     /\ log[a + 1].gen = log[o + 1].gen
  IN  {o \in fetch.from .. next - 1 : ~hidden(o)}

\* What the client keeps of the scan of from .. next - 1: it drops a batch
\* whose producer id the response lists as aborted from an offset at or below.
Delivered(next) ==
  LET orphan(o) == log[o + 1].kind = "sql" /\ o \notin fetch.committed
      hidden(o) == /\ log[o + 1].kind = "sql"
                   /\ \E a \in fetch.from .. o : /\ orphan(a)
                                                 /\ log[a + 1].xid = log[o + 1].xid
                                                 /\ log[a + 1].gen = log[o + 1].gen
  IN  {o \in fetch.from .. next - 1 : ~hidden(o)}

\* The scan runs under the slot's lock and the response leaves.
FetchScan ==
  /\ fetch.at = "markers"
  /\ fetch' = NoFetch
  /\ UNCHANGED <<log, synced, pending, markers, status, sessionVars, brokerVars, restarts>>

-----------------------------------------------------------------------------
(* Crashes and starts *)

\* Every backend dies.  Shared memory is created anew, running transactions
\* are rolled back, and the log keeps what was synced and any part of the
\* rest; a restore from backup may come back with less.
Crash ==
  /\ restarts < MaxRestarts
  /\ restarts' = restarts + 1
  /\ \E n \in 0 .. Len(log) :
       /\ RestoreMayLoseSynced \/ n >= synced
       /\ log' = SubSeq(log, 1, n)
       /\ synced' = n
  /\ pending' = {}
  /\ markers' = {m \in markers : Visible(m)}
  /\ status' = [x \in Xids |-> IF status[x] = "running" THEN "aborted" ELSE status[x]]
  /\ pc' = [s \in Sessions |-> "idle"]
  /\ xid' = [s \in Sessions |-> 0]
  /\ subs' = [s \in Sessions |-> <<>>]
  /\ nextSub' = [s \in Sessions |-> 1]
  /\ generation' = [s \in Sessions |-> 0]
  /\ maxSubid' = [s \in Sessions |-> 0]
  /\ base' = [s \in Sessions |-> -1]
  /\ reserved' = [s \in Sessions |-> -1]
  /\ owed' = [s \in Sessions |-> FALSE]
  /\ epochsRaised' = FALSE /\ broker' = "starting" /\ logEnd' = 0
  /\ fetch' = NoFetch

\* The broker's worker exits and the postmaster starts it again: shared memory
\* and the sessions stay.
WorkerRestart ==
  /\ broker # "starting" /\ restarts < MaxRestarts
  /\ restarts' = restarts + 1
  /\ broker' = "starting" /\ logEnd' = 0
  /\ fetch' = NoFetch
  /\ UNCHANGED <<log, synced, pending, markers, status, sessionVars, epochsRaised>>

\* raise_leader_epochs() recovers the slot and lets the SQL sessions append.
RaiseEpochs ==
  /\ broker = "starting"
  /\ epochsRaised' = TRUE
  /\ broker' = "raised"
  /\ UNCHANGED <<log, synced, pending, markers, status, sessionVars, logEnd, fetch, restarts>>

\* reconcile_markers() for a partition with a visible marker: the log end.
ReconcileRead ==
  /\ broker = "raised"
  /\ IF \E m \in markers : Visible(m)
     THEN broker' = "reconciling" /\ logEnd' = HighWatermark
     ELSE broker' = "serving" /\ UNCHANGED logEnd
  /\ UNCHANGED <<log, synced, pending, markers, status, sessionVars, epochsRaised, fetch,
                 restarts>>

\* Then, in a later statement, the DELETE at or above it.
ReconcileDelete ==
  /\ broker = "reconciling"
  /\ markers' = {m \in markers : ~(Visible(m) /\ m.base >= logEnd)}
  /\ broker' = "serving" /\ logEnd' = 0
  /\ UNCHANGED <<log, synced, pending, status, sessionVars, epochsRaised, fetch, restarts>>

\* Its transaction times out on a lock and is retried, or fails in another way
\* and the broker serves without it.
ReconcileFails ==
  /\ broker = "reconciling"
  /\ \/ broker' = "raised"
     \/ ReconcileMayFail /\ broker' = "serving"
  /\ logEnd' = 0
  /\ UNCHANGED <<log, synced, pending, markers, status, sessionVars, epochsRaised, fetch,
                 restarts>>

-----------------------------------------------------------------------------
Session(s) == \/ Begin(s) \/ Savepoint(s) \/ ReleaseSavepoint(s) \/ RollbackSub(s)
              \/ Produce(s) \/ ProduceFails(s) \/ InsertMarker(s) \/ MarkerFails(s)
              \/ PreCommit(s) \/ Commit(s) \/ Abort(s) \/ Callback(s)

Fetch == \/ \E from \in Offsets : FetchHighWatermark(from)
         \/ FetchLso \/ FetchMarkers \/ FetchScan

Start == RaiseEpochs \/ ReconcileRead \/ ReconcileDelete \/ ReconcileFails

Next == \/ \E s \in Sessions : Session(s)
        \/ WireAppend \/ SyncBeforeAck \/ Fetch
        \/ Crash \/ WorkerRestart \/ Start

Spec == Init /\ [][Next]_vars

-----------------------------------------------------------------------------
(* Properties *)

\* What became of the record at an offset: its transaction, and the
\* subtransaction that owns it.
IsCommitted(o) == \/ log[o + 1].kind = "wire"
                  \/ log[o + 1].sub # 0 /\ status[log[o + 1].xid] = "committed"
IsRolledBack(o) == /\ log[o + 1].kind = "sql"
                   /\ log[o + 1].sub = 0 \/ status[log[o + 1].xid] = "aborted"

\* Where a scan may stop: the byte budget cuts it anywhere past the first batch.
Cuts == IF fetch.at = "markers" THEN fetch.from + 1 .. fetch.ceiling ELSE {}

\* A read_committed consumer is never given a record whose transaction, or
\* savepoint, rolled back or may still roll back.
RolledBackIsHidden ==
  \A next \in Cuts : \A o \in Delivered(next) : IsCommitted(o)

\* A consumer moves past a record without being given it only when the record
\* has rolled back for good: a committed record is never skipped, nor one of a
\* transaction still in flight.
CommittedIsDelivered ==
  \A next \in Cuts : \A o \in fetch.from .. next - 1 :
    o \notin Delivered(next) => IsRolledBack(o)

\* Together: what a read_committed consumer is given of the range it moves over is what was
\* committed in it, whatever savepoints were rolled back and whatever markers a restart finds.
ReadsCommitted == RolledBackIsHidden /\ CommittedIsDelivered

\* The LSO is at or below every record a running transaction has in the log.
LsoHoldsInFlight ==
  \A o \in 0 .. Len(log) - 1 :
    log[o + 1].kind = "sql" /\ status[log[o + 1].xid] = "running"
      => \E b \in pending : b <= o

\* The ring holds exactly the reservations of transactions whose callback has
\* not run: none is leaked, which would pin the LSO for good.
ReservationsExact ==
  /\ pending = {reserved[s] : s \in {t \in Sessions : reserved[t] # -1}}
  /\ \A s, t \in Sessions : reserved[s] = reserved[t] /\ reserved[s] # -1 => s = t

\* A durable commit has a durable record: whatever a crash leaves of the log,
\* every committed marker points into it.
CommittedIsDurable ==
  ~RestoreMayLoseSynced => \A m \in markers : Visible(m) => m.base < synced
-----------------------------------------------------------------------------
(* The inductive invariant behind the last three properties *)

InTxn == {"open", "appended", "failed", "synced"}

\* Where a session is says what its transaction's status is.
SessionOK(s) ==
  /\ pc[s] = "idle" => xid[s] = 0 /\ reserved[s] = -1
  /\ pc[s] # "idle" => /\ xid[s] # 0 /\ Len(subs[s]) > 0
                       /\ generation[s] + Len(subs[s]) < nextSub[s]
  /\ pc[s] \in InTxn => status[xid[s]] = "running"
  /\ pc[s] = "visible" => status[xid[s]] = "committed"
  /\ pc[s] = "gone" => status[xid[s]] = "aborted"
  /\ pc[s] = "appended" => base[s] \in 0 .. Len(log) - 1

SessionInv == \A s \in Sessions : SessionOK(s)

\* A running transaction has exactly one session, and one not begun has left
\* nothing behind.
XidInv ==
  /\ \A s, t \in Sessions : xid[s] = xid[t] /\ xid[s] # 0 => s = t
  /\ \A x \in Xids : status[x] = "running" => \E s \in Sessions : xid[s] = x
  /\ \A i \in DOMAIN log : log[i].kind = "sql" => status[log[i].xid] # "unused"
  /\ \A m \in markers : status[m.xid] # "unused"

\* A session's reservation is at or below each of its transaction's records.
ReservationInv ==
  /\ ReservationsExact
  /\ \A s \in Sessions : reserved[s] < Len(log)
  /\ \A s \in Sessions, i \in DOMAIN log :
       log[i].kind = "sql" /\ log[i].xid = xid[s] => reserved[s] # -1 /\ reserved[s] < i

\* A marker is inserted after its record, and its transaction owes an fsync
\* from then until pre-commit.
DurableInv ==
  /\ CommittedIsDurable
  /\ \A s \in Sessions, m \in markers :
       m.xid = xid[s] => /\ m.base < Len(log)
                         /\ pc[s] = "synced" => m.base < synced
                         /\ pc[s] \in {"open", "appended", "failed"} => owed[s]
  /\ \A s \in Sessions : pc[s] = "appended" => owed[s]

IInv == TypeOK /\ SessionInv /\ XidInv /\ ReservationInv /\ DurableInv

=============================================================================
