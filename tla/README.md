# kafgres in TLA+

kafgres is a PostgreSQL extension that embeds a Kafka broker. One background
worker serves the Kafka protocol from a single event loop; SQL sessions append
to the same logs with `kafgres_produce()`; further workers drain change data,
archive segments and follow another broker. Records live in segment files (or,
with the table engine, in PostgreSQL tables), metadata and coordination state
in PostgreSQL tables, and the state that appends and fetches share in a table of
slots in shared memory.

This directory holds TLA+ modules of the parts where those three kinds of state
meet, TLC configurations that check them on small instances, and proofs that
TLAPS checks. Paths below are relative to `extension/src/`.

## Inventory

| part | state | operations | what makes it hard |
| --- | --- | --- | --- |
| `kafgres_produce()` (`produce_sql.rs`) | batches in the log, marker rows, reservations, producer-id generation | append, marker INSERT, pre-commit sync, commit and abort callbacks, subtransaction callbacks | the log never rolls back and the marker does; commit is visible before its callback runs; savepoints; errors between any two steps |
| pending ring (`storage/segment/pending.rs`) | a sorted ring with a cached minimum | `reserve`, `release` | wrap-around, duplicates, shifting from either side, stale contents |
| segment engine (`storage/segment.rs`) | slot table (16 shards of 256 slots), segment files, indexes | `append`, `append_pending`, `append_replicated`, `read`, `truncate_to`, `reclaim`, `compact`, `recover`, `drop_partition` | slots probed linearly and freed; a crash keeps any part of the unsynced tail; a read is several critical sections |
| marker lookup, LSO (`storage/pmeta.rs`) | `kafgres_markers`, `kafgres_txn_partitions` | `committed_markers`, `kafka_txn_lso`, `epoch_end_offset` | a cap per fetch; snapshots later than the lock |
| broker start (`server/mod.rs`) | `EPOCHS_RAISED`, progress of `run` | `raise_leader_epochs`, `reconcile_markers` | sessions run while the broker starts; a restore leaves log and tables apart |
| event loop (`server/`) | connections, parked requests, unsynced partitions | accept, read, serve, park, complete, sync, flush | responses in order; acknowledgement only after sync; deadlines racing completion |
| leader epochs (`server/mod.rs`, `storage/pmeta.rs`) | slot epoch, table epoch, history | raise at start, seed at append, `OffsetForLeaderEpoch` | the slot is set before its transaction commits; crash in between |
| idempotent producers (`producer.rs`, `handlers/produce.rs`) | windows of five batches per producer and partition | check, record, release, sweep | retries after a lost answer; sequence wrap at 2^31 |
| transactions (`handlers/txn.rs`, `handlers/init_producer_id.rs`) | transaction rows, partitions, staged offsets, epochs | init, add partitions, produce, end, offset commit, expiry | fencing; a retry of a completed end; markers of a transaction that aborts half-way |
| classic groups (`group.rs`, `handlers/join_sync.rs`) | group row, members, generation | join, sync, heartbeat, leave, sweep | rebalance deadlines racing joins; parked answers |
| KIP-848 groups (`handlers/consumer_group.rs`) | target, owned and granted partitions per member, epochs | heartbeat, leave, expiry | a partition moves only after its holder gives it up |
| share groups (`handlers/share_group.rs`) | in-flight records, leases, start offset | acquire, acknowledge, expiry | an acknowledgement racing a lapsed lease; delivery limit |
| offsets (`handlers/offsets.rs`) | committed offsets | commit, fetch, delete | commits of evicted members |
| cleaner, retention, archive (`codec/src/compaction.rs`, `retention.rs`, `archive.rs`) | segments, archived list | compact, swap, reclaim, archive, restore check | a crash inside a swap; deleting what is not archived |
| follower (`replication.rs`) | the follower's log and epochs | reconcile, fetch, apply | truncation while the leader changes |
| CDC (`cdc.rs`, `decoding.rs`) | replication slot, mapping positions | peek, render, append, sync, record, advance | at-least-once across a crash at every step; a stopped mapping holds the slot |
| topics (`meta.rs`, `handlers/topics.rs`) | topic rows, files | create, extend, delete | files are removed before the transaction commits |
| codec (`codec/`, `codec-gen/`) | none | size, encode, decode of every message at every version; frames, headers, negotiation | three generated pieces of code that nothing compares |
| request transactions, quotas, ACL, SASL, TLS, admin handlers | caches, counters | | little shared state |

`PROJECT.json` lists every part with what is modelled of it, and every hazard at
the line where it bites.

## Modules

### PendingRing, Reservations

`PendingRing` is `storage/segment/pending.rs`: `ring`, `head`, `len` and `min` are
the fields of the ring and its region in shared memory, `Reserve` and `Release`
its two operations. `Phys` is the index arithmetic, `BinarySearch` the search of
`release` as a recursive function, `ClosedFromHead` and `ClosedFromTail` the two
ways a gap is closed. A call that returns false changes nothing, so it is a
stuttering step. The ring starts with arbitrary contents because a slot given
back by one partition keeps its entries for the next.

`Reservations` is the promise: a bag of at most `Cap` bases, `reserve` adds one,
`release` takes one away, and the floor is the least. `PendingRing` implements it
(`ImplementsReservations`). Its steps do not say which base a call was given, so
`EachCallAtItsBase` says in addition that it is that base's count that changes.

### SqlProduce

One partition of the segment engine with everything that touches it while SQL
sessions produce. The correspondence:

| model | code |
| --- | --- |
| `log`, `synced` | the segment files and what an fsync covers; a batch is one record, as `kafgres_produce` builds it |
| `pending` | the slot's ring, here the set of its bases (each append has its own offset) |
| `markers`, `status` | rows of `kafgres_markers` and what PostgreSQL knows of each transaction; a row is visible once its transaction committed |
| `subs`, `nextSub` | PostgreSQL's stack of subtransactions and its counter |
| `generation`, `maxSubid`, `reserved`, `owed` | `Producing` and the owed syncs of the backend |
| `Produce`, `ProduceFails`, `InsertMarker`, `MarkerFails` | `kafgres_produce` cut where another process can run: the append and its reservation are one critical section, the INSERT is another step, and an ERROR can strike before or after |
| `RollbackSub`, `RolledBack` | the AbortSub callback and `rolled_back` |
| `PreCommit`, `Commit`, `Abort`, `Callback` | `sync_owed` at pre-commit, PostgreSQL making the outcome visible, and `release_pending` in the callback that follows |
| `FetchHighWatermark`, `FetchLso`, `FetchMarkers`, `FetchScan` | `SegmentStore::read` for read_committed, cut at each separate read |
| `Delivered` | the aborted list of the response applied by the client: a batch is dropped when its producer id is listed from an offset at or below it |
| `WireAppend`, `SyncBeforeAck` | a Kafka client's batch and the sync its acknowledgement waits for |
| `Crash`, `WorkerRestart` | a server crash (shared memory lost, any part of the unsynced tail lost, running transactions gone) and a restart of the broker's worker alone |
| `RaiseEpochs`, `ReconcileRead`, `ReconcileDelete`, `ReconcileFails` | the order of `run`: sessions may append from `RaiseEpochs` on; reconciliation reads the log end in one statement and deletes in another |

Three constants are assumptions on the environment, not on the code.
`QuietStart`: no session produces between the epochs being raised and the broker
serving. `RestoreMayLoseSynced`: a restart may be from a backup whose log stops
short of committed markers. `ReconcileMayFail`: reconciliation may fail with
something else than a lock timeout. The runs say under which of them the
guarantees hold; what happens without them is under "Known disagreements".

### SlotTable

One lock shard: the slots its partitions claim by linear probing, while topics are
written, read and deleted.

| model | code |
| --- | --- |
| `part`, `next`, `pending` | a slot's topic and partition, `next_offset`, and ring |
| `files` | how many records the partition's segment files hold, which is what `recover` finds |
| `SlotFor`, `Snapshot`, `IsLowest` | the ways the code looks a slot up: `slot_for` and the two `_if_tracked` reads stop at the partition's slot or the first free one; `slot_snapshot` passes over free ones; `release_pending` goes in array order |
| `Append`, `AppendPending`, `Touch` | operations under `with_slot`, which claims a slot for a partition without one |
| `ReleasePending` | the release at the end of a transaction |
| `RemoveFiles`, `FreeSlots`, `EndDelete` | `delete_topic`: directory removed, slots freed, and only then the transaction's outcome |
| `Restart` | a server restart; the loss of an unsynced tail is in `SqlProduce`, not here |

`Kept` is the choice a process has while a topic is being deleted: `with_active`
may still have the removed segment open, so a write reaches the new files or
nothing. The properties speak of topics that are not being deleted.
`Droppable`, the partitions whose topic may be deleted, is an assumption on the
environment: nothing else frees a slot.

### Schema, Codec, Messages*, Apis, WireExchange

`codec-gen` turns each message schema into a Rust struct with `size`, `encode` and
`decode`. `Schema` has the field table of a struct (type, versions, nullability,
tag, default) and the primitives of the wire in bytes: numbers, varints, legacy and
compact lengths. `Codec` has the three generated functions as three operators over
a table, each written from the part of `emit.rs` that emits it. `MessagesData`,
`MessagesGroups`, `MessagesShare`, `MessagesTxn` and `MessagesAdmin` are the tables
of the generated messages, `Apis` the two version tables and the dispatcher's keys.
A text is an identity and a length, so that its bytes count and its letters do not.

`WireExchange` is one exchange: a client encodes a request with its header in a
frame, the bytes arrive, `take_frame`, `negotiate` and `decode` run, a handler's
answer is encoded under the response header and the client reads it. Values have
six shapes: defaults, everything present, empty, null, texts long enough for a
two-byte varint, and texts over the limits.

### WireTxn

Idempotent and transactional producers over the wire. `s` is what the broker keeps:
the log of each partition, the windows of retained batches, the rows of producer
ids, of transactions and of their partitions, staged and committed offsets. Each
request of the protocol is one operator (`HandleInit`, `HandleAddPartitions`,
`HandleProduce`, `handle_end_txn`, `HandleTxnOffsetCommit`, `WriteTxnMarkers`), run in
one step because the broker is one process and a handler one PostgreSQL
transaction; `Lose` is the step in which that transaction is lost after the append,
which stays, or after the marker of any one partition (`CutShort`), in the producer's
request, its successor's, the expiry sweep or an operator's request. `Expire` and `Sweep`
are the two sweeps. `Restart` is a crash that takes the unsynced tail of an idempotent
producer's log: recovery forgets the windows' rows past it (`forget_past`), and a retry may
then be stale. Clients are external: they resend until answered, and at transaction
version 2 a request may be served long after its client went on.

### EventLoop

One pass of `run` after another: `retry_parked`, `poll_connections` (one frame a
step), `complete_parked` (one entry a step), `sync_before_ack` and the flush. `v` is
`struct Server`. Between the steps clients send and hang up, a session takes and
releases a table lock, deadlines pass, syncs and handlers fail. What a handler does
is reduced to what the loop sees: an append and its answer held for the sync, a
fetch that is satisfied or parks, a request that must be dispatched again because a
lock is held. A produce names its batch, so that a second sending of it, on the same
connection or on another, is a duplicate: it appends nothing and is answered at once.

### GroupIds, ClassicGroup, ConsumerGroup, ShareGroup, Groups

The three group protocols, each with its tables and its clients, and `Groups`, which
puts them on one group id with the committed offsets: `validate_commit` decides by
the tables of all three, and `OffsetDelete` and `DeleteGroups` cut across them.
`offsets.kept` is `kafgres_offsets`, `offsets.staged` the rows that a transaction commits or
drops at its end (`txn_offset_commit`, `EndTxn`), and `offsets.read` the position each member
got from `OffsetFetch`, which at `RequireStable` refuses a partition with a staged row.
`ClassicGroup` has the parked joins and syncs and the pass that completes them,
`ConsumerGroup` the two-step hand-over of a partition, `ShareGroup` the locks,
attempts and start offset of one partition.

### LeaderEpochs, Replication, Cdc, Cleaner, Workers

`LeaderEpochs` is one partition on up to two nodes: log, how much of it is on disk,
epoch in the row and in the slot, the history. A start raises the epoch in a
transaction whose slot write comes first; an append reads the row and then takes the
slot's lock. `Replication` adds the WAL, a standby's follower (`RoundStart`,
`Reconcile`, `FetchFrom`, `Apply`), promotion, pg_upgrade, power cuts and a consumer
that validates its position with OffsetForLeaderEpoch. `Cdc` writes the same log: the
worker's drain with its lanes, its chunk budget, retries by transaction, positions
and the slot, and snapshots. `Cleaner` is compaction, retention and the archive of
one partition, with a sweeping broker and a sweeping session that each have a plan.
`Workers` composes them: a power cut takes the memory of all of a node's workers.

## Runs

A run whose constants include `Scenarios` starts in any one of a set of situations.
Each names what may happen and how often; together they keep every interaction of
interest within TLC's reach where one large budget for everything would not be.

| run | checks | result |
| --- | --- | --- |
| `pending_ring` | the floor, the binary search, refinement of `Reservations` | holds |
| `sql_produce` | a consumer is given every committed record and no other; the LSO; reservations; durability | holds with a quiet start |
| `sql_savepoints` | `ReadsCommitted`: a consumer's side of it, for one session that sets, releases and rolls back savepoints, and after a restore that lost synced records | holds with a quiet start and a reconciliation that succeeds |
| `slot_table` | the position of a partition next to deleted ones (`PositionIsCurrent`); the LSO and the reservations while no slot was freed (`KeptLso`, `KeptReleased`) | holds |
| `slot_hole_lso` | the LSO of a partition displaced by one that is deleted | `LsoHoldsReserved` violated |
| `wire_exchange` | requests and answers of every API advertised or dispatched, at every version: what one end encodes the other decodes, sizes are exact, what is advertised is served | holds, but for Produce 0 to 2, which are advertised for old clients and refused |
| `wire_txn` | exactly once; all of a transaction or nothing, its offsets included; no zombie write; every open transaction ends | holds |
| `event_loop` | requests run and are answered in order and once; what is acknowledged is durable; no lost wake-up and no overfull parking; every request ends | holds |
| `event_loop_resend` | a produce sent again on a second connection while the first copy waits for its sync | `EveryAckIsDurable` violated |
| `groups` | one owner of a partition (`OneOwner`), handed over only when given up (`HandedOver`); a shared record decided once and within its attempts; an offset committed, also in a transaction, only by the member a partition belongs to or after one that no longer does (`CommitsByOwner`); the end of rebalances, of hand-overs and of the queue | holds |
| `workers` | epochs name one log; followers and consumers agree with it; CDC loses nothing, orders summaries, does not repeat itself and ends; compaction keeps the table a reader sees; retention waits for the archive | holds with orderly promotion |
| `replication_two_writers` | a promotion in the middle of a follower's round | `NeverTwoWriters` violated |

**The counterexamples.** *Hole*: two partitions hash to the same slot and the first
to arrive is deleted. The second is now behind a hole: the next `last_stable_offset`
claims the hole with an empty ring, and the reservation in the old slot no longer
holds the LSO back. *Two writers*: the follower has the answer to a Fetch in hand
when its node is promoted; the broker raises the epochs and may append, and only
then does the follower append what it fetched. It looks for a promotion before a
round and after each apply, and not in between. *Resend*: a client's first connection is
slow, or the sync of its batch fails; the client sends the batch again on a second one. The
window has it, nothing is appended, and so nothing holds the second answer back.
`AckedIsDurable`, which `event_loop` checks, is the part that holds: what the connection
itself appended is on disk when its answer leaves, a duplicate on the same connection
included.

**What an assumption stands for.** `workers` promotes in order (`InStep`): the
follower is between rounds, has replayed every epoch and has reconciled under the
last of them. Without it the follower writes beside the new broker (the violated
run), and a log that is ahead of the replayed epoch rows gives records an epoch
the history does not know, so that a consumer is not told to truncate.
`FollowerAgrees`, a part of `LogsAgree`, is stated for a follower that was not
misled: reconciliation asks for the epoch of the replayed row (`replication.rs:176`),
and when the last copied record has another one, the answer is about the wrong epoch. `EPOCHS_PER_TIMELINE` is 8, above the
number of starts in a behaviour: past it a timeline's epochs are used up and the code
keeps the last. pg_upgrade is taken from a cluster whose timeline was above 1; from
timeline 1 to 1 nothing in the rows tells the two clusters apart.

**Bounds.** The ring has four entries over four bases: enough for a wrapped
ring, equal bases, and both ways of closing a gap at each position. `sql_produce`
has two sessions (so one can run between any two steps of the other), three
transactions, three records, one restart and one marker per fetch, so that the
cap is reached with two. `sql_savepoints` trades sessions for savepoints: one
session has two transactions, three records and two subtransactions, so a savepoint can
have records before, inside and after it, follow another or be inside another, and a
restart may be from a backup. Sessions are symmetric. The shard
has three slots and three partitions, two of which hash to slot 1 and one to slot
2: probes are displaced, wrap around, and meet a full shard. `slot_table` has one
deletable topic and two transactions, so that a ring holds two bases and the older is
released first or last, and three records.
`wire_exchange` takes every key and every version from below the first to above the
last. `wire_txn` retains two batches and wraps sequences after 3, so a window is
overrun and a sequence comes back; the epoch ceiling is 2, so a producer id is used
up; its thirteen situations have up to six batches, three faults, two instances and two
markers of an operator. `event_loop` parks two requests and has clients that pipeline three. `groups` has
up to three members, one to three partitions and two records, with one or two faults
(lost answers, crashes, silent members), commits, transactions or deletions per situation. `workers` has up to three
appends with two power cuts, two or three captured transactions with a crash, a
failing step or a redefinition at any point of the drain, and up to five records in
three segments with two sweeps, a key map of two keys and a retention of two ticks.

**Fairness.** *wire_txn*: the expiry sweep runs for every producer id
(`maintenance` calls it on a timer); nothing makes a client act. *event_loop*: the
loop goes on (`Pass`), a deadline passes and a retry comes due; strong fairness for the
last two, since they are enabled only between passes, and time does not wait for that.
*groups*: the broker's sweeps, the timers, and clients that are present and follow the
protocol; a silent member lapses. Joins, leaves, crashes and commits are not fair.
*workers*: the loops of the broker's start, of the follower and of the CDC worker, which
PostgreSQL restarts when they exit, and WAL replay. No fault, client, user or sweep is
forced. Deadlock is checked where the system cannot stop (`pending_ring`, the SQL, slot and
codec runs); the others end when their budgets are used up.

## Proofs

`PendingRingProofs` proves for every capacity and every set of bases that `IInv`
is invariant (`RingInvariant`), that the cached minimum is the least entry
(`FloorCorrect`), that the ring implements the bag (`RingRefinesReservations`),
and that each call changes it at its own base (`CallsCorrect`). The strengthening
says that the entries in use ascend from `head`, that `head` is inside the ring,
and that `min` is the entry at `head`; without the order, neither the search nor the minimum after a release
can be justified. The refinement counts, for each base, the entries that hold it
before and after a shift.

`SqlProduceProofs`, on the lemmas of `SqlProduceLemmas`, proves for any number of
sessions, transactions, subtransactions, records and restarts, quiet start or not, that `IInv` is
invariant (`SqlProduceInvariant`) and from it that the LSO is at or below every
record of a running transaction (`LsoCorrect`), that reservations never leak
(`ReservationsCorrect`), and that a committed marker points at a synced record
when no restore loses synced records (`DurabilityCorrect`). `IInv` adds to the
types: where a session is determines its transaction's status (`SessionInv`);
a running transaction belongs to exactly one session (`XidInv`), needed because
`LsoHoldsInFlight` speaks of records and a release of sessions; a session's
reservation is at or below all of its transaction's records (`ReservationInv`);
a marker's transaction owes an fsync until pre-commit (`DurableInv`). The proof
has one lemma per conjunct and, in each, one step per group of actions that can
disturb it.

`SlotTableProofs` proves for any shard size, hash and set of partitions that the
first slot of a partition in its probe has the position its files end at,
whatever is deleted (`PositionCorrect`): a second slot is only ever claimed before
the first in the probe, from the files, and from then on is the one appends use.
While no topic of the shard is deleted, and again after a restart undid a deletion
(`AllLive`), it proves that the LSO is at or below every reserved record
(`KeptLsoCorrect`) and that a reservation in a ring belongs to a transaction yet to
release it (`KeptReleasedCorrect`). `KeptInv` says
why: each partition has one slot, no free slot comes before it, and its ring holds
exactly the bases its transactions hold; that no two hold the same base needs
that each is below the slot's position.

`GroupsProofs` proves two properties of the composition of the three group protocols,
for any members, partitions, records, limits and situations, on lemmas that take the
protocols one by one. `ShareGroupProofs` has those of `ShareInv`, the invariant behind
`SharedOnce` (`ShareInvariant`, `SharedOnceCorrect`): what the rows of a share group say
agrees with what became of each record. A settled row has no holder and a finished record
(`SettledAgrees`), which is what lets the start offset pass; a record still to be had was
accepted by nobody and its row counts every time it was handed out (`CountsAgree`), which
is what bounds the attempts. `ConsumerGroupProofs` has those of `ConsumerInv`, behind
`HandedOver` (`ConsumerInvariant`, `HandedOverCorrect`): targets are pairwise apart, so are
grants, and while clients are punctual each one's row covers what it holds and was told
to hold. `GroupsProofs` adds that a step of another protocol, a commit or the deletion of
the group id leaves the rows and the clients of each alone.

Assumptions: those on the constants (`CapAssumption`, `BasesAssumption`, the
`ConstantsAssumption` of `SqlProduce` and of `SlotTable`, and of the groups
`ScenarioAssumption`, `MemberAssumption` and `ShareAssumption`).

Model-checked only: `RolledBackIsHidden` and `CommittedIsDelivered`, which relate
a fetch in progress to the log and would need an invariant on every intermediate
fetch state; and `SearchIsLowerBound`, since what a recursive function computes
is out of the prover's reach.

The proofs cover the modules above; those of the wire, the loop, the classic groups, the
commits and the workers are model-checked only. `Schema` and `Codec` are recursive, so
nothing can be proved of them; liveness is out of the prover's reach; candidates for
further proofs are `next_leader_epoch` and `advance_target`, `ExactlyOnce` and `InOrder`.

## Known disagreements

Behaviours met while modelling, in which the code does not do what a doc or a comment
says, or where no property can be claimed. Three are runs of their own (above). The others
can be seen by changing a constant as said.

- Reconciliation reads the log end and deletes markers in two statements while sessions
  may append (`produce_sql.rs:381`): with `QuietStart = FALSE`, `CommittedIsDelivered`
  fails, against "visible to `read_committed` consumers exactly when the transaction
  commits" (docs/producing.md:27).
- Appends wait for the epochs and not for reconciliation (`server/mod.rs:350`): after a
  restore, a batch can land where a stale marker vouches for it. With `QuietStart = FALSE`
  and `RestoreMayLoseSynced`, `RolledBackIsHidden` fails.
- A reconciliation that fails other than on a lock counts as done (`server/mod.rs:1323`):
  with `ReconcileMayFail` and `RestoreMayLoseSynced`, `RolledBackIsHidden` fails, against
  the comment at `server/mod.rs:408`.
- With a hole in a probe chain, `ReservationsReleased` fails as well
  (`storage/segment.rs:2778`; use it in `MCSlotHoleLso.cfg`), and the `_if_tracked` reads
  miss a partition that has a slot behind the hole (`:2363`, against the comment at `:1778`).
- Between `drop_partition` and the commit of a deletion a call may claim a slot that
  nothing frees (`meta.rs:378`).
- `OffsetDelete` and `DeleteGroups` count classic members only (`group.rs:433`), while
  docs/conformance.md:198 says that `OffsetDelete` refuses while the group has members.
  JoinGroup does not look for a KIP-848 or share group of the same id.
- A share partition whose first record is never finished stops at `MAX_INFLIGHT_ROWS`
  (`handlers/share_group.rs:187`); `SharesDrain` is claimed below it.
- `kafgres_share_acquire()` reads the start offset in a statement of its own, so
  the parts `AcceptedByOne` and `AttemptsBounded` of `SharedOnce` leave the situation with SQL out.
- A KIP-848 member that never left epoch 0 is not told that it was removed;
  `ExclusiveHold`, a part of `OneOwner`, leaves such members out.
- The append of a produce stays when the PostgreSQL transaction that recorded its sequence
  is lost, and the retry appends again: `ExactlyOnce` names these records (`torn`). At
  either transaction version, an abort marker whose transaction was lost ends the range a
  consumer drops before the retry ends it again; records that arrive in between, of the same
  transaction whose producer is not fenced, are delivered even if it aborts in the end, and
  are left out of `Atomic` (`AfterStray`).
- An operator may write a commit marker to one partition of a transaction and an abort marker
  to another: each is obeyed where it is written, although the comment at `handlers/txn.rs:1116`
  says that "the transaction ends one way, not half each". `Atomic` leaves such a
  transaction out (`Whole`).
- After a crash, a row of a producer's window that was left without an offset survives, whether
  or not its batch did: a retry may be answered as a duplicate of unknown offset although the
  batch is gone. `ExactlyOnce` asks nothing of such an answer after a crash.
- A classic join that is parked while the group's last member leaves and the group is deleted
  stays parked past its deadline, until somebody joins that group id again
  (`server/mod.rs:1778`). `GroupSettles` leaves it out (`Orphan`).
- A deleted classic group that is joined again counts its generations from the start, so
  that two clients of different lives of it may have the same one. After a deletion,
  `ExclusiveOwner`, a part of `OneOwner`, speaks of the clients that are members.
- A follower whose leader reclaimed, or compacted away, the batch it needs next never gets
  past it: `fetch_from` logs the error, or `apply` refuses the gap, in every round.
  `FollowerCatchesUp` leaves a standby out while it is `Overtaken`.
- A snapshot of a stalling mapping that comes to a row it cannot render keeps every mapping
  waiting, since the worker passes over the drain while a snapshot is outstanding; docs/producing.md:249 says
  "A stopped mapping holds the slot only for itself." `CdcDrains` leaves that state out
  (`SnapshotStuck`).
- The last allowed SASL failure flushes the connection at once (`server/mod.rs:882`), past the
  sync that earlier produce answers wait for. No script of `event_loop` has an
  authenticated client fail SASL behind a produce, so `AckedIsDurable` does not speak of it.
- A mapping redefined in the middle of a drain renders anew what the slot still holds.
  When no lane holds the slot, the drain advances it all the same, and nothing is left
  to replay (`cdc.rs:1106`).
- A crash after a segment swap and before the sweep commits leaves an archive row for
  the bytes before compaction (`storage/segment.rs:1118`). Its copy has all the records.

## Not modelled

Quotas (floating-point rates over time), authorization and authentication
(rule matching and cryptography), the layout of record batches with their CRC and
compression, the decoding plugin, the schema and settings, and handlers that run a
single statement or answer a constant. Partition choice by `murmur2` happens before any
state changes. The table engine's appends commit with their transaction, so the
problem `SqlProduce` is about does not arise there. Of modelled parts: the offset and
time indexes and seek hints of the segment engine; fetch sessions and byte budgets;
produce requests over several partitions; a crash of the machine while transactions are open (the
ranges of aborted transactions are not cut back with the log), a lost stamp of a transactional
batch, and the epoch a client raises by itself after `UNKNOWN_PRODUCER_ID`; static members of classic groups;
`kafgres_cdc_drain()` in a session, mappings over several partitions, and the removal of
a mapping; `min.compaction.lag.ms`, batches of several records and batches that do not
decode in the cleaner; the archive command and the restore script.
