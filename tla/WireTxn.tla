------------------------------- MODULE WireTxn ------------------------------
(***************************************************************************)
(* Produce over the wire: producer ids and epochs, the window of retained  *)
(* batches that makes a resend harmless, and the transaction coordinator.  *)
(*                                                                         *)
(* Several instances of one application share a transactional id (or, in   *)
(* mode "idem", run without one).  A request is served in one step: the    *)
(* broker is one process and a handler is one Postgres transaction.  What  *)
(* the handler appends to the segment file is not undone when that         *)
(* transaction is lost, so a handler may also stop halfway.                *)
(*                                                                         *)
(* A client resends until it has an answer.  At transaction version 2 a    *)
(* request may also be served long after its client went on: the broker    *)
(* serves what a closed connection left in its buffer (drain_closed).      *)
(* Before version 2 the protocol has no defence against that (KIP-890), so *)
(* there only requests that are still waited for are served.               *)
(*                                                                         *)
(* Offsets count batches from 1.                                           *)
(***************************************************************************)
EXTENDS Integers, Sequences, FiniteSets, TLC

CONSTANTS
    Instances,        \* 1 .. n, the application's instances in the order they start
    Partitions,
    RETAINED_BATCHES, \* depth of the window
    EPOCH_CEILING,    \* i16::MAX - 1
    MaxSequence,      \* i32::MAX, after which sequences start again at 0
    BatchLens,        \* records in a batch
    MaxPid,
    MaxInitEpoch,     \* highest epoch at which InitProducerId is still called
    Scenarios         \* how much of everything happens; one is chosen.  See ScenarioType

\* A sequence comes back only after every batch that may be in flight or in the window.
ASSUME SequenceAssumption == MaxSequence + 1 >= 2 * RETAINED_BATCHES

\* mode: "idem", or the transaction version.  txns: transactions of each instance that starts.
\* batches: batches sent.  offsets: transactions that commit an offset.  forced: markers an
\* operator writes.  faults: answers lost, Postgres transactions lost, appends and commits refused,
\* idle producers dropped.  crashes: of the machine; see Restart.
ScenarioType == [mode : {"idem", "tv1", "tv2"}, txns : Seq(Nat), partitions : SUBSET Partitions,
                 batches : Nat, offsets : Nat, forced : Nat, faults : Nat, crashes : Nat]
ASSUME ScenarioAssumption == Scenarios \subseteq ScenarioType

Pids == 1 .. MaxPid
NoPid == 0
\* first_offset of a partition that is not in the transaction / has no record yet.
NotListed == -1
Unstamped == 0
NoOffset == <<0, 0>>

VARIABLES
    scenario,
    s,        \* the broker: tables and the log, see Init
    client,   \* instance -> what the client library holds
    sent,     \* every request put on a connection
    acked,    \* what a client was told is stored: [p, val, base], p = 0 for an offset
    told,     \* ends a client was told of: [i, n, committed]
    forced,   \* markers an operator wrote, see WriteTxnMarkers
    torn,     \* what was appended by Postgres transactions that were lost: <<p, offset>>
    owner,    \* the instance that initialised last
    faults,   \* how many happened
    crashes

vars == <<scenario, s, client, sent, acked, told, forced, torn, owner, faults, crashes>>

mode == scenario.mode
Transactional == mode # "idem"
Rotating == mode = "tv2"

NoPair == [id |-> NoPid, epoch |-> 0, committed |-> FALSE]
NoRow == [epoch |-> -1, mapped |-> FALSE, retired |-> NoPair]
NoTxn == [state |-> "none", epoch |-> 0, forced |-> "no", offsets |-> FALSE]
NoParts == [p \in Partitions |-> NotListed]
NoWindow == [p \in Partitions |-> <<>>]

Outcome(committed) == IF committed THEN "committed" ELSE "aborted"

-----------------------------------------------------------------------------
(* producer.rs: the window. *)

increment_sequence(seq, n) == IF seq > MaxSequence - n THEN n - (MaxSequence - seq) - 1 ELSE seq + n
in_sequence(last, next) == next = last + 1 \/ (next = 0 /\ last = MaxSequence)

Newest(w) == w[Len(w)]
Matching(w, b) == {i \in DOMAIN w : /\ w[i].epoch = b.epoch
                                    /\ w[i].first = b.first
                                    /\ w[i].last = b.last}

\* start: the offset at which the partition's leader epoch began.
check(w, b, start) ==
    CASE w = <<>> -> "append"
      [] w # <<>> /\ b.epoch < Newest(w).epoch -> "fenced"
      [] w # <<>> /\ b.epoch > Newest(w).epoch -> IF b.first = 0 THEN "append" ELSE "out_of_order"
      [] w # <<>> /\ b.epoch = Newest(w).epoch ->
           CASE Matching(w, b) # {} -> "duplicate"
             [] Matching(w, b) = {} /\ in_sequence(Newest(w).last, b.first) -> "append"
             [] OTHER -> IF Newest(w).base # Unstamped /\ Newest(w).base < start THEN "stale"
                         ELSE "out_of_order"

\* The newest RETAINED_BATCHES rows in insertion order, one per first sequence.
record(w, row) ==
    LET all == Append(SelectSeq(w, LAMBDA r : r.first # row.first), row)
    IN SubSeq(all, 1 + IF Len(all) > RETAINED_BATCHES THEN Len(all) - RETAINED_BATCHES ELSE 0, Len(all))

\* Mutant: every row of the partition goes, not only the one that was reserved.
release_All(w, first) == <<>>

release(w, first) == SelectSeq(w, LAMBDA r : ~(r.first = first /\ r.base = Unstamped))

\* After a crash: what the recovered log does not hold.
forget_past(w, end) == SelectSeq(w, LAMBDA r : r.base <= end)

-----------------------------------------------------------------------------
(* handlers/txn.rs *)

\* judge: the pair must be mapped to the transactional id, at exactly the current epoch.
Verdict(t, id, epoch) ==
    CASE t.row[id].epoch = -1 \/ ~t.row[id].mapped -> "InvalidProducerIdMapping"
      [] t.row[id].epoch # -1 /\ t.row[id].mapped /\ t.row[id].epoch # epoch -> "ProducerFenced"
      [] OTHER -> "ok"

Ongoing(t, id) == t.txn[id].state = "ongoing"
Added(t, id, epoch, p) == Ongoing(t, id) /\ t.txn[id].epoch = epoch /\ t.part[id][p] # NotListed

begin_or_continue(t, id, epoch) ==
    IF Ongoing(t, id) THEN [t EXCEPT !.txn[id].epoch = epoch]
    ELSE [t EXCEPT !.part[id] = NoParts, !.staged[id] = NoOffset,
                   !.txn[id] = [NoTxn EXCEPT !.state = "ongoing", !.epoch = epoch]]

Entry(kind, id, epoch, val) == [kind |-> kind, id |-> id, epoch |-> epoch, val |-> val]
NoVal == <<0, 0, 0>>

\* Mutant: the range of an abort is not recorded for a Fetch to find.
append_markers_NoRange(t, id, epoch, ps, committed) ==
    [t EXCEPT !.log = [p \in Partitions |->
                         IF p \in ps THEN Append(@[p], Entry(Outcome(committed), id, epoch, NoVal))
                         ELSE @[p]]]

\* One control batch in each partition of ps; an abort also records the range it covers.
append_markers(t, id, epoch, ps, committed) ==
    [t EXCEPT
       !.log = [p \in Partitions |->
                  IF p \in ps THEN Append(@[p], Entry(Outcome(committed), id, epoch, NoVal)) ELSE @[p]],
       !.aborted = [p \in Partitions |->
                      IF p \in ps /\ ~committed /\ t.part[id][p] > Unstamped
                      THEN @[p] \cup {[id |-> id, first |-> t.part[id][p], last |-> Len(t.log[p]) + 1]}
                      ELSE @[p]]]

Listed(t, id) == {p \in Partitions : t.part[id][p] # NotListed}

\* Mutant: the epoch stays, so a producer that should be fenced goes on.
fence_Nothing(t, id) == t

fence(t, id) == IF t.row[id].epoch = -1 THEN t
                ELSE [t EXCEPT !.row[id].epoch = @ + 1, !.row[id].retired = NoPair]

\* The rows of a transaction that ended, its staged offsets visible if it committed.
Closed(t, id, committed) ==
    [t EXCEPT !.offset = IF committed /\ t.staged[id] # NoOffset THEN t.staged[id] ELSE @,
              !.staged[id] = NoOffset, !.part[id] = NoParts,
              !.txn[id].state = Outcome(committed), !.txn[id].offsets = FALSE]

Decided(t, id, committed) ==
    IF t.txn[id].forced = "no" THEN committed ELSE t.txn[id].forced = "committed"

\* [res, t]: what it did, and the state after.
finish_transaction(t, id, epoch, committed) ==
    LET outcome == Decided(t, id, committed)
        ended == Closed(append_markers(t, id, epoch, Listed(t, id), outcome), id, outcome)
    IN CASE t.txn[id].state = "none" \/ t.row[id].epoch > epoch -> [res |-> "NotOurs", t |-> t]
         [] t.row[id].epoch <= epoch /\ t.txn[id].state \in {"empty", "committed", "aborted"} ->
              [res |-> t.txn[id].state, t |-> t]
         [] OTHER -> [res |-> IF outcome = committed THEN "Ended" ELSE "Overridden",
                      t |-> IF outcome = committed THEN ended ELSE fence(ended, id)]

\* A fresh producer id; nextval is not rolled back, but ids are never compared.
Fresh(t) == [t EXCEPT !.next = @ + 1]

bump_epoch_for_next_txn(t, id, committed) ==
    LET row == t.row[id]
        pair == [id |-> id, epoch |-> row.epoch, committed |-> committed]
        new == t.next
    IN IF row.epoch < EPOCH_CEILING
       THEN [t |-> [t EXCEPT !.row[id].epoch = @ + 1, !.row[id].retired = pair],
             id |-> id, epoch |-> row.epoch + 1]
       ELSE [t |-> [Fresh(t) EXCEPT !.row[id] = NoRow, !.row[new] = [row EXCEPT !.epoch = 0, !.retired = pair],
                                    !.txn[id] = NoTxn, !.txn[new] = [t.txn[id] EXCEPT !.epoch = 0],
                                    !.win[id] = NoWindow],
             id |-> new, epoch |-> 0]

Answer(t, code, id, epoch) == [t |-> t, code |-> code, id |-> id, epoch |-> epoch, base |-> 0]
Said(t, m, code) == Answer(t, code, m.id, m.epoch)

\* completed_retry: the pair was retired by an end that nothing has followed.
RetiredBy(t, m) == {id \in Pids : /\ t.row[id].epoch # -1
                                  /\ t.row[id].retired.id = m.id
                                  /\ t.row[id].retired.epoch = m.epoch
                                  /\ ~Ongoing(t, id)}

handle_end_txn(t, m) ==
    LET v == Verdict(t, m.id, m.epoch)
        fin == finish_transaction(t, m.id, m.epoch, m.committed)
        rotated(u) == LET b == bump_epoch_for_next_txn(u, m.id, m.committed)
                      IN Answer(b.t, "ok", b.id, b.epoch)
        retired == RetiredBy(t, m)
        by == CHOOSE id \in retired : TRUE
    IN CASE Rotating /\ retired # {} ->
              IF t.row[by].retired.committed = m.committed
              THEN Answer(t, "ok", by, t.row[by].epoch) ELSE Said(t, m, "InvalidTxnState")
         [] ~(Rotating /\ retired # {}) /\ v # "ok" -> Said(t, m, v)
         [] OTHER ->
              CASE fin.res \in {"NotOurs", "Overridden"} -> Said(fin.t, m, "InvalidProducerEpoch")
                [] fin.res = "Ended" -> IF Rotating THEN rotated(fin.t) ELSE Said(fin.t, m, "ok")
                [] ~Rotating /\ fin.res \in {"empty", "committed", "aborted"} ->
                     Said(t, m, IF fin.res = Outcome(m.committed) THEN "ok" ELSE "InvalidTxnState")
                [] OTHER -> IF m.committed THEN Said(t, m, "InvalidTxnState")
                            ELSE rotated([t EXCEPT !.txn[m.id].state = "aborted",
                                                   !.txn[m.id].offsets = FALSE])

\* Every open transaction of the transactional id, in the order of the producer ids.
AbandonedEpoch(t, id) == IF t.row[id].epoch = -1 THEN t.txn[id].epoch ELSE t.row[id].epoch
abort_abandoned(t) ==
    LET upto[k \in 0 .. MaxPid] ==
          CASE k = 0 -> t
            [] k > 0 /\ ~Ongoing(upto[k - 1], k) -> upto[k - 1]
            [] OTHER -> LET u == upto[k - 1]
                        IN finish_transaction(u, k, AbandonedEpoch(u, k), FALSE).t
    IN upto[MaxPid]

\* producer::init_producer_id
Mapped(t) == {id \in Pids : t.row[id].epoch # -1 /\ t.row[id].mapped}
Allocated(t, mapped) == [Fresh(t) EXCEPT !.row[t.next] = [NoRow EXCEPT !.epoch = 0, !.mapped = mapped]]

\* handlers/init_producer_id.rs
HandleInit(t) ==
    LET u == abort_abandoned(t)
        old == Mapped(u)
        id == IF old = {} THEN u.next ELSE CHOOSE k \in old : TRUE
        w == IF old = {} THEN Allocated(u, TRUE) ELSE fence(u, id)
        epoch == w.row[id].epoch
        gone == {k \in Pids \ {id} : w.txn[k].state \notin {"none", "ongoing"}}
        kept == w.txn[id]
    IN IF ~Transactional THEN Answer(Allocated(t, FALSE), "ok", t.next, 0)
       ELSE Answer([w EXCEPT
              !.part = [k \in Pids |-> IF k \in gone THEN NoParts ELSE @[k]],
              !.staged = [k \in Pids |-> IF k \in gone THEN NoOffset ELSE @[k]],
              !.txn = [k \in Pids |->
                         CASE k \in gone -> NoTxn
                           [] k = id -> IF kept.state = "ongoing" THEN [kept EXCEPT !.epoch = epoch]
                                        ELSE [kept EXCEPT !.epoch = epoch, !.state = "empty", !.forced = "no"]
                           [] OTHER -> @[k]]],
              "ok", id, epoch)

HandleAddPartitions(t, m) ==
    LET v == Verdict(t, m.id, m.epoch)
        u == begin_or_continue(t, m.id, m.epoch)
    IN IF v # "ok" THEN Said(t, m, v)
       ELSE Said([u EXCEPT !.part[m.id][m.p] = IF @ = NotListed THEN Unstamped ELSE @], m, "ok")

HandleAddOffsets(t, m) ==
    LET v == Verdict(t, m.id, m.epoch)
    IN IF v # "ok" THEN Said(t, m, v)
       ELSE Said([begin_or_continue(t, m.id, m.epoch) EXCEPT !.txn[m.id].offsets = TRUE], m, "ok")

\* At version 5 the request begins the transaction itself, even when the group refuses the commit
\* (validate_commit, in Groups); before, AddOffsetsToTxn must have.
HandleTxnOffsetCommit(t, m, refused) ==
    LET v == Verdict(t, m.id, m.epoch)
        begun == [begin_or_continue(t, m.id, m.epoch) EXCEPT !.txn[m.id].offsets = TRUE]
        u == IF Rotating THEN begun ELSE t
    IN CASE v # "ok" -> Said(t, m, v)
         [] v = "ok" /\ ~Rotating
              /\ ~(Ongoing(t, m.id) /\ t.txn[m.id].epoch = m.epoch /\ t.txn[m.id].offsets) ->
              Said(t, m, "InvalidTxnState")
         [] OTHER -> IF refused THEN Said(u, m, "IllegalGeneration")
                     ELSE Said([u EXCEPT !.staged[m.id] = m.val], m, "ok")

-----------------------------------------------------------------------------
(* handlers/produce.rs, one batch. *)

\* verify_held_produce
ProduceVerdict(t, m) ==
    CASE ~Transactional -> "ok"
      [] Transactional /\ Verdict(t, m.id, m.epoch) # "ok" -> Verdict(t, m.id, m.epoch)
      [] OTHER -> IF Rotating \/ Added(t, m.id, m.epoch, m.p) THEN "ok" ELSE "InvalidTxnState"

\* reserve_partition: the window row, and the partition in its transaction, begun if need be.
Reserved(t, m) ==
    LET u == IF Transactional /\ ~Added(t, m.id, m.epoch, m.p)
             THEN begin_or_continue(t, m.id, m.epoch) ELSE t
    IN [u EXCEPT !.win[m.id][m.p] = record(@, [epoch |-> m.epoch, first |-> m.first,
                                               last |-> m.last, base |-> Unstamped]),
                 !.part[m.id][m.p] = IF Transactional /\ @ = NotListed THEN Unstamped ELSE @]

Landed(t, m) == [t EXCEPT !.log[m.p] = Append(@, Entry("data", m.id, m.epoch, m.val))]

\* write_partition: append, then stamp; a refused append releases the reservation.
Written(t, m) ==
    LET base == Len(t.log[m.p]) + 1
    IN [Landed(t, m) EXCEPT
          !.win[m.id][m.p] = [i \in DOMAIN @ |-> IF @[i].first = m.first
                                                 THEN [@[i] EXCEPT !.base = base] ELSE @[i]],
          !.part[m.id][m.p] = IF @ = Unstamped THEN base ELSE @]
Released(t, m) == [t EXCEPT !.win[m.id][m.p] = release(@, m.first)]

\* way: whether the append fails, or the stamp after it, which leaves the row as it was reserved.
HandleProduce(t, m, way) ==
    LET v == ProduceVerdict(t, m)
        w == t.win[m.id][m.p]
        found == check(w, m, t.start[m.p])
        dup == w[CHOOSE i \in Matching(w, m) : TRUE]
        held == Reserved(t, m)
    IN CASE v # "ok" -> Said(t, m, v)
         [] v = "ok" /\ found = "duplicate" ->
              IF dup.base = Unstamped THEN Said(t, m, "DuplicateSequenceNumber")
              ELSE [Said(t, m, "ok") EXCEPT !.base = dup.base]
         [] v = "ok" /\ found = "append" ->
              CASE way = "refused" -> Said(Released(held, m), m, "retry")
                [] way = "unstamped" -> Said(Landed(held, m), m, "retry")
                [] OTHER -> [Said(Written(held, m), m, "ok") EXCEPT !.base = Len(t.log[m.p]) + 1]
         [] OTHER -> Said(t, m, CASE found = "fenced" -> "InvalidProducerEpoch"
                                  [] found = "stale" -> "UnknownProducerId"
                                  [] OTHER -> "retry")

-----------------------------------------------------------------------------
(* The broker's steps without a request of the producer. *)


\* expire_stale_transactions, for one of them: how old it is, is not modelled.
Expired(t, id) ==
    LET fin == finish_transaction(t, id, t.txn[id].epoch, FALSE)
    IN IF fin.res = "Ended" THEN fence(fin.t, id) ELSE fin.t

\* mark_one and finish_partition, at the producer's current epoch.
MarkOne(t, id, p, committed) ==
    LET epoch == t.row[id].epoch
        marked == [append_markers(t, id, epoch, {p}, committed) EXCEPT
                     !.part[id][p] = NotListed,
                     !.txn[id].forced = IF @ = "no" THEN Outcome(committed) ELSE @]
    IN CASE epoch = -1 \/ t.part[id][p] = NotListed -> t
         [] ~(epoch = -1 \/ t.part[id][p] = NotListed) /\ ~(Ongoing(t, id) /\ t.txn[id].epoch <= epoch) -> t
         [] OTHER -> IF Listed(marked, id) # {} THEN marked ELSE fence(Closed(marked, id, committed), id)

\* producer::sweep, for one producer that has been idle long enough.
Swept(t, id) == [t EXCEPT !.row[id] = NoRow, !.win[id] = NoWindow]

-----------------------------------------------------------------------------
(* The client library, as the broker's tests drive it. *)

NoClient == [ph |-> "none", id |-> NoPid, epoch |-> 0, n |-> 1,
             seq |-> [p \in Partitions |-> 0], added |-> {}, offsets |-> FALSE, want |-> {}]

Batches == {m \in sent : m.k = "produce"}
Idle(i) == client[i].ph = "ready" /\ \A m \in client[i].want : m.k = "produce"

Request(k, i) == [k |-> k, i |-> i, n |-> client[i].n, id |-> client[i].id, epoch |-> client[i].epoch]

\* Put m on the connection and wait for its answer.
Ask(m, c) == /\ sent' = sent \cup {m}
             /\ client' = [client EXCEPT ![m.i] = [c EXCEPT !.want = @ \cup {m}]]
             /\ UNCHANGED <<scenario, s, acked, told, forced, torn, owner, faults, crashes>>

\* An instance starts when the one before it has its producer id.
Start(i) == /\ client[i].ph = "none" /\ i \in DOMAIN scenario.txns
            /\ i - 1 \in Instances => client[i - 1].id # NoPid
            /\ Ask(Request("init", i), [client[i] EXCEPT !.ph = "init"])

AddPartition(i, p) == /\ mode = "tv1" /\ Idle(i) /\ p \notin client[i].added
                      /\ Ask(Request("partition", i) @@ [p |-> p], client[i])

AddOffsets(i) == /\ mode = "tv1" /\ Idle(i) /\ ~client[i].offsets
                 /\ Cardinality({m \in sent : m.k = "offsets"}) < scenario.offsets
                 /\ Ask(Request("offsets", i), client[i])

CommitOffset(i) == /\ Transactional /\ Idle(i) /\ (mode = "tv1" => client[i].offsets)
                   /\ Cardinality({m \in sent : m.k = "offset"}) < scenario.offsets
                   /\ Ask(Request("offset", i) @@ [val |-> <<i, client[i].n>>], client[i])

Send(i, p, len) ==
    LET c == client[i]
        first == c.seq[p]
    IN /\ Idle(i) /\ (mode = "tv1" => p \in c.added)
       /\ Cardinality(Batches) < scenario.batches
       \* max.in.flight.requests.per.connection, from the oldest batch without an answer
       /\ Cardinality({m \in Batches : \E w \in c.want : /\ w.p = p /\ m.p = p /\ m.i = i
                                                        /\ w.val[3] <= m.val[3]}) < RETAINED_BATCHES
       /\ Ask(Request("produce", i) @@ [p |-> p, first |-> first, last |-> increment_sequence(first, len - 1),
                                        val |-> <<i, c.n, Cardinality(Batches)>>],
              [c EXCEPT !.seq[p] = increment_sequence(first, len)])

\* A commit waits for every batch; an abort gives up on those without an answer.
End(i, committed) ==
    /\ Transactional /\ Idle(i)
    /\ committed => client[i].want = {}
    /\ Ask(Request("end", i) @@ [committed |-> committed], [client[i] EXCEPT !.ph = "ending", !.want = {}])

\* What the client makes of the answer r to m: a duplicate is stored, and what cannot be tried again
\* ends it.
Stored == {"ok", "DuplicateSequenceNumber"}
Heard(c, m, r) ==
    LET rest == [c EXCEPT !.want = @ \ {m}]
        next == [rest EXCEPT !.n = @ + 1, !.ph = IF c.n < scenario.txns[m.i] THEN "ready" ELSE "done",
                             !.added = {}, !.offsets = FALSE]
    IN CASE r.code \notin Stored \cup {"retry"} -> [c EXCEPT !.ph = "dead", !.want = {}]
         [] r.code = "retry" -> c
         [] r.code = "ok" /\ m.k = "init" -> [rest EXCEPT !.ph = "ready", !.id = r.id, !.epoch = r.epoch]
         [] r.code = "ok" /\ m.k = "partition" -> [rest EXCEPT !.added = @ \cup {m.p}]
         [] r.code = "ok" /\ m.k = "offsets" -> [rest EXCEPT !.offsets = TRUE]
         [] r.code = "ok" /\ m.k = "end" ->
              IF Rotating THEN [next EXCEPT !.id = r.id, !.epoch = r.epoch, !.seq = NoClient.seq] ELSE next
         [] OTHER -> rest

-----------------------------------------------------------------------------
(* Serving. *)

\* How a request goes: as it should, or the log or the group refuses it, or its stamp fails.  In a
\* transaction a failed stamp would leave the partition without its first offset too; a statement
\* that raises an error rolls everything back instead (Lose), so it is left to "idem".
Ways(m) == CASE m.k = "offset" -> {"served", "refused"}
             [] m.k = "produce" -> {"served", "refused"} \cup IF Transactional THEN {} ELSE {"unstamped"}
             [] OTHER -> {"served"}

Handle(m, way) ==
    CASE m.k = "init" -> HandleInit(s)
      [] m.k = "partition" -> HandleAddPartitions(s, m)
      [] m.k = "offsets" -> HandleAddOffsets(s, m)
      [] m.k = "offset" -> HandleTxnOffsetCommit(s, m, way = "refused")
      [] m.k = "produce" -> HandleProduce(s, m, way)
      [] m.k = "end" -> handle_end_txn(s, m)

Arrives(m) == m \in client[m.i].want \/ Rotating
\* Room for the producer ids and epochs a request may allocate.
Room(m) == s.next <= MaxPid /\ (m.k = "init" => \A id \in Mapped(s) : s.row[id].epoch <= MaxInitEpoch)
\* producer_epoch is a smallint: one more than i16::MAX is an ERROR, and nothing is done.
Fits(t) == \A id \in Pids : t.row[id].epoch <= EPOCH_CEILING + 1
Done(t) == IF Fits(t) THEN t ELSE s

\* A request is served, and its answer reaches a client that still waits for it, or is lost.
Serve(m, way, heard) ==
    LET r == Handle(m, way)
        fault == way # "served" \/ (~heard /\ m \in client[m.i].want)
        told1 == [i |-> m.i, n |-> m.n, committed |-> m.committed]
    IN /\ Arrives(m) /\ (m.k \in {"init", "end"} => Room(m))
       /\ heard => m \in client[m.i].want /\ Fits(r.t)
       /\ fault => faults < scenario.faults
       /\ s' = Done(r.t)
       /\ client' = IF heard THEN [client EXCEPT ![m.i] = Heard(@, m, r)] ELSE client
       /\ acked' = IF heard /\ r.code \in Stored /\ m.k \in {"produce", "offset"}
                   THEN acked \cup {[p |-> IF m.k = "offset" THEN 0 ELSE m.p, val |-> m.val, base |-> r.base]}
                   ELSE acked
       /\ told' = IF heard /\ r.code = "ok" /\ m.k = "end" THEN told \cup {told1} ELSE told
       /\ owner' = IF m.k = "init" THEN m.i ELSE owner
       /\ faults' = IF fault THEN faults + 1 ELSE faults
       /\ UNCHANGED <<scenario, sent, forced, torn, crashes>>

\* The Postgres transaction is lost after it appended to the segment file, which keeps that: ps is
\* where, t the state with the longer log.
Torn(t, ps) == /\ faults < scenario.faults /\ faults' = faults + 1
               /\ s' = [s EXCEPT !.log = t.log]
               /\ torn' = torn \cup {<<p, Len(s.log[p]) + 1>> : p \in ps}
               /\ UNCHANGED <<scenario, client, sent, acked, told, forced, owner, crashes>>

\* finish_transaction is cut off after its marker in partition p.
CutShort(id, epoch, committed, p) ==
    LET ps == {q \in Listed(s, id) : q <= p}
    IN /\ Ongoing(s, id) /\ s.row[id].epoch <= epoch /\ p \in ps
       /\ Torn(append_markers(s, id, epoch, ps, Decided(s, id, committed)), ps)

\* In a request: of the producer's, or of the instance that replaces it.
Lose(m, p) ==
    /\ Arrives(m)
    /\ \/ /\ m.k = "produce" /\ p = m.p
          /\ ProduceVerdict(s, m) = "ok" /\ check(s.win[m.id][m.p], m, s.start[m.p]) = "append"
          /\ Torn(Landed(s, m), {p})
       \/ m.k = "end" /\ Verdict(s, m.id, m.epoch) = "ok" /\ CutShort(m.id, m.epoch, m.committed, p)
       \/ m.k = "init" /\ Room(m) /\ \E id \in Pids : CutShort(id, AbandonedEpoch(s, id), FALSE, p)

Expire(id) == /\ Ongoing(s, id)
              /\ s' = Done(Expired(s, id))
              /\ UNCHANGED <<scenario, client, sent, acked, told, forced, torn, owner, faults, crashes>>
\* One Postgres transaction sweeps up to 64 producers: the failure of any loses the rows of all.
ExpireCut(id, p) == CutShort(id, s.txn[id].epoch, FALSE, p)

\* Whose transaction is open under producer id: the client's that has this id and epoch.
Whose(id) == {<<i, client[i].n>> : i \in {j \in Instances : /\ client[j].id = id
                                                           /\ client[j].epoch = s.txn[id].epoch}}

Markable(id, p) == Cardinality(forced) < scenario.forced /\ Ongoing(s, id) /\ p \in Listed(s, id)
WriteTxnMarkers(id, p, committed) ==
    /\ Markable(id, p)
    /\ s' = Done(MarkOne(s, id, p, committed))
    /\ forced' = forced \cup {[id |-> id, p |-> p, committed |-> committed, of |-> Whose(id)]}
    /\ UNCHANGED <<scenario, client, sent, acked, told, torn, owner, faults, crashes>>
MarkersCut(id, p, committed) ==
    /\ Markable(id, p) /\ s.txn[id].epoch <= s.row[id].epoch
    /\ Torn(append_markers(s, id, s.row[id].epoch, {p}, committed), {p})

\* An idempotent producer that is idle has nothing in flight.
Sweep(id) == /\ faults < scenario.faults /\ s.row[id].epoch # -1 /\ ~Ongoing(s, id)
             /\ Transactional \/ \A i \in Instances : client[i].id = id => client[i].want = {}
             /\ s' = Swept(s, id)
             /\ faults' = faults + 1
             /\ UNCHANGED <<scenario, client, sent, acked, told, forced, torn, owner, crashes>>

\* The machine crashes: the log loses its unsynced tail (what was acknowledged is synced, see
\* AckedIsDurable of EventLoop), and raise_leader_epochs begins an epoch where it ends.
Restart(end) ==
    /\ crashes < scenario.crashes /\ crashes' = crashes + 1
    /\ \A p \in Partitions : /\ end[p] <= Len(s.log[p])
                              /\ \A a \in acked : a.p = p => a.base <= end[p]
    /\ s' = [s EXCEPT !.log = [p \in Partitions |-> SubSeq(@[p], 1, end[p])],
                      !.start = [p \in Partitions |-> end[p] + 1],
                      !.win = [id \in Pids |-> [p \in Partitions |-> forget_past(@[id][p], end[p])]]]
    /\ torn' = {t \in torn : t[2] <= end[t[1]]}
    /\ UNCHANGED <<scenario, client, sent, acked, told, forced, owner, faults>>

Init ==
    /\ scenario \in Scenarios
    /\ s = [row |-> [id \in Pids |-> NoRow], txn |-> [id \in Pids |-> NoTxn],
            part |-> [id \in Pids |-> NoParts], win |-> [id \in Pids |-> NoWindow],
            staged |-> [id \in Pids |-> NoOffset], offset |-> NoOffset, next |-> 1,
            log |-> [p \in Partitions |-> <<>>], start |-> [p \in Partitions |-> 1], aborted |-> [p \in Partitions |-> {}]]
    /\ client = [i \in Instances |-> NoClient]
    /\ sent = {} /\ acked = {} /\ told = {} /\ forced = {} /\ torn = {}
    /\ owner = 0
    /\ faults = 0 /\ crashes = 0

Next ==
    \/ \E i \in Instances : \/ Start(i) \/ AddOffsets(i) \/ CommitOffset(i)
                            \/ \E p \in scenario.partitions : \/ AddPartition(i, p)
                                                              \/ \E len \in BatchLens : Send(i, p, len)
                            \/ \E committed \in BOOLEAN : End(i, committed)
    \/ \E m \in sent : \/ \E way \in Ways(m), heard \in BOOLEAN : Serve(m, way, heard)
                       \/ \E p \in Partitions : Lose(m, p)
    \/ \E id \in Pids : \/ Expire(id) \/ Sweep(id)
                        \/ \E p \in Partitions : ExpireCut(id, p)
                        \/ \E p \in Partitions, committed \in BOOLEAN :
                             WriteTxnMarkers(id, p, committed) \/ MarkersCut(id, p, committed)
    \/ \E end \in [Partitions -> 0 .. scenario.batches] : Restart(end)

\* The broker's loop runs the expiry sweep; nothing else is certain to happen.
Spec == Init /\ [][Next]_vars /\ \A id \in Pids : WF_vars(Expire(id))

-----------------------------------------------------------------------------
(* What consumers see. *)

\* kafka_txn_lso: the first offset some open transaction wrote.
LsoOf(p) == LET open == {s.part[id][p] : id \in {k \in Pids : Ongoing(s, k) /\ s.part[k][p] > Unstamped}}
            IN IF open = {} THEN Len(s.log[p]) + 1 ELSE CHOOSE o \in open : \A x \in open : o <= x

\* A read_committed consumer drops a producer's records from the first offset of an aborted
\* transaction to the marker that ends it.
Dropped(p, o) ==
    \E a \in s.aborted[p] :
       /\ a.id = s.log[p][o].id /\ a.first <= o
       /\ \A x \in a.first .. o : s.log[p][x].id # a.id \/ s.log[p][x].kind # "aborted"

\* An abort marker whose Postgres transaction was lost stands in the log before o, and no marker
\* that counts between them.  The transaction is still open, its producer may not be fenced, and
\* consumers take the stray marker for the end of the range they drop: what is appended between it
\* and the real end is delivered even if that end is an abort, and is not held to the properties
\* below.
AfterStray(p, o) ==
    \E x \in 1 .. o - 1 :
      /\ s.log[p][x].kind = "aborted" /\ s.log[p][x].id = s.log[p][o].id /\ <<p, x>> \in torn
      /\ \A y \in x + 1 .. o - 1 :
           s.log[p][y].id = s.log[p][o].id => s.log[p][y].kind = "data" \/ <<p, y>> \in torn

Stable(p) == {o \in 1 .. LsoOf(p) - 1 : /\ s.log[p][o].kind = "data" /\ <<p, o>> \notin torn
                                        /\ ~AfterStray(p, o)}
Visible(p) == {o \in Stable(p) : ~Dropped(p, o)}

-----------------------------------------------------------------------------
(* Properties. *)

\* Exactly once: however often a batch is resent, refused, answered late or answered to
\* nobody, and over a crash of the broker, it is in the log once and its answer names the
\* offset it has there, or none (DuplicateSequenceNumber).  A copy does not count when the
\* Postgres transaction of its request was lost after the append (torn), and an answer that
\* names no offset says nothing after a crash: forget_past keeps a row without an offset.
ExactlyOnce ==
    /\ \A a \in acked : a.p # 0 =>
         \/ \E o \in DOMAIN s.log[a.p] : s.log[a.p][o].val = a.val /\ a.base \in {o, Unstamped}
         \/ a.base = Unstamped /\ crashes > 0
    /\ \A p \in Partitions : \A o, x \in DOMAIN s.log[p] :
         /\ o # x /\ s.log[p][o].kind = "data" /\ s.log[p][o].val = s.log[p][x].val
         => {<<p, o>>, <<p, x>>} \cap torn # {}

Of(p, os, i, n) == {o \in os : s.log[p][o].val[1] = i /\ s.log[p][o].val[2] = n}
Seen(i, n) == \E p \in Partitions : Of(p, Visible(p), i, n) # {}
Hidden(i, n) == \E p \in Partitions : Of(p, Stable(p) \ Visible(p), i, n) # {}
EndSent(i, n, committed) == \E m \in sent : m.k = "end" /\ m.i = i /\ m.n = n /\ m.committed = committed
ToldEnd(i, n, committed) == [i |-> i, n |-> n, committed |-> committed] \in told
Forced(i, n, committed) == \E f \in forced : <<i, n>> \in f.of /\ f.committed = committed
\* The transactions, but for those an operator both committed and aborted: finish_partition obeys
\* each marker, in the partition it names.
Whole == {x \in UNION {{i} \X (1 .. scenario.txns[i]) : i \in DOMAIN scenario.txns} :
            ~(Forced(x[1], x[2], TRUE) /\ Forced(x[1], x[2], FALSE))}

\* All or nothing: a read_committed consumer sees the records of a transaction in every
\* partition or in none, sees none before a commit was asked for (or forced by an
\* operator), and what it sees agrees with what the producer was told by EndTxn.
AllOrNothing ==
    Transactional => \A <<i, n>> \in Whole :
      /\ ~(Seen(i, n) /\ Hidden(i, n))
      /\ Seen(i, n) => EndSent(i, n, TRUE) \/ Forced(i, n, TRUE)
      /\ ToldEnd(i, n, TRUE) => ~Hidden(i, n)
      /\ ToldEnd(i, n, FALSE) => ~Seen(i, n)

Newer(a, b) == a[1] > b[1] \/ (a[1] = b[1] /\ a[2] >= b[2])

\* The offsets staged in a transaction are committed exactly with its records: never when
\* it aborted, and once the producer was told it committed, they or newer ones are there.
OffsetsWithRecords ==
    \A <<i, n>> \in Whole :
      /\ s.offset = <<i, n>> => (EndSent(i, n, TRUE) \/ Forced(i, n, TRUE)) /\ ~Hidden(i, n)
      /\ ToldEnd(i, n, FALSE) => s.offset # <<i, n>>
      /\ ToldEnd(i, n, TRUE) /\ (\E a \in acked : a.p = 0 /\ a.val = <<i, n>>)
         => Newer(s.offset, <<i, n>>)

\* A transaction takes effect as one: its records in all partitions and its offsets with them.
Atomic == AllOrNothing /\ OffsetsWithRecords

\* Once a newer instance has initialised, no record of an older one is appended, whatever
\* request of it arrives late.
ZombieSilent ==
    [][Transactional => \A p \in Partitions : \A o \in DOMAIN s.log'[p] \ DOMAIN s.log[p] :
         s.log'[p][o].kind = "data" => s.log'[p][o].val[1] = owner]_vars


=============================================================================
