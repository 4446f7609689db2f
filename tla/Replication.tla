----------------------------- MODULE Replication ----------------------------
(***************************************************************************)
(* Node a serves; node b is its standby.  Two streams reach b and neither  *)
(* waits for the other: the WAL, with the epoch rows (wal: the rows b has  *)
(* not replayed yet), and the follower's own fetches of the log.           *)
(*                                                                         *)
(* One round of the follower: it lists what it wants (the epoch is the     *)
(* row's, as far as replay has come), reconciles once per connection, then *)
(* fetches and applies until a fetch is empty.                             *)
(*                                                                         *)
(* The consumer is outside the repository: it keeps what it read with the  *)
(* epoch each record carried, and on a new connection asks where its last  *)
(* epoch ended before it fetches on.  It knows the newest leader epoch it  *)
(* was told, and asks under that.                                          *)
(***************************************************************************)
EXTENDS LeaderEpochs

VARIABLES
    wal,        \* rows of a that b has still to replay
    follower,   \* b's follower worker
    consumer    \* a client reading the partition

Away(misled) == [phase |-> "idle", alive |-> FALSE, reconciled |-> FALSE, misled |-> misled,
                 want |-> 0, from |-> 0, pulled |-> <<>>]
\* Mutant: a new connection is taken for a reconciled one.
Dropped_Reconciled == [follower EXCEPT !.phase = "idle", !.alive = FALSE, !.pulled = <<>>]

\* disconnect: nothing of the connection is kept.
Dropped == Away(follower.misled)
Unknown == -1
Fresh == [seen |-> <<>>, on |-> "none", valid |-> FALSE, knows |-> Unknown]

\* History, for misled below: the epoch of the last entry; 0 for a log that has none.
TailEpoch(log) == IF log = <<>> THEN 0 ELSE log[Len(log)].epoch

-----------------------------------------------------------------------------
(* The WAL. *)

\* The raise commits on n; a's rows travel to b while b follows.
RaiseCommit(n) ==
    /\ node[n].raising # <<>>
    /\ node' = [node EXCEPT ![n] = RaiseCommits(n)]
    /\ wal' = IF n = "a" /\ node["b"].role = "standby" THEN Append(wal, node[n].raising[1]) ELSE wal
    /\ UNCHANGED <<scenario, left, follower, consumer>>

Replay ==
    /\ wal # <<>> /\ node["b"].role = "standby"
    /\ node' = [node EXCEPT !["b"].meta = Head(wal)]
    /\ wal' = Tail(wal)
    /\ UNCHANGED <<scenario, left, follower, consumer>>

-----------------------------------------------------------------------------
(* The follower. *)

\* partitions_to_follow, in a transaction of its own.
RoundStart ==
    /\ follower.phase = "idle" /\ node["b"].role = "standby"
    /\ follower' = [follower EXCEPT !.want = node["b"].meta.epoch, !.from = End("b"),
                                    !.alive = @ \/ ~follower.reconciled,
                                    !.phase = IF follower.reconciled THEN "fetch" ELSE "reconcile"]
    /\ UNCHANGED <<scenario, left, node, wal, consumer>>

\* How much of b's log the answer leaves.
Cut(end) == IF end < 0 THEN End("b") ELSE Min({end, End("b")})

\* A cut forgets archive rows last, which a standby refuses: the round fails after truncating.
Reconcile ==
    /\ follower.phase = "reconcile" /\ follower.alive /\ Serving("a")
    /\ \E keep \in {Cut(epoch_end_offset("a", follower.want))} :
         IF keep < End("b")
         THEN /\ node' = [node EXCEPT !["b"].log = SubSeq(@, 1, keep), !["b"].durable = Min({@, keep})]
              /\ follower' = Dropped
         ELSE /\ follower' = [follower EXCEPT !.phase = "fetch", !.reconciled = TRUE,
                                              !.misled = @ \/ follower.want # TailEpoch(node["b"].log)]
              /\ UNCHANGED node
    /\ UNCHANGED <<scenario, left, wal, consumer>>

\* What n's log has from an offset on; OffsetOutOfRange below the log start or past the end.
Batches(n, from) == SelectSeq([i \in 1 .. End(n) |-> [at |-> i, entry |-> node[n].log[i]]],
                              LAMBDA x : x.at > from /\ x.at \notin node[n].gone)
InRange(n, from) == from >= node[n].start /\ from <= End(n)

\* An empty answer, or an error in it, ends the round.
FetchFrom ==
    /\ follower.phase = "fetch" /\ follower.alive /\ Serving("a")
    /\ \E got \in {IF InRange("a", follower.from) THEN Batches("a", follower.from) ELSE <<>>} :
         follower' = [follower EXCEPT !.phase = IF got = <<>> THEN "idle" ELSE "apply", !.pulled = got]
    /\ UNCHANGED <<scenario, left, node, wal, consumer>>

\* How many of the batches follow each other from the standby's end on.
Adjoining(new) == Max({k \in 0 .. Len(new) : \A j \in 1 .. k : new[j].at = End("b") + j})

\* Batches below the log end are skipped; append_replicated refuses one that leaves a gap, and
\* the round fails there.  The promotion is looked for only afterwards.
Apply ==
    /\ follower.phase = "apply"
    /\ \E new \in {SelectSeq(follower.pulled, LAMBDA x : x.at > End("b"))} :
         LET k == Adjoining(new)
         IN /\ node' = [node EXCEPT !["b"].log = @ \o [j \in 1 .. k |-> new[j].entry]]
            /\ follower' = IF k = Len(new) /\ node["b"].role = "standby"
                           THEN [follower EXCEPT !.phase = "fetch", !.pulled = <<>>, !.from = End("b") + k]
                           ELSE Dropped
    /\ UNCHANGED <<scenario, left, wal, consumer>>

\* The leader is gone or the network fails: any error of a round drops the connection.
Disconnect ==
    /\ follower.phase \in {"reconcile", "fetch"}
    /\ IF follower.alive /\ Serving("a") THEN Has("drops") /\ Spend("drops") ELSE UNCHANGED left
    /\ follower' = Dropped
    /\ UNCHANGED <<scenario, node, wal, consumer>>

-----------------------------------------------------------------------------
(* Crashes, promotion, upgrade. *)

\* Connections to n are gone; what the follower has pulled from a it still applies.
Unfollowed(n) == IF n = "b" THEN Dropped ELSE [follower EXCEPT !.alive = FALSE]
Unread(n) == IF consumer.on = n THEN [consumer EXCEPT !.on = "none", !.valid = FALSE] ELSE consumer

\* Every process of the node is gone, and any part of the log that was not synced.
PowerCut(n) ==
    /\ node[n].role # "none" /\ Has("cuts") /\ Spend("cuts")
    /\ \E keep \in Max({node[n].durable, node[n].start}) .. End(n) : node' = [node EXCEPT ![n] = Restarted(@, keep)]
    /\ follower' = Unfollowed(n)
    /\ consumer' = Unread(n)
    /\ UNCHANGED <<scenario, wal>>

\* Only the broker worker exits; the postmaster starts it again over the same shared memory.
WorkerRestart(n) ==
    /\ node[n].role = "primary" /\ Has("workers") /\ Spend("workers")
    /\ node' = [node EXCEPT ![n].ready = FALSE, ![n].raising = <<>>]
    /\ follower' = IF n = "a" THEN Unfollowed(n) ELSE follower
    /\ consumer' = Unread(n)
    /\ UNCHANGED <<scenario, wal>>

\* b has replayed every epoch a took, and reconciled under the last of them, and is between rounds.
InStep == /\ wal = <<>> /\ follower.phase = "idle" /\ follower.reconciled
          /\ follower.want = node["b"].meta.epoch /\ ~follower.misled

\* pg_promote: the rest of a's WAL never arrives and a may go on as it was.  The follower worker
\* goes on too, to the end of the call it is in.  An orderly promotion finds the two in step.
Promote ==
    /\ node["b"].role = "standby" /\ Has("promotions") /\ Spend("promotions")
    /\ scenario.orderly => InStep
    /\ node' = [node EXCEPT !["b"].role = "primary", !["b"].tl = node["a"].tl + 1]
    /\ wal' = <<>>
    /\ UNCHANGED <<scenario, follower, consumer>>

\* pg_upgrade: a new cluster from a's files, its WAL on timeline 1 again; the old one may still start.
Upgrade ==
    /\ node["b"].role = "none" /\ node["a"].tl > 1 /\ Has("upgrades") /\ Spend("upgrades")
    /\ node' = [node EXCEPT !["b"] = [Restarted(node["a"], End("a")) EXCEPT !.tl = 1],
                            !["a"] = Restarted(@, End("a"))]
    /\ consumer' = Unread("a")
    /\ UNCHANGED <<scenario, wal, follower>>

\* A sweep of the leader, as in Cleaner: the log start moves up, or a batch is compacted away.
\* The last batch is in the active segment, which no sweep touches.
SweepLeader ==
    /\ Serving("a") /\ Has("reclaims") /\ Spend("reclaims")
    /\ \E i \in node["a"].start + 1 .. End("a") - 1 :
         \/ node' = [node EXCEPT !["a"].start = i]
         \/ node' = [node EXCEPT !["a"].gone = @ \cup {i}]
    /\ UNCHANGED <<scenario, wal, follower, consumer>>

-----------------------------------------------------------------------------
(* The consumer. *)

\* Once b was promoted, orderly, clients are sent to b; a connection to a may live on.
Connect(n) ==
    /\ Has("connects") /\ Serving(n) /\ ~consumer.valid /\ Spend("connects")
    /\ scenario.orderly /\ node["b"].tl > node["a"].tl => n = "b"
    /\ consumer' = [consumer EXCEPT !.on = n]
    /\ UNCHANGED <<scenario, node, wal, follower>>

\* OffsetForLeaderEpoch for the epoch of the last record read; no answer resets the consumer.
\* One that knows an older epoch is fenced and told the newer; one that knows a newer epoch
\* is refused, and looks elsewhere.
Validate(n) ==
    /\ consumer.on = n /\ ~consumer.valid /\ Serving(n)
    /\ \E current \in {node[n].meta.epoch},
          end \in {IF consumer.seen = <<>> THEN 0
                   ELSE epoch_end_offset(n, consumer.seen[Len(consumer.seen)].epoch)} :
         consumer' =
           CASE consumer.knows # Unknown /\ consumer.knows < current -> [consumer EXCEPT !.knows = current]
             [] consumer.knows > current -> [consumer EXCEPT !.on = "none"]
             [] OTHER -> [consumer EXCEPT !.valid = TRUE, !.knows = current,
                            !.seen = IF end = NoAnswer THEN <<>>
                                     ELSE SubSeq(@, 1, Min({end, Len(@)}))]
    /\ UNCHANGED <<scenario, left, node, wal, follower>>

Poll(n) ==
    /\ consumer.on = n /\ consumer.valid /\ Serving(n)
    /\ Len(consumer.seen) < End(n) /\ Len(consumer.seen) >= node[n].start
    /\ Len(consumer.seen) + 1 \notin node[n].gone
    /\ consumer' = [consumer EXCEPT !.seen = Append(@, node[n].log[Len(@) + 1])]
    /\ UNCHANGED <<scenario, left, node, wal, follower>>

\* It loses its connection and asks again, here or there.
Leave ==
    /\ consumer.valid /\ Has("connects")
    /\ consumer' = [consumer EXCEPT !.on = "none", !.valid = FALSE]
    /\ UNCHANGED <<scenario, left, node, wal, follower>>

-----------------------------------------------------------------------------
(* Properties. *)

\* An epoch and an offset name one record: wherever two logs, or a log and what the consumer
\* holds, have an entry of the same epoch at the same offset, it is the same record.  Every
\* answer of OffsetForLeaderEpoch rests on it.
EpochNames ==
    LET logs == {node[n].log : n \in Nodes} \cup {consumer.seen}
    IN \A s, t \in logs : \A i \in 1 .. Min({Len(s), Len(t)}) :
         s[i].epoch = t[i].epoch => s[i].rec = t[i].rec

\* A consumer that asked where its last epoch ended holds a prefix of the log it reads from
\* then on: whatever a crash took or a promotion replaced, it truncated.
ConsumerAgrees ==
    consumer.valid => /\ Len(consumer.seen) <= End(consumer.on)
                      /\ consumer.seen = SubSeq(node[consumer.on].log, 1, Len(consumer.seen))

\* A standby whose reconciliations all asked about the epoch its own log ended in copies the
\* leader: on a reconciled connection the two logs never differ at an offset both have.
\* (misled is history: a reconciliation asked about the epoch of the row instead.)
FollowerAgrees ==
    follower.reconciled /\ follower.alive /\ ~follower.misled /\ node["b"].role = "standby"
      => \A i \in 1 .. Min({End("a"), End("b")}) : node["a"].log[i] = node["b"].log[i]

\* Epochs and copying keep the logs of the two nodes one log: an epoch names one history, and a
\* reconciled follower has at every offset what its leader has.
LogsAgree == EpochNames /\ FollowerAgrees

\* The follower worker stops before the broker of a promoted node serves: it never changes a
\* log that takes appends.
NeverTwoWriters ==
    [][(Apply \/ Reconcile) /\ node'["b"].log # node["b"].log => ~node["b"].raised]_<<node, follower>>

\* The batch at the standby's end is gone from the leader: reclaimed, or compacted away.
Overtaken == End("b") < node["a"].start \/ End("b") + 1 \in node["a"].gone

\* A standby that keeps its connection gets what the leader has, again and again, through cut
\* connections and crashes of either.  Only a leader whose sweeps took the batch the standby needs
\* next leaves it behind for good: fetch_from logs the error, or apply refuses the gap, in
\* every round.
FollowerCatchesUp ==
    []<>(node["b"].role # "standby" \/ Overtaken \/ (follower.reconciled /\ End("b") = End("a")))

=============================================================================
