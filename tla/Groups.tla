------------------------------- MODULE Groups -------------------------------
(***************************************************************************)
(* The three group protocols on one group id, with what they have in       *)
(* common: committed offsets, and the requests that delete them.           *)
(***************************************************************************)
EXTENDS ClassicGroup, ConsumerGroup, ShareGroup

groupVars == <<scenario, rows, offset, spent, v, parked, changed, client, k, parts, consumer,
               q, worker, sqlFrom, fate>>

OnlyClassic == UNCHANGED consumerVars /\ UNCHANGED shareVars
OnlyConsumer == UNCHANGED classicVars /\ UNCHANGED shareVars
OnlyShare == UNCHANGED classicVars /\ UNCHANGED consumerVars

-----------------------------------------------------------------------------

\* validate_commit, for one partition.  A commit without a member has no generation.
validate_commit(m, gen, p, tx) ==
    CASE "share" \in rows -> FALSE
      [] "share" \notin rows /\ "consumer" \in rows -> validate_consumer_group(m, gen, p, tx)
      [] rows = {"classic"} -> validate_classic(v, m, gen, tx)
      [] OTHER -> m = Nobody

offset_commit(m, gen, p) ==
    /\ Spend("commits")
    /\ IF p \in parts /\ validate_commit(m, gen, p, FALSE)
       THEN /\ offset' = [offset EXCEPT !.kept[p] = [m |-> m, gen |-> gen]]
            /\ v' = IF rows = {"classic"} /\ v.state \in {"Stable", "Preparing"} THEN touch_heartbeat(v, m) ELSE v
       ELSE UNCHANGED <<offset, v>>
    /\ UNCHANGED <<scenario, rows, parked, changed, client>> /\ OnlyClassic

\* handle_txn_offset_commit, for the producer of client c.
txn_offset_commit(c, m, gen, p) ==
    /\ Spend("txns")
    /\ offset' = IF p \in parts /\ validate_commit(m, gen, p, TRUE)
                 THEN [offset EXCEPT !.staged[c][p] = [m |-> m, gen |-> gen]] ELSE offset
    /\ UNCHANGED <<scenario, rows>> /\ UNCHANGED classicVars /\ OnlyClassic

Staged(c) == {p \in Partitions : offset.staged[c][p] # NoOffset}

\* finish_transaction makes what is staged visible, or drops it.  Nothing looks at the group again.
EndTxn(c, committed) ==
    /\ Staged(c) # {}
    /\ offset' = [offset EXCEPT !.staged[c] = NoOffsets.staged[c],
                                !.kept = [p \in Partitions |-> IF committed /\ p \in Staged(c)
                                                               THEN offset.staged[c][p] ELSE @[p]]]
    /\ UNCHANGED <<scenario, rows, spent>> /\ UNCHANGED classicVars /\ OnlyClassic

\* Mutant: what a transaction has staged is not waited for.
Unstable_Never(p) == FALSE

\* unstable_for_topic
Unstable(p) == \E c \in Members : p \in Staged(c)

\* What a client owns, and the generation or epoch it knows.
Owns(m, p, gen) ==
    \/ client[m].at \in {"stable", "rejoin"} /\ p \in client[m].got.own /\ gen = client[m].gen
    \/ consumer[m].at = "in" /\ p \in consumer[m].own /\ gen = consumer[m].epoch

\* A client that is given a partition asks where to go on (require_stable), until it is told.
\* Without transactions there is nothing to wait for, and the step is left out.
OffsetFetch(m, p, gen) ==
    /\ scenario.txns > 0
    /\ Owns(m, p, gen) /\ ~Unstable(p) /\ <<m, p, gen>> \notin offset.read
    /\ offset' = [offset EXCEPT !.read = {r \in @ : r[1] # m \/ r[2] # p} \cup {<<m, p, gen>>}]
    /\ UNCHANGED <<scenario, rows, spent>> /\ UNCHANGED classicVars /\ OnlyClassic

\* Then it commits what it has consumed.
Commits(m, p, gen) ==
    /\ Owns(m, p, gen) /\ (scenario.txns = 0 \/ <<m, p, gen>> \in offset.read)
    /\ offset_commit(m, gen, p) \/ txn_offset_commit(m, m, gen, p)

\* existence: a classic group or offsets; members of a classic group.
existence == [group |-> "classic" \in rows \/ \E p \in Partitions : offset.kept[p] # NoOffset,
              members |-> Ids # {}]

Deletable == existence.group /\ ~existence.members

offset_delete(p) ==
    /\ Spend("admin")
    /\ offset' = IF Deletable THEN [offset EXCEPT !.kept[p] = NoOffset] ELSE offset
    /\ UNCHANGED <<scenario, rows>> /\ UNCHANGED classicVars /\ OnlyClassic

\* What is staged when its group is deleted belongs to no generation of the next group.
Outlived(o) == IF o = NoOffset THEN o ELSE [o EXCEPT !.gen = -1]

\* group::delete.  What a transaction has staged stays; a client asks again in the next group.
delete_group ==
    /\ Spend("admin")
    /\ IF Deletable
       THEN /\ offset' = [NoOffsets EXCEPT !.staged =
                             [c \in Members |-> [p \in Partitions |-> Outlived(offset.staged[c][p])]]]
            /\ v' = NoGroup /\ rows' = rows \ {"classic"}
       ELSE UNCHANGED <<offset, v, rows>>
    /\ UNCHANGED <<scenario, parked, changed, client>> /\ OnlyClassic

Offsets_Next ==
    \/ \E p \in parts : offset_delete(p) \/ offset_commit(Nobody, -1, p)
    \/ \E m \in scenario.clients["classic"] \cup scenario.clients["consumer"], p \in parts :
         \/ txn_offset_commit(m, Nobody, -1, p)
         \/ \E gen \in {client[m].gen, consumer[m].epoch} : OffsetFetch(m, p, gen) \/ Commits(m, p, gen)
    \/ \E m \in Members, committed \in BOOLEAN : EndTxn(m, committed)
    \/ delete_group

Init == IdsInit /\ ClassicInit /\ ConsumerInit /\ ShareInit

Next == \/ ClassicNext /\ OnlyClassic
        \/ ConsumerNext /\ OnlyConsumer
        \/ ShareNext /\ OnlyShare
        \/ Offsets_Next

\* The broker's loop and its clock go on; a client that is there does its part; a member whose
\* client is silent lapses in the end.
ClassicMoves == \/ WindowPasses \/ DeadlinePasses \/ \E i \in DOMAIN parked : Elapse(i)
                \/ \E m \in Members : \/ JoinGroup(m, FALSE) \/ Heartbeat(m) \/ (Silent(m) /\ Lapse(m))
                                      \/ \E owner \in Members \cup {Nobody} : SyncGroup(m, FALSE, owner)
ConsumerMoves == \/ ExpireConsumers
                 \/ \E m \in Members : \/ Revoke(m) \/ TakeOn(m)
                                       \/ Absent(m) /\ ConsumerLapse(m)
ShareMoves == \/ expire \/ \E o \in Offsets : LockLapses(o)
              \/ \E m \in Members : share_fetch(m, NoBatch, Records, TRUE)

Fairness ==
    /\ WF_groupVars(ExpireGroupMembers /\ OnlyClassic)
    /\ WF_groupVars(CompleteParked(FALSE) /\ OnlyClassic)
    /\ WF_groupVars(ClassicMoves /\ OnlyClassic)
    /\ WF_groupVars(Reassign /\ OnlyConsumer)
    /\ WF_groupVars(ConsumerMoves /\ OnlyConsumer)
    /\ \A m \in Members : WF_groupVars(ConsumerHeartbeat(m, m, TRUE) /\ OnlyConsumer)
    /\ WF_groupVars(ShareMoves /\ OnlyShare)

Spec == Init /\ [][Next]_groupVars /\ Fairness

-----------------------------------------------------------------------------
(* Classic groups. *)

\* SyncGroup hands out the assignment of the current generation, never one that an earlier one left
\* in a member's row: two clients of one generation never own the same partition, whatever
\* interleaving of joins, syncs and leaves led there.  A group that is deleted and joined again counts
\* its generations anew, so after that the clients are those that are members of it.
ExclusiveOwner ==
    \A m, n \in Members :
      m # n /\ client[m].gen = client[n].gen /\ (spent["admin"] = 0 \/ {m, n} \subseteq Ids)
      => client[m].got.own \cap client[n].got.own = {}

\* A join that waits although its group is gone: complete_parked keeps it, past its deadline too,
\* until somebody joins the group id again.
Orphan(e) == e.k = "join" /\ v.state = "none"

\* Every rebalance ends: the group is again and again out of PreparingRebalance and
\* CompletingRebalance, and no join or sync stays parked for ever, unless its group was deleted.
GroupSettles ==
    []<>(v.state \notin {"Preparing", "Completing"} /\ \A i \in DOMAIN parked : Orphan(parked[i]))

-----------------------------------------------------------------------------
(* KIP-848 groups. *)

\* HandedOver is about punctual clients.  One lost answer, or one live member that is taken for
\* gone, does not make two members consume a partition either: a client repeats its report, and one
\* that was removed is fenced by its epoch.  A member that never caught up with its target still has
\* epoch 0 and does not learn that it was removed: it is left out.  Two such events may: a member
\* of epoch 0 that was expired is admitted again with what it still holds, and a report repeated
\* after a second lost answer makes reconcile forget a grant that the client is yet to take on.
ExclusiveHold ==
    \A m, n \in {x \in DOMAIN k.mem : consumer[x].epoch > 0} :
      m # n => consumer[m].own \cap consumer[n].own = {}

\* No two members own a partition, in a generation of a classic group or in a KIP-848 group.
OneOwner == ExclusiveOwner /\ ExclusiveHold

\* The hand-over ends: again and again every partition, a new one included, is consumed by some
\* member that wants the topic, if there is one.
Converges == []<>(\A p \in parts :
                    (\E m \in Members : consumer[m].at = "in" /\ consumer[m].wants)
                    => \E m \in Members : p \in consumer[m].own)

-----------------------------------------------------------------------------
(* Share groups. *)

\* While somebody fetches, the queue drains: every record is finished in the end and the start
\* offset comes past it, as long as the rows in flight do not reach their cap.
SharesDrain == []<>(\/ q.start = Records
                    \/ scenario.cap <= Records
                    \/ \A m \in Members : worker[m].at # "in")

-----------------------------------------------------------------------------
(* Commits. *)

\* Who committed an offset of a classic group: a later generation than the last, or the same
\* member in the same one.
FollowsGenerations(new, old) ==
    rows' = {"classic"} /\ new.m # Nobody /\ old.m # Nobody =>
      new.gen > old.gen \/ (new.gen = old.gen /\ new.m = old.m)

\* In a KIP-848 group, who committed is the only member that consumes the partition or, when a
\* transaction ends, the only one that was told where to go on.
Consuming(p) == {n \in DOMAIN k.mem : p \in consumer[n].own}
GoingOn(p) == {n \in Consuming(p) : <<n, p, consumer[n].epoch>> \in offset.read}
IsOnly(new, some) == rows' = {"consumer"} /\ new.gen > 0 => some \subseteq {new.m}

\* validate_commit takes a commit only from the member the partition belongs to: a client that
\* missed a rebalance or a hand-over cannot overwrite its successor's progress.  That holds for a
\* transaction too, which may end long after its commit was validated: the successor is told where
\* to go on only when no transaction is pending (UNSTABLE_OFFSET_COMMIT).
CommitsByOwner ==
    [][\A p \in Partitions :
         LET new == offset'.kept[p]
             staged(c) == offset'.staged[c][p]
         IN /\ new # offset.kept[p] => FollowsGenerations(new, offset.kept[p]) /\ IsOnly(new, GoingOn(p))
            /\ new # offset.kept[p] /\ offset'.staged = offset.staged => IsOnly(new, Consuming(p))
            /\ \A c \in Members :
                 staged(c) # offset.staged[c][p] => IsOnly(staged(c), Consuming(p))]_groupVars

=============================================================================
