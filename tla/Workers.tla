------------------------------- MODULE Workers ------------------------------
(***************************************************************************)
(* The background workers beside the broker: the follower of a standby,    *)
(* the CDC worker, and the sweeps with the archiver.  The first two write  *)
(* the log of LeaderEpochs under the epochs the broker raises; all of them *)
(* lose their memory with the node.                                        *)
(***************************************************************************)
EXTENDS Replication, Cdc, Cleaner

followerVars == <<wal, follower, consumer>>
cdcVars == <<cdc, drain>>
cleanerVars == <<part, sweep, archive, reader>>
vars == <<scenario, left, node, followerVars, cdcVars, cleanerVars>>

Init ==
    /\ scenario \in Scenarios
    /\ left = scenario.budget
    /\ node = [n \in Nodes |->
                 NewNode(IF n = "a" THEN "primary" ELSE scenario.b,
                         NewMeta(scenario.epoch, scenario.last), scenario.tl)]
    /\ wal = <<>> /\ follower = Away(FALSE) /\ consumer = Fresh
    /\ cdc = NewCdc /\ drain = Quiet
    /\ part = NewPart /\ sweep = NewSweep /\ archive = NewArchive /\ reader = NewReader

\* A node stops: its processes, their memory and its shared memory are gone.
Stops(n) == IF n = "a" THEN CdcCut /\ CleanerCrash /\ UNCHANGED reader
            ELSE UNCHANGED <<cdcVars, cleanerVars>>

Raise(n) == \/ RaiseBegin(n) /\ UNCHANGED <<followerVars, cdcVars, cleanerVars>>
            \/ RaiseCommit(n) /\ UNCHANGED <<cdcVars, cleanerVars>>

Write(n) == /\ RaiseAbort(n) \/ AppendSeed(n) \/ AppendWrite(n) \/ SyncPartition(n)
            /\ UNCHANGED <<followerVars, cdcVars, cleanerVars>>

ReplayStep == Replay /\ UNCHANGED <<cdcVars, cleanerVars>>

Follow == /\ RoundStart \/ Reconcile \/ FetchFrom \/ Apply \/ Disconnect
          /\ UNCHANGED <<cdcVars, cleanerVars>>

Fault == \/ \E n \in Nodes : PowerCut(n) /\ Stops(n)
         \/ Upgrade /\ Stops("a")
         \/ /\ Promote \/ SweepLeader \/ \E n \in Nodes : WorkerRestart(n)
            /\ UNCHANGED <<cdcVars, cleanerVars>>

Consume == /\ Leave \/ \E n \in Nodes : Connect(n) \/ Validate(n) \/ Poll(n)
           /\ UNCHANGED <<cdcVars, cleanerVars>>

Change == /\ CommitTxn \/ SlotSaved \/ \E i \in Maps : AddMapping(i) \/ SnapshotMapping(i)
          /\ UNCHANGED <<followerVars, cleanerVars>>

Drain == /\ \/ DrainOpen \/ DrainFails \/ StreamRow \/ OfferStep \/ FlushStep \/ CutStep
            \/ ProduceStep \/ PersistStep \/ StreamEnd \/ DrainSync \/ DrainSave \/ DrainAdvance
            \/ SnapshotSave \/ \E i \in Maps : SnapshotPage(i)
         /\ UNCHANGED <<followerVars, cleanerVars>>

Clean == /\ \/ AppendRecord \/ Decide \/ BudgetSpent \/ Retain \/ SweepCommit
            \/ ArchiveCopy \/ ArchiveCommit \/ Tick \/ ReadStart \/ ReadNext
            \/ \E p \in Sweepers : \/ SweepStart(p) \/ MapStep(p) \/ MapFails(p) \/ RewriteStep(p) \/ PlanEnd(p)
                                   \/ SweeperExits(p)
         /\ UNCHANGED <<scenario, node, followerVars, cdcVars>>

Next == \/ \E n \in Nodes : Raise(n) \/ Write(n)
        \/ ReplayStep \/ Follow \/ Fault \/ Consume \/ Change \/ Drain \/ Clean

\* The workers' loops run, and so does the standby's replay.  Nothing makes a client, a user,
\* a fault or a sweep happen.
Fairness == /\ \A n \in Nodes : WF_vars(Raise(n))
            /\ WF_vars(ReplayStep) /\ WF_vars(Follow) /\ WF_vars(Drain)

Spec == Init /\ [][Next]_vars /\ Fairness
SafetySpec == Init /\ [][Next]_vars
=============================================================================
