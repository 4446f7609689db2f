------------------------------ MODULE MCGroups ------------------------------
(* Groups on small instances: each scenario is one protocol, or two in one group id. *)
EXTENDS Groups

Quiet == [clients |-> [p \in Protocols |-> {}], joins |-> 0, hangups |-> 0, leaves |-> 0, commits |-> 0,
          txns |-> 0, admin |-> 0, faults |-> 0, late |-> 0, delay |-> FALSE, protos |-> [m \in Members |-> {"a"}],
          grown |-> <<2, 2>>, kinds |-> {"accept", "release"}, sql |-> FALSE, cap |-> Records + 1]

ClassicRejoins == [Quiet EXCEPT !.clients["classic"] = {1, 2}, !.joins = 3, !.hangups = 1]
ClassicCommits == [Quiet EXCEPT !.clients["classic"] = {1, 2}, !.joins = 2, !.commits = 2]
ClassicLeaves == [Quiet EXCEPT !.clients["classic"] = {1, 2}, !.joins = 3, !.leaves = 1, !.delay = TRUE]
ClassicStalls == [Quiet EXCEPT !.clients["classic"] = {1, 2}, !.joins = 3, !.faults = 1]
ClassicAssignors == [Quiet EXCEPT !.clients["classic"] = {1, 2}, !.joins = 3,
                                  !.protos = [m \in Members |-> IF m = 1 THEN {"a"} ELSE {"b"}]]
ClassicTxns == [Quiet EXCEPT !.clients["classic"] = {1, 2}, !.joins = 2, !.txns = 2, !.grown = <<1, 1>>]
ClassicOrphan == [Quiet EXCEPT !.clients["classic"] = {1, 2}, !.joins = 2, !.leaves = 1, !.admin = 1]
ClassicAdmin == [Quiet EXCEPT !.clients["classic"] = {1}, !.joins = 2, !.hangups = 1, !.admin = 1, !.commits = 2]

ConsumerPair == [Quiet EXCEPT !.clients["consumer"] = {1, 2}, !.joins = 3]
ConsumerLost == [ConsumerPair EXCEPT !.hangups = 1, !.late = 1]
ConsumerCommits == [ConsumerPair EXCEPT !.commits = 1, !.late = 1]
ConsumerLostCommits == [ConsumerPair EXCEPT !.commits = 1, !.hangups = 1]
ConsumerTxns == [ConsumerPair EXCEPT !.joins = 2, !.txns = 2, !.late = 1, !.grown = <<1, 1>>]
ConsumerThree == [Quiet EXCEPT !.clients["consumer"] = {1, 2, 3}, !.joins = 3, !.faults = 1]
ConsumerThreeLate == [ConsumerThree EXCEPT !.faults = 0, !.late = 1]
ConsumerStatic == [Quiet EXCEPT !.clients["consumer"] = {1, 2, 3}, !.joins = 3, !.leaves = 1, !.grown = <<3, 3>>]
ConsumerGrows == [ConsumerPair EXCEPT !.faults = 1, !.grown = <<2, 3>>]
ConsumerGrowsAlone == [Quiet EXCEPT !.clients["consumer"] = {1}, !.joins = 1, !.grown = <<2, 3>>]
ConsumerWants == [ConsumerPair EXCEPT !.admin = 2]
ConsumerWantsNot == [ConsumerPair EXCEPT !.admin = 1, !.late = 1]

ShareQueue == [Quiet EXCEPT !.clients["share"] = {1, 2}, !.joins = 2, !.faults = 1, !.kinds = {"release"}]
ShareLost == [Quiet EXCEPT !.clients["share"] = {1, 2}, !.joins = 2, !.hangups = 1, !.kinds = {"accept"}]
ShareLeaves == [Quiet EXCEPT !.clients["share"] = {1, 2}, !.joins = 2, !.leaves = 1, !.kinds = {"accept"}]
ShareKinds == [Quiet EXCEPT !.clients["share"] = {1, 2}, !.joins = 2, !.commits = 1,
                            !.kinds = {"reject", "renew", "gap"}]
ShareAdmin == [Quiet EXCEPT !.clients["share"] = {1}, !.joins = 2, !.leaves = 1, !.admin = 1]
ShareCap == [Quiet EXCEPT !.clients["share"] = {1, 2}, !.joins = 2, !.cap = 2]
ShareSql == [Quiet EXCEPT !.clients["share"] = {1}, !.joins = 2, !.commits = 1, !.sql = TRUE]

ClashConsumer == [Quiet EXCEPT !.clients["classic"] = {1}, !.clients["consumer"] = {2}, !.joins = 2, !.commits = 1]
ClashShare == [Quiet EXCEPT !.clients["consumer"] = {2}, !.clients["share"] = {3}, !.joins = 2]

MCScenarios == {ClassicRejoins, ClassicCommits, ClassicLeaves, ClassicStalls, ClassicAssignors,
                ClassicTxns, ClassicOrphan, ClassicAdmin,
                ConsumerLost, ConsumerCommits, ConsumerLostCommits, ConsumerTxns, ConsumerThree,
                ConsumerThreeLate, ConsumerStatic, ConsumerGrows, ConsumerGrowsAlone, ConsumerWants,
                ConsumerWantsNot,
                ShareQueue, ShareLost, ShareLeaves, ShareKinds, ShareAdmin, ShareCap, ShareSql,
                ClashConsumer, ClashShare}
=============================================================================
