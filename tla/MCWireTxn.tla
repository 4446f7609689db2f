----------------------------- MODULE MCWireTxn ------------------------------
(***************************************************************************)
(* The instance of WireTxn that TLC checks.                                *)
(***************************************************************************)
EXTENDS WireTxn

Scenario(m, txns, ps, batches, offsets, forcings, n, cuts) ==
    [mode |-> m, txns |-> txns, partitions |-> ps, batches |-> batches, offsets |-> offsets,
     forced |-> forcings, faults |-> n, crashes |-> cuts]

MCScenarios ==
    { Scenario("idem", <<1>>, {1}, 6, 0, 0, 3, 0),        \* the window, and sequences that wrap
      Scenario("idem", <<1>>, {1}, 5, 0, 0, 2, 1),        \* the window after a crash
      Scenario("tv1", <<2>>, {1, 2}, 2, 0, 0, 0, 0),      \* transactions of one instance
      Scenario("tv1", <<2>>, {1}, 2, 0, 0, 1, 0),         \* with a fault in either
      Scenario("tv1", <<1, 1>>, {1}, 2, 0, 0, 1, 0),      \* an instance that replaces another
      Scenario("tv1", <<1, 1>>, {1}, 1, 1, 0, 0, 0),      \* and commits an offset
      Scenario("tv1", <<1>>, {1, 2}, 2, 1, 2, 0, 0),      \* two markers of an operator
      Scenario("tv1", <<1>>, {1, 2}, 2, 0, 1, 1, 0),      \* one, and a fault
      Scenario("tv2", <<3>>, {1}, 2, 0, 0, 1, 0),         \* epochs up to the ceiling
      Scenario("tv2", <<1, 1>>, {1}, 2, 0, 0, 1, 0),      \* replaced, and late requests
      Scenario("tv2", <<1, 1>>, {1, 2}, 1, 0, 0, 1, 0),   \* in two partitions
      Scenario("tv2", <<1>>, {1, 2}, 2, 1, 0, 1, 0),
      Scenario("tv2", <<2>>, {1, 2}, 2, 1, 1, 0, 0) }     \* an operator's marker, and offsets

=============================================================================
