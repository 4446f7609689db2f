---------------------------- MODULE MCEventLoop -----------------------------
(***************************************************************************)
(* The instance of EventLoop that TLC checks.                              *)
(***************************************************************************)
EXTENDS EventLoop

Request(k, p, min, b) == [k |-> k, p |-> p, min |-> min, batch |-> b]
Produce(p, b) == Request("produce", p, 0, b)
Produce0(p, b) == Request("produce0", p, 0, b)
Fetch(p, min) == Request("fetch", p, min, 0)
Other == Request("other", 1, 0, 0)
Sasl == Request("sasl", 1, 0, 0)

Scenario(one, two, hangups, lockings, n) ==
    [script |-> <<one, two>>, hangups |-> hangups, locks |-> lockings, faults |-> n]

MCScenarios ==
    { Scenario(<<Fetch(1, 2), Produce(1, 1), Other>>, <<Produce(1, 2)>>, {}, 1, 1),
      Scenario(<<Produce(1, 1), Produce0(2, 2), Produce(1, 3)>>, <<Fetch(1, 1)>>, {1}, 1, 1),
      Scenario(<<Produce(1, 1), Produce(1, 1)>>, <<Produce(1, 1)>>, {}, 0, 1),
      Scenario(<<Fetch(1, 1), Other, Other>>, <<Fetch(1, 2), Sasl>>, {2}, 0, 0) }

\* A producer whose first connection is slow sends its batch again on a second one.
ResendScenarios == { Scenario(<<Produce(1, 1), Other>>, <<Produce(1, 1)>>, {1}, 1, 1) }

=============================================================================
