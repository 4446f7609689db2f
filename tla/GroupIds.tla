------------------------------ MODULE GroupIds ------------------------------
(***************************************************************************)
(* What the three group protocols share: one group id, which may have a    *)
(* row in the table of each protocol, and the offsets committed under it.  *)
(***************************************************************************)
EXTENDS Integers, Sequences, FiniteSets, TLC, Functions

CONSTANTS
    Members,     \* positive integers, in the order of the member ids
    Partitions,  \* 1 .. n, of the one topic
    Scenarios    \* what happens around the broker; one is chosen.  See ScenarioType

Nobody == 0
Protocols == {"classic", "consumer", "share"}

\* clients: the members of each protocol.  joins, hangups, leaves, commits, txns (commits in a
\* transaction), admin, faults: how often each happens; a client that lives and is late costs a
\* fault, or in a KIP-848 group, late.
\* delay: group_initial_rebalance_delay_ms > 0.  protos: what assignors each classic member offers.
\* grown: the partitions the topic has, before and after it grows.
\* kinds: how share records are acknowledged.  sql: they are acquired from SQL too.
\* cap: MAX_INFLIGHT_ROWS of a share partition.
ScenarioType ==
    [clients : [Protocols -> SUBSET Members], joins : Nat, hangups : Nat, leaves : Nat, commits : Nat,
     txns : Nat, admin : Nat, faults : Nat, late : Nat, delay : BOOLEAN, protos : [Members -> SUBSET {"a", "b"}],
     grown : [1 .. 2 -> Nat], kinds : SUBSET {"accept", "release", "reject", "renew", "gap"},
     sql : BOOLEAN, cap : Nat]
ASSUME ScenarioAssumption == Scenarios \subseteq ScenarioType
ASSUME MemberAssumption == Members \subseteq Nat \ {Nobody}

VARIABLES
    scenario,
    rows,    \* the protocols that have a row for the group id
    offset,  \* the offset of each partition, as who committed it: see NoOffsets
    spent    \* how much of the scenario's counts is used up

\* No row.  A commit without a member has generation -1.
NoOffset == [m |-> Nobody, gen |-> -2]
\* kept: kafgres_offsets.  staged: kafgres_txn_offsets, of the producer of each client.  read: the
\* clients that know where to go on in a partition, and since which generation.
NoOffsets == [kept |-> [p \in Partitions |-> NoOffset],
              staged |-> [m \in Members |-> [p \in Partitions |-> NoOffset]], read |-> {}]
Counts == {"joins", "hangups", "leaves", "commits", "txns", "admin", "faults", "late"}

Left(what) == spent[what] < scenario[what]
Spend(what) == Left(what) /\ spent' = [spent EXCEPT ![what] = @ + 1]

\* The element of a singleton.  Only({F(x) : x \in {e}}) is F(e) with e evaluated once.
Only(S) == CHOOSE x \in S : TRUE

IdsInit == /\ scenario \in Scenarios
           /\ rows = {}
           /\ offset = NoOffsets
           /\ spent = [c \in Counts |-> 0]

=============================================================================
