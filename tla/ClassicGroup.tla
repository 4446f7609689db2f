---------------------------- MODULE ClassicGroup ----------------------------
(***************************************************************************)
(* A classic consumer group: JoinGroup and SyncGroup, which park, the      *)
(* heartbeats, leaving, the session sweep, and the pass that completes     *)
(* what is parked.  The member with the least id leads and computes the    *)
(* assignment; the broker only hands it on.                                *)
(*                                                                         *)
(* `v' is the group's row with the rows of its members; the operators in   *)
(* lower case are the functions of group.rs and join_sync.rs on it.        *)
(***************************************************************************)
EXTENDS GroupIds, FiniteSetsExt

VARIABLES
    v,        \* kafgres_groups and kafgres_group_members
    parked,   \* Server.parked: joins and syncs
    changed,  \* Server.groups_changed has the group
    client    \* the clients, see NewClient

classicVars == <<v, parked, changed, client>>

\* An assignment: what a member is to own, and the generation it was computed for.
Null == [of |-> -1, own |-> {}]
NoGroup == [state |-> "none", gen |-> 0, leader |-> Nobody, due |-> "null", window |-> "null",
            mem |-> <<>>]
\* at: out, joining, joined, syncing, stable, rejoin or gone.  view: the members, for a leader.
NewClient == [at |-> "out", gen |-> -1, view |-> {}, got |-> Null]

Ids == DOMAIN v.mem
Least(S) == CHOOSE m \in S : \A n \in S : m <= n

-----------------------------------------------------------------------------
(* group.rs *)

ensure(g) == IF g.state = "none" THEN [NoGroup EXCEPT !.state = "Empty"] ELSE g

\* Mutant: a rebalance leaves the assignments of the last generation.
Unassigned_Not(mem) == mem

\* UPDATE ... SET assignment = NULL
Unassigned(mem) == [m \in DOMAIN mem |-> [mem[m] EXCEPT !.got = Null]]

join(g, m) ==
    LET u == ensure(g)
        row == [joined |-> u.gen + 1, got |-> IF m \in DOMAIN u.mem THEN u.mem[m].got ELSE Null,
                lapsed |-> FALSE]
        w == [u EXCEPT !.mem = (m :> row) @@ @]
    IN IF u.state # "Preparing"
       THEN [w EXCEPT !.state = "Preparing", !.due = "ahead", !.mem = Unassigned(@),
                      !.window = IF scenario.delay /\ u.state = "Empty" THEN "ahead" ELSE "null"]
       ELSE IF scenario.delay /\ u.window # "null" THEN [w EXCEPT !.window = u.due] ELSE w

join_window_closed(g) ==
    \/ (\A m \in DOMAIN g.mem : g.mem[m].joined > g.gen) /\ g.window # "ahead"
    \/ g.due = "past"

Rejoined(g) == {m \in DOMAIN g.mem : g.mem[m].joined > g.gen}

complete_join(g) ==
    LET left == Restrict(g.mem, Rejoined(g))
        ended == [g EXCEPT !.mem = left, !.gen = @ + 1, !.due = "null", !.window = "null"]
        common == {a \in {"a", "b"} : \A m \in DOMAIN left : a \in scenario.protos[m]}
    IN CASE left = <<>> -> [ok |-> TRUE, g |-> [ended EXCEPT !.state = "Empty", !.leader = Nobody]]
         [] left # <<>> /\ common = {} -> [ok |-> FALSE, g |-> [g EXCEPT !.mem = left]]
         [] OTHER -> [ok |-> TRUE, g |-> [ended EXCEPT !.state = "Completing", !.leader = Least(DOMAIN left)]]

\* Those the leader does not name get an empty assignment, not none.
apply_assignments(g, given) ==
    [g EXCEPT !.state = "Stable",
              !.mem = [m \in DOMAIN @ |->
                 [@[m] EXCEPT !.got = CASE m \in DOMAIN given -> [of |-> g.gen, own |-> given[m]]
                                        [] m \notin DOMAIN given /\ @ = Null -> [of |-> g.gen, own |-> {}]
                                        [] OTHER -> @]]]

touch_heartbeat(g, m) == IF m \in DOMAIN g.mem THEN [g EXCEPT !.mem[m].lapsed = FALSE] ELSE g

Rebalanced(g) == IF g.mem # <<>> THEN "Preparing" ELSE "Empty"

open_rebalance(g) == [g EXCEPT !.state = Rebalanced(g), !.due = "ahead", !.window = "null",
                               !.mem = Unassigned(@)]

leave(g, m) == IF m \notin DOMAIN g.mem THEN g
               ELSE open_rebalance([g EXCEPT !.mem = Restrict(@, DOMAIN @ \ {m})])

\* Mutant: only a stable group is swept.
Lapsed_Stable(g) == {m \in DOMAIN g.mem : g.state = "Stable" /\ g.mem[m].lapsed}

Lapsed(g) == {m \in DOMAIN g.mem : g.mem[m].lapsed}
sweep(g) == IF Lapsed(g) = {} THEN g
            ELSE open_rebalance([g EXCEPT !.mem = Restrict(@, DOMAIN @ \ Lapsed(g))])

groups_past_deadline(g) == g.state = "Preparing" /\ (g.due = "past" \/ g.window = "past")

-----------------------------------------------------------------------------
(* What an answer does to the client that waits for it. *)

\* The client lost its membership, or has to rejoin but is still a member.
Lost(c) == [c EXCEPT !.at = "out", !.gen = -1, !.view = {}, !.got = Null]
Again(c) == [c EXCEPT !.at = "rejoin"]

join_response(g, c, m) ==
    IF c.at # "joining" THEN c
    ELSE IF m \notin DOMAIN g.mem THEN Lost(c)
    ELSE [c EXCEPT !.at = "joined", !.gen = g.gen,
                   !.view = IF g.leader = m THEN DOMAIN g.mem ELSE {}]

\* sync_response: Waits when the leader has not delivered yet.
sync_response(g, m) ==
    CASE m \notin DOMAIN g.mem -> [k |-> "UnknownMemberId", got |-> Null]
      [] m \in DOMAIN g.mem /\ g.state = "Preparing" -> [k |-> "RebalanceInProgress", got |-> Null]
      [] OTHER -> [k |-> IF g.mem[m].got = Null THEN "Waits" ELSE "None", got |-> g.mem[m].got]

Synced(c, r) ==
    CASE c.at # "syncing" -> c
      [] c.at = "syncing" /\ r.k = "None" -> [c EXCEPT !.at = "stable", !.got = r.got]
      [] c.at = "syncing" /\ r.k \in {"UnknownMemberId", "IllegalGeneration"} -> Lost(c)
      [] OTHER -> Again(c)

-----------------------------------------------------------------------------
(* The handlers. *)

Entry(k, m) == [k |-> k, m |-> m, late |-> 0]

\* A client that rejoins gives up what it owned first.  full: the parking is at its cap.
JoinGroup(m, full) ==
    LET c == [client[m] EXCEPT !.at = "joining", !.got = Null]
    IN /\ client[m].at \in {"out", "rejoin", "stable"} /\ Spend("joins")
       /\ full => scenario.faults > 0
       /\ v' = join(v, m) /\ rows' = rows \cup {"classic"} /\ changed' = TRUE
       /\ IF full THEN client' = [client EXCEPT ![m] = Again(c)] /\ UNCHANGED parked
          ELSE client' = [client EXCEPT ![m] = c] /\ parked' = Append(parked, Entry("join", m))
       /\ UNCHANGED <<scenario, offset>>

\* sync_group's checks.
sync_refusal(m, gen) ==
    CASE m \notin Ids -> "UnknownMemberId"
      [] m \in Ids /\ gen # v.gen -> "IllegalGeneration"
      [] m \in Ids /\ gen = v.gen /\ v.state = "Preparing" -> "RebalanceInProgress"
      [] OTHER -> "None"

\* The leader sends an assignment for the members it was told; one of them owns the topic.
SyncGroup(m, full, owner) ==
    LET c == [client[m] EXCEPT !.at = "syncing"]
        code == sync_refusal(m, c.gen)
        given == [n \in c.view |-> IF n = owner THEN 1 .. scenario.grown[1] ELSE {}]
        g == IF code = "None" /\ v.leader = m /\ c.view # {} THEN apply_assignments(v, given) ELSE v
        r == IF code # "None" THEN [k |-> code, got |-> Null] ELSE sync_response(g, m)
    IN /\ client[m].at = "joined"
       /\ owner \in IF c.view = {} THEN {Nobody} ELSE c.view
       /\ full => scenario.faults > 0 /\ r.k = "Waits"
       /\ v' = g /\ changed' = TRUE
       /\ IF r.k = "Waits" /\ ~full
          THEN parked' = Append(parked, Entry("sync", m)) /\ client' = [client EXCEPT ![m] = c]
          ELSE UNCHANGED parked /\ client' = [client EXCEPT ![m] = Synced(c, r)]
       /\ UNCHANGED <<scenario, rows, offset, spent>>

heartbeat_code(m, gen) ==
    CASE m \notin Ids \/ (gen = v.gen /\ v.state = "Empty") -> "UnknownMemberId"
      [] m \in Ids /\ gen # v.gen -> "IllegalGeneration"
      [] m \in Ids /\ gen = v.gen /\ v.state \in {"Preparing", "Completing"} -> "RebalanceInProgress"
      [] OTHER -> "None"

\* A client that will not join again says nothing any more.
Silent(m) == \/ client[m].at = "gone"
             \/ client[m].at \in {"out", "rejoin"} /\ ~Left("joins")

\* A client in the middle of a rebalance goes on with its sync.
Heartbeat(m) ==
    LET code == heartbeat_code(m, client[m].gen)
    IN /\ ~Silent(m) /\ client[m].at \in {"joined", "stable", "rejoin"} /\ client[m].gen >= 0
       /\ v' = IF m \in Ids /\ client[m].gen = v.gen THEN touch_heartbeat(v, m) ELSE v
       /\ client' = [client EXCEPT ![m] =
            CASE code \in {"UnknownMemberId", "IllegalGeneration"} -> Lost(@)
              [] code = "RebalanceInProgress" /\ @.at = "stable" -> Again(@)
              [] OTHER -> @]
       /\ UNCHANGED <<scenario, rows, offset, spent, parked, changed>>

LeaveRings == TRUE

\* A client leaves, or somebody else removes the member (goes = FALSE).
LeaveGroup(m, goes) ==
    /\ m \in scenario.clients["classic"] /\ Spend("leaves")
    /\ goes => client[m].at # "gone"
    /\ v' = leave(v, m) /\ changed' = LeaveRings
    /\ client' = [client EXCEPT ![m] = IF goes THEN [@ EXCEPT !.at = "gone"] ELSE @]
    /\ parked' = IF goes THEN SelectSeq(parked, LAMBDA e : e.m # m) ELSE parked
    /\ UNCHANGED <<scenario, rows, offset>>

\* The connection breaks; a client that comes back asks again for what it waits for.
HangUp(m, back) ==
    /\ m \in scenario.clients["classic"] /\ client[m].at # "gone" /\ Spend("hangups")
    /\ back => client[m].at \in {"joining", "syncing"}
    /\ parked' = SelectSeq(parked, LAMBDA e : e.m # m)
    /\ client' = [client EXCEPT ![m] = IF back THEN Again(@) ELSE [@ EXCEPT !.at = "gone"]]
    /\ UNCHANGED <<scenario, rows, offset, v, changed>>

-----------------------------------------------------------------------------
(* The broker's passes. *)

touch_parked(g) ==
    [g EXCEPT !.mem = [m \in DOMAIN @ |-> [@[m] EXCEPT !.lapsed = @ /\ \A e \in Range(parked) : e.m # m]]]

\* expire_group_members
ExpireGroupMembers ==
    LET g == sweep(touch_parked(v))
    IN /\ v' = g
       /\ changed' = (changed \/ Lapsed(touch_parked(v)) # {} \/ groups_past_deadline(g))
       /\ UNCHANGED <<scenario, rows, offset, spent, parked, client>>

\* What complete_parked does with one join.
CompleteJoin(s, e) ==
    LET cut == s.g.state = "Preparing" /\ (e.late > 0 \/ join_window_closed(s.g))
        done == IF cut THEN complete_join(s.g) ELSE [ok |-> TRUE, g |-> s.g]
        c == s.client[e.m]
    IN CASE ~done.ok -> [s EXCEPT !.g = done.g, !.client[e.m] = IF c.at = "joining" THEN Lost(c) ELSE c]
         [] done.ok /\ done.g.state \in {"Preparing", "none"} ->
              [s EXCEPT !.g = done.g, !.still = Append(@, e)]
         [] OTHER -> [s EXCEPT !.g = done.g, !.client[e.m] = join_response(done.g, c, e.m)]

CompleteSync(s, e) ==
    LET r == sync_response(s.g, e.m)
    IN IF r.k = "Waits" /\ e.late = 0 THEN [s EXCEPT !.still = Append(@, e)]
       ELSE [s EXCEPT !.client[e.m] = Synced(@, r)]

\* busy: a table lock is held.  An entry waits for it up to MAX_LOCK_RETRY past its deadline.
CompleteOne(s, e, busy) ==
    CASE e.late = 0 /\ ~changed -> [s EXCEPT !.still = Append(@, e)]
      [] (e.late > 0 \/ changed) /\ busy ->
           IF e.late < 2 THEN [s EXCEPT !.still = Append(@, e), !.rung = TRUE]
           ELSE [s EXCEPT !.client[e.m] = IF @.at = "gone" THEN @ ELSE Again(@)]
      [] OTHER -> IF e.k = "join" THEN CompleteJoin(s, e) ELSE CompleteSync(s, e)

CompleteParked(busy) ==
    LET Step(e, acc) == Only({CompleteOne(s, e, busy) : s \in {acc}})
        first == [g |-> v, client |-> client, still |-> <<>>, rung |-> FALSE]
    IN /\ parked # <<>> \/ changed
       /\ IF busy THEN parked # <<>> /\ Spend("faults") ELSE UNCHANGED spent
       /\ \E s \in {MapThenFoldSet(Step, first, LAMBDA i : parked[i], Max, DOMAIN parked)} :
            v' = s.g /\ client' = s.client /\ parked' = s.still /\ changed' = s.rung
       /\ UNCHANGED <<scenario, rows, offset>>

-----------------------------------------------------------------------------
(* Time. *)

ClassicTime == UNCHANGED <<scenario, rows, offset, spent, client, changed>>

Lapse(m) == /\ m \in Ids /\ ~v.mem[m].lapsed /\ v' = [v EXCEPT !.mem[m].lapsed = TRUE]
            /\ IF Silent(m) THEN UNCHANGED spent ELSE Spend("faults")
            /\ UNCHANGED <<scenario, rows, offset, client, changed, parked>>

\* The window never outlives the deadline.
WindowPasses == /\ v.window = "ahead" /\ v' = [v EXCEPT !.window = "past"]
                /\ ClassicTime /\ UNCHANGED parked
DeadlinePasses == /\ v.state = "Preparing" /\ v.due = "ahead" /\ v.window # "ahead"
                  /\ v' = [v EXCEPT !.due = "past"]
                  /\ ClassicTime /\ UNCHANGED parked

\* The deadline of a parked request, and the time after it that it may wait for a lock.
Elapse(i) == /\ i \in DOMAIN parked /\ parked[i].late < 2
             /\ parked' = [parked EXCEPT ![i].late = @ + 1]
             /\ ClassicTime /\ UNCHANGED v

-----------------------------------------------------------------------------
(* validate_classic: whether member m of generation gen may commit, in a transaction (tx) or not; *)
(* Nobody is a commit without a member.                                                           *)

validate_classic(g, m, gen, tx) ==
    IF m = Nobody THEN tx \/ g.state \in {"none", "Empty"}
    ELSE m \in DOMAIN g.mem /\ gen = g.gen /\ (tx \/ g.state # "Completing")

ClassicInit == /\ v = NoGroup /\ parked = <<>> /\ changed = FALSE
               /\ client = [m \in Members |->
                    IF m \in scenario.clients["classic"] THEN NewClient ELSE [NewClient EXCEPT !.at = "gone"]]

ClassicServes == \/ ExpireGroupMembers \/ CompleteParked(FALSE)
ClassicFollows(m) == \/ \E full \in BOOLEAN : JoinGroup(m, full)
                     \/ \E full \in BOOLEAN, owner \in Members \cup {Nobody} : SyncGroup(m, full, owner)
                     \/ Heartbeat(m)

ClassicNext ==
    \/ ClassicServes \/ CompleteParked(TRUE)
    \/ WindowPasses \/ DeadlinePasses
    \/ \E i \in DOMAIN parked : Elapse(i)
    \/ \E m \in Members : \/ ClassicFollows(m) \/ Lapse(m)
                          \/ \E b \in BOOLEAN : LeaveGroup(m, b) \/ HangUp(m, b)

=============================================================================
