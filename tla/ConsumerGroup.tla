--------------------------- MODULE ConsumerGroup ----------------------------
(***************************************************************************)
(* A KIP-848 consumer group: the broker assigns, and one heartbeat does    *)
(* everything else.  A partition moves in two steps: its owner is told to  *)
(* give it up and says so in a later heartbeat, and only then its new      *)
(* owner is granted it.                                                    *)
(*                                                                         *)
(* `k' is the group's row with the rows of its members.  One topic, which  *)
(* may grow; a member subscribes to it or does not.                        *)
(***************************************************************************)
EXTENDS GroupIds

VARIABLES
    k,        \* kafgres_consumer_groups and kafgres_consumer_group_members
    parts,    \* the partitions the topic has
    consumer  \* the clients, see NewConsumer

consumerVars == <<k, parts, consumer>>

NoConsumers == [epoch |-> 0, assigned |-> 0, stale |-> FALSE, mem |-> <<>>]
\* revoking: revoking_since, "no", "on" or past the member's rebalance timeout.
NewRow == [epoch |-> 0, subscribed |-> FALSE, owned |-> {}, granted |-> {}, target |-> {},
           departed |-> FALSE, revoking |-> "no", lapsed |-> FALSE]
\* own: what the client consumes.  told: the last assignment.  said: it reported that it has done
\* what it was told.  resend: an answer was lost, so the next heartbeat says everything again.
NewConsumer == [at |-> "out", epoch |-> 0, wants |-> TRUE, own |-> {}, told |-> {}, said |-> TRUE,
                resend |-> FALSE]

-----------------------------------------------------------------------------
(* assign: the partitions of a topic go round the members that want it. *)

RankIn(S, m) == Cardinality({n \in S : n < m})

assign(mem, ps) ==
    LET wants == {m \in DOMAIN mem : mem[m].subscribed}
    IN [m \in DOMAIN mem |-> {p \in ps : m \in wants /\ (p - 1) % Cardinality(wants) = RankIn(wants, m)}]

bump_epoch(g) == [g EXCEPT !.epoch = @ + 1, !.stale = FALSE]

recompute_target(g) ==
    LET target == assign(g.mem, parts)
    IN [g EXCEPT !.assigned = g.epoch, !.stale = FALSE,
                 !.mem = [m \in DOMAIN @ |-> [@[m] EXCEPT !.target = target[m]]]]

\* Mutant: only when the epoch moved.
Assignment_Due_Epoch(g) == g.assigned # g.epoch

Assignment_Due(g) == g.assigned # g.epoch \/ g.stale

\* Mutant: only what a member said it owns counts, not what it was granted since.
Holds_Said(row) == row.owned

Holds(row) == row.owned \cup row.granted

\* granted shrinks only by what the member itself reported; a report may be absent.
Kept(row, report) == IF report = {} THEN row.granted ELSE row.granted \cap UNION report

Caught_Up(grantable, target) == grantable = target

Assigned(g) == IF Assignment_Due(g) THEN recompute_target(g) ELSE g

\* What somebody holds that is to be another's.
held_elsewhere(mem) == UNION {Holds(mem[m]) \ mem[m].target : m \in DOMAIN mem}

Granted(row, epoch, grantable, report) ==
    LET granted == Kept(row, report) \cup grantable
    IN [row EXCEPT !.epoch = IF Caught_Up(grantable, row.target) THEN epoch ELSE @,
                   !.granted = granted, !.lapsed = FALSE,
                   !.revoking = IF granted \subseteq row.target THEN "no" ELSE IF @ = "no" THEN "on" ELSE @]

\* The new rows, and the answer's epoch and assignment.
reconcile(g, me, report) ==
    LET Answer(h, x) ==
          LET row == Granted(h.mem[me], h.epoch, x, report)
          IN [g |-> [h EXCEPT !.mem[me] = row], epoch |-> row.epoch, assignment |-> x]
    IN Only({Answer(h, h.mem[me].target \ held_elsewhere(h.mem)) : h \in {Assigned(g)}})

-----------------------------------------------------------------------------
(* heartbeat *)

\* The group without the rows of S, and with this row of m.
Without(g, S) == [g EXCEPT !.mem = Restrict(@, DOMAIN @ \ S)]
With(g, m, row) == [g EXCEPT !.mem = [n \in DOMAIN @ \cup {m} |-> IF n = m THEN row ELSE @[n]]]

Removed(g, m) == bump_epoch(Without(g, {m}))

\* The client's membership ended; it stops consuming before it joins again.
Fenced(c) == [NewConsumer EXCEPT !.wants = c.wants]

Told(c, r) == [c EXCEPT !.at = "in", !.epoch = r.epoch, !.told = r.assignment,
                        !.said = r.assignment = c.told /\ (@ \/ c.own = c.told), !.resend = FALSE]

Stale(row, epoch) == epoch # 0 /\ epoch # row.epoch

upsert_member(row, c, full) ==
    [row EXCEPT !.subscribed = c.wants, !.owned = IF full THEN c.own ELSE @, !.departed = FALSE, !.lapsed = FALSE]

\* A static member that comes back under another id adopts the row it left.
Adopted(g, m, held) ==
    IF held = m THEN g
    ELSE With(Without(g, {held}), m, [g.mem[held] EXCEPT !.departed = FALSE, !.lapsed = FALSE,
                                                               !.revoking = "no"])

\* What the member says is written down; a new member or subscription makes an assignment due.
Upserted(g, m, c, full) ==
    LET known == m \in DOMAIN g.mem
        row == IF known THEN g.mem[m] ELSE NewRow
        h == With(g, m, upsert_member(row, c, full))
    IN IF ~known \/ row.subscribed # c.wants THEN bump_epoch(h) ELSE h

\* What becomes of the rows g and of the client c.
Heard(g, m, c) ==
    LET full == c.at = "out" \/ c.resend \/ (~c.said /\ c.own = c.told)
        known == m \in DOMAIN g.mem
        After(r) == [k |-> r.g, c |-> Told(c, r)]
    IN IF (~known /\ c.epoch # 0) \/ (known /\ Stale(g.mem[m], c.epoch)) THEN [k |-> g, c |-> Fenced(c)]
       ELSE IF known /\ g.mem[m].revoking = "past" THEN [k |-> Removed(g, m), c |-> Fenced(c)]
       ELSE Only({After(r) : r \in {reconcile(Upserted(g, m, c, full), m, IF full THEN {c.own} ELSE {})}})

\* held: the row it is found under, its own or one it adopts.  got: the answer arrives.
ConsumerHeartbeat(m, held, got) ==
    LET c == consumer[m]
    IN /\ c.at \in {"out", "in"} /\ m \in scenario.clients["consumer"]
       /\ held # m => /\ c.at = "out" /\ m \notin DOMAIN k.mem
                      /\ held \in DOMAIN k.mem /\ k.mem[held].departed
       /\ IF c.at = "out" THEN got /\ Spend("joins") ELSE IF got THEN UNCHANGED spent ELSE Spend("hangups")
       /\ IF rows \cap {"classic", "share"} # {}
          THEN /\ consumer' = [consumer EXCEPT ![m] = [Fenced(c) EXCEPT !.at = "gone"]]
               /\ UNCHANGED <<k, rows>>
          ELSE /\ rows' = rows \cup {"consumer"}
               /\ \E d \in {Heard(Adopted(k, m, held), m, c)} :
                    /\ k' = d.k
                    /\ consumer' = [consumer EXCEPT ![m] = IF got THEN d.c ELSE [c EXCEPT !.resend = TRUE]]
       /\ UNCHANGED <<scenario, offset, parts>>

\* member_epoch -1: the member goes.  -2: a static member that will be back keeps its row.
ConsumerLeave(m, static) ==
    /\ consumer[m].at = "in" /\ Spend("leaves")
    /\ k' = IF m \notin DOMAIN k.mem \/ rows \cap {"classic", "share"} # {} THEN k
            ELSE IF static THEN [k EXCEPT !.mem[m].departed = TRUE]
            ELSE Removed(k, m)
    /\ consumer' = [consumer EXCEPT ![m] = [Fenced(@) EXCEPT !.at = "gone"]]
    /\ UNCHANGED <<scenario, rows, offset, parts>>

\* expire_members
ExpireConsumers ==
    LET gone == {m \in DOMAIN k.mem : k.mem[m].lapsed}
    IN /\ gone # {}
       /\ k' = bump_epoch(Without(k, gone))
       /\ UNCHANGED <<scenario, rows, offset, spent, parts, consumer>>

-----------------------------------------------------------------------------
(* The clients, and time. *)

\* It gives up what it is no longer assigned, and only then takes on what is new.
Revoke(m) == /\ consumer[m].at = "in" /\ ~(consumer[m].own \subseteq consumer[m].told)
             /\ consumer' = [consumer EXCEPT ![m].own = @ \cap consumer[m].told]
             /\ UNCHANGED <<scenario, rows, offset, spent, k, parts>>
TakeOn(m) == /\ consumer[m].at = "in" /\ consumer[m].own \subseteq consumer[m].told
             /\ consumer[m].own # consumer[m].told
             /\ consumer' = [consumer EXCEPT ![m].own = consumer[m].told]
             /\ UNCHANGED <<scenario, rows, offset, spent, k, parts>>

\* The client crashes.
ConsumerCrash(m) == /\ consumer[m].at = "in" /\ Spend("faults")
                    /\ consumer' = [consumer EXCEPT ![m] = [Fenced(@) EXCEPT !.at = "gone"]]
                    /\ UNCHANGED <<scenario, rows, offset, k, parts>>

Resubscribe(m) == /\ consumer[m].at = "in" /\ Spend("admin")
                  /\ consumer' = [consumer EXCEPT ![m].wants = ~@]
                  /\ UNCHANGED <<scenario, rows, offset, k, parts>>

\* The topic gets partitions; nothing tells the group but the age of its assignment.
Grow == /\ parts # 1 .. scenario.grown[2] /\ parts' = 1 .. scenario.grown[2]
        /\ UNCHANGED <<scenario, rows, offset, spent, k, consumer>>

ConsumerTime == UNCHANGED <<scenario, rows, offset, parts, consumer>>
Reassign == /\ ~k.stale /\ scenario.grown[1] # scenario.grown[2]
            /\ k' = [k EXCEPT !.stale = TRUE] /\ UNCHANGED spent /\ ConsumerTime
RevokePast(m) == /\ m \in DOMAIN k.mem /\ k.mem[m].revoking = "on"
                 /\ k' = [k EXCEPT !.mem[m].revoking = "past"] /\ Spend("late") /\ ConsumerTime
\* A client that is gone for good heartbeats no more; a live one may be late.
Absent(m) == consumer[m].at = "gone" \/ (consumer[m].at = "out" /\ ~Left("joins"))
ConsumerLapse(m) == /\ m \in DOMAIN k.mem /\ ~k.mem[m].lapsed
                    /\ k' = [k EXCEPT !.mem[m].lapsed = TRUE] /\ ConsumerTime
                    /\ IF Absent(m) THEN UNCHANGED spent ELSE Spend("late")

-----------------------------------------------------------------------------

\* validate_consumer_group, for one partition; Nobody is a commit without a member.
validate_consumer_group(m, epoch, p, tx) ==
    IF m = Nobody THEN tx \/ k.mem = <<>>
    ELSE /\ m \in DOMAIN k.mem
         /\ \/ epoch = k.mem[m].epoch
            \/ epoch < k.mem[m].epoch /\ p \in Holds(k.mem[m])

ConsumerInit == /\ k = NoConsumers /\ parts = 1 .. scenario.grown[1]
                /\ consumer = [m \in Members |->
                     IF m \in scenario.clients["consumer"] THEN NewConsumer ELSE [NewConsumer EXCEPT !.at = "gone"]]

ConsumerFollows(m) == ConsumerHeartbeat(m, m, TRUE) \/ Revoke(m) \/ TakeOn(m)

ConsumerNext ==
    \/ ExpireConsumers \/ Grow \/ Reassign
    \/ \E m \in Members : \/ ConsumerFollows(m) \/ ConsumerCrash(m) \/ Resubscribe(m)
                          \/ RevokePast(m) \/ ConsumerLapse(m)
                          \/ ConsumerHeartbeat(m, m, FALSE)
                          \/ \E static \in BOOLEAN : ConsumerLeave(m, static)
                          \/ \E n \in Members \ {m} : ConsumerHeartbeat(m, n, TRUE)

-----------------------------------------------------------------------------

GrantedApart(g) == \A m, n \in DOMAIN g.mem : m # n => g.mem[m].granted \cap g.mem[n].granted = {}

\* So far no answer was lost, and no member was taken for gone that was there.
Punctual == spent["hangups"] = 0 /\ spent["late"] = 0

\* A partition is granted to one member at a time, whatever the clients do, and is granted to
\* another only when the member that had it said that it gave it up, left or was removed: as long
\* as the clients are punctual, no two of them consume it at the same time.
HandedOver ==
    /\ GrantedApart(k)
    /\ Punctual => \A m, n \in Members : m # n => consumer[m].own \cap consumer[n].own = {}

MemberRow == [epoch : Nat, subscribed : BOOLEAN, owned : SUBSET Nat, granted : SUBSET Nat, target : SUBSET Nat,
              departed : BOOLEAN, revoking : {"no", "on", "past"}, lapsed : BOOLEAN]
MemberRows(g) ==
    /\ g \in [epoch : Nat, assigned : Nat, stale : BOOLEAN, mem : [DOMAIN g.mem -> MemberRow]]
    /\ DOMAIN g.mem \subseteq Members /\ IsFiniteSet(DOMAIN g.mem)
Client == [at : {"out", "in", "gone"}, epoch : Nat, wants : BOOLEAN, own : SUBSET Nat, told : SUBSET Nat,
           said : BOOLEAN, resend : BOOLEAN]
ConsumerTypeOK ==
    /\ scenario \in Scenarios /\ spent \in [Counts -> Nat]
    /\ MemberRows(k) /\ consumer \in [Members -> Client] /\ parts \in SUBSET Nat

TargetsApart(g) == \A m, n \in DOMAIN g.mem : m # n => g.mem[m].target \cap g.mem[n].target = {}

\* A client c that is in has a row r, and the broker knows of what it holds and was told to hold;
\* one whose row lapsed or is kept for its return is not in.
RowOf(c, r, joins) ==
    /\ c.own \cup c.told \subseteq r.granted
    /\ r.departed => c.at = "gone"
    /\ r.lapsed => c.at # "in" /\ (c.at = "out" => ~joins)
ClientOK(c, m, g, joins) ==
    /\ c.at # "in" => c.epoch = 0 /\ c.own = {} /\ c.told = {}
    /\ c.at = "in" => m \in DOMAIN g.mem
    /\ m \in DOMAIN g.mem => RowOf(c, g.mem[m], joins)

\* The inductive invariant of HandedOver.
ConsumerInv ==
    /\ ConsumerTypeOK /\ TargetsApart(k) /\ GrantedApart(k)
    /\ Punctual => \A m \in Members : ClientOK(consumer[m], m, k, Left("joins"))

=============================================================================
