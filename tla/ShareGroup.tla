----------------------------- MODULE ShareGroup -----------------------------
(***************************************************************************)
(* A share group (KIP-932) on one partition: its members take records from *)
(* a queue under a lock, and accept, release or reject each one.  A lock   *)
(* that lapses puts its record back; a record delivered too often is       *)
(* archived.  The start offset moves over what is finished at the head.    *)
(*                                                                         *)
(* `q' is what the tables hold.  The broker works on it one request at a   *)
(* time; kafgres_share_acquire works on it from any backend.               *)
(***************************************************************************)
EXTENDS GroupIds, FiniteSetsExt

CONSTANTS
    Records,                \* the partition holds offsets 0 .. Records - 1
    MAX_RECORD_LOCKS, MAX_DELIVERY_ATTEMPTS

ASSUME ShareAssumption == {Records, MAX_RECORD_LOCKS, MAX_DELIVERY_ATTEMPTS} \subseteq Nat

VARIABLES
    q,       \* kafgres_share_offsets, kafgres_share_inflight, kafgres_share_members
    worker,  \* the clients: at, and the records each believes it holds
    sqlFrom, \* a backend in kafgres_share_acquire: the start offset it has read, or -1
    fate     \* what became of each record: who accepted it, how often it was handed out, if it is finished

shareVars == <<q, worker, sqlFrom, fate>>

Offsets == 0 .. Records - 1
MAX_INFLIGHT_ROWS == scenario.cap
\* Nobody had any record; those before an offset count as finished.
FreshFrom(to) == [by |-> [o \in Offsets |-> {}], times |-> [o \in Offsets |-> 0], done |-> 0 .. to - 1]
\* The row of a record nobody holds.
Free(row) == [row EXCEPT !.member = Nobody, !.until = "none"]

-----------------------------------------------------------------------------

\* The first offset that is not finished, from the start on.
Head_Next(s) == Min({o \in s.start .. Records : o \notin DOMAIN s.rec \/ s.rec[o].state = "acquired"})

advance_start_offset(s) ==
    LET next == Head_Next(s)
    IN [s EXCEPT !.start = next, !.rec = Restrict(@, {o \in DOMAIN @ : o >= next})]

Live(row) == row.until = "ahead"
\* generate_series ... WHERE NOT EXISTS ... ORDER BY ... LIMIT
Candidates(s, from, limit) ==
    LET open == {o \in from .. Records - 1 :
                   o \notin DOMAIN s.rec \/ (s.rec[o].state = "acquired" /\ ~Live(s.rec[o]))}
    IN {o \in open : Cardinality({x \in open : x <= o}) <= limit}

\* INSERT ... ON CONFLICT
Handed(s, o, m) ==
    LET n == IF o \in DOMAIN s.rec THEN s.rec[o].n + 1 ELSE 1
    IN IF n > MAX_DELIVERY_ATTEMPTS
       THEN [state |-> "archived", n |-> n, member |-> Nobody, until |-> "none"]
       ELSE [state |-> "acquired", n |-> n, member |-> m, until |-> "ahead"]

\* Mutant: what acquiring finished does not move the start.
Acquired_Still(s) == s

Acquired(s) == advance_start_offset(s)

\* The new tables, what is handed out, and what is finished without being handed out.
acquire(s, m, from, limit) ==
    LET held == Cardinality({o \in DOMAIN s.rec : s.rec[o].state = "acquired" /\ Live(s.rec[o])})
        room == MAX_RECORD_LOCKS - held
        taken == Candidates(s, from, IF limit < room THEN limit ELSE room)
        t == [s EXCEPT !.rec = [o \in DOMAIN @ \cup taken |-> IF o \in taken THEN Handed(s, o, m) ELSE @[o]]]
    IN IF Cardinality(DOMAIN s.rec) >= MAX_INFLIGHT_ROWS \/ room <= 0
       THEN [s |-> s, out |-> {}, finished |-> {}]
       ELSE [s |-> Acquired(t), out |-> {o \in taken : t.rec[o].state = "acquired"},
             finished |-> {o \in taken : t.rec[o].state = "archived"}]

-----------------------------------------------------------------------------
(* Acknowledgements: a batch has a range and one type, or a type for each offset. *)

Finishing == {"accept", "reject"}
\* From one record the client believes it holds to another; one: a single type for all of them.
Batches(offs) ==
    UNION {{[first |-> r[1], last |-> r[2], kind |-> t, one |-> FALSE] : t \in [r[1] .. r[2] -> scenario.kinds]}
             \cup {[first |-> r[1], last |-> r[2], kind |-> [o \in r[1] .. r[2] |-> t], one |-> TRUE] :
                      t \in {x \in scenario.kinds : r[1] < r[2]}} :
             r \in {x \in offs \X offs : x[1] <= x[2]}}
NoBatch == [first |-> 0, last |-> -1, kind |-> <<>>, one |-> FALSE]

\* Mutant: any member may finish a record that is out.
Mine_Any(s, o, m) == o \in DOMAIN s.rec

\* WHERE ... AND member_id = $5
Mine(s, o, m) == o \in DOMAIN s.rec /\ s.rec[o].member = m

\* The attempt stays counted.
Released(row) == Free(row)

Settled(row, kind) ==
    CASE kind = "accept" -> [Free(row) EXCEPT !.state = "acked"]
      [] kind \in {"reject", "gap"} -> [Free(row) EXCEPT !.state = "archived"]
      [] kind = "release" -> Released(row)
      [] kind = "renew" -> IF row.state = "acquired" THEN [row EXCEPT !.until = "ahead"] ELSE row

\* Which offsets a batch changes; it fails at the first it must hold and does not, and a failure
\* leaves the start offset where it is.
acknowledge(s, m, b) ==
    LET range == b.first .. b.last
        missed == {o \in range : b.kind[o] \in Finishing /\ ~Mine(s, o, m)}
        stop == IF b.one \/ missed = {} THEN b.last ELSE Min(missed) - 1
        done == {o \in b.first .. stop : Mine(s, o, m)}
        t == [s EXCEPT !.rec = [o \in DOMAIN @ |-> IF o \in done THEN Settled(@[o], b.kind[o]) ELSE @[o]]]
    IN [s |-> IF missed = {} THEN advance_start_offset(t) ELSE t,
        accepted |-> {o \in done : b.kind[o] = "accept"},
        finished |-> {o \in done : b.kind[o] \in Finishing \cup {"gap"}}]

release_all(s, m) ==
    [s EXCEPT !.rec = [o \in DOMAIN @ |-> IF @[o].member = m /\ @[o].state = "acquired" THEN Free(@[o]) ELSE @[o]]]

-----------------------------------------------------------------------------
(* The handlers. *)

\* What a request did to the records, for the properties.
Fates(f, m, accepted, out, finished) ==
    [by |-> [o \in Offsets |-> IF o \in accepted THEN f.by[o] \cup {m} ELSE f.by[o]],
     times |-> [o \in Offsets |-> IF o \in out THEN f.times[o] + 1 ELSE f.times[o]],
     done |-> f.done \cup finished]

ensure_member(s, m) == [s EXCEPT !.mem = [n \in DOMAIN @ \cup {m} |-> n # m /\ @[n]]]

\* heartbeat, with epoch 0 or more.
ShareHeartbeat(m) ==
    /\ worker[m].at \in {"out", "in"}
    /\ IF worker[m].at = "out" THEN Spend("joins") ELSE UNCHANGED spent
    /\ IF rows \cap {"classic", "consumer"} # {}
       THEN /\ worker' = [worker EXCEPT ![m].at = "gone"]
            /\ UNCHANGED <<q, rows>>
       ELSE /\ q' = ensure_member(q, m)
            /\ rows' = rows \cup {"share"}
            /\ worker' = [worker EXCEPT ![m].at = "in"]
    /\ UNCHANGED <<scenario, offset, sqlFrom, fate>>

\* heartbeat, with epoch -1.
ShareLeave(m) ==
    /\ worker[m].at = "in" /\ Spend("leaves")
    /\ q' = [release_all(q, m) EXCEPT !.mem = Restrict(@, DOMAIN @ \ {m})]
    /\ worker' = [worker EXCEPT ![m] = [at |-> "gone", holds |-> {}]]
    /\ UNCHANGED <<scenario, rows, offset, sqlFrom, fate>>

\* What a client believes it holds once it has sent a batch.
Kept_Back(m, b) == worker[m].holds \ {o \in b.first .. b.last : b.kind[o] # "renew"}
Renews(b) == \E o \in b.first .. b.last : b.kind[o] = "renew"

acquire_and_read(s, m, limit) ==
    IF Records <= s.start THEN [s |-> s, out |-> {}, finished |-> {}] ELSE acquire(s, m, s.start, limit)

\* The acknowledgements in the request first, then what it acquires.  got: the answer arrives.
share_fetch(m, b, limit, got) ==
    /\ worker[m].at = "in" /\ (b = NoBatch \/ limit = Records)
    /\ IF ~got THEN Spend("hangups") ELSE IF Renews(b) THEN Spend("commits") ELSE UNCHANGED spent
    /\ IF m \notin DOMAIN q.mem
       THEN /\ worker' = [worker EXCEPT ![m].at = IF got THEN "out" ELSE @]
            /\ UNCHANGED <<q, fate>>
       ELSE \E a \in {IF b = NoBatch THEN [s |-> q, accepted |-> {}, finished |-> {}] ELSE acknowledge(q, m, b)} :
            \E f \in {acquire_and_read(a.s, m, limit)} :
              /\ q' = [f.s EXCEPT !.mem[m] = FALSE]
              /\ fate' = Fates(fate, m, a.accepted, f.out, a.finished \cup f.finished)
              /\ worker' = [worker EXCEPT ![m].holds = IF got THEN Kept_Back(m, b) \cup f.out ELSE @]
    /\ UNCHANGED <<scenario, rows, offset, sqlFrom>>

\* A fetch that ends the session (epoch -1) releases everything, and looks at nothing else.
ShareSessionEnds(m) ==
    /\ worker[m].at = "in" /\ Spend("leaves")
    /\ q' = release_all(q, m)
    /\ worker' = [worker EXCEPT ![m].holds = {}]
    /\ UNCHANGED <<scenario, rows, offset, sqlFrom, fate>>

\* An acknowledgement that ends it (epoch -1) releases everything before it looks at the acknowledgements.
share_acknowledge(m, b, ends) ==
    LET a == acknowledge(IF ends THEN release_all(q, m) ELSE q, m, b)
    IN /\ worker[m].at # "gone" /\ b # NoBatch
       /\ IF Renews(b) THEN Spend("commits") ELSE IF ends THEN Spend("leaves") ELSE UNCHANGED spent
       /\ q' = a.s
       /\ fate' = Fates(fate, m, a.accepted, {}, a.finished)
       /\ worker' = [worker EXCEPT ![m].holds = IF ends THEN {} ELSE Kept_Back(m, b)]
       /\ UNCHANGED <<scenario, rows, offset, sqlFrom>>

\* kafgres_share_acquire reads the start offset in one statement and acquires in the next.
SqlReads == /\ scenario.sql /\ sqlFrom = -1 /\ Spend("commits")
            /\ q.start < Records /\ sqlFrom' = q.start
            /\ UNCHANGED <<scenario, rows, offset, q, worker, fate>>
SqlAcquires(m) ==
    LET f == acquire(q, m, sqlFrom, Records)
    IN /\ sqlFrom # -1 /\ worker[m].at # "gone"
       /\ q' = f.s /\ sqlFrom' = -1
       /\ fate' = Fates(fate, m, {}, f.out, f.finished)
       /\ worker' = [worker EXCEPT ![m].holds = @ \cup f.out]
       /\ UNCHANGED <<scenario, rows, offset, spent>>

\* expire: locks that lapsed, then members that did.
expire ==
    LET lapsed == {o \in DOMAIN q.rec : q.rec[o].until = "past"}
        silent == {m \in DOMAIN q.mem : q.mem[m]}
    IN /\ lapsed # {} \/ silent # {}
       /\ q' = [q EXCEPT !.rec = [o \in DOMAIN @ |-> IF o \in lapsed THEN Free(@[o]) ELSE @[o]],
                         !.mem = Restrict(@, DOMAIN @ \ silent)]
       /\ UNCHANGED <<scenario, rows, offset, spent, worker, sqlFrom, fate>>

\* clear_inflight with AlterShareGroupOffsets and DeleteShareGroupOffsets (to = 0), for a group without members.
MoveShareOffset(to) ==
    /\ "share" \in rows /\ q.mem = <<>> /\ Spend("admin")
    /\ q' = [q EXCEPT !.start = to, !.rec = <<>>]
    /\ fate' = FreshFrom(to)
    /\ UNCHANGED <<scenario, rows, offset, worker, sqlFrom>>

-----------------------------------------------------------------------------
(* Crashes and time. *)

ShareCrash(m) == /\ worker[m].at # "gone" /\ Spend("faults")
                 /\ worker' = [worker EXCEPT ![m] = [at |-> "gone", holds |-> {}]]
                 /\ UNCHANGED <<scenario, rows, offset, q, sqlFrom, fate>>
ShareTime == UNCHANGED <<scenario, rows, offset, worker, sqlFrom, fate>>
LockLapses(o) == /\ o \in DOMAIN q.rec /\ q.rec[o].until = "ahead"
                 /\ q' = [q EXCEPT !.rec[o].until = "past"] /\ UNCHANGED spent /\ ShareTime
ShareLapse(m) == /\ m \in DOMAIN q.mem /\ ~q.mem[m]
                 /\ q' = [q EXCEPT !.mem[m] = TRUE] /\ ShareTime
                 /\ IF worker[m].at = "gone" THEN UNCHANGED spent ELSE Spend("faults")

-----------------------------------------------------------------------------

ShareInit == /\ q = [start |-> 0, rec |-> <<>>, mem |-> <<>>]
             /\ worker = [m \in Members |->
                  [at |-> IF m \in scenario.clients["share"] THEN "out" ELSE "gone", holds |-> {}]]
             /\ sqlFrom = -1
             /\ fate = FreshFrom(0)

ShareNext ==
    \/ expire \/ SqlReads
    \/ \E o \in Offsets : LockLapses(o)
    \/ \E to \in 0 .. Records : MoveShareOffset(to)
    \/ \E m \in Members :
         \/ ShareHeartbeat(m) \/ ShareLeave(m) \/ ShareSessionEnds(m)
         \/ SqlAcquires(m) \/ ShareCrash(m) \/ ShareLapse(m)
         \/ \E b \in Batches(worker[m].holds) \cup {NoBatch} :
              \/ \E limit \in 1 .. Records, got \in BOOLEAN : share_fetch(m, b, limit, got)
              \/ \E ends \in BOOLEAN : share_acknowledge(m, b, ends)

-----------------------------------------------------------------------------

\* The start offset passes a record only when it was accepted, rejected or given up after the
\* last attempt, in whatever order acknowledgements, lapses and sweeps come.
NoSkip == 0 .. q.start - 1 \subseteq fate.done

\* A record is accepted by one member only: a lock that lapsed and was taken over gives its old
\* holder no say.  Acquiring through SQL, which reads the start offset on its own, is left out.
AcceptedByOne == scenario.sql \/ \A o \in Offsets : \A m, n \in fate.by[o] : m = n

\* A record is not handed out more than MAX_DELIVERY_ATTEMPTS times, released, lapsed or lost.
AttemptsBounded == scenario.sql \/ \A o \in Offsets : fate.times[o] <= MAX_DELIVERY_ATTEMPTS

\* What becomes of a record of a share group is decided once, within its attempts, and only
\* then does the start offset pass it.
SharedOnce == NoSkip /\ AcceptedByOne /\ AttemptsBounded

Row == [state : {"acquired", "acked", "archived"}, n : Nat, member : Members \cup {Nobody},
        until : {"none", "ahead", "past"}]
Tables(s) == /\ s \in [start : 0 .. Records, rec : [DOMAIN s.rec -> Row], mem : [DOMAIN s.mem -> BOOLEAN]]
             /\ DOMAIN s.rec \subseteq Offsets
RecordFates == [by : [Offsets -> SUBSET Members], times : [Offsets -> Nat], done : SUBSET Offsets]
ShareTypeOK ==
    /\ scenario \in Scenarios /\ Tables(q) /\ fate \in RecordFates /\ sqlFrom \in Offsets \cup {-1}
    /\ worker \in [Members -> [at : {"out", "in", "gone"}, holds : SUBSET Offsets]]

\* What the tables s say of the records agrees with what became of them, f: a row that is settled
\* has no holder and its record is finished, as is every record before the start.
SettledAgrees(s, f) ==
    /\ 0 .. s.start - 1 \subseteq f.done
    /\ \A o \in DOMAIN s.rec : s.rec[o].state # "acquired" => s.rec[o].member = Nobody /\ o \in f.done
\* Where only the broker acquires: no row is before the start, a record that is still to be had was
\* accepted by nobody, and its row counts each time it was handed out.
CountsAgree(s, f) ==
    /\ \A o \in DOMAIN s.rec : s.start <= o /\ f.times[o] <= s.rec[o].n
    /\ \A o \in Offsets :
         /\ f.times[o] <= MAX_DELIVERY_ATTEMPTS
         /\ \E m \in Members \cup {Nobody} : f.by[o] \subseteq {m}
         /\ s.start <= o /\ o \notin DOMAIN s.rec => f.by[o] = {} /\ f.times[o] = 0
         /\ o \in DOMAIN s.rec /\ s.rec[o].state = "acquired" => f.by[o] = {}

\* The inductive invariant of SharedOnce.
ShareInv == /\ ShareTypeOK
            /\ SettledAgrees(q, fate)
            /\ ~scenario.sql => CountsAgree(q, fate) /\ sqlFrom = -1

=============================================================================
