----------------------------- MODULE EventLoop ------------------------------
(***************************************************************************)
(* The broker's event loop: one pass after another over all connections,   *)
(* with requests that are parked (a Fetch waiting for data, a request      *)
(* behind a held table lock), answers that go out in request order, and    *)
(* produce answers that are held until their records are synced.           *)
(*                                                                         *)
(* A pass is retry_parked, poll_connections, complete_parked, the sync and *)
(* the flush, one frame or one parked entry per step.  Around the steps    *)
(* clients send and hang up, somebody takes and releases a table lock, and *)
(* deadlines pass.                                                         *)
(***************************************************************************)
EXTENDS Integers, Sequences, FiniteSets

CONSTANTS
    Clients,               \* one connection each
    Partitions,
    MaxSeq,                \* requests of one client
    MAX_PARKED,
    MAX_QUEUED,            \* MAX_CONN_BUFFER_BYTES, in answers
    MAX_REQUESTS_PER_TICK,
    MAX_SASL_FAILURES,
    Scenarios              \* what happens around the broker; one is chosen.  See ScenarioType

\* batch: the producer id and sequence of what is produced, the same when it is sent again.
RequestType == [k : {"produce", "produce0", "fetch", "other", "sasl"}, p : Partitions,
                min : Nat, batch : Nat]
\* script: the requests each client sends.  hangups: the clients that may hang up.  locks: how
\* often a table lock is taken.  faults: syncs and handlers that fail.
ScenarioType == [script : [Clients -> Seq(RequestType)], hangups : SUBSET Clients,
                 locks : Nat, faults : Nat]
ASSUME ScenarioAssumption == Scenarios \subseteq ScenarioType

Nobody == 0
ASSUME ClientAssumption == Nobody \notin Clients

VARIABLES
    scenario,
    v,        \* struct Server, see Init
    pc,       \* the phase of the pass
    pending,  \* parked entries this phase has still to look at
    still,    \* those it keeps
    held,     \* locks_held
    rung,     \* the doorbell this pass took
    todo,     \* connections still to poll
    cur,      \* the one being served
    frames,   \* how many of its frames were
    closing,  \* connections that are dropped when the poll ends
    backoff,  \* now < retry_at
    locked,   \* somebody holds a table lock
    sent,     \* how many requests each client put on its connection
    hung,     \* clients that hung up
    durable,  \* length of each partition that is on disk
    locks, faults

loop == <<pending, still, held, rung, todo, cur, frames, closing>>
world == <<locked, sent, hung, locks>>
vars == <<scenario, v, pc, loop, backoff, world, durable, faults>>

Req(c, n) == scenario.script[c][n]
\* Pending: a slot of `ready' that is not completed.  Empty: a request that has no answer.
Answer(n, k, o) == [n |-> n, k |-> k, o |-> o]
Pending == Answer(0, "pending", 0)
Empty == Answer(0, "empty", 0)

-----------------------------------------------------------------------------
(* impl Conn *)

\* The answer takes its slot; whatever is complete from flush_seq on goes to the buffer.
complete(x, n, ans) ==
    LET ready == [x.ready EXCEPT ![n] = ans]
        end == CHOOSE k \in x.flush_seq .. MaxSeq + 1 :
                 /\ \A j \in x.flush_seq .. k - 1 : ready[j] # Pending
                 /\ k <= MaxSeq => ready[k] = Pending
        run == [i \in 1 .. end - x.flush_seq |-> ready[x.flush_seq + i - 1]]
    IN [x EXCEPT !.flush_seq = end,
                 !.ready = [j \in 1 .. MaxSeq |-> IF j < end THEN Pending ELSE ready[j]],
                 !.out = @ \o SelectSeq(run, LAMBDA a : a # Empty)]

queued_bytes(x) == Len(x.out) + Cardinality({j \in 1 .. MaxSeq : x.ready[j] \notin {Pending, Empty}})

flush(x) == [x EXCEPT !.got = @ \o x.out, !.out = <<>>]
flush_unless_held(x) == CASE x.peer_closed -> [x EXCEPT !.out = <<>>]
                          [] ~x.peer_closed /\ x.awaiting_sync -> x
                          [] OTHER -> flush(x)

-----------------------------------------------------------------------------
(* dispatch *)

Entry(c, n, waiting) == [c |-> c, n |-> n, waiting |-> waiting, late |-> 0]
park(w, c, n, waiting) == [w EXCEPT !.parked = Append(@, Entry(c, n, waiting))]

parking_full(w) == Len(w.parked) >= MAX_PARKED

drop_conn(w, c) == [w EXCEPT !.conns[c].open = FALSE,
                             !.parked = SelectSeq(@, LAMBDA e : e.c # c)]

Result(w, res, ans) == [v |-> w, res |-> res, ans |-> ans]

\* Where the log has the batch of a request already.
Copies(w, c, n) == {i \in DOMAIN w.log[Req(c, n).p] :
                      LET e == w.log[Req(c, n).p][i] IN Req(e[1], e[2]).batch = Req(c, n).batch}

\* A batch that is in the log is answered from the producer's window: nothing is appended, and
\* then nothing holds the answer back.
serve_produce(w, c, n) ==
    LET p == Req(c, n).p
        copies == Copies(w, c, n)
        u == IF copies # {} THEN w
             ELSE [w EXCEPT !.log[p] = Append(@, <<c, n>>), !.appended = @ \cup {p},
                            !.unsynced = @ \cup {p}, !.conns[c].awaiting_sync = TRUE]
        o == IF copies # {} THEN CHOOSE i \in copies : TRUE ELSE Len(u.log[p])
    IN IF Req(c, n).k = "produce0" THEN Result(u, "NoReply", Empty)
       ELSE Result(u, "Reply", Answer(n, "ack", o))

Fetched(w, c, n) == Answer(n, "records", Len(w.log[Req(c, n).p]))
Satisfied(w, c, n) == Len(w.log[Req(c, n).p]) >= Req(c, n).min

serve_fetch(w, c, n) ==
    IF Satisfied(w, c, n) \/ parking_full(w) THEN Result(w, "Reply", Fetched(w, c, n))
    ELSE Result(park(w, c, n, "fetch"), "Parked", Empty)

\* A request takes its table locks before it does anything; a SASL step takes none.
dispatch(w, c, n, broken) ==
    LET k == Req(c, n).k
    IN CASE k = "sasl" -> Result([w EXCEPT !.conns[c].sasl_failures = @ + 1], "Reply", Answer(n, "refusal", 0))
         [] k # "sasl" /\ locked -> Result(w, "Busy", Empty)
         [] k # "sasl" /\ ~locked /\ broken -> Result(w, "Err", Empty)
         [] OTHER -> CASE k \in {"produce", "produce0"} -> serve_produce(w, c, n)
                       [] k = "fetch" -> serve_fetch(w, c, n)
                       [] OTHER -> Result(w, "Reply", Answer(n, "ok", 0))

Completed(d, c, n) == IF d.res = "Parked" THEN d.v
                      ELSE [d.v EXCEPT !.conns[c] = complete(@, n, d.ans)]

\* A handler that fails is a fault of the scenario.
Faulty(broken) == /\ broken => faults < scenario.faults /\ ~locked
                  /\ faults' = IF broken THEN faults + 1 ELSE faults

-----------------------------------------------------------------------------
(* retry_parked *)

BeginPass ==
    /\ pc = "wait" /\ pc' = "retry"
    /\ pending' = SelectSeq(v.parked, LAMBDA e : e.waiting = "retry")
    /\ v' = [v EXCEPT !.parked = SelectSeq(@, LAMBDA e : e.waiting # "retry")]
    /\ still' = <<>> /\ held' = backoff
    /\ UNCHANGED <<scenario, rung, todo, cur, frames, closing, backoff, world, durable, faults>>

RetryOne(broken) ==
    LET e == Head(pending)
        d == dispatch(v, e.c, e.n, broken)
        skip == held /\ e.late = 0
        busy == ~skip /\ d.res = "Busy" /\ e.late = 0
    IN /\ pc = "retry" /\ pending # <<>> /\ pending' = Tail(pending)
       /\ broken => v.conns[e.c].open /\ ~skip
       /\ Faulty(broken)
       /\ CASE ~v.conns[e.c].open -> UNCHANGED <<v, still, held, backoff>>
            [] v.conns[e.c].open /\ (skip \/ busy) ->
                 /\ still' = Append(still, e) /\ held' = (held \/ busy) /\ backoff' = (backoff \/ busy)
                 /\ UNCHANGED v
            [] OTHER ->
                 /\ v' = IF d.res \in {"Busy", "Err"} THEN drop_conn(v, e.c)
                         ELSE [Completed(d, e.c, e.n) EXCEPT !.conns[e.c].retrying = FALSE]
                 /\ UNCHANGED <<still, held, backoff>>
       /\ UNCHANGED <<scenario, pc, rung, todo, cur, frames, closing, world, durable>>

RetryEnd ==
    /\ pc = "retry" /\ pending = <<>> /\ pc' = "poll"
    /\ v' = [v EXCEPT !.parked = @ \o still]
    /\ still' = <<>> /\ held' = FALSE
    /\ todo' = {c \in Clients : v.conns[c].open} /\ closing' = {}
    /\ UNCHANGED <<scenario, pending, rung, cur, frames, backoff, world, durable, faults>>

-----------------------------------------------------------------------------
(* poll_connections *)

\* What was sent before the peer hung up is read first.
PollConn(c) ==
    /\ pc = "poll" /\ cur = Nobody /\ c \in todo
    /\ cur' = c /\ todo' = todo \ {c} /\ frames' = 0
    /\ v' = [v EXCEPT !.conns[c] = flush_unless_held([@ EXCEPT !.peer_closed = c \in hung])]
    /\ UNCHANGED <<scenario, pc, pending, still, held, rung, closing, backoff, world, durable, faults>>

\* Mutant: frames behind a parked retry are served.
MayServe_Ahead(x) == /\ frames < MAX_REQUESTS_PER_TICK
                     /\ queued_bytes(x) <= MAX_QUEUED /\ x.next_seq <= sent[cur]

\* serve_frames takes another frame.
MayServe(x) == /\ frames < MAX_REQUESTS_PER_TICK /\ ~x.retrying
               /\ queued_bytes(x) <= MAX_QUEUED /\ x.next_seq <= sent[cur]

park_retry(w, c, n) == [park(w, c, n, "retry") EXCEPT !.conns[c].retrying = TRUE]

\* serve_one: another frame of the connection that is being served.
ServeOne(broken) ==
    LET x == flush_unless_held(v.conns[cur])
        n == x.next_seq
        w == [v EXCEPT !.conns[cur] = [x EXCEPT !.next_seq = n + 1]]
        d == dispatch(w, cur, n, broken)
        u == Completed(d, cur, n)
        over == d.res = "Reply" /\ u.conns[cur].sasl_failures >= MAX_SASL_FAILURES
        full == d.res = "Busy" /\ parking_full(w)
    IN /\ pc = "poll" /\ cur # Nobody /\ MayServe(x)
       /\ Faulty(broken)
       /\ v' = CASE d.res = "Busy" -> IF full THEN w ELSE park_retry(w, cur, n)
                 [] d.res = "Err" -> w
                 [] OTHER -> IF over THEN [u EXCEPT !.conns[cur] = flush(@)] ELSE u
       /\ IF full \/ d.res = "Err" \/ over
          THEN closing' = closing \cup {cur} /\ cur' = Nobody /\ frames' = 0
          ELSE frames' = frames + 1 /\ UNCHANGED <<closing, cur>>
       /\ UNCHANGED <<scenario, pc, pending, still, held, rung, todo, backoff, world, durable>>

\* drain_closed: nothing of a hung-up connection is left to serve.
Done(x) == x.peer_closed /\ ~x.retrying /\ x.next_seq > sent[cur]

\* serve_frames returns: nothing more to serve now, or too much is queued.
ServeEnd ==
    LET x == flush_unless_held(v.conns[cur])
        over == /\ frames < MAX_REQUESTS_PER_TICK /\ ~x.retrying
                /\ queued_bytes(x) > MAX_QUEUED /\ ~x.awaiting_sync
    IN /\ pc = "poll" /\ cur # Nobody /\ ~MayServe(x)
       /\ v' = [v EXCEPT !.conns[cur] = x]
       /\ closing' = IF over \/ Done(x) THEN closing \cup {cur} ELSE closing
       /\ cur' = Nobody /\ frames' = 0
       /\ UNCHANGED <<scenario, pc, pending, still, held, rung, todo, backoff, world, durable, faults>>

\* The closed connections are dropped, and complete_parked takes the doorbell.
PollEnd ==
    LET w == [v EXCEPT !.conns = [c \in Clients |-> [@[c] EXCEPT !.open = @ /\ c \notin closing]],
                       !.parked = SelectSeq(@, LAMBDA e : e.c \notin closing)]
    IN /\ pc = "poll" /\ cur = Nobody /\ todo = {}
       /\ pc' = "complete"
       /\ rung' = w.appended /\ pending' = w.parked
       /\ v' = [w EXCEPT !.appended = {}, !.parked = <<>>]
       /\ UNCHANGED <<scenario, still, held, todo, cur, frames, closing, backoff, world, durable, faults>>

-----------------------------------------------------------------------------
(* complete_parked *)

\* Mutant: a fetch that finds the lock held is not kept woken.
kept_woken_Not(w, p) == w

\* Stay woken, or the retry waits for the deadline.
kept_woken(w, p) == [w EXCEPT !.appended = @ \cup {p}]

\* Mutant: a fetch waits for the lock for ever.
may_retry_Always(e) == TRUE

may_retry(e) == e.late < 2

CompleteOne(broken) ==
    LET e == Head(pending)
        p == Req(e.c, e.n).p
        asleep == e.late = 0 /\ p \notin rung
        wait == (held \/ backoff) /\ may_retry(e)
        busy == ~wait /\ locked /\ may_retry(e)
        fails == ~wait /\ ~busy /\ (locked \/ broken)
    IN /\ pc = "complete" /\ pending # <<>> /\ pending' = Tail(pending)
       /\ broken => v.conns[e.c].open /\ e.waiting = "fetch" /\ ~asleep /\ ~wait
       /\ Faulty(broken)
       /\ CASE ~v.conns[e.c].open -> UNCHANGED <<v, still, held, backoff>>
            [] v.conns[e.c].open /\ (e.waiting = "retry" \/ asleep) ->
                 still' = Append(still, e) /\ UNCHANGED <<v, held, backoff>>
            [] OTHER ->
                 /\ held' = (held \/ busy) /\ backoff' = (backoff \/ busy)
                 /\ still' = IF wait \/ busy \/ (~fails /\ e.late = 0 /\ ~Satisfied(v, e.c, e.n))
                             THEN Append(still, e) ELSE still
                 /\ v' = CASE wait \/ busy -> kept_woken(v, p)
                           [] fails -> drop_conn(v, e.c)
                           [] OTHER -> IF e.late > 0 \/ Satisfied(v, e.c, e.n)
                                       THEN [v EXCEPT !.conns[e.c] = complete(@, e.n, Fetched(v, e.c, e.n))]
                                       ELSE v
       /\ UNCHANGED <<scenario, pc, rung, todo, cur, frames, closing, world, durable>>

CompleteEnd ==
    /\ pc = "complete" /\ pending = <<>> /\ pc' = "sync"
    /\ v' = [v EXCEPT !.parked = still]
    /\ still' = <<>> /\ held' = FALSE /\ rung' = {}
    /\ UNCHANGED <<scenario, pending, todo, cur, frames, closing, backoff, world, durable, faults>>

-----------------------------------------------------------------------------
(* sync_before_ack and flush_all *)

\* Mutant: the connections whose own partitions synced are released.
Released_Any(x, failed) == [x EXCEPT !.awaiting_sync = FALSE]

\* The barrier lifts only when every owed partition synced.
Released(x, failed) == IF failed = {} THEN [x EXCEPT !.awaiting_sync = FALSE] ELSE x

SyncAndFlush(failed) ==
    /\ pc = "sync" /\ pc' = "wait"
    /\ failed \subseteq v.unsynced
    /\ failed # {} => faults < scenario.faults
    /\ faults' = IF failed # {} THEN faults + 1 ELSE faults
    /\ durable' = [p \in Partitions |-> IF p \in v.unsynced \ failed THEN Len(v.log[p]) ELSE durable[p]]
    /\ v' = [v EXCEPT !.unsynced = failed,
                      !.conns = [c \in Clients |->
                                   IF @[c].open THEN flush_unless_held(Released(@[c], failed)) ELSE @[c]]]
    /\ UNCHANGED <<scenario, loop, backoff, world>>

-----------------------------------------------------------------------------
(* What happens around the broker.  Connections are read during the poll,  *)
(* so what clients do at other times shows at the next one.                *)

Outside == pc \in {"wait", "poll"}

Send(c) == /\ Outside /\ c \notin hung /\ v.conns[c].open /\ sent[c] < Len(scenario.script[c])
           /\ sent' = [sent EXCEPT ![c] = @ + 1]
           /\ UNCHANGED <<scenario, v, pc, loop, backoff, locked, hung, locks, durable, faults>>

HangUp(c) == /\ Outside /\ c \in scenario.hangups \ hung /\ hung' = hung \cup {c}
             /\ UNCHANGED <<scenario, v, pc, loop, backoff, locked, sent, locks, durable, faults>>

Lock == /\ ~locked /\ locks < scenario.locks
        /\ locked' = TRUE /\ locks' = locks + 1
        /\ UNCHANGED <<scenario, v, pc, loop, backoff, sent, hung, durable, faults>>

Unlock == /\ locked /\ locked' = FALSE
          /\ UNCHANGED <<scenario, v, pc, loop, backoff, sent, hung, locks, durable, faults>>

\* A deadline passes: 1 the deadline itself, 2 the time a fetch may still wait for a lock.
Elapse(i) == /\ Outside /\ i \in DOMAIN v.parked
             /\ v.parked[i].late < IF v.parked[i].waiting = "fetch" THEN 2 ELSE 1
             /\ v' = [v EXCEPT !.parked[i].late = @ + 1]
             /\ UNCHANGED <<scenario, pc, loop, backoff, world, durable, faults>>

RetryAt == /\ Outside /\ backoff /\ backoff' = FALSE
           /\ UNCHANGED <<scenario, v, pc, loop, world, durable, faults>>

NewConn == [open |-> TRUE, peer_closed |-> FALSE, next_seq |-> 1, flush_seq |-> 1,
            ready |-> [j \in 1 .. MaxSeq |-> Pending], out |-> <<>>, awaiting_sync |-> FALSE,
            retrying |-> FALSE, sasl_failures |-> 0, got |-> <<>>]

Init ==
    /\ scenario \in Scenarios
    /\ v = [conns |-> [c \in Clients |-> NewConn], parked |-> <<>>, appended |-> {}, unsynced |-> {},
            log |-> [p \in Partitions |-> <<>>]]
    /\ pc = "wait" /\ pending = <<>> /\ still = <<>> /\ held = FALSE /\ rung = {}
    /\ todo = {} /\ cur = Nobody /\ frames = 0 /\ closing = {}
    /\ backoff = FALSE /\ locked = FALSE /\ locks = 0 /\ faults = 0
    /\ sent = [c \in Clients |-> 0] /\ hung = {}
    /\ durable = [p \in Partitions |-> 0]

Pass == \/ BeginPass \/ RetryEnd \/ ServeEnd \/ PollEnd \/ CompleteEnd
        \/ \E broken \in BOOLEAN : RetryOne(broken) \/ ServeOne(broken) \/ CompleteOne(broken)
        \/ \E c \in Clients : PollConn(c)
        \/ \E failed \in SUBSET Partitions : SyncAndFlush(failed)

Deadline == \E i \in 1 .. MAX_PARKED : Elapse(i)

Next == \/ Pass \/ Lock \/ Unlock \/ RetryAt \/ Deadline
        \/ \E c \in Clients : Send(c) \/ HangUp(c)

\* The loop never stops and time passes while it waits.  Nobody has to release a lock.
Spec == Init /\ [][Next]_vars /\ WF_vars(Pass) /\ SF_vars(Deadline) /\ SF_vars(RetryAt)

-----------------------------------------------------------------------------
(* Properties. *)

\* The requests of c that have an answer, in order.
Answered(c) == SelectSeq([n \in 1 .. Len(scenario.script[c]) |-> n], LAMBDA n : Req(c, n).k # "produce0")

\* Kafka clients match answers to requests by order: however requests are parked, retried
\* and completed, a client gets exactly one answer for each, in the order it sent them.
AnswersInOrder ==
    \A c \in Clients : LET got == v.conns[c].got
                       IN /\ Len(got) <= Len(Answered(c))
                          /\ \A i \in DOMAIN got : got[i].n = Answered(c)[i]

\* The produce answers that reached client c, and what the log has where they say.
Acks(c) == {v.conns[c].got[i] : i \in {j \in DOMAIN v.conns[c].got : v.conns[c].got[j].k = "ack"}}
Acked(c, a) == v.log[Req(c, a.n).p][a.o]

\* fsync_before_ack: a produce answer that reached the client names the place of its own batch,
\* and is for records that are on disk when this connection appended them, also when it is the
\* answer to a second sending: whichever partitions failed to sync and however many passes
\* that took.
AckedIsDurable ==
    \A c \in Clients : \A a \in Acks(c) :
       /\ Req(Acked(c, a)[1], Acked(c, a)[2]).batch = Req(c, a.n).batch
       /\ Acked(c, a)[1] = c => durable[Req(c, a.n).p] >= a.o

\* docs/architecture.md: acks=all returns once the records are fsynced, whichever connection
\* appended them.  It does not: serve_produce holds an answer only when its own request
\* appended something, so a batch sent again on a new connection is acknowledged while the
\* first sending is yet to be synced, or failed to.
EveryAckIsDurable ==
    \A c \in Clients : \A a \in Acks(c) : durable[Req(c, a.n).p] >= a.o

\* The requests of one connection run in order and once, also when one waits behind a lock
\* and is dispatched again later.
RunInOrder ==
    \A p \in Partitions : \A i, j \in DOMAIN v.log[p] :
       i < j /\ v.log[p][i][1] = v.log[p][j][1] => v.log[p][i][2] < v.log[p][j][2]

\* Parking and retrying reorder nothing on a connection, neither what runs nor what is answered.
InOrder == RunInOrder /\ AnswersInOrder

\* No wake-up is lost: when the broker goes to wait, a parked fetch whose records are there
\* is one that the next pass looks at again.
WakeupKept ==
    pc = "wait" => \A i \in DOMAIN v.parked :
      LET e == v.parked[i]
      IN e.waiting = "fetch" /\ v.conns[e.c].open /\ Satisfied(v, e.c, e.n) =>
           Req(e.c, e.n).p \in v.appended

\* The parking never holds more than its cap, although a request that is dispatched again
\* may park again while the others are taken out.
ParkedBounded == Len(v.parked) + Len(pending) + Len(still) <= MAX_PARKED

\* What complete_parked leaves behind is within the cap and rung for.
ParkingKept == WakeupKept /\ ParkedBounded

\* Something is still to be answered to a client that waits for it.
Owed(c) == /\ c \notin hung /\ v.conns[c].open
           /\ v.conns[c].flush_seq <= sent[c] \/ v.conns[c].out # <<>>

\* Every request of a client that stays is answered, or its connection is dropped: a fetch
\* at its deadline at the latest, a request behind a lock when that was held too long.
\* Scripts are finite, so that is: again and again nothing is owed.
EveryRequestEnds == []<>(\A c \in Clients : ~Owed(c))

=============================================================================
