-------------------------- MODULE ShareGroupProofs --------------------------
(***************************************************************************)
(* That a share group's own steps keep ShareInv, for any number of records,*)
(* members, attempts and locks and any scenario.  The lemmas are about the *)
(* operators of ShareGroup on any tables that agree with the records'      *)
(* fates, so that a handler that acknowledges and then acquires is two of  *)
(* them in a row.                                                          *)
(***************************************************************************)
EXTENDS ShareGroup, WellFoundedInduction, TLAPS

\* What the assumptions say of the constants.
LEMMA ConstantFacts ==
  Records \in Nat /\ MAX_DELIVERY_ATTEMPTS \in Nat /\ Nobody \notin Members
BY ShareAssumption, MemberAssumption

\* Min of a set of naturals is its least element.
LEMMA MinFacts ==
  ASSUME NEW S \in SUBSET Nat, S # {}
  PROVE  Min(S) \in S /\ \A x \in S : Min(S) <= x
<1>1. PICK x \in S : \A y \in S : ~(<<y, x>> \in OpToRel(<, Nat))
  BY ZenonT(40), NatLessThanWellFounded, WFMin
<1>2. ASSUME NEW y \in S PROVE x <= y
  <2>1. ASSUME y < x PROVE <<y, x>> \in OpToRel(<, Nat)
    BY <2>1 DEF OpToRel
  <2>2. ~(y < x)
    BY ZenonT(40), <1>1, <2>1
  <2>3. QED
    BY <2>2
<1>3. QED
  BY ZenonT(40), <1>2 DEF Min

-----------------------------------------------------------------------------
\* The start offset moves over finished records only.
LEMMA HeadFacts ==
  ASSUME NEW s, Tables(s)
  PROVE  /\ Head_Next(s) \in s.start .. Records
         /\ \A o \in s.start .. Head_Next(s) - 1 :
              o \in DOMAIN s.rec /\ s.rec[o].state # "acquired"
<1> DEFINE S == {o \in s.start .. Records : o \notin DOMAIN s.rec \/ s.rec[o].state = "acquired"}
<1>1. s.start \in Nat /\ s.start <= Records /\ Records \in Nat
  BY ConstantFacts DEF Tables
<1>2. S \in SUBSET Nat /\ Records \in S
  BY <1>1 DEF Tables, Offsets
<1>3. Min(S) \in S /\ \A x \in S : Min(S) <= x
  BY <1>2, MinFacts
<1>4. Head_Next(s) = Min(S)
  BY DEF Head_Next
<1>5. ASSUME NEW o \in s.start .. Min(S) - 1
      PROVE  o \in DOMAIN s.rec /\ s.rec[o].state # "acquired"
  <2>1. o \notin S /\ o \in s.start .. Records
    BY <1>1, <1>2, <1>3
  <2>2. QED
    BY <2>1
<1>6. QED
  BY <1>3, <1>4, <1>5

\* What the tables' type says.
LEMMA TableFacts ==
  ASSUME NEW s, Tables(s)
  PROVE  /\ s.start \in Nat /\ s.start <= Records /\ Records \in Nat
         /\ DOMAIN s.rec \subseteq Offsets /\ \A o \in Offsets : o \in Nat /\ o < Records
         /\ \A o \in 0 .. s.start - 1 : o \in Offsets
         /\ \A o \in DOMAIN s.rec : s.rec[o] \in Row /\ s.rec[o].n \in Nat
BY ConstantFacts DEF Tables, Offsets, Row

\* advance_start_offset keeps what the tables say of the records true.
LEMMA AdvanceFacts ==
  ASSUME NEW s, NEW f, Tables(s), SettledAgrees(s, f)
  PROVE  /\ Tables(advance_start_offset(s))
         /\ SettledAgrees(advance_start_offset(s), f)
         /\ CountsAgree(s, f) => CountsAgree(advance_start_offset(s), f)
<1> DEFINE t == advance_start_offset(s)
           next == Head_Next(s)
           D == {o \in DOMAIN s.rec : o >= next}
           r == [o \in D |-> s.rec[o]]
<1>1. Tables(t) /\ t.start = next /\ t.rec = r
  <2>1. next \in 0 .. Records /\ D \in SUBSET Offsets /\ r \in [D -> Row]
    BY HeadFacts, TableFacts
  <2>2. t = [s EXCEPT !.start = next, !.rec = r]
    BY DEF advance_start_offset, Restrict
  <2> HIDE DEF next, D, r, t
  <2>3. /\ t.start = next /\ t.rec = r /\ t.mem = s.mem
        /\ t \in [start : 0 .. Records, rec : [D -> Row], mem : [DOMAIN s.mem -> BOOLEAN]]
    BY ZenonT(40), <2>1, <2>2 DEF Tables
  <2>4. DOMAIN r = D
    BY <2>1
  <2>5. QED
    BY <2>1, <2>3, <2>4 DEF Tables
<1>2. /\ s.start \in Nat /\ next \in Nat /\ s.start <= next /\ next <= Records /\ Records \in Nat
      /\ \A o \in s.start .. next - 1 : o \in DOMAIN s.rec /\ s.rec[o].state # "acquired"
  BY HeadFacts, TableFacts
<1>3. /\ DOMAIN s.rec \subseteq Offsets /\ \A o \in Offsets : o \in Nat
      /\ DOMAIN t.rec = {o \in DOMAIN s.rec : o >= next} /\ \A o \in DOMAIN t.rec : t.rec[o] = s.rec[o]
  BY <1>1, TableFacts
<1>4. t.start = next
  BY <1>1
<1> HIDE DEF t, next
<1>5. SettledAgrees(t, f)
  BY <1>2, <1>3, <1>4 DEF SettledAgrees
<1>6. ASSUME CountsAgree(s, f) PROVE CountsAgree(t, f)
  <2>1. \A o \in DOMAIN t.rec : t.start <= o /\ f.times[o] <= t.rec[o].n
    BY <1>3, <1>4, <1>6 DEF CountsAgree
  <2>2. ASSUME NEW o \in Offsets, t.start <= o, o \notin DOMAIN t.rec PROVE f.by[o] = {} /\ f.times[o] = 0
    BY <1>2, <1>3, <1>4, <1>6, <2>2 DEF CountsAgree
  <2>3. QED
    BY <1>3, <1>4, <1>6, <2>1, <2>2 DEF CountsAgree
<1>7. QED
  BY <1>1, <1>5, <1>6 DEF t

-----------------------------------------------------------------------------
\* INSERT ... ON CONFLICT: the row is acquired by the member within the attempts, or archived.
LEMMA HandedFacts ==
  ASSUME NEW s, Tables(s), NEW o \in Offsets, NEW m \in Members
  PROVE  /\ Handed(s, o, m) \in Row
         /\ o \in DOMAIN s.rec => Handed(s, o, m).n = s.rec[o].n + 1
         /\ o \notin DOMAIN s.rec => Handed(s, o, m).n = 1
         /\ Handed(s, o, m).state = "acquired" => Handed(s, o, m).n <= MAX_DELIVERY_ATTEMPTS
         /\ Handed(s, o, m).state # "acquired" => /\ Handed(s, o, m).state = "archived"
                                                 /\ Handed(s, o, m).member = Nobody
<1>1. o \in DOMAIN s.rec => s.rec[o].n \in Nat
  BY DEF Tables, Row
<1>2. QED
  BY <1>1, ConstantFacts DEF Handed, Row

\* What a request did to the records, record by record.
LEMMA FatesFacts ==
  ASSUME NEW f \in RecordFates, NEW m \in Members, NEW accepted, NEW out, NEW finished \in SUBSET Offsets,
         NEW h, h = Fates(f, m, accepted, out, finished)
  PROVE  /\ h \in RecordFates
         /\ h.done = f.done \cup finished
         /\ \A o \in Offsets : /\ o \in accepted => h.by[o] = f.by[o] \cup {m}
                               /\ o \notin accepted => h.by[o] = f.by[o]
                               /\ o \in out => h.times[o] = f.times[o] + 1
                               /\ o \notin out => h.times[o] = f.times[o]
BY DEF Fates, RecordFates

\* Other rows in the tables.
LEMMA NewRows ==
  ASSUME NEW s, Tables(s), NEW D \in SUBSET Offsets, NEW r \in [D -> Row]
  PROVE  /\ Tables([s EXCEPT !.rec = r])
         /\ [s EXCEPT !.rec = r].start = s.start /\ [s EXCEPT !.rec = r].rec = r
<1> DEFINE t == [s EXCEPT !.rec = r]
<1>1. /\ t.start = s.start /\ t.rec = r /\ t.mem = s.mem
      /\ t \in [start : 0 .. Records, rec : [D -> Row], mem : [DOMAIN s.mem -> BOOLEAN]]
  BY DEF Tables
<1>2. DOMAIN r = D
  OBVIOUS
<1> HIDE DEF t
<1>3. Tables(t) /\ t.start = s.start /\ t.rec = r
  BY <1>1, <1>2 DEF Tables
<1>4. QED
  BY <1>3 DEF t

\* acquire takes records that are to be had: t is s with their new rows.
Takes(s, m, taken, t) ==
    /\ taken \subseteq Offsets
    /\ \A o \in taken : o \notin DOMAIN s.rec \/ s.rec[o].state = "acquired"
    /\ t.start = s.start /\ DOMAIN t.rec = DOMAIN s.rec \cup taken
    /\ \A o \in taken : t.rec[o] = Handed(s, o, m)
    /\ \A o \in DOMAIN s.rec \ taken : t.rec[o] = s.rec[o]
In(t, taken, state) == {o \in taken : t.rec[o].state = state}

\* What acquire took is given out while it has attempts left, and archived otherwise.
LEMMA TakenFacts ==
  ASSUME NEW s, NEW f \in RecordFates, NEW h, NEW m \in Members, NEW t, NEW taken,
         Tables(s), Tables(t), SettledAgrees(s, f), Takes(s, m, taken, t),
         h = Fates(f, m, {}, In(t, taken, "acquired"), In(t, taken, "archived"))
  PROVE  /\ h \in RecordFates
         /\ SettledAgrees(t, h)
         /\ CountsAgree(s, f) /\ (\A o \in taken : s.start <= o) => CountsAgree(t, h)
<1> DEFINE out == In(t, taken, "acquired")
           finished == In(t, taken, "archived")
<1>0. /\ taken \subseteq Offsets /\ t.start = s.start /\ DOMAIN t.rec = DOMAIN s.rec \cup taken
      /\ \A o \in DOMAIN s.rec \ taken : t.rec[o] = s.rec[o]
      /\ \A o \in taken : o \notin DOMAIN s.rec \/ s.rec[o].state = "acquired"
  BY DEF Takes
<1>1. /\ s.start \in Nat /\ DOMAIN s.rec \subseteq Offsets /\ 0 .. s.start - 1 \subseteq Offsets
      /\ \A o \in DOMAIN s.rec : s.rec[o].n \in Nat
      /\ \A o \in DOMAIN t.rec : t.rec[o].n \in Nat
      /\ \A o \in Offsets : o \in Nat /\ f.times[o] \in Nat
  BY TableFacts DEF RecordFates
<1>2. \A o \in taken : /\ o \in DOMAIN s.rec => t.rec[o].n = s.rec[o].n + 1
                       /\ o \notin DOMAIN s.rec => t.rec[o].n = 1
                       /\ o \in out => t.rec[o].n <= MAX_DELIVERY_ATTEMPTS
                       /\ o \notin out => o \in finished /\ t.rec[o].member = Nobody
                       /\ t.rec[o].state # "acquired" => o \notin out
  BY HandedFacts DEF Takes, In
<1>3. /\ h \in RecordFates /\ h.done = f.done \cup finished
      /\ \A o \in Offsets : /\ h.by[o] = f.by[o]
                            /\ o \in out => h.times[o] = f.times[o] + 1
                            /\ o \notin out => h.times[o] = f.times[o]
  <2>1. finished \in SUBSET Offsets
    BY <1>0 DEF In
  <2>2. QED
    BY <2>1, FatesFacts
<1> HIDE DEF out, finished
<1>4. SettledAgrees(t, h)
  <2>1. ASSUME NEW o \in DOMAIN t.rec, t.rec[o].state # "acquired"
        PROVE  t.rec[o].member = Nobody /\ o \in h.done
    <3>1. CASE o \in taken
      BY <1>2, <1>3, <2>1, <3>1
    <3>2. CASE o \notin taken
      <4>1. o \in DOMAIN s.rec /\ t.rec[o] = s.rec[o]
        BY ZenonT(40), <1>0, <2>1, <3>2
      <4>2. QED
        BY ZenonT(40), <1>3, <2>1, <4>1 DEF SettledAgrees
    <3>3. QED
      BY ZenonT(40), <3>1, <3>2
  <2>2. 0 .. t.start - 1 \subseteq h.done
    BY ZenonT(40), <1>0, <1>3 DEF SettledAgrees
  <2>3. QED
    BY ZenonT(40), <2>1, <2>2 DEF SettledAgrees
<1>5. ASSUME CountsAgree(s, f), \A o \in taken : s.start <= o PROVE CountsAgree(t, h)
  <2>1. ASSUME NEW o \in taken
        PROVE  /\ h.by[o] = {} /\ h.times[o] <= t.rec[o].n /\ h.times[o] <= MAX_DELIVERY_ATTEMPTS
    <3>1. f.by[o] = {} /\ f.times[o] <= MAX_DELIVERY_ATTEMPTS
      BY ZenonT(40), <1>0, <1>1, <1>5 DEF CountsAgree
    <3>2. f.times[o] + 1 <= t.rec[o].n
      <4>1. CASE o \in DOMAIN s.rec
        <5>1. f.times[o] <= s.rec[o].n
          BY ZenonT(40), <1>5, <4>1 DEF CountsAgree
        <5>2. QED
          BY <1>0, <1>1, <1>2, <4>1, <5>1
      <4>2. CASE o \notin DOMAIN s.rec
        <5>1. f.times[o] = 0
          BY ZenonT(40), <1>0, <1>1, <1>5, <4>2 DEF CountsAgree
        <5>2. QED
          BY <1>0, <1>1, <1>2, <4>2, <5>1
      <4>3. QED
        BY ZenonT(40), <4>1, <4>2
    <3>3. /\ f.times[o] \in Nat /\ t.rec[o].n \in Nat /\ h.by[o] = f.by[o]
          /\ o \in out => h.times[o] = f.times[o] + 1
          /\ o \notin out => h.times[o] = f.times[o]
          /\ o \in out => t.rec[o].n <= MAX_DELIVERY_ATTEMPTS
      BY <1>0, <1>1, <1>2, <1>3
    <3>4. QED
      BY <3>1, <3>2, <3>3, ConstantFacts
  <2>2. ASSUME NEW o \in Offsets, o \notin taken PROVE h.by[o] = f.by[o] /\ h.times[o] = f.times[o]
    BY <1>3, <2>2 DEF out, In
  <2>3. ASSUME NEW o \in DOMAIN t.rec PROVE t.start <= o /\ h.times[o] <= t.rec[o].n
    <3>1. CASE o \in taken
      BY ZenonT(40), <1>0, <1>5, <2>1, <3>1
    <3>2. CASE o \notin taken
      <4>1. o \in DOMAIN s.rec /\ o \in Offsets /\ t.rec[o] = s.rec[o]
        BY ZenonT(40), <1>0, <1>1, <2>3, <3>2
      <4>2. QED
        BY ZenonT(40), <1>0, <1>5, <2>2, <3>2, <4>1 DEF CountsAgree
    <3>3. QED
      BY ZenonT(40), <3>1, <3>2
  <2>4. ASSUME NEW o \in Offsets
        PROVE  /\ h.times[o] <= MAX_DELIVERY_ATTEMPTS
               /\ \E n \in Members \cup {Nobody} : h.by[o] \subseteq {n}
               /\ t.start <= o /\ o \notin DOMAIN t.rec => h.by[o] = {} /\ h.times[o] = 0
               /\ o \in DOMAIN t.rec /\ t.rec[o].state = "acquired" => h.by[o] = {}
    <3>1. CASE o \in taken
      BY ZenonT(40), <1>0, <2>1, <3>1, ConstantFacts
    <3>2. CASE o \notin taken
      BY ZenonT(40), <1>0, <1>5, <2>2, <3>2 DEF CountsAgree
    <3>3. QED
      BY ZenonT(40), <3>1, <3>2
  <2>5. QED
    BY ZenonT(40), <2>3, <2>4 DEF CountsAgree
<1>6. QED
  BY ZenonT(40), <1>3, <1>4, <1>5

\* A request that did nothing to the records, and two things done by one request.
LEMMA ComposedFates ==
  ASSUME NEW f \in RecordFates, NEW m \in Members, NEW accepted, NEW out,
         NEW first \in SUBSET Offsets, NEW then \in SUBSET Offsets
  PROVE  /\ Fates(f, m, {}, {}, {}) = f
         /\ Fates(Fates(f, m, accepted, {}, first), m, {}, out, then) = Fates(f, m, accepted, out, first \cup then)
<1>1. Fates(f, m, {}, {}, {}) = f
  BY DEF Fates, RecordFates
<1>2. f.done \cup (first \cup then) = (f.done \cup first) \cup then
  OBVIOUS
<1>3. QED
  BY ZenonT(40), <1>1, <1>2 DEF Fates, RecordFates

\* acquire keeps what the tables say of the records true, from any offset on where SQL may acquire,
\* and from the start on otherwise.
LEMMA AcquireFacts ==
  ASSUME NEW s, NEW f \in RecordFates, NEW h, NEW m \in Members, NEW from \in Nat, NEW limit,
         NEW x, x = acquire(s, m, from, limit), Tables(s), SettledAgrees(s, f),
         h = Fates(f, m, {}, x.out, x.finished)
  PROVE  /\ h \in RecordFates /\ Tables(x.s)
         /\ SettledAgrees(x.s, h)
         /\ CountsAgree(s, f) /\ s.start <= from => CountsAgree(x.s, h)
         /\ x.out \subseteq Offsets
         /\ x.finished \subseteq Offsets
<1> DEFINE held == Cardinality({o \in DOMAIN s.rec : s.rec[o].state = "acquired" /\ Live(s.rec[o])})
           room == MAX_RECORD_LOCKS - held
           taken == Candidates(s, from, IF limit < room THEN limit ELSE room)
           D == DOMAIN s.rec \cup taken
           r == [o \in D |-> IF o \in taken THEN Handed(s, o, m) ELSE s.rec[o]]
           t == [s EXCEPT !.rec = r]
<1>1. \/ x = [s |-> s, out |-> {}, finished |-> {}]
      \/ x = [s |-> Acquired(t), out |-> In(t, taken, "acquired"),
                                       finished |-> In(t, taken, "archived")]
  BY ZenonT(40) DEF acquire, In
<1>2. /\ taken \subseteq Offsets
      /\ \A o \in taken : from <= o /\ (o \notin DOMAIN s.rec \/ s.rec[o].state = "acquired")
  BY ConstantFacts DEF Candidates, Offsets
<1> HIDE DEF taken
<1>3. Tables(t) /\ Takes(s, m, taken, t)
  <2>1. D \in SUBSET Offsets /\ r \in [D -> Row]
    BY <1>2, TableFacts, HandedFacts
  <2>2. Tables(t) /\ t.start = s.start /\ t.rec = r
    <3> HIDE DEF r, D
    <3>1. QED
      BY <2>1, NewRows
  <2> HIDE DEF t
  <2>3. QED
    BY <1>2, <2>2 DEF Takes
<1> HIDE DEF t
<1>4. In(t, taken, "acquired") \subseteq Offsets /\ In(t, taken, "archived") \subseteq Offsets
  BY <1>2 DEF In
<1>5. CASE x = [s |-> s, out |-> {}, finished |-> {}]
  <2>1. h = f
    BY <1>5, ComposedFates
  <2>2. QED
    BY <1>5, <2>1
<1>6. CASE x = [s |-> Acquired(t), out |-> In(t, taken, "acquired"),
                                         finished |-> In(t, taken, "archived")]
  <2>1. h = Fates(f, m, {}, In(t, taken, "acquired"), In(t, taken, "archived"))
    BY <1>6
  <2>2. /\ h \in RecordFates /\ SettledAgrees(t, h)
        /\ CountsAgree(s, f) /\ s.start <= from => CountsAgree(t, h)
    <3>1. s.start <= from => \A o \in taken : s.start <= o
      <4>1. s.start \in Nat /\ \A o \in taken : o \in Nat /\ from <= o
        BY <1>2, TableFacts
      <4>2. QED
        BY <4>1
    <3>2. QED
      BY ZenonT(40), <1>3, <2>1, <3>1, TakenFacts
  <2>3. /\ Tables(Acquired(t)) /\ SettledAgrees(Acquired(t), h)
        /\ CountsAgree(t, h) => CountsAgree(Acquired(t), h)
    BY ZenonT(40), <1>3, <2>2, AdvanceFacts DEF Acquired
  <2>4. QED
    BY <1>4, <1>6, <2>2, <2>3
<1>7. QED
  BY <1>1, <1>5, <1>6

-----------------------------------------------------------------------------
\* What an acknowledgement makes of a row.
Kinds == {"accept", "release", "reject", "renew", "gap"}

LEMMA SettledFacts ==
  ASSUME NEW row \in Row, NEW kind \in Kinds
  PROVE  /\ Settled(row, kind) \in Row /\ Settled(row, kind).n = row.n
         /\ kind = "accept" => Settled(row, kind).state = "acked" /\ Settled(row, kind).member = Nobody
         /\ kind \in {"reject", "gap"} => Settled(row, kind).state = "archived" /\ Settled(row, kind).member = Nobody
         /\ kind \in {"release", "renew"} => Settled(row, kind).state = row.state
<1>1. CASE kind = "accept"
  BY ZenonT(40), <1>1 DEF Settled, Free, Row
<1>2. CASE kind \in {"reject", "gap"}
  BY ZenonT(40), <1>2 DEF Settled, Free, Row
<1>3. CASE kind = "release"
  BY ZenonT(40), <1>3 DEF Settled, Released, Free, Row
<1>4. CASE kind = "renew"
  BY <1>4 DEF Settled, Row
<1>5. QED
  BY <1>1, <1>2, <1>3, <1>4 DEF Kinds

\* Rows whose locks alone changed say the same of the records.
LEMMA RelockedFacts ==
  ASSUME NEW s, NEW f, NEW t, SettledAgrees(s, f), t.start = s.start, DOMAIN t.rec = DOMAIN s.rec,
         \A o \in DOMAIN s.rec : /\ t.rec[o].state = s.rec[o].state /\ t.rec[o].n = s.rec[o].n
                                 /\ t.rec[o].member \in {s.rec[o].member, Nobody}
  PROVE  SettledAgrees(t, f) /\ (CountsAgree(s, f) => CountsAgree(t, f))
<1>1. SettledAgrees(t, f)
  BY DEF SettledAgrees
<1>2. ASSUME CountsAgree(s, f) PROVE CountsAgree(t, f)
  BY <1>2 DEF CountsAgree
<1>3. QED
  BY <1>1, <1>2

\* The records of a batch that the member holds are settled as the batch says.
Settles(s, m, b, done, t) ==
    /\ \A o \in done : Mine(s, o, m) /\ b.kind[o] \in Kinds
    /\ t.start = s.start /\ DOMAIN t.rec = DOMAIN s.rec
    /\ \A o \in done : t.rec[o] = Settled(s.rec[o], b.kind[o])
    /\ \A o \in DOMAIN s.rec \ done : t.rec[o] = s.rec[o]

\* A record is held by the member that settles it, so nobody else settled it before.
LEMMA SettlingFacts ==
  ASSUME NEW s, NEW f \in RecordFates, NEW h, NEW m \in Members, NEW b, NEW t, NEW done, NEW accepted, NEW finished,
         Tables(s), SettledAgrees(s, f), Settles(s, m, b, done, t),
         accepted = {o \in done : b.kind[o] = "accept"},
         finished = {o \in done : b.kind[o] \in Finishing \cup {"gap"}},
         h = Fates(f, m, accepted, {}, finished)
  PROVE  /\ h \in RecordFates
         /\ SettledAgrees(t, h)
         /\ CountsAgree(s, f) => CountsAgree(t, h)
<1>1. /\ done \subseteq DOMAIN s.rec /\ DOMAIN s.rec \subseteq Offsets
      /\ t.start = s.start /\ DOMAIN t.rec = DOMAIN s.rec
      /\ \A o \in DOMAIN s.rec \ done : t.rec[o] = s.rec[o]
  BY TableFacts DEF Settles, Mine
<1>2. \A o \in done : s.rec[o].state = "acquired"
  BY ConstantFacts DEF Settles, Mine, SettledAgrees
<1>3. \A o \in done : /\ t.rec[o].n = s.rec[o].n
                      /\ o \in accepted => t.rec[o].state = "acked" /\ o \in finished
                      /\ o \in finished => t.rec[o].state # "acquired" /\ t.rec[o].member = Nobody
                      /\ o \notin finished => t.rec[o].state = "acquired"
  <2> SUFFICES ASSUME NEW o \in done
               PROVE  /\ t.rec[o].n = s.rec[o].n
                      /\ o \in accepted => t.rec[o].state = "acked" /\ o \in finished
                      /\ o \in finished => t.rec[o].state # "acquired" /\ t.rec[o].member = Nobody
                      /\ o \notin finished => t.rec[o].state = "acquired"
    BY ZenonT(40)
  <2>1. s.rec[o] \in Row /\ b.kind[o] \in Kinds /\ t.rec[o] = Settled(s.rec[o], b.kind[o])
    BY <1>1, TableFacts DEF Settles
  <2>2. QED
    BY <1>2, <2>1, SettledFacts DEF Finishing, Kinds
<1>4. /\ h \in RecordFates /\ h.done = f.done \cup finished
      /\ \A o \in Offsets : /\ o \in accepted => h.by[o] = f.by[o] \cup {m}
                            /\ o \notin accepted => h.by[o] = f.by[o]
                            /\ h.times[o] = f.times[o]
  <2>1. finished \in SUBSET Offsets
    BY <1>1
  <2>2. QED
    BY <2>1, FatesFacts
<1>5. SettledAgrees(t, h)
  BY <1>1, <1>3, <1>4 DEF SettledAgrees
<1>6. ASSUME CountsAgree(s, f) PROVE CountsAgree(t, h)
  <2>1. \A o \in DOMAIN t.rec : t.start <= o /\ h.times[o] <= t.rec[o].n
    BY <1>1, <1>3, <1>4, <1>6 DEF CountsAgree
  <2>2. ASSUME NEW o \in Offsets
        PROVE  /\ h.times[o] <= MAX_DELIVERY_ATTEMPTS
               /\ \E n \in Members \cup {Nobody} : h.by[o] \subseteq {n}
               /\ t.start <= o /\ o \notin DOMAIN t.rec => h.by[o] = {} /\ h.times[o] = 0
               /\ o \in DOMAIN t.rec /\ t.rec[o].state = "acquired" => h.by[o] = {}
    <3>1. CASE o \in accepted
      <4>1. f.by[o] = {} /\ o \in done
        BY <1>1, <1>2, <1>6, <3>1 DEF CountsAgree
      <4>2. h.by[o] = {m}
        BY <1>4, <3>1, <4>1
      <4>3. h.times[o] <= MAX_DELIVERY_ATTEMPTS
        BY <1>4, <1>6 DEF CountsAgree
      <4>4. o \in DOMAIN t.rec /\ t.rec[o].state = "acked"
        BY ZenonT(40), <1>1, <1>3, <3>1, <4>1
      <4>5. QED
        BY <4>2, <4>3, <4>4
    <3>2. CASE o \notin accepted
      <4>1. h.by[o] = f.by[o] /\ h.times[o] = f.times[o]
        BY ZenonT(40), <1>4, <3>2
      <4>2. t.rec[o].state = "acquired" /\ o \in DOMAIN s.rec => s.rec[o].state = "acquired"
        BY ZenonT(40), <1>1, <1>2
      <4>3. QED
        BY ZenonT(40), <1>1, <1>6, <4>1, <4>2 DEF CountsAgree
    <3>3. QED
      BY ZenonT(40), <3>1, <3>2
  <2>3. QED
    BY ZenonT(40), <2>1, <2>2 DEF CountsAgree
<1>7. QED
  BY <1>4, <1>5, <1>6

\* A batch names records the client believes it holds, and how to settle each.
IsBatch(b) == /\ b.first \in Nat /\ b.last \in Nat
              /\ \A o \in b.first .. b.last : b.kind[o] \in Kinds

LEMMA BatchFacts ==
  ASSUME ShareTypeOK, NEW m \in Members, NEW b \in Batches(worker[m].holds)
  PROVE  IsBatch(b)
<1>1. worker[m].holds \subseteq Nat
  BY ConstantFacts DEF ShareTypeOK, Offsets
<1>2. scenario.kinds \subseteq Kinds
  BY ScenarioAssumption DEF ShareTypeOK, ScenarioType, Kinds
<1>3. QED
  BY <1>1, <1>2 DEF Batches, IsBatch

\* acknowledge keeps what the tables say of the records true, whoever sends it and whatever it names.
LEMMA AcknowledgeFacts ==
  ASSUME NEW s, NEW f \in RecordFates, NEW h, NEW m \in Members, NEW b, IsBatch(b),
         NEW a, a = acknowledge(s, m, b), Tables(s), SettledAgrees(s, f),
         h = Fates(f, m, a.accepted, {}, a.finished)
  PROVE  /\ h \in RecordFates /\ Tables(a.s)
         /\ SettledAgrees(a.s, h)
         /\ CountsAgree(s, f) => CountsAgree(a.s, h)
         /\ a.finished \subseteq Offsets
         /\ a.s.start \in Nat
<1> DEFINE range == b.first .. b.last
           missed == {o \in range : b.kind[o] \in Finishing /\ ~Mine(s, o, m)}
           stop == IF b.one \/ missed = {} THEN b.last ELSE Min(missed) - 1
           done == {o \in b.first .. stop : Mine(s, o, m)}
           D == DOMAIN s.rec
           r == [o \in D |-> IF o \in done THEN Settled(s.rec[o], b.kind[o]) ELSE s.rec[o]]
           t == [s EXCEPT !.rec = r]
           accepted == {o \in done : b.kind[o] = "accept"}
           finished == {o \in done : b.kind[o] \in Finishing \cup {"gap"}}
<1>1. a = [s |-> IF missed = {} THEN advance_start_offset(t) ELSE t, accepted |-> accepted, finished |-> finished]
  BY ZenonT(40) DEF acknowledge
<1>2. \A o \in done : Mine(s, o, m) /\ b.kind[o] \in Kinds
  <2>1. stop \in Int /\ stop <= b.last
    <3>1. missed \in SUBSET Nat /\ \A o \in missed : o <= b.last
      BY DEF IsBatch
    <3>2. missed # {} => Min(missed) \in missed
      <4> HIDE DEF missed
      <4>1. QED
        BY <3>1, MinFacts
    <3>3. b.last \in Int
      BY DEF IsBatch
    <3> HIDE DEF missed
    <3>4. CASE b.one \/ missed = {}
      BY <3>3, <3>4
    <3>5. CASE ~(b.one \/ missed = {})
      <4>1. Min(missed) \in Nat /\ Min(missed) <= b.last /\ stop = Min(missed) - 1
        BY ZenonT(40), <3>1, <3>2, <3>5
      <4>2. QED
        BY <3>3, <4>1
    <3>6. QED
      BY <3>4, <3>5
  <2> HIDE DEF stop
  <2>2. QED
    BY <2>1 DEF IsBatch
<1> HIDE DEF done, missed
<1>3. Tables(t) /\ Settles(s, m, b, done, t)
  <2>1. D \in SUBSET Offsets /\ r \in [D -> Row]
    BY <1>2, TableFacts, SettledFacts DEF Mine
  <2>2. Tables(t) /\ t.start = s.start /\ t.rec = r
    <3> HIDE DEF r, D
    <3>1. QED
      BY <2>1, NewRows
  <2> HIDE DEF t
  <2>3. done \subseteq D
    BY <1>2 DEF Mine
  <2>4. QED
    BY <1>2, <2>2, <2>3 DEF Settles
<1> HIDE DEF t
<1>4. a.s \in {t, advance_start_offset(t)} /\ a.accepted = accepted /\ a.finished = finished
  BY <1>1
<1>5. finished \subseteq Offsets
  BY <1>2, TableFacts DEF Mine
<1> HIDE DEF accepted, finished
<1>6. /\ h \in RecordFates /\ SettledAgrees(t, h)
      /\ CountsAgree(s, f) => CountsAgree(t, h)
  BY ZenonT(40), <1>3, <1>4, SettlingFacts DEF accepted, finished
<1>7. /\ Tables(advance_start_offset(t)) /\ SettledAgrees(advance_start_offset(t), h)
      /\ CountsAgree(t, h) => CountsAgree(advance_start_offset(t), h)
  BY ZenonT(40), <1>3, <1>6, AdvanceFacts
<1>8. Tables(a.s) /\ SettledAgrees(a.s, h) /\ (CountsAgree(s, f) => CountsAgree(a.s, h))
  BY ZenonT(40), <1>3, <1>4, <1>6, <1>7
<1>9. a.s.start \in Nat
  BY <1>8, TableFacts
<1>10. QED
  BY ZenonT(40), <1>4, <1>5, <1>6, <1>8, <1>9

\* A row nobody holds any more.
LEMMA FreeFacts ==
  ASSUME NEW row \in Row
  PROVE  /\ Free(row) \in Row /\ Free(row).state = row.state /\ Free(row).n = row.n
         /\ Free(row).member = Nobody
BY ZenonT(40) DEF Free, Row

\* release_all takes a member's locks away.
LEMMA ReleaseFacts ==
  ASSUME NEW s, NEW f, NEW m, Tables(s), SettledAgrees(s, f)
  PROVE  /\ Tables(release_all(s, m)) /\ SettledAgrees(release_all(s, m), f)
         /\ CountsAgree(s, f) => CountsAgree(release_all(s, m), f)
<1> DEFINE D == DOMAIN s.rec
           r == [o \in D |-> IF s.rec[o].member = m /\ s.rec[o].state = "acquired" THEN Free(s.rec[o]) ELSE s.rec[o]]
           t == release_all(s, m)
<1>1. D \in SUBSET Offsets /\ r \in [D -> Row]
  BY TableFacts, FreeFacts
<1>2. \A o \in D : /\ r[o].state = s.rec[o].state /\ r[o].n = s.rec[o].n
                   /\ r[o].member \in {s.rec[o].member, Nobody}
  BY TableFacts, FreeFacts
<1>3. t = [s EXCEPT !.rec = r]
  BY DEF release_all
<1> HIDE DEF r, t
<1>4. Tables(t) /\ t.start = s.start /\ t.rec = r
  BY <1>1, <1>3, NewRows
<1>5. DOMAIN t.rec = DOMAIN s.rec
  BY <1>1, <1>4
<1>6. QED
  BY <1>2, <1>4, <1>5, RelockedFacts DEF t

-----------------------------------------------------------------------------
(* The steps. *)

\* What ShareInv says, for the steps that acquire or acknowledge.
LEMMA ShareFacts ==
  ASSUME ShareInv
  PROVE  /\ Tables(q) /\ fate \in RecordFates /\ SettledAgrees(q, fate)
         /\ ~scenario.sql => CountsAgree(q, fate) /\ sqlFrom = -1
         /\ q.start \in Nat /\ \A m \in Members : worker[m].holds \subseteq Offsets
BY TableFacts DEF ShareInv, ShareTypeOK

\* Another member table, with the same records.
LEMMA NewMembers ==
  ASSUME NEW s, NEW f, Tables(s), SettledAgrees(s, f), NEW D, NEW r \in [D -> BOOLEAN]
  PROVE  /\ Tables([s EXCEPT !.mem = r]) /\ SettledAgrees([s EXCEPT !.mem = r], f)
         /\ CountsAgree(s, f) => CountsAgree([s EXCEPT !.mem = r], f)
<1> DEFINE t == [s EXCEPT !.mem = r]
<1>1. /\ t.start = s.start /\ t.rec = s.rec /\ t.mem = r
      /\ t \in [start : 0 .. Records, rec : [DOMAIN s.rec -> Row], mem : [D -> BOOLEAN]]
  BY DEF Tables
<1>2. DOMAIN r = D /\ DOMAIN s.rec \subseteq Offsets
  BY DEF Tables
<1> HIDE DEF t
<1>3. Tables(t)
  BY <1>1, <1>2 DEF Tables
<1>4. SettledAgrees(t, f) /\ (CountsAgree(s, f) => CountsAgree(t, f))
  BY <1>1 DEF SettledAgrees, CountsAgree
<1>5. QED
  BY <1>3, <1>4 DEF t

\* ShareInv from what a step leaves.
LEMMA Concludes ==
  ASSUME ShareInv, scenario' = scenario, Tables(q'), fate' \in RecordFates, SettledAgrees(q', fate'),
         ~scenario.sql => CountsAgree(q', fate') /\ sqlFrom' = -1,
         sqlFrom' \in Offsets \cup {-1},
         worker' \in [Members -> [at : {"out", "in", "gone"}, holds : SUBSET Offsets]]
  PROVE  ShareInv'
BY ZenonT(40) DEF ShareInv, ShareTypeOK, Tables, RecordFates, SettledAgrees, CountsAgree,
  Row, Offsets

\* A fetch: the acknowledgements first, then what it acquires.
LEMMA FetchStep ==
  ASSUME ShareInv, NEW m \in Members, NEW b \in Batches(worker[m].holds) \cup {NoBatch},
         NEW limit, NEW got \in BOOLEAN, share_fetch(m, b, limit, got)
  PROVE  ShareInv'
<1>1. UNCHANGED <<scenario, sqlFrom>>
  BY DEF share_fetch
<1>2. CASE m \notin DOMAIN q.mem
  BY <1>1, <1>2 DEF share_fetch, ShareInv, ShareTypeOK
<1>3. CASE m \in DOMAIN q.mem
  <2> DEFINE a == IF b = NoBatch THEN [s |-> q, accepted |-> {}, finished |-> {}] ELSE acknowledge(q, m, b)
             f == acquire_and_read(a.s, m, limit)
             g == Fates(fate, m, a.accepted, {}, a.finished)
             h == Fates(g, m, {}, f.out, f.finished)
  <2>1. /\ q' = [f.s EXCEPT !.mem[m] = FALSE]
        /\ fate' = Fates(fate, m, a.accepted, f.out, a.finished \cup f.finished)
        /\ worker' = [worker EXCEPT ![m].holds = IF got THEN Kept_Back(m, b) \cup f.out ELSE @]
    BY <1>3 DEF share_fetch
  <2>2. /\ g \in RecordFates /\ Tables(a.s) /\ SettledAgrees(a.s, g)
        /\ ~scenario.sql => CountsAgree(a.s, g)
        /\ a.finished \subseteq Offsets /\ a.s.start \in Nat
    <3>1. CASE b = NoBatch
      BY ZenonT(40), <3>1, ShareFacts, ComposedFates
    <3>2. CASE b # NoBatch
      <4>1. IsBatch(b)
        BY <3>2, BatchFacts DEF ShareInv
      <4>2. a = acknowledge(q, m, b)
        BY <3>2
      <4>3. /\ Tables(q) /\ fate \in RecordFates /\ SettledAgrees(q, fate)
            /\ ~scenario.sql => CountsAgree(q, fate)
        BY ShareFacts
      <4> HIDE DEF a
      <4>4. QED
        BY ZenonT(40), <4>1, <4>2, <4>3, AcknowledgeFacts
    <3>3. QED
      BY ZenonT(40), <3>1, <3>2
  <2> HIDE DEF a, g
  <2>3. /\ h \in RecordFates /\ Tables(f.s) /\ SettledAgrees(f.s, h)
        /\ ~scenario.sql => CountsAgree(f.s, h)
        /\ f.out \subseteq Offsets /\ f.finished \subseteq Offsets
    <3>1. CASE Records <= a.s.start
      <4>1. f = [s |-> a.s, out |-> {}, finished |-> {}]
        BY <3>1 DEF acquire_and_read
      <4>2. h = g
        <5>1. h = Fates(g, m, {}, {}, {})
          BY <4>1
        <5>2. QED
          BY ZenonT(40), <2>2, <5>1, ComposedFates
      <4> HIDE DEF f, h
      <4>3. f.s = a.s /\ f.out = {} /\ f.finished = {}
        BY <4>1
      <4>4. QED
        BY ZenonT(40), <2>2, <4>2, <4>3
    <3>2. CASE ~(Records <= a.s.start)
      <4>1. f = acquire(a.s, m, a.s.start, limit)
        BY <3>2 DEF acquire_and_read
      <4>2. a.s.start <= a.s.start
        BY <2>2
      <4> HIDE DEF f
      <4>3. QED
        BY <2>2, <4>1, <4>2, AcquireFacts
    <3>3. QED
      BY ZenonT(40), <3>1, <3>2
  <2>4. fate' = h
    <3> HIDE DEF f
    <3>1. QED
      BY <2>1, <2>2, <2>3, ShareFacts, ComposedFates DEF g
  <2> HIDE DEF f, h
  <2>5. Tables(q') /\ SettledAgrees(q', h) /\ (CountsAgree(f.s, h) => CountsAgree(q', h))
    <3>1. f.s.mem \in [DOMAIN f.s.mem -> BOOLEAN]
      BY <2>3 DEF Tables
    <3>2. [f.s.mem EXCEPT ![m] = FALSE] \in [DOMAIN f.s.mem -> BOOLEAN]
      BY ZenonT(40), <3>1
    <3>3. q' = [f.s EXCEPT !.mem = [f.s.mem EXCEPT ![m] = FALSE]]
      BY <2>1
    <3>4. QED
      BY ZenonT(40), <2>3, <3>2, <3>3, NewMembers
  <2>6. worker' \in [Members -> [at : {"out", "in", "gone"}, holds : SUBSET Offsets]]
    BY <2>1, <2>3, ShareFacts DEF ShareInv, ShareTypeOK, Kept_Back
  <2>7. QED
    BY <1>1, <2>3, <2>4, <2>5, <2>6, Concludes DEF ShareInv, ShareTypeOK
<1>4. QED
  BY <1>2, <1>3

\* An acknowledgement on its own; one that ends the session takes the member's locks away first.
LEMMA AcknowledgeStep ==
  ASSUME ShareInv, NEW m \in Members, NEW b \in Batches(worker[m].holds) \cup {NoBatch},
         NEW ends \in BOOLEAN, share_acknowledge(m, b, ends)
  PROVE  ShareInv'
<1> DEFINE s == IF ends THEN release_all(q, m) ELSE q
           a == acknowledge(s, m, b)
<1>1. /\ q' = a.s /\ fate' = Fates(fate, m, a.accepted, {}, a.finished) /\ b # NoBatch
      /\ worker' = [worker EXCEPT ![m].holds = IF ends THEN {} ELSE Kept_Back(m, b)]
      /\ UNCHANGED <<scenario, sqlFrom>>
  BY DEF share_acknowledge
<1>2. Tables(s) /\ SettledAgrees(s, fate) /\ (~scenario.sql => CountsAgree(s, fate))
  BY ShareFacts, ReleaseFacts
<1>3. IsBatch(b)
  BY <1>1, BatchFacts DEF ShareInv
<1> HIDE DEF s
<1>4. /\ fate' \in RecordFates /\ Tables(q') /\ SettledAgrees(q', fate')
      /\ ~scenario.sql => CountsAgree(q', fate')
  <2> HIDE DEF a
  <2>1. QED
    BY <1>1, <1>2, <1>3, ShareFacts, AcknowledgeFacts DEF a
<1>5. worker' \in [Members -> [at : {"out", "in", "gone"}, holds : SUBSET Offsets]]
  BY <1>1, ShareFacts DEF ShareInv, ShareTypeOK, Kept_Back
<1>6. QED
  BY <1>1, <1>4, <1>5, Concludes DEF ShareInv, ShareTypeOK

\* kafgres_share_acquire, from a start offset that may be stale.
LEMMA SqlAcquireStep ==
  ASSUME ShareInv, NEW m \in Members, SqlAcquires(m)
  PROVE  ShareInv'
<1> DEFINE f == acquire(q, m, sqlFrom, Records)
<1>1. /\ q' = f.s /\ fate' = Fates(fate, m, {}, f.out, f.finished) /\ sqlFrom # -1 /\ sqlFrom' = -1
      /\ worker' = [worker EXCEPT ![m].holds = @ \cup f.out] /\ scenario' = scenario
  BY DEF SqlAcquires
<1>2. sqlFrom \in Nat /\ scenario.sql
  BY <1>1, ConstantFacts DEF ShareInv, ShareTypeOK, Offsets
<1>3. fate' \in RecordFates /\ Tables(q') /\ SettledAgrees(q', fate') /\ f.out \subseteq Offsets
  <2> HIDE DEF f
  <2>1. QED
    BY <1>1, <1>2, ShareFacts, AcquireFacts DEF f
<1> HIDE DEF f
<1>4. worker' \in [Members -> [at : {"out", "in", "gone"}, holds : SUBSET Offsets]]
  BY <1>1, <1>3, ShareFacts DEF ShareInv, ShareTypeOK
<1>5. QED
  BY <1>1, <1>2, <1>3, <1>4, Concludes

\* The locks and the members that lapse, and the sweep that frees them.
LEMMA TimeStep ==
  ASSUME ShareInv, expire \/ (\E o \in Offsets : LockLapses(o)) \/ (\E m \in Members : ShareLapse(m))
  PROVE  ShareInv'
<1>0. UNCHANGED <<scenario, fate, sqlFrom, worker>>
  BY DEF expire, LockLapses, ShareLapse, ShareTime
<1>1. CASE expire
  <2> DEFINE D == DOMAIN q.rec
             lapsed == {o \in D : q.rec[o].until = "past"}
             r == [o \in D |-> IF o \in lapsed THEN Free(q.rec[o]) ELSE q.rec[o]]
             t == [q EXCEPT !.rec = r]
             E == DOMAIN q.mem \ {m \in DOMAIN q.mem : q.mem[m]}
             u == [m \in E |-> q.mem[m]]
  <2>1. D \in SUBSET Offsets /\ r \in [D -> Row]
    BY ShareFacts, TableFacts, FreeFacts
  <2>2. \A o \in D : /\ r[o].state = q.rec[o].state /\ r[o].n = q.rec[o].n
                     /\ r[o].member \in {q.rec[o].member, Nobody}
    BY ShareFacts, TableFacts, FreeFacts
  <2>3. u \in [E -> BOOLEAN]
    BY ShareFacts DEF Tables
  <2>4. q' = [t EXCEPT !.mem = u]
    BY <1>1, ShareFacts DEF expire, Restrict, Tables
  <2> HIDE DEF r, t, u, E
  <2>5. Tables(t) /\ t.start = q.start /\ t.rec = r /\ DOMAIN t.rec = DOMAIN q.rec
    BY <2>1, ShareFacts, NewRows DEF t
  <2>6. SettledAgrees(t, fate) /\ (CountsAgree(q, fate) => CountsAgree(t, fate))
    BY <2>2, <2>5, ShareFacts, RelockedFacts
  <2>7. Tables(q') /\ SettledAgrees(q', fate) /\ (CountsAgree(t, fate) => CountsAgree(q', fate))
    BY ZenonT(40), <2>3, <2>4, <2>5, <2>6, NewMembers
  <2>8. QED
    BY <1>0, <2>6, <2>7, ShareFacts, Concludes DEF ShareInv, ShareTypeOK
<1>2. ASSUME NEW o \in Offsets, LockLapses(o) PROVE ShareInv'
  <2> DEFINE D == DOMAIN q.rec
             r == [q.rec EXCEPT ![o].until = "past"]
  <2>0. q.rec \in [D -> Row] /\ D \in SUBSET Offsets /\ o \in D
    BY <1>2, ShareFacts DEF Tables, LockLapses
  <2>1. r \in [D -> Row]
    BY <2>0 DEF Row
  <2>2. \A x \in D : /\ r[x].state = q.rec[x].state /\ r[x].n = q.rec[x].n
                     /\ r[x].member \in {q.rec[x].member, Nobody}
    BY <2>0 DEF Row
  <2>3. q' = [q EXCEPT !.rec = r]
    BY <1>2 DEF LockLapses
  <2> HIDE DEF r
  <2>4. Tables(q') /\ q'.start = q.start /\ q'.rec = r /\ DOMAIN q'.rec = DOMAIN q.rec
    BY <2>0, <2>1, <2>3, ShareFacts, NewRows
  <2>5. SettledAgrees(q', fate) /\ (CountsAgree(q, fate) => CountsAgree(q', fate))
    BY <2>2, <2>4, ShareFacts, RelockedFacts
  <2>6. QED
    BY <1>0, <2>4, <2>5, ShareFacts, Concludes DEF ShareInv, ShareTypeOK
<1>3. ASSUME NEW m \in Members, ShareLapse(m) PROVE ShareInv'
  <2> DEFINE u == [q.mem EXCEPT ![m] = TRUE]
  <2>1. u \in [DOMAIN q.mem -> BOOLEAN] /\ q' = [q EXCEPT !.mem = u]
    BY <1>3, ShareFacts DEF ShareLapse, Tables
  <2> HIDE DEF u
  <2>2. Tables(q') /\ SettledAgrees(q', fate) /\ (CountsAgree(q, fate) => CountsAgree(q', fate))
    BY ZenonT(40), <2>1, ShareFacts, NewMembers
  <2>3. QED
    BY <1>0, <2>2, ShareFacts, Concludes DEF ShareInv, ShareTypeOK
<1>4. QED
  BY <1>1, <1>2, <1>3

\* Every step of a share group keeps its invariant.
LEMMA ShareStep ==
  ASSUME ShareInv, ShareNext
  PROVE  ShareInv'
<1>1. CASE SqlReads
  <2>1. sqlFrom' = q.start /\ q.start < Records /\ scenario.sql /\ UNCHANGED <<scenario, q, worker, fate>>
    BY <1>1 DEF SqlReads
  <2>2. sqlFrom' \in Offsets
    BY <2>1, ShareFacts, ConstantFacts DEF Offsets
  <2>3. QED
    BY <2>1, <2>2, ShareFacts, Concludes DEF ShareInv, ShareTypeOK
<1>2. ASSUME NEW to \in 0 .. Records, MoveShareOffset(to) PROVE ShareInv'
  <2>1. /\ q' = [q EXCEPT !.start = to, !.rec = <<>>] /\ fate' = FreshFrom(to)
        /\ UNCHANGED <<scenario, worker, sqlFrom>>
    BY <1>2 DEF MoveShareOffset
  <2>2. /\ q'.start = to /\ q'.rec = <<>> /\ q'.mem = q.mem
        /\ q' \in [start : 0 .. Records, rec : {<<>>}, mem : [DOMAIN q.mem -> BOOLEAN]]
    BY ZenonT(40), <2>1, ShareFacts DEF Tables
  <2>3. DOMAIN q'.rec = {} /\ q'.rec \in [DOMAIN q'.rec -> Row]
    BY <2>2
  <2>4. Tables(q')
    BY ZenonT(40), <2>2, <2>3 DEF Tables
  <2>5. fate' \in RecordFates /\ fate'.done = 0 .. to - 1 /\ \A o \in Offsets : fate'.by[o] = {} /\ fate'.times[o] = 0
    BY <2>1, ConstantFacts DEF FreshFrom, RecordFates, Offsets
  <2>6. SettledAgrees(q', fate')
    BY <2>2, <2>3, <2>5 DEF SettledAgrees
  <2>7. CountsAgree(q', fate')
    BY <2>2, <2>3, <2>5, ConstantFacts DEF CountsAgree
  <2>8. QED
    BY <2>1, <2>4, <2>5, <2>6, <2>7, ShareFacts, Concludes DEF ShareInv, ShareTypeOK
<1>3. ASSUME NEW m \in Members, ShareHeartbeat(m) PROVE ShareInv'
  <2> DEFINE E == DOMAIN q.mem \cup {m}
             u == [n \in E |-> n # m /\ q.mem[n]]
  <2>1. /\ q' = q \/ q' = [q EXCEPT !.mem = u]
        /\ worker' \in {[worker EXCEPT ![m].at = "gone"], [worker EXCEPT ![m].at = "in"]}
        /\ UNCHANGED <<scenario, sqlFrom, fate>>
    BY <1>3 DEF ShareHeartbeat, ensure_member
  <2>2. u \in [E -> BOOLEAN]
    BY ZenonT(40)
  <2> HIDE DEF u
  <2>3. Tables(q') /\ SettledAgrees(q', fate) /\ (CountsAgree(q, fate) => CountsAgree(q', fate))
    <3>1. CASE q' = q
      BY <3>1, ShareFacts
    <3>2. CASE q' = [q EXCEPT !.mem = u]
      BY <2>2, <3>2, ShareFacts, NewMembers
    <3>3. QED
      BY <2>1, <3>1, <3>2
  <2>4. worker' \in [Members -> [at : {"out", "in", "gone"}, holds : SUBSET Offsets]]
    BY <2>1 DEF ShareInv, ShareTypeOK
  <2>5. QED
    BY <2>1, <2>3, <2>4, ShareFacts, Concludes DEF ShareInv, ShareTypeOK
<1>4. ASSUME NEW m \in Members, ShareLeave(m) PROVE ShareInv'
  <2> DEFINE s == release_all(q, m)
             E == DOMAIN s.mem \ {m}
             u == [n \in E |-> s.mem[n]]
  <2>1. /\ q' = [s EXCEPT !.mem = u] /\ UNCHANGED <<scenario, sqlFrom, fate>>
        /\ worker' = [worker EXCEPT ![m] = [at |-> "gone", holds |-> {}]]
    BY <1>4 DEF ShareLeave, Restrict
  <2>2. Tables(s) /\ SettledAgrees(s, fate) /\ (CountsAgree(q, fate) => CountsAgree(s, fate))
    BY ShareFacts, ReleaseFacts
  <2> HIDE DEF s
  <2>3. u \in [E -> BOOLEAN]
    BY <2>2 DEF Tables
  <2> HIDE DEF u
  <2>4. Tables(q') /\ SettledAgrees(q', fate) /\ (CountsAgree(s, fate) => CountsAgree(q', fate))
    BY ZenonT(40), <2>1, <2>2, <2>3, NewMembers
  <2>5. worker' \in [Members -> [at : {"out", "in", "gone"}, holds : SUBSET Offsets]]
    BY <2>1 DEF ShareInv, ShareTypeOK
  <2>6. QED
    BY <2>1, <2>2, <2>4, <2>5, ShareFacts, Concludes DEF ShareInv, ShareTypeOK
<1>5. ASSUME NEW m \in Members, ShareSessionEnds(m) PROVE ShareInv'
  <2>1. /\ q' = release_all(q, m) /\ UNCHANGED <<scenario, sqlFrom, fate>>
        /\ worker' = [worker EXCEPT ![m].holds = {}]
    BY <1>5 DEF ShareSessionEnds
  <2>2. Tables(q') /\ SettledAgrees(q', fate) /\ (CountsAgree(q, fate) => CountsAgree(q', fate))
    BY <2>1, ShareFacts, ReleaseFacts
  <2>3. worker' \in [Members -> [at : {"out", "in", "gone"}, holds : SUBSET Offsets]]
    BY <2>1 DEF ShareInv, ShareTypeOK
  <2>4. QED
    BY <2>1, <2>2, <2>3, ShareFacts, Concludes DEF ShareInv, ShareTypeOK
<1>6. ASSUME NEW m \in Members, ShareCrash(m) PROVE ShareInv'
  <2>1. /\ worker' = [worker EXCEPT ![m] = [at |-> "gone", holds |-> {}]]
        /\ UNCHANGED <<scenario, q, sqlFrom, fate>>
    BY <1>6 DEF ShareCrash
  <2>2. worker' \in [Members -> [at : {"out", "in", "gone"}, holds : SUBSET Offsets]]
    BY <2>1 DEF ShareInv, ShareTypeOK
  <2>3. QED
    BY <2>1, <2>2, ShareFacts, Concludes DEF ShareInv, ShareTypeOK
<1>7. QED
  BY ZenonT(40), <1>1, <1>2, <1>3, <1>4, <1>5, <1>6, TimeStep, SqlAcquireStep, FetchStep,
    AcknowledgeStep
    DEF ShareNext

\* The invariant holds of empty tables.
LEMMA InitShareInv == IdsInit /\ ShareInit => ShareInv
<1> SUFFICES ASSUME IdsInit, ShareInit PROVE ShareInv
  OBVIOUS
<1>1. /\ q = [start |-> 0, rec |-> <<>>, mem |-> <<>>] /\ sqlFrom = -1 /\ fate = FreshFrom(0)
      /\ worker = [m \in Members |->
                [at |-> IF m \in scenario.clients["share"] THEN "out" ELSE "gone", holds |-> {}]]
      /\ scenario \in Scenarios
  BY DEF IdsInit, ShareInit
<1>2. Tables(q) /\ q.start = 0 /\ DOMAIN q.rec = {}
  BY <1>1, ConstantFacts DEF Tables
<1>3. fate \in RecordFates /\ fate.done = 0 .. -1 /\ \A o \in Offsets : fate.by[o] = {} /\ fate.times[o] = 0
  BY <1>1, ConstantFacts DEF FreshFrom, RecordFates, Offsets
<1>4. SettledAgrees(q, fate) /\ CountsAgree(q, fate)
  BY <1>2, <1>3, ConstantFacts DEF SettledAgrees, CountsAgree
<1>5. worker \in [Members -> [at : {"out", "in", "gone"}, holds : SUBSET Offsets]]
  BY <1>1
<1>6. QED
  BY <1>1, <1>2, <1>3, <1>4, <1>5 DEF ShareInv, ShareTypeOK

\* SharedOnce follows from the invariant.
LEMMA InvShared == ShareInv => SharedOnce
<1> SUFFICES ASSUME ShareInv PROVE SharedOnce
  OBVIOUS
<1>1. NoSkip
  BY DEF ShareInv, SettledAgrees, NoSkip
<1>2. ASSUME ~scenario.sql, NEW o \in Offsets
      PROVE  (\A m, n \in fate.by[o] : m = n) /\ fate.times[o] <= MAX_DELIVERY_ATTEMPTS
  <2>1. /\ fate.times[o] <= MAX_DELIVERY_ATTEMPTS
        /\ \E m \in Members \cup {Nobody} : fate.by[o] \subseteq {m}
    BY ZenonT(40), <1>2 DEF ShareInv, CountsAgree
  <2>2. QED
    BY ZenonT(40), <2>1
<1>3. QED
  BY ZenonT(40), <1>1, <1>2 DEF SharedOnce, AcceptedByOne, AttemptsBounded
=============================================================================
