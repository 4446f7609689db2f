------------------------ MODULE ConsumerGroupProofs ------------------------
(***************************************************************************)
(* That a KIP-848 group's own steps keep ConsumerInv, for any number of    *)
(* members and partitions and any scenario.  The lemmas are about any rows *)
(* that are Sound, so that a heartbeat is one for each of what it does:    *)
(* adopt, write down, assign, grant.                                       *)
(***************************************************************************)
EXTENDS ConsumerGroup, FiniteSetTheorems, TLAPS

\* The ids of members are ordered.
LEMMA IdFacts == Members \subseteq Nat
BY MemberAssumption

\* Only gives back the one element.
LEMMA OnlyOne ==
  ASSUME NEW e
  PROVE  Only({e}) = e
BY DEF Only

\* No two members have the same rank.
LEMMA RanksDiffer ==
  ASSUME NEW S \in SUBSET Nat, IsFiniteSet(S), NEW m \in S, NEW n \in S, m # n
  PROVE  RankIn(S, m) # RankIn(S, n)
<1>1. ASSUME NEW a \in S, NEW b \in S, a < b
      PROVE  RankIn(S, a) # RankIn(S, b)
  <2> DEFINE A == {x \in S : x < a}
             B == {x \in S : x < b}
  <2>0. ASSUME NEW x \in S, x < a PROVE x < b
    <3>1. x \in Nat /\ a \in Nat /\ b \in Nat
      OBVIOUS
    <3>2. QED
      BY <1>1, <2>0, <3>1
  <2>1. A \in SUBSET B /\ B \in SUBSET S /\ a \in B
    BY ZenonT(40), <1>1, <2>0
  <2>5. a \notin A
    <3>1. a \in Nat
      OBVIOUS
    <3>2. ~(a < a)
      BY <3>1
    <3>3. QED
      BY <3>2
  <2>2. IsFiniteSet(B)
    BY <2>1, FS_Subset
  <2>3. Cardinality(A) = Cardinality(B) => A = B
    BY <2>1, <2>2, FS_Subset
  <2>4. QED
    BY <2>1, <2>3, <2>5 DEF RankIn
<1>2. m < n \/ n < m
  OBVIOUS
<1>3. QED
  BY <1>1, <1>2

\* A partition goes to one member.
LEMMA AssignApart ==
  ASSUME NEW mem, DOMAIN mem \subseteq Members, IsFiniteSet(DOMAIN mem), NEW ps \in SUBSET Nat
  PROVE  \A m \in DOMAIN mem :
           /\ assign(mem, ps)[m] \in SUBSET Nat
           /\ \A n \in DOMAIN mem : m # n => assign(mem, ps)[m] \cap assign(mem, ps)[n] = {}
<1> DEFINE wants == {m \in DOMAIN mem : mem[m].subscribed}
           F(m) == {p \in ps : m \in wants /\ (p - 1) % Cardinality(wants) = RankIn(wants, m)}
<1>1. wants \in SUBSET Nat /\ IsFiniteSet(wants)
  <2>1. wants \in SUBSET DOMAIN mem
    OBVIOUS
  <2>2. QED
    BY ZenonT(40), <2>1, FS_Subset, IdFacts
<1>2. assign(mem, ps) = [m \in DOMAIN mem |-> F(m)]
  BY DEF assign
<1>3. \A m \in DOMAIN mem : assign(mem, ps)[m] = F(m)
  BY <1>2
<1>4. ASSUME NEW m, NEW n, m # n PROVE F(m) \cap F(n) = {}
  <2> SUFFICES ASSUME NEW p, p \in F(m), p \in F(n) PROVE FALSE
    OBVIOUS
  <2>1. m \in wants /\ n \in wants /\ RankIn(wants, m) = RankIn(wants, n)
    OBVIOUS
  <2>2. QED
    BY <1>1, <1>4, <2>1, RanksDiffer
<1>5. \A m \in DOMAIN mem : F(m) \in SUBSET Nat
  BY ZenonT(40)
<1> HIDE DEF F
<1>6. QED
  BY <1>3, <1>4, <1>5
-----------------------------------------------------------------------------

Sound(g) == MemberRows(g) /\ TargetsApart(g) /\ GrantedApart(g)

\* The rows tell the same of what their member was granted and of whether it is there.
Alike(r, s) == r.granted = s.granted /\ r.departed = s.departed /\ r.lapsed = s.lapsed

\* A new assignment changes targets only.
LEMMA AssignedSound ==
  ASSUME NEW g, Sound(g), parts \in SUBSET Nat
  PROVE  /\ Sound(Assigned(g)) /\ DOMAIN Assigned(g).mem = DOMAIN g.mem
         /\ \A m \in DOMAIN g.mem : Alike(Assigned(g).mem[m], g.mem[m])
<1> DEFINE D == DOMAIN g.mem
           T == assign(g.mem, parts)
           R(m) == [g.mem[m] EXCEPT !.target = T[m]]
           h == [g EXCEPT !.assigned = g.epoch, !.stale = FALSE, !.mem = [m \in D |-> R(m)]]
<1>1. CASE ~Assignment_Due(g)
  BY <1>1 DEF Assigned, Alike
<1>2. CASE Assignment_Due(g)
  <2>1. Assigned(g) = h
    BY <1>2 DEF Assigned, recompute_target
  <2>2. /\ g.epoch \in Nat /\ g.mem \in [D -> MemberRow] /\ D \subseteq Members /\ IsFiniteSet(D)
        /\ g \in [epoch : Nat, assigned : Nat, stale : BOOLEAN, mem : [D -> MemberRow]]
    BY DEF Sound, MemberRows
  <2>3. \A m \in D : T[m] \in SUBSET Nat /\ \A n \in D : m # n => T[m] \cap T[n] = {}
    BY <2>2, AssignApart
  <2> HIDE DEF T
  <2>4. \A m \in D : /\ R(m) \in MemberRow /\ R(m).target = T[m] /\ R(m).granted = g.mem[m].granted
                     /\ Alike(R(m), g.mem[m])
    BY <2>2, <2>3 DEF MemberRow, Alike
  <2> HIDE DEF R
  <2>5. h \in [epoch : Nat, assigned : Nat, stale : BOOLEAN, mem : [D -> MemberRow]]
    BY ZenonT(40), <2>2, <2>4
  <2>6. DOMAIN h.mem = D /\ \A m \in D : h.mem[m] = R(m)
    BY <2>2
  <2> HIDE DEF h
  <2>7. MemberRows(h)
    BY <2>2, <2>5, <2>6 DEF MemberRows
  <2>8. TargetsApart(h)
    BY <2>3, <2>4, <2>6 DEF TargetsApart
  <2>9. GrantedApart(h)
    BY <2>4, <2>6 DEF GrantedApart, Sound
  <2>10. QED
    BY <2>1, <2>4, <2>6, <2>7, <2>8, <2>9 DEF Sound
<1>3. QED
  BY <1>1, <1>2

\* What a member is granted nobody else was: either it was to be the other's, and targets are
\* apart, or the other holds it still.
LEMMA GrantableApart ==
  ASSUME NEW g, Sound(g), NEW me \in DOMAIN g.mem, NEW n \in DOMAIN g.mem, n # me
  PROVE  (g.mem[me].target \ held_elsewhere(g.mem)) \cap g.mem[n].granted = {}
<1> SUFFICES ASSUME NEW p, p \in g.mem[me].target, p \notin held_elsewhere(g.mem), p \in g.mem[n].granted
             PROVE  FALSE
  OBVIOUS
<1>1. p \notin g.mem[n].target
  BY DEF Sound, TargetsApart
<1>2. p \in Holds(g.mem[n]) \ g.mem[n].target
  BY <1>1 DEF Holds
<1>3. p \in held_elsewhere(g.mem)
  BY <1>2 DEF held_elsewhere
<1>4. QED
  BY <1>3

\* The answer to a heartbeat adds to the row of the member what it assigns it, and takes from it
\* only what the member reported that it does not hold.
LEMMA ReconcileSound ==
  ASSUME NEW g, Sound(g), parts \in SUBSET Nat, NEW me \in DOMAIN g.mem, NEW report \in SUBSET SUBSET Nat,
         NEW r, r = reconcile(g, me, report)
  PROVE  /\ Sound(r.g) /\ DOMAIN r.g.mem = DOMAIN g.mem
         /\ \A n \in DOMAIN g.mem \ {me} : Alike(r.g.mem[n], g.mem[n])
         /\ r.epoch \in Nat /\ r.assignment \in SUBSET Nat
         /\ r.g.mem[me].granted = Kept(g.mem[me], report) \cup r.assignment
         /\ r.g.mem[me].departed = g.mem[me].departed /\ ~r.g.mem[me].lapsed
<1> DEFINE h == Assigned(g)
           D == DOMAIN h.mem
           x == h.mem[me].target \ held_elsewhere(h.mem)
           row == Granted(h.mem[me], h.epoch, x, report)
           j == [h EXCEPT !.mem[me] = row]
           a == [g |-> j, epoch |-> row.epoch, assignment |-> x]
<1>1. r = a
  <2>1. r = Only({a})
    BY ZenonT(40) DEF reconcile
  <2> HIDE DEF a
  <2>2. QED
    BY ZenonT(40), <2>1, OnlyOne
<1>2. Sound(h) /\ D = DOMAIN g.mem /\ \A n \in D : Alike(h.mem[n], g.mem[n])
  BY AssignedSound
<1>3. /\ h \in [epoch : Nat, assigned : Nat, stale : BOOLEAN, mem : [D -> MemberRow]]
      /\ h.epoch \in Nat /\ h.mem \in [D -> MemberRow] /\ D \subseteq Members /\ IsFiniteSet(D)
      /\ me \in D /\ h.mem[me] \in MemberRow
  BY <1>2 DEF Sound, MemberRows
<1>4. x \in SUBSET Nat
  BY <1>3 DEF MemberRow
<1>5. Kept(h.mem[me], report) \subseteq h.mem[me].granted
  BY DEF Kept
<1>6. \A n \in D \ {me} : x \cap h.mem[n].granted = {}
  BY <1>2, <1>3, GrantableApart
<1> HIDE DEF x, h
<1>7. /\ row \in MemberRow /\ row.target = h.mem[me].target /\ row.epoch \in Nat
      /\ row.granted = Kept(h.mem[me], report) \cup x
      /\ row.departed = h.mem[me].departed /\ ~row.lapsed
  BY ZenonT(40), <1>3, <1>4, <1>5 DEF Granted, MemberRow
<1> HIDE DEF row
<1>8. /\ j \in [epoch : Nat, assigned : Nat, stale : BOOLEAN, mem : [D -> MemberRow]]
      /\ DOMAIN j.mem = D /\ j.mem[me] = row /\ \A n \in D \ {me} : j.mem[n] = h.mem[n]
  BY <1>3, <1>7
<1> HIDE DEF j
<1>9. MemberRows(j)
  BY <1>3, <1>8 DEF MemberRows
<1>10. TargetsApart(j)
  <2>1. \A n \in D : j.mem[n].target = h.mem[n].target
    BY <1>7, <1>8
  <2>2. QED
    BY <1>2, <1>8, <2>1 DEF TargetsApart, Sound
<1>11. GrantedApart(j)
  <2> SUFFICES ASSUME NEW m \in D, NEW n \in D, m # n
               PROVE  j.mem[m].granted \cap j.mem[n].granted = {}
    BY <1>8 DEF GrantedApart
  <2>1. h.mem[m].granted \cap h.mem[n].granted = {}
    BY <1>2 DEF GrantedApart, Sound
  <2>2. CASE m # me /\ n # me
    BY <1>8, <2>1, <2>2
  <2>3. CASE m = me
    BY <1>5, <1>6, <1>7, <1>8, <2>1, <2>3
  <2>4. CASE n = me
    BY <1>5, <1>6, <1>7, <1>8, <2>1, <2>4
  <2>5. QED
    BY <2>2, <2>3, <2>4
<1>12. Kept(h.mem[me], report) = Kept(g.mem[me], report) /\ h.mem[me].departed = g.mem[me].departed
  BY ZenonT(40), <1>2, <1>3 DEF Kept, Alike
<1>13. /\ r.g = j /\ r.epoch = row.epoch /\ r.assignment = x
  BY <1>1
<1>14. QED
  BY <1>2, <1>4, <1>7, <1>8, <1>9, <1>10, <1>11, <1>12, <1>13 DEF Sound

-----------------------------------------------------------------------------

\* A new epoch changes no row.
LEMMA BumpSound ==
  ASSUME NEW g, Sound(g)
  PROVE  Sound(bump_epoch(g)) /\ bump_epoch(g).mem = g.mem
<1>1. g \in [epoch : Nat, assigned : Nat, stale : BOOLEAN, mem : [DOMAIN g.mem -> MemberRow]]
  BY DEF Sound, MemberRows
<1>2. /\ bump_epoch(g).mem = g.mem
      /\ bump_epoch(g) \in [epoch : Nat, assigned : Nat, stale : BOOLEAN, mem : [DOMAIN g.mem -> MemberRow]]
  <2> DEFINE M == [DOMAIN g.mem -> MemberRow]
             b == [g EXCEPT !.epoch = g.epoch + 1, !.stale = FALSE]
  <2>1. g.epoch + 1 \in Nat
    BY <1>1
  <2>2. b = bump_epoch(g)
    BY <1>1 DEF bump_epoch
  <2>3. g \in [epoch : Nat, assigned : Nat, stale : BOOLEAN, mem : M]
    BY <1>1
  <2> HIDE DEF M
  <2>4. b \in [epoch : Nat, assigned : Nat, stale : BOOLEAN, mem : M] /\ b.mem = g.mem
    BY ZenonT(40), <2>1, <2>3
  <2>5. QED
    BY ZenonT(40), <2>2, <2>4 DEF M
<1>3. QED
  BY <1>2 DEF Sound, MemberRows, TargetsApart, GrantedApart

\* So does the removal of members, but for theirs.
LEMMA WithoutSound ==
  ASSUME NEW g, Sound(g), NEW S, NEW h, h = Without(g, S)
  PROVE  Sound(h) /\ DOMAIN h.mem = DOMAIN g.mem \ S /\ \A n \in DOMAIN h.mem : h.mem[n] = g.mem[n]
<1> DEFINE E == DOMAIN g.mem \ S
<1>1. /\ g \in [epoch : Nat, assigned : Nat, stale : BOOLEAN, mem : [DOMAIN g.mem -> MemberRow]]
      /\ g.mem \in [DOMAIN g.mem -> MemberRow] /\ IsFiniteSet(DOMAIN g.mem) /\ DOMAIN g.mem \subseteq Members
  BY DEF Sound, MemberRows
<1>2. IsFiniteSet(E)
  <2>1. E \in SUBSET DOMAIN g.mem
    OBVIOUS
  <2>2. QED
    BY <1>1, <2>1, FS_Subset
<1>3. h.mem = [n \in E |-> g.mem[n]]
  BY <1>1 DEF Without, Restrict
<1>4. [n \in E |-> g.mem[n]] \in [E -> MemberRow]
  BY <1>1
<1>5. h \in [epoch : Nat, assigned : Nat, stale : BOOLEAN, mem : [E -> MemberRow]]
  BY <1>1, <1>4 DEF Without, Restrict
<1>6. DOMAIN h.mem = E /\ \A n \in E : h.mem[n] = g.mem[n]
  BY <1>3
<1>7. MemberRows(h)
  BY <1>1, <1>2, <1>5, <1>6 DEF MemberRows
<1>8. TargetsApart(h) /\ GrantedApart(h)
  BY <1>6 DEF TargetsApart, GrantedApart, Sound
<1>9. QED
  BY <1>6, <1>7, <1>8 DEF Sound

\* A row may be written whose target and grants no other row has.
LEMMA WithSound ==
  ASSUME NEW g, Sound(g), NEW m \in Members, NEW row \in MemberRow,
         \A n \in DOMAIN g.mem \ {m} : row.target \cap g.mem[n].target = {} /\ row.granted \cap g.mem[n].granted = {},
         NEW h, h = With(g, m, row)
  PROVE  /\ Sound(h) /\ DOMAIN h.mem = DOMAIN g.mem \cup {m} /\ h.mem[m] = row
         /\ \A n \in DOMAIN g.mem \ {m} : h.mem[n] = g.mem[n]
<1> DEFINE E == DOMAIN g.mem \cup {m}
           f == [n \in E |-> IF n = m THEN row ELSE g.mem[n]]
<1>1. /\ g \in [epoch : Nat, assigned : Nat, stale : BOOLEAN, mem : [DOMAIN g.mem -> MemberRow]]
      /\ g.mem \in [DOMAIN g.mem -> MemberRow] /\ IsFiniteSet(DOMAIN g.mem) /\ DOMAIN g.mem \subseteq Members
  BY DEF Sound, MemberRows
<1>2. IsFiniteSet(E)
  BY <1>1, FS_AddElement
<1>4. f \in [E -> MemberRow]
  BY <1>1
<1>5. h = [g EXCEPT !.mem = f]
  BY <1>1 DEF With
<1>6. DOMAIN f = E /\ f[m] = row /\ \A n \in DOMAIN g.mem \ {m} : f[n] = g.mem[n]
  OBVIOUS
<1> HIDE DEF f
<1>7. h.mem = f /\ h \in [epoch : Nat, assigned : Nat, stale : BOOLEAN, mem : [E -> MemberRow]]
  BY <1>1, <1>4, <1>5
<1>8. MemberRows(h)
  BY <1>1, <1>2, <1>6, <1>7 DEF MemberRows
<1>9. TargetsApart(h)
  BY <1>6, <1>7 DEF TargetsApart, Sound
<1>10. GrantedApart(h)
  BY <1>6, <1>7 DEF GrantedApart, Sound
<1>11. QED
  BY <1>6, <1>7, <1>8, <1>9, <1>10 DEF Sound

\* What a member says of itself is written to its row, and to no other.
LEMMA UpsertedSound ==
  ASSUME NEW g, Sound(g), NEW m \in Members, NEW c \in Client, NEW full \in BOOLEAN,
         NEW u, u = Upserted(g, m, c, full)
  PROVE  /\ Sound(u) /\ DOMAIN u.mem = DOMAIN g.mem \cup {m}
         /\ \A n \in DOMAIN g.mem \ {m} : u.mem[n] = g.mem[n]
         /\ u.mem[m].granted = (IF m \in DOMAIN g.mem THEN g.mem[m].granted ELSE {})
         /\ ~u.mem[m].departed /\ ~u.mem[m].lapsed
<1> DEFINE row == IF m \in DOMAIN g.mem THEN g.mem[m] ELSE NewRow
           new == upsert_member(row, c, full)
           h == With(g, m, new)
<1>1. row \in MemberRow
  BY DEF Sound, MemberRows, NewRow, MemberRow
<1>2. \A n \in DOMAIN g.mem \ {m} : row.target \cap g.mem[n].target = {} /\ row.granted \cap g.mem[n].granted = {}
  BY DEF Sound, TargetsApart, GrantedApart, NewRow
<1>3. row.granted = (IF m \in DOMAIN g.mem THEN g.mem[m].granted ELSE {})
  BY DEF NewRow
<1>4. u = bump_epoch(h) \/ u = h
  BY DEF Upserted
<1> HIDE DEF row
<1>5. new \in MemberRow /\ new.target = row.target /\ new.granted = row.granted /\ ~new.departed /\ ~new.lapsed
  <2>1. c.own \in SUBSET Nat /\ c.wants \in BOOLEAN
    BY DEF Client
  <2>2. (IF full THEN c.own ELSE row.owned) \in SUBSET Nat
    BY <1>1, <2>1 DEF MemberRow
  <2>3. new = [row EXCEPT !.subscribed = c.wants, !.owned = IF full THEN c.own ELSE row.owned,
                          !.departed = FALSE, !.lapsed = FALSE]
    BY <1>1 DEF upsert_member, MemberRow
  <2> HIDE DEF new
  <2>4. new \in MemberRow
    BY ZenonT(40), <1>1, <2>1, <2>2, <2>3 DEF MemberRow
  <2>5. new.target = row.target /\ new.granted = row.granted
    BY <1>1, <2>3 DEF MemberRow
  <2>6. new.departed = FALSE /\ new.lapsed = FALSE
    BY <1>1, <2>3 DEF MemberRow
  <2>7. QED
    BY <2>4, <2>5, <2>6
<1> HIDE DEF new
<1>6. /\ Sound(h) /\ DOMAIN h.mem = DOMAIN g.mem \cup {m} /\ h.mem[m] = new
      /\ \A n \in DOMAIN g.mem \ {m} : h.mem[n] = g.mem[n]
  <2>1. \A n \in DOMAIN g.mem \ {m} : new.target \cap g.mem[n].target = {} /\ new.granted \cap g.mem[n].granted = {}
    BY <1>2, <1>5
  <2>2. QED
    BY <1>5, <2>1, WithSound
<1> HIDE DEF h
<1>7. Sound(u) /\ u.mem = h.mem
  BY <1>4, <1>6, BumpSound
<1>8. QED
  BY <1>3, <1>5, <1>6, <1>7

\* A row that is adopted has the grants it had.
LEMMA AdoptedSound ==
  ASSUME NEW g, Sound(g), NEW m \in Members, NEW held \in DOMAIN g.mem, m \notin DOMAIN g.mem,
         NEW a, a = Adopted(g, m, held)
  PROVE  /\ Sound(a) /\ DOMAIN a.mem = (DOMAIN g.mem \ {held}) \cup {m}
         /\ \A n \in DOMAIN g.mem \ {held} : a.mem[n] = g.mem[n]
         /\ a.mem[m].granted = g.mem[held].granted /\ ~a.mem[m].departed
<1> DEFINE row == [g.mem[held] EXCEPT !.departed = FALSE, !.lapsed = FALSE, !.revoking = "no"]
           h == Without(g, {held})
<1>1. /\ g \in [epoch : Nat, assigned : Nat, stale : BOOLEAN, mem : [DOMAIN g.mem -> MemberRow]]
      /\ g.mem[held] \in MemberRow
  BY DEF Sound, MemberRows
<1>2. /\ row \in MemberRow /\ row.target = g.mem[held].target /\ row.granted = g.mem[held].granted
      /\ ~row.departed
  <2>1. row \in MemberRow
    BY ZenonT(40), <1>1 DEF MemberRow
  <2>2. row.target = g.mem[held].target /\ row.granted = g.mem[held].granted
    BY <1>1 DEF MemberRow
  <2>3. row.departed = FALSE
    BY <1>1 DEF MemberRow
  <2>4. QED
    BY <2>1, <2>2, <2>3
<1>3. Sound(h) /\ DOMAIN h.mem = DOMAIN g.mem \ {held} /\ \A n \in DOMAIN h.mem : h.mem[n] = g.mem[n]
  BY WithoutSound
<1>4. a = With(h, m, row)
  BY DEF Adopted
<1>5. \A n \in DOMAIN h.mem \ {m} : row.target \cap h.mem[n].target = {} /\ row.granted \cap h.mem[n].granted = {}
  BY ZenonT(40), <1>2, <1>3 DEF Sound, TargetsApart, GrantedApart
<1> HIDE DEF row, h
<1>6. /\ Sound(a) /\ DOMAIN a.mem = DOMAIN h.mem \cup {m} /\ a.mem[m] = row
      /\ \A n \in DOMAIN h.mem \ {m} : a.mem[n] = h.mem[n]
  BY <1>2, <1>3, <1>4, <1>5, WithSound
<1>7. QED
  BY <1>2, <1>3, <1>6

-----------------------------------------------------------------------------

\* The rows of the others tell the same.
OthersAlike(m, g, h) ==
    \A n \in Members \ {m} : /\ n \in DOMAIN h.mem <=> n \in DOMAIN g.mem
                             /\ n \in DOMAIN g.mem => Alike(h.mem[n], g.mem[n])

\* A client that heartbeats holds what the broker granted it, and is not taken for gone.
Backed(c, m, g) ==
    /\ c.at # "in" => c.epoch = 0 /\ c.own = {} /\ c.told = {}
    /\ c.at = "in" => m \in DOMAIN g.mem
    /\ m \in DOMAIN g.mem => /\ c.own \cup c.told \subseteq g.mem[m].granted
                             /\ ~g.mem[m].departed
                             /\ c.at = "in" => ~g.mem[m].lapsed

\* A client that is fenced is out, and holds nothing.
LEMMA FencedFacts ==
  ASSUME NEW c \in Client
  PROVE  /\ Fenced(c) \in Client /\ [Fenced(c) EXCEPT !.at = "gone"] \in Client
         /\ Fenced(c).at = "out" /\ Fenced(c).epoch = 0 /\ Fenced(c).own = {} /\ Fenced(c).told = {}
         /\ [Fenced(c) EXCEPT !.at = "gone"].at = "gone" /\ [Fenced(c) EXCEPT !.at = "gone"].epoch = 0
         /\ [Fenced(c) EXCEPT !.at = "gone"].own = {} /\ [Fenced(c) EXCEPT !.at = "gone"].told = {}
<1>1. c.wants \in BOOLEAN
  BY DEF Client
<1>2. QED
  BY ZenonT(40), <1>1 DEF Fenced, NewConsumer, Client

\* An answer is taken in.
LEMMA ToldFacts ==
  ASSUME NEW c \in Client, NEW r, r.epoch \in Nat, r.assignment \in SUBSET Nat
  PROVE  /\ Told(c, r) \in Client /\ Told(c, r).at = "in" /\ Told(c, r).own = c.own
         /\ Told(c, r).told = r.assignment
<1> DEFINE said == r.assignment = c.told /\ (c.said \/ c.own = c.told)
           t == [c EXCEPT !.at = "in", !.epoch = r.epoch, !.told = r.assignment, !.said = said, !.resend = FALSE]
<1>1. t = Told(c, r)
  BY DEF Told, Client
<1>2. said \in BOOLEAN
  BY DEF Client
<1> HIDE DEF said
<1>3. t \in Client
  BY ZenonT(40), <1>2 DEF Client
<1>4. t.at = "in" /\ t.own = c.own /\ t.told = r.assignment
  BY DEF Client
<1>5. QED
  BY ZenonT(40), <1>1, <1>3, <1>4

\* A heartbeat keeps the rows in order, and changes what those of the others tell in nothing.
LEMMA HeardSound ==
  ASSUME NEW g, Sound(g), parts \in SUBSET Nat, NEW m \in Members, NEW c \in Client, NEW d, d = Heard(g, m, c)
  PROVE  /\ Sound(d.k) /\ d.c \in Client /\ OthersAlike(m, g, d.k)
         /\ Backed(c, m, g) /\ c.at \in {"in", "out"} => ClientOK(d.c, m, d.k, Left("joins")')
<1> DEFINE known == m \in DOMAIN g.mem
           stale == (~known /\ c.epoch # 0) \/ (known /\ Stale(g.mem[m], c.epoch))
           past == known /\ g.mem[m].revoking = "past"
           full == c.at = "out" \/ c.resend \/ (~c.said /\ c.own = c.told)
           u == Upserted(g, m, c, full)
           report == IF full THEN {c.own} ELSE {}
           r == reconcile(u, m, report)
<1>1. CASE stale
  <2>1. d = [k |-> g, c |-> Fenced(c)]
    BY <1>1 DEF Heard
  <2>2. d.k = g /\ d.c = Fenced(c)
    BY <2>1
  <2>3. OthersAlike(m, g, g)
    BY DEF OthersAlike, Alike
  <2>4. ASSUME Backed(c, m, g), c.at \in {"in", "out"} PROVE ClientOK(Fenced(c), m, g, Left("joins")')
    <3>1. c.at = "in"
      BY <1>1, <2>4 DEF Backed, Stale
    <3>2. known /\ ~g.mem[m].departed /\ ~g.mem[m].lapsed
      BY <2>4, <3>1 DEF Backed
    <3>3. QED
      BY ZenonT(40), <3>2, FencedFacts DEF ClientOK, RowOf
  <2>5. QED
    BY ZenonT(40), <2>2, <2>3, <2>4, FencedFacts
<1>2. CASE ~stale /\ past
  <2>1. d = [k |-> Removed(g, m), c |-> Fenced(c)]
    BY <1>2 DEF Heard
  <2>2. d.k = bump_epoch(Without(g, {m})) /\ d.c = Fenced(c)
    BY <2>1 DEF Removed
  <2>3. /\ Sound(Without(g, {m})) /\ DOMAIN Without(g, {m}).mem = DOMAIN g.mem \ {m}
        /\ \A n \in DOMAIN Without(g, {m}).mem : Without(g, {m}).mem[n] = g.mem[n]
    BY WithoutSound
  <2>4. Sound(d.k) /\ d.k.mem = Without(g, {m}).mem
    BY <2>2, <2>3, BumpSound
  <2>5. OthersAlike(m, g, d.k)
    BY <2>3, <2>4 DEF OthersAlike, Alike
  <2>6. ClientOK(d.c, m, d.k, Left("joins")')
    BY ZenonT(40), <2>2, <2>3, <2>4, FencedFacts DEF ClientOK
  <2>7. QED
    BY ZenonT(40), <2>2, <2>4, <2>5, <2>6, FencedFacts
<1>3. CASE ~stale /\ ~past
  <2>1. d = [k |-> r.g, c |-> Told(c, r)]
    <3> DEFINE a == [k |-> r.g, c |-> Told(c, r)]
    <3>1. d = Only({a})
      BY ZenonT(40), <1>3 DEF Heard
    <3> HIDE DEF a
    <3>2. d = a
      BY ZenonT(40), <3>1, OnlyOne
    <3>3. QED
      BY <3>2 DEF a
  <2>2. d.k = r.g /\ d.c = Told(c, r)
    BY <2>1
  <2>3. full \in BOOLEAN /\ report \in SUBSET SUBSET Nat /\ (report = {} \/ report = {c.own})
    BY DEF Client
  <2> HIDE DEF full
  <2>4. /\ Sound(u) /\ DOMAIN u.mem = DOMAIN g.mem \cup {m}
        /\ \A n \in DOMAIN g.mem \ {m} : u.mem[n] = g.mem[n]
        /\ u.mem[m].granted = (IF known THEN g.mem[m].granted ELSE {})
        /\ ~u.mem[m].departed /\ ~u.mem[m].lapsed
    BY <2>3, UpsertedSound
  <2> HIDE DEF u, report
  <2>5. /\ Sound(r.g) /\ DOMAIN r.g.mem = DOMAIN u.mem
        /\ \A n \in DOMAIN u.mem \ {m} : Alike(r.g.mem[n], u.mem[n])
        /\ r.epoch \in Nat /\ r.assignment \in SUBSET Nat
        /\ r.g.mem[m].granted = Kept(u.mem[m], report) \cup r.assignment
        /\ r.g.mem[m].departed = u.mem[m].departed /\ ~r.g.mem[m].lapsed
    BY <2>3, <2>4, ReconcileSound
  <2> HIDE DEF r
  <2>6. /\ Told(c, r) \in Client /\ Told(c, r).at = "in" /\ Told(c, r).own = c.own
        /\ Told(c, r).told = r.assignment
    BY <2>5, ToldFacts
  <2>7. OthersAlike(m, g, r.g)
    BY <2>4, <2>5 DEF OthersAlike
  <2>8. ASSUME Backed(c, m, g), c.at \in {"in", "out"} PROVE ClientOK(Told(c, r), m, r.g, Left("joins")')
    <3>1. c.own \subseteq u.mem[m].granted
      BY <2>4, <2>8 DEF Backed
    <3>2. c.own \subseteq Kept(u.mem[m], report)
      BY <2>3, <3>1 DEF Kept
    <3>3. Told(c, r).own \cup Told(c, r).told \subseteq r.g.mem[m].granted
      BY <2>5, <2>6, <3>2
    <3>4. ~r.g.mem[m].departed /\ ~r.g.mem[m].lapsed /\ m \in DOMAIN r.g.mem
      BY <2>4, <2>5
    <3>5. QED
      BY <2>6, <3>3, <3>4 DEF ClientOK, RowOf
  <2>9. QED
    BY <2>2, <2>5, <2>6, <2>7, <2>8
<1>4. QED
  BY <1>1, <1>2, <1>3

-----------------------------------------------------------------------------

\* The counts only grow, so a client that was not punctual never is again, and joins run out once.
LEMMA SpentGrows ==
  ASSUME scenario \in Scenarios, spent \in [Counts -> Nat], scenario' = scenario, spent' = spent \/ \E w \in Counts : Spend(w)
  PROVE  /\ spent' \in [Counts -> Nat]
         /\ Punctual' => Punctual
         /\ Left("joins")' => Left("joins")
<1>1. scenario.joins \in Nat
  BY ScenarioAssumption DEF ScenarioType
<1>2. ASSUME spent' = spent
      PROVE  /\ spent' \in [Counts -> Nat] /\ \A x \in Counts : spent[x] <= spent'[x]
  BY <1>2
<1>3. ASSUME NEW w \in Counts, Spend(w)
      PROVE  /\ spent' \in [Counts -> Nat] /\ \A x \in Counts : spent[x] <= spent'[x]
  BY <1>3 DEF Spend
<1>4. {"hangups", "late", "joins"} \subseteq Counts
  BY DEF Counts
<1>5. spent' \in [Counts -> Nat] /\ \A x \in Counts : spent[x] <= spent'[x]
  BY <1>2, <1>3
<1>6. Punctual' => Punctual
  BY <1>4, <1>5 DEF Punctual
<1>7. Left("joins")' => Left("joins")
  BY <1>1, <1>4, <1>5 DEF Left
<1>8. QED
  BY <1>5, <1>6, <1>7

\* A lost answer, or a live member that is late, is not forgotten.
LEMMA LateSpent ==
  ASSUME spent \in [Counts -> Nat], Spend("hangups") \/ Spend("late")
  PROVE  ~Punctual'
<1>1. {"hangups", "late"} \subseteq Counts
  BY DEF Counts
<1>2. QED
  BY <1>1 DEF Spend, Punctual

\* What ClientOK says of a client is as true of rows that tell the same of it.
LEMMA ClientKept ==
  ASSUME NEW c, NEW n, NEW g, NEW h, ClientOK(c, n, g, Left("joins")), Left("joins")' => Left("joins"),
         n \in DOMAIN h.mem => n \in DOMAIN g.mem /\ Alike(h.mem[n], g.mem[n]),
         n \in DOMAIN g.mem /\ n \notin DOMAIN h.mem => c.at # "in"
  PROVE  ClientOK(c, n, h, Left("joins")')
BY DEF ClientOK, RowOf, Alike

\* The invariant of a step that changes one client's row and that client.
LEMMA Concluded ==
  ASSUME ConsumerInv, scenario' = scenario, spent' = spent \/ \E w \in Counts : Spend(w),
         Sound(k'), parts' \in SUBSET Nat, consumer' \in [Members -> Client],
         Punctual' => \A n \in Members : ClientOK(consumer'[n], n, k', Left("joins")')
  PROVE  ConsumerInv'
<1>1. spent' \in [Counts -> Nat] /\ scenario' \in Scenarios
  BY SpentGrows DEF ConsumerInv, ConsumerTypeOK
<1>2. MemberRows(k)' /\ TargetsApart(k)' /\ GrantedApart(k)'
  BY DEF Sound, MemberRows, TargetsApart, GrantedApart
<1>3. QED
  BY <1>1, <1>2 DEF ConsumerInv, ConsumerTypeOK

LEMMA ConsumerFacts ==
  ASSUME ConsumerInv
  PROVE  /\ Sound(k) /\ parts \in SUBSET Nat /\ consumer \in [Members -> Client]
         /\ scenario \in Scenarios /\ spent \in [Counts -> Nat] /\ k.mem \in [DOMAIN k.mem -> MemberRow] /\ DOMAIN k.mem \subseteq Members
         /\ k \in [epoch : Nat, assigned : Nat, stale : BOOLEAN, mem : [DOMAIN k.mem -> MemberRow]]
         /\ Punctual => \A n \in Members : ClientOK(consumer[n], n, k, Left("joins"))
BY DEF ConsumerInv, ConsumerTypeOK, Sound, MemberRows

\* The steps of the other protocols.
LEMMA AsideKept ==
  ASSUME ConsumerInv, scenario' = scenario, UNCHANGED consumerVars,
         spent' = spent \/ \E w \in Counts : Spend(w)
  PROVE  ConsumerInv'
<1>1. Sound(k') /\ parts' \in SUBSET Nat /\ consumer' \in [Members -> Client]
  BY ConsumerFacts DEF consumerVars
<1>2. ASSUME Punctual', NEW n \in Members PROVE ClientOK(consumer'[n], n, k', Left("joins")')
  <2>1. ClientOK(consumer[n], n, k, Left("joins"))
    BY <1>2, ConsumerFacts, SpentGrows
  <2>2. Left("joins")' => Left("joins")
    BY ConsumerFacts, SpentGrows
  <2>3. QED
    BY <2>1, <2>2, ClientKept DEF consumerVars, Alike
<1>3. QED
  BY <1>1, <1>2, Concluded

\* The invariant of a step of client m: what the rows of the others tell is as it was, but that of
\* a client that is not in may go.
LEMMA OneClient ==
  ASSUME ConsumerInv, scenario' = scenario, spent' = spent \/ \E w \in Counts : Spend(w),
         Sound(k'), parts' = parts, NEW m \in Members,
         consumer' \in [Members -> Client], \A n \in Members \ {m} : consumer'[n] = consumer[n],
         Punctual => \A n \in Members \ {m} :
           /\ n \in DOMAIN k'.mem => n \in DOMAIN k.mem /\ Alike(k'.mem[n], k.mem[n])
           /\ n \in DOMAIN k.mem /\ n \notin DOMAIN k'.mem => consumer[n].at # "in",
         Punctual' => ClientOK(consumer'[m], m, k', Left("joins")')
  PROVE  ConsumerInv'
<1>1. parts' \in SUBSET Nat
  BY ConsumerFacts
<1>2. (Punctual' => Punctual) /\ (Left("joins")' => Left("joins"))
  BY ConsumerFacts, SpentGrows
<1>3. ASSUME Punctual', NEW n \in Members PROVE ClientOK(consumer'[n], n, k', Left("joins")')
  <2>1. CASE n = m
    BY <1>3, <2>1
  <2>2. CASE n # m
    <3>1. consumer'[n] = consumer[n]
      BY <2>2
    <3>2. ClientOK(consumer[n], n, k, Left("joins"))
      BY <1>2, <1>3, ConsumerFacts
    <3>3. /\ n \in DOMAIN k'.mem => n \in DOMAIN k.mem /\ Alike(k'.mem[n], k.mem[n])
          /\ n \in DOMAIN k.mem /\ n \notin DOMAIN k'.mem => consumer[n].at # "in"
      BY <1>2, <1>3, <2>2
    <3>4. ClientOK(consumer[n], n, k', Left("joins")')
      BY <1>2, <3>2, <3>3, ClientKept
    <3>5. QED
      BY <3>1, <3>4
  <2>3. QED
    BY <2>1, <2>2
<1>4. QED
  BY <1>1, <1>3, Concluded

\* The client itself, between two heartbeats: it holds no more than it held or was told to hold.
LEMMA ClientStep ==
  ASSUME ConsumerInv, NEW m \in Members, Revoke(m) \/ TakeOn(m) \/ ConsumerCrash(m) \/ Resubscribe(m)
  PROVE  ConsumerInv'
<1>1. /\ consumer[m] \in Client /\ Sound(k) /\ consumer \in [Members -> Client]
      /\ Punctual => ClientOK(consumer[m], m, k, Left("joins"))
  BY ConsumerFacts
<1>2. {"faults", "admin"} \subseteq Counts
  BY DEF Counts
<1>3. /\ scenario' = scenario /\ parts' = parts /\ k' = k
      /\ spent' = spent \/ \E w \in Counts : Spend(w)
  BY <1>2 DEF Revoke, TakeOn, ConsumerCrash, Resubscribe
<1>4. (Punctual' => Punctual) /\ (Left("joins")' => Left("joins"))
  BY <1>3, ConsumerFacts, SpentGrows
<1>5. \E c \in Client : /\ consumer' = [consumer EXCEPT ![m] = c]
                        /\ Punctual => ClientOK(c, m, k, Left("joins"))
  <2>1. CASE Revoke(m)
    <3> DEFINE c == [consumer[m] EXCEPT !.own = @ \cap consumer[m].told]
    <3>1. /\ c \in Client /\ c.own \cup c.told \subseteq consumer[m].own \cup consumer[m].told
          /\ c.at = consumer[m].at /\ c.epoch = consumer[m].epoch
      BY <1>1 DEF Client
    <3>2. consumer[m].at = "in" /\ consumer' = [consumer EXCEPT ![m] = c]
      BY <1>1, <2>1 DEF Revoke
    <3> HIDE DEF c
    <3>3. Punctual => ClientOK(c, m, k, Left("joins"))
      BY <1>1, <3>1, <3>2 DEF ClientOK, RowOf
    <3>4. QED
      BY ZenonT(40), <3>1, <3>2, <3>3
  <2>2. CASE TakeOn(m)
    <3> DEFINE c == [consumer[m] EXCEPT !.own = consumer[m].told]
    <3>1. /\ c \in Client /\ c.own \cup c.told \subseteq consumer[m].own \cup consumer[m].told
          /\ c.at = consumer[m].at /\ c.epoch = consumer[m].epoch
      BY <1>1 DEF Client
    <3>2. consumer[m].at = "in" /\ consumer' = [consumer EXCEPT ![m] = c]
      BY <1>1, <2>2 DEF TakeOn
    <3> HIDE DEF c
    <3>3. Punctual => ClientOK(c, m, k, Left("joins"))
      BY <1>1, <3>1, <3>2 DEF ClientOK, RowOf
    <3>4. QED
      BY ZenonT(40), <3>1, <3>2, <3>3
  <2>3. CASE ConsumerCrash(m)
    <3> DEFINE c == [Fenced(consumer[m]) EXCEPT !.at = "gone"]
    <3>1. c \in Client /\ c.at = "gone" /\ c.epoch = 0 /\ c.own = {} /\ c.told = {}
      BY <1>1, FencedFacts
    <3>2. consumer' = [consumer EXCEPT ![m] = c]
      BY <1>1, <2>3 DEF ConsumerCrash
    <3> HIDE DEF c
    <3>3. Punctual => ClientOK(c, m, k, Left("joins"))
      BY <1>1, <3>1 DEF ClientOK, RowOf
    <3>4. QED
      BY ZenonT(40), <3>1, <3>2, <3>3
  <2>4. CASE Resubscribe(m)
    <3> DEFINE c == [consumer[m] EXCEPT !.wants = ~consumer[m].wants]
    <3>1. /\ c \in Client /\ c.own = consumer[m].own /\ c.told = consumer[m].told
          /\ c.at = consumer[m].at /\ c.epoch = consumer[m].epoch
      BY ZenonT(40), <1>1 DEF Client
    <3>2. consumer' = [consumer EXCEPT ![m] = c]
      BY <1>1, <2>4 DEF Resubscribe, Client
    <3> HIDE DEF c
    <3>3. Punctual => ClientOK(c, m, k, Left("joins"))
      BY <1>1, <3>1 DEF ClientOK, RowOf
    <3>4. QED
      BY ZenonT(40), <3>1, <3>2, <3>3
  <2>5. QED
    BY <2>1, <2>2, <2>3, <2>4
<1>6. PICK c \in Client : /\ consumer' = [consumer EXCEPT ![m] = c]
                          /\ Punctual => ClientOK(c, m, k, Left("joins"))
  BY ZenonT(40), <1>5
<1>7. ASSUME Punctual' PROVE ClientOK(consumer'[m], m, k', Left("joins")')
  <2>1. ClientOK(c, m, k, Left("joins"))
    BY <1>4, <1>6, <1>7
  <2>2. m \in DOMAIN k'.mem => m \in DOMAIN k.mem /\ Alike(k'.mem[m], k.mem[m])
    BY <1>3 DEF Alike
  <2>3. m \in DOMAIN k.mem /\ m \notin DOMAIN k'.mem => c.at # "in"
    BY <1>3
  <2>4. ClientOK(c, m, k', Left("joins")')
    BY <1>4, <2>1, <2>2, <2>3, ClientKept
  <2>5. consumer'[m] = c
    BY <1>1, <1>6
  <2>6. QED
    BY <2>4, <2>5
<1>8. \A n \in Members \ {m} :
        /\ n \in DOMAIN k'.mem => n \in DOMAIN k.mem /\ Alike(k'.mem[n], k.mem[n])
        /\ n \in DOMAIN k.mem /\ n \notin DOMAIN k'.mem => consumer[n].at # "in"
  BY <1>3 DEF Alike
<1>9. Sound(k') /\ consumer' \in [Members -> Client] /\ \A n \in Members \ {m} : consumer'[n] = consumer[n]
  BY <1>1, <1>3, <1>6
<1>10. QED
  BY <1>3, <1>7, <1>8, <1>9, OneClient

\* One row may be marked.
LEMMA MarkSound ==
  ASSUME NEW g, Sound(g), NEW m \in DOMAIN g.mem, NEW row \in MemberRow,
         row.target = g.mem[m].target, row.granted = g.mem[m].granted, NEW h, h = [g EXCEPT !.mem[m] = row]
  PROVE  /\ Sound(h) /\ DOMAIN h.mem = DOMAIN g.mem /\ h.mem[m] = row
         /\ \A n \in DOMAIN g.mem \ {m} : h.mem[n] = g.mem[n]
<1> DEFINE M == [DOMAIN g.mem -> MemberRow]
<1>1. /\ g \in [epoch : Nat, assigned : Nat, stale : BOOLEAN, mem : M]
      /\ g.mem \in [DOMAIN g.mem -> MemberRow] /\ IsFiniteSet(DOMAIN g.mem) /\ DOMAIN g.mem \subseteq Members
  BY DEF Sound, MemberRows
<1>2. [g.mem EXCEPT ![m] = row] \in M
  BY <1>1
<1>3. h = [g EXCEPT !.mem = [g.mem EXCEPT ![m] = row]]
  BY <1>1
<1>4. h.mem = [g.mem EXCEPT ![m] = row]
  BY <1>1, <1>3
<1> HIDE DEF M
<1>5. h \in [epoch : Nat, assigned : Nat, stale : BOOLEAN, mem : M]
  BY <1>1, <1>2, <1>3
<1>6. DOMAIN h.mem = DOMAIN g.mem /\ h.mem[m] = row /\ \A n \in DOMAIN g.mem \ {m} : h.mem[n] = g.mem[n]
  BY <1>1, <1>4
<1>7. MemberRows(h)
  BY <1>1, <1>5, <1>6 DEF MemberRows, M
<1>8. TargetsApart(h) /\ GrantedApart(h)
  BY <1>6 DEF TargetsApart, GrantedApart, Sound
<1>9. QED
  BY <1>6, <1>7, <1>8 DEF Sound

\* Time, and the topic: only a live member that is late is taken for gone.
LEMMA ConsumerTimeStep ==
  ASSUME ConsumerInv, NEW m, Grow \/ Reassign \/ RevokePast(m) \/ ConsumerLapse(m)
  PROVE  ConsumerInv'
<1>1. /\ Sound(k) /\ consumer \in [Members -> Client] /\ parts \in SUBSET Nat /\ spent \in [Counts -> Nat]
      /\ scenario \in Scenarios
      /\ k \in [epoch : Nat, assigned : Nat, stale : BOOLEAN, mem : [DOMAIN k.mem -> MemberRow]]
      /\ k.mem \in [DOMAIN k.mem -> MemberRow]
  BY ConsumerFacts
<1>2. "late" \in Counts
  BY DEF Counts
<1>3. /\ scenario' = scenario /\ consumer' = consumer
      /\ spent' = spent \/ \E w \in Counts : Spend(w)
  BY <1>2 DEF Grow, Reassign, RevokePast, ConsumerLapse, ConsumerTime
<1>4. (Punctual' => Punctual) /\ (Left("joins")' => Left("joins"))
  BY <1>1, <1>3, SpentGrows
<1>5. CASE Grow \/ Reassign
  <2>1. parts' \in SUBSET Nat
    <3>1. CASE Reassign
      BY <1>1, <3>1 DEF Reassign, ConsumerTime
    <3>2. CASE Grow
      BY <3>2 DEF Grow
    <3>3. QED
      BY <1>5, <3>1, <3>2
  <2>2. Sound(k') /\ k'.mem = k.mem
    <3>1. CASE Grow
      BY <1>1, <3>1 DEF Grow
    <3>2. CASE Reassign
      <4> DEFINE M == [DOMAIN k.mem -> MemberRow]
      <4>1. k \in [epoch : Nat, assigned : Nat, stale : BOOLEAN, mem : M] /\ k' = [k EXCEPT !.stale = TRUE]
        BY <1>1, <3>2 DEF Reassign
      <4>2. k'.mem = k.mem
        BY <4>1
      <4> HIDE DEF M
      <4>3. k' \in [epoch : Nat, assigned : Nat, stale : BOOLEAN, mem : M]
        BY ZenonT(40), <4>1
      <4>4. MemberRows(k') /\ TargetsApart(k') /\ GrantedApart(k')
        BY <1>1, <4>2, <4>3 DEF Sound, MemberRows, TargetsApart, GrantedApart, M
      <4>5. QED
        BY <4>2, <4>4 DEF Sound
    <3>3. QED
      BY <1>5, <3>1, <3>2
  <2>3. ASSUME Punctual', NEW n \in Members PROVE ClientOK(consumer'[n], n, k', Left("joins")')
    <3>1. ClientOK(consumer[n], n, k, Left("joins"))
      BY <1>4, <2>3, ConsumerFacts
    <3>2. ClientOK(consumer[n], n, k', Left("joins")')
      BY <1>4, <2>2, <3>1, ClientKept DEF Alike
    <3>3. QED
      BY <1>3, <3>2
  <2>4. QED
    BY <1>1, <1>3, <2>1, <2>2, <2>3, Concluded
<1>6. CASE RevokePast(m)
  <2> DEFINE row == [k.mem[m] EXCEPT !.revoking = "past"]
  <2>1. m \in DOMAIN k.mem /\ k' = [k EXCEPT !.mem[m] = row] /\ Spend("late") /\ parts' = parts
    BY <1>1, <1>6 DEF RevokePast, ConsumerTime
  <2>2. k.mem[m] \in MemberRow
    BY <1>1, <2>1
  <2>3. row \in MemberRow /\ row.target = k.mem[m].target /\ row.granted = k.mem[m].granted
    BY <2>2 DEF MemberRow
  <2> HIDE DEF row
  <2>4. Sound(k')
    BY <1>1, <2>1, <2>3, MarkSound
  <2>5. ~Punctual'
    BY <1>1, <2>1, LateSpent
  <2>6. QED
    BY <1>1, <1>3, <2>1, <2>4, <2>5, Concluded
<1>7. CASE ConsumerLapse(m)
  <2> DEFINE row == [k.mem[m] EXCEPT !.lapsed = TRUE]
  <2>1. m \in DOMAIN k.mem /\ m \in Members /\ k' = [k EXCEPT !.mem[m] = row] /\ parts' = parts
    BY <1>1, <1>7, ConsumerFacts DEF ConsumerLapse, ConsumerTime
  <2>2. k.mem[m] \in MemberRow
    BY <1>1, <2>1
  <2>3. /\ row \in MemberRow /\ row.target = k.mem[m].target /\ row.granted = k.mem[m].granted
        /\ row.departed = k.mem[m].departed
    BY ZenonT(40), <2>2 DEF MemberRow
  <2> HIDE DEF row
  <2>4. /\ Sound(k') /\ DOMAIN k'.mem = DOMAIN k.mem /\ k'.mem[m] = row
        /\ \A n \in DOMAIN k.mem \ {m} : k'.mem[n] = k.mem[n]
    BY <1>1, <2>1, <2>3, MarkSound
  <2>5. ASSUME Punctual' PROVE ClientOK(consumer'[m], m, k', Left("joins")')
    <3>1. ClientOK(consumer[m], m, k, Left("joins"))
      BY <1>4, <2>1, <2>5, ConsumerFacts
    <3>2. Absent(m)
      BY <1>1, <1>7, <2>5, LateSpent DEF ConsumerLapse
    <3>3. consumer[m].at # "in" /\ (consumer[m].at = "out" => ~Left("joins")')
      BY <1>4, <3>2 DEF Absent
    <3>4. QED
      BY <1>3, <2>3, <2>4, <3>1, <3>3 DEF ClientOK, RowOf
  <2>6. \A n \in Members \ {m} :
          /\ n \in DOMAIN k'.mem => n \in DOMAIN k.mem /\ Alike(k'.mem[n], k.mem[n])
          /\ n \in DOMAIN k.mem /\ n \notin DOMAIN k'.mem => consumer[n].at # "in"
    BY <2>4 DEF Alike
  <2>7. QED
    BY <1>1, <1>3, <2>1, <2>4, <2>5, <2>6, OneClient
<1>8. QED
  BY <1>5, <1>6, <1>7

\* expire_members removes rows of clients that are not in.
LEMMA ExpireStep ==
  ASSUME ConsumerInv, ExpireConsumers
  PROVE  ConsumerInv'
<1> DEFINE gone == {m \in DOMAIN k.mem : k.mem[m].lapsed}
           h == Without(k, gone)
<1>1. /\ Sound(k) /\ consumer \in [Members -> Client] /\ parts \in SUBSET Nat
  BY ConsumerFacts
<1>2. /\ scenario' = scenario /\ consumer' = consumer /\ parts' = parts /\ spent' = spent
      /\ k' = bump_epoch(h)
  BY DEF ExpireConsumers
<1>3. Sound(h) /\ DOMAIN h.mem = DOMAIN k.mem \ gone /\ \A n \in DOMAIN h.mem : h.mem[n] = k.mem[n]
  BY <1>1, WithoutSound
<1> HIDE DEF h
<1>4. Sound(k') /\ k'.mem = h.mem
  BY <1>2, <1>3, BumpSound
<1>5. (Punctual' => Punctual) /\ (Left("joins")' => Left("joins"))
  BY <1>2 DEF Punctual, Left
<1>6. ASSUME Punctual', NEW n \in Members PROVE ClientOK(consumer'[n], n, k', Left("joins")')
  <2>1. ClientOK(consumer[n], n, k, Left("joins"))
    BY <1>5, <1>6, ConsumerFacts
  <2>2. n \in DOMAIN k'.mem => n \in DOMAIN k.mem /\ Alike(k'.mem[n], k.mem[n])
    BY <1>3, <1>4 DEF Alike
  <2>3. n \in DOMAIN k.mem /\ n \notin DOMAIN k'.mem => consumer[n].at # "in"
    BY <1>3, <1>4, <2>1 DEF ClientOK, RowOf
  <2>4. ClientOK(consumer[n], n, k', Left("joins")')
    BY ZenonT(40), <1>5, <2>1, <2>2, <2>3, ClientKept
  <2>5. QED
    BY <1>2, <2>4
<1>7. QED
  BY <1>1, <1>2, <1>4, <1>6, Concluded

\* A member leaves, for good or to come back.
LEMMA LeaveStep ==
  ASSUME ConsumerInv, NEW m \in Members, NEW static \in BOOLEAN, ConsumerLeave(m, static)
  PROVE  ConsumerInv'
<1> DEFINE c == [Fenced(consumer[m]) EXCEPT !.at = "gone"]
<1>1. /\ Sound(k) /\ consumer \in [Members -> Client] /\ consumer[m] \in Client
      /\ k \in [epoch : Nat, assigned : Nat, stale : BOOLEAN, mem : [DOMAIN k.mem -> MemberRow]]
      /\ k.mem \in [DOMAIN k.mem -> MemberRow]
  BY ConsumerFacts
<1>2. "leaves" \in Counts
  BY DEF Counts
<1>3. /\ scenario' = scenario /\ parts' = parts /\ consumer' = [consumer EXCEPT ![m] = c] /\ consumer[m].at = "in"
      /\ spent' = spent \/ \E w \in Counts : Spend(w)
  BY <1>1, <1>2 DEF ConsumerLeave
<1>4. (Punctual' => Punctual) /\ (Left("joins")' => Left("joins"))
  BY <1>3, ConsumerFacts, SpentGrows
<1>5. c \in Client /\ c.at = "gone" /\ c.epoch = 0 /\ c.own = {} /\ c.told = {}
  BY <1>1, FencedFacts
<1> HIDE DEF c
<1>6. consumer' \in [Members -> Client] /\ consumer'[m] = c /\ \A n \in Members \ {m} : consumer'[n] = consumer[n]
  BY <1>1, <1>3, <1>5
<1>7. /\ Sound(k')
      /\ \A n \in Members \ {m} :
           /\ n \in DOMAIN k'.mem => n \in DOMAIN k.mem /\ Alike(k'.mem[n], k.mem[n])
           /\ n \in DOMAIN k.mem => n \in DOMAIN k'.mem
  <2>1. CASE k' = k
    BY <1>1, <2>1 DEF Alike
  <2>2. CASE k' = Removed(k, m)
    <3> DEFINE h == Without(k, {m})
    <3>1. Sound(h) /\ DOMAIN h.mem = DOMAIN k.mem \ {m} /\ \A n \in DOMAIN h.mem : h.mem[n] = k.mem[n]
      BY <1>1, WithoutSound
    <3>2. k' = bump_epoch(h)
      BY <2>2 DEF Removed
    <3> HIDE DEF h
    <3>3. Sound(k') /\ k'.mem = h.mem
      BY <3>1, <3>2, BumpSound
    <3>4. QED
      BY <3>1, <3>3 DEF Alike
  <2>3. CASE m \in DOMAIN k.mem /\ k' = [k EXCEPT !.mem[m].departed = TRUE]
    <3> DEFINE row == [k.mem[m] EXCEPT !.departed = TRUE]
    <3>1. m \in DOMAIN k.mem /\ k' = [k EXCEPT !.mem[m] = row] /\ k.mem[m] \in MemberRow
      BY <1>1, <2>3
    <3>2. row \in MemberRow /\ row.target = k.mem[m].target /\ row.granted = k.mem[m].granted
      BY ZenonT(40), <3>1 DEF MemberRow
    <3> HIDE DEF row
    <3>3. /\ Sound(k') /\ DOMAIN k'.mem = DOMAIN k.mem
          /\ \A n \in DOMAIN k.mem \ {m} : k'.mem[n] = k.mem[n]
      BY <1>1, <3>1, <3>2, MarkSound
    <3>4. QED
      BY <3>3 DEF Alike
  <2>4. QED
    BY <2>1, <2>2, <2>3 DEF ConsumerLeave
<1>8. ASSUME Punctual' PROVE ClientOK(consumer'[m], m, k', Left("joins")')
  BY <1>5, <1>6 DEF ClientOK, RowOf
<1>9. QED
  BY <1>3, <1>6, <1>7, <1>8, OneClient

\* A heartbeat: the member's own, one that finds the row the member left, or one whose answer is lost.
LEMMA HeartbeatStep ==
  ASSUME ConsumerInv, NEW m \in Members, NEW held \in Members, NEW got \in BOOLEAN, ConsumerHeartbeat(m, held, got)
  PROVE  ConsumerInv'
<1> DEFINE c == consumer[m]
           a == Adopted(k, m, held)
           d == Heard(a, m, c)
           clash == rows \cap {"classic", "share"} # {}
           gone == [Fenced(c) EXCEPT !.at = "gone"]
<1>1. /\ Sound(k) /\ consumer \in [Members -> Client] /\ c \in Client /\ parts \in SUBSET Nat
      /\ spent \in [Counts -> Nat]
  BY ConsumerFacts
<1>2. {"joins", "hangups"} \subseteq Counts
  BY DEF Counts
<1>3. /\ scenario' = scenario /\ parts' = parts /\ c.at \in {"in", "out"}
      /\ held # m => c.at = "out" /\ m \notin DOMAIN k.mem /\ held \in DOMAIN k.mem /\ k.mem[held].departed
      /\ spent' = spent \/ \E w \in Counts : Spend(w)
  BY <1>2, ZenonT(40) DEF ConsumerHeartbeat
<1>4. (Punctual' => Punctual) /\ (Left("joins")' => Left("joins"))
  BY <1>3, ConsumerFacts, SpentGrows
<1>5. c.at # "out" /\ ~got => Spend("hangups")
  BY ZenonT(40) DEF ConsumerHeartbeat
<1>6. c.at = "out" => got
  BY ZenonT(40) DEF ConsumerHeartbeat
<1>7. CASE clash
  <2>1. consumer' = [consumer EXCEPT ![m] = gone] /\ k' = k
    BY <1>7, ZenonT(40) DEF ConsumerHeartbeat
  <2>2. gone \in Client /\ gone.at = "gone" /\ gone.epoch = 0 /\ gone.own = {} /\ gone.told = {}
    BY <1>1, FencedFacts
  <2> HIDE DEF gone
  <2>3. /\ consumer' \in [Members -> Client] /\ consumer'[m] = gone
        /\ \A n \in Members \ {m} : consumer'[n] = consumer[n]
    BY <1>1, <2>1, <2>2
  <2>4. ClientOK(consumer'[m], m, k', Left("joins")')
    BY <1>4, <2>1, <2>2, <2>3, ConsumerFacts DEF ClientOK, RowOf
  <2>5. QED
    BY <1>1, <1>3, <2>1, <2>3, <2>4, OneClient DEF Alike
<1>8. CASE ~clash
  <2> DEFINE e == IF got THEN d.c ELSE [c EXCEPT !.resend = TRUE]
  <2>1. k' = d.k /\ consumer' = [consumer EXCEPT ![m] = e]
    BY <1>8, ZenonT(40) DEF ConsumerHeartbeat
  <2>2. /\ Sound(a)
        /\ \A n \in Members \ {m, held} : /\ n \in DOMAIN a.mem <=> n \in DOMAIN k.mem
                                          /\ n \in DOMAIN k.mem => a.mem[n] = k.mem[n]
        /\ held = m => a = k
        /\ held # m => m \in DOMAIN a.mem /\ held \notin DOMAIN a.mem /\ ~a.mem[m].departed
    <3>1. CASE held = m
      BY <1>1, <3>1 DEF Adopted
    <3>2. CASE held # m
      <4>1. /\ Sound(a) /\ DOMAIN a.mem = (DOMAIN k.mem \ {held}) \cup {m}
            /\ \A n \in DOMAIN k.mem \ {held} : a.mem[n] = k.mem[n]
            /\ ~a.mem[m].departed
        BY <1>1, <1>3, <3>2, AdoptedSound
      <4> HIDE DEF a
      <4>2. QED
        BY <1>3, <3>2, <4>1
    <3>3. QED
      BY <3>1, <3>2
  <2> HIDE DEF a
  <2>3. /\ Sound(d.k) /\ d.c \in Client /\ OthersAlike(m, a, d.k)
        /\ Backed(c, m, a) /\ c.at \in {"in", "out"} => ClientOK(d.c, m, d.k, Left("joins")')
    BY <1>1, <2>2, HeardSound
  <2> HIDE DEF d
  <2>4. [c EXCEPT !.resend = TRUE] \in Client
    BY ZenonT(40), <1>1 DEF Client
  <2>5. e \in Client
    BY <2>3, <2>4
  <2>6. got => e = d.c
    OBVIOUS
  <2> HIDE DEF e
  <2>7. /\ consumer' \in [Members -> Client] /\ consumer'[m] = e
        /\ \A n \in Members \ {m} : consumer'[n] = consumer[n]
    BY <1>1, <2>1, <2>5
  <2>8. ASSUME Punctual, NEW n \in Members \ {m}
        PROVE  /\ n \in DOMAIN k'.mem => n \in DOMAIN k.mem /\ Alike(k'.mem[n], k.mem[n])
               /\ n \in DOMAIN k.mem /\ n \notin DOMAIN k'.mem => consumer[n].at # "in"
    <3>1. /\ n \in DOMAIN k'.mem <=> n \in DOMAIN a.mem
          /\ n \in DOMAIN a.mem => Alike(k'.mem[n], a.mem[n])
      BY <2>1, <2>3 DEF OthersAlike
    <3>2. CASE n # held
      BY <2>2, <3>1, <3>2
    <3>3. CASE n = held
      <4>1. n \notin DOMAIN k'.mem
        BY <2>2, <3>1, <3>3
      <4>2. consumer[n].at = "gone"
        BY <1>3, <2>8, <3>3, ConsumerFacts DEF ClientOK, RowOf
      <4>3. QED
        BY <4>1, <4>2
    <3>4. QED
      BY <3>2, <3>3
  <2>9. ASSUME Punctual' PROVE ClientOK(consumer'[m], m, k', Left("joins")')
    <3>1. got
      BY <1>1, <1>5, <1>6, <2>9, LateSpent
    <3>2. ClientOK(c, m, k, Left("joins"))
      BY <1>4, <2>9, ConsumerFacts
    <3>3. Backed(c, m, a)
      <4>1. CASE held = m
        BY <1>3, <2>2, <3>2, <4>1 DEF Backed, ClientOK, RowOf
      <4>2. CASE held # m
        BY <1>3, <2>2, <3>2, <4>2 DEF Backed, ClientOK
      <4>3. QED
        BY <4>1, <4>2
    <3>4. QED
      BY <1>3, <2>1, <2>3, <2>6, <2>7, <3>1, <3>3
  <2>10. Sound(k')
    BY <2>1, <2>3
  <2>11. QED
    BY ZenonT(40), <1>3, <2>7, <2>8, <2>9, <2>10, OneClient
<1>9. QED
  BY <1>7, <1>8

LEMMA InitConsumerInv ==
  ASSUME IdsInit, ConsumerInit
  PROVE  ConsumerInv
<1>1. scenario \in Scenarios /\ spent \in [Counts -> Nat]
  BY DEF IdsInit
<1>2. DOMAIN k.mem = {} /\ k = [epoch |-> 0, assigned |-> 0, stale |-> FALSE, mem |-> <<>>]
  BY DEF ConsumerInit, NoConsumers
<1>3. k.mem \in [DOMAIN k.mem -> MemberRow]
  BY <1>2
<1>4. MemberRows(k) /\ TargetsApart(k) /\ GrantedApart(k)
  BY <1>2, <1>3, FS_EmptySet DEF MemberRows, TargetsApart, GrantedApart
<1>5. \A m \in Members : consumer[m] = NewConsumer \/ consumer[m] = [NewConsumer EXCEPT !.at = "gone"]
  BY DEF ConsumerInit
<1>6. consumer \in [Members -> Client] /\ parts \in SUBSET Nat
  <2>1. NewConsumer \in Client /\ [NewConsumer EXCEPT !.at = "gone"] \in Client
    BY ZenonT(40) DEF NewConsumer, Client
  <2>2. QED
    BY <2>1 DEF ConsumerInit
<1>7. \A m \in Members : ClientOK(consumer[m], m, k, Left("joins"))
  BY <1>2, <1>5 DEF ClientOK, NewConsumer
<1>8. QED
  BY <1>1, <1>4, <1>6, <1>7 DEF ConsumerInv, ConsumerTypeOK

\* No step of the protocol breaks the invariant.
LEMMA ConsumerStep ==
  ASSUME ConsumerInv, ConsumerNext
  PROVE  ConsumerInv'
<1>1. CASE ExpireConsumers
  BY <1>1, ExpireStep
<1>2. CASE \E m : Grow \/ Reassign \/ RevokePast(m) \/ ConsumerLapse(m)
  BY <1>2, ConsumerTimeStep
<1>3. CASE \E m \in Members : Revoke(m) \/ TakeOn(m) \/ ConsumerCrash(m) \/ Resubscribe(m)
  BY <1>3, ClientStep
<1>4. CASE \E m \in Members, static \in BOOLEAN : ConsumerLeave(m, static)
  BY <1>4, LeaveStep
<1>5. CASE \E m, n \in Members, got \in BOOLEAN : ConsumerHeartbeat(m, n, got)
  BY <1>5, HeartbeatStep
<1>6. QED
  BY ZenonT(40), <1>1, <1>2, <1>3, <1>4, <1>5 DEF ConsumerNext, ConsumerFollows

\* The invariant is strong enough.
LEMMA InvHandedOver ==
  ASSUME ConsumerInv
  PROVE  HandedOver
<1>1. ASSUME Punctual, NEW m \in Members, NEW n \in Members, m # n
      PROVE  consumer[m].own \cap consumer[n].own = {}
  <2>1. ClientOK(consumer[m], m, k, Left("joins")) /\ ClientOK(consumer[n], n, k, Left("joins"))
    BY <1>1 DEF ConsumerInv
  <2>2. CASE consumer[m].at = "in" /\ consumer[n].at = "in"
    BY <1>1, <2>1, <2>2 DEF ClientOK, RowOf, ConsumerInv, GrantedApart
  <2>3. CASE consumer[m].at # "in" \/ consumer[n].at # "in"
    BY <2>1, <2>3 DEF ClientOK
  <2>4. QED
    BY <2>2, <2>3
<1>2. QED
  BY <1>1 DEF HandedOver, ConsumerInv

=============================================================================
