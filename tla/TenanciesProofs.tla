---------------------------- MODULE TenanciesProofs ----------------------------
(***************************************************************************)
(* Proofs about Tenancies, for any tenancies, calendars and closures.      *)
(*                                                                         *)
(* That rows have different stamps needs what every save in progress has   *)
(* drawn (Drawn).  What a row's check could tell of another needs that the *)
(* stamps it has seen are those of rows that had been committed (Known),   *)
(* and that it looked at every day the two may share (CheckCompares).      *)
(***************************************************************************)
EXTENDS Tenancies, FiniteSetTheorems, WellFoundedInduction, TLAPS

\* Stamps that have been drawn are not drawn again.
Drawn ==
    /\ \A r \in booked : r.created \in 1 .. stamps
    /\ \A p \in Planners : planner[p].pc = "stamped" =>
          /\ planner[p].created \in 1 .. stamps
          /\ \A r \in booked : r.created # planner[p].created
          /\ \A q \in Planners : planner[q].pc = "stamped" /\ planner[q].created = planner[p].created => p = q

IInv == TypeOK /\ Drawn

LEMMA InitInv == Init => IInv
BY TenancyAssumption DEF Init, IInv, TypeOK, Drawn, Idle

LEMMA SavingFields ==
    ASSUME TypeOK, NEW p \in Planners, planner[p].pc \in {"checked", "stamped"}
    PROVE  planner[p] \in Saving
BY DEF TypeOK, Idle

LEMMA StepInv == IInv /\ [Next]_vars => IInv'
<1> SUFFICES ASSUME IInv, [Next]_vars PROVE IInv'
  OBVIOUS
<1> USE TenancyAssumption DEF IInv
<1>0. stamps \in Nat
  BY DEF TypeOK
<1>1. CASE UNCHANGED vars
  BY <1>1 DEF TypeOK, Drawn, vars
<1>2. ASSUME NEW p \in Planners, NEW t \in Offers, Check(p, t) PROVE IInv'
  <2> DEFINE knew == {r.created : r \in booked}
  <2>1. t \in Tenancy /\ 0 \in 0 .. MaxStamp /\ knew \in SUBSET (1 .. MaxStamp)
    BY DEF Drawn, TypeOK
  <2> HIDE DEF knew
  <2>2. [pc |-> "checked", tenancy |-> t, created |-> 0, knew |-> knew] \in Saving
    BY <2>1 DEF Saving
  <2>3. TypeOK'
    BY <1>2, <2>2 DEF Check, TypeOK, knew
  <2>4. Drawn'
    BY <1>2 DEF Check, Drawn, TypeOK
  <2> QED
    BY <2>3, <2>4
<1>3. ASSUME NEW p \in Planners, Stamp(p) PROVE IInv'
  <2>1. planner[p] \in Saving /\ planner[p].pc = "checked"
    BY <1>3, SavingFields DEF Stamp
  <2>2. /\ stamps' = stamps + 1 /\ stamps' \in 1 .. MaxStamp /\ booked' = booked
        /\ planner' = [planner EXCEPT ![p].pc = "stamped", ![p].created = stamps']
    BY <1>0, <1>3 DEF Stamp
  <2>3. planner'[p] \in Saving /\ planner'[p].pc = "stamped" /\ planner'[p].created = stamps'
    <3>1. planner'[p] = [[planner[p] EXCEPT !.pc = "stamped"] EXCEPT !.created = stamps']
      BY <2>2 DEF TypeOK
    <3>2. stamps' \in 0 .. MaxStamp
      BY <2>2
    <3> HIDE TenancyAssumption
    <3> QED
      BY <2>1, <3>1, <3>2 DEF Saving
  <2>4. \A q \in Planners \ {p} : planner'[q] = planner[q]
    BY <2>2 DEF TypeOK
  <2>5. TypeOK'
    BY <2>2, <2>3, <2>4 DEF TypeOK
  <2>6. Drawn'
    <3> DEFINE Stamped == {q \in Planners : planner[q].pc = "stamped"}
    <3>1. /\ \A r \in booked : r.created \in 1 .. stamps
          /\ \A q \in Stamped : planner[q].created \in 1 .. stamps
      BY DEF Drawn
    <3>2. \A i \in 1 .. stamps : i \in 1 .. stamps' /\ i # stamps'
      BY <1>0, <2>2
    <3>3. p \notin Stamped /\ \A q \in Planners : planner'[q].pc = "stamped" => q = p \/ q \in Stamped
      BY <2>1, <2>4
    <3>4. stamps' \in 1 .. stamps'
      BY <1>0, <2>2
    <3>5. \A r \in booked' : r.created \in 1 .. stamps' /\ r.created # stamps'
      BY <2>2, <3>1, <3>2
    <3>6. ASSUME NEW q \in Planners, planner'[q].pc = "stamped"
          PROVE  /\ planner'[q].created \in 1 .. stamps'
                 /\ \A r \in booked' : r.created # planner'[q].created
                 /\ \A o \in Planners : planner'[o].pc = "stamped" /\ planner'[o].created = planner'[q].created
                        => q = o
      <4>1. CASE q = p
        <5>1. \A o \in Stamped : planner'[o].created # stamps'
          BY <2>4, <3>1, <3>2, <3>3
        <5> QED
          BY <2>3, <3>3, <3>4, <3>5, <4>1, <5>1
      <4>2. CASE q # p
        <5>1. q \in Stamped /\ planner'[q].created = planner[q].created
          BY <2>4, <3>3, <3>6, <4>2
        <5>2. planner'[q].created \in 1 .. stamps' /\ planner'[q].created # stamps'
          BY <3>1, <3>2, <5>1
        <5>3. \A r \in booked' : r.created # planner'[q].created
          BY <2>2, <5>1 DEF Drawn
        <5>4. \A o \in Stamped : planner'[o] = planner[o]
          BY <2>4, <3>3
        <5> QED
          BY <2>3, <3>3, <5>1, <5>2, <5>3, <5>4 DEF Drawn
      <4> QED
        BY <4>1, <4>2
    <3> HIDE DEF Stamped
    <3>7. \A r \in booked' : r.created \in 1 .. stamps'
      BY <3>5
    <3> QED
      BY <3>6, <3>7 DEF Drawn
  <2> QED
    BY <2>5, <2>6
<1>4. ASSUME NEW p \in Planners, Commit(p) PROVE IInv'
  <2> DEFINE row == RowOf(planner[p])
  <2>1. planner[p] \in Saving /\ planner[p].pc = "stamped"
    BY <1>4, SavingFields DEF Commit
  <2>2. row \in Row /\ row.created = planner[p].created
    BY <2>1 DEF Saving, Row, RowOf
  <2>3. booked' = booked \cup {row} /\ stamps' = stamps /\ planner' = [planner EXCEPT ![p] = Idle]
    BY <1>4 DEF Commit
  <2>4. /\ row.created \in 1 .. stamps /\ \A r \in booked : r.created # row.created
        /\ \A q \in Planners \ {p} : planner[q].pc = "stamped" => planner[q].created # row.created
    BY <2>1, <2>2 DEF Drawn
  <2>5. planner'[p] = Idle /\ \A q \in Planners \ {p} : planner'[q] = planner[q]
    BY <2>3 DEF TypeOK
  <2> HIDE DEF row
  <2>6. TypeOK'
    BY <2>2, <2>3, <2>4 DEF TypeOK
  <2>7. Drawn'
    BY <2>2, <2>3, <2>4, <2>5 DEF Drawn, Idle
  <2> QED
    BY <2>6, <2>7
<1>5. ASSUME NEW p \in Planners, Abandon(p) PROVE IInv'
  <2>1. /\ planner' = [planner EXCEPT ![p] = Idle] /\ UNCHANGED <<stamps, booked>>
    BY <1>5 DEF Abandon
  <2>2. planner'[p] = Idle /\ \A q \in Planners \ {p} : planner'[q] = planner[q]
    BY <2>1 DEF TypeOK
  <2> QED
    BY <2>1, <2>2 DEF TypeOK, Drawn, Idle
<1>6. ASSUME NEW r \in booked, Delete(r) PROVE IInv'
  BY <1>6 DEF Delete, TypeOK, Drawn
<1> QED
  BY <1>1, <1>2, <1>3, <1>4, <1>5, <1>6 DEF Next

THEOREM Invariance == Spec => []IInv
BY InitInv, StepInv, PTL DEF Spec

\* The rows keep their types, and no two of them have the same stamp, however many
\* planners save at once, so "the earliest created" is one row (attribution.py:222-227).
THEOREM TypeCorrect == Spec => []TypeOK
<1>1. IInv => TypeOK
  BY DEF IInv
<1> QED
  BY <1>1, Invariance, PTL

-----------------------------------------------------------------------------
Proposed == {p \in Planners : planner[p].pc \in {"checked", "stamped"}}

\* What has been seen had been committed: stamps drawn before one's own, and never the
\* stamp of a save in progress.
Known ==
    /\ \A r \in booked : \A k \in r.knew : k \in 1 .. stamps /\ k < r.created
    /\ \A p \in Proposed : \A k \in planner[p].knew : k \in 1 .. stamps
    /\ \A p \in Planners : planner[p].pc = "stamped" =>
          /\ \A k \in planner[p].knew : k < planner[p].created
          /\ \A r \in booked : planner[p].created \notin r.knew
          /\ \A q \in Proposed : planner[p].created \notin planner[q].knew

LEMMA KnownStep == IInv /\ Known /\ [Next]_vars => Known'
<1> SUFFICES ASSUME IInv, Known, [Next]_vars PROVE Known'
  OBVIOUS
<1> USE TenancyAssumption DEF IInv, Proposed
<1>0. stamps \in Nat
  BY DEF TypeOK
<1>1. CASE UNCHANGED vars
  BY <1>1 DEF Known, vars
<1>2. ASSUME NEW p \in Planners, NEW t \in Offers, Check(p, t) PROVE Known'
  <2>1. /\ planner'[p].pc = "checked" /\ planner'[p].knew = {r.created : r \in booked}
        /\ \A q \in Planners \ {p} : planner'[q] = planner[q]
        /\ UNCHANGED <<stamps, booked>>
    BY <1>2 DEF Check, TypeOK
  <2>2. /\ \A k \in planner'[p].knew : k \in 1 .. stamps
        /\ \A q \in Planners : planner[q].pc = "stamped" => planner[q].created \notin planner'[p].knew
    BY <2>1 DEF Drawn
  <2> QED
    BY <2>1, <2>2 DEF Known
<1>3. ASSUME NEW p \in Planners, Stamp(p) PROVE Known'
  <2>1. planner[p] \in Saving /\ planner[p].pc = "checked"
    BY <1>3, SavingFields DEF Stamp
  <2>2. /\ planner'[p].pc = "stamped" /\ planner'[p].created = stamps + 1
        /\ planner'[p].knew = planner[p].knew
        /\ \A q \in Planners \ {p} : planner'[q] = planner[q]
        /\ stamps' = stamps + 1 /\ booked' = booked
    BY <1>3, <2>1 DEF Stamp, Saving, TypeOK
  <2>3. \A k \in 1 .. stamps : k \in 1 .. stamps' /\ k < stamps + 1
    BY <1>0, <2>2
  <2>4. /\ \A r \in booked : \A k \in r.knew : k \in 1 .. stamps
        /\ \A q \in Proposed : \A k \in planner[q].knew : k \in 1 .. stamps
    BY DEF Known
  <2>5. stamps + 1 \notin 1 .. stamps
    BY <1>0
  <2>6. \A q \in Planners : planner'[q].knew = planner[q].knew
    BY <2>2
  <2>7. \A q \in Proposed' : q \in Proposed
    BY <2>1, <2>2
  <2>8. \A r \in booked : \A k \in r.knew : k \in 1 .. stamps' /\ k < r.created
    BY <2>3, <2>4 DEF Known
  <2>9. \A q \in Proposed' : \A k \in planner'[q].knew : k \in 1 .. stamps'
    BY <2>3, <2>4, <2>6, <2>7
  <2>10. ASSUME NEW q \in Planners, planner'[q].pc = "stamped"
         PROVE  /\ \A k \in planner'[q].knew : k < planner'[q].created
                /\ \A r \in booked : planner'[q].created \notin r.knew
                /\ \A o \in Proposed' : planner'[q].created \notin planner'[o].knew
    <3>1. CASE q = p
      BY <2>1, <2>2, <2>3, <2>4, <2>5, <2>6, <2>7, <3>1
    <3>2. CASE q # p
      BY <2>2, <2>6, <2>7, <2>10, <3>2 DEF Known
    <3> QED  BY <3>1, <3>2
  <2> HIDE DEF Proposed
  <2> QED
    BY <2>2, <2>8, <2>9, <2>10 DEF Known
<1>4. ASSUME NEW p \in Planners, Commit(p) PROVE Known'
  <2> DEFINE row == RowOf(planner[p])
  <2>1. planner[p] \in Saving /\ planner[p].pc = "stamped"
    BY <1>4, SavingFields DEF Commit
  <2>2. row.created = planner[p].created /\ row.knew = planner[p].knew
    BY DEF RowOf
  <2>3. booked' = booked \cup {row} /\ stamps' = stamps
    BY <1>4 DEF Commit
  <2>4. planner'[p] = Idle /\ \A q \in Planners \ {p} : planner'[q] = planner[q]
    BY <1>4 DEF Commit, TypeOK
  <2>5. \A k \in row.knew : k \in 1 .. stamps /\ k < row.created
    BY <2>1, <2>2 DEF Known
  <2>6. \A q \in Planners \ {p} : planner[q].pc = "stamped" => planner[q].created \notin row.knew
    BY <2>1, <2>2 DEF Known
  <2> HIDE DEF row
  <2> QED
    BY <2>3, <2>4, <2>5, <2>6 DEF Known, Idle
<1>5. ASSUME NEW p \in Planners, Abandon(p) PROVE Known'
  <2>1. /\ planner'[p] = Idle /\ \A q \in Planners \ {p} : planner'[q] = planner[q]
        /\ UNCHANGED <<stamps, booked>>
    BY <1>5 DEF Abandon, TypeOK
  <2> QED
    BY <2>1 DEF Known, Idle
<1>6. ASSUME NEW r \in booked, Delete(r) PROVE Known'
  BY <1>6 DEF Delete, Known
<1> QED
  BY <1>1, <1>2, <1>3, <1>4, <1>5, <1>6 DEF Next

LEMMA KnownInit == Init => Known
BY DEF Init, Known, Proposed, Idle

-----------------------------------------------------------------------------
\* Where the two share a bucket, the check of t could not tell.
Compared(t, u) ==
    \A d \in Days, clock \in Noons :
        Active(t, d, clock) /\ Active(u, d, clock) => Uncompared(t, u, d)

LEMMA ActiveDays ==
    ASSUME NEW t \in Tenancy, NEW d \in Days, NEW clock, Active(t, d, clock),
           NEW first, NEW last, d \in Upto(first, last)
    PROVE  d \in ActiveDates(t, first, last)
BY DEF Active, ActiveDates, Tenancy

\* Two daily windows that are kept to and do not meet share no bucket.
LEMMA DisjointWindows ==
    ASSUME NEW t \in Tenancy, NEW u \in Tenancy, WindowsDisjoint(t, u),
           t.kind = "recurring", u.kind = "recurring",
           NEW d \in Days, NEW clock \in Noons, Active(t, d, clock), Active(u, d, clock)
    PROVE  FALSE
<1>1. t.window # None /\ u.window # None
  BY DEF WindowsDisjoint
<1>2. t.window \in Nat \X Nat /\ u.window \in Nat \X Nat /\ clock \in Nat
  BY <1>1, TenancyAssumption DEF Tenancy
<1>3. t.window[1] <= clock /\ clock < t.window[2] /\ u.window[1] <= clock /\ clock < u.window[2]
  BY <1>1 DEF Active
<1>4. t.window[2] <= u.window[1] \/ u.window[2] <= t.window[1]
  BY DEF WindowsDisjoint
<1>5. /\ t.window[1] \in Nat /\ t.window[2] \in Nat
      /\ u.window[1] \in Nat /\ u.window[2] \in Nat
  BY <1>2
<1> QED
  BY <1>2, <1>3, <1>4, <1>5

\* A check that finds nothing has compared every day with every row it saw.
LEMMA CheckCompares ==
    ASSUME TypeOK, NEW t \in Offers, Conflicts(t) = {}, NEW r \in booked
    PROVE  Compared(t, r.tenancy)
<1> SUFFICES ASSUME NEW d \in Days, NEW clock \in Noons,
                    Active(t, d, clock), Active(r.tenancy, d, clock), ~ Uncompared(t, r.tenancy, d)
             PROVE  FALSE
  BY DEF Compared
<1> DEFINE last == IF t.ends = None THEN t.starts + Horizon ELSE t.ends
<1>1. t \in Tenancy /\ r.tenancy \in Tenancy
  BY TenancyAssumption DEF TypeOK, Row
<1>2. t.starts \in Nat /\ d \in Nat /\ t.starts <= d /\ (t.ends = None \/ d <= t.ends)
  BY <1>1, TenancyAssumption DEF Tenancy, Days, Active
<1>3. d <= last
  BY <1>2, TenancyAssumption DEF Uncompared
<1>4. d \in Upto(t.starts, last)
  BY <1>2, <1>3 DEF Upto
<1>5. d \in ActiveDates(r.tenancy, t.starts, last) \cap ActiveDates(t, t.starts, last)
  BY <1>1, <1>4, ActiveDays
<1>6. WindowsDisjoint(t, r.tenancy)
  BY <1>5 DEF Conflicts
<1>7. t.kind = "recurring" /\ r.tenancy.kind = "recurring"
  BY <1>6 DEF Uncompared
<1> QED
  BY <1>1, <1>6, <1>7, DisjointWindows

Apart ==
    /\ \A r, q \in booked : r.created \in q.knew => Compared(q.tenancy, r.tenancy)
    /\ \A p \in Proposed, r \in booked :
          r.created \in planner[p].knew => Compared(planner[p].tenancy, r.tenancy)

LEMMA ApartStep == IInv /\ Known /\ Apart /\ [Next]_vars => Apart'
<1> SUFFICES ASSUME IInv, Known, Apart, [Next]_vars PROVE Apart'
  OBVIOUS
<1> USE DEF IInv, Proposed
<1>1. CASE UNCHANGED vars
  BY <1>1 DEF Apart, vars
<1>2. ASSUME NEW p \in Planners, NEW t \in Offers, Check(p, t) PROVE Apart'
  <2>1. \A r \in booked : Compared(t, r.tenancy)
    BY <1>2, CheckCompares DEF Check
  <2>2. /\ planner'[p].tenancy = t /\ booked' = booked
        /\ \A q \in Planners \ {p} : planner'[q] = planner[q]
    BY <1>2 DEF Check, TypeOK
  <2> QED
    BY <2>1, <2>2 DEF Apart
<1>3. ASSUME NEW p \in Planners, Stamp(p) PROVE Apart'
  <2>1. planner[p] \in Saving /\ planner[p].pc = "checked"
    BY <1>3, SavingFields DEF Stamp
  <2>2. /\ planner'[p].tenancy = planner[p].tenancy /\ planner'[p].knew = planner[p].knew
        /\ \A q \in Planners \ {p} : planner'[q] = planner[q]
        /\ booked' = booked
    BY <1>3, <2>1 DEF Stamp, Saving, TypeOK
  <2> QED
    BY <2>1, <2>2 DEF Apart
<1>4. ASSUME NEW p \in Planners, Commit(p) PROVE Apart'
  <2> DEFINE row == RowOf(planner[p])
  <2>1. planner[p].pc = "stamped" /\ booked' = booked \cup {row}
    BY <1>4 DEF Commit
  <2>2. /\ row.tenancy = planner[p].tenancy /\ row.created = planner[p].created
        /\ row.knew = planner[p].knew
    BY DEF RowOf
  <2>3. planner'[p] = Idle /\ \A q \in Planners \ {p} : planner'[q] = planner[q]
    BY <1>4 DEF Commit, TypeOK
  <2>4. \A r \in booked : r.created \in row.knew => Compared(row.tenancy, r.tenancy)
    BY <2>1, <2>2 DEF Apart
  <2>5. /\ \A r \in booked : row.created \notin r.knew
        /\ \A q \in Proposed : row.created \notin planner[q].knew
        /\ row.created \notin row.knew
    BY <2>1, <2>2 DEF Known
  <2> HIDE DEF row
  <2> QED
    BY <2>1, <2>3, <2>4, <2>5 DEF Apart, Idle
<1>5. ASSUME NEW p \in Planners, Abandon(p) PROVE Apart'
  <2>1. /\ planner'[p] = Idle /\ \A q \in Planners \ {p} : planner'[q] = planner[q]
        /\ booked' = booked
    BY <1>5 DEF Abandon, TypeOK
  <2> QED
    BY <2>1 DEF Apart, Idle
<1>6. ASSUME NEW r \in booked, Delete(r) PROVE Apart'
  BY <1>6 DEF Delete, Apart
<1> QED
  BY <1>1, <1>2, <1>3, <1>4, <1>5, <1>6 DEF Next

\* However many planners save at once and whatever they offer, two rows hold the space
\* together only if their saves raced, or where the check of the later one cannot tell:
\* beyond its horizon, or in a daily window that is not kept to (validation.py:99-146,
\* attribution.py:213-246).
THEOREM NobodyBookedTwice == Spec => []NoDoubleBooking
<1>1. Init => Apart
  BY DEF Init, Apart, Proposed, Idle
<1>2. Apart => NoDoubleBooking
  BY DEF Apart, Compared, NoDoubleBooking, Holding
<1> QED
  BY <1>1, <1>2, ApartStep, KnownInit, KnownStep, Invariance, PTL DEF Spec

-----------------------------------------------------------------------------
\* The earliest of some rows with different stamps is the earliest of any of them it
\* is among, and of those and later ones.
LEMMA EarliestIs ==
    ASSUME NEW rows, NEW r \in rows, \A q \in rows : r.created <= q.created,
           \A q \in rows : q.created \in Int, \A q, o \in rows : q.created = o.created => q = o
    PROVE  Earliest(rows) = r
<1>1. \A q \in rows : (\A o \in rows : q.created <= o.created) => q = r
  OBVIOUS
<1> QED
  BY <1>1 DEF Earliest

LEMMA Least == ASSUME NEW S \in SUBSET Nat, S # {} PROVE \E x \in S : \A y \in S : x <= y
<1> DEFINE R == OpToRel(<, Nat)
<1>1. R = {ss \in Nat \X Nat : ss[1] < ss[2]}
  BY DEF OpToRel
<1>2. IsWellFoundedOn(R, Nat)
  BY NatLessThanWellFounded
<1> HIDE DEF R
<1>3. PICK x \in S : \A y \in S : ~ (<<y, x>> \in R)
  BY <1>2, WFMin
<1>4. ASSUME NEW y \in S PROVE x <= y
  <2>1. x \in Nat /\ y \in Nat
    OBVIOUS
  <2>2. y < x => <<y, x>> \in R
    BY <1>1, <2>1
  <2> QED
    BY <1>3, <2>1, <2>2
<1> QED
  BY <1>4

LEMMA EarliestExists ==
    ASSUME NEW rows, rows # {}, \A q \in rows : q.created \in Nat
    PROVE  Earliest(rows) \in rows /\ \A q \in rows : Earliest(rows).created <= q.created
<1> DEFINE drawn == {q.created : q \in rows}
<1>1. drawn \in SUBSET Nat /\ drawn # {}
  OBVIOUS
<1>2. PICK x \in drawn : \A y \in drawn : x <= y
  BY <1>1, Least
<1>3. PICK r \in rows : r.created = x
  BY <1>2
<1>4. \A q \in rows : r.created <= q.created
  BY <1>2, <1>3
<1> QED
  BY <1>4 DEF Earliest

LEMMA StampsAreNumbers == IInv => \A r \in booked : r.created \in Nat /\ r # None
BY TenancyAssumption, NoneIsNoRow DEF IInv, Drawn, TypeOK

\* However many planners save at once and whatever tenancies overlap, only a save that
\* raced the occupant's own takes a bucket back (attribution.py:87-91, 222-227,
\* routes.py:354-378).
THEOREM BookedSlotStays == Spec => BookedSlotKept
<1> DEFINE Stays ==
      \A d \in Days, clock \in Noons :
          LET before == OccupantAt(d, clock)
              after == OccupantAt(d, clock)'
          IN  before # None /\ before \in booked' /\ after # before
                  => after # None /\ before.created \notin after.knew
<1>1. IInv /\ IInv' /\ Known' /\ [Next]_vars => Stays
  <2> SUFFICES ASSUME IInv, IInv', Known', [Next]_vars,
                      NEW d \in Days, NEW clock \in Noons,
                      NEW before, before = OccupantAt(d, clock),
                      NEW after, after = OccupantAt(d, clock)',
                      before # None, before \in booked', after # before
               PROVE  after # None /\ before.created \notin after.knew
    OBVIOUS
  <2>1. d \notin Closures /\ Holding(d, clock) # {} /\ before = Earliest(Holding(d, clock))
    BY DEF OccupantAt
  <2>2. /\ \A r \in booked : r.created \in Nat
        /\ \A r \in booked' : r.created \in Nat /\ r # None
    BY TenancyAssumption, NoneIsNoRow DEF IInv, Drawn, TypeOK
  <2>3. before \in Holding(d, clock)
    BY <2>1, <2>2, EarliestExists DEF Holding
  <2>4. before \in Holding(d, clock)'
    BY <2>3 DEF Holding
  <2>5. after = Earliest(Holding(d, clock)')
    BY <2>1, <2>4 DEF OccupantAt, Earliest
  <2> DEFINE later == Holding(d, clock)'
  <2>6. after \in later /\ after.created <= before.created /\ later \subseteq booked'
    <3>1. later # {} /\ before \in later /\ later \subseteq booked'
      BY <2>4 DEF Holding
    <3>2. after = Earliest(later) /\ \A r \in later : r.created \in Nat
      BY <2>2, <2>5, <3>1
    <3> HIDE DEF later
    <3> QED
      BY <3>1, <3>2, EarliestExists
  <2> HIDE DEF later
  <2>7. after.created \in Nat /\ before.created \in Nat /\ after # None
    BY <2>2, <2>6
  <2>8. \A k \in after.knew : k < after.created
    BY <2>6 DEF Known
  <2> QED
    BY <2>6, <2>7, <2>8
<1> QED
  BY <1>1, KnownInit, KnownStep, Invariance, PTL DEF Spec, BookedSlotKept

-----------------------------------------------------------------------------
\* Every daily window has a bucket in it, and the day has a bucket.
WindowsHoldBuckets ==
    /\ Noons # {}
    /\ \A t \in Offers : t.window # None =>
          \E clock \in Noons : t.window[1] <= clock /\ clock < t.window[2]

Offered ==
    /\ \A r \in booked : r.tenancy \in Offers
    /\ \A p \in Planners : planner[p].pc # "idle" => planner[p].tenancy \in Offers

LEMMA OfferedStep == IInv /\ Offered /\ [Next]_vars => Offered'
<1> SUFFICES ASSUME IInv, Offered, [Next]_vars PROVE Offered'
  OBVIOUS
<1> USE DEF IInv
<1>1. CASE UNCHANGED vars
  BY <1>1 DEF Offered, vars
<1>2. ASSUME NEW p \in Planners, NEW t \in Offers, Check(p, t) PROVE Offered'
  BY <1>2 DEF Check, Offered, TypeOK
<1>3. ASSUME NEW p \in Planners, Stamp(p) PROVE Offered'
  <2>1. planner[p] \in Saving /\ planner[p].pc = "checked"
    BY <1>3, SavingFields DEF Stamp
  <2>2. planner'[p].tenancy = planner[p].tenancy /\ \A q \in Planners \ {p} : planner'[q] = planner[q]
    BY <1>3, <2>1 DEF Stamp, Saving, TypeOK
  <2> QED
    BY <1>3, <2>1, <2>2 DEF Stamp, Offered
<1>4. ASSUME NEW p \in Planners, Commit(p) PROVE Offered'
  <2>1. booked' = booked \cup {RowOf(planner[p])} /\ RowOf(planner[p]).tenancy = planner[p].tenancy
    BY <1>4 DEF Commit, RowOf
  <2>2. planner'[p] = Idle /\ \A q \in Planners \ {p} : planner'[q] = planner[q]
    BY <1>4 DEF Commit, TypeOK
  <2>3. planner[p].pc # "idle"
    BY <1>4 DEF Commit
  <2> QED
    BY <2>1, <2>2, <2>3 DEF Offered, Idle
<1>5. ASSUME NEW p \in Planners, Abandon(p) PROVE Offered'
  BY <1>5 DEF Abandon, Offered, Idle, TypeOK
<1>6. ASSUME NEW r \in booked, Delete(r) PROVE Offered'
  BY <1>6 DEF Delete, Offered
<1> QED
  BY <1>1, <1>2, <1>3, <1>4, <1>5, <1>6 DEF Next

\* The rows a grid cell is made from.
RowsOfDay(d) == {r \in booked : d \in ActiveDates(r.tenancy, d, d)}

LEMMA HoldersAreOfDay ==
    ASSUME TypeOK, NEW d \in Days, NEW clock \in Noons
    PROVE  Holding(d, clock) \subseteq RowsOfDay(d)
<1> SUFFICES ASSUME NEW r \in Holding(d, clock) PROVE r \in RowsOfDay(d)
  OBVIOUS
<1>1. r \in booked /\ Active(r.tenancy, d, clock) /\ r.tenancy \in Tenancy
  BY DEF Holding, TypeOK, Row
<1>2. d \in Upto(d, d)
  BY TenancyAssumption DEF Upto, Days
<1> QED
  BY <1>1, <1>2, ActiveDays DEF RowsOfDay

\* A tenancy of the day has a bucket of it.
LEMMA DayHasBucket ==
    ASSUME WindowsHoldBuckets, NEW t \in Offers, NEW d \in Days, d \in ActiveDates(t, d, d)
    PROVE  \E clock \in Noons : Active(t, d, clock)
<1>1. t \in Tenancy
  BY TenancyAssumption
<1>2. PICK clock \in Noons : t.window # None => t.window[1] <= clock /\ clock < t.window[2]
  BY DEF WindowsHoldBuckets
<1>3. Active(t, d, clock)
  BY <1>1, <1>2 DEF Active, ActiveDates, Tenancy
<1> QED
  BY <1>3

\* The grid and the attribution name the same occupant: the first of a day is the
\* first of some bucket of it, and a day free in the grid has no occupied bucket,
\* whoever plans and whatever overlaps (schedule.py:57-70, attribution.py:213-246).
THEOREM GridAndBucketsAgree == WindowsHoldBuckets => (Spec => []GridAgrees)
<1> SUFFICES ASSUME WindowsHoldBuckets PROVE Spec => []GridAgrees
  OBVIOUS
<1>1. Init => Offered
  BY DEF Init, Offered, Idle
<1>2. IInv /\ Offered => GridAgrees
  <2> SUFFICES ASSUME IInv, Offered, NEW d \in Days
               PROVE  /\ GridCell(d) # None =>
                            \E clock \in Noons : OccupantAt(d, clock) = GridCell(d)
                      /\ GridCell(d) = None => \A clock \in Noons : OccupantAt(d, clock) = None
    BY DEF GridAgrees
  <2> DEFINE day == RowsOfDay(d)
             first == Earliest(day)
  <2>0. TypeOK /\ day \in SUBSET booked
    BY DEF IInv, RowsOfDay
  <2>1. GridCell(d) = IF d \in Closures \/ day = {} THEN None ELSE first
    BY DEF GridCell, RowsOfDay
  <2>2. \A clock \in Noons : Holding(d, clock) \subseteq day
    BY <2>0, HoldersAreOfDay
  <2> HIDE DEF day
  <2>3. CASE d \in Closures \/ day = {}
    BY <2>1, <2>2, <2>3 DEF OccupantAt
  <2>4. CASE d \notin Closures /\ day # {}
    <3>1. first \in day /\ \A q \in day : first.created <= q.created
      BY <2>0, <2>4, EarliestExists, StampsAreNumbers DEF IInv
    <3> HIDE DEF first
    <3>2. first \in booked /\ d \in ActiveDates(first.tenancy, d, d) /\ first.tenancy \in Offers
      BY <2>0, <3>1 DEF Offered, RowsOfDay, day
    <3>3. PICK clock \in Noons : Active(first.tenancy, d, clock)
      BY <3>2, DayHasBucket
    <3>4. first \in Holding(d, clock)
      BY <3>2, <3>3 DEF Holding
    <3>5. /\ \A q \in Holding(d, clock) : first.created <= q.created /\ q.created \in Int
          /\ \A q, o \in Holding(d, clock) : q.created = o.created => q = o
      BY <2>0, <2>2, <3>1, TenancyAssumption DEF TypeOK, Row
    <3>6. Earliest(Holding(d, clock)) = first
      BY <3>4, <3>5, EarliestIs
    <3>7. OccupantAt(d, clock) = first /\ GridCell(d) = first
      BY <2>1, <2>4, <3>4, <3>6 DEF OccupantAt
    <3>8. first # None
      BY <2>0, <3>2, NoneIsNoRow DEF TypeOK
    <3> QED
      BY <3>7, <3>8
  <2> QED
    BY <2>3, <2>4
<1> QED
  BY <1>1, <1>2, OfferedStep, Invariance, PTL DEF Spec
=============================================================================
