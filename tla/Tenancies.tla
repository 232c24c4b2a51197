------------------------------ MODULE Tenancies ------------------------------
(***************************************************************************)
(* Who holds a space: the tenancies of one space as planners create and    *)
(* delete them (cloud/whaletale_cloud/api/operator/routes.py with          *)
(* validation.py find_tenancy_conflicts), the occupant a bucket is         *)
(* attributed to (attribution.py) and the schedule grid (schedule.py).     *)
(*                                                                         *)
(* Creating is SELECT, stamp, INSERT and COMMIT under READ COMMITTED, so   *)
(* two planners interleave.  Days and times of day are small numbers, an   *)
(* RRULE is the set of weekdays it falls on.                               *)
(***************************************************************************)
EXTENDS Integers, FiniteSets

CONSTANTS
    Planners,
    Offers,             \* the tenancies planners propose
    MaxDay,             \* the last day anybody asks about
    Week,               \* days in a week
    Noons,              \* the times of day of a bucket
    Horizon,            \* horizon_days
    Closures,           \* days annotated as closed
    MaxStamp,           \* bounds the number of saves
    None

Days == 0 .. MaxDay

Tenancy == [kind : {"permanent", "recurring", "one_off"},
            starts : Days, ends : Days \cup {None},
            rule : SUBSET (0 .. Week - 1),
            window : (Nat \X Nat) \cup {None}]

ASSUME TenancyAssumption ==
    /\ Offers \subseteq Tenancy
    /\ \A t \in Offers : t.ends # None => t.starts <= t.ends
    /\ MaxDay \in Nat /\ Week \in Nat \ {0} /\ Horizon \in Nat /\ MaxStamp \in Nat
    /\ Noons \subseteq Nat /\ Closures \subseteq Days /\ None \notin Int

VARIABLES
    stamps,             \* created_at of the last save
    booked,             \* committed rows: a tenancy and its created_at
    planner             \* what each planner's save has got to

vars == <<stamps, booked, planner>>

Idle == [pc |-> "idle"]
\* knew is kept for the properties: the rows the check of the save has seen.
Saving == [pc : {"checked", "stamped"}, tenancy : Tenancy, created : 0 .. MaxStamp,
           knew : SUBSET (1 .. MaxStamp)]
Row == [tenancy : Tenancy, created : 0 .. MaxStamp, knew : SUBSET (1 .. MaxStamp)]

ASSUME NoneIsNoRow == None \notin Row

-----------------------------------------------------------------------------
(* The rules of time. *)

Upto(a, b) == {d \in Days : a <= d /\ d <= b}
FallsOn(t, d) == d >= t.starts /\ d % Week \in t.rule

\* Mutant: the last day is left out.
ActiveDatesOpenEnd(t, first, last) ==
    {d \in Upto(first, last) :
        /\ t.starts <= d /\ (t.ends = None \/ d < t.ends)
        /\ \/ t.kind = "permanent"
           \/ t.kind = "one_off" /\ d = t.starts
           \/ t.kind = "recurring" /\ FallsOn(t, d)}

\* active_dates: whole days, whatever the daily window.
ActiveDates(t, first, last) ==
    {d \in Upto(first, last) :
        /\ t.starts <= d /\ (t.ends = None \/ d <= t.ends)
        /\ \/ t.kind = "permanent"
           \/ t.kind = "one_off" /\ d = t.starts
           \/ t.kind = "recurring" /\ FallsOn(t, d)}

\* _tenancy_active: only a recurring tenancy keeps its daily window.
Active(t, d, clock) ==
    /\ t.starts <= d /\ (t.ends = None \/ d <= t.ends)
    /\ CASE t.kind = "permanent" -> TRUE
         [] t.kind = "one_off" -> d = t.starts
         [] t.kind = "recurring" ->
                FallsOn(t, d) /\ (t.window # None => t.window[1] <= clock /\ clock < t.window[2])

WindowsDisjoint(t, u) ==
    /\ t.window # None /\ u.window # None
    /\ t.window[2] <= u.window[1] \/ u.window[2] <= t.window[1]

\* Mutant: tenancies whose days begin together do not conflict.
ConflictsOff(t) ==
    LET last == IF t.ends = None THEN t.starts + Horizon ELSE t.ends
    IN  {r \in booked : /\ (ActiveDates(r.tenancy, t.starts, last) \ {t.starts})
                             \cap ActiveDates(t, t.starts, last) # {}
                        /\ ~ WindowsDisjoint(t, r.tenancy)}

\* find_tenancy_conflicts.
Conflicts(t) ==
    LET last == IF t.ends = None THEN t.starts + Horizon ELSE t.ends
    IN  {r \in booked : /\ ActiveDates(r.tenancy, t.starts, last)
                             \cap ActiveDates(t, t.starts, last) # {}
                        /\ ~ WindowsDisjoint(t, r.tenancy)}

-----------------------------------------------------------------------------
Init ==
    /\ stamps = 0 /\ booked = {}
    /\ planner = [p \in Planners |-> Idle]

\* The conflicts are read; if there are any the planner gets a 409.
Check(p, t) ==
    /\ planner[p].pc = "idle"
    /\ Conflicts(t) = {}
    /\ planner' = [planner EXCEPT ![p] = [pc |-> "checked", tenancy |-> t, created |-> 0,
                                             knew |-> {r.created : r \in booked}]]
    /\ UNCHANGED <<stamps, booked>>

\* Mutant: every row gets the same created_at.
StampAlike(p) ==
    /\ planner[p].pc = "checked"
    /\ stamps < MaxStamp
    /\ stamps' = stamps + 1
    /\ planner' = [planner EXCEPT ![p].pc = "stamped", ![p].created = 1]
    /\ UNCHANGED booked

Stamp(p) ==
    /\ planner[p].pc = "checked"
    /\ stamps < MaxStamp
    /\ stamps' = stamps + 1
    /\ planner' = [planner EXCEPT ![p].pc = "stamped", ![p].created = stamps']
    /\ UNCHANGED booked

RowOf(saving) == [tenancy |-> saving.tenancy, created |-> saving.created, knew |-> saving.knew]

Commit(p) ==
    /\ planner[p].pc = "stamped"
    /\ booked' = booked \cup {RowOf(planner[p])}
    /\ planner' = [planner EXCEPT ![p] = Idle]
    /\ UNCHANGED stamps

\* The connection is lost and the transaction rolled back.
Abandon(p) ==
    /\ planner[p].pc # "idle"
    /\ planner' = [planner EXCEPT ![p] = Idle]
    /\ UNCHANGED <<stamps, booked>>

\* delete_tenancy, of any tenancy, past ones too.
Delete(r) ==
    /\ booked' = booked \ {r}
    /\ UNCHANGED <<stamps, planner>>

Next ==
    \/ \E p \in Planners : \/ \E t \in Offers : Check(p, t)
                           \/ Stamp(p) \/ Commit(p) \/ Abandon(p)
    \/ \E r \in booked : Delete(r)

Spec == Init /\ [][Next]_vars
-----------------------------------------------------------------------------
(* What is read back. *)

Holding(d, clock) == {r \in booked : Active(r.tenancy, d, clock)}

\* Mutant: the rows are read in no order.
EarliestOfAny(rows) == CHOOSE r \in rows : TRUE

Earliest(rows) == CHOOSE r \in rows : \A q \in rows : r.created <= q.created

\* _occupant_at: nobody on a closed day, else the earliest created.
OccupantAt(d, clock) ==
    IF d \in Closures \/ Holding(d, clock) = {} THEN None ELSE Earliest(Holding(d, clock))

\* A cell of resolve_schedule.
GridCell(d) ==
    LET rows == {r \in booked : d \in ActiveDates(r.tenancy, d, d)}
    IN  IF d \in Closures \/ rows = {} THEN None ELSE Earliest(rows)

TypeOK ==
    /\ stamps \in 0 .. MaxStamp
    /\ booked \subseteq Row
    /\ planner \in [Planners -> {Idle} \cup Saving]
    /\ \A r, q \in booked : r.created = q.created => r = q

\* What the check of t does not compare although the days of the two meet: days beyond
\* its horizon, and the days of two disjoint windows that one of them does not keep to.
Uncompared(t, u, d) ==
    \/ t.ends = None /\ d > t.starts + Horizon
    \/ WindowsDisjoint(t, u) /\ ~ (t.kind = "recurring" /\ u.kind = "recurring")

\* docs/edge-cases.md:44, "Overlapping tenancies on one space, reject on save": where
\* two rows hold the space together, neither was there when the other was checked, or
\* the one that was checked later is one whose check could not tell
\* (validation.py:99-146, attribution.py:213-246).
NoDoubleBooking ==
    \A d \in Days, clock \in Noons : \A r, q \in Holding(d, clock) :
        r.created \in q.knew => Uncompared(q.tenancy, r.tenancy, d)

\* A bucket that has been attributed goes from its occupant, whose row stays, to nobody
\* whose save was checked when that row was there: however tenancies overlap, only a
\* save that raced the occupant's own takes it back (attribution.py:87-91, 222-227,
\* routes.py:354-378).
BookedSlotKept ==
    [][\A d \in Days, clock \in Noons :
          LET before == OccupantAt(d, clock)
              after == OccupantAt(d, clock)'
          IN  before # None /\ before \in booked' /\ after # before
                  => after # None /\ before.created \notin after.knew]_vars

\* The line of the document as it stands.
NobodyTwice ==
    \A d \in Days, clock \in Noons : Cardinality(Holding(d, clock)) <= 1

\* schedule.py:4, "Reuses the same tenancy rules as attribution": who has the day in
\* the grid has a bucket of it, and nobody has a bucket of a day that is free in it
\* (schedule.py:57-70, attribution.py:213-246).
GridAgrees ==
    \A d \in Days :
        /\ GridCell(d) # None => \E clock \in Noons : OccupantAt(d, clock) = GridCell(d)
        /\ GridCell(d) = None => \A clock \in Noons : OccupantAt(d, clock) = None
=============================================================================
