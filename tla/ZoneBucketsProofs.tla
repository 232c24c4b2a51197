-------------------------- MODULE ZoneBucketsProofs --------------------------
(***************************************************************************)
(* Theorems about ZoneBuckets, for any finite set of track ids, any places *)
(* and any dwell, grace window and bucket width.                           *)
(*                                                                         *)
(* The inductive invariant is TypeOK with two facts: Ids, where an id can  *)
(* be (the tracker's promise never to reuse one is what keeps a fresh id   *)
(* from meeting its own parked state), and Clock, how the counter's clock, *)
(* the frame's and the bucket in progress lie.                             *)
(***************************************************************************)
EXTENDS ZoneBuckets, FiniteSetTheorems, TLAPS

Ids ==
    /\ live \cup parked \cup lost \cup DOMAIN frame \subseteq used
    /\ live \cap parked = {}
    /\ (parked \cup lost) \cap DOMAIN frame = {}
    /\ todo \subseteq DOMAIN frame
    /\ phase # "closed" => DOMAIN frame \ todo \subseteq live

Clock ==
    phase # "closed" =>
        /\ lastT # None => lastT <= now
        /\ bstart # None => bstart <= now
        /\ bstart = None => lastT = None /\ stats.occupied = 0
        /\ phase \in {"rolling", "counting"} => bstart # None

\* Every set of track ids is finite and has a size.
LEMMA Sizes == \A S \in SUBSET Tracks : IsFiniteSet(S) /\ Cardinality(S) \in Nat
  BY FS_Subset, FS_CardinalityType, CounterAssumption DEF CounterAssumption

\* One field of the statistics at a time can be raised.
LEMMA StatsFields ==
  ASSUME NEW st \in ZoneStats, NEW n \in Nat
  PROVE  /\ [st EXCEPT !.entries = @ + n] \in ZoneStats
         /\ [st EXCEPT !.exits = @ + n] \in ZoneStats
         /\ [st EXCEPT !.dwells = @ + n] \in ZoneStats
         /\ [st EXCEPT !.passersby = @ + n] \in ZoneStats
         /\ [st EXCEPT !.merged = @ + n] \in ZoneStats
         /\ [st EXCEPT !.occupied = @ + n] \in ZoneStats
         /\ [st EXCEPT !.persons = @ + n] \in ZoneStats
         /\ [st EXCEPT !.peak = n] \in ZoneStats
  BY DEF ZoneStats

\* accrue_to only touches the two time metrics, and not downwards.
LEMMA AccruedStats ==
  ASSUME TypeOK, NEW t \in Int
  PROVE  /\ Accrued(t) \in ZoneStats
         /\ Accrued(t).entries = stats.entries
         /\ Accrued(t).dwells = stats.dwells
         /\ Accrued(t).passersby = stats.passersby
<1> DEFINE dt == IF lastT = None THEN 0 ELSE t - lastT
<1>1. dt \in Int
  BY CounterAssumption DEF TypeOK, CounterAssumption
<1>2. CASE dt > 0 /\ insideCount > 0
  <2>1. dt * insideCount \in Nat
    BY <1>1, <1>2 DEF TypeOK
  <2>2. Accrued(t) = [stats EXCEPT !.occupied = @ + dt, !.persons = @ + dt * insideCount]
    BY <1>2 DEF Accrued
  <2>3. dt \in Nat
    BY <1>1, <1>2
  <2>4. stats \in ZoneStats
    BY DEF TypeOK
  <2> HIDE DEF dt
  <2>5. \A n \in Nat : [stats EXCEPT !.occupied = @ + dt, !.persons = @ + n] \in ZoneStats
    <3>1. [stats EXCEPT !.occupied = @ + dt] \in ZoneStats
      BY <2>3, <2>4, StatsFields
    <3>2. \A st \in ZoneStats, n \in Nat : [st EXCEPT !.persons = @ + n] \in ZoneStats
      BY StatsFields
    <3> QED  BY <3>1, <3>2
  <2>6. /\ Accrued(t).entries = stats.entries
        /\ Accrued(t).dwells = stats.dwells
        /\ Accrued(t).passersby = stats.passersby
    BY <2>2, <2>4 DEF ZoneStats
  <2> QED  BY <2>1, <2>2, <2>5, <2>6
<1>3. CASE ~(dt > 0 /\ insideCount > 0)
  <2>1. Accrued(t) = stats
    BY <1>3 DEF Accrued
  <2> QED  BY <2>1 DEF TypeOK, ZoneStats
<1> QED  BY <1>2, <1>3

\* _classify_on_remove adds the dwells and the passers-by of the set.
LEMMA ClassifiedStats ==
  ASSUME TypeOK, NEW st \in ZoneStats, NEW S \in SUBSET Tracks
  PROVE  /\ Classified(st, S) \in ZoneStats
         /\ Classified(st, S).entries = st.entries
         /\ Classified(st, S).occupied = st.occupied
         /\ Classified(st, S).persons = st.persons
         /\ Classified(st, S).dwells = st.dwells + Cardinality(Inside(S))
         /\ Classified(st, S).passersby = st.passersby + Cardinality(PassedBy(S))
<1>1. Cardinality(Inside(S)) \in Nat /\ Cardinality(PassedBy(S)) \in Nat
  BY Sizes DEF Inside, PassedBy
<1>2. Classified(st, S) \in ZoneStats
  <2>1. [st EXCEPT !.dwells = @ + Cardinality(Inside(S))] \in ZoneStats
    BY <1>1, StatsFields
  <2>2. \A c \in ZoneStats : [c EXCEPT !.passersby = @ + Cardinality(PassedBy(S))] \in ZoneStats
    BY <1>1, StatsFields
  <2> QED  BY <2>1, <2>2 DEF Classified
<1>3. /\ Classified(st, S).entries = st.entries
      /\ Classified(st, S).occupied = st.occupied
      /\ Classified(st, S).persons = st.persons
      /\ Classified(st, S).dwells = st.dwells + Cardinality(Inside(S))
      /\ Classified(st, S).passersby = st.passersby + Cardinality(PassedBy(S))
  BY DEF Classified, ZoneStats
<1> QED  BY <1>2, <1>3

\* _advance keeps a track state and the stats what they are.
LEMMA AdvanceTypes ==
  ASSUME NEW s \in TrackState, NEW st \in ZoneStats, NEW p \in Places, NEW t \in Int
  PROVE  /\ Moved(s, p, t) \in TrackState
         /\ Counted(st, s, p, t) \in ZoneStats
         /\ Counted(st, s, p, t).occupied = st.occupied
         /\ Counted(st, s, p, t).persons = st.persons
         /\ Counted(st, s, p, t).passersby = st.passersby
         /\ Counted(st, s, p, t).entries = st.entries + One(IsCounted(s, p, t))
         /\ Counted(st, s, p, t).dwells = st.dwells + One(Leaves(s, p))
<1>1. Observed(s, p) \in TrackState
  BY DEF Observed, TrackState
<1>2. Moved(s, p, t) \in TrackState
  <2> DEFINE o == Observed(s, p)
  <2>1. [o EXCEPT !.state = "pending", !.since = t] \in TrackState
    BY <1>1 DEF TrackState
  <2>2. [o EXCEPT !.state = "inside"] \in TrackState /\ [o EXCEPT !.state = "outside"] \in TrackState
    BY <1>1 DEF TrackState
  <2> HIDE DEF o
  <2> QED  BY <1>1, <2>1, <2>2 DEF Moved, o
<1>3. \A b \in BOOLEAN : One(b) \in Nat
  BY DEF One
<1>4. IsCounted(s, p, t) \in BOOLEAN /\ Leaves(s, p) \in BOOLEAN
  BY DEF IsCounted, Leaves
<1>5. Counted(st, s, p, t) \in ZoneStats
  <2>1. [st EXCEPT !.entries = @ + One(IsCounted(s, p, t))] \in ZoneStats
    BY <1>3, <1>4, StatsFields
  <2>2. \A c \in ZoneStats : [c EXCEPT !.exits = @ + One(Leaves(s, p))] \in ZoneStats
    BY <1>3, <1>4, StatsFields
  <2>3. \A c \in ZoneStats : [c EXCEPT !.dwells = @ + One(Leaves(s, p))] \in ZoneStats
    BY <1>3, <1>4, StatsFields
  <2> QED  BY <2>1, <2>2, <2>3 DEF Counted
<1>6. /\ Counted(st, s, p, t).occupied = st.occupied
      /\ Counted(st, s, p, t).persons = st.persons
      /\ Counted(st, s, p, t).passersby = st.passersby
      /\ Counted(st, s, p, t).entries = st.entries + One(IsCounted(s, p, t))
      /\ Counted(st, s, p, t).dwells = st.dwells + One(Leaves(s, p))
  BY DEF Counted, ZoneStats
<1> QED  BY <1>2, <1>5, <1>6

LEMMA NewTypes == NewTrack \in TrackState /\ NoStats \in ZoneStats
  BY DEF NewTrack, TrackState, NoStats, ZoneStats
-----------------------------------------------------------------------------
IInv == TypeOK /\ Ids /\ Clock

LEMMA InitInv == Init => IInv
<1> SUFFICES ASSUME Init PROVE IInv
  OBVIOUS
<1>1. TypeOK
  <2>1. ts \in [Tracks -> TrackState] /\ stats \in ZoneStats
    BY NewTypes DEF Init, CounterInit
  <2>2. DOMAIN frame = {}
    BY DEF Init
  <2> QED  BY <2>1, <2>2 DEF Init, CounterInit, TypeOK
<1>2. DOMAIN frame = {} /\ Ids
  BY DEF Init, CounterInit, Ids
<1>3. Clock
  BY DEF Init, CounterInit, Clock, NoStats
<1> QED  BY <1>1, <1>2, <1>3 DEF IInv

\* What the alternatives of Advance have in common.
LEMMA AdvanceShape ==
  ASSUME IInv, NEW i \in todo, Advance(i)
  PROVE  \E s \in TrackState, st \in ZoneStats :
            /\ ts'[i] = Moved(s, frame[i], now)
            /\ stats' = Counted(st, s, frame[i], now)
            /\ ts' \in [Tracks -> TrackState]
            /\ frame[i] \in Places
            /\ live' = live \cup {i}
            /\ st.occupied = stats.occupied /\ st.persons = stats.persons
            /\ st.entries = stats.entries /\ st.dwells = stats.dwells
            /\ st.passersby = stats.passersby
<1>1. i \in Tracks /\ frame[i] \in Places /\ now \in Int
  BY DEF IInv, TypeOK, Ids
<1>2. ts \in [Tracks -> TrackState] /\ stats \in ZoneStats
  BY DEF IInv, TypeOK
<1>3. CASE AdvanceKnown(i, frame[i], now)
  <2>1. /\ ts' = [ts EXCEPT ![i] = Moved(ts[i], frame[i], now)]
        /\ stats' = Counted(stats, ts[i], frame[i], now)
        /\ live' = live \cup {i}
    BY <1>3 DEF AdvanceKnown
  <2> QED  BY <1>1, <1>2, <2>1, AdvanceTypes
<1>4. CASE AdvanceFresh(i, frame[i], now)
  <2>1. /\ ts' = [ts EXCEPT ![i] = Moved(NewTrack, frame[i], now)]
        /\ stats' = Counted(stats, NewTrack, frame[i], now)
        /\ live' = live \cup {i}
    BY <1>4 DEF AdvanceFresh
  <2> QED  BY <1>1, <1>2, <2>1, AdvanceTypes, NewTypes
<1>5. CASE \E j \in parked : AdvanceClaiming(i, j, frame[i], now)
  <2>1. PICK j \in parked : AdvanceClaiming(i, j, frame[i], now)
    BY <1>5
  <2> DEFINE st == [stats EXCEPT !.merged = @ + One(ts[j].state # "outside")]
  <2>2. j \in Tracks /\ j # i
    BY <2>1 DEF IInv, TypeOK, Ids
  <2>3. st \in ZoneStats
    BY <1>2, StatsFields DEF One
  <2>4. /\ st.occupied = stats.occupied /\ st.persons = stats.persons
        /\ st.entries = stats.entries /\ st.dwells = stats.dwells
        /\ st.passersby = stats.passersby
    BY <1>2 DEF ZoneStats
  <2>5. /\ ts' = [ts EXCEPT ![i] = Moved(ts[j], frame[i], now), ![j] = NewTrack]
        /\ stats' = Counted(st, ts[j], frame[i], now)
        /\ live' = live \cup {i}
    BY <2>1 DEF AdvanceClaiming
  <2>6. Moved(ts[j], frame[i], now) \in TrackState /\ NewTrack \in TrackState
    BY <1>1, <1>2, <2>2, <2>3, AdvanceTypes, NewTypes
  <2> HIDE DEF st
  <2> QED  BY <1>1, <1>2, <2>2, <2>3, <2>4, <2>5, <2>6
<1> QED  BY <1>3, <1>4, <1>5 DEF Advance

LEMMA ForgottenTypes ==
  ASSUME TypeOK, NEW S, Forgotten(S)
  PROVE  ts' \in [Tracks -> TrackState] /\ droppedAt' \in [Tracks -> Int]
  BY NewTypes DEF Forgotten, TypeOK

\* What EndTrack does to each part of the counter.
LEMMA EndTrackTypes ==
  ASSUME IInv, NEW i \in Tracks, EndTrack(i, now)
  PROVE  /\ live' = live \ {i} /\ parked' \in SUBSET (parked \cup ({i} \cap live))
         /\ ts' \in [Tracks -> TrackState] /\ droppedAt' \in [Tracks -> Int]
         /\ stats' \in ZoneStats
         /\ stats'.occupied = stats.occupied /\ stats'.persons = stats.persons
         /\ lastT' = lastT /\ insideCount' = insideCount
<1>1. TypeOK /\ now \in Int /\ {i} \cap live \in SUBSET Tracks /\ stats \in ZoneStats
  BY DEF IInv, TypeOK
<1>2. CASE i \in live /\ ReentryEnabled
  BY <1>1, <1>2 DEF EndTrack, TypeOK
<1>3. CASE ~(i \in live /\ ReentryEnabled)
  <2>1. /\ live' = live \ {i} /\ parked' = parked
        /\ stats' = Classified(stats, {i} \cap live) /\ Forgotten({i} \cap live)
        /\ lastT' = lastT /\ insideCount' = insideCount
    BY <1>3 DEF EndTrack
  <2> QED  BY <1>1, <2>1, ClassifiedStats, ForgottenTypes
<1> QED  BY <1>2, <1>3

LEMMA TypeStep == IInv /\ [Next]_vars => TypeOK'
<1> SUFFICES ASSUME IInv, [Next]_vars PROVE TypeOK'
  OBVIOUS
<1>0. TypeOK
  BY DEF IInv
<1>1. CASE NextFrame
  <2>1. PICK t \in 0 .. MaxT, n \in 0 .. Cardinality(Tracks) :
            \E kept \in SUBSET DOMAIN frame, ids \in FreshIds(n) :
                \E gps \in [kept \cup ids -> Places] : Frame(t, kept \cup ids, gps)
    BY <1>1 DEF NextFrame
  <2>2. PICK kept \in SUBSET DOMAIN frame, ids \in FreshIds(n) :
            \E gps \in [kept \cup ids -> Places] : Frame(t, kept \cup ids, gps)
    BY <2>1
  <2>3. PICK gps \in [kept \cup ids -> Places] : Frame(t, kept \cup ids, gps)
    BY <2>2
  <2>4. kept \cup ids \in SUBSET Tracks /\ t \in Int
    BY <1>0 DEF TypeOK, FreshIds
  <2> QED  BY <1>0, <2>3, <2>4 DEF Frame, counterVars, TypeOK
<1>2. ASSUME NEW i \in lost, EndLost(i) PROVE TypeOK'
  <2>1. i \in Tracks
    BY <1>0 DEF TypeOK
  <2>2. CASE bstart # None
    <3>1. EndTrack(i, now)
      BY <1>2, <2>2 DEF EndLost
    <3> QED  BY <1>0, <1>2, <2>1, <3>1, EndTrackTypes DEF EndLost, frameVars, TypeOK
  <2>3. CASE bstart = None
    BY <1>0, <1>2, <2>3 DEF EndLost, counterVars, frameVars, TypeOK
  <2> QED  BY <2>2, <2>3
<1>3. CASE BeginUpdate
  <2>1. Aligned(now) \in Int
    BY <1>0, BucketsAssumption DEF BucketsAssumption, Aligned, TypeOK
  <2> QED  BY <1>0, <1>3, <2>1 DEF BeginUpdate, counterVars, frameVars, TypeOK
<1>4. CASE Roll
  <2>1. bstart \in Int /\ bstart + Width \in Int
    BY <1>0, <1>4, BucketsAssumption DEF Roll, IInv, Clock, TypeOK, BucketsAssumption
  <2> DEFINE st == Accrued(bstart + Width)
  <2>2. st \in ZoneStats
    BY <1>0, <2>1, AccruedStats
  <2> HIDE DEF st
  <2>3. Hand(st) /\ sealed \in [entries : Nat, dwells : Nat, passersby : Nat]
    BY <1>0, <1>4 DEF Roll, TypeOK, st
  <2>4. sealed' \in [entries : Nat, dwells : Nat, passersby : Nat]
    BY <2>2, <2>3 DEF Hand, ZoneStats
  <2>5. stats' \in ZoneStats
    BY <2>3, NewTypes DEF Hand
  <2> QED  BY <1>0, <1>4, <2>1, <2>4, <2>5 DEF Roll, frameVars, TypeOK
<1>5. CASE BeginCount
  <2>1. stats' \in ZoneStats
    BY <1>0, <1>5, AccruedStats DEF BeginCount, TypeOK
  <2> QED  BY <1>0, <1>5, <2>1 DEF BeginCount, frameVars, TypeOK
<1>6. ASSUME NEW i \in todo, Advance(i) PROVE TypeOK'
  <2>1. ts' \in [Tracks -> TrackState] /\ stats' \in ZoneStats
    <3>1. PICK s \in TrackState, st \in ZoneStats :
              /\ stats' = Counted(st, s, frame[i], now)
              /\ ts' \in [Tracks -> TrackState]
              /\ frame[i] \in Places
      BY <1>6, AdvanceShape
    <3> QED  BY <1>0, <3>1, AdvanceTypes DEF TypeOK
  <2>2. /\ live' \in SUBSET Tracks /\ parked' \in SUBSET Tracks
        /\ droppedAt' \in [Tracks -> Int]
    <3>1. CASE AdvanceKnown(i, frame[i], now)
      BY <1>0, <3>1 DEF AdvanceKnown, TypeOK
    <3>2. CASE AdvanceFresh(i, frame[i], now)
      BY <1>0, <3>2 DEF AdvanceFresh, TypeOK
    <3>3. CASE \E j \in parked : AdvanceClaiming(i, j, frame[i], now)
      BY <1>0, <3>3 DEF AdvanceClaiming, TypeOK
    <3> QED  BY <1>6, <3>1, <3>2, <3>3 DEF Advance
  <2> QED  BY <1>0, <1>6, <2>1, <2>2 DEF Advance, frameVars, TypeOK
<1>7. CASE EndFrame
  <2>1. EndUpdate(now) /\ now \in Int /\ stats \in ZoneStats /\ Stale(now) \in SUBSET Tracks
    BY <1>0, <1>7 DEF EndFrame, TypeOK, Stale
  <2>2. ts' \in [Tracks -> TrackState] /\ droppedAt' \in [Tracks -> Int]
    BY <1>0, <2>1, ForgottenTypes DEF EndUpdate
  <2>3. Cardinality(Inside(live)) \in Nat
    BY <1>0, Sizes DEF TypeOK, Inside
  <2>4. stats' \in ZoneStats
    <3> DEFINE c == Classified(stats, Stale(now))
    <3>1. c \in ZoneStats
      BY <1>0, <2>1, ClassifiedStats
    <3> HIDE DEF c
    <3>2. stats' = [c EXCEPT !.peak = IF @ < Cardinality(Inside(live))
                                      THEN Cardinality(Inside(live)) ELSE @]
      BY <2>1 DEF EndUpdate, c
    <3>3. c.peak \in Nat
      BY <3>1 DEF ZoneStats
    <3> QED  BY <2>3, <3>1, <3>2, <3>3, StatsFields
  <2> QED  BY <1>0, <1>7, <2>1, <2>2, <2>3, <2>4 DEF EndFrame, EndUpdate, frameVars, TypeOK
<1>8. ASSUME NEW t \in 0 .. MaxT, Close(t) PROVE TypeOK'
  <2> DEFINE end == IF t < bstart THEN bstart ELSE t
  <2>1. end \in Int
    BY <1>0, <1>8 DEF Close, TypeOK
  <2> HIDE DEF end
  <2>2. Hand(FinalStats(end)) /\ lastT' = end
    BY <1>8 DEF Close, end
  <2>3. FinalStats(end) \in ZoneStats
    BY <1>0, <2>1, AccruedStats, ClassifiedStats DEF FinalStats, TypeOK
  <2>4. sealed' \in [entries : Nat, dwells : Nat, passersby : Nat]
    BY <1>0, <2>2, <2>3 DEF Hand, ZoneStats, TypeOK
  <2>5. stats' \in ZoneStats /\ ts' \in [Tracks -> TrackState] /\ droppedAt' \in [Tracks -> Int]
    BY <1>0, <1>8, <2>2, NewTypes, ForgottenTypes DEF Hand, Close
  <2> QED  BY <1>0, <1>8, <2>1, <2>2, <2>4, <2>5 DEF Close, frameVars, TypeOK
<1>9. CASE UNCHANGED vars
  BY <1>0, <1>9 DEF vars, counterVars, frameVars, TypeOK
<1> QED  BY <1>1, <1>2, <1>3, <1>4, <1>5, <1>6, <1>7, <1>8, <1>9 DEF Next

LEMMA IdsStep == IInv /\ [Next]_vars => Ids'
<1> SUFFICES ASSUME IInv, [Next]_vars PROVE Ids'
  OBVIOUS
<1>0. Ids /\ TypeOK
  BY DEF IInv
<1>1. CASE NextFrame
  <2>1. PICK t \in 0 .. MaxT, n \in 0 .. Cardinality(Tracks) :
            \E kept \in SUBSET DOMAIN frame, ids \in FreshIds(n) :
                \E gps \in [kept \cup ids -> Places] : Frame(t, kept \cup ids, gps)
    BY <1>1 DEF NextFrame
  <2>2. PICK kept \in SUBSET DOMAIN frame, ids \in FreshIds(n) :
            \E gps \in [kept \cup ids -> Places] : Frame(t, kept \cup ids, gps)
    BY <2>1
  <2>3. PICK gps \in [kept \cup ids -> Places] : Frame(t, kept \cup ids, gps)
    BY <2>2
  <2>4. ids \in SUBSET (Tracks \ used)
    BY DEF FreshIds
  <2>5. /\ live' = live /\ parked' = parked
        /\ DOMAIN frame' = kept \cup ids /\ todo' = kept \cup ids
        /\ lost' = DOMAIN frame \ (kept \cup ids) /\ used' = used \cup kept \cup ids
    BY <2>3 DEF Frame, counterVars
  <2> QED  BY <1>0, <2>4, <2>5 DEF Ids
<1>2. ASSUME NEW i \in lost, EndLost(i) PROVE Ids'
  <2>1. /\ live' \subseteq live /\ live \ {i} \subseteq live'
        /\ parked' \subseteq parked \cup {i} /\ live' \cap parked' = {}
    <3>1. CASE bstart # None
      <4>1. i \in Tracks /\ EndTrack(i, now)
        BY <1>0, <1>2, <3>1 DEF EndLost, TypeOK
      <4> QED  BY <1>0, <4>1, EndTrackTypes DEF Ids
    <3>2. CASE bstart = None
      BY <1>0, <1>2, <3>2 DEF EndLost, counterVars, Ids
    <3> QED  BY <3>1, <3>2
  <2>2. /\ lost' = lost \ {i} /\ todo' = todo /\ phase' = phase
        /\ frame' = frame /\ used' = used
    BY <1>2 DEF EndLost, frameVars
  <2> QED  BY <1>0, <2>1, <2>2 DEF Ids
<1>3. CASE BeginUpdate
  BY <1>0, <1>3 DEF BeginUpdate, counterVars, frameVars, Ids
<1>4. CASE Roll
  BY <1>0, <1>4 DEF Roll, frameVars, Ids
<1>5. CASE BeginCount
  BY <1>0, <1>5 DEF BeginCount, frameVars, Ids
<1>6. ASSUME NEW i \in todo, Advance(i) PROVE Ids'
  <2>1. live' = live \cup {i} /\ parked' \subseteq parked
    <3>1. CASE AdvanceKnown(i, frame[i], now)
      BY <3>1 DEF AdvanceKnown
    <3>2. CASE AdvanceFresh(i, frame[i], now)
      BY <3>2 DEF AdvanceFresh
    <3>3. CASE \E j \in parked : AdvanceClaiming(i, j, frame[i], now)
      BY <3>3 DEF AdvanceClaiming
    <3> QED  BY <1>6, <3>1, <3>2, <3>3 DEF Advance
  <2>2. /\ todo' = todo \ {i} /\ lost' = lost /\ phase' = phase
        /\ frame' = frame /\ used' = used
    BY <1>6 DEF Advance, frameVars
  <2> QED  BY <1>0, <2>1, <2>2 DEF Ids
<1>7. CASE EndFrame
  BY <1>0, <1>7 DEF EndFrame, EndUpdate, frameVars, Ids
<1>8. ASSUME NEW t \in 0 .. MaxT, Close(t) PROVE Ids'
  BY <1>0, <1>8 DEF Close, frameVars, Ids
<1>9. CASE UNCHANGED vars
  BY <1>0, <1>9 DEF vars, counterVars, frameVars, Ids
<1> QED  BY <1>1, <1>2, <1>3, <1>4, <1>5, <1>6, <1>7, <1>8, <1>9 DEF Next

LEMMA ClockStep == IInv /\ [Next]_vars => Clock'
<1> SUFFICES ASSUME IInv, [Next]_vars PROVE Clock'
  OBVIOUS
<1>0. Clock /\ TypeOK /\ now \in Int
  BY DEF IInv, TypeOK
<1>1. CASE NextFrame
  <2>1. PICK t \in 0 .. MaxT : now' = t /\ t > now
    BY <1>1 DEF NextFrame, Frame
  <2>2. /\ phase # "closed" /\ phase' = "ending" /\ bstart' = bstart
        /\ lastT' = lastT /\ stats' = stats
    BY <1>1 DEF NextFrame, Frame, counterVars
  <2> QED  BY <1>0, <2>1, <2>2, CounterAssumption DEF Clock, TypeOK, CounterAssumption
<1>2. ASSUME NEW i \in lost, EndLost(i) PROVE Clock'
  <2>1. lastT' = lastT /\ stats'.occupied = stats.occupied
    <3>1. CASE bstart # None
      <4>1. i \in Tracks /\ EndTrack(i, now)
        BY <1>0, <1>2, <3>1 DEF EndLost, TypeOK
      <4> QED  BY <4>1, EndTrackTypes
    <3>2. CASE bstart = None
      BY <1>2, <3>2 DEF EndLost, counterVars
    <3> QED  BY <3>1, <3>2
  <2> QED  BY <1>0, <1>2, <2>1 DEF EndLost, frameVars, Clock
<1>3. CASE BeginUpdate
  <2>1. Aligned(now) \in Int /\ Aligned(now) <= now
    BY <1>0, BucketsAssumption DEF BucketsAssumption, Aligned
  <2>2. Aligned(now) # None
    BY <2>1, CounterAssumption DEF CounterAssumption
  <2> QED  BY <1>0, <1>3, <2>1, <2>2 DEF BeginUpdate, counterVars, frameVars, Clock
<1>4. CASE Roll
  <2>1. bstart + Width \in Int /\ bstart + Width # None
    BY <1>0, <1>4, BucketsAssumption, CounterAssumption
    DEF Roll, Clock, TypeOK, BucketsAssumption, CounterAssumption
  <2>2. /\ bstart' = bstart + Width /\ lastT' = bstart + Width /\ now' = now
        /\ now >= bstart + Width /\ phase' = phase
    BY <1>4 DEF Roll, frameVars
  <2> QED  BY <1>0, <2>1, <2>2 DEF Clock
<1>5. CASE BeginCount
  BY <1>0, <1>5 DEF BeginCount, frameVars, Clock
<1>6. ASSUME NEW i \in todo, Advance(i) PROVE Clock'
  <2>1. bstart # None
    BY <1>0, <1>6 DEF Advance, Clock
  <2> QED  BY <1>0, <1>6, <2>1 DEF Advance, frameVars, Clock
<1>7. CASE EndFrame
  BY <1>0, <1>7 DEF EndFrame, EndUpdate, frameVars, Clock
<1>8. ASSUME NEW t \in 0 .. MaxT, Close(t) PROVE Clock'
  BY <1>8 DEF Close, Clock
<1>9. CASE UNCHANGED vars
  BY <1>0, <1>9 DEF vars, counterVars, frameVars, Clock
<1> QED  BY <1>1, <1>2, <1>3, <1>4, <1>5, <1>6, <1>7, <1>8, <1>9 DEF Next

THEOREM Invariance == Spec => []IInv
<1>1. IInv /\ [Next]_vars => IInv'
  BY TypeStep, IdsStep, ClockStep DEF IInv
<1> QED  BY <1>1, InitInv, PTL DEF Spec

\* Type correctness of the counter and its buckets, whatever the parameters.
THEOREM TypeCorrect == Spec => []TypeOK
<1>1. IInv => TypeOK
  BY DEF IInv
<1> QED  BY <1>1, Invariance, PTL
-----------------------------------------------------------------------------
\* No parked visit outlives its grace window (counter.py:183-193).
THEOREM GraceWindowCloses == Spec => []GraceEnds
<1>1. Init => GraceEnds
  BY DEF Init, CounterInit, GraceEnds
<1>2. IInv /\ GraceEnds /\ [Next]_vars => GraceEnds'
  <2> SUFFICES ASSUME IInv, GraceEnds, [Next]_vars PROVE GraceEnds'
    OBVIOUS
  <2>1. CASE EndFrame
    <3>1. /\ parked' = parked \ Stale(now) /\ now' = now
          /\ droppedAt' = [i \in Tracks |-> IF i \in Stale(now) THEN 0 ELSE droppedAt[i]]
      BY <2>1 DEF EndFrame, EndUpdate, Forgotten, frameVars
    <3>2. \A i \in parked \ Stale(now) : ~(now - droppedAt[i] > ReentrySeconds)
      BY DEF Stale
    <3>3. \A i \in parked : i \in Tracks /\ droppedAt[i] \in Int /\ now \in Int
      BY DEF IInv, TypeOK
    <3> QED  BY <3>1, <3>2, <3>3, CounterAssumption DEF GraceEnds, CounterAssumption
  <2>2. CASE UNCHANGED vars
    BY <2>2 DEF vars, counterVars, frameVars, GraceEnds
  <2>3. CASE NextFrame \/ (\E i \in lost : EndLost(i)) \/ BeginUpdate \/ Roll \/ BeginCount
                \/ (\E i \in todo : Advance(i)) \/ (\E t \in 0 .. MaxT : Close(t))
    <3>1. phase' # "idle"
      BY <2>3 DEF NextFrame, Frame, EndLost, BeginUpdate, Roll, BeginCount, Advance, Close
    <3> QED  BY <3>1 DEF GraceEnds
  <2> QED  BY <2>1, <2>2, <2>3 DEF Next
<1> QED  BY <1>1, <1>2, Invariance, PTL DEF Spec

\* A whole interval credited once per person is at least the interval.
LEMMA Times == \A d \in Nat, n \in Nat : n > 0 => d <= d * n
  OBVIOUS

\* accrue_to(t) adds at most the time since the last one.
LEMMA AccruedTime ==
  ASSUME TypeOK, OccupiedFits, Clock, NEW t \in Int, bstart \in Int,
         phase # "closed", lastT # None => lastT <= t, lastT = None => bstart <= t
  PROVE  /\ Accrued(t).occupied <= t - bstart
         /\ Accrued(t).occupied <= Accrued(t).persons
<1> DEFINE dt == IF lastT = None THEN 0 ELSE t - lastT
<1>1. dt \in Nat
  BY CounterAssumption DEF TypeOK, CounterAssumption
<1>2. /\ stats.occupied \in Nat /\ stats.persons \in Nat /\ insideCount \in Nat
      /\ stats.occupied <= stats.persons
      /\ stats.occupied <= (IF lastT = None THEN 0 ELSE lastT - bstart)
  BY CounterAssumption DEF TypeOK, ZoneStats, OccupiedFits, CounterAssumption
<1>3. stats.occupied + dt <= t - bstart /\ stats.occupied <= t - bstart
  BY <1>1, <1>2, CounterAssumption DEF TypeOK, CounterAssumption
<1>4. CASE dt > 0 /\ insideCount > 0
  <2>1. Accrued(t) = [stats EXCEPT !.occupied = @ + dt, !.persons = @ + dt * insideCount]
    BY <1>4 DEF Accrued
  <2>2. dt <= dt * insideCount /\ dt * insideCount \in Nat
    BY <1>1, <1>2, <1>4, Times
  <2> HIDE DEF dt
  <2>3. /\ Accrued(t).occupied = stats.occupied + dt
        /\ Accrued(t).persons = stats.persons + dt * insideCount
    BY <2>1 DEF TypeOK, ZoneStats
  <2>4. stats.occupied + dt <= stats.persons + dt * insideCount
    BY <1>1, <1>2, <2>2
  <2> QED  BY <1>3, <2>3, <2>4
<1>5. CASE ~(dt > 0 /\ insideCount > 0)
  <2>1. Accrued(t) = stats
    BY <1>5 DEF Accrued
  <2> QED  BY <1>2, <1>3, <2>1
<1> QED  BY <1>4, <1>5

\* The bucket in progress never holds more occupied time than has been looked at
\* of it, nor more than person time (aggregate.py:172-181).
THEOREM OccupiedFitsBucket == Spec => []OccupiedFits
<1>1. Init => OccupiedFits
  BY DEF Init, OccupiedFits
<1>2. IInv /\ OccupiedFits /\ [Next]_vars => OccupiedFits'
  <2> SUFFICES ASSUME IInv, OccupiedFits, [Next]_vars PROVE OccupiedFits'
    OBVIOUS
  <2>0. TypeOK /\ Clock /\ Ids /\ now \in Int
    BY DEF IInv, TypeOK
  <2>1. CASE NextFrame
    BY <2>1 DEF NextFrame, Frame, counterVars, OccupiedFits
  <2>2. ASSUME NEW i \in lost, EndLost(i) PROVE OccupiedFits'
    <3>1. CASE bstart # None
      <4>1. i \in Tracks /\ EndTrack(i, now) /\ bstart' = bstart
        BY <2>0, <2>2, <3>1 DEF EndLost, TypeOK
      <4> QED  BY <4>1, EndTrackTypes DEF OccupiedFits
    <3>2. CASE bstart = None
      BY <2>2, <3>2 DEF EndLost, OccupiedFits
    <3> QED  BY <3>1, <3>2
  <2>3. CASE BeginUpdate
    <3>1. CASE bstart = None
      <4>1. lastT = None /\ stats.occupied = 0 /\ stats.persons \in Nat
        BY <2>0, <2>3, <3>1 DEF BeginUpdate, Clock, TypeOK, ZoneStats
      <4> QED  BY <2>3, <4>1 DEF BeginUpdate, counterVars, OccupiedFits
    <3>2. CASE bstart # None
      BY <2>3, <3>2 DEF BeginUpdate, counterVars, OccupiedFits
    <3> QED  BY <3>1, <3>2
  <2>4. CASE Roll
    <3>1. bstart + Width \in Int /\ lastT' = bstart + Width /\ bstart' = bstart + Width
      BY <2>0, <2>4, BucketsAssumption DEF Roll, Clock, TypeOK, BucketsAssumption
    <3>2. stats'.occupied = 0 /\ stats'.persons = 0
      BY <2>4 DEF Roll, Hand, NoStats
    <3> QED  BY <3>1, <3>2 DEF OccupiedFits
  <2>5. CASE BeginCount
    <3>1. /\ phase # "closed" /\ bstart \in Int /\ bstart <= now
          /\ lastT # None => lastT <= now
      BY <2>0, <2>5 DEF BeginCount, Clock, TypeOK
    <3>2. /\ Accrued(now).occupied <= now - bstart
          /\ Accrued(now).occupied <= Accrued(now).persons
      BY <2>0, <3>1, AccruedTime
    <3>3. now # None
      BY <2>0, CounterAssumption DEF CounterAssumption
    <3> QED  BY <2>5, <3>2, <3>3 DEF BeginCount, OccupiedFits
  <2>6. ASSUME NEW i \in todo, Advance(i) PROVE OccupiedFits'
    <3>1. PICK s \in TrackState, st \in ZoneStats :
              /\ stats' = Counted(st, s, frame[i], now)
              /\ frame[i] \in Places
              /\ st.occupied = stats.occupied /\ st.persons = stats.persons
      BY <2>6, AdvanceShape
    <3>2. stats'.occupied = stats.occupied /\ stats'.persons = stats.persons
      BY <2>0, <3>1, AdvanceTypes
    <3>3. lastT' = lastT /\ bstart' = bstart
      BY <2>6 DEF Advance
    <3> QED  BY <3>2, <3>3 DEF OccupiedFits
  <2>7. CASE EndFrame
    <3>1. Stale(now) \in SUBSET Tracks /\ stats \in ZoneStats
      BY <2>0 DEF Stale, TypeOK
    <3> DEFINE c == Classified(stats, Stale(now))
    <3>2. c \in ZoneStats /\ c.occupied = stats.occupied /\ c.persons = stats.persons
      BY <2>0, <3>1, ClassifiedStats
    <3> HIDE DEF c
    <3>3. stats' = [c EXCEPT !.peak = IF @ < Cardinality(Inside(live))
                                      THEN Cardinality(Inside(live)) ELSE @]
      BY <2>7 DEF EndFrame, EndUpdate, c
    <3>4. stats'.occupied = stats.occupied /\ stats'.persons = stats.persons
      BY <3>2, <3>3 DEF ZoneStats
    <3> QED  BY <2>7, <3>4 DEF EndFrame, EndUpdate, OccupiedFits
  <2>8. ASSUME NEW t \in 0 .. MaxT, Close(t) PROVE OccupiedFits'
    BY <2>8 DEF Close, OccupiedFits
  <2>9. CASE UNCHANGED vars
    BY <2>9 DEF vars, counterVars, OccupiedFits
  <2> QED  BY <2>1, <2>2, <2>3, <2>4, <2>5, <2>6, <2>7, <2>8, <2>9 DEF Next
<1> QED  BY <1>1, <1>2, Invariance, PTL DEF Spec
-----------------------------------------------------------------------------
\* Those with a visit open: inside, in view or within the grace window.
Visiting == Inside(live \cup parked)

\* How _advance moves a track between not inside and inside.
LEMMA MovedInside ==
  ASSUME NEW s \in TrackState, NEW p \in Places, NEW t \in Int
  PROVE  One(Moved(s, p, t).state = "inside") + One(Leaves(s, p))
            = One(s.state = "inside") + One(IsCounted(s, p, t))
<1> DEFINE o == Observed(s, p)
<1>1. o \in TrackState /\ o.state = s.state
  BY DEF Observed, TrackState
<1>2. /\ [o EXCEPT !.state = "pending", !.since = t].state = "pending"
      /\ [o EXCEPT !.state = "inside"].state = "inside"
      /\ [o EXCEPT !.state = "outside"].state = "outside"
  BY <1>1 DEF TrackState
<1> HIDE DEF o
<1>3. CASE ComesIn(s, p)
  BY <1>2, <1>3 DEF Moved, ComesIn, IsCounted, Leaves, One, o
<1>4. CASE IsCounted(s, p, t)
  <2>1. s.state = "pending" /\ ~ComesIn(s, p) /\ ~TurnsBack(s, p) /\ ~Leaves(s, p)
    BY <1>4 DEF ComesIn, IsCounted, TurnsBack, Leaves
  <2>2. Moved(s, p, t).state = "inside"
    BY <1>2, <1>4, <2>1 DEF Moved, o
  <2> QED  BY <1>4, <2>1, <2>2 DEF One
<1>5. CASE TurnsBack(s, p) \/ Leaves(s, p)
  BY <1>2, <1>5 DEF Moved, ComesIn, IsCounted, TurnsBack, Leaves, One, o
<1>6. CASE ~ComesIn(s, p) /\ ~IsCounted(s, p, t) /\ ~TurnsBack(s, p) /\ ~Leaves(s, p)
  BY <1>1, <1>6 DEF Moved, One, o
<1> QED  BY <1>3, <1>4, <1>5, <1>6

\* One id more or less.
LEMMA OneMore ==
  ASSUME NEW S \in SUBSET Tracks, NEW i \in Tracks, i \notin S
  PROVE  Cardinality(S \cup {i}) = Cardinality(S) + 1
  BY Sizes, FS_AddElement

\* An observation changes who is visiting by what it counts.
LEMMA AdvanceVisits ==
  ASSUME IInv, NEW i \in todo, Advance(i)
  PROVE  stats'.dwells + Cardinality(Visiting') - stats'.entries
            = stats.dwells + Cardinality(Visiting) - stats.entries
<1>0. /\ TypeOK /\ Ids /\ i \in Tracks /\ frame[i] \in Places /\ now \in Int
      /\ ts \in [Tracks -> TrackState] /\ stats \in ZoneStats
      /\ live \cup parked \in SUBSET Tracks /\ i \notin parked
  BY DEF IInv, TypeOK, Ids
<1>1. \E s \in TrackState, st \in ZoneStats, X \in SUBSET Tracks :
        /\ i \notin X
        /\ stats' = Counted(st, s, frame[i], now)
        /\ st.entries = stats.entries /\ st.dwells = stats.dwells
        /\ Cardinality(Visiting) = Cardinality(X) + One(s.state = "inside")
        /\ Visiting' = IF Moved(s, frame[i], now).state = "inside" THEN X \cup {i} ELSE X
  <2>1. CASE AdvanceKnown(i, frame[i], now)
    <3> DEFINE X == Inside((live \cup parked) \ {i})
    <3>1. /\ ts' = [ts EXCEPT ![i] = Moved(ts[i], frame[i], now)]
          /\ stats' = Counted(stats, ts[i], frame[i], now)
          /\ live' = live /\ parked' = parked /\ i \in live
      BY <2>1 DEF AdvanceKnown
    <3>2. X \in SUBSET Tracks /\ i \notin X
      BY <1>0 DEF Inside
    <3>3. Visiting = IF ts[i].state = "inside" THEN X \cup {i} ELSE X
      BY <1>0, <3>1 DEF Visiting, Inside
    <3>4. Visiting' = IF Moved(ts[i], frame[i], now).state = "inside" THEN X \cup {i} ELSE X
      BY <1>0, <3>1 DEF Visiting, Inside
    <3>5. Cardinality(Visiting) = Cardinality(X) + One(ts[i].state = "inside")
      <4> HIDE DEF X
      <4>1. Cardinality(X) \in Nat /\ Cardinality(X \cup {i}) = Cardinality(X) + 1
        BY <1>0, <3>2, OneMore, Sizes
      <4>2. CASE ts[i].state = "inside"
        BY <3>3, <4>1, <4>2 DEF One
      <4>3. CASE ts[i].state # "inside"
        BY <3>3, <4>1, <4>3 DEF One
      <4> QED  BY <4>2, <4>3
    <3> HIDE DEF X
    <3> QED  BY <1>0, <3>1, <3>2, <3>4, <3>5
  <2>2. CASE AdvanceFresh(i, frame[i], now)
    <3>1. /\ ts' = [ts EXCEPT ![i] = Moved(NewTrack, frame[i], now)]
          /\ stats' = Counted(stats, NewTrack, frame[i], now)
          /\ live' = live \cup {i} /\ parked' = parked /\ i \notin live
      BY <2>2 DEF AdvanceFresh
    <3>2. Visiting \in SUBSET Tracks /\ i \notin Visiting
      BY <1>0, <3>1 DEF Visiting, Inside
    <3>3. Visiting' = IF Moved(NewTrack, frame[i], now).state = "inside"
                      THEN Visiting \cup {i} ELSE Visiting
      BY <1>0, <3>1 DEF Visiting, Inside
    <3>4. One(NewTrack.state = "inside") = 0 /\ Cardinality(Visiting) \in Nat
      BY <3>2, Sizes DEF NewTrack, One
    <3>5. Cardinality(Visiting) = Cardinality(Visiting) + One(NewTrack.state = "inside")
      BY <3>4
    <3> HIDE DEF Visiting
    <3> QED  BY <1>0, <3>1, <3>2, <3>3, <3>5, NewTypes
  <2>3. CASE \E j \in parked : AdvanceClaiming(i, j, frame[i], now)
    <3>1. PICK j \in parked : AdvanceClaiming(i, j, frame[i], now)
      BY <2>3
    <3> DEFINE st == [stats EXCEPT !.merged = @ + One(ts[j].state # "outside")]
               X == Inside((live \cup parked) \ {j})
    <3>2. st \in ZoneStats
      BY <1>0, StatsFields DEF One
    <3>3. st.entries = stats.entries /\ st.dwells = stats.dwells
      BY <1>0 DEF ZoneStats
    <3>4. /\ ts' = [ts EXCEPT ![i] = Moved(ts[j], frame[i], now), ![j] = NewTrack]
          /\ stats' = Counted(st, ts[j], frame[i], now)
          /\ live' = live \cup {i} /\ parked' = parked \ {j} /\ i \notin live
      BY <3>1 DEF AdvanceClaiming
    <3>5. j \in Tracks /\ j # i /\ j \notin live /\ ts[j] \in TrackState
      BY <1>0 DEF Ids
    <3>6. X \in SUBSET Tracks /\ i \notin X /\ j \notin X
      BY <1>0, <3>4 DEF Inside
    <3>7. Visiting = IF ts[j].state = "inside" THEN X \cup {j} ELSE X
      BY <1>0, <3>1 DEF Visiting, Inside
    <3>8. Visiting' = IF Moved(ts[j], frame[i], now).state = "inside" THEN X \cup {i} ELSE X
      BY <1>0, <3>4, <3>5 DEF Visiting, Inside
    <3>9. Cardinality(Visiting) = Cardinality(X) + One(ts[j].state = "inside")
      <4> HIDE DEF X
      <4>1. Cardinality(X) \in Nat /\ Cardinality(X \cup {j}) = Cardinality(X) + 1
        BY <3>5, <3>6, OneMore, Sizes
      <4>2. CASE ts[j].state = "inside"
        BY <3>7, <4>1, <4>2 DEF One
      <4>3. CASE ts[j].state # "inside"
        BY <3>7, <4>1, <4>3 DEF One
      <4> QED  BY <4>2, <4>3
    <3> HIDE DEF X, st
    <3> QED  BY <3>2, <3>3, <3>4, <3>5, <3>6, <3>8, <3>9
  <2> QED  BY <2>1, <2>2, <2>3 DEF Advance
<1>2. PICK s \in TrackState, st \in ZoneStats, X \in SUBSET Tracks :
        /\ i \notin X
        /\ stats' = Counted(st, s, frame[i], now)
        /\ st.entries = stats.entries /\ st.dwells = stats.dwells
        /\ Cardinality(Visiting) = Cardinality(X) + One(s.state = "inside")
        /\ Visiting' = IF Moved(s, frame[i], now).state = "inside" THEN X \cup {i} ELSE X
  BY <1>1
<1> DEFINE mv == Moved(s, frame[i], now)
           in == One(IsCounted(s, frame[i], now))
           out == One(Leaves(s, frame[i]))
<1>3. stats'.entries = stats.entries + in /\ stats'.dwells = stats.dwells + out
  BY <1>0, <1>2, AdvanceTypes
<1>4. Cardinality(Visiting') = Cardinality(X) + One(mv.state = "inside")
  BY <1>0, <1>2, OneMore, Sizes DEF One
<1>5. One(mv.state = "inside") + out = One(s.state = "inside") + in
  BY <1>0, <1>2, MovedInside
<1>6. \A b \in BOOLEAN : One(b) \in Nat
  BY DEF One
<1>7. in \in Nat /\ out \in Nat
  BY <1>6 DEF IsCounted, Leaves
<1>8. One(mv.state = "inside") \in Nat /\ One(s.state = "inside") \in Nat
  BY <1>6
<1>9. stats.entries \in Nat /\ stats.dwells \in Nat /\ Cardinality(X) \in Nat
  BY <1>0, Sizes DEF ZoneStats
<1> HIDE DEF mv, in, out
<1> QED  BY <1>2, <1>3, <1>4, <1>5, <1>7, <1>8, <1>9

\* Taking a set of visits out of the visiting ones.
LEMMA Removal ==
  ASSUME TypeOK, NEW S \in SUBSET (live \cup parked), live \cap parked = {},
         live' \cup parked' = (live \cup parked) \ S, Forgotten(S)
  PROVE  Cardinality(Visiting') + Cardinality(Inside(S)) = Cardinality(Visiting)
<1>1. Visiting \in SUBSET Tracks /\ Inside(S) \in SUBSET Visiting
  BY DEF TypeOK, Visiting, Inside
<1>2. Visiting' = Visiting \ Inside(S)
  BY DEF TypeOK, Visiting, Inside, Forgotten
<1>3. Cardinality(Visiting \ Inside(S)) = Cardinality(Visiting) - Cardinality(Visiting \cap Inside(S))
  BY <1>1, Sizes, FS_Difference
<1>4. Visiting \cap Inside(S) = Inside(S)
  BY <1>1
<1>5. Cardinality(Visiting) \in Nat /\ Cardinality(Inside(S)) \in Nat
  BY <1>1, Sizes
<1> HIDE DEF Visiting
<1> QED  BY <1>2, <1>3, <1>4, <1>5

\* Every entry has left its dwell or is a visit still open: no step of the counter
\* or of its buckets loses a visit or counts one twice (counter.py:132-217).
THEOREM NoVisitLost == Spec => []VisitsConserved
<1> DEFINE Balance == sealed.entries + stats.entries
                         = sealed.dwells + stats.dwells + Cardinality(Visiting)
<1>1. Init => Balance
  <2> SUFFICES ASSUME Init PROVE Balance
    OBVIOUS
  <2>1. Visiting = {}
    BY DEF Init, CounterInit, Visiting, Inside
  <2> QED  BY <2>1, FS_EmptySet DEF Init, CounterInit, NoStats
<1>2. IInv /\ Balance /\ [Next]_vars => Balance'
  <2> SUFFICES ASSUME IInv, Balance, [Next]_vars PROVE Balance'
    OBVIOUS
  <2>0. /\ TypeOK /\ Ids /\ Clock /\ now \in Int /\ stats \in ZoneStats
        /\ live \cap parked = {}
    BY DEF IInv, TypeOK, Ids
  <2>n. /\ sealed.entries \in Nat /\ sealed.dwells \in Nat
        /\ stats.entries \in Nat /\ stats.dwells \in Nat
        /\ Cardinality(Visiting) \in Nat
    <3>1. Visiting \in SUBSET Tracks
      BY <2>0 DEF TypeOK, Visiting, Inside
    <3> QED  BY <2>0, <3>1, Sizes DEF TypeOK, ZoneStats
  <2>1. ASSUME UNCHANGED <<counterVars, sealed>> PROVE Balance'
    BY <2>1 DEF counterVars, Visiting, Inside
  <2>2. ASSUME NEW i \in lost, EndLost(i) PROVE Balance'
    <3>1. CASE bstart # None
      <4>1. i \in Tracks /\ EndTrack(i, now) /\ sealed' = sealed
        BY <2>0, <2>2, <3>1 DEF EndLost, TypeOK
      <4>2. CASE i \in live /\ ReentryEnabled
        <5>1. live' \cup parked' = live \cup parked /\ ts' = ts /\ stats' = stats
          BY <4>1, <4>2 DEF EndTrack
        <5> QED  BY <4>1, <5>1 DEF Visiting, Inside
      <4>3. CASE ~(i \in live /\ ReentryEnabled)
        <5> DEFINE S == {i} \cap live
        <5>1. /\ live' = live \ {i} /\ parked' = parked
              /\ stats' = Classified(stats, S) /\ Forgotten(S)
          BY <4>1, <4>3 DEF EndTrack
        <5>2. /\ S \in SUBSET (live \cup parked) /\ S \in SUBSET Tracks
              /\ live' \cup parked' = (live \cup parked) \ S
          BY <2>0, <4>1, <5>1
        <5> HIDE DEF S
        <5>3. Cardinality(Visiting') + Cardinality(Inside(S)) = Cardinality(Visiting)
          BY <2>0, <5>1, <5>2, Removal
        <5>4. /\ stats'.entries = stats.entries
              /\ stats'.dwells = stats.dwells + Cardinality(Inside(S))
          BY <2>0, <5>1, <5>2, ClassifiedStats
        <5>5. Cardinality(Visiting') \in Nat /\ Cardinality(Inside(S)) \in Nat
          <6>1. Inside(S) \in SUBSET Tracks /\ Visiting' \in SUBSET Tracks
            BY <2>0, <5>1, <5>2 DEF TypeOK, Visiting, Inside
          <6> QED  BY <6>1, Sizes
        <5> HIDE DEF Visiting
        <5> QED  BY <2>n, <4>1, <5>3, <5>4, <5>5
      <4> QED  BY <4>2, <4>3
    <3>2. CASE bstart = None
      BY <2>1, <2>2, <3>2 DEF EndLost
    <3> QED  BY <3>1, <3>2
  <2>3. CASE Roll
    <3>1. bstart + Width \in Int
      BY <2>0, <2>3, BucketsAssumption DEF Roll, Clock, TypeOK, BucketsAssumption
    <3> DEFINE st == Accrued(bstart + Width)
    <3>2. st.entries = stats.entries /\ st.dwells = stats.dwells
      BY <2>0, <3>1, AccruedStats
    <3>3. Hand(st) /\ live' = live /\ parked' = parked /\ ts' = ts
      BY <2>3 DEF Roll
    <3> HIDE DEF st
    <3>4. /\ sealed'.entries = sealed.entries + st.entries
          /\ sealed'.dwells = sealed.dwells + st.dwells
          /\ stats'.entries = 0 /\ stats'.dwells = 0
      BY <3>3 DEF Hand, NoStats
    <3>5. Visiting' = Visiting
      BY <3>3 DEF Visiting, Inside
    <3> HIDE DEF Visiting
    <3> QED  BY <2>n, <3>2, <3>4, <3>5
  <2>4. CASE BeginCount
    <3>1. stats'.entries = stats.entries /\ stats'.dwells = stats.dwells
      BY <2>0, <2>4, AccruedStats DEF BeginCount
    <3>2. Visiting' = Visiting /\ sealed' = sealed
      BY <2>4 DEF BeginCount, Visiting, Inside
    <3> QED  BY <3>1, <3>2
  <2>5. ASSUME NEW i \in todo, Advance(i) PROVE Balance'
    <3>1. sealed' = sealed
      BY <2>5 DEF Advance
    <3>2. stats'.dwells + Cardinality(Visiting') - stats'.entries
            = stats.dwells + Cardinality(Visiting) - stats.entries
      BY <2>5, AdvanceVisits
    <3>3. TypeOK'
      BY <2>5, TypeStep DEF Next
    <3>4. stats'.entries \in Nat /\ stats'.dwells \in Nat /\ Cardinality(Visiting') \in Nat
      <4>1. Visiting' \in SUBSET Tracks
        BY <3>3 DEF TypeOK, Visiting, Inside
      <4> QED  BY <3>3, <4>1, Sizes DEF TypeOK, ZoneStats
    <3> DEFINE v == Cardinality(Visiting)
               v2 == Cardinality(Visiting')
               e2 == stats'.entries
               d2 == stats'.dwells
               se == sealed.entries
               sd == sealed.dwells
    <3>5. /\ se + stats.entries = sd + stats.dwells + v
          /\ d2 + v2 - e2 = stats.dwells + v - stats.entries
      BY <3>2
    <3>6. v \in Nat /\ v2 \in Nat /\ e2 \in Nat /\ d2 \in Nat /\ se \in Nat /\ sd \in Nat
      BY <2>n, <3>4
    <3>7. se + e2 = sd + d2 + v2
      <4> HIDE DEF v, v2, e2, d2, se, sd
      <4> QED  BY <2>n, <3>5, <3>6
    <3> QED  BY <3>1, <3>7
  <2>6. CASE EndFrame
    <3> DEFINE S == Stale(now)
    <3>1. /\ S \in SUBSET (live \cup parked) /\ S \in SUBSET Tracks /\ Forgotten(S)
          /\ live' \cup parked' = (live \cup parked) \ S /\ sealed' = sealed
      BY <2>0, <2>6 DEF EndFrame, EndUpdate, Stale, TypeOK
    <3> DEFINE c == Classified(stats, S)
    <3>2. stats' = [c EXCEPT !.peak = IF @ < Cardinality(Inside(live))
                                      THEN Cardinality(Inside(live)) ELSE @]
      BY <2>6 DEF EndFrame, EndUpdate
    <3> HIDE DEF S
    <3>3. Cardinality(Visiting') + Cardinality(Inside(S)) = Cardinality(Visiting)
      BY <2>0, <3>1, Removal
    <3>4. /\ c \in ZoneStats /\ c.entries = stats.entries
          /\ c.dwells = stats.dwells + Cardinality(Inside(S))
      BY <2>0, <3>1, ClassifiedStats
    <3> HIDE DEF c
    <3>5. /\ stats'.entries = stats.entries
          /\ stats'.dwells = stats.dwells + Cardinality(Inside(S))
      BY <3>2, <3>4 DEF ZoneStats
    <3>6. Cardinality(Visiting') \in Nat /\ Cardinality(Inside(S)) \in Nat
      <4>1. Inside(S) \in SUBSET Tracks /\ Visiting' \in SUBSET Tracks
        BY <2>0, <3>1 DEF TypeOK, Visiting, Inside
      <4> QED  BY <4>1, Sizes
    <3> HIDE DEF Visiting
    <3> QED  BY <2>n, <3>1, <3>3, <3>5, <3>6
  <2>7. ASSUME NEW t \in 0 .. MaxT, Close(t) PROVE Balance'
    <3> DEFINE end == IF t < bstart THEN bstart ELSE t
               a == Accrued(end)
               st == Classified(a, live \cup parked)
    <3>1. end \in Int
      BY <2>0, <2>7 DEF Close, TypeOK
    <3>2. Hand(st) /\ live' = {} /\ parked' = {}
      BY <2>7 DEF Close, FinalStats
    <3> HIDE DEF end
    <3>3. a \in ZoneStats /\ a.entries = stats.entries /\ a.dwells = stats.dwells
      BY <2>0, <3>1, AccruedStats
    <3> HIDE DEF a
    <3>4. live \cup parked \in SUBSET Tracks
      BY <2>0 DEF TypeOK
    <3>5. /\ st.entries = stats.entries
          /\ st.dwells = stats.dwells + Cardinality(Visiting)
      BY <2>0, <3>3, <3>4, ClassifiedStats DEF Visiting
    <3> HIDE DEF st
    <3>6. /\ sealed'.entries = sealed.entries + st.entries
          /\ sealed'.dwells = sealed.dwells + st.dwells
          /\ stats'.entries = 0 /\ stats'.dwells = 0
      BY <3>2 DEF Hand, NoStats
    <3>7. Visiting' = {}
      BY <3>2 DEF Visiting, Inside
    <3>8. Cardinality(Visiting') = 0
      BY <3>7, FS_EmptySet
    <3> HIDE DEF Visiting
    <3> QED  BY <2>n, <3>5, <3>6, <3>8
  <2>8. CASE NextFrame
    BY <2>1, <2>8 DEF NextFrame, Frame
  <2>9. CASE BeginUpdate
    BY <2>1, <2>9 DEF BeginUpdate
  <2>10. CASE UNCHANGED vars
    BY <2>1, <2>10 DEF vars
  <2> QED  BY <2>2, <2>3, <2>4, <2>5, <2>6, <2>7, <2>8, <2>9, <2>10 DEF Next
<1>3. Balance => VisitsConserved
  BY DEF VisitsConserved, Visiting
<1> QED  BY <1>1, <1>2, <1>3, Invariance, PTL DEF Spec
-----------------------------------------------------------------------------
\* Every id that is not decided a passer-by: in view, within the grace window, in
\* the frame, or seen in the polygon.
Open == live \cup parked \cup todo \cup walked

\* Every passer-by has an id of its own, which is none of those.
Heads == sealed.passersby + stats.passersby + Cardinality(Open) <= Cardinality(used)

\* A track seen in the polygon has entered for as long as the counter keeps it, and
\* an id the counter does not know yet was not seen there.
Walked ==
    /\ walked \subseteq used
    /\ \A i \in (live \cup parked) \cap walked : ts[i].entered
    /\ (todo \ live) \cap walked = {}
    /\ phase = "idle" => todo = {}

\* Removing tracks with _classify_on_remove closes at least those it counts.
LEMMA Decided ==
  ASSUME TypeOK, TypeOK', NEW S \in SUBSET (live \cup parked),
         Open' \subseteq Open \ PassedBy(S)
  PROVE  Cardinality(Open') + Cardinality(PassedBy(S)) <= Cardinality(Open)
<1>1. /\ Open \in SUBSET Tracks /\ Open' \in SUBSET Tracks
      /\ PassedBy(S) \in SUBSET Open
  BY DEF TypeOK, Open, PassedBy
<1> DEFINE R == Open \ PassedBy(S)
<1>2. Cardinality(R) = Cardinality(Open) - Cardinality(Open \cap PassedBy(S))
  BY <1>1, Sizes, FS_Difference
<1>3. Open \cap PassedBy(S) = PassedBy(S)
  BY <1>1
<1>4. R \in SUBSET Tracks
  BY <1>1
<1> HIDE DEF R
<1>5. Cardinality(Open') <= Cardinality(R)
  BY <1>4, Sizes, FS_Subset DEF R
<1>6. /\ Cardinality(Open) \in Nat /\ Cardinality(PassedBy(S)) \in Nat
      /\ Cardinality(R) \in Nat /\ Cardinality(Open') \in Nat
  BY <1>1, <1>4, Sizes
<1> HIDE DEF Open, PassedBy
<1> QED  BY <1>2, <1>3, <1>5, <1>6

\* Once walked in, always walked in; and whoever is in the polygon has.
LEMMA EnteredStays ==
  ASSUME NEW s \in TrackState, NEW p \in Places, NEW t \in Int,
         s.entered \/ p \in EnterPlaces
  PROVE  Moved(s, p, t).entered
<1> DEFINE o == Observed(s, p)
<1>1. o \in TrackState /\ o.entered
  BY DEF Observed, TrackState
<1>2. /\ [o EXCEPT !.state = "pending", !.since = t].entered
      /\ [o EXCEPT !.state = "inside"].entered
      /\ [o EXCEPT !.state = "outside"].entered
  BY <1>1 DEF TrackState
<1> HIDE DEF o
<1> QED  BY <1>1, <1>2 DEF Moved, o

\* An observation in the polygon marks the track it is made of, and whoever claims a
\* parked track inherits its mark.
LEMMA AdvanceWalks ==
  ASSUME IInv, Walked, NEW i \in todo, Advance(i)
  PROVE  Walked'
<1>n. phase' # "idle" /\ walked' \subseteq used'
  BY DEF IInv, Ids, Advance, Walked
<1>0. /\ Ids /\ i \in Tracks /\ frame[i] \in Places /\ now \in Int
      /\ ts \in [Tracks -> TrackState] /\ i \notin parked /\ todo' = todo \ {i}
      /\ live \subseteq Tracks /\ parked \subseteq Tracks /\ todo \subseteq Tracks
      /\ live \cap parked = {} /\ i \in used /\ used' = used
      /\ walked' = IF frame[i] \in EnterPlaces THEN walked \cup {i} ELSE walked
      /\ NewTrack \in TrackState
  BY CounterAssumption DEF IInv, TypeOK, Ids, Advance, NewTrack, TrackState, CounterAssumption
<1>1. CASE AdvanceKnown(i, frame[i], now)
  <2>1. /\ ts' = [ts EXCEPT ![i] = Moved(ts[i], frame[i], now)]
        /\ live' = live /\ parked' = parked /\ i \in live
    BY <1>1 DEF AdvanceKnown
  <2>2. ts[i].entered \/ frame[i] \in EnterPlaces => ts'[i].entered
    BY <1>0, <2>1, EnteredStays
  <2>3. \A k \in Tracks \ {i} : ts'[k] = ts[k]
    BY <1>0, <2>1
  <2>4. \A k \in (live' \cup parked') \cap walked' : ts'[k].entered
    BY <1>0, <2>1, <2>2, <2>3 DEF Walked
  <2>5. (todo' \ live') \cap walked' = {}
    BY <1>0, <2>1 DEF Walked
  <2> QED  BY <1>n, <2>4, <2>5 DEF Walked
<1>2. CASE AdvanceFresh(i, frame[i], now)
  <2>1. /\ ts' = [ts EXCEPT ![i] = Moved(NewTrack, frame[i], now)]
        /\ live' = live \cup {i} /\ parked' = parked /\ i \notin live
    BY <1>2 DEF AdvanceFresh
  <2>2. frame[i] \in EnterPlaces => ts'[i].entered
    BY <1>0, <2>1, EnteredStays
  <2>3. \A k \in Tracks \ {i} : ts'[k] = ts[k]
    BY <1>0, <2>1
  <2>4. \A k \in (live' \cup parked') \cap walked' : ts'[k].entered
    BY <1>0, <2>1, <2>2, <2>3 DEF Walked
  <2>5. (todo' \ live') \cap walked' = {}
    BY <1>0, <2>1 DEF Walked
  <2> QED  BY <1>n, <2>4, <2>5 DEF Walked
<1>3. CASE \E j \in parked : AdvanceClaiming(i, j, frame[i], now)
  <2>1. PICK j \in parked : AdvanceClaiming(i, j, frame[i], now)
    BY <1>3
  <2>2. /\ ts' = [ts EXCEPT ![i] = Moved(ts[j], frame[i], now), ![j] = NewTrack]
        /\ live' = live \cup {i} /\ parked' = parked \ {j} /\ i \notin live
    BY <2>1 DEF AdvanceClaiming
  <2>3. \A k \in Tracks \ {i, j} : ts'[k] = ts[k]
    BY <1>0, <2>2
  <2>4. ts'[i] = Moved(ts[j], frame[i], now) /\ ts[j] \in TrackState
    BY <1>0, <2>1, <2>2
  <2>5. frame[i] \in EnterPlaces => ts'[i].entered
    BY <1>0, <2>4, EnteredStays
  <2>6. i \notin walked
    BY <2>2 DEF Walked
  <2>7. \A k \in (live' \cup parked') \cap walked' : ts'[k].entered
    BY <1>0, <2>2, <2>3, <2>5, <2>6 DEF Walked
  <2>8. (todo' \ live') \cap walked' = {}
    BY <1>0, <2>2 DEF Walked
  <2> QED  BY <1>n, <2>7, <2>8 DEF Walked
<1> QED  BY <1>1, <1>2, <1>3 DEF Advance

\* A passer-by is none of the ids seen in the polygon.
LEMMA PassersBySeen ==
  ASSUME Walked, NEW S \in SUBSET (live \cup parked)
  PROVE  PassedBy(S) \cap walked = {}
  BY DEF Walked, PassedBy

\* Walked is kept by every step.
LEMMA WalkedStep ==
  ASSUME IInv, IInv', Walked, [Next]_vars
  PROVE  Walked'
<1>0. /\ TypeOK /\ Ids /\ Ids' /\ ts \in [Tracks -> TrackState]
      /\ live \subseteq Tracks /\ parked \subseteq Tracks
  BY DEF IInv, TypeOK
<1>1. ASSUME NextFrame PROVE Walked'
  <2>1. PICK t \in 0 .. MaxT, n \in 0 .. Cardinality(Tracks) :
            \E kept \in SUBSET DOMAIN frame, ids \in FreshIds(n) :
                \E gps \in [kept \cup ids -> Places] : Frame(t, kept \cup ids, gps)
    BY <1>1 DEF NextFrame
  <2>2. PICK kept \in SUBSET DOMAIN frame, ids \in FreshIds(n) :
            \E gps \in [kept \cup ids -> Places] : Frame(t, kept \cup ids, gps)
    BY <2>1
  <2>3. /\ phase = "idle" /\ used' = used \cup ids \cup kept /\ todo' = kept \cup ids
        /\ UNCHANGED <<live, parked, ts, walked>>
    BY <2>2 DEF Frame, counterVars
  <2>4. ids \cap used = {} /\ DOMAIN frame \ todo \subseteq live /\ todo \subseteq DOMAIN frame
    BY <1>0, <2>2, <2>3 DEF FreshIds, Ids
  <2>5. kept \subseteq live /\ phase' # "idle"
    BY <2>2, <2>3, <2>4 DEF Frame, Walked
  <2>6. walked' \subseteq used' /\ \A k \in (live' \cup parked') \cap walked' : ts'[k].entered
    BY <2>3 DEF Walked
  <2>7. (todo' \ live') \cap walked' = {}
    BY <2>3, <2>4, <2>5 DEF Walked
  <2> QED  BY <2>5, <2>6, <2>7 DEF Walked
<1>2. ASSUME NEW i \in lost, EndLost(i) PROVE Walked'
  <2>1. i \notin todo /\ UNCHANGED <<todo, used, walked, phase>>
    BY <1>0, <1>2 DEF EndLost, frameVars, Ids
  <2>2. CASE bstart = None
    BY <1>2, <2>1, <2>2 DEF EndLost, counterVars, Walked
  <2>3. CASE bstart # None /\ i \in live /\ ReentryEnabled
    BY <1>2, <2>1, <2>3 DEF EndLost, EndTrack, Walked
  <2>4. CASE bstart # None /\ ~(i \in live /\ ReentryEnabled)
    <3> DEFINE S == {i} \cap live
    <3>1. /\ live' = live \ {i} /\ parked' = parked /\ Forgotten(S) /\ S \subseteq {i}
          /\ i \notin live'
      BY <1>2, <2>4 DEF EndLost, EndTrack
    <3>2. i \in live => i \notin parked
      BY <1>0 DEF Ids
    <3>3. \A k \in live' \cup parked' : ts'[k] = ts[k]
      BY <1>0, <3>1, <3>2 DEF Forgotten
    <3> QED  BY <2>1, <3>1, <3>3 DEF Walked
  <2> QED  BY <2>2, <2>3, <2>4
<1>3. ASSUME BeginUpdate \/ Roll \/ BeginCount \/ UNCHANGED vars PROVE Walked'
  <2>1. UNCHANGED <<live, parked, ts, todo, used, walked>> /\ (phase' = "idle" => phase = "idle")
    BY <1>3 DEF BeginUpdate, Roll, BeginCount, counterVars, frameVars, vars
  <2> QED  BY <2>1 DEF Walked
<1>4. ASSUME NEW i \in todo, Advance(i) PROVE Walked'
  BY <1>4, AdvanceWalks
<1>5. ASSUME EndFrame PROVE Walked'
  <2>1. /\ live' = live /\ parked' = parked \ Stale(now) /\ Forgotten(Stale(now))
        /\ Stale(now) \subseteq parked /\ UNCHANGED <<todo, used, walked>> /\ todo = {}
    BY <1>5 DEF EndFrame, EndUpdate, Stale, frameVars
  <2>2. \A k \in live' \cup parked' : ts'[k] = ts[k]
    BY <1>0, <2>1 DEF Forgotten, Ids
  <2> QED  BY <2>1, <2>2 DEF Walked
<1>6. ASSUME NEW t \in 0 .. MaxT, Close(t) PROVE Walked'
  <2>1. live' = {} /\ parked' = {} /\ UNCHANGED <<todo, used, walked>> /\ phase = "idle"
    BY <1>6 DEF Close, frameVars
  <2> QED  BY <2>1 DEF Walked
<1> QED  BY <1>1, <1>2, <1>3, <1>4, <1>5, <1>6 DEF Next

\* The passers-by, those who may still turn out one and those who walked in are
\* different ids, however often a track is lost, parked, claimed and expired, and
\* whatever the bucket (counter.py:195-217).
THEOREM HeadsAreCountedOnce == Spec => []HeadsCountedOnce
<1> DEFINE HInv == Walked /\ Heads
<1>1. Init => HInv
  <2> SUFFICES ASSUME Init PROVE HInv
    OBVIOUS
  <2>1. Open = {} /\ used = {} /\ walked = {}
    BY DEF Init, CounterInit, Open
  <2> QED  BY <2>1, FS_EmptySet DEF Init, CounterInit, NoStats, Heads, Walked
<1>2. IInv /\ HInv /\ [Next]_vars => HInv'
  <2> SUFFICES ASSUME IInv, HInv, [Next]_vars PROVE HInv'
    OBVIOUS
  <2>0. /\ TypeOK /\ TypeOK' /\ Ids /\ Clock /\ now \in Int /\ stats \in ZoneStats
        /\ live \cap parked = {}
    BY TypeStep DEF IInv, TypeOK, Ids
  <2>i. Walked'
    <3>1. IInv'
      BY TypeStep, IdsStep, ClockStep DEF IInv
    <3> QED  BY <3>1, WalkedStep
  <2>n. /\ sealed.passersby \in Nat /\ stats.passersby \in Nat
        /\ Cardinality(Open) \in Nat /\ Cardinality(used) \in Nat
        /\ sealed'.passersby \in Nat /\ stats'.passersby \in Nat
        /\ Cardinality(Open') \in Nat
        /\ Open \in SUBSET Tracks /\ used \in SUBSET Tracks
    <3>1. Open \in SUBSET Tracks /\ Open' \in SUBSET Tracks /\ used \in SUBSET Tracks
      BY <2>0 DEF TypeOK, Open
    <3> QED  BY <2>0, <3>1, Sizes DEF TypeOK, ZoneStats
  <2>1. ASSUME used' = used, sealed'.passersby + stats'.passersby = sealed.passersby + stats.passersby,
               Open' \subseteq Open
        PROVE  Heads'
    <3>1. Cardinality(Open') <= Cardinality(Open)
      BY <2>1, <2>n, Sizes, FS_Subset
    <3> HIDE DEF Open
    <3> QED  BY <2>1, <2>n, <3>1 DEF Heads
  <2>2. ASSUME NEW S \in SUBSET (live \cup parked), used' = used,
               sealed'.passersby + stats'.passersby
                    = sealed.passersby + stats.passersby + Cardinality(PassedBy(S)),
               Open' \subseteq Open \ PassedBy(S)
        PROVE  Heads'
    <3>1. Cardinality(Open') + Cardinality(PassedBy(S)) <= Cardinality(Open)
      BY <2>0, <2>2, Decided
    <3>2. Cardinality(PassedBy(S)) \in Nat
      BY <2>0, Sizes DEF TypeOK, PassedBy
    <3> HIDE DEF Open
    <3> QED  BY <2>2, <2>n, <3>1, <3>2 DEF Heads
  <2>3. ASSUME NextFrame PROVE Heads'
    <3>1. PICK t \in 0 .. MaxT, n \in 0 .. Cardinality(Tracks) :
              \E kept \in SUBSET DOMAIN frame, ids \in FreshIds(n) :
                  \E gps \in [kept \cup ids -> Places] : Frame(t, kept \cup ids, gps)
      BY <2>3 DEF NextFrame
    <3>2. PICK kept \in SUBSET DOMAIN frame, ids \in FreshIds(n) :
              \E gps \in [kept \cup ids -> Places] : Frame(t, kept \cup ids, gps)
      BY <3>1
    <3>3. /\ phase = "idle" /\ used' = used \cup ids /\ todo' = kept \cup ids
          /\ UNCHANGED <<live, parked, ts, stats, sealed>>
      BY <2>0, <3>2 DEF Frame, counterVars, Ids
    <3>w. walked' = walked
      BY <3>2 DEF Frame
    <3>4. ids \in SUBSET Tracks /\ ids \cap used = {} /\ kept \subseteq live
      BY <2>0, <3>2, <3>3 DEF FreshIds, Ids, Walked
    <3>5. Cardinality(used \cup ids) = Cardinality(used) + Cardinality(ids)
      <4>1. Cardinality(used \cup ids)
                = Cardinality(used) + Cardinality(ids) - Cardinality(used \cap ids)
        BY <2>n, <3>4, Sizes, FS_Union
      <4>2. Cardinality(used \cap ids) = 0
        BY <3>4, FS_EmptySet
      <4> QED  BY <2>n, <3>4, <4>1, <4>2, Sizes
    <3>6. Open' \subseteq Open \cup ids
      BY <3>3, <3>4, <3>w DEF Open
    <3>7. Cardinality(Open') <= Cardinality(Open) + Cardinality(ids)
      <4>1. Open \cup ids \in SUBSET Tracks /\ Open \cap ids \in SUBSET Tracks
        BY <2>n, <3>4
      <4>2. Cardinality(Open') <= Cardinality(Open \cup ids)
        BY <3>6, <4>1, Sizes, FS_Subset
      <4>3. Cardinality(Open \cup ids)
                = Cardinality(Open) + Cardinality(ids) - Cardinality(Open \cap ids)
        BY <2>n, <3>4, Sizes, FS_Union
      <4>4. /\ Cardinality(Open \cap ids) \in Nat /\ Cardinality(ids) \in Nat
            /\ Cardinality(Open \cup ids) \in Nat
        BY <3>4, <4>1, Sizes
      <4> HIDE DEF Open
      <4> QED  BY <2>n, <4>2, <4>3, <4>4
    <3>8. Cardinality(ids) \in Nat
      BY <3>4, Sizes
    <3> HIDE DEF Open
    <3> QED  BY <2>n, <3>3, <3>5, <3>7, <3>8 DEF Heads
  <2>4. ASSUME NEW i \in lost, EndLost(i) PROVE Heads'
    <3>0. i \in Tracks /\ i \notin todo /\ used' = used /\ sealed' = sealed /\ todo' = todo
      BY <2>0, <2>4 DEF EndLost, frameVars, TypeOK, Ids
    <3>w. walked' = walked
      BY <2>4 DEF EndLost, frameVars
    <3>1. CASE bstart = None
      BY <2>1, <2>4, <3>0, <3>1, <3>w DEF EndLost, counterVars, Open
    <3>2. CASE bstart # None /\ i \in live /\ ReentryEnabled
      <4>1. live' \cup parked' = live \cup parked /\ ts' = ts /\ stats' = stats
        BY <2>4, <3>2 DEF EndLost, EndTrack
      <4>2. Open' = Open
        BY <3>0, <3>w, <4>1 DEF Open
      <4> QED  BY <2>1, <3>0, <4>1, <4>2
    <3>3. CASE bstart # None /\ ~(i \in live /\ ReentryEnabled)
      <4> DEFINE S == {i} \cap live
      <4>1. /\ live' = live \ {i} /\ parked' = parked
            /\ stats' = Classified(stats, S) /\ Forgotten(S)
        BY <2>4, <3>3 DEF EndLost, EndTrack
      <4>2. S \in SUBSET (live \cup parked) /\ S \in SUBSET Tracks /\ S \subseteq {i}
        BY <3>0
      <4>3. live' \cup parked' = (live \cup parked) \ S /\ S \cap todo = {}
        BY <2>0, <3>0, <4>1
      <4> HIDE DEF S
      <4>4. stats'.passersby = stats.passersby + Cardinality(PassedBy(S))
        BY <2>0, <4>1, <4>2, ClassifiedStats
      <4>5. Open' \subseteq Open \ PassedBy(S)
        BY <3>0, <3>w, <4>2, <4>3, PassersBySeen DEF Open, PassedBy
      <4>6. Cardinality(PassedBy(S)) \in Nat
        BY <4>2, Sizes DEF PassedBy
      <4> QED  BY <2>2, <2>n, <3>0, <4>2, <4>4, <4>5, <4>6
    <3> QED  BY <3>1, <3>2, <3>3
  <2>5. ASSUME BeginUpdate PROVE Heads'
    BY <2>1, <2>5 DEF BeginUpdate, counterVars, frameVars, Open
  <2>6. ASSUME Roll PROVE Heads'
    <3>1. bstart + Width \in Int
      BY <2>0, <2>6, BucketsAssumption DEF Roll, Clock, TypeOK, BucketsAssumption
    <3> DEFINE st == Accrued(bstart + Width)
    <3>2. st.passersby = stats.passersby
      BY <2>0, <3>1, AccruedStats
    <3>3. Hand(st) /\ UNCHANGED <<live, parked, ts, todo, used, walked>>
      BY <2>6 DEF Roll, frameVars
    <3> HIDE DEF st
    <3>4. sealed'.passersby = sealed.passersby + st.passersby /\ stats'.passersby = 0
      BY <3>3 DEF Hand, NoStats
    <3>5. Open' \subseteq Open /\ used' = used
      BY <3>3 DEF Open
    <3>6. sealed'.passersby + stats'.passersby = sealed.passersby + stats.passersby
      BY <2>n, <3>2, <3>4
    <3> QED  BY <2>1, <3>5, <3>6
  <2>7. ASSUME BeginCount PROVE Heads'
    <3>1. stats'.passersby = stats.passersby
      BY <2>0, <2>7, AccruedStats DEF BeginCount
    <3> QED  BY <2>1, <2>7, <3>1 DEF BeginCount, frameVars, Open
  <2>8. ASSUME NEW i \in todo, Advance(i) PROVE Heads'
    <3>1. PICK s \in TrackState, st \in ZoneStats :
              /\ stats' = Counted(st, s, frame[i], now) /\ frame[i] \in Places
              /\ st.passersby = stats.passersby
      BY <2>8, AdvanceShape
    <3>2. stats'.passersby = stats.passersby
      BY <2>0, <3>1, AdvanceTypes
    <3>3. /\ todo' \subseteq todo /\ walked' \subseteq walked \cup {i} /\ used' = used
          /\ sealed' = sealed /\ live' \subseteq live \cup {i} /\ parked' \subseteq parked
      BY <2>8 DEF Advance, AdvanceKnown, AdvanceFresh, AdvanceClaiming
    <3>4. Open' \subseteq Open
      BY <3>3 DEF Open
    <3> QED  BY <2>1, <3>2, <3>3, <3>4
  <2>9. ASSUME EndFrame PROVE Heads'
    <3> DEFINE S == Stale(now)
               c == Classified(stats, S)
    <3>1. /\ S \in SUBSET (live \cup parked) /\ S \in SUBSET Tracks /\ Forgotten(S)
          /\ live' = live /\ parked' = parked \ S /\ todo = {} /\ todo' = {}
          /\ sealed' = sealed /\ used' = used /\ walked' = walked /\ S \subseteq parked
      BY <2>0, <2>9 DEF EndFrame, EndUpdate, Stale, TypeOK, frameVars
    <3>2. stats' = [c EXCEPT !.peak = IF @ < Cardinality(Inside(live))
                                      THEN Cardinality(Inside(live)) ELSE @]
      BY <2>9 DEF EndFrame, EndUpdate
    <3> HIDE DEF S
    <3>3. c \in ZoneStats /\ c.passersby = stats.passersby + Cardinality(PassedBy(S))
      BY <2>0, <3>1, ClassifiedStats
    <3> HIDE DEF c
    <3>4. stats'.passersby = stats.passersby + Cardinality(PassedBy(S))
      BY <3>2, <3>3 DEF ZoneStats
    <3>5. Open' \subseteq Open \ PassedBy(S)
      <4>1. PassedBy(S) \subseteq S /\ PassedBy(S) \cap walked = {} /\ S \cap live = {}
        BY <2>0, <3>1, PassersBySeen DEF PassedBy
      <4> QED  BY <3>1, <4>1 DEF Open
    <3>6. Cardinality(PassedBy(S)) \in Nat
      BY <3>1, Sizes DEF PassedBy
    <3> QED  BY <2>2, <2>n, <3>1, <3>4, <3>5, <3>6
  <2>10. ASSUME NEW t \in 0 .. MaxT, Close(t) PROVE Heads'
    <3> DEFINE end == IF t < bstart THEN bstart ELSE t
               a == Accrued(end)
               st == Classified(a, live \cup parked)
    <3>1. end \in Int
      BY <2>0, <2>10 DEF Close, TypeOK
    <3>2. Hand(st) /\ live' = {} /\ parked' = {} /\ todo' = {} /\ used' = used
          /\ walked' = walked
      BY <2>10 DEF Close, FinalStats, frameVars, Walked
    <3> HIDE DEF end
    <3>3. a \in ZoneStats /\ a.passersby = stats.passersby
      BY <2>0, <3>1, AccruedStats
    <3> HIDE DEF a
    <3>4. live \cup parked \in SUBSET Tracks
      BY <2>0 DEF TypeOK
    <3>5. st.passersby = stats.passersby + Cardinality(PassedBy(live \cup parked))
      BY <2>0, <3>3, <3>4, ClassifiedStats
    <3> HIDE DEF st
    <3>6. sealed'.passersby = sealed.passersby + st.passersby /\ stats'.passersby = 0
      BY <3>2 DEF Hand, NoStats
    <3>7. Open' \subseteq Open \ PassedBy(live \cup parked)
      BY <3>2, PassersBySeen DEF Open
    <3>8. Cardinality(PassedBy(live \cup parked)) \in Nat
      BY <3>4, Sizes DEF PassedBy
    <3> DEFINE n == Cardinality(PassedBy(live \cup parked))
    <3> HIDE DEF n
    <3>9. sealed'.passersby + stats'.passersby = sealed.passersby + stats.passersby + n
      BY <2>n, <3>5, <3>6, <3>8 DEF n
    <3> QED  BY <2>2, <3>2, <3>7, <3>9 DEF n
  <2>11. ASSUME UNCHANGED vars PROVE Heads'
    BY <2>1, <2>11 DEF vars, counterVars, frameVars, Open
  <2> QED
    BY <2>i, <2>3, <2>4, <2>5, <2>6, <2>7, <2>8, <2>9, <2>10, <2>11 DEF Next
<1>3. IInv /\ HInv => HeadsCountedOnce
  <2> SUFFICES ASSUME IInv, HInv PROVE HeadsCountedOnce
    OBVIOUS
  <2> DEFINE U == {i \in live \cup parked : ~ts[i].entered}
  <2>1. /\ U \cup walked \subseteq Open /\ U \cap walked = {}
        /\ U \in SUBSET Tracks /\ walked \in SUBSET Tracks /\ Open \in SUBSET Tracks
    BY DEF IInv, TypeOK, Open, Walked
  <2>2. Cardinality(U \cup walked) = Cardinality(U) + Cardinality(walked)
    <3>1. Cardinality(U \cup walked)
              = Cardinality(U) + Cardinality(walked) - Cardinality(U \cap walked)
      BY <2>1, Sizes, FS_Union
    <3>2. Cardinality(U \cap walked) = 0
      BY <2>1, FS_EmptySet
    <3> QED  BY <2>1, <3>1, <3>2, Sizes
  <2>3. Cardinality(U \cup walked) <= Cardinality(Open)
    BY <2>1, Sizes, FS_Subset
  <2>4. /\ sealed.passersby \in Nat /\ stats.passersby \in Nat /\ Cardinality(U) \in Nat
        /\ Cardinality(Open) \in Nat /\ Cardinality(used) \in Nat /\ Cardinality(walked) \in Nat
    BY <2>1, Sizes DEF IInv, TypeOK, ZoneStats
  <2> HIDE DEF U
  <2>5. sealed.passersby + stats.passersby + Cardinality(U) + Cardinality(walked)
            <= Cardinality(used)
    BY <2>2, <2>3, <2>4 DEF Heads
  <2> QED  BY <2>5 DEF HeadsCountedOnce, U
<1> QED  BY <1>1, <1>2, <1>3, Invariance, PTL DEF Spec
=============================================================================
