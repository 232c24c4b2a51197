------------------------------ MODULE HealthProofs ------------------------------
(***************************************************************************)
(* Proofs about CameraPipeline, which says what is wrong with the cameras, *)
(* and FleetAlerts, which says what is wrong with the boxes, for any       *)
(* cameras, boxes, reports and evaluators.  The two share no state.        *)
(*                                                                         *)
(* A worker that is not over has attempts left and no error (Spent), which *)
(* types the failures and keeps the errors.  A batch has at most one frame *)
(* of a camera (OneFrame), so that Shown is that frame.  A streak counts    *)
(* the last checks that differed, and no others (Streaks).                 *)
(*                                                                         *)
(* OneOpen is inductive because of the unique index.  Types of the rows    *)
(* need that a new id exists, hence that the rows are finitely many.  That *)
(* a silent box is found needs that no box tells of a sync later than it   *)
(* was last seen (Heard).  What a commit makes of the open keys is         *)
(* CommittedKeys, whoever else commits.                                    *)
(***************************************************************************)
EXTENDS CameraPipeline, FleetAlerts, FiniteSetTheorems, SequenceTheorems, TLAPS

(* The cameras. *)

Detector == [reference : Views \cup {Nothing}, streak : 0 .. Samples]

\* A worker that is not over has attempts left, and no error.
Attempting(w) == w.pc # "over" => w.failures <= MaxReconnects /\ w.error = Nothing
Spent == \A c \in Cameras : Attempting(worker[c])

\* A batch has at most one frame of a camera, and none of one that is still to be asked.
OneFrame ==
    /\ \A f, g \in batch : f[1] = g[1] => f = g
    /\ \A f \in batch : f[1] \notin todo

Recent == [1 .. Samples -> Views \cup {Nothing}]

\* As many of the last checks as the streak has counted have seen a view that is far from
\* the reference.
Streaks ==
    \A c \in Cameras : \A i \in 1 .. drift[c].streak : <<last[c][i], drift[c].reference>> \in Far

CameraInv == PipelineTypeOK /\ Spent /\ OneFrame /\ Streaks

LEMMA ShownIsTaken ==
    ASSUME PipelineTypeOK, NEW c \in Cameras, InBatch(c)
    PROVE  Shown(c) \in Views /\ <<c, Shown(c)>> \in batch
BY DEF InBatch, Shown

LEMMA CheckedType ==
    ASSUME PipelineTypeOK, NEW c \in Cameras, InBatch(c)
    PROVE  Checked(c) \in Detector
<1>1. drift[c] \in Detector /\ Shown(c) \in Views /\ Samples \in Nat \ {0}
  BY ShownIsTaken, PipelineAssumption DEF PipelineTypeOK, Detector
<1>2. \A v \in Views : Fed(drift[c], v) \in Detector
  BY <1>1 DEF Fed, Detector
<1>3. [reference |-> Shown(c), streak |-> 0] \in Detector
  BY <1>1 DEF Detector
<1> QED
  BY <1>1, <1>2, <1>3 DEF Checked

LEMMA HealthType ==
    ASSUME NEW s, NEW m, WriteHealth(s, m)
    PROVE  /\ health' \in [Cameras -> Statuses] /\ frames' = {}
           /\ \A c \in Cameras : health'[c] = Status(c, s, m)
BY DEF WriteHealth, Status, Statuses

\* What a round that counts does to the detectors.
LEMMA CountFacts ==
    ASSUME PipelineTypeOK, NEW sweep \in BOOLEAN, NEW flush \in BOOLEAN, Count(sweep, flush)
    PROVE  /\ main = "counting" /\ main' = "head" /\ batch' = {}
           /\ UNCHANGED <<view, worker, latest, todo>>
           /\ drift' \in [Cameras -> Detector] /\ ref' \in [Cameras -> Views \cup {Nothing}]
           /\ flagged \subseteq flagged' /\ flagged' \subseteq Cameras
           /\ last' \in [Cameras -> Recent]
           /\ \A c \in Cameras :
                 /\ last'[c] = IF sweep /\ InBatch(c) THEN Pushed(last[c], Shown(c)) ELSE last[c]
                 /\ drift'[c] = IF sweep /\ InBatch(c) THEN Checked(c) ELSE drift[c]
                 /\ ref'[c] \in {ref[c]} \cup (IF InBatch(c) THEN {Shown(c)} ELSE {})
                 /\ c \in flagged' <=>
                       \/ c \in flagged
                       \/ (sweep /\ InBatch(c) /\ drift'[c].streak >= Samples)
<1> USE DEF Count, threads
<1>1. /\ main = "counting" /\ main' = "head" /\ batch' = {} /\ UNCHANGED <<view, worker, latest, todo>>
      /\ drift \in [Cameras -> Detector] /\ ref \in [Cameras -> Views \cup {Nothing}]
      /\ flagged \subseteq Cameras /\ last \in [Cameras -> Recent]
  BY DEF PipelineTypeOK, Detector, Recent
<1>2. CASE sweep
  <2>1. /\ drift' = [c \in Cameras |-> IF InBatch(c) THEN Checked(c) ELSE drift[c]]
        /\ ref' = [c \in Cameras |-> IF InBatch(c) /\ drift[c].reference = Nothing
                                      THEN Shown(c) ELSE ref[c]]
        /\ flagged' = flagged \cup {c \in Cameras : InBatch(c) /\ drift'[c].streak >= Samples}
        /\ last' = [c \in Cameras |-> IF InBatch(c) THEN Pushed(last[c], Shown(c)) ELSE last[c]]
    BY <1>2
  <2>2. drift' \in [Cameras -> Detector]
    BY <1>1, <2>1, CheckedType
  <2>3. ref' \in [Cameras -> Views \cup {Nothing}]
    BY <1>1, <2>1, ShownIsTaken
  <2>4. \A c \in Cameras : ref'[c] \in {ref[c]} \cup (IF InBatch(c) THEN {Shown(c)} ELSE {})
    BY <2>1
  <2>5. \A c \in Cameras : InBatch(c) => Pushed(last[c], Shown(c)) \in Recent
    <3> SUFFICES ASSUME NEW c \in Cameras, InBatch(c) PROVE Pushed(last[c], Shown(c)) \in Recent
      OBVIOUS
    <3>1. last[c] \in Recent /\ Shown(c) \in Views /\ Samples \in Nat \ {0}
      BY <1>1, ShownIsTaken, PipelineAssumption
    <3>2. \A i \in 1 .. Samples : i # 1 => last[c][i - 1] \in Views \cup {Nothing}
      BY <3>1 DEF Recent
    <3> QED
      BY <3>1, <3>2 DEF Pushed, Recent
  <2>6. last' \in [Cameras -> Recent]
    BY <1>1, <2>1, <2>5
  <2> QED
    BY <1>1, <1>2, <2>1, <2>2, <2>3, <2>4, <2>6
<1>3. CASE ~ sweep
  <2>1. UNCHANGED <<drift, ref, flagged, last>>
    BY <1>3
  <2> QED
    BY <1>1, <1>3, <2>1
<1> QED
  BY <1>2, <1>3

LEMMA WorkerStep ==
    ASSUME PipelineTypeOK, Spent, NEW c \in Cameras, Decode(c)
    PROVE  /\ UNCHANGED <<view, ref, health, main, todo, batch, drift, flagged, frames, last>>
           /\ worker' \in [Cameras -> Worker] /\ latest' \in [Cameras -> Views \cup {Nothing}]
           /\ Spent'
           /\ latest' = latest \/ latest' = [latest EXCEPT ![c] = view[c]]
<1> USE PipelineAssumption DEF NotWorkers, disk, round, checks
<1>0. /\ worker \in [Cameras -> Worker] /\ latest \in [Cameras -> Views \cup {Nothing}]
      /\ view[c] \in Views /\ MaxReconnects \in Nat
      /\ worker[c] \in Worker /\ Attempting(worker[c])
  BY DEF PipelineTypeOK, Spent
<1>1. /\ UNCHANGED <<view, ref, health, main, todo, batch, drift, flagged, frames, last>>
      /\ latest' = latest \/ latest' = [latest EXCEPT ![c] = view[c]]
  BY DEF Decode, Open, Publish, Freeze, Drop, Finish
<1>2. /\ worker[c].pc # "over"
      /\ \E w \in Worker : worker' = [worker EXCEPT ![c] = w] /\ Attempting(w)
  <2> USE DEF Attempting
  <2>1. CASE Open(c)
    <3>1. CASE Goes(c, "decoding")
      <4>1. [worker[c] EXCEPT !.pc = "decoding"] \in Worker
        BY <1>0 DEF Worker
      <4> QED
        BY <1>0, <2>1, <3>1, <4>1 DEF Open, Goes, Worker
    <3>2. CASE Fails(c, "failed")
      <4>1. [[worker[c] EXCEPT !.pc = "over"] EXCEPT !.error = "failed"] \in Worker
        BY <1>0 DEF Worker
      <4> QED
        BY <1>0, <2>1, <3>2, <4>1 DEF Open, Fails, Worker
    <3> QED
      BY <2>1, <3>1, <3>2 DEF Open
  <2>2. CASE Publish(c)
    <3> DEFINE w == [worker[c] EXCEPT !.failures = 0]
    <3>1. worker[c].pc = "decoding" /\ worker' = [worker EXCEPT ![c] = w]
      BY <2>2 DEF Publish
    <3>2. w \in Worker /\ w.failures = 0 /\ 0 <= MaxReconnects /\ w.error = Nothing
      BY <1>0, <3>1 DEF Worker
    <3> HIDE DEF w
    <3> QED
      BY <3>1, <3>2
  <2>3. CASE Freeze(c)
    <3>1. [[worker[c] EXCEPT !.pc = "over"] EXCEPT !.error = "frozen"] \in Worker
      BY <1>0 DEF Worker
    <3> QED
      BY <1>0, <2>3, <3>1 DEF Freeze, Fails, Worker
  <2>4. CASE Drop(c)
    <3> DEFINE more == worker[c].failures + 1
               n == IF c \in Live THEN more ELSE worker[c].failures
    <3>1. more \in 0 .. MaxReconnects + 1 /\ n \in 0 .. MaxReconnects + 1 /\ worker[c].pc = "decoding"
      BY <1>0, <2>4 DEF Drop, Worker
    <3>2. CASE c \notin Live \/ more > MaxReconnects
      <4>1. [[[worker[c] EXCEPT !.pc = "over"] EXCEPT !.error = "failed"] EXCEPT !.failures = n] \in Worker
        BY <1>0, <3>1 DEF Worker
      <4> QED
        BY <1>0, <2>4, <3>1, <3>2, <4>1 DEF Drop, Worker
    <3>3. CASE ~ (c \notin Live \/ more > MaxReconnects)
      <4>1. [[worker[c] EXCEPT !.pc = "opening"] EXCEPT !.failures = more] \in Worker
        BY <1>0, <3>1 DEF Worker
      <4>2. more <= MaxReconnects
        BY <1>0, <3>1, <3>3
      <4> QED
        BY <1>0, <2>4, <3>1, <3>3, <4>1, <4>2 DEF Drop, Worker
    <3> QED
      BY <3>2, <3>3
  <2>5. CASE Finish(c)
    <3>1. [worker[c] EXCEPT !.pc = "over"] \in Worker
      BY <1>0 DEF Worker
    <3> QED
      BY <1>0, <2>5, <3>1 DEF Finish, Goes, Worker
  <2> QED
    BY <2>1, <2>2, <2>3, <2>4, <2>5 DEF Decode
<1>3. PICK w \in Worker : worker' = [worker EXCEPT ![c] = w] /\ Attempting(w)
  BY <1>2
<1>4. worker' \in [Cameras -> Worker] /\ Spent'
  BY <1>0, <1>3 DEF Spent
<1>5. latest' \in [Cameras -> Views \cup {Nothing}]
  BY <1>0, <1>1
<1> QED
  BY <1>1, <1>4, <1>5

\* The types, and what a batch may hold, one step per action.
LEMMA CameraTypeStep == CameraInv /\ [PipelineNext]_pipeline => (PipelineTypeOK /\ Spent /\ OneFrame)'
<1> SUFFICES ASSUME CameraInv, [PipelineNext]_pipeline PROVE (PipelineTypeOK /\ Spent /\ OneFrame)'
  OBVIOUS
<1> USE PipelineAssumption DEF disk, threads, round, checks
<1>0. PipelineTypeOK /\ Spent /\ OneFrame
  BY DEF CameraInv
<1>1. ASSUME NEW c \in Cameras, Decode(c) PROVE (PipelineTypeOK /\ Spent /\ OneFrame)'
  <2>1. /\ UNCHANGED <<view, ref, health, main, todo, batch, drift, flagged, frames, last>>
        /\ worker' \in [Cameras -> Worker] /\ latest' \in [Cameras -> Views \cup {Nothing}]
        /\ Spent'
    BY <1>0, <1>1, WorkerStep
  <2> QED
    BY <1>0, <2>1 DEF PipelineTypeOK, OneFrame
<1>2. ASSUME NEW c \in Cameras, Change(c) \/ Recalibrate(c) PROVE (PipelineTypeOK /\ Spent /\ OneFrame)'
  <2>1. UNCHANGED <<health, worker, latest, main, todo, batch, drift, flagged, frames, last>>
    BY <1>2 DEF Change, Recalibrate
  <2>2. view \in [Cameras -> Views] /\ ref \in [Cameras -> Views \cup {Nothing}]
    BY <1>0 DEF PipelineTypeOK
  <2>3. view' \in [Cameras -> Views] /\ ref' \in [Cameras -> Views \cup {Nothing}]
    <3>1. CASE Change(c)
      BY <2>2, <3>1 DEF Change
    <3>2. CASE Recalibrate(c)
      <4>1. ref' = [ref EXCEPT ![c] = view[c]] /\ view' = view /\ view[c] \in Views
        BY <2>2, <3>2 DEF Recalibrate
      <4> QED
        BY <2>2, <4>1
    <3> QED
      BY <1>2, <3>1, <3>2
  <2> QED
    BY <1>0, <2>1, <2>3 DEF PipelineTypeOK, Spent, OneFrame
<1>3. CASE NewRound \/ Look \/ Crash
  <2>1. /\ UNCHANGED <<view, ref, health, worker, latest, drift, flagged, frames, last>>
        /\ main' \in {"taking", "head", "down"}
        /\ \/ todo' = Cameras /\ batch' = {}
           \/ UNCHANGED <<todo, batch>>
    BY <1>3 DEF NewRound, Look, Crash
  <2> QED
    BY <1>0, <2>1 DEF PipelineTypeOK, Spent, OneFrame
<1>4. CASE Close
  <2>1. /\ UNCHANGED <<view, ref, worker, latest, todo, batch, drift, flagged, last>>
        /\ main' = "down" /\ WriteHealth(frames, flagged)
    BY <1>4 DEF Close
  <2>2. health' \in [Cameras -> Statuses] /\ frames' = {}
    BY <2>1, HealthType
  <2> QED
    BY <1>0, <2>1, <2>2 DEF PipelineTypeOK, Spent, OneFrame
<1>5. ASSUME NEW c \in Cameras, Take(c) PROVE (PipelineTypeOK /\ Spent /\ OneFrame)'
  <2>1. /\ UNCHANGED <<view, ref, health, worker, drift, flagged, frames, last>>
        /\ c \in todo /\ todo' = todo \ {c} /\ main' \in {"taking", "looking", "counting"}
        /\ latest' = [latest EXCEPT ![c] = Nothing]
        /\ \/ batch' = batch
           \/ latest[c] # Nothing /\ batch' = batch \cup {<<c, latest[c]>>}
    BY <1>5 DEF Take
  <2>2. latest' \in [Cameras -> Views \cup {Nothing}] /\ batch' \subseteq Frames /\ todo' \subseteq Cameras
    BY <1>0, <2>1 DEF PipelineTypeOK, Frames
  <2>3. PipelineTypeOK' /\ Spent'
    BY <1>0, <2>1, <2>2 DEF PipelineTypeOK, Spent
  <2>4. OneFrame'
    BY <1>0, <2>1 DEF OneFrame
  <2> QED
    BY <2>3, <2>4
<1>6. ASSUME NEW sweep \in BOOLEAN, NEW flush \in BOOLEAN, Count(sweep, flush)
      PROVE  (PipelineTypeOK /\ Spent /\ OneFrame)'
  <2>1. /\ main' = "head" /\ batch' = {} /\ UNCHANGED <<view, worker, latest, todo>>
        /\ drift' \in [Cameras -> Detector] /\ ref' \in [Cameras -> Views \cup {Nothing}]
        /\ flagged' \subseteq Cameras
    BY <1>0, <1>6, CountFacts
  <2>2. last' \in [Cameras -> Recent]
    BY <1>0, <1>6, CountFacts
  <2>3. health' \in [Cameras -> Statuses \cup {Nothing}] /\ frames' \subseteq Cameras
    <3> DEFINE taken == frames \cup {c \in Cameras : InBatch(c)}
    <3>1. CASE flush
      BY <1>6, <3>1, HealthType DEF Count
    <3>2. CASE ~ flush
      <4>1. frames' = taken /\ health' = health
        BY <1>6, <3>2 DEF Count
      <4> QED
        BY <1>0, <4>1 DEF PipelineTypeOK
    <3> QED
      BY <3>1, <3>2
  <2> QED
    BY <1>0, <2>1, <2>2, <2>3 DEF PipelineTypeOK, Detector, Spent, OneFrame, Recent
<1>7. CASE Start
  <2>1. /\ UNCHANGED <<view, ref, health>> /\ main' = "head"
        /\ worker' = [c \in Cameras |-> NewWorker] /\ latest' = [c \in Cameras |-> Nothing]
        /\ todo' = {} /\ batch' = {} /\ flagged' = {} /\ frames' = {} /\ last' = Unchecked
        /\ drift' = [c \in Cameras |-> [reference |-> ref[c], streak |-> 0]]
    BY <1>7 DEF Start, Fresh
  <2>2. NewWorker \in Worker /\ Attempting(NewWorker)
    BY DEF NewWorker, Worker, Attempting
  <2>3. worker' \in [Cameras -> Worker] /\ Spent'
    BY <2>1, <2>2 DEF Spent
  <2>4. drift' \in [Cameras -> [reference : Views \cup {Nothing}, streak : 0 .. Samples]]
    BY <1>0, <2>1 DEF PipelineTypeOK
  <2>5. last' \in [Cameras -> Recent]
    BY <2>1 DEF Unchecked, Recent
  <2> QED
    BY <1>0, <2>1, <2>3, <2>4, <2>5 DEF PipelineTypeOK, OneFrame, Recent
<1>8. CASE UNCHANGED pipeline
  BY <1>0, <1>8 DEF PipelineTypeOK, Spent, OneFrame, pipeline
<1> QED
  BY <1>1, <1>2, <1>3, <1>4, <1>5, <1>6, <1>7, <1>8 DEF PipelineNext, Loop

\* A check that is counted has seen a view that differs, and follows those counted before.
LEMMA PushedStreak ==
    ASSUME PipelineTypeOK, NEW c \in Cameras, InBatch(c),
           \A i \in 1 .. drift[c].streak : <<last[c][i], drift[c].reference>> \in Far,
           NEW i \in 1 .. Checked(c).streak
    PROVE  /\ Checked(c).reference = drift[c].reference
           /\ <<Pushed(last[c], Shown(c))[i], drift[c].reference>> \in Far
<1>1. drift[c] \in Detector /\ Samples \in Nat \ {0}
  BY PipelineAssumption DEF PipelineTypeOK, Detector
<1>2. Checked(c) = Fed(drift[c], Shown(c)) /\ DiffersFrom(drift[c], Shown(c))
  BY <1>1 DEF Checked, Fed, Detector
<1>3. /\ Checked(c).reference = drift[c].reference
      /\ Checked(c).streak = IF drift[c].streak = Samples THEN Samples ELSE drift[c].streak + 1
  BY <1>1, <1>2 DEF Fed, Detector
<1>4. i \in 1 .. Samples /\ (i # 1 => i - 1 \in 1 .. drift[c].streak)
  BY <1>1, <1>3 DEF Detector
<1>5. Pushed(last[c], Shown(c))[i] = IF i = 1 THEN Shown(c) ELSE last[c][i - 1]
  BY <1>4 DEF Pushed
<1> QED
  BY <1>2, <1>3, <1>4, <1>5 DEF DiffersFrom

LEMMA CameraSafeStep == CameraInv /\ [PipelineNext]_pipeline => Streaks'
<1> SUFFICES ASSUME CameraInv, [PipelineNext]_pipeline PROVE Streaks'
  OBVIOUS
<1> USE DEF checks
<1>0. PipelineTypeOK /\ Spent /\ Streaks
  BY DEF CameraInv
<1>1. CASE UNCHANGED <<drift, last>>
  BY <1>0, <1>1 DEF Streaks
<1>2. ASSUME NEW c \in Cameras, Decode(c) PROVE UNCHANGED <<drift, last>>
  BY <1>0, <1>2, WorkerStep
<1>3. ASSUME NEW c \in Cameras, Change(c) \/ Recalibrate(c) \/ Take(c) PROVE UNCHANGED <<drift, last>>
  BY <1>3 DEF Change, Recalibrate, Take
<1>4. NewRound \/ Look \/ Close \/ Crash => UNCHANGED <<drift, last>>
  BY DEF NewRound, Look, Close, Crash
<1>5. ASSUME NEW sweep \in BOOLEAN, NEW flush \in BOOLEAN, Count(sweep, flush) PROVE Streaks'
  <2> SUFFICES ASSUME NEW c \in Cameras, NEW i \in 1 .. drift'[c].streak
               PROVE  <<last'[c][i], drift'[c].reference>> \in Far
    BY DEF Streaks
  <2>1. /\ drift'[c] = IF sweep /\ InBatch(c) THEN Checked(c) ELSE drift[c]
        /\ last'[c] = IF sweep /\ InBatch(c) THEN Pushed(last[c], Shown(c)) ELSE last[c]
    BY <1>0, <1>5, CountFacts
  <2>2. \A j \in 1 .. drift[c].streak : <<last[c][j], drift[c].reference>> \in Far
    BY <1>0 DEF Streaks
  <2>3. CASE sweep /\ InBatch(c)
    <3>1. drift'[c] = Checked(c) /\ last'[c] = Pushed(last[c], Shown(c))
      BY <2>1, <2>3
    <3> QED
      BY <1>0, <2>2, <2>3, <3>1, PushedStreak
  <2>4. CASE ~ (sweep /\ InBatch(c))
    BY <2>1, <2>2, <2>4
  <2> QED
    BY <2>3, <2>4
<1>6. CASE Start
  <2>1. \A c \in Cameras : drift'[c].streak = 0
    BY <1>6 DEF Start, Fresh
  <2> QED
    BY <2>1 DEF Streaks
<1>7. CASE UNCHANGED pipeline
  BY <1>0, <1>7 DEF Streaks, pipeline
<1> QED
  BY <1>1, <1>2, <1>3, <1>4, <1>5, <1>6, <1>7 DEF PipelineNext, Loop

LEMMA CameraInvariance == PipelineSpec => []CameraInv
<1> USE PipelineAssumption
<1>1. PipelineInit => CameraInv
  <2> SUFFICES ASSUME PipelineInit PROVE CameraInv
    OBVIOUS
  <2> USE DEF PipelineInit
  <2>1. NewWorker \in Worker /\ Attempting(NewWorker)
    BY DEF NewWorker, Worker, Attempting
  <2>2. PipelineTypeOK
    BY <2>1 DEF PipelineTypeOK, Unchecked
  <2>3. Spent
    BY <2>1 DEF Spent
  <2>4. Streaks
    BY DEF Streaks
  <2> QED
    BY <2>2, <2>3, <2>4 DEF CameraInv, OneFrame
<1> QED
  BY <1>1, CameraTypeStep, CameraSafeStep, PTL DEF CameraInv, PipelineSpec

\* Workers, frames, detectors and health rows keep their types, for any cameras, whatever
\* drops, freezes or is killed; a worker spends at most one attempt more than it has
\* (decode.py:105-158, pipeline.py:258-346).
THEOREM CamerasTypeCorrect == PipelineSpec => []PipelineTypeOK
<1>1. CameraInv => PipelineTypeOK
  BY DEF CameraInv
<1> QED
  BY <1>1, CameraInvariance, PTL

\* Only a camera whose last drift_samples checks all saw a view far from its reference is
\* flagged, and only a flagged one is reported as moved, however many cameras there are,
\* whatever they show and whatever is restarted or captured anew (calibration.py:75-94,
\* pipeline.py:302-326).
THEOREM FlagsAreSustained == PipelineSpec => FlagIsSustained
<1> DEFINE Sustained == \A c \in Cameras :
          /\ c \in flagged' \ flagged =>
                 \A i \in 1 .. Samples : <<last'[c][i], drift[c].reference>> \in Far
          /\ health'[c] = "needs_recalibration" =>
                 health[c] = "needs_recalibration" \/ c \in flagged'
<1>1. CameraInv /\ [PipelineNext]_pipeline => Sustained
  <2> SUFFICES ASSUME CameraInv, [PipelineNext]_pipeline, NEW c \in Cameras
               PROVE  /\ c \in flagged' \ flagged =>
                             \A i \in 1 .. Samples : <<last'[c][i], drift[c].reference>> \in Far
                      /\ health'[c] = "needs_recalibration" =>
                             health[c] = "needs_recalibration" \/ c \in flagged'
    OBVIOUS
  <2> USE DEF disk, checks
  <2>0. PipelineTypeOK /\ Spent /\ Streaks /\ Streaks'
    BY CameraSafeStep DEF CameraInv
  <2>1. CASE UNCHANGED <<flagged, health>>
    BY <2>1
  <2>2. ASSUME NEW x \in Cameras, Decode(x) PROVE UNCHANGED <<flagged, health>>
    BY <2>0, <2>2, WorkerStep
  <2>3. ASSUME NEW x \in Cameras, Change(x) \/ Recalibrate(x) \/ Take(x)
        PROVE  UNCHANGED <<flagged, health>>
    BY <2>3 DEF Change, Recalibrate, Take
  <2>4. NewRound \/ Look \/ Crash => UNCHANGED <<flagged, health>>
    BY DEF NewRound, Look, Crash
  <2>5. ASSUME NEW s, NEW m, WriteHealth(s, m) PROVE health'[c] = "needs_recalibration" => c \in m
    BY <2>5, HealthType DEF Status
  <2>6. CASE Close
    BY <2>5, <2>6 DEF Close
  <2>7. ASSUME NEW sweep \in BOOLEAN, NEW flush \in BOOLEAN, Count(sweep, flush)
        PROVE  /\ c \in flagged' \ flagged =>
                      \A i \in 1 .. Samples : <<last'[c][i], drift[c].reference>> \in Far
               /\ health'[c] = "needs_recalibration" =>
                      health[c] = "needs_recalibration" \/ c \in flagged'
    <3>1. health'[c] = "needs_recalibration" => health[c] = "needs_recalibration" \/ c \in flagged'
      BY <2>5, <2>7 DEF Count
    <3>2. ASSUME c \in flagged' \ flagged, NEW i \in 1 .. Samples
          PROVE  <<last'[c][i], drift[c].reference>> \in Far
      <4>1. /\ InBatch(c) /\ drift'[c] = Checked(c) /\ drift'[c].streak >= Samples
            /\ last'[c] = Pushed(last[c], Shown(c))
        BY <2>0, <2>7, <3>2, CountFacts
      <4>2. Checked(c) \in Detector
        BY <2>0, <4>1, CheckedType
      <4>3. i \in 1 .. Checked(c).streak
        BY <4>1, <4>2, PipelineAssumption DEF Detector
      <4>4. \A j \in 1 .. drift[c].streak : <<last[c][j], drift[c].reference>> \in Far
        BY <2>0 DEF Streaks
      <4> QED
        BY <2>0, <4>1, <4>3, <4>4, PushedStreak
    <3> QED
      BY <3>1, <3>2
  <2>8. CASE Start
    BY <2>8 DEF Start, Fresh
  <2>9. CASE UNCHANGED pipeline
    BY <2>9 DEF pipeline
  <2> QED
    BY <2>1, <2>2, <2>3, <2>4, <2>6, <2>7, <2>8, <2>9 DEF PipelineNext, Loop
<1> QED
  BY <1>1, CameraInvariance, PTL DEF PipelineSpec, FlagIsSustained

\* What a check makes of a camera whose frames all show that it has drifted.
LEMMA CheckCounts ==
    ASSUME CameraInv, NEW c \in Cameras, Steady(c), InBatch(c)
    PROVE  /\ Checked(c).reference = drift[c].reference
           /\ Checked(c).streak >= drift[c].streak
           /\ Checked(c).streak >= Samples \/ Checked(c).streak > drift[c].streak
<1>1. /\ drift[c].reference # Nothing /\ drift[c].streak \in 0 .. Samples /\ Samples \in Nat
      /\ drift[c] \in Detector
  BY PipelineAssumption DEF CameraInv, PipelineTypeOK, Detector, Steady, Drifted
<1>2. DiffersFrom(drift[c], Shown(c))
  BY ShownIsTaken DEF CameraInv, Steady
<1>3. Checked(c) = [drift[c] EXCEPT !.streak = IF @ = Samples THEN @ ELSE @ + 1]
  BY <1>1, <1>2 DEF Checked, Fed
<1>4. /\ Checked(c).reference = drift[c].reference
      /\ Checked(c).streak = IF drift[c].streak = Samples THEN drift[c].streak ELSE drift[c].streak + 1
  BY <1>1, <1>3 DEF Detector
<1> QED
  BY <1>1, <1>4

LEMMA SteadyStep ==
    ASSUME CameraInv, [PipelineNext]_pipeline, NEW c \in Cameras,
           Steady(c), view'[c] = view[c], main' # "down"
    PROVE  /\ Running'
           /\ drift'[c].reference = drift[c].reference /\ drift'[c].streak >= drift[c].streak
           /\ c \in flagged => c \in flagged'
           /\ latest'[c] # Nothing => DiffersFrom(drift[c], latest'[c])
           /\ \A v \in Views : <<c, v>> \in batch' => DiffersFrom(drift[c], v)
<1> USE DEF disk, threads, round, checks
<1>0. /\ PipelineTypeOK /\ Spent /\ drift[c].streak >= drift[c].streak
      /\ main # "down" /\ DiffersFrom(drift[c], view[c])
      /\ latest[c] # Nothing => DiffersFrom(drift[c], latest[c])
      /\ \A v \in Views : <<c, v>> \in batch => DiffersFrom(drift[c], v)
  <2>1. drift[c].streak \in 0 .. Samples /\ Samples \in Nat
    BY PipelineAssumption DEF CameraInv, PipelineTypeOK
  <2> QED
    BY <2>1 DEF CameraInv, Steady, Drifted, Running
<1> DEFINE Goal == /\ Running'
                   /\ drift'[c].reference = drift[c].reference /\ drift'[c].streak >= drift[c].streak
                   /\ c \in flagged => c \in flagged'
                   /\ latest'[c] # Nothing => DiffersFrom(drift[c], latest'[c])
                   /\ \A v \in Views : <<c, v>> \in batch' => DiffersFrom(drift[c], v)
<1>1. ASSUME NEW x \in Cameras, Decode(x) PROVE Goal
  <2>1. /\ UNCHANGED <<main, batch, drift, flagged>>
        /\ latest' = latest \/ latest' = [latest EXCEPT ![x] = view[x]]
    BY <1>0, <1>1, WorkerStep
  <2>2. latest'[c] \in {latest[c], view[c]}
    BY <1>0, <2>1 DEF PipelineTypeOK
  <2> QED
    BY <1>0, <2>1, <2>2 DEF Running
<1>2. ASSUME NEW x \in Cameras, Change(x) \/ Recalibrate(x) PROVE Goal
  <2>1. UNCHANGED <<main, latest, batch, drift, flagged>>
    BY <1>2 DEF Change, Recalibrate
  <2> QED
    BY <1>0, <2>1 DEF Running
<1>3. CASE NewRound \/ Look
  <2>1. main' \in {"taking", "head"} /\ UNCHANGED <<latest, drift, flagged>> /\ batch' \subseteq batch
    BY <1>3 DEF NewRound, Look
  <2> QED
    BY <1>0, <2>1 DEF Running
<1>4. ASSUME NEW x \in Cameras, Take(x) PROVE Goal
  <2>1. /\ UNCHANGED <<drift, flagged>> /\ latest' = [latest EXCEPT ![x] = Nothing]
        /\ \/ batch' = batch
           \/ latest[x] # Nothing /\ batch' = batch \cup {<<x, latest[x]>>}
    BY <1>4 DEF Take
  <2>2. latest'[c] \in {latest[c], Nothing}
    BY <1>0, <2>1 DEF PipelineTypeOK
  <2>3. ASSUME NEW v \in Views, <<c, v>> \in batch' PROVE DiffersFrom(drift[c], v)
    <3>1. <<c, v>> = <<x, latest[x]>> => c = x /\ v = latest[x]
      OBVIOUS
    <3> QED
      BY <1>0, <2>1, <2>3, <3>1
  <2> QED
    BY <1>0, <2>1, <2>2, <2>3 DEF Running
<1>5. ASSUME NEW sweep \in BOOLEAN, NEW flush \in BOOLEAN, Count(sweep, flush) PROVE Goal
  <2>1. /\ main' = "head" /\ batch' = {} /\ latest' = latest /\ flagged \subseteq flagged'
        /\ drift'[c] = IF sweep /\ InBatch(c) THEN Checked(c) ELSE drift[c]
    BY <1>0, <1>5, CountFacts
  <2>2. CASE sweep /\ InBatch(c)
    <3>1. /\ drift'[c].reference = drift[c].reference
          /\ drift'[c].streak >= drift[c].streak
      BY <2>1, <2>2, CheckCounts
    <3> QED
      BY <1>0, <2>1, <3>1 DEF Running
  <2>3. CASE ~ (sweep /\ InBatch(c))
    BY <1>0, <2>1, <2>3 DEF Running
  <2> QED
    BY <2>2, <2>3
<1>6. ~ (Close \/ Crash \/ Start)
  BY <1>0 DEF Close, Crash, Start
<1>7. CASE UNCHANGED pipeline
  BY <1>0, <1>7 DEF pipeline, Running
<1> QED
  BY <1>1, <1>2, <1>3, <1>4, <1>5, <1>6, <1>7 DEF PipelineNext, Loop

\* Once the frames show that a camera has drifted each check counts, and the camera is
\* flagged by the drift_samples-th of them at the latest, and stays so while the process
\* runs and it is left alone (calibration.py:87-94, pipeline.py:271-290).
THEOREM DriftChecksCount == PipelineSpec => DriftIsCounted
<1> DEFINE EachCounts == \A c \in Cameras :
             Steady(c) /\ view'[c] = view[c] /\ main' # "down" =>
                 /\ Steady(c)'
                 /\ c \in flagged => c \in flagged'
                 /\ drift'[c].streak >= drift[c].streak
                 /\ InBatch(c) /\ (\E flush \in BOOLEAN : Count(TRUE, flush)) =>
                        c \in flagged' \/ drift'[c].streak > drift[c].streak
<1>1. CameraInv /\ [PipelineNext]_pipeline => EachCounts
  <2> SUFFICES ASSUME CameraInv, [PipelineNext]_pipeline, NEW c \in Cameras,
                      Steady(c), view'[c] = view[c], main' # "down"
               PROVE  /\ Steady(c)'
                      /\ c \in flagged => c \in flagged'
                      /\ drift'[c].streak >= drift[c].streak
                      /\ InBatch(c) /\ (\E flush \in BOOLEAN : Count(TRUE, flush)) =>
                             c \in flagged' \/ drift'[c].streak > drift[c].streak
    OBVIOUS
  <2>1. /\ Running'
        /\ drift'[c].reference = drift[c].reference /\ drift'[c].streak >= drift[c].streak
        /\ c \in flagged => c \in flagged'
        /\ latest'[c] # Nothing => DiffersFrom(drift[c], latest'[c])
        /\ \A v \in Views : <<c, v>> \in batch' => DiffersFrom(drift[c], v)
    BY SteadyStep
  <2>2. Steady(c)'
    BY <2>1 DEF Steady, Drifted, DiffersFrom
  <2>3. ASSUME InBatch(c), NEW flush \in BOOLEAN, Count(TRUE, flush)
        PROVE  c \in flagged' \/ drift'[c].streak > drift[c].streak
    <3>1. /\ drift'[c] = Checked(c)
          /\ drift'[c].streak >= Samples => c \in flagged'
      BY <2>3, CountFacts DEF CameraInv
    <3> QED
      BY <2>3, <3>1, CheckCounts
  <2> QED
    BY <2>1, <2>2, <2>3
<1> QED
  BY <1>1, CameraInvariance, PTL DEF PipelineSpec, DriftIsCounted

\* A worker that has given up is left as it is for as long as the process runs, and
\* whatever is written of its camera meanwhile does not say online.
DeadStaysDead ==
    [][\A c \in Cameras :
          worker[c].error # Nothing /\ Running =>
              /\ worker'[c] = worker[c]
              /\ health'[c] # health[c] => health'[c] # "online"]_pipeline

\* The safety half of DeadIsReported: no step brings a camera whose worker has given up
\* back online, and no frame of it is published any more; that a health row is written
\* at all is for TLC (pipeline.py:96-133, 315-346).
THEOREM DeadIsNotRevived == PipelineSpec => DeadStaysDead
<1> DEFINE GivenUp == \A c \in Cameras :
             worker[c].error # Nothing /\ Running =>
                 /\ worker'[c] = worker[c]
                 /\ health'[c] # health[c] => health'[c] # "online"
<1>1. CameraInv /\ [PipelineNext]_pipeline => GivenUp
  <2> SUFFICES ASSUME CameraInv, [PipelineNext]_pipeline, NEW c \in Cameras,
                      worker[c].error # Nothing, Running
               PROVE  /\ worker'[c] = worker[c]
                      /\ health'[c] # health[c] => health'[c] # "online"
    OBVIOUS
  <2> USE DEF disk, threads
  <2>0. PipelineTypeOK /\ Spent /\ worker[c].pc = "over"
    BY DEF CameraInv, Spent, Attempting
  <2>1. ASSUME NEW s, NEW m, WriteHealth(s, m) PROVE health'[c] # "online"
    BY <2>1, HealthType DEF Status
  <2>2. ASSUME NEW x \in Cameras, Decode(x)
        PROVE  worker'[c] = worker[c] /\ health' = health
    <3>1. worker[x].pc # "over"
      BY <2>2 DEF Decode, Open, Publish, Freeze, Drop, Finish
    <3>2. \E w : worker' = [worker EXCEPT ![x] = w]
      BY <2>2 DEF Decode, Open, Publish, Freeze, Drop, Finish, Goes, Fails
    <3>3. x # c /\ health' = health
      BY <2>0, <2>2, <3>1, WorkerStep
    <3> QED
      BY <2>0, <3>2, <3>3 DEF PipelineTypeOK
  <2>3. ASSUME NEW x \in Cameras, Change(x) \/ Recalibrate(x) PROVE UNCHANGED <<worker, health>>
    BY <2>3 DEF Change, Recalibrate
  <2>4. CASE NewRound \/ Look \/ Crash
    BY <2>4 DEF NewRound, Look, Crash
  <2>5. ASSUME NEW x \in Cameras, Take(x) PROVE UNCHANGED <<worker, health>>
    BY <2>5 DEF Take
  <2>6. CASE Close
    BY <2>1, <2>6 DEF Close
  <2>7. ASSUME NEW sweep \in BOOLEAN, NEW flush \in BOOLEAN, Count(sweep, flush)
        PROVE  worker'[c] = worker[c] /\ (health'[c] # health[c] => health'[c] # "online")
    BY <2>1, <2>7 DEF Count
  <2>8. ~ Start
    BY DEF Start, Running
  <2>9. CASE UNCHANGED pipeline
    BY <2>9 DEF pipeline
  <2> QED
    BY <2>2, <2>3, <2>4, <2>5, <2>6, <2>7, <2>8, <2>9 DEF PipelineNext, Loop
<1> QED
  BY <1>1, CameraInvariance, PTL DEF PipelineSpec, DeadStaysDead

-----------------------------------------------------------------------------
(* The alerts. *)

\* No two open rows have one key, whatever evaluations run at once (fleet.py:11).
THEOREM OneOpenAlways == Spec => []OneOpen
<1>1. Init => OneOpen
  BY DEF Init, OneOpen
<1>2. OneOpen /\ [Next]_vars => OneOpen'
  <2> SUFFICES ASSUME OneOpen, [Next]_vars PROVE OneOpen'
    OBVIOUS
  <2>1. CASE open' = open
    BY <2>1 DEF OneOpen
  <2>2. ASSUME NEW e \in Evaluators, Commit(e) PROVE OneOpen'
    <3>1. CASE Admitted(e)
      <4>1. open' = Kept(e) \cup {<<f[2], NewId, f[1]>> : f \in Added(e)}
        BY <2>2, <3>1 DEF Commit
      <4>2. Kept(e) \subseteq open
        BY DEF Kept
      <4>3. \A row \in open, f \in Added(e) : f[2] # row[1]
        BY <3>1 DEF Admitted, Keys
      <4>4. \A f, g \in Added(e) : f[2] = g[2] => f = g
        BY <3>1 DEF Admitted
      <4> QED
        BY <4>1, <4>2, <4>3, <4>4 DEF OneOpen
    <3>2. CASE ~ Admitted(e)
      BY <2>1, <2>2, <3>2 DEF Commit
    <3> QED
      BY <3>1, <3>2
  <2> QED
    BY <2>1, <2>2 DEF Next, vars, Tick, Pair, Revoke, Heartbeat, Contact, Evaluate, Judge, ReadOpen
<1> QED
  BY <1>1, <1>2, PTL DEF Spec

-----------------------------------------------------------------------------
(* The boxes. *)

BoxTypes ==
    /\ now \in Times
    /\ paired \subseteq Boxes /\ revoked \subseteq paired
    /\ seen \in [Boxes -> Times \cup {None}]
    /\ beat \in [Boxes -> Beat \cup {None}]
    /\ samples \in [Boxes -> {s \in Seq(Nat \cup {None}) : Len(s) <= Baseline}]
    /\ sent \in [Boxes -> 0 .. MaxBeats]

\* What a box tells of syncing is not later than it was last seen.
Heard ==
    \A b \in Boxes :
        /\ seen[b] # None => seen[b] <= now
        /\ beat[b] # None =>
              /\ seen[b] # None
              /\ beat[b].sync # None => beat[b].sync <= seen[b]

LEMMA AgoType == ASSUME now \in Int, NEW age \in Nat \cup {None}
                 PROVE  Ago(age) \in Instant /\ (Ago(age) # None => Ago(age) <= now)
BY FleetAssumption DEF Ago, Instant

LEMMA LastOfType ==
    ASSUME NEW S, NEW s \in Seq(S), NEW n \in Nat
    PROVE  LastOf(s, n) \in {t \in Seq(S) : Len(t) <= n}
<1>1. CASE Len(s) <= n
  BY <1>1 DEF LastOf
<1>2. CASE ~ Len(s) <= n
  <2>1. Len(s) \in Nat /\ Len(s) - n + 1 \in 1 .. Len(s) + 1 /\ \A i \in 1 .. Len(s) : s[i] \in S
    BY <1>2
  <2>2. \A i \in Len(s) - n + 1 .. Len(s) : s[i] \in S
    BY <2>1
  <2>3. /\ SubSeq(s, Len(s) - n + 1, Len(s)) \in Seq(S)
        /\ Len(SubSeq(s, Len(s) - n + 1, Len(s))) =
              IF Len(s) - n + 1 <= Len(s) THEN Len(s) - (Len(s) - n + 1) + 1 ELSE 0
    BY <2>1, <2>2, SubSeqProperties
  <2> QED
    BY <1>2, <2>1, <2>3 DEF LastOf
<1> QED
  BY <1>1, <1>2

BoxInv == BoxTypes /\ Heard

LEMMA BoxStep == BoxInv /\ [Next]_vars => BoxInv'
<1> SUFFICES ASSUME BoxInv, [Next]_vars PROVE BoxInv'
  OBVIOUS
<1> USE FleetAssumption DEF BoxInv
<1>0. now \in Int /\ MaxTime \in Nat /\ now \in Times
  BY DEF BoxTypes, Times
<1>1. CASE UNCHANGED fleet
  BY <1>1 DEF BoxTypes, Heard, fleet
<1>2. CASE Tick
  <2>1. now' \in Times /\ now < now' /\ UNCHANGED <<paired, revoked, seen, beat, samples, sent>>
    BY <1>0, <1>2 DEF Tick, Times
  <2>2. \A b \in Boxes : seen[b] # None => seen[b] \in Int
    BY DEF BoxTypes, Times
  <2>3. BoxTypes'
    BY <2>1 DEF BoxTypes
  <2>4. Heard'
    BY <1>0, <2>1, <2>2 DEF Heard, Times
  <2> QED
    BY <2>3, <2>4
<1>3. ASSUME NEW b \in Boxes, Contact(b) PROVE BoxInv'
  <2>1. seen' = [seen EXCEPT ![b] = now] /\ UNCHANGED <<now, paired, revoked, beat, samples, sent>>
    BY <1>3 DEF Contact
  <2>2. BoxTypes'
    BY <1>0, <2>1 DEF BoxTypes
  <2>3. now # None /\ now <= now
    BY <1>0
  <2>4. beat[b] # None /\ beat[b].sync # None => beat[b].sync <= now
    <3> SUFFICES ASSUME beat[b] # None, beat[b].sync # None PROVE beat[b].sync <= now
      OBVIOUS
    <3>1. beat[b].sync \in Int
      BY DEF BoxTypes, Beat, Instant
    <3>2. seen[b] \in Int /\ beat[b].sync <= seen[b] /\ seen[b] <= now
      BY DEF BoxTypes, Heard, Times
    <3> QED
      BY <1>0, <3>1, <3>2
  <2>5. seen'[b] = now /\ \A x \in Boxes \ {b} : seen'[x] = seen[x]
    BY <2>1 DEF BoxTypes
  <2>6. Heard'
    BY <2>1, <2>3, <2>4, <2>5 DEF Heard
  <2> QED
    BY <2>2, <2>6
<1>4. ASSUME NEW b \in Boxes, NEW r \in Reports, Heartbeat(b, r) PROVE BoxInv'
  <2> DEFINE hb == [behind |-> r.behind, diskLow |-> r.diskLow, sync |-> Ago(r.syncAge),
                    camera |-> [frame |-> Ago(r.camera.age), moved |-> r.camera.moved,
                                confidence |-> r.camera.confidence]]
  <2>1. r \in Report /\ r.camera \in CameraReport
    BY DEF Report
  <2>2. Ago(r.syncAge) \in Instant /\ Ago(r.camera.age) \in Instant
        /\ (Ago(r.syncAge) # None => Ago(r.syncAge) <= now)
    BY <1>0, <2>1, AgoType DEF Report, CameraReport
  <2>3. hb \in Beat
    BY <2>1, <2>2 DEF Beat, Report, CameraReport
  <2>4. hb.sync = Ago(r.syncAge)
    OBVIOUS
  <2>5. beat' = [beat EXCEPT ![b] = hb] /\ seen' = [seen EXCEPT ![b] = now]
        /\ sent' = [sent EXCEPT ![b] = @ + 1] /\ sent[b] < MaxBeats
        /\ samples' = [samples EXCEPT ![b] = LastOf(Append(samples[b], r.camera.confidence), Baseline)]
        /\ UNCHANGED <<now, paired, revoked>>
    BY <1>4 DEF Heartbeat
  <2> HIDE DEF hb
  <2>6. LastOf(Append(samples[b], r.camera.confidence), Baseline)
            \in {s \in Seq(Nat \cup {None}) : Len(s) <= Baseline}
    <3>1. Append(samples[b], r.camera.confidence) \in Seq(Nat \cup {None})
      BY <2>1 DEF BoxTypes, CameraReport
    <3> QED
      BY <3>1, LastOfType
  <2>7. BoxTypes'
    <3>1. sent' \in [Boxes -> 0 .. MaxBeats]
      BY <2>5 DEF BoxTypes
    <3>2. beat' \in [Boxes -> Beat \cup {None}] /\ seen' \in [Boxes -> Times \cup {None}]
      BY <1>0, <2>3, <2>5 DEF BoxTypes
    <3>3. samples' \in [Boxes -> {s \in Seq(Nat \cup {None}) : Len(s) <= Baseline}]
      BY <2>5, <2>6 DEF BoxTypes
    <3> QED
      BY <2>5, <3>1, <3>2, <3>3 DEF BoxTypes
  <2>8. /\ seen'[b] = now /\ beat'[b] = hb
        /\ \A x \in Boxes \ {b} : seen'[x] = seen[x] /\ beat'[x] = beat[x]
    BY <2>5 DEF BoxTypes
  <2>9. Heard'
    <3>1. now # None /\ now <= now /\ now' = now
      BY <1>0, <2>5
    <3>2. hb.sync # None => hb.sync <= now
      BY <2>2, <2>4
    <3> QED
      BY <2>8, <3>1, <3>2 DEF Heard
  <2> QED
    BY <2>7, <2>9
<1>5. ASSUME NEW b \in Boxes, Pair(b) \/ Revoke(b) PROVE BoxInv'
  BY <1>5 DEF Pair, Revoke, BoxTypes, Heard
<1> QED
  BY <1>1, <1>2, <1>3, <1>4, <1>5
     DEF Next, vars, fleet, Evaluate, Judge, ReadOpen, Commit

LEMMA BoxInvariance == Spec => []BoxInv
<1>1. Init => BoxInv
  BY FleetAssumption DEF Init, BoxInv, BoxTypes, Heard, Times
<1> QED
  BY <1>1, BoxStep, PTL DEF Spec

\* A box that has reported and then falls silent is found within the stale window, for
\* any thresholds, whatever its last heartbeat said of syncing (fleet.py:166-168).
THEOREM SilentBoxIsFound == Spec => []SilenceIsFound
<1>1. BoxInv => SilenceIsFound
  <2> SUFFICES ASSUME BoxInv, NEW b \in paired \ revoked, beat[b] # None, Older(seen[b], StaleHours)
               PROVE  <<b, <<"sync_stale", Label[b]>>>> \in Findings
    BY DEF SilenceIsFound
  <2> USE FleetAssumption DEF BoxInv
  <2>1. b \in Boxes /\ now \in Int /\ StaleHours \in Int
    BY DEF BoxTypes, Times
  <2>2. seen[b] # None /\ seen[b] \in Int /\ now - seen[b] > StaleHours
    BY <2>1 DEF BoxTypes, Times, Older
  <2>3. beat[b].sync # None => beat[b].sync \in Int /\ beat[b].sync <= seen[b]
    BY <2>1 DEF BoxTypes, Heard, Beat, Instant
  <2>4. Older(LastSync(b, beat[b]), StaleHours)
    BY <2>1, <2>2, <2>3 DEF Older, LastSync
  <2>5. <<"sync_stale", Label[b]>> \in BoxAlerts(b)
    BY <2>4 DEF BoxAlerts
  <2> QED
    BY <2>5 DEF Findings
<1> QED
  BY <1>1, BoxInvariance, PTL

-----------------------------------------------------------------------------
(* The rows. *)

OpenRow == Key \X Nat \X Boxes

RowTypes ==
    /\ open \subseteq OpenRow /\ IsFiniteSet(open)
    /\ evaluator \in [Evaluators -> [pc : {"idle", "judged", "read"}, found : SUBSET Found,
                                     rows : {rows \in SUBSET OpenRow : IsFiniteSet(rows)}]]

LEMMA Image == ASSUME NEW S, IsFiniteSet(S), NEW f, f = [x \in S |-> f[x]]
               PROVE  IsFiniteSet({f[x] : x \in S})
<1>1. f \in Surjection(S, {f[x] : x \in S})
  BY DEF Surjection
<1> QED
  BY <1>1, FS_Surjection

LEMMA FoundFinite == IsFiniteSet(Found)
<1>1. IsFiniteSet(Kinds)
  <2>1. Kinds = {"agent_behind"} \cup {"never_reported"} \cup {"sync_stale"} \cup {"disk_low"}
                  \cup {"camera_dark"} \cup {"camera_moved"} \cup {"low_confidence"}
    BY DEF Kinds
  <2> QED
    BY <2>1, FS_Singleton, FS_Union
<1>2. IsFiniteSet({Label[b] : b \in Boxes})
  <2> DEFINE f == [b \in Boxes |-> Label[b]]
  <2>1. {f[b] : b \in Boxes} = {Label[b] : b \in Boxes}
    OBVIOUS
  <2>2. f = [b \in Boxes |-> f[b]]
    OBVIOUS
  <2> HIDE DEF f
  <2> QED
    BY <2>1, <2>2, Image, FleetAssumption
<1>3. IsFiniteSet(CameraNames)
  <2> DEFINE f == [b \in Boxes |-> CamerasOf[b]]
  <2>1. {f[b] : b \in Boxes} = {CamerasOf[b] : b \in Boxes}
    OBVIOUS
  <2>2. f = [b \in Boxes |-> f[b]]
    OBVIOUS
  <2> HIDE DEF f
  <2>3. IsFiniteSet({CamerasOf[b] : b \in Boxes})
    BY <2>1, <2>2, Image, FleetAssumption
  <2> QED
    BY <2>3, FS_UNION, FleetAssumption DEF CameraNames
<1>4. IsFiniteSet(Key)
  BY <1>1, <1>2, <1>3, FS_Union, FS_Product DEF Key
<1> QED
  BY <1>4, FS_Product, FleetAssumption DEF Found

LEMMA FindingsType == ASSUME BoxInv PROVE Findings \subseteq Found
<1> SUFFICES ASSUME NEW b \in paired \ revoked PROVE BoxAlerts(b) \subseteq Key
  BY DEF Findings, Found, BoxInv, BoxTypes
<1>1. b \in Boxes /\ Label[b] \in {Label[x] : x \in Boxes} /\ CamerasOf[b] \subseteq CameraNames
  BY DEF BoxInv, BoxTypes, CameraNames
<1>2. \A hb : CameraKinds(b, hb) \subseteq Kinds
  BY DEF CameraKinds, Kinds
<1>3. <<"never_reported", Label[b]>> \in Key
  BY <1>1 DEF Key, Kinds
<1>4. \A ks \in SUBSET Kinds : ks \X {Label[b]} \subseteq Key /\ ks \X CamerasOf[b] \subseteq Key
  BY <1>1 DEF Key
<1> QED
  <2>1. CASE beat[b] = None
    BY <1>3, <2>1 DEF BoxAlerts
  <2>2. CASE beat[b] # None
    <3> DEFINE ks == {k \in {"agent_behind", "sync_stale", "disk_low"} :
                          CASE k = "agent_behind" -> beat[b].behind
                            [] k = "sync_stale" -> Older(LastSync(b, beat[b]), StaleHours)
                            [] k = "disk_low" -> beat[b].diskLow}
    <3>1. BoxAlerts(b) = (ks \X {Label[b]}) \cup (CameraKinds(b, beat[b]) \X CamerasOf[b])
      BY <2>2 DEF BoxAlerts
    <3>2. ks \subseteq Kinds
      BY DEF Kinds
    <3> HIDE DEF ks
    <3> QED
      BY <1>2, <1>4, <3>1, <3>2
  <2> QED
    BY <2>1, <2>2

\* Some id is free: there are more candidates than rows.
LEMMA NewIdType == ASSUME RowTypes PROVE NewId \in Nat
<1> DEFINE rowsOf == [e \in Evaluators |-> evaluator[e].rows]
           referred == open \cup UNION {evaluator[e].rows : e \in Evaluators}
           n == Cardinality(referred)
           free(k) == \A row \in referred : row[2] # k
<1>1. IsFiniteSet(referred)
  <2>1. {rowsOf[e] : e \in Evaluators} = {evaluator[e].rows : e \in Evaluators}
    OBVIOUS
  <2>2. rowsOf = [e \in Evaluators |-> rowsOf[e]]
    OBVIOUS
  <2> HIDE DEF rowsOf
  <2>3. IsFiniteSet({evaluator[e].rows : e \in Evaluators})
    <3>1. IsFiniteSet(Evaluators)
      BY FleetAssumption
    <3>2. IsFiniteSet({rowsOf[e] : e \in Evaluators})
      BY <2>2, <3>1, Image
    <3> QED
      BY <2>1, <3>2
  <2>4. \A e \in Evaluators : IsFiniteSet(evaluator[e].rows)
    BY DEF RowTypes
  <2>5. IsFiniteSet(UNION {evaluator[e].rows : e \in Evaluators})
    BY <2>3, <2>4, FS_UNION
  <2>6. IsFiniteSet(open)
    BY DEF RowTypes
  <2> QED
    BY <2>5, <2>6, FS_Union
<1> HIDE DEF referred
<1>2. n \in Nat
  BY <1>1, FS_CardinalityType
<1>3. \E k \in 1 .. n + 1 : free(k)
  <2> SUFFICES ASSUME \A k \in 1 .. n + 1 : \E row \in referred : row[2] = k PROVE FALSE
    OBVIOUS
  <2> DEFINE f == [k \in 1 .. n + 1 |-> CHOOSE row \in referred : row[2] = k]
  <2>1. \A k \in 1 .. n + 1 : f[k] \in referred /\ f[k][2] = k
    OBVIOUS
  <2>2. f \in [1 .. n + 1 -> referred]
    BY <2>1
  <2> HIDE DEF f
  <2>3. IsFiniteSet(1 .. n + 1) /\ Cardinality(1 .. n + 1) = n + 1
    BY <1>2, FS_Interval
  <2>4. Cardinality(referred) < Cardinality(1 .. n + 1)
    BY <1>2, <2>3
  <2> DEFINE ids == 1 .. n + 1
  <2> HIDE DEF ids
  <2>5. \E i, j \in ids : i # j /\ f[i] = f[j]
    <3>1. IsFiniteSet(ids) /\ Cardinality(referred) < Cardinality(ids) /\ f \in [ids -> referred]
      BY <2>2, <2>3, <2>4 DEF ids
    <3> HIDE DEF n
    <3> QED
      BY <1>1, <3>1, FS_PigeonHole
  <2> QED
    BY <2>1, <2>5 DEF ids
<1>4. NewId = CHOOSE k \in 1 .. n + 1 : free(k)
  BY DEF NewId, referred
<1> HIDE DEF free, n
<1>5. NewId \in 1 .. n + 1
  BY <1>3, <1>4
<1> QED
  BY <1>2, <1>5

LEMMA RowStep == BoxInv /\ RowTypes /\ [Next]_vars => RowTypes'
<1> SUFFICES ASSUME BoxInv, RowTypes, [Next]_vars PROVE RowTypes'
  OBVIOUS
<1> DEFINE Eval == [pc : {"idle", "judged", "read"}, found : SUBSET Found,
                    rows : {rows \in SUBSET OpenRow : IsFiniteSet(rows)}]
<1>0. open \subseteq OpenRow /\ IsFiniteSet(open) /\ evaluator \in [Evaluators -> Eval]
  BY DEF RowTypes
<1>1. CASE UNCHANGED <<open, evaluator>>
  BY <1>1 DEF RowTypes
<1>2. ASSUME NEW e \in Evaluators, Judge(e) PROVE RowTypes'
  <2>1. [pc |-> "judged", found |-> Findings, rows |-> {}] \in Eval
    BY FindingsType, FS_EmptySet
  <2> QED
    BY <1>0, <1>2, <2>1 DEF Judge, RowTypes
<1>3. ASSUME NEW e \in Evaluators, ReadOpen(e) PROVE RowTypes'
  <2>1. [[evaluator[e] EXCEPT !.pc = "read"] EXCEPT !.rows = open] \in Eval
    BY <1>0
  <2>2. evaluator' = [evaluator EXCEPT ![e] = [[@ EXCEPT !.pc = "read"] EXCEPT !.rows = open]]
    BY <1>0, <1>3 DEF ReadOpen
  <2> QED
    BY <1>0, <1>3, <2>1, <2>2 DEF ReadOpen, RowTypes
<1>4. ASSUME NEW e \in Evaluators, Commit(e) PROVE RowTypes'
  <2>1. Idle \in Eval
    BY FS_EmptySet DEF Idle
  <2>2. evaluator' \in [Evaluators -> Eval]
    BY <1>0, <1>4, <2>1 DEF Commit
  <2>3. open' \subseteq OpenRow /\ IsFiniteSet(open')
    <3>1. CASE ~ Admitted(e)
      BY <1>0, <1>4, <3>1 DEF Commit
    <3>2. CASE Admitted(e)
      <4> DEFINE f == [x \in Added(e) |-> <<x[2], NewId, x[1]>>]
      <4>1. Added(e) \subseteq Found
        BY <1>0 DEF Added
      <4>2. IsFiniteSet(Added(e))
        BY <4>1, FoundFinite, FS_Subset
      <4>3. {<<x[2], NewId, x[1]>> : x \in Added(e)} = {f[x] : x \in Added(e)}
        OBVIOUS
      <4>4. f = [x \in Added(e) |-> f[x]]
        OBVIOUS
      <4>5. {<<x[2], NewId, x[1]>> : x \in Added(e)} \subseteq OpenRow
        BY <4>1, NewIdType DEF Found, OpenRow
      <4> HIDE DEF f
      <4>6. IsFiniteSet({<<x[2], NewId, x[1]>> : x \in Added(e)})
        BY <4>2, <4>3, <4>4, Image
      <4>7. Kept(e) \in SUBSET open
        BY DEF Kept
      <4>8. IsFiniteSet(Kept(e))
        BY <1>0, <4>7, FS_Subset
      <4>9. open' = Kept(e) \cup {<<x[2], NewId, x[1]>> : x \in Added(e)}
        BY <1>4, <3>2 DEF Commit
      <4> QED
        BY <1>0, <4>5, <4>6, <4>7, <4>8, <4>9, FS_Union
    <3> QED
      BY <3>1, <3>2
  <2> QED
    BY <2>2, <2>3 DEF RowTypes
<1> QED
  BY <1>1, <1>2, <1>3, <1>4
     DEF Next, vars, Evaluate, Tick, Pair, Revoke, Heartbeat, Contact

LEMMA RowsInvariance == Spec => []RowTypes
<1>1. Init => RowTypes
  BY FS_EmptySet DEF Init, RowTypes, Idle
<1> QED
  BY <1>1, RowStep, BoxInvariance, PTL DEF Spec

\* Boxes, rows and evaluations keep their types, whatever evaluations run at once
\* (fleet.py:221-307).
THEOREM TypeCorrect == Spec => []TypeOK
<1>1. BoxInv /\ RowTypes => TypeOK
  BY DEF BoxInv, BoxTypes, RowTypes, TypeOK, OpenRow
<1> QED
  BY <1>1, RowsInvariance, BoxInvariance, PTL

-----------------------------------------------------------------------------
(* What a commit makes of the rows. *)

\* An evaluation that has read its rows and is idle in the next state has committed, or
\* has had its commit refused.
LEMMA EndIsCommit ==
    ASSUME RowTypes, [Next]_vars, NEW e \in Evaluators,
           evaluator[e].pc = "read", evaluator'[e].pc = "idle"
    PROVE  Commit(e)
<1>1. \A x \in Evaluators : Judge(x) => evaluator'[e] = evaluator[e]
  BY DEF Judge, RowTypes
<1>2. \A x \in Evaluators : ReadOpen(x) => evaluator'[e] = evaluator[e]
  BY DEF ReadOpen, RowTypes
<1>3. \A x \in Evaluators : Commit(x) /\ x # e => evaluator'[e] = evaluator[e]
  BY DEF Commit, RowTypes
<1>4. evaluator' # evaluator
  OBVIOUS
<1> QED
  BY <1>1, <1>2, <1>3, <1>4 DEF Next, vars, Evaluate, Tick, Pair, Revoke, Heartbeat, Contact

\* Only a commit changes the rows.
LEMMA OpenChanges == [Next]_vars /\ open' # open => \E e \in Evaluators : Commit(e)
BY DEF Next, vars, Evaluate, Judge, ReadOpen, Tick, Pair, Revoke, Heartbeat, Contact

\* Of the keys that are open a commit leaves only those that were not read, or are found;
\* it keeps those that are found, and adds keys that are found.
LEMMA CommittedKeys ==
    ASSUME NEW e \in Evaluators, Commit(e)
    PROVE  /\ Keys(open') \subseteq Keys(open) \cup Current(e)
           /\ Keys(open) \cap Current(e) \subseteq Keys(open')
<1>1. CASE ~ Admitted(e)
  BY <1>1 DEF Commit
<1>2. CASE Admitted(e)
  <2>1. open' = Kept(e) \cup {<<f[2], NewId, f[1]>> : f \in Added(e)}
    BY <1>2 DEF Commit
  <2>2. \A f \in Added(e) : f[2] \in Current(e)
    BY DEF Added, Current
  <2>3. Kept(e) \subseteq open /\ \A row \in open : row[1] \in Current(e) => row \in Kept(e)
    BY DEF Kept
  <2> QED
    BY <2>1, <2>2, <2>3 DEF Keys
<1> QED
  BY <1>1, <1>2

\* Evaluations that have seen the boxes as they are make the table only better, however
\* many run at once, whatever rows they have read, and whatever names boxes share
\* (fleet.py:278-307).
THEOREM AlertsNeverWorse == Spec => NeverWorse
<1>1. [Next]_vars =>
        ((\A e \in Evaluators : Undisturbed(e)) /\ UNCHANGED fleet => Wrong' \subseteq Wrong)
  <2> SUFFICES ASSUME [Next]_vars, \A e \in Evaluators : Undisturbed(e), UNCHANGED fleet
               PROVE  Wrong' \subseteq Wrong
    OBVIOUS
  <2>1. Names' = Names
    BY DEF Names, Findings, BoxAlerts, CameraKinds, LowConfidence, LastSync, Older, fleet
  <2>2. CASE open' = open
    BY <2>1, <2>2 DEF Wrong, Keys
  <2>3. ASSUME NEW e \in Evaluators, Commit(e) PROVE Wrong' \subseteq Wrong
    <3>1. Current(e) = Names
      BY <2>3 DEF Undisturbed, Commit, Current, Names
    <3>2. Keys(open') \subseteq Keys(open) \cup Names /\ Keys(open) \cap Names \subseteq Keys(open')
      BY <2>3, <3>1, CommittedKeys
    <3> QED
      BY <2>1, <3>2 DEF Wrong, Keys
  <2> QED
    BY <2>2, <2>3, OpenChanges
<1> QED
  BY <1>1, PTL DEF Spec, NeverWorse

\* A commit that no clash refuses, whoever has committed since the rows were read.
LEMMA CommitMatches ==
    ASSUME NEW e \in Evaluators, Commit(e), ~ Clash(e)
    PROVE  /\ Current(e) \subseteq Keys(open') \cup (Keys(evaluator[e].rows) \ Keys(open))
           /\ \A row \in open' : row[1] \in Current(e) \/ row \in open \ evaluator[e].rows
<1> DEFINE rows == evaluator[e].rows
           new(f) == <<f[2], NewId, f[1]>>
<1>1. Admitted(e)
  BY DEF Admitted, Clash
<1>2. open' = Kept(e) \cup {new(f) : f \in Added(e)}
  BY <1>1 DEF Commit
<1>3. \A row \in Kept(e) : row \in open /\ (row[1] \in Current(e) \/ row \notin rows)
  BY DEF Kept
<1>4. \A row \in open : row[1] \in Current(e) => row \in Kept(e)
  BY DEF Kept
<1>5. \A f \in Added(e) : new(f)[1] = f[2] /\ f[2] \in Current(e)
  BY DEF Added, Current
<1>6. \A k \in Current(e) : k \in Keys(rows) \/ \E f \in Added(e) : f[2] = k
  BY DEF Added, Current
<1> HIDE DEF new, rows
<1>7. ASSUME NEW k \in Current(e) PROVE k \in Keys(open') \cup (Keys(rows) \ Keys(open))
  <2>1. CASE \E f \in Added(e) : f[2] = k
    <3>1. PICK f \in Added(e) : f[2] = k
      BY <2>1
    <3>2. new(f) \in open' /\ new(f)[1] = k
      BY <1>2, <1>5, <3>1
    <3> QED
      BY <3>2 DEF Keys
  <2>2. CASE k \in Keys(open)
    <3>1. PICK row \in open : row[1] = k
      BY <2>2 DEF Keys
    <3>2. row \in open'
      BY <1>2, <1>4, <1>7, <3>1
    <3> QED
      BY <3>1, <3>2 DEF Keys
  <2> QED
    BY <1>6, <1>7, <2>1, <2>2
<1>8. \A row \in open' : row[1] \in Current(e) \/ row \in open \ rows
  BY <1>2, <1>3, <1>5
<1> QED
  BY <1>7, <1>8 DEF rows

LEMMA ClashIsRefused ==
    ASSUME NEW e \in Evaluators, Commit(e), Clash(e)
    PROVE  open' = open
<1>1. ~ Admitted(e)
  BY DEF Admitted, Clash
<1> QED
  BY <1>1 DEF Commit

\* An evaluation leaves open what it found, save what others have opened and resolved
\* since it read the rows, and leaves all as it was when its alerts clash, however many
\* run at once and whatever names boxes share (fleet.py:275).
THEOREM AlertsMatchEvaluated == Spec => MatchesEvaluated
<1>1. RowTypes /\ [Next]_vars =>
        \A e \in Evaluators :
          evaluator[e].pc = "read" /\ evaluator'[e].pc = "idle" =>
              LET found == {f[2] : f \in evaluator[e].found}
                  rows == evaluator[e].rows
              IN  IF Clash(e)
                  THEN open' = open
                  ELSE /\ found \subseteq Keys(open') \cup (Keys(rows) \ Keys(open))
                       /\ \A row \in open' : row[1] \in found \/ row \in open \ rows
  BY EndIsCommit, CommitMatches, ClashIsRefused DEF Current
<1> QED
  BY <1>1, RowsInvariance, PTL DEF Spec, MatchesEvaluated
=============================================================================
