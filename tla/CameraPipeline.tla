---------------------------- MODULE CameraPipeline ----------------------------
(***************************************************************************)
(* The agent's threads (edge/agent/pipeline.py with decode.py and          *)
(* calibration.py): one worker per camera that decodes its source and      *)
(* keeps the newest frame, and the loop that takes the fresh frames of all *)
(* cameras, compares their views with the references, counts them and      *)
(* writes the health rows the sync process reads.                          *)
(*                                                                         *)
(* A frame is the view it shows, of which the code knows a hash: two views *)
(* are far apart if their hashes differ in more bits than the threshold.   *)
(* A camera that is bumped, the light and the scene all change the view.   *)
(* Sources, clocks and the operator are external.  What counting makes of  *)
(* a frame is ZoneBuckets and SiteTotals.                                  *)
(***************************************************************************)
EXTENDS Naturals, FiniteSets

CONSTANTS
    Cameras,
    Live,               \* cameras with a live source; the others read a file
    Views,
    Far,                \* the pairs of views more than drift_threshold bits apart
    Changing,           \* cameras whose view changes
    MaxReconnects,      \* max_reconnects
    Samples,            \* drift_samples
    MayCrash,           \* whether the process may be killed
    Nothing

ASSUME PipelineAssumption ==
    /\ Live \subseteq Cameras /\ Changing \subseteq Cameras
    /\ Far \subseteq Views \X Views /\ \A v \in Views : <<v, v>> \notin Far
    /\ MaxReconnects \in Nat /\ Samples \in Nat \ {0} /\ MayCrash \in BOOLEAN

Statuses == {"online", "offline", "frozen", "needs_recalibration"}

ASSUME NothingIsNothing == Nothing \notin Views \cup Statuses

VARIABLES
    view,               \* what each camera looks at
    ref,                \* RefStore, on disk
    health,             \* the status in each camera's row of camera_health
    worker,             \* each worker: what it does, its consecutive failures, its error
    latest,             \* the newest frame nobody has taken, if any
    main,               \* where the loop is
    todo,               \* the workers it has not asked in this round
    batch,              \* the frames it has taken in this round
    drift,              \* the DriftDetectors
    flagged,            \* _recalib_flagged
    frames,             \* cameras with a frame in the current health window
    last                \* the views of the last checks, newest first, for the properties

disk == <<ref, health>>
threads == <<worker, latest>>
round == <<todo, batch>>
checks == <<drift, flagged, frames, last>>
pipeline == <<view, disk, threads, main, round, checks>>

Frames == Cameras \X Views
Worker == [pc : {"opening", "decoding", "over"},
           failures : 0 .. MaxReconnects + 1, error : {Nothing, "failed", "frozen"}]
NewWorker == [pc |-> "opening", failures |-> 0, error |-> Nothing]
Unchecked == [c \in Cameras |-> [i \in 1 .. Samples |-> Nothing]]

\* __init__ and the start of the threads.
Fresh(reference) ==
    /\ worker' = [c \in Cameras |-> NewWorker]
    /\ latest' = [c \in Cameras |-> Nothing]
    /\ main' = "head" /\ todo' = {} /\ batch' = {}
    /\ drift' = [c \in Cameras |-> [reference |-> reference[c], streak |-> 0]]
    /\ flagged' = {} /\ frames' = {} /\ last' = Unchecked

PipelineInit ==
    /\ view \in [Cameras -> Views]
    /\ ref = [c \in Cameras |-> Nothing] /\ health = [c \in Cameras |-> Nothing]
    /\ worker = [c \in Cameras |-> NewWorker]
    /\ latest = [c \in Cameras |-> Nothing]
    /\ main = "head" /\ todo = {} /\ batch = {}
    /\ drift = [c \in Cameras |-> [reference |-> Nothing, streak |-> 0]]
    /\ flagged = {} /\ frames = {} /\ last = Unchecked

-----------------------------------------------------------------------------
(* The workers: _CameraWorker._run over decode_frames. *)

Running == main # "down"
Goes(c, pc) == worker' = [worker EXCEPT ![c].pc = pc]
Fails(c, error) == worker' = [worker EXCEPT ![c].pc = "over", ![c].error = error]
NotWorkers == UNCHANGED <<view, disk, main, round, checks>>

\* _open, after the backoff if it is a reconnect; a source that cannot be opened ends
\* the worker either way.
Open(c) ==
    /\ worker[c].pc = "opening"
    /\ Goes(c, "decoding") \/ Fails(c, "failed")
    /\ UNCHANGED latest /\ NotWorkers

Publish(c) ==
    /\ worker[c].pc = "decoding"
    /\ worker' = [worker EXCEPT ![c].failures = 0]
    /\ latest' = [latest EXCEPT ![c] = view[c]]
    /\ NotWorkers

\* FrozenFrameDetector has seen the same frame for too long.
Freeze(c) ==
    /\ worker[c].pc = "decoding"
    /\ Fails(c, "frozen")
    /\ UNCHANGED latest /\ NotWorkers

\* The stream fails or, being live, ends.
Drop(c) ==
    /\ worker[c].pc = "decoding"
    /\ IF c \notin Live \/ worker[c].failures + 1 > MaxReconnects
       THEN worker' = [worker EXCEPT ![c].pc = "over", ![c].error = "failed",
                                     ![c].failures = IF c \in Live THEN @ + 1 ELSE @]
       ELSE worker' = [worker EXCEPT ![c].pc = "opening", ![c].failures = @ + 1]
    /\ UNCHANGED latest /\ NotWorkers

\* The clean end of a file.
Finish(c) ==
    /\ worker[c].pc = "decoding" /\ c \notin Live
    /\ Goes(c, "over")
    /\ UNCHANGED latest /\ NotWorkers

Decode(c) ==
    Running /\ (Open(c) \/ Publish(c) \/ Freeze(c) \/ Drop(c) \/ Finish(c))

-----------------------------------------------------------------------------
(* The loop: MultiCameraPipeline.run. *)

NewRound ==
    /\ main = "head"
    /\ main' = "taking" /\ todo' = Cameras /\ batch' = {}
    /\ UNCHANGED <<view, disk, threads, drift, flagged, frames, last>>

\* take_fresh of one worker.
Take(c) ==
    /\ main = "taking" /\ c \in todo
    /\ todo' = todo \ {c}
    /\ batch' = IF latest[c] = Nothing THEN batch ELSE batch \cup {<<c, latest[c]>>}
    /\ latest' = [latest EXCEPT ![c] = Nothing]
    /\ main' = IF todo' # {} THEN "taking" ELSE IF batch' = {} THEN "looking" ELSE "counting"
    /\ UNCHANGED <<view, disk, worker, checks>>

AllOver == \A c \in Cameras : worker[c].pc = "over"

\* Nothing was fresh: the loop goes round unless no worker is left.
Look ==
    /\ main = "looking" /\ ~ AllOver
    /\ main' = "head"
    /\ UNCHANGED <<view, disk, threads, round, checks>>

InBatch(c) == \E v \in Views : <<c, v>> \in batch
Shown(c) == CHOOSE v \in Views : <<c, v>> \in batch

DiffersFrom(d, v) == <<v, d.reference>> \in Far

\* Mutant: a check that differs starts the count again.
FedOnce(d, v) == [d EXCEPT !.streak = IF DiffersFrom(d, v) THEN 1 ELSE 0]

\* Mutant: a check that agrees does not end the streak.
FedForEver(d, v) ==
    [d EXCEPT !.streak = IF ~ DiffersFrom(d, v) \/ @ = Samples THEN @ ELSE @ + 1]

\* DriftDetector.feed; beyond Samples the streak makes no difference.
Fed(d, v) ==
    [d EXCEPT !.streak = IF ~ DiffersFrom(d, v) THEN 0 ELSE IF @ = Samples THEN @ ELSE @ + 1]

\* _check_drift: the first view becomes the reference.
Checked(c) ==
    IF drift[c].reference = Nothing THEN [reference |-> Shown(c), streak |-> 0]
    ELSE Fed(drift[c], Shown(c))

Pushed(views, v) == [i \in 1 .. Samples |-> IF i = 1 THEN v ELSE views[i - 1]]

\* The frames the runners of the round get to count.
Counted == {f \in batch : f[1] \notin flagged'}

\* Mutant: the errors of the workers are not looked at, nor the frames.
StatusUnasked(c, seen, moved) == IF c \in moved THEN "needs_recalibration" ELSE "online"

Status(c, seen, moved) ==
    IF worker[c].error = "frozen" THEN "frozen"
    ELSE IF c \in moved THEN "needs_recalibration"
    ELSE IF worker[c].error # Nothing \/ c \notin seen THEN "offline"
    ELSE "online"

\* _flush_camera_health, of the cameras seen in the window and those found moved.
WriteHealth(seen, moved) ==
    /\ health' = [c \in Cameras |-> Status(c, seen, moved)]
    /\ frames' = {}

\* The fresh frames: the drift sweep if an hour has passed, counting, and the health
\* rows if a minute has.
Count(sweep, flush) ==
    /\ main = "counting"
    /\ IF sweep
       THEN /\ drift' = [c \in Cameras |-> IF InBatch(c) THEN Checked(c) ELSE drift[c]]
            /\ ref' = [c \in Cameras |-> IF InBatch(c) /\ drift[c].reference = Nothing
                                         THEN Shown(c) ELSE ref[c]]
            /\ last' = [c \in Cameras |-> IF InBatch(c) THEN Pushed(last[c], Shown(c)) ELSE last[c]]
            /\ flagged' = flagged \cup {c \in Cameras : InBatch(c) /\ drift'[c].streak >= Samples}
       ELSE UNCHANGED <<drift, ref, flagged, last>>
    /\ LET seen == frames \cup {c \in Cameras : InBatch(c)}
       IN  IF flush THEN WriteHealth(seen, flagged') ELSE frames' = seen /\ UNCHANGED health
    /\ main' = "head" /\ batch' = {}
    /\ UNCHANGED <<view, threads, todo>>

\* close, on a signal or when no worker is left, and the end of the process.
Close ==
    /\ main = "head" \/ (main = "looking" /\ AllOver)
    /\ WriteHealth(frames, flagged)
    /\ main' = "down"
    /\ UNCHANGED <<view, ref, threads, round, drift, flagged, last>>

Loop ==
    \/ NewRound \/ Look \/ Close
    \/ \E c \in Cameras : Take(c)
    \/ \E sweep, flush \in BOOLEAN : Count(sweep, flush)

-----------------------------------------------------------------------------
(* What is around the agent. *)

\* systemd starts the agent again.
Start ==
    /\ main = "down"
    /\ Fresh(ref)
    /\ UNCHANGED <<view, disk>>

Crash ==
    /\ MayCrash /\ Running
    /\ main' = "down"
    /\ UNCHANGED <<view, disk, threads, round, checks>>

\* The camera is bumped or aimed anew, or the light or the scene changes.
Change(c) ==
    /\ c \in Changing
    /\ \E v \in Views \ {view[c]} : view' = [view EXCEPT ![c] = v]
    /\ UNCHANGED <<disk, threads, main, round, checks>>

\* whaletale-agent --recalibrate, for one of the cameras it goes through; what stands
\* still has the reference the first check captures.
Recalibrate(c) ==
    /\ c \in Changing
    /\ ref' = [ref EXCEPT ![c] = view[c]]
    /\ UNCHANGED <<view, health, threads, main, round, checks>>

PipelineNext ==
    \/ \E c \in Cameras : Decode(c) \/ Change(c) \/ Recalibrate(c)
    \/ Loop \/ Start \/ Crash

PipelineSpec == PipelineInit /\ [][PipelineNext]_pipeline

\* The threads run, hours and minutes pass and systemd restarts the agent
\* (edge/deploy/whaletale-agent.service:14, Restart=always).
Fairness ==
    /\ \A c \in Cameras : WF_pipeline(Decode(c))
    /\ WF_pipeline(Loop) /\ WF_pipeline(Start)
    /\ SF_pipeline(\E flush \in BOOLEAN : Count(TRUE, flush))
    /\ SF_pipeline(\E sweep \in BOOLEAN : Count(sweep, TRUE))

FairPipeline == PipelineSpec /\ Fairness
-----------------------------------------------------------------------------
PipelineTypeOK ==
    /\ view \in [Cameras -> Views] /\ ref \in [Cameras -> Views \cup {Nothing}]
    /\ health \in [Cameras -> Statuses \cup {Nothing}]
    /\ worker \in [Cameras -> Worker]
    /\ latest \in [Cameras -> Views \cup {Nothing}]
    /\ main \in {"head", "taking", "looking", "counting", "down"}
    /\ todo \subseteq Cameras /\ batch \subseteq Frames
    /\ drift \in [Cameras -> [reference : Views \cup {Nothing}, streak : 0 .. Samples]]
    /\ flagged \subseteq Cameras /\ frames \subseteq Cameras
    /\ last \in [Cameras -> [1 .. Samples -> Views \cup {Nothing}]]

\* A camera whose worker has given up does not stay online in the table the
\* heartbeats are made from, however the other cameras fare (pipeline.py:262-292,
\* 315-346).
DeadIsReported ==
    \A c \in Cameras :
        worker[c].error # Nothing ~> health[c] # "online" \/ worker[c].error = Nothing

\* calibration.py:75-77, "once the hash has stayed more than `threshold` bits from the
\* reference for `samples_needed` consecutive checks": a camera is flagged only if that
\* many frames of its own, in the last checks of this process, are far from the reference
\* it started with or has captured, so that a change of light or scene that is over before
\* does not stop the counting; and only a camera that is flagged is reported.  It holds
\* whatever the other cameras show and whenever the process is restarted, killed or the
\* references are captured anew (pipeline.py:271-290, 302-326).
FlagIsSustained ==
    [][\A c \in Cameras :
          /\ c \in flagged' \ flagged =>
                 \A i \in 1 .. Samples : <<last'[c][i], drift[c].reference>> \in Far
          /\ health'[c] = "needs_recalibration" =>
                 health[c] = "needs_recalibration" \/ c \in flagged']_pipeline

Drifted(c) == drift[c].reference # Nothing /\ DiffersFrom(drift[c], view[c])

\* A camera that stays far from its reference is flagged if only it is checked again and again
\* (docs/edge-cases.md:16; calibration.py:87-94, pipeline.py:271-290).
DriftIsFlagged ==
    \A c \in Changing :
        /\ <>[](Running /\ Drifted(c))
        /\ []<><<\E flush \in BOOLEAN : Count(TRUE, flush) /\ InBatch(c)>>_pipeline
        => <>[](c \in flagged)

\* A camera has drifted, and every frame of it that is still to be taken or counted
\* shows so.
Steady(c) ==
    /\ Running /\ Drifted(c)
    /\ latest[c] # Nothing => DiffersFrom(drift[c], latest[c])
    /\ \A v \in Views : <<c, v>> \in batch => DiffersFrom(drift[c], v)

\* From then on, while it is left alone and the process runs, no check is forgotten:
\* each that has a frame of it counts until it is flagged, so that drift_samples of them
\* are enough, and nothing the other cameras do takes the flag away again
\* (calibration.py:87-94, pipeline.py:271-290).
DriftIsCounted ==
    [][\A c \in Cameras :
          Steady(c) /\ view'[c] = view[c] /\ main' # "down" =>
              /\ Steady(c)'
              /\ c \in flagged => c \in flagged'
              /\ drift'[c].streak >= drift[c].streak
              /\ InBatch(c) /\ (\E flush \in BOOLEAN : Count(TRUE, flush)) =>
                     c \in flagged' \/ drift'[c].streak > drift[c].streak]_pipeline

\* docs/edge-cases.md:16, "re-checks hourly, and on sustained divergence flags the
\* camera": a camera that stays far is flagged if only its frames are taken again and again.
DriftIsNoticed ==
    \A c \in Changing :
        /\ <>[](Running /\ Drifted(c))
        /\ []<><<\E sweep, flush \in BOOLEAN : Count(sweep, flush) /\ InBatch(c)>>_pipeline
        => <>[](c \in flagged)

\* decode.py:120, "A live source (RTSP/webcam) that drops or ends is reopened with
\* capped exponential backoff, up to `max_reconnects` consecutive failures".
BudgetSpent ==
    \A c \in Live :
        worker[c].failures > 0 /\ worker[c].error = "failed" => worker[c].failures > MaxReconnects

\* docs/edge-cases.md:16, "stops feeding it to counting, and reports
\* `needs_recalibration`": what is reported so is not counted.
PausedIsPaused ==
    [][main = "counting" /\ main' = "head" =>
          \A f \in Counted : health[f[1]] = "needs_recalibration" => ~ DiffersFrom(drift[f[1]], f[2])]_pipeline
=============================================================================
