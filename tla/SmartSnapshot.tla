--------------------------- MODULE SmartSnapshot ---------------------------
(***************************************************************************)
(* gl_scheduler::SmartSnapshotJob, the handler behind every execution, for *)
(* one stream: capture a frame, compare its perceptual hash with the one   *)
(* of the latest stored snapshot, and store file and row if it changed.    *)
(* The capture loop starts an execution on every tick without waiting for  *)
(* the one before.                                                         *)
(*                                                                         *)
(* A frame is represented by the scene it shows: two frames are similar    *)
(* when they show the same scene.                                          *)
(***************************************************************************)
EXTENDS JobScheduler, Sequences

CONSTANT Scenes

VARIABLES
    scene,      \* what the camera sees
    step,       \* where each handler is
    frame,      \* the scene on the frame it captured
    files,      \* executions whose image is in the artifact store
    rows,       \* executions whose row is in the snapshots table
    stamped     \* executions in the order of their captured_at

snapVars  == <<scene, step, frame, files, rows, stamped>>
smartVars == <<jobVars, snapVars>>

Steps == {"capture", "compare", "store", "insert", "touch", "done"}

SmartTypeOK ==
    /\ JobTypeOK
    /\ scene \in Scenes
    /\ step \in [Executions -> Steps]
    /\ frame \in [Executions -> Scenes]
    /\ files \subseteq Executions
    /\ rows \subseteq Executions
    /\ stamped \in Seq(Executions)

SmartInit ==
    /\ JobInit
    /\ scene \in Scenes
    /\ step = [e \in Executions |-> "capture"]
    /\ frame = [e \in Executions |-> scene]
    /\ files = {}
    /\ rows = {}
    /\ stamped = <<>>

(* The rows in the order of captured_at. *)
Stored == SelectSeq(stamped, LAMBDA e : e \in rows)

-----------------------------------------------------------------------------
Working(e) == jobTask[e] = "executing" /\ e \notin abortedJobs

Goto(e, s) == step' = [step EXCEPT ![e] = s]

Capture(e) ==
    /\ Working(e) /\ step[e] = "capture"
    /\ frame' = [frame EXCEPT ![e] = scene]
    /\ Goto(e, "compare")
    /\ UNCHANGED <<jobVars, scene, files, rows, stamped>>

(* No frame, or one that cannot be decoded: reported as a success. *)
CaptureFails(e) ==
    /\ Working(e) /\ step[e] = "capture"
    /\ Goto(e, "done")
    /\ UNCHANGED <<jobVars, scene, frame, files, rows, stamped>>

Compare(e) ==
    /\ Working(e) /\ step[e] = "compare"
    /\ Goto(e, IF Stored # <<>> /\ frame[Stored[Len(Stored)]] = frame[e] THEN "touch" ELSE "store")
    /\ UNCHANGED <<jobVars, scene, frame, files, rows, stamped>>

Store(e) ==
    /\ Working(e) /\ step[e] = "store"
    /\ files' = files \cup {e}
    /\ stamped' = Append(stamped, e)
    /\ Goto(e, "insert")
    /\ UNCHANGED <<jobVars, scene, frame, rows>>

(* An INSERT that was under way when the handler was dropped, by a timeout  *)
(* or by an abort, may still take place.                                    *)
Insert(e) ==
    /\ step[e] = "insert"
    /\ rows' = rows \cup {e}
    /\ Goto(e, "done")
    /\ UNCHANGED <<jobVars, scene, frame, files, stamped>>

Touch(e) ==
    /\ Working(e) /\ step[e] = "touch"
    /\ Goto(e, "done")
    /\ UNCHANGED <<jobVars, scene, frame, files, rows, stamped>>

(* An error may come from any step; a timeout leaves a write under way.     *)
Finish(e) ==
    /\ \/ step[e] = "done" /\ TaskEnd(e, "completed") /\ UNCHANGED step
       \/ step[e] # "done" /\ TaskEnd(e, "failed") /\ Goto(e, "done")
       \/ step[e] # "done" /\ TaskEnd(e, "timed_out") /\ UNCHANGED step
    /\ UNCHANGED <<scene, frame, files, rows, stamped>>

SceneChange ==
    /\ scene' \in Scenes \ {scene}
    /\ UNCHANGED <<jobVars, step, frame, files, rows, stamped>>

HandlerStep(e) ==
    \/ Capture(e) \/ CaptureFails(e) \/ Compare(e) \/ Store(e) \/ Insert(e) \/ Touch(e)

Crash ==
    /\ CrashRestart
    /\ step' = [e \in Executions |-> "done"]
    /\ UNCHANGED <<scene, frame, files, rows, stamped>>

SmartNext ==
    \/ SchedulerStep /\ UNCHANGED snapVars
    \/ \E e \in Executions : HandlerStep(e) \/ Finish(e)
    \/ SceneChange
    \/ Crash

SmartSpec == SmartInit /\ [][SmartNext]_smartVars

-----------------------------------------------------------------------------
(* Properties *)

(* Duplicate detection: of two snapshots that follow each other, the later  *)
(* one shows something else.                                                *)
NoDuplicateSnapshots ==
    \A i \in 1 .. Len(Stored) - 1 : frame[Stored[i]] # frame[Stored[i + 1]]
=============================================================================
