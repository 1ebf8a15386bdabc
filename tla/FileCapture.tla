---------------------------- MODULE FileCapture ----------------------------
(***************************************************************************)
(* A capture of a video file: the CaptureHandle the capture manager and the *)
(* routes share (gl_capture/src/lib.rs), the FileSource behind it, the      *)
(* StreamingFfmpegSource that the first snapshot makes, and its pool of     *)
(* FFmpeg processes with the health monitor (process_pool.rs).              *)
(*                                                                          *)
(* A handle's state is a tokio mutex that snapshot and stop hold to their   *)
(* end.  Every snapshot starts the streaming source, takes one frame by an  *)
(* inner handle and stops it.  All clones of the source share one           *)
(* `is_running`, and dropping any clone clears it.  A handle that is dropped *)
(* leaves a task behind that stops the source, unless that was done, and    *)
(* then drops its clone.  The pool lives while a clone does, its processes  *)
(* while the pool or the monitor does.                                      *)
(*                                                                          *)
(* extract_frame answers a synthetic frame in this version and cannot fail; *)
(* mark_failure has no caller, so every process stays healthy, and the      *)
(* monitor's restart of a failed one is not reached.                        *)
(***************************************************************************)
EXTENDS Naturals, FiniteSets

CONSTANTS
    Callers,    \* tasks and requests that take snapshots by the handle
    MaxTasks    \* bound on the tasks dropped handles have left behind

ASSUME FileAssumption == MaxTasks \in Nat \ {0}

VARIABLES
    state,      \* CaptureState of the outer handle
    holder,     \* who holds the lock on it
    pc,         \* where each caller's snapshot() stands
    stopper,    \* where the stop() of the outer handle stands
    slot,       \* FileSource::streaming_source is Some
    is_running, \* the flag all clones share
    pool,       \* the FFmpeg processes: none yet, up, or gone
    monitor,    \* the pool's health monitor task
    stops,      \* tasks of dropped handles that have yet to stop the source
    drops,      \* ... and those that have yet to drop their clone of it
    lone        \* history: callers that started when no such task was left

vars == <<state, holder, pc, stopper, slot, is_running, pool, monitor, stops, drops, lone>>

Nobody == "nobody"
Stopper == "stopper"
ASSUME CallersAssumption == Nobody \notin Callers /\ Stopper \notin Callers

Init ==
    /\ state = "Running" /\ holder = Nobody
    /\ pc = [c \in Callers |-> "idle"]
    /\ stopper = "idle"
    /\ slot = FALSE /\ is_running = FALSE
    /\ pool = "none" /\ monitor = "off"
    /\ stops = 0 /\ drops = 0
    /\ lone = {}

(* Where a snapshot or a stop has a clone of the streaming source in hand,  *)
(* and where it has an inner handle besides.                                *)
HasClone  == {"start", "snap", "stop", "drop"}
HasHandle == {"snap", "stop"}

(* The Arc of the pool is held by some clone; else FfmpegProcessPool::drop  *)
(* has set the shutdown flag.                                               *)
Held ==
    slot \/ stopper \in HasClone \/ stops + drops > 0 \/ \E c \in Callers : pc[c] \in HasClone

Goes(c, where) == pc' = [pc EXCEPT ![c] = where]
Release == holder' = Nobody

(* CaptureHandle::snapshot waits for the lock ...                           *)
Ask(c) ==
    /\ pc[c] = "idle" /\ stops + drops < MaxTasks
    /\ Goes(c, "lock")
    /\ UNCHANGED <<state, holder, stopper, slot, is_running, pool, monitor, stops, drops, lone>>

\* Faulty: the state is looked at and the lock let go before the snapshot.
AcquireBriefly(c) ==
    /\ pc[c] = "lock" /\ holder = Nobody
    /\ Goes(c, IF state = "Running" THEN "ensure" ELSE "idle")
    /\ UNCHANGED <<state, holder, stopper, slot, is_running, pool, monitor, stops, drops, lone>>

(* ... and goes on with the lock, or answers that the capture was stopped.  *)
Acquire(c) ==
    /\ pc[c] = "lock" /\ holder = Nobody
    /\ IF state = "Running" THEN Goes(c, "ensure") /\ holder' = c
       ELSE Goes(c, "idle") /\ UNCHANGED holder
    /\ UNCHANGED <<state, stopper, slot, is_running, pool, monitor, stops, drops, lone>>

(* ensure_streaming_source: the first snapshot makes the source, its pool   *)
(* and the monitor; then the source is cloned.                              *)
Ensure(c) ==
    /\ pc[c] = "ensure"
    /\ Goes(c, "start")
    /\ slot' = TRUE
    /\ IF slot THEN UNCHANGED <<pool, monitor>> ELSE pool' = "up" /\ monitor' = "check"
    /\ UNCHANGED <<state, holder, stopper, is_running, stops, drops, lone>>

(* FFmpeg cannot be started.                                                *)
EnsureFails(c) ==
    /\ pc[c] = "ensure" /\ ~slot
    /\ Goes(c, "idle") /\ Release
    /\ UNCHANGED <<state, stopper, slot, is_running, pool, monitor, stops, drops, lone>>

(* StreamingFfmpegSource::start takes a frame to validate, then sets the    *)
(* flag and gives an inner handle with one more clone.                      *)
Start(c) ==
    /\ pc[c] = "start"
    /\ is_running' = TRUE
    /\ Goes(c, "snap")
    /\ lone' = IF stops + drops = 0 THEN lone \cup {c} ELSE lone \ {c}
    /\ UNCHANGED <<state, holder, stopper, slot, pool, monitor, stops, drops>>

(* The inner handle's snapshot finds the flag set and takes the frame.      *)
Snap(c) ==
    /\ pc[c] = "snap" /\ is_running
    /\ Goes(c, "stop")
    /\ UNCHANGED <<state, holder, stopper, slot, is_running, pool, monitor, stops, drops, lone>>

(* The inner handle's stop.                                                 *)
StopInner(c) ==
    /\ pc[c] = "stop"
    /\ is_running' = FALSE
    /\ Goes(c, "drop")
    /\ UNCHANGED <<state, holder, stopper, slot, pool, monitor, stops, drops, lone>>

(* FileSource::snapshot returns: the inner handle leaves a task with its    *)
(* clone, the other clone is dropped and clears the flag.                   *)
Return(c) ==
    /\ pc[c] = "drop"
    /\ drops' = drops + 1 /\ is_running' = FALSE
    /\ Goes(c, "idle") /\ Release
    /\ lone' = lone \ {c}
    /\ UNCHANGED <<state, stopper, slot, pool, monitor, stops>>

\* Faulty: what a dropped snapshot held, it keeps.
LeaveLocked(c) ==
    /\ stops' = IF pc[c] \in HasHandle THEN stops + 1 ELSE stops
    /\ is_running' = (is_running /\ pc[c] \notin HasClone)
    /\ Goes(c, "idle")
    /\ lone' = lone \ {c}
    /\ UNCHANGED <<state, holder, stopper, slot, pool, monitor, drops>>

(* A snapshot ends early: its inner handle, still running, leaves a task    *)
(* that will stop the source, its clones are dropped, the lock is released. *)
Leave(c) ==
    /\ stops' = IF pc[c] \in HasHandle THEN stops + 1 ELSE stops
    /\ is_running' = (is_running /\ pc[c] \notin HasClone)
    /\ Goes(c, "idle")
    /\ IF holder = c THEN Release ELSE UNCHANGED holder
    /\ lone' = lone \ {c}
    /\ UNCHANGED <<state, stopper, slot, pool, monitor, drops>>

(* The flag was cleared behind its back: "Source is not running".           *)
SnapRefused(c) == pc[c] = "snap" /\ ~is_running /\ Leave(c)

(* The capture task is aborted, or the request's connection closed.         *)
Cancel(c) == pc[c] \notin {"idle", "drop"} /\ Leave(c)

(* CaptureHandle::stop, called by stop_stream or by the task that the drop  *)
(* of the outer handle spawns: FileSource::stop takes the source out of the *)
(* slot, starts it once more and stops that.                                *)
StopAsked ==
    /\ stopper = "idle"
    /\ stopper' = "lock"
    /\ UNCHANGED <<state, holder, pc, slot, is_running, pool, monitor, stops, drops, lone>>

StopAcquires ==
    /\ stopper = "lock" /\ holder = Nobody
    /\ state' = "Stopped"
    /\ slot' = FALSE
    /\ IF state = "Running" /\ slot THEN stopper' = "start" /\ holder' = Stopper
       ELSE stopper' = "idle" /\ UNCHANGED holder
    /\ UNCHANGED <<pc, is_running, pool, monitor, stops, drops, lone>>

StopStarts ==
    /\ stopper = "start"
    /\ is_running' = TRUE
    /\ stopper' = "stop"
    /\ UNCHANGED <<state, holder, pc, slot, pool, monitor, stops, drops, lone>>

StopEnds ==
    /\ stopper = "stop"
    /\ is_running' = FALSE
    /\ drops' = drops + 1
    /\ stopper' = "idle" /\ Release
    /\ UNCHANGED <<state, pc, slot, pool, monitor, stops, lone>>

(* The future of stop() is dropped before its end.                          *)
StopCancelled ==
    /\ stopper # "idle"
    /\ stops' = IF stopper = "stop" THEN stops + 1 ELSE stops
    /\ is_running' = (is_running /\ stopper \notin HasClone)
    /\ stopper' = "idle"
    /\ IF holder = Stopper THEN Release ELSE UNCHANGED holder
    /\ UNCHANGED <<state, pc, slot, pool, monitor, drops, lone>>

(* The task a dropped handle has left: stop, and the drop of the clone.     *)
TaskStops ==
    /\ stops > 0
    /\ stops' = stops - 1 /\ drops' = drops + 1
    /\ is_running' = FALSE
    /\ UNCHANGED <<state, holder, pc, stopper, slot, pool, monitor, lone>>

TaskDrops ==
    /\ drops > 0
    /\ drops' = drops - 1
    /\ is_running' = FALSE
    /\ UNCHANGED <<state, holder, pc, stopper, slot, pool, monitor, stops, lone>>

\* Faulty: the monitor goes round without looking at the shutdown flag.
MonitorChecksNothing ==
    /\ monitor = "check"
    /\ monitor' = "tick"
    /\ UNCHANGED <<state, holder, pc, stopper, slot, is_running, pool, stops, drops, lone>>

(* health_monitor_task looks at the shutdown flag once a round.  When it    *)
(* ends it lets go of the processes, and they are killed (kill_on_drop).    *)
MonitorChecks ==
    /\ monitor = "check"
    /\ IF Held THEN monitor' = "tick" /\ UNCHANGED pool
       ELSE monitor' = "off" /\ pool' = "gone"
    /\ UNCHANGED <<state, holder, pc, stopper, slot, is_running, stops, drops, lone>>

MonitorTicks ==
    /\ monitor = "tick"
    /\ monitor' = "check"
    /\ UNCHANGED <<state, holder, pc, stopper, slot, is_running, pool, stops, drops, lone>>

Proceed(c) ==
    Ensure(c) \/ EnsureFails(c) \/ Start(c) \/ Snap(c) \/ SnapRefused(c) \/ StopInner(c) \/ Return(c)
StopProceeds == StopStarts \/ StopEnds
Leftover == TaskStops \/ TaskDrops
Monitor == MonitorChecks \/ MonitorTicks

Next ==
    \/ \E c \in Callers : Ask(c) \/ Acquire(c) \/ Proceed(c) \/ Cancel(c)
    \/ StopAsked \/ StopAcquires \/ StopProceeds \/ StopCancelled
    \/ Leftover \/ Monitor

(* The runtime polls what is ready; a tokio mutex serves its waiters in     *)
(* turn, so each of them gets it if it is released again and again.         *)
Fairness ==
    /\ \A c \in Callers : SF_vars(Acquire(c)) /\ WF_vars(Proceed(c))
    /\ SF_vars(StopAcquires) /\ WF_vars(StopProceeds)
    /\ WF_vars(Leftover) /\ WF_vars(Monitor)

Spec == Init /\ [][Next]_vars /\ Fairness
-----------------------------------------------------------------------------
FileTypes ==
    /\ state \in {"Running", "Stopped"}
    /\ holder \in Callers \cup {Nobody, Stopper}
    /\ pc \in [Callers -> {"idle", "lock", "ensure"} \cup HasClone]
    /\ stopper \in {"idle", "lock", "start", "stop"}
    /\ slot \in BOOLEAN /\ is_running \in BOOLEAN
    /\ pool \in {"none", "up", "gone"} /\ monitor \in {"off", "check", "tick"}
    /\ stops \in Nat /\ drops \in Nat
    /\ lone \subseteq Callers

(* The lock is held by the one snapshot or stop that is past taking it, and *)
(* by nobody else.                                                          *)
LockHeld ==
    /\ \A c \in Callers : holder = c <=> pc[c] \in {"ensure"} \cup HasClone
    /\ holder = Stopper <=> stopper \in {"start", "stop"}

(* The types, and who holds the lock.                                       *)
FileTypeOK == FileTypes /\ LockHeld

(* Once the handle is stopped no snapshot is under way but the stop itself, *)
(* and no streaming source is stored: one stored later would keep its       *)
(* FFmpeg processes for good (lib.rs CaptureHandle::snapshot and stop).     *)
NothingAfterStop ==
    state = "Stopped" =>
        ~slot /\ \A c \in Callers : pc[c] \in {"idle", "lock"}

(* A snapshot is refused as not running only by what earlier snapshots have *)
(* left behind: one that started when all of that was done finds the flag   *)
(* as it has set it, whatever other callers, stop and cancellations do      *)
(* (streaming_source.rs snapshot, stop and Drop).                           *)
LoneSnapshotSucceeds ==
    \A c \in lone : pc[c] = "snap" => is_running

(* Both: what a handle does is its own, stopped or not.                     *)
HandleSound == NothingAfterStop /\ LoneSnapshotSucceeds

(* The processes of a stopped capture end, when the last task has dropped   *)
(* its clone and the monitor has come round (process_pool.rs Drop,          *)
(* health_monitor_task).                                                    *)
ProcessesEnd == (state = "Stopped") ~> (pool # "up")

(* Whoever asks for a snapshot is answered: no snapshot, stop or dropped    *)
(* future keeps the handle's lock (lib.rs CaptureHandle).                   *)
SnapshotsAnswered == \A c \in Callers : (pc[c] = "lock") ~> (pc[c] = "idle")

(* Both: a handle serves its callers, and lets go of its processes.         *)
HandleServes == ProcessesEnd /\ SnapshotsAnswered
=============================================================================
