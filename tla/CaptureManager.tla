--------------------------- MODULE CaptureManager ---------------------------
(***************************************************************************)
(* gl_web::capture_manager::CaptureManager: the table of running captures, *)
(* the capture task behind each entry, and the execution_status column of  *)
(* the streams table that the rest of the program reads.                   *)
(*                                                                         *)
(* start_stream and stop_stream run concurrently, one per web request.     *)
(* Each is split at its await points; what happens while the write lock of *)
(* running_captures is held is one action, because every other access to   *)
(* the table waits for that lock and the status write made inside it is    *)
(* not read back there.  A spawned capture task is split the same way.     *)
(***************************************************************************)
EXTENDS Naturals

CONSTANTS
    Streams,        \* ids of rows of the streams table
    Tasks,          \* identities of capture tasks (JoinHandles), reused when free
    Requests,       \* web requests that may be in flight at the same time
    None,           \* no task
    Faults,         \* what may fail: "db" a status write, "setup" the artifacts
                    \* directory or its storage manager, "crash" the process,
                    \* "drop" the connection, which drops the handler's future
    GraceSuffices   \* TRUE: an aborted task is gone when the 100 ms sleep of
                    \* stop_stream is over; FALSE: it may still be in its poll

ASSUME NoneAssumption   == None \notin Tasks
ASSUME FaultsAssumption == Faults \subseteq {"db", "setup", "crash", "drop"}
ASSUME GraceAssumption  == GraceSuffices \in BOOLEAN

VARIABLES
    row,            \* execution_status of each stream, "gone" once deleted
    entry,          \* running_captures: the task registered for each stream
    stage,          \* where each capture task is
    strm,           \* the stream each capture task was spawned for
    outcome,        \* the status an ended task is going to report
    aborted,        \* JoinHandle::abort was called on the task
    pc,             \* where each request is
    target,         \* the stream each request is about
    held,           \* the CaptureTask a stop request took out of the table
    resetPending,   \* the start-up task of CaptureManager::new has not run yet
    lost            \* history: streams whose last due status write was lost, or
                    \* was followed by one of an aborted task nobody waits for

taskVars == <<stage, strm, outcome, aborted>>
reqVars  == <<pc, target, held>>
vars     == <<row, entry, taskVars, reqVars, resetPending, lost>>

Status     == {"inactive", "starting", "active", "stopping", "error", "gone"}
LiveStages == {"spawned", "active", "running", "ended", "removed"}
Registered == LiveStages \ {"removed"}
Stages     == LiveStages \cup {"free", "died"}
Points     == {"idle", "find", "claim", "remove", "mark", "abort", "settle", "ok", "err"}
Stopping   == {"mark", "abort", "settle"}

(* A task identity nobody refers to any more. *)
Fresh(t) ==
    /\ stage[t] \in {"free", "died"}
    /\ \A s \in Streams : entry[s] # t
    /\ \A r \in Requests : held[r] # t

TypeOK ==
    /\ row \in [Streams -> Status]
    /\ entry \in [Streams -> Tasks \cup {None}]
    /\ stage \in [Tasks -> Stages]
    /\ strm \in [Tasks -> Streams]
    /\ outcome \in [Tasks -> {"inactive", "error"}]
    /\ aborted \in [Tasks -> BOOLEAN]
    /\ pc \in [Requests -> Points]
    /\ target \in [Requests -> Streams]
    /\ held \in [Requests -> Tasks \cup {None}]
    /\ resetPending \in BOOLEAN
    /\ lost \subseteq Streams

Init ==
    /\ row = [s \in Streams |-> "inactive"]
    /\ entry = [s \in Streams |-> None]
    /\ stage = [t \in Tasks |-> "free"]
    /\ strm \in [Tasks -> Streams]
    /\ outcome = [t \in Tasks |-> "inactive"]
    /\ aborted = [t \in Tasks |-> FALSE]
    /\ pc = [r \in Requests |-> "idle"]
    /\ target \in [Requests -> Streams]
    /\ held = [r \in Requests |-> None]
    /\ resetPending = TRUE
    /\ lost = {}

-----------------------------------------------------------------------------
(* The two outcomes of an UPDATE of execution_status.  A row that has been  *)
(* deleted matches no UPDATE and the call still succeeds.                   *)

Write(s, v) == row' = IF row[s] = "gone" THEN row ELSE [row EXCEPT ![s] = v]

WriteStatus(s, v) == Write(s, v) /\ lost' = lost \ {s}

(* Written for a caller that is gone: nobody will correct it. *)
WriteUnnoticed(s, v) == Write(s, v) /\ lost' = lost \cup {s}

FailStatus(s) ==
    /\ "db" \in Faults
    /\ lost' = lost \cup {s}
    /\ UNCHANGED row

Goto(r, p) == pc' = [pc EXCEPT ![r] = p]

-----------------------------------------------------------------------------
(* start_stream *)

StartCall(r, s) ==
    /\ pc[r] = "idle"
    /\ Goto(r, "find")
    /\ target' = [target EXCEPT ![r] = s]
    /\ UNCHANGED <<row, entry, taskVars, held, resetPending, lost>>

StartFind(r) ==
    /\ pc[r] = "find"
    /\ \/ row[target[r]] # "gone" /\ Goto(r, "claim")
       \/ (row[target[r]] = "gone" \/ "db" \in Faults) /\ Goto(r, "err")
    /\ UNCHANGED <<row, entry, taskVars, target, held, resetPending, lost>>

StartRefused(r) ==
    /\ pc[r] = "claim"
    /\ entry[target[r]] # None \/ "db" \in Faults
    /\ Goto(r, "err")
    /\ UNCHANGED <<row, entry, taskVars, target, held, resetPending, lost>>

(* Under the write lock: no entry, write "starting", spawn and insert. *)
StartClaim(r, t) ==
    /\ pc[r] = "claim"
    /\ entry[target[r]] = None
    /\ Fresh(t)
    /\ WriteStatus(target[r], "starting")
    /\ entry' = [entry EXCEPT ![target[r]] = t]
    /\ stage' = [stage EXCEPT ![t] = "spawned"]
    /\ strm' = [strm EXCEPT ![t] = target[r]]
    /\ Goto(r, "ok")
    /\ UNCHANGED <<outcome, aborted, target, held, resetPending>>

-----------------------------------------------------------------------------
(* stop_stream *)

StopCall(r, s) ==
    /\ pc[r] = "idle"
    /\ Goto(r, "remove")
    /\ target' = [target EXCEPT ![r] = s]
    /\ UNCHANGED <<row, entry, taskVars, held, resetPending, lost>>

(* Faulty: looks the task up without taking it out of the table. *)
StopPeek(r) ==
    /\ pc[r] = "remove"
    /\ held' = [held EXCEPT ![r] = entry[target[r]]]
    /\ Goto(r, IF entry[target[r]] = None THEN "err" ELSE "mark")
    /\ UNCHANGED <<row, entry, taskVars, target, resetPending, lost>>

StopRemove(r) ==
    /\ pc[r] = "remove"
    /\ held' = [held EXCEPT ![r] = entry[target[r]]]
    /\ entry' = [entry EXCEPT ![target[r]] = None]
    /\ Goto(r, IF entry[target[r]] = None THEN "err" ELSE "mark")
    /\ UNCHANGED <<row, taskVars, target, resetPending, lost>>

(* A failed write returns early: the task is dropped, which detaches it. *)
StopMark(r) ==
    /\ pc[r] = "mark"
    /\ \/ WriteStatus(target[r], "stopping") /\ Goto(r, "abort") /\ UNCHANGED held
       \/ /\ FailStatus(target[r])
          /\ Goto(r, "err")
          /\ held' = [held EXCEPT ![r] = None]
    /\ UNCHANGED <<entry, taskVars, target, resetPending>>

StopAbort(r) ==
    /\ pc[r] = "abort"
    /\ aborted' = [aborted EXCEPT ![held[r]] = stage[held[r]] \in LiveStages]
    /\ Goto(r, "settle")
    /\ UNCHANGED <<row, entry, stage, strm, outcome, target, held, resetPending, lost>>

(* Faulty: answers after the sleep without the second status write. *)
StopUnsettled(r) ==
    /\ pc[r] = "settle"
    /\ Goto(r, "ok")
    /\ held' = [held EXCEPT ![r] = None]
    /\ UNCHANGED <<row, entry, taskVars, target, resetPending, lost>>

StopSettle(r) ==
    /\ pc[r] = "settle"
    /\ GraceSuffices => stage[held[r]] \notin LiveStages
    /\ \/ WriteStatus(target[r], "inactive") /\ Goto(r, "ok")
       \/ FailStatus(target[r]) /\ Goto(r, "err")
    /\ held' = [held EXCEPT ![r] = None]
    /\ UNCHANGED <<entry, taskVars, target, resetPending>>

(* The client goes away: the handler is dropped at the await it is in.  The *)
(* status write it was waiting for has happened or has not.                 *)
RequestDropped(r) ==
    /\ "drop" \in Faults
    /\ pc[r] \in {"find", "claim", "remove"} \cup Stopping
    /\ Goto(r, "idle")
    /\ held' = [held EXCEPT ![r] = None]
    /\ \/ pc[r] \in {"find", "claim", "remove"} /\ UNCHANGED <<row, lost>>
       \/ pc[r] \in Stopping /\ lost' = lost \cup {target[r]} /\ UNCHANGED row
       \/ pc[r] = "claim" /\ entry[target[r]] = None /\ WriteUnnoticed(target[r], "starting")
    /\ UNCHANGED <<entry, taskVars, target, resetPending>>

(* The HTTP answer; the frontend module replaces it by its own handlers. *)
Reply(r) ==
    /\ pc[r] \in {"ok", "err"}
    /\ Goto(r, "idle")
    /\ UNCHANGED <<row, entry, taskVars, target, held, resetPending, lost>>

-----------------------------------------------------------------------------
(* The spawned capture task.  An abort takes effect when the task next      *)
(* waits: a poll in progress runs on to its next database write, which has  *)
(* been handed to the database by then.                                     *)

Move(t, next) == stage' = [stage EXCEPT ![t] = next] /\ UNCHANGED <<outcome, aborted>>

(* The future is gone; its identity starts afresh when it is used again. *)
Gone(t) ==
    /\ stage' = [stage EXCEPT ![t] = "free"]
    /\ outcome' = [outcome EXCEPT ![t] = "inactive"]
    /\ aborted' = [aborted EXCEPT ![t] = FALSE]

AfterWrite(t, next) == IF aborted[t] THEN Gone(t) ELSE Move(t, next)

(* create_dir_all fails, or StorageManager::new(..).expect panics: the task  *)
(* is over, but its entry stays and the row goes on saying "starting".      *)
TaskSetupFails(t) ==
    /\ stage[t] = "spawned"
    /\ "setup" \in Faults
    /\ stage' = [stage EXCEPT ![t] = "died"]
    /\ aborted' = [aborted EXCEPT ![t] = FALSE]
    /\ lost' = lost \cup {strm[t]}
    /\ UNCHANGED <<row, entry, strm, outcome, reqVars, resetPending>>

TaskActivate(t) ==
    /\ stage[t] = "spawned"
    /\ IF aborted[t] /\ \A r \in Requests : held[r] # t
       THEN WriteUnnoticed(strm[t], "active")
       ELSE WriteStatus(strm[t], "active")
    /\ AfterWrite(t, "active")
    /\ UNCHANGED <<entry, strm, reqVars, resetPending>>

(* Faulty: a failed capture ends its task on the spot. *)
TaskFailsSilently(t) ==
    /\ stage[t] \in {"spawned", "active"}
    /\ Gone(t)
    /\ UNCHANGED <<row, entry, strm, reqVars, resetPending, lost>>

(* Bad config before the status write, or that write fails; a bad source    *)
(* after it.                                                                *)
TaskFails(t) ==
    /\ stage[t] \in {"spawned", "active"}
    /\ stage' = [stage EXCEPT ![t] = "ended"]
    /\ outcome' = [outcome EXCEPT ![t] = "error"]
    /\ UNCHANGED <<row, entry, strm, aborted, reqVars, resetPending, lost>>

TaskOpenSource(t) ==
    /\ stage[t] = "active"
    /\ Move(t, "running")
    /\ UNCHANGED <<row, entry, strm, reqVars, resetPending, lost>>

(* Faulty: reports a status the column does not have. *)
TaskFinishStopped(t) ==
    /\ stage[t] = "running"
    /\ stage' = [stage EXCEPT ![t] = "ended"]
    /\ outcome' = [outcome EXCEPT ![t] = "stopped"]
    /\ UNCHANGED <<row, entry, strm, aborted, reqVars, resetPending, lost>>

(* The duration limit is reached, or ctrl-c. *)
TaskFinish(t) ==
    /\ stage[t] = "running"
    /\ Move(t, "ended")
    /\ UNCHANGED <<row, entry, strm, reqVars, resetPending, lost>>

(* captures.remove(&stream_id): whatever entry the stream has now. *)
TaskDeregister(t) ==
    /\ stage[t] = "ended"
    /\ entry' = [entry EXCEPT ![strm[t]] = None]
    /\ Move(t, "removed")
    /\ UNCHANGED <<row, strm, reqVars, resetPending, lost>>

TaskReport(t) ==
    /\ stage[t] = "removed"
    /\ WriteStatus(strm[t], outcome[t]) \/ FailStatus(strm[t])
    /\ Gone(t)
    /\ UNCHANGED <<entry, strm, reqVars, resetPending>>

TaskCancelled(t) ==
    /\ aborted[t]
    /\ stage[t] \in LiveStages
    /\ Gone(t)
    /\ UNCHANGED <<row, entry, strm, reqVars, resetPending, lost>>

-----------------------------------------------------------------------------
(* The rest of the program *)

(* DELETE of the row: the delete handlers do not touch the capture. *)
DeleteStream(s) ==
    /\ row[s] # "gone"
    /\ row' = [row EXCEPT ![s] = "gone"]
    /\ lost' = lost \ {s}
    /\ UNCHANGED <<entry, taskVars, reqVars, resetPending>>

(* Faulty: forgets the captures that had not got going. *)
StaleActive == {s \in Streams : row[s] = "active"}

Stale == {s \in Streams : row[s] \in {"active", "starting"}}

ResetStale ==
    /\ resetPending
    /\ resetPending' = FALSE
    /\ \/ row' = [s \in Streams |-> IF s \in Stale THEN "inactive" ELSE row[s]] /\ UNCHANGED lost
       \/ "db" \in Faults /\ lost' = lost \cup Stale /\ UNCHANGED row
    /\ UNCHANGED <<entry, taskVars, reqVars>>

(* The process dies and is started again on the same database.  A row left  *)
(* at "stopping" keeps it: the reset does not look for it.                  *)
CrashRestart ==
    /\ "crash" \in Faults
    /\ entry' = [s \in Streams |-> None]
    /\ stage' = [t \in Tasks |-> "free"]
    /\ pc' = [r \in Requests |-> "idle"]
    /\ held' = [r \in Requests |-> None]
    /\ resetPending' = TRUE
    /\ lost' = lost \cup {s \in Streams : row[s] = "stopping"}
    /\ outcome' = [t \in Tasks |-> "inactive"]
    /\ aborted' = [t \in Tasks |-> FALSE]
    /\ UNCHANGED <<row, strm, target>>

TaskStep(t) ==
    \/ TaskSetupFails(t) \/ TaskActivate(t) \/ TaskFails(t) \/ TaskOpenSource(t)
    \/ TaskFinish(t) \/ TaskDeregister(t) \/ TaskReport(t) \/ TaskCancelled(t)

RequestStep(r) ==
    \/ StartFind(r) \/ StartRefused(r) \/ (\E t \in Tasks : StartClaim(r, t))
    \/ StopRemove(r) \/ StopMark(r) \/ StopAbort(r) \/ StopSettle(r)

ManagerNext ==
    \/ \E r \in Requests : RequestStep(r) \/ RequestDropped(r)
    \/ \E r \in Requests, s \in Streams : StartCall(r, s) \/ StopCall(r, s)
    \/ \E t \in Tasks : TaskStep(t)
    \/ \E s \in Streams : DeleteStream(s)
    \/ ResetStale
    \/ CrashRestart

Next == ManagerNext \/ \E r \in Requests : Reply(r)

(* The runtime polls every task and every handler that can go on.  Nothing  *)
(* makes a capture finish (its duration may be 0, infinite), fail, or the   *)
(* process crash.                                                           *)
Fairness ==
    /\ \A r \in Requests : WF_vars(RequestStep(r)) /\ WF_vars(Reply(r))
    /\ \A t \in Tasks : WF_vars(TaskActivate(t) \/ TaskOpenSource(t) \/ TaskDeregister(t)
                                \/ TaskReport(t) \/ TaskCancelled(t))
    /\ WF_vars(ResetStale)

Spec == Init /\ [][Next]_vars /\ Fairness

-----------------------------------------------------------------------------
(* Properties *)

(* What the table says is running is running: the task of an entry has not  *)
(* yet taken itself out, was not aborted, and belongs to the entry's stream.*)
(* The one exception is a task that died while setting up its storage.      *)
EntryTaskLive ==
    \A s \in Streams : entry[s] # None =>
        /\ strm[entry[s]] = s
        /\ ~aborted[entry[s]]
        /\ stage[entry[s]] \in Registered \cup {"died"}

(* Somebody who is going to correct the status of stream s. *)
Witness(s) ==
    \/ resetPending
    \/ entry[s] # None
    \/ \E t \in Tasks : strm[t] = s /\ stage[t] \in LiveStages
    \/ \E r \in Requests : target[r] = s /\ pc[r] \in Stopping

(* No phantom capture: a row that says "starting" or "active" has a capture *)
(* behind it or somebody about to overwrite it, unless the write that       *)
(* should have said otherwise failed.  Dashboards and the MJPEG endpoint    *)
(* decide on this column.                                                   *)
ActiveHasWitness ==
    \A s \in Streams \ lost : row[s] \in {"starting", "active"} => Witness(s)

(* Without failures there is nothing to forgive: no write is ever lost. *)
NothingLost == Faults = {} /\ GraceSuffices => lost = {}

(* A row says "stopping" only while a stop_stream call is still under way.  *)
StoppingHasRequest ==
    \A s \in Streams \ lost : row[s] = "stopping" =>
        \E r \in Requests : target[r] = s /\ pc[r] \in {"abort", "settle"}

(* What execution_status claims, somebody stands for.                       *)
StatusAccounted == ActiveHasWitness /\ StoppingHasRequest

(* A capture that is producing frames and that no stop call has taken. *)
Capturing(t) ==
    /\ stage[t] \in {"active", "running"}
    /\ ~aborted[t]
    /\ \A r \in Requests : held[r] # t

(* The check under the write lock in start_stream is there so that a stream *)
(* is captured by one task at a time, the ones being stopped aside.         *)
OneCapture ==
    \A t, u \in Tasks : Capturing(t) /\ Capturing(u) /\ strm[t] = strm[u] => t = u

(* A transitional status does not stay: however starts, stops and dropped   *)
(* requests follow each other, a stream gets to a status that says what it  *)
(* is again and again, unless the write that should say so was lost or the  *)
(* process is restarted for ever.                                           *)
TransitionEnds ==
    \A s \in Streams :
        []<>(row[s] \notin {"starting", "stopping"} \/ s \in lost \/ resetPending)
=============================================================================
