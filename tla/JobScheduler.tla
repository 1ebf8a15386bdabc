---------------------------- MODULE JobScheduler ----------------------------
(***************************************************************************)
(* gl_scheduler::JobScheduler: calls that schedule or execute a job, the   *)
(* task each of them spawns, the table of running jobs, and the two tables *)
(* of SqliteJobStorage that survive a restart.                             *)
(*                                                                         *)
(* An execution is one call of execute_now with a fresh execution id; the  *)
(* call and the task it spawns run concurrently, so the task may be over   *)
(* before the call has put its handle into the table.                      *)
(***************************************************************************)
EXTENDS Naturals

CONSTANTS
    Jobs,           \* job ids; each is also the job's type
    Executions,     \* execution ids, used once: the bound on calls
    Unknown,        \* the id save_job_result writes as the job of every execution
    NoJob,
    Faults          \* "db" a failing query, "drop" the caller of execute_now is
                    \* dropped, "crash" the process

ASSUME JobFaultsAssumption == Faults \subseteq {"db", "drop", "crash"}
ASSUME JobNoneAssumption   == NoJob \notin Executions \cup Jobs

VARIABLES
    handlers,       \* job types that have a handler
    scheduled,      \* scheduled_jobs: "none", or the enabled flag of the row
    history,        \* job_executions: the status in each execution's row
    running,        \* running_jobs: executions that have an entry
    call,           \* where the call that made the execution is
    job,            \* the job of each call, until its task is spawned
    jobTask,        \* where the spawned task is
    result,         \* what the handler's run came to
    abortedJobs,    \* executions whose live task has been told to abort
    loading,        \* jobs load_persisted_jobs has listed and not yet restored
    loader,         \* the execution it is restoring a job with
    phase           \* the process is wired ("new"), in start ("loading"), or up

jobStoreVars == <<scheduled, history>>
taskVars     == <<jobTask, result, abortedJobs>>
loadVars     == <<loading, loader, phase>>
jobVars      == <<handlers, jobStoreVars, running, call, job, taskVars, loadVars>>

Statuses  == {"running", "completed", "failed", "timed_out", "cancelled"}
LiveTasks == {"spawned", "executing", "finished", "recorded"}

JobTypeOK ==
    /\ handlers \subseteq Jobs
    /\ scheduled \in [Jobs -> {"none", "on", "off"}]
    /\ history \in [Executions -> Statuses \cup {"none"}]
    /\ running \subseteq Executions
    /\ call \in [Executions -> {"none", "saved", "insert", "returned", "gone"}]
    /\ job \in [Executions -> Jobs \cup {NoJob}]
    /\ jobTask \in [Executions -> LiveTasks \cup {"none", "over"}]
    /\ result \in [Executions -> Statuses]
    /\ abortedJobs \subseteq Executions
    /\ loading \subseteq Jobs
    /\ loader \in Executions \cup {NoJob}
    /\ phase \in {"new", "loading", "up"}

JobInit ==
    /\ handlers = {}
    /\ scheduled = [j \in Jobs |-> "none"]
    /\ history = [e \in Executions |-> "none"]
    /\ running = {}
    /\ call = [e \in Executions |-> "none"]
    /\ job = [e \in Executions |-> NoJob]
    /\ jobTask = [e \in Executions |-> "none"]
    /\ result = [e \in Executions |-> "running"]
    /\ abortedJobs = {}
    /\ loading = {}
    /\ loader = NoJob
    /\ phase = "new"

-----------------------------------------------------------------------------
(* SqliteJobStorage *)

(* A row of job_executions refers to a row of scheduled_jobs.  Every result *)
(* is saved under the id 'unknown', so this is whether it can be saved.     *)
Recordable == Unknown \in Jobs /\ scheduled[Unknown] # "none"

(* The callers of save_job_result in a task ignore its error. *)
SaveResult(e, status) ==
    /\ \/ Recordable /\ history' = [history EXCEPT ![e] = status]
       \/ (~Recordable \/ "db" \in Faults) /\ UNCHANGED history
    /\ UNCHANGED scheduled

(* Deleting a job cascades to its executions, and so does the REPLACE that  *)
(* saves it again.                                                          *)
Cascade(j) ==
    history' = IF j = Unknown THEN [e \in Executions |-> "none"] ELSE history

SaveJob(j, enabled) == scheduled' = [scheduled EXCEPT ![j] = enabled] /\ Cascade(j)

DeleteJob(j) ==
    /\ phase = "up"
    /\ scheduled[j] # "none"
    /\ scheduled' = [scheduled EXCEPT ![j] = "none"]
    /\ Cascade(j)
    /\ UNCHANGED <<handlers, running, call, job, taskVars, loadVars>>

-----------------------------------------------------------------------------
(* schedule_once, schedule_recurring and execute_now *)

(* main registers the handlers, waits for start, and then lets callers in. *)
RegisterHandler(j) ==
    /\ phase = "new"
    /\ j \notin handlers
    /\ handlers' = handlers \cup {j}
    /\ UNCHANGED <<jobStoreVars, running, call, job, taskVars, loadVars>>

Enter(e, j) ==
    /\ call[e] = "none"
    /\ call' = [call EXCEPT ![e] = "saved"]
    /\ job' = [job EXCEPT ![e] = j]
    /\ UNCHANGED <<handlers, running, taskVars>>

(* A failed save returns before anything else happens. *)
Schedule(e, j) ==
    /\ phase = "up"
    /\ Enter(e, j)
    /\ \E enabled \in {"on", "off"} : SaveJob(j, enabled)
    /\ UNCHANGED loadVars

ExecuteNow(e, j) ==
    /\ phase = "up"
    /\ Enter(e, j)
    /\ UNCHANGED <<jobStoreVars, loadVars>>

LeaveCall(e, p) == call' = [call EXCEPT ![e] = p] /\ job' = [job EXCEPT ![e] = NoJob]

NoHandler(e) ==
    /\ call[e] = "saved"
    /\ job[e] \notin handlers
    /\ LeaveCall(e, "gone")
    /\ UNCHANGED <<handlers, jobStoreVars, running, taskVars, loadVars>>

Spawn(e) ==
    /\ call[e] = "saved"
    /\ job[e] \in handlers
    /\ LeaveCall(e, "insert")
    /\ jobTask' = [jobTask EXCEPT ![e] = "spawned"]
    /\ UNCHANGED <<handlers, jobStoreVars, running, result, abortedJobs, loadVars>>

Track(e) ==
    /\ call[e] = "insert"
    /\ running' = running \cup {e}
    /\ call' = [call EXCEPT ![e] = "returned"]
    /\ UNCHANGED <<handlers, jobStoreVars, job, taskVars, loadVars>>

(* A capture task that is aborted while it waits for a lock in execute_now. *)
CallerDropped(e) ==
    /\ "drop" \in Faults
    /\ call[e] \in {"saved", "insert"}
    /\ e # loader
    /\ LeaveCall(e, "gone")
    /\ UNCHANGED <<handlers, jobStoreVars, running, taskVars, loadVars>>

-----------------------------------------------------------------------------
(* The spawned task.  After an abort, a write that is already with the       *)
(* database still happens and the task ends at that await.                  *)

TaskOver(e) ==
    /\ jobTask' = [jobTask EXCEPT ![e] = "over"]
    /\ result' = [result EXCEPT ![e] = "running"]
    /\ abortedJobs' = abortedJobs \ {e}

Advance(e, next) ==
    IF e \in abortedJobs THEN TaskOver(e)
                     ELSE jobTask' = [jobTask EXCEPT ![e] = next] /\ UNCHANGED <<result, abortedJobs>>

TaskBegin(e) ==
    /\ jobTask[e] = "spawned"
    /\ SaveResult(e, "running")
    /\ Advance(e, "executing")
    /\ UNCHANGED <<handlers, running, call, job, loadVars>>

(* Faulty: a timeout has no status of its own. *)
TaskEndUnnamed(e, status) ==
    /\ jobTask[e] = "executing"
    /\ e \notin abortedJobs
    /\ jobTask' = [jobTask EXCEPT ![e] = "finished"]
    /\ result' = [result EXCEPT ![e] = IF status = "timed_out" THEN "none" ELSE status]
    /\ UNCHANGED <<handlers, jobStoreVars, running, call, job, abortedJobs, loadVars>>

(* The handler returns, or the scheduler's timeout drops it. *)
TaskEnd(e, status) ==
    /\ jobTask[e] = "executing"
    /\ e \notin abortedJobs
    /\ jobTask' = [jobTask EXCEPT ![e] = "finished"]
    /\ result' = [result EXCEPT ![e] = status]
    /\ UNCHANGED <<handlers, jobStoreVars, running, call, job, abortedJobs, loadVars>>

(* Faulty: gives up when the result cannot be saved. *)
TaskRecordStrict(e) ==
    /\ jobTask[e] = "finished"
    /\ SaveResult(e, result[e])
    /\ Advance(e, IF Recordable THEN "recorded" ELSE "over")
    /\ UNCHANGED <<handlers, running, call, job, loadVars>>

TaskRecord(e) ==
    /\ jobTask[e] = "finished"
    /\ SaveResult(e, result[e])
    /\ Advance(e, "recorded")
    /\ UNCHANGED <<handlers, running, call, job, loadVars>>

TaskRemove(e) ==
    /\ jobTask[e] = "recorded"
    /\ running' = running \ {e}
    /\ TaskOver(e)
    /\ UNCHANGED <<handlers, jobStoreVars, call, job, loadVars>>

TaskAborted(e) ==
    /\ e \in abortedJobs
    /\ jobTask[e] \in LiveTasks
    /\ TaskOver(e)
    /\ UNCHANGED <<handlers, jobStoreVars, running, call, job, loadVars>>

-----------------------------------------------------------------------------
(* Faulty: takes the handle out of the table and drops it. *)
CancelByDropping(e) ==
    /\ phase = "up"
    /\ e \in running
    /\ running' = running \ {e}
    /\ SaveResult(e, "cancelled")
    /\ UNCHANGED <<handlers, call, job, taskVars, loadVars>>

(* cancel_job holds the write lock over all of this.  It answers Err when   *)
(* the result cannot be saved, with the job cancelled all the same.         *)
CancelJob(e) ==
    /\ phase = "up"
    /\ e \in running
    /\ running' = running \ {e}
    /\ abortedJobs' = abortedJobs \cup {f \in {e} : jobTask[f] \in LiveTasks}
    /\ SaveResult(e, "cancelled")
    /\ UNCHANGED <<handlers, call, job, jobTask, result, loadVars>>

(* stop aborts what the table holds and leaves the table as it is. *)
StopScheduler ==
    /\ phase = "up"
    /\ running # {}
    /\ abortedJobs' = abortedJobs \cup {e \in running : jobTask[e] \in LiveTasks}
    /\ UNCHANGED <<handlers, jobStoreVars, running, call, job, jobTask, result, loadVars>>

-----------------------------------------------------------------------------
(* start and load_persisted_jobs *)

StartScheduler ==
    /\ phase = "new"
    /\ phase' = "loading"
    /\ loading' = {j \in Jobs : scheduled[j] = "on"}
    /\ UNCHANGED <<handlers, jobStoreVars, running, call, job, taskVars, loader>>

LoaderIdle == loader # NoJob => call[loader] \in {"returned", "gone"}

(* One job after the other, whether or not the one before could be restored;*)
(* each is saved again as it was listed.                                    *)
LoadNext(e, j) ==
    /\ j \in loading /\ LoaderIdle
    /\ Enter(e, j)
    /\ SaveJob(j, "on")
    /\ loading' = loading \ {j}
    /\ loader' = e
    /\ UNCHANGED phase

LoadFails(j) ==
    /\ "db" \in Faults
    /\ j \in loading /\ LoaderIdle
    /\ loading' = loading \ {j}
    /\ UNCHANGED <<handlers, jobStoreVars, running, call, job, taskVars, loader, phase>>

LoadDone ==
    /\ phase = "loading" /\ loading = {} /\ LoaderIdle
    /\ phase' = "up"
    /\ loader' = NoJob
    /\ UNCHANGED <<handlers, jobStoreVars, running, call, job, taskVars, loading>>

(* The process dies: what is not in the database is gone. *)
CrashRestart ==
    /\ "crash" \in Faults
    /\ handlers' = {}
    /\ running' = {}
    /\ call' = [e \in Executions |-> IF call[e] = "none" THEN "none" ELSE "gone"]
    /\ jobTask' = [e \in Executions |-> IF jobTask[e] = "none" THEN "none" ELSE "over"]
    /\ job' = [e \in Executions |-> NoJob]
    /\ result' = [e \in Executions |-> "running"]
    /\ abortedJobs' = {}
    /\ loading' = {}
    /\ loader' = NoJob
    /\ phase' = "new"
    /\ UNCHANGED jobStoreVars

CallStep(e) == NoHandler(e) \/ Spawn(e) \/ Track(e)

TaskStep(e) == TaskBegin(e) \/ TaskRecord(e) \/ TaskRemove(e) \/ TaskAborted(e)

(* Everything but the handler's own steps and the crash. *)
SchedulerStep ==
    \/ \E j \in Jobs : RegisterHandler(j) \/ DeleteJob(j) \/ LoadFails(j)
    \/ \E e \in Executions, j \in Jobs : Schedule(e, j) \/ ExecuteNow(e, j) \/ LoadNext(e, j)
    \/ \E e \in Executions : CallStep(e) \/ CallerDropped(e) \/ TaskStep(e) \/ CancelJob(e)
    \/ StopScheduler
    \/ StartScheduler \/ LoadDone

(* With any handler.  The timeout ends every execution; calls and spawned   *)
(* tasks go on.                                                             *)
HandlerEnds(e) == \E status \in {"completed", "failed", "timed_out"} : TaskEnd(e, status)

JobNext ==
    \/ SchedulerStep
    \/ \E e \in Executions : HandlerEnds(e)
    \/ CrashRestart

JobFairness ==
    \A e \in Executions : /\ WF_jobVars(CallStep(e))
                          /\ WF_jobVars(TaskStep(e))
                          /\ WF_jobVars(HandlerEnds(e))

JobSpec == JobInit /\ [][JobNext]_jobVars /\ JobFairness

-----------------------------------------------------------------------------
(* Properties *)

(* What execute_now has answered for can be cancelled: its task is over,    *)
(* was aborted, or has its handle in the table.                             *)
LiveIsTracked ==
    \A e \in Executions :
        call[e] = "returned" /\ jobTask[e] \in LiveTasks => e \in running \cup abortedJobs

(* An entry whose task is alive goes away when the task ends, unless stop   *)
(* aborted the task: a result that cannot be saved is no reason to stay.    *)
EntryReleased ==
    \A e \in Executions :
        (e \in running /\ jobTask[e] \in LiveTasks) ~> (e \notin running \/ e \in abortedJobs)
=============================================================================
