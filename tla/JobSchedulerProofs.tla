------------------------- MODULE JobSchedulerProofs -------------------------
(***************************************************************************)
(* For any number of jobs and executions and any combination of faults: no *)
(* execution that execute_now has answered for escapes cancel_job.         *)
(***************************************************************************)
EXTENDS JobScheduler, TLAPS

USE JobNoneAssumption, JobFaultsAssumption

TrackInv == JobTypeOK /\ LiveIsTracked

LEMMA TrackInvInit == JobInit => TrackInv
  BY DEF JobInit, TrackInv, JobTypeOK, LiveIsTracked, LiveTasks, Statuses

LEMMA TrackInvCalls ==
    ASSUME TrackInv, NEW e \in Executions,
           \/ \E j \in Jobs : Schedule(e, j) \/ ExecuteNow(e, j) \/ LoadNext(e, j)
           \/ CallStep(e) \/ CallerDropped(e)
    PROVE  TrackInv'
<1> USE DEF TrackInv, JobTypeOK, LiveIsTracked, LiveTasks, Statuses, jobStoreVars, loadVars, taskVars
<1>1. ASSUME NEW j \in Jobs, Schedule(e, j) \/ ExecuteNow(e, j) \/ LoadNext(e, j)
      PROVE  TrackInv'
  <2>1. Enter(e, j)
    BY <1>1 DEF Schedule, ExecuteNow, LoadNext
  <2>2. scheduled' \in [Jobs -> {"none", "on", "off"}] /\ history' \in [Executions -> Statuses \cup {"none"}]
    BY <1>1 DEF Schedule, ExecuteNow, LoadNext, SaveJob, Cascade
  <2>3. loading' \subseteq Jobs /\ loader' \in Executions \cup {NoJob} /\ phase' = phase
    BY <1>1 DEF Schedule, ExecuteNow, LoadNext
  <2> QED
    BY <2>1, <2>2, <2>3 DEF Enter
<1>2. CASE NoHandler(e)
  BY <1>2 DEF NoHandler, LeaveCall
<1>3. CASE Spawn(e)
  BY <1>3 DEF Spawn, LeaveCall
<1>4. CASE Track(e)
  BY <1>4 DEF Track
<1>5. CASE CallerDropped(e)
  BY <1>5 DEF CallerDropped, LeaveCall
<1> QED
  BY <1>1, <1>2, <1>3, <1>4, <1>5 DEF CallStep

LEMMA TrackInvTask ==
    ASSUME TrackInv, NEW e \in Executions, TaskStep(e) \/ HandlerEnds(e)
    PROVE  TrackInv'
<1> USE DEF TrackInv, JobTypeOK, LiveIsTracked, LiveTasks, Statuses, jobStoreVars, loadVars
<1>1. CASE TaskBegin(e)
  <2>1. history' \in [Executions -> Statuses \cup {"none"}] /\ scheduled' = scheduled
    BY <1>1 DEF TaskBegin, SaveResult
  <2>2. UNCHANGED <<handlers, running, call, job, loadVars>> /\ jobTask[e] = "spawned"
    BY <1>1 DEF TaskBegin
  <2>3. CASE TaskOver(e)
    BY <2>1, <2>2, <2>3 DEF TaskOver
  <2>4. CASE jobTask' = [jobTask EXCEPT ![e] = "executing"] /\ UNCHANGED <<result, abortedJobs>>
    BY <2>1, <2>2, <2>4
  <2> QED
    BY <1>1, <2>3, <2>4 DEF TaskBegin, Advance
<1>2. ASSUME NEW status \in {"completed", "failed", "timed_out"}, TaskEnd(e, status)
      PROVE  TrackInv'
  BY <1>2 DEF TaskEnd
<1>3. CASE TaskRecord(e)
  <2>1. history' \in [Executions -> Statuses \cup {"none"}] /\ scheduled' = scheduled
    BY <1>3 DEF TaskRecord, SaveResult
  <2>2. UNCHANGED <<handlers, running, call, job, loadVars>> /\ jobTask[e] = "finished"
    BY <1>3 DEF TaskRecord
  <2>3. CASE TaskOver(e)
    BY <2>1, <2>2, <2>3 DEF TaskOver
  <2>4. CASE jobTask' = [jobTask EXCEPT ![e] = "recorded"] /\ UNCHANGED <<result, abortedJobs>>
    BY <2>1, <2>2, <2>4
  <2> QED
    BY <1>3, <2>3, <2>4 DEF TaskRecord, Advance
<1>4. CASE TaskRemove(e)
  BY <1>4 DEF TaskRemove, TaskOver
<1>5. CASE TaskAborted(e)
  BY <1>5 DEF TaskAborted, TaskOver
<1> QED
  BY <1>1, <1>2, <1>3, <1>4, <1>5 DEF TaskStep, HandlerEnds

LEMMA TrackInvNext == TrackInv /\ [JobNext]_jobVars => TrackInv'
<1> SUFFICES ASSUME TrackInv, [JobNext]_jobVars PROVE TrackInv'
  OBVIOUS
<1> USE DEF TrackInv, JobTypeOK, LiveIsTracked, LiveTasks, Statuses, jobStoreVars, loadVars, taskVars
<1>1. ASSUME NEW j \in Jobs, RegisterHandler(j) \/ DeleteJob(j) \/ LoadFails(j)
      PROVE  TrackInv'
  BY <1>1 DEF RegisterHandler, DeleteJob, Cascade, LoadFails
<1>2. ASSUME NEW e \in Executions, CancelJob(e) PROVE TrackInv'
  <2>1. history' \in [Executions -> Statuses \cup {"none"}] /\ scheduled' = scheduled
    BY <1>2 DEF CancelJob, SaveResult
  <2> QED
    BY <1>2, <2>1 DEF CancelJob
<1>3. CASE StopScheduler
  BY <1>3 DEF StopScheduler
<1>4. CASE StartScheduler \/ LoadDone
  BY <1>4 DEF StartScheduler, LoadDone
<1>5. CASE CrashRestart
  BY <1>5 DEF CrashRestart
<1>6. CASE UNCHANGED jobVars
  BY <1>6 DEF jobVars
<1> QED
  BY <1>1, <1>2, <1>3, <1>4, <1>5, <1>6, TrackInvCalls, TrackInvTask DEF JobNext, SchedulerStep

(* A live task is in the table of running jobs from the moment execute_now  *)
(* answers until it takes itself out or is aborted.                         *)
THEOREM NoJobEscapes == JobSpec => []LiveIsTracked
<1>1. TrackInv => LiveIsTracked
  BY DEF TrackInv
<1> QED
  BY <1>1, TrackInvInit, TrackInvNext, PTL DEF JobSpec

(* The types of the tables, the calls and the tasks, for any executions.    *)
THEOREM JobTypeCorrect == JobSpec => []JobTypeOK
<1>1. TrackInv => JobTypeOK
  BY DEF TrackInv
<1> QED
  BY <1>1, TrackInvInit, TrackInvNext, PTL DEF JobSpec
=============================================================================
