-------------------------- MODULE SnapshotProcessor --------------------------
(***************************************************************************)
(* gl_capture::BackgroundSnapshotProcessor: the map of snapshot jobs, the  *)
(* unbounded channel of requests, the loop that hands each request to a    *)
(* blocking thread, and the callers that wait at most 45 seconds.          *)
(*                                                                         *)
(* Four parties write a job's status, each under the write lock but none   *)
(* looking at what the others did: the loop, the thread that runs ffmpeg,  *)
(* a caller that timed out, and cancel_job.                                *)
(***************************************************************************)
EXTENDS Naturals, Sequences

CONSTANT SnapshotJobs   \* job ids, fresh for every submission

VARIABLES
    status,         \* the job's status in the map, "absent" if it has no entry
    queue,          \* requests in the channel
    work,           \* where the request of each job is
    outcome,        \* what ffmpeg came to
    channel,        \* what the job's oneshot channel holds
    waiter,         \* the caller of process_job_sync
    cancelOk        \* history: cancel_job has answered Ok for the job

procVars == <<status, queue, work, outcome, channel, waiter, cancelOk>>

Final == {"completed", "failed", "cancelled"}

ProcTypeOK ==
    /\ status \in [SnapshotJobs -> Final \cup {"absent", "pending", "processing"}]
    /\ queue \in Seq(SnapshotJobs)
    /\ work \in [SnapshotJobs -> {"none", "stored", "queued", "ffmpeg", "recorded", "over"}]
    /\ outcome \in [SnapshotJobs -> {"none", "ok", "err"}]
    /\ channel \in [SnapshotJobs -> {"empty", "ok", "err"}]
    /\ waiter \in [SnapshotJobs -> {"none", "waiting", "ok", "err", "timeout"}]
    /\ cancelOk \subseteq SnapshotJobs

ProcInit ==
    /\ status = [j \in SnapshotJobs |-> "absent"]
    /\ queue = <<>>
    /\ work = [j \in SnapshotJobs |-> "none"]
    /\ outcome = [j \in SnapshotJobs |-> "none"]
    /\ channel = [j \in SnapshotJobs |-> "empty"]
    /\ waiter = [j \in SnapshotJobs |-> "none"]
    /\ cancelOk = {}

-----------------------------------------------------------------------------
(* get_mut under the write lock: only a job that is still in the map.       *)
Mark(j, st) ==
    status' = IF status[j] = "absent" THEN status ELSE [status EXCEPT ![j] = st]

Move(j, w) == work' = [work EXCEPT ![j] = w]

(* submit_job (or submit_job_with_id) and the first half of                 *)
(* process_job_sync: the entry is made first, the request is sent after.    *)
Submit(j) ==
    /\ work[j] = "none"
    /\ status' = [status EXCEPT ![j] = "pending"]
    /\ Move(j, "stored")
    /\ waiter' \in {waiter, [waiter EXCEPT ![j] = "waiting"]}
    /\ UNCHANGED <<queue, outcome, channel, cancelOk>>

Send(j) ==
    /\ work[j] = "stored"
    /\ queue' = Append(queue, j)
    /\ Move(j, "queued")
    /\ UNCHANGED <<status, outcome, channel, waiter, cancelOk>>

(* Faulty: a status no client knows. *)
ReceiveAsThread ==
    /\ queue # <<>>
    /\ queue' = Tail(queue)
    /\ Mark(Head(queue), "ffmpeg")
    /\ Move(Head(queue), "ffmpeg")
    /\ UNCHANGED <<outcome, channel, waiter, cancelOk>>

(* The loop takes the next request, whatever has become of its job.         *)
Receive ==
    /\ queue # <<>>
    /\ queue' = Tail(queue)
    /\ Mark(Head(queue), "processing")
    /\ Move(Head(queue), "ffmpeg")
    /\ UNCHANGED <<outcome, channel, waiter, cancelOk>>

(* Faulty: an error is sent to the caller and not recorded. *)
RecordSuccess(j, res) ==
    /\ work[j] = "ffmpeg"
    /\ IF res = "ok" THEN Mark(j, "completed") ELSE UNCHANGED status
    /\ outcome' = [outcome EXCEPT ![j] = res]
    /\ Move(j, "recorded")
    /\ UNCHANGED <<queue, channel, waiter, cancelOk>>

(* ffmpeg is done, on its own or by its timeout.                            *)
Record(j, res) ==
    /\ work[j] = "ffmpeg"
    /\ Mark(j, IF res = "ok" THEN "completed" ELSE "failed")
    /\ outcome' = [outcome EXCEPT ![j] = res]
    /\ Move(j, "recorded")
    /\ UNCHANGED <<queue, channel, waiter, cancelOk>>

Reply(j) ==
    /\ work[j] = "recorded"
    /\ channel' = [channel EXCEPT ![j] = outcome[j]]
    /\ Move(j, "over")
    /\ UNCHANGED <<status, queue, outcome, waiter, cancelOk>>

-----------------------------------------------------------------------------
(* The second half of process_job_sync *)

AnswerWaiter(j) ==
    /\ waiter[j] = "waiting"
    /\ channel[j] # "empty"
    /\ waiter' = [waiter EXCEPT ![j] = channel[j]]
    /\ UNCHANGED <<status, queue, work, outcome, channel, cancelOk>>

(* 45 seconds have passed and the channel was empty when it was last polled.*)
TimeOut(j) ==
    /\ waiter[j] = "waiting"
    /\ work[j] # "stored"
    /\ channel[j] = "empty"
    /\ waiter' = [waiter EXCEPT ![j] = "timeout"]
    /\ Mark(j, "failed")
    /\ UNCHANGED <<queue, work, outcome, channel, cancelOk>>

-----------------------------------------------------------------------------
(* cancel_job: only who has the id of a job can cancel it, and the id of    *)
(* a job of process_job_sync never leaves it.                               *)
CancelSnapshotJob(j) ==
    /\ waiter[j] = "none"
    /\ status[j] \in {"pending", "processing"}
    /\ status' = [status EXCEPT ![j] = "cancelled"]
    /\ cancelOk' = cancelOk \cup {j}
    /\ UNCHANGED <<queue, work, outcome, channel, waiter>>

(* Faulty: forgets jobs by their age alone. *)
CleanupAll(J) ==
    /\ J # {} /\ \A j \in J : status[j] # "absent"
    /\ status' = [j \in SnapshotJobs |-> IF j \in J THEN "absent" ELSE status[j]]
    /\ UNCHANGED <<queue, work, outcome, channel, waiter, cancelOk>>

(* cleanup_old_jobs: any of the jobs in a final state may be an hour old.   *)
CleanupOldJobs(J) ==
    /\ J # {} /\ \A j \in J : status[j] \in Final
    /\ status' = [j \in SnapshotJobs |-> IF j \in J THEN "absent" ELSE status[j]]
    /\ UNCHANGED <<queue, work, outcome, channel, waiter, cancelOk>>

ProcNext ==
    \/ \E j \in SnapshotJobs :
          \/ Submit(j) \/ Send(j) \/ Reply(j) \/ AnswerWaiter(j) \/ TimeOut(j)
          \/ CancelSnapshotJob(j)
    \/ \E j \in SnapshotJobs, res \in {"ok", "err"} : Record(j, res)
    \/ Receive
    \/ \E J \in SUBSET SnapshotJobs : CleanupOldJobs(J)

(* The loop, the blocking threads and the callers go on, and ffmpeg ends.   *)
ProcFairness ==
    /\ WF_procVars(Receive)
    /\ \A j \in SnapshotJobs :
          /\ WF_procVars(Send(j))
          /\ WF_procVars(\E res \in {"ok", "err"} : Record(j, res))
          /\ WF_procVars(Reply(j))
          /\ WF_procVars(AnswerWaiter(j))

ProcSpec == ProcInit /\ [][ProcNext]_procVars /\ ProcFairness

-----------------------------------------------------------------------------
(* Properties *)

(* What a caller was told is what the job says afterwards, to everybody     *)
(* who polls it, until the job is cleaned up.                               *)
AnswerAgrees ==
    \A j \in SnapshotJobs :
        /\ waiter[j] = "ok" => status[j] \in {"completed", "absent"}
        /\ waiter[j] = "err" => status[j] \in {"failed", "absent"}

(* A job is forgotten only when nothing more is going to be heard of it,    *)
(* unless a caller gave up on it or cancelled it.                           *)
ForgottenIsOver ==
    \A j \in SnapshotJobs : status[j] = "absent" /\ work[j] \notin {"none", "recorded", "over"} =>
        waiter[j] = "timeout" \/ j \in cancelOk

(* Every submitted job comes to an end that a client who polls it can see.  *)
JobEnds == \A j \in SnapshotJobs : status[j] \in {"pending", "processing"} ~> status[j] \in Final

(* A job that cancel_job has cancelled stays cancelled.                     *)
CancelledStays == \A j \in cancelOk : status[j] \in {"cancelled", "absent"}
=============================================================================
