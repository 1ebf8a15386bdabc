----------------------- MODULE SnapshotProcessorProofs -----------------------
(***************************************************************************)
(* For any number of jobs: a caller of process_job_sync that was answered  *)
(* was told what the job's entry says.                                     *)
(***************************************************************************)
EXTENDS SnapshotProcessor, TLAPS

(* A request is in the channel once, and only while its work waits for it:  *)
(* the loop never starts a job twice or after it is over.                   *)
QueueOK ==
    /\ \A i \in 1 .. Len(queue) : work[queue[i]] = "queued"
    /\ \A i, k \in 1 .. Len(queue) : queue[i] = queue[k] => i = k

Verdict(j) == IF outcome[j] = "ok" THEN "completed" ELSE "failed"

(* The thread records before it replies, and the caller repeats the reply.  *)
RecordOK ==
    \A j \in SnapshotJobs :
        /\ channel[j] # "empty" => work[j] = "over" /\ channel[j] = outcome[j]
        /\ waiter[j] \in {"ok", "err"} => work[j] = "over" /\ waiter[j] = outcome[j]
        /\ work[j] \in {"recorded", "over"} =>
              /\ outcome[j] # "none"
              /\ waiter[j] # "timeout" => status[j] \in {Verdict(j), "absent"}
        /\ work[j] = "none" => waiter[j] = "none"

ProcInv == ProcTypeOK /\ QueueOK /\ RecordOK

LEMMA ProcInvInit == ProcInit => ProcInv
  BY DEF ProcInit, ProcInv, ProcTypeOK, QueueOK, RecordOK, Final

LEMMA ProcInvNext == ProcInv /\ [ProcNext]_procVars => ProcInv'
<1> SUFFICES ASSUME ProcInv, [ProcNext]_procVars PROVE ProcInv'
  OBVIOUS
<1> USE DEF ProcInv, ProcTypeOK, QueueOK, RecordOK, Verdict, Final
<1>1. ASSUME NEW j \in SnapshotJobs, Submit(j) PROVE ProcInv'
  <2>1. \A i \in 1 .. Len(queue) : queue[i] # j
    BY <1>1 DEF Submit
  <2>2. ProcTypeOK'
    BY <1>1 DEF Submit, Move
  <2>3. QueueOK'
    BY <1>1, <2>1 DEF Submit, Move
  <2>4. RecordOK'
    BY <1>1 DEF Submit, Move
  <2> QED
    BY <2>2, <2>3, <2>4
<1>2. ASSUME NEW j \in SnapshotJobs, Send(j) PROVE ProcInv'
  <2>1. ProcTypeOK'
    BY <1>2 DEF Send, Move
  <2>2. QueueOK'
    BY <1>2 DEF Send, Move
  <2>3. RecordOK'
    BY <1>2 DEF Send, Move
  <2> QED
    BY <2>1, <2>2, <2>3
<1>3. CASE Receive
  <2> DEFINE j == Head(queue)
  <2>1. /\ j \in SnapshotJobs /\ work[j] = "queued"
        /\ \A i \in 1 .. Len(queue') : queue'[i] = queue[i + 1] /\ queue'[i] # j
    <3>1. queue # <<>> /\ queue' = Tail(queue) /\ queue \in Seq(SnapshotJobs)
      BY <1>3 DEF Receive
    <3>2. Len(queue) \in Nat /\ Len(queue) > 0 /\ j = queue[1] /\ j \in SnapshotJobs
      BY <3>1
    <3>3. /\ Len(queue') = Len(queue) - 1
          /\ \A i \in 1 .. Len(queue') : queue'[i] = queue[i + 1]
      BY <3>1, <3>2
    <3>4. \A i \in 1 .. Len(queue') : queue[i + 1] # queue[1]
      BY <3>2, <3>3
    <3> QED
      BY <3>2, <3>3, <3>4
  <2>2. /\ work' = [work EXCEPT ![j] = "ffmpeg"]
        /\ status' = IF status[j] = "absent" THEN status ELSE [status EXCEPT ![j] = "processing"]
        /\ queue' = Tail(queue) /\ queue' \in Seq(SnapshotJobs) /\ Len(queue') = Len(queue) - 1
        /\ UNCHANGED <<outcome, channel, waiter, cancelOk>>
    BY <1>3 DEF Receive, Mark, Move
  <2> HIDE DEF j
  <2>3. ProcTypeOK'
    BY <2>1, <2>2
  <2>4. QueueOK'
    BY <2>1, <2>2
  <2>5. RecordOK'
    BY <2>1, <2>2
  <2> QED
    BY <2>3, <2>4, <2>5
<1>4. ASSUME NEW j \in SnapshotJobs, NEW res \in {"ok", "err"}, Record(j, res) PROVE ProcInv'
  <2>1. ProcTypeOK'
    BY <1>4 DEF Record, Mark, Move
  <2>2. QueueOK'
    BY <1>4 DEF Record, Move
  <2>3. RecordOK'
    BY <1>4 DEF Record, Mark, Move
  <2> QED
    BY <2>1, <2>2, <2>3
<1>5. ASSUME NEW j \in SnapshotJobs, Reply(j) PROVE ProcInv'
  BY <1>5 DEF Reply, Move
<1>6. ASSUME NEW j \in SnapshotJobs, AnswerWaiter(j) PROVE ProcInv'
  BY <1>6 DEF AnswerWaiter
<1>7. ASSUME NEW j \in SnapshotJobs, TimeOut(j) PROVE ProcInv'
  BY <1>7 DEF TimeOut, Mark
<1>8. ASSUME NEW j \in SnapshotJobs, CancelSnapshotJob(j) PROVE ProcInv'
  BY <1>8 DEF CancelSnapshotJob
<1>9. ASSUME NEW J \in SUBSET SnapshotJobs, CleanupOldJobs(J) PROVE ProcInv'
  BY <1>9 DEF CleanupOldJobs
<1>10. CASE UNCHANGED procVars
  BY <1>10 DEF procVars
<1> QED
  BY <1>1, <1>2, <1>3, <1>4, <1>5, <1>6, <1>7, <1>8, <1>9, <1>10 DEF ProcNext

(* A caller that got an answer got the one the job's entry gives to anybody *)
(* who polls it.                                                            *)
THEOREM CallerToldTheTruth == ProcSpec => []AnswerAgrees
<1>1. ProcInv => AnswerAgrees
  BY DEF ProcInv, RecordOK, AnswerAgrees, Verdict
<1> QED
  BY <1>1, ProcInvInit, ProcInvNext, PTL DEF ProcSpec

(* The types of the map, the channel and the callers, for any jobs.         *)
THEOREM ProcTypeCorrect == ProcSpec => []ProcTypeOK
<1>1. ProcInv => ProcTypeOK
  BY DEF ProcInv
<1> QED
  BY <1>1, ProcInvInit, ProcInvNext, PTL DEF ProcSpec

-----------------------------------------------------------------------------
(* Clean-up forgets what is final; ForgottenIsOver is inductive when it is  *)
(* said of a final job as well.                                             *)
FinalIsOver ==
    \A j \in SnapshotJobs :
        status[j] \in Final \cup {"absent"} /\ work[j] \notin {"none", "recorded", "over"} =>
            waiter[j] = "timeout" \/ j \in cancelOk

LEMMA FinalIsOverInit == ProcInit => FinalIsOver
  BY DEF ProcInit, FinalIsOver

LEMMA FinalIsOverNext == ProcInv /\ FinalIsOver /\ [ProcNext]_procVars => FinalIsOver'
<1> SUFFICES ASSUME ProcInv, FinalIsOver, [ProcNext]_procVars PROVE FinalIsOver'
  OBVIOUS
<1> USE DEF FinalIsOver, ProcInv, ProcTypeOK, Final
<1>1. ASSUME NEW j \in SnapshotJobs, Submit(j) PROVE FinalIsOver'
  BY <1>1 DEF Submit, Move
<1>2. ASSUME NEW j \in SnapshotJobs, Send(j) PROVE FinalIsOver'
  BY <1>2 DEF Send, Move
<1>3. CASE Receive
  <2> DEFINE j == Head(queue)
  <2>1. queue \in Seq(SnapshotJobs) /\ queue # <<>>
    BY <1>3 DEF Receive
  <2>2. Len(queue) \in Nat /\ Len(queue) > 0 /\ j = queue[1] /\ j \in SnapshotJobs
    BY <2>1
  <2>3. work[j] = "queued"
    BY <2>2 DEF QueueOK
  <2>4. /\ work' = [work EXCEPT ![j] = "ffmpeg"]
        /\ status' = IF status[j] = "absent" THEN status ELSE [status EXCEPT ![j] = "processing"]
        /\ UNCHANGED <<waiter, cancelOk>>
    BY <1>3 DEF Receive, Mark, Move
  <2> HIDE DEF j
  <2> QED
    BY <2>2, <2>3, <2>4
<1>4. ASSUME NEW j \in SnapshotJobs, NEW res \in {"ok", "err"}, Record(j, res) PROVE FinalIsOver'
  BY <1>4 DEF Record, Mark, Move
<1>5. ASSUME NEW j \in SnapshotJobs, Reply(j) PROVE FinalIsOver'
  BY <1>5 DEF Reply, Move
<1>6. ASSUME NEW j \in SnapshotJobs, AnswerWaiter(j) PROVE FinalIsOver'
  BY <1>6 DEF AnswerWaiter
<1>7. ASSUME NEW j \in SnapshotJobs, TimeOut(j) PROVE FinalIsOver'
  BY <1>7 DEF TimeOut, Mark
<1>8. ASSUME NEW j \in SnapshotJobs, CancelSnapshotJob(j) PROVE FinalIsOver'
  BY <1>8 DEF CancelSnapshotJob
<1>9. ASSUME NEW J \in SUBSET SnapshotJobs, CleanupOldJobs(J) PROVE FinalIsOver'
  BY <1>9 DEF CleanupOldJobs
<1>10. CASE UNCHANGED procVars
  BY <1>10 DEF procVars
<1> QED
  BY <1>1, <1>2, <1>3, <1>4, <1>5, <1>6, <1>7, <1>8, <1>9, <1>10 DEF ProcNext

(* What clean-up has forgotten is over, unless its caller gave up on it or  *)
(* somebody cancelled it.                                                   *)
THEOREM ForgottenJobsAreOver == ProcSpec => []ForgottenIsOver
<1>1. FinalIsOver => ForgottenIsOver
  BY DEF FinalIsOver, ForgottenIsOver
<1> QED
  BY <1>1, ProcInvInit, ProcInvNext, FinalIsOverInit, FinalIsOverNext, PTL DEF ProcSpec
=============================================================================
