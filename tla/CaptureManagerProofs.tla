------------------------ MODULE CaptureManagerProofs ------------------------
(***************************************************************************)
(* What CaptureManager, and the settings page in front of it, guarantee    *)
(* for every number of streams, tasks and requests and for every           *)
(* combination of faults.                                                  *)
(***************************************************************************)
EXTENDS StreamFrontend, TLAPS

USE NoneAssumption, FaultsAssumption, GraceAssumption

(* A stop call holds the task of the stream it is about, and a task in the  *)
(* hands of a stop call is no longer in the table.                          *)
HeldOK ==
    \A r \in Requests :
        /\ pc[r] \in Stopping <=> held[r] # None
        /\ held[r] # None => /\ strm[held[r]] = target[r]
                             /\ \A s \in Streams : entry[s] # held[r]

(* An identity that is free to be used again carries no abort. *)
FreshOK == \A t \in Tasks : aborted[t] => stage[t] \in LiveStages

TableInv == TypeOK /\ EntryTaskLive /\ HeldOK /\ FreshOK

LEMMA TableInvInit == Init => TableInv
<1> SUFFICES ASSUME Init PROVE TableInv
  OBVIOUS
<1>1. TypeOK
  BY DEF Init, TypeOK, Status, Stages, LiveStages, Points
<1>2. EntryTaskLive /\ HeldOK /\ FreshOK
  BY DEF Init, EntryTaskLive, HeldOK, FreshOK, Stopping
<1> QED
  BY <1>1, <1>2 DEF TableInv

LEMMA TableInvStart ==
    ASSUME TableInv, NEW r \in Requests,
           \/ \E s \in Streams : StartCall(r, s)
           \/ StartFind(r) \/ StartRefused(r)
           \/ \E t \in Tasks : StartClaim(r, t)
    PROVE  TableInv'
<1> USE DEF TableInv, TypeOK, EntryTaskLive, HeldOK, FreshOK, Goto
<1>1. ASSUME NEW s \in Streams, StartCall(r, s) PROVE TableInv'
  BY <1>1 DEF StartCall, taskVars, Points, Stopping
<1>2. CASE StartFind(r)
  BY <1>2 DEF StartFind, taskVars, Points, Stopping
<1>3. CASE StartRefused(r)
  BY <1>3 DEF StartRefused, taskVars, Points, Stopping
<1>4. ASSUME NEW t \in Tasks, StartClaim(r, t) PROVE TableInv'
  <2>1. TypeOK'
    BY <1>4 DEF StartClaim, WriteStatus, Write, Points, Status, Stages, LiveStages
  <2>2. EntryTaskLive' /\ HeldOK' /\ FreshOK'
    BY <1>4 DEF StartClaim, Fresh, Stopping, LiveStages, Registered
  <2> QED
    BY <2>1, <2>2
<1> QED
  BY <1>1, <1>2, <1>3, <1>4

LEMMA TableInvStop ==
    ASSUME TableInv, NEW r \in Requests,
           \/ \E s \in Streams : StopCall(r, s)
           \/ StopRemove(r) \/ StopMark(r) \/ StopAbort(r) \/ StopSettle(r)
           \/ RequestDropped(r) \/ Reply(r)
    PROVE  TableInv'
<1> USE DEF TableInv, TypeOK, EntryTaskLive, HeldOK, FreshOK, Goto
<1>1. ASSUME NEW s \in Streams, StopCall(r, s) PROVE TableInv'
  BY <1>1 DEF StopCall, taskVars, Points, Stopping
<1>2. CASE StopRemove(r)
  BY <1>2 DEF StopRemove, taskVars, Points, Stopping
<1>3. CASE StopMark(r)
  BY <1>3 DEF StopMark, WriteStatus, Write, FailStatus, taskVars, Points, Stopping, Status
<1>4. CASE StopAbort(r)
  BY <1>4 DEF StopAbort, Points, Stopping, LiveStages
<1>5. CASE StopSettle(r)
  BY <1>5 DEF StopSettle, WriteStatus, Write, FailStatus, taskVars, Points, Stopping, Status
<1>6. CASE RequestDropped(r)
  BY <1>6 DEF RequestDropped, WriteUnnoticed, Write, taskVars, Points, Stopping, Status
<1>7. CASE Reply(r)
  BY <1>7 DEF Reply, taskVars, Points, Stopping
<1> QED
  BY <1>1, <1>2, <1>3, <1>4, <1>5, <1>6, <1>7

LEMMA TableInvTask ==
    ASSUME TableInv, NEW t \in Tasks, TaskStep(t)
    PROVE  TableInv'
<1> USE DEF TableInv, TypeOK, EntryTaskLive, HeldOK, FreshOK, Stages, LiveStages, Registered
<1>1. CASE TaskSetupFails(t)
  BY <1>1 DEF TaskSetupFails, reqVars
<1>2. CASE TaskActivate(t)
  <2>1. row' \in [Streams -> Status] /\ lost' \subseteq Streams
    BY <1>2 DEF TaskActivate, WriteStatus, WriteUnnoticed, Write, Status
  <2>2. UNCHANGED <<entry, strm, pc, target, held, resetPending>>
    BY <1>2 DEF TaskActivate, reqVars
  <2>3. CASE aborted[t]
    <3>1. Gone(t)
      BY <1>2, <2>3 DEF TaskActivate, AfterWrite
    <3>2. TypeOK' /\ FreshOK'
      BY <2>1, <2>2, <3>1 DEF Gone
    <3>3. EntryTaskLive' /\ HeldOK'
      BY <2>2, <2>3, <3>1 DEF Gone
    <3> QED
      BY <3>2, <3>3
  <2>4. CASE ~aborted[t]
    BY <1>2, <2>1, <2>2, <2>4 DEF TaskActivate, AfterWrite, Move
  <2> QED
    BY <2>3, <2>4
<1>3. CASE TaskFails(t)
  BY <1>3 DEF TaskFails, reqVars
<1>4. CASE TaskOpenSource(t)
  BY <1>4 DEF TaskOpenSource, Move, reqVars
<1>5. CASE TaskFinish(t)
  BY <1>5 DEF TaskFinish, Move, reqVars
<1>6. CASE TaskDeregister(t)
  BY <1>6 DEF TaskDeregister, Move, reqVars
<1>7. CASE TaskReport(t)
  BY <1>7 DEF TaskReport, WriteStatus, Write, FailStatus, Gone, reqVars, Status
<1>8. CASE TaskCancelled(t)
  BY <1>8 DEF TaskCancelled, Gone, reqVars
<1> QED
  BY <1>1, <1>2, <1>3, <1>4, <1>5, <1>6, <1>7, <1>8 DEF TaskStep

LEMMA TableInvNext == TableInv /\ [Next]_vars => TableInv'
<1> SUFFICES ASSUME TableInv, [Next]_vars PROVE TableInv'
  OBVIOUS
<1>1. ASSUME NEW r \in Requests, RequestStep(r) \/ RequestDropped(r) \/ Reply(r)
      PROVE  TableInv'
  BY <1>1, TableInvStart, TableInvStop DEF RequestStep
<1>2. ASSUME NEW r \in Requests, NEW s \in Streams, StartCall(r, s) \/ StopCall(r, s)
      PROVE  TableInv'
  BY <1>2, TableInvStart, TableInvStop
<1>3. ASSUME NEW t \in Tasks, TaskStep(t) PROVE TableInv'
  BY <1>3, TableInvTask
<1>4. ASSUME NEW s \in Streams, DeleteStream(s) PROVE TableInv'
  BY <1>4 DEF DeleteStream, TableInv, TypeOK, EntryTaskLive, HeldOK, FreshOK,
              taskVars, reqVars, Status
<1>5. CASE ResetStale
  <2>1. row' \in [Streams -> Status] /\ lost' \subseteq Streams /\ resetPending' \in BOOLEAN
    BY <1>5 DEF ResetStale, Stale, TableInv, TypeOK, Status
  <2>2. UNCHANGED <<entry, stage, strm, outcome, aborted, pc, target, held>>
    BY <1>5 DEF ResetStale, taskVars, reqVars
  <2> QED
    BY <2>1, <2>2 DEF TableInv, TypeOK, EntryTaskLive, HeldOK, FreshOK
<1>6. CASE CrashRestart
  <2>1. TypeOK'
    BY <1>6 DEF CrashRestart, TableInv, TypeOK, Stages, LiveStages, Points
  <2>2. EntryTaskLive' /\ HeldOK' /\ FreshOK'
    BY <1>6 DEF CrashRestart, TableInv, TypeOK, EntryTaskLive, HeldOK, FreshOK, Stopping
  <2> QED
    BY <2>1, <2>2 DEF TableInv
<1>7. CASE UNCHANGED vars
  BY <1>7 DEF vars, taskVars, reqVars, TableInv, TypeOK, EntryTaskLive, HeldOK, FreshOK
<1> QED
  BY <1>1, <1>2, <1>3, <1>4, <1>5, <1>6, <1>7 DEF Next, ManagerNext

(* Every variable keeps its type. *)
THEOREM TypeCorrect == Spec => []TypeOK
<1>1. Init => TableInv
  BY TableInvInit
<1>2. TableInv /\ [Next]_vars => TableInv'
  BY TableInvNext
<1>3. TableInv => TypeOK
  BY DEF TableInv
<1> QED
  BY <1>1, <1>2, <1>3, PTL DEF Spec

(* Whatever the table lists is a capture that has not deregistered itself,  *)
(* has not been aborted and is a capture of the stream it is listed under.  *)
THEOREM EntriesAreLive == Spec => []EntryTaskLive
<1>1. Init => TableInv
  BY TableInvInit
<1>2. TableInv /\ [Next]_vars => TableInv'
  BY TableInvNext
<1>3. TableInv => EntryTaskLive
  BY DEF TableInv
<1> QED
  BY <1>1, <1>2, <1>3, PTL DEF Spec

-----------------------------------------------------------------------------
(* Somebody who writes the row of s before leaving: the reset at start-up,  *)
(* a capture that was not aborted, or a stop call.  An entry alone is not   *)
(* enough, because an old task may take it out of the table.                *)
Keeper(s) ==
    \/ resetPending
    \/ \E t \in Tasks : strm[t] = s /\ stage[t] \in LiveStages /\ ~aborted[t]
    \/ \E r \in Requests : target[r] = s /\ pc[r] \in Stopping

RowInv ==
    \A s \in Streams \ lost :
        /\ row[s] \in {"starting", "active"} => Keeper(s)
        /\ row[s] = "stopping" =>
              \E r \in Requests : target[r] = s /\ pc[r] \in {"abort", "settle"}

LEMMA RowInvInit == Init => RowInv
  BY DEF Init, RowInv

LEMMA RowInvStart ==
    ASSUME TableInv, RowInv, NEW r \in Requests,
           \/ \E s \in Streams : StartCall(r, s) \/ StopCall(r, s)
           \/ StartFind(r) \/ StartRefused(r) \/ Reply(r)
           \/ \E t \in Tasks : StartClaim(r, t)
    PROVE  RowInv'
<1> USE DEF TableInv, TypeOK, RowInv, Keeper, Goto, Stopping
<1>1. ASSUME NEW s \in Streams, StartCall(r, s) \/ StopCall(r, s) PROVE RowInv'
  BY <1>1 DEF StartCall, StopCall, taskVars
<1>2. CASE StartFind(r) \/ StartRefused(r) \/ Reply(r)
  BY <1>2 DEF StartFind, StartRefused, Reply, taskVars
<1>3. ASSUME NEW t \in Tasks, StartClaim(r, t) PROVE RowInv'
  <2> SUFFICES ASSUME NEW s \in Streams \ lost',
                      row'[s] \in {"starting", "active", "stopping"}
               PROVE  \/ row'[s] # "stopping" /\ Keeper(s)'
                      \/ \E q \in Requests : target'[q] = s /\ pc'[q] \in {"abort", "settle"}
    BY DEF RowInv, Keeper
  <2>1. strm'[t] = target[r] /\ stage'[t] \in LiveStages /\ ~aborted'[t]
    BY <1>3 DEF StartClaim, Fresh, FreshOK, LiveStages
  <2>2. CASE s = target[r]
    <3>1. Keeper(s)'
      BY <2>1, <2>2 DEF Keeper
    <3>2. row'[s] \in {"starting", "gone"}
      BY <1>3, <2>2 DEF StartClaim, WriteStatus, Write
    <3> QED
      BY <3>1, <3>2
  <2>3. CASE s # target[r]
    <3>1. row'[s] = row[s] /\ s \notin lost
      BY <1>3, <2>3 DEF StartClaim, WriteStatus, Write
    <3>2. \A u \in Tasks : stage[u] \in LiveStages =>
              stage'[u] = stage[u] /\ strm'[u] = strm[u] /\ aborted'[u] = aborted[u]
      BY <1>3 DEF StartClaim, Fresh, LiveStages
    <3>3. \A q \in Requests : pc[q] \in Stopping => pc'[q] = pc[q] /\ target'[q] = target[q]
      BY <1>3 DEF StartClaim
    <3>4. resetPending' = resetPending
      BY <1>3 DEF StartClaim
    <3> QED
      BY <3>1, <3>2, <3>3, <3>4
  <2> QED
    BY <2>2, <2>3
<1> QED
  BY <1>1, <1>2, <1>3

LEMMA RowInvStop ==
    ASSUME TableInv, RowInv, NEW r \in Requests,
           \/ StopRemove(r) \/ StopMark(r) \/ StopAbort(r) \/ StopSettle(r)
           \/ RequestDropped(r)
    PROVE  RowInv'
<1> USE DEF TableInv, TypeOK, RowInv, Keeper, Goto, Stopping
<1>1. CASE StopRemove(r)
  BY <1>1 DEF StopRemove, taskVars
<1>2. CASE StopMark(r)
  BY <1>2 DEF StopMark, WriteStatus, Write, FailStatus, taskVars
<1>3. CASE StopAbort(r)
  BY <1>3 DEF StopAbort, HeldOK
<1>4. CASE StopSettle(r)
  BY <1>4 DEF StopSettle, WriteStatus, Write, FailStatus, taskVars
<1>5. CASE RequestDropped(r)
  BY <1>5 DEF RequestDropped, WriteUnnoticed, Write, taskVars
<1> QED
  BY <1>1, <1>2, <1>3, <1>4, <1>5

LEMMA RowInvTask ==
    ASSUME TableInv, RowInv, NEW t \in Tasks, TaskStep(t)
    PROVE  RowInv'
<1> USE DEF TableInv, TypeOK, RowInv, Keeper, LiveStages, reqVars
<1>1. CASE TaskSetupFails(t)
  BY <1>1 DEF TaskSetupFails
<1>2. CASE TaskActivate(t)
  BY <1>2 DEF TaskActivate, WriteStatus, WriteUnnoticed, Write, AfterWrite, Gone, Move, HeldOK
<1>3. CASE TaskFails(t)
  BY <1>3 DEF TaskFails
<1>4. CASE TaskOpenSource(t)
  BY <1>4 DEF TaskOpenSource, Move
<1>5. CASE TaskFinish(t)
  BY <1>5 DEF TaskFinish, Move
<1>6. CASE TaskDeregister(t)
  BY <1>6 DEF TaskDeregister, Move
<1>7. CASE TaskReport(t)
  BY <1>7 DEF TaskReport, WriteStatus, Write, FailStatus, Gone
<1>8. CASE TaskCancelled(t)
  BY <1>8 DEF TaskCancelled, Gone
<1> QED
  BY <1>1, <1>2, <1>3, <1>4, <1>5, <1>6, <1>7, <1>8 DEF TaskStep

LEMMA RowInvNext == TableInv /\ RowInv /\ [Next]_vars => RowInv'
<1> SUFFICES ASSUME TableInv, RowInv, [Next]_vars PROVE RowInv'
  OBVIOUS
<1>1. ASSUME NEW r \in Requests, RequestStep(r) \/ RequestDropped(r) \/ Reply(r)
      PROVE  RowInv'
  BY <1>1, RowInvStart, RowInvStop DEF RequestStep
<1>2. ASSUME NEW r \in Requests, NEW s \in Streams, StartCall(r, s) \/ StopCall(r, s)
      PROVE  RowInv'
  BY <1>2, RowInvStart
<1>3. ASSUME NEW t \in Tasks, TaskStep(t) PROVE RowInv'
  BY <1>3, RowInvTask
<1>4. ASSUME NEW s \in Streams, DeleteStream(s) PROVE RowInv'
  BY <1>4 DEF DeleteStream, RowInv, Keeper, TableInv, TypeOK, taskVars, reqVars
<1>5. CASE ResetStale
  BY <1>5 DEF ResetStale, Stale, RowInv, Keeper, TableInv, TypeOK, taskVars, reqVars
<1>6. CASE CrashRestart
  BY <1>6 DEF CrashRestart, RowInv, Keeper, TableInv, TypeOK
<1>7. CASE UNCHANGED vars
  BY <1>7 DEF vars, taskVars, reqVars, RowInv, Keeper
<1> QED
  BY <1>1, <1>2, <1>3, <1>4, <1>5, <1>6, <1>7 DEF Next, ManagerNext

LEMMA RowAlways == Spec => [](TableInv /\ RowInv)
<1>1. Init => TableInv /\ RowInv
  BY TableInvInit, RowInvInit
<1>2. TableInv /\ RowInv /\ [Next]_vars => TableInv' /\ RowInv'
  BY TableInvNext, RowInvNext
<1> QED
  BY <1>1, <1>2, PTL DEF Spec

(* A row that says "starting" or "active" has somebody behind it.           *)
THEOREM NoPhantomCapture == Spec => []ActiveHasWitness
<1>1. TableInv /\ RowInv => ActiveHasWitness
  BY DEF TableInv, RowInv, Keeper, ActiveHasWitness, Witness
<1> QED
  BY <1>1, RowAlways, PTL

(* A row that says "stopping" has a stop call behind it.                    *)
THEOREM NoAbandonedStop == Spec => []StoppingHasRequest
<1>1. RowInv => StoppingHasRequest
  BY DEF RowInv, StoppingHasRequest
<1> QED
  BY <1>1, RowAlways, PTL

(* Whatever the status of a row claims has somebody behind it.              *)
THEOREM NoStatusAbandoned == Spec => []StatusAccounted
<1>1. ActiveHasWitness /\ StoppingHasRequest => StatusAccounted
  BY DEF StatusAccounted
<1> QED
  BY <1>1, NoPhantomCapture, NoAbandonedStop, PTL

-----------------------------------------------------------------------------
(* Without faults a stop call stays with the task it aborted until the task *)
(* is gone, so that no late write of such a task goes unnoticed.            *)
AwaitedInv ==
    Faults = {} /\ GraceSuffices =>
        /\ lost = {}
        /\ \A t \in Tasks : aborted[t] => \E r \in Requests : held[r] = t /\ pc[r] = "settle"

LEMMA AwaitedInvNext == TableInv /\ AwaitedInv /\ [Next]_vars => AwaitedInv'
<1> SUFFICES ASSUME TableInv, AwaitedInv, [Next]_vars, Faults = {}, GraceSuffices
             PROVE  AwaitedInv'
  BY DEF AwaitedInv
<1> USE DEF TableInv, TypeOK, AwaitedInv, Goto
<1>1. ASSUME NEW r \in Requests, NEW s \in Streams, StartCall(r, s) \/ StopCall(r, s)
      PROVE  AwaitedInv'
  BY <1>1 DEF StartCall, StopCall, taskVars
<1>2. ASSUME NEW r \in Requests, StartFind(r) \/ StartRefused(r) \/ Reply(r)
      PROVE  AwaitedInv'
  BY <1>2 DEF StartFind, StartRefused, Reply, taskVars
<1>3. ASSUME NEW r \in Requests, NEW t \in Tasks, StartClaim(r, t) PROVE AwaitedInv'
  BY <1>3 DEF StartClaim, WriteStatus
<1>4. ASSUME NEW r \in Requests, StopRemove(r) \/ StopMark(r) PROVE AwaitedInv'
  BY <1>4 DEF StopRemove, StopMark, WriteStatus, FailStatus, taskVars
<1>5. ASSUME NEW r \in Requests, StopAbort(r) PROVE AwaitedInv'
  BY <1>5 DEF StopAbort
<1>6. ASSUME NEW r \in Requests, StopSettle(r) PROVE AwaitedInv'
  BY <1>6 DEF StopSettle, WriteStatus, FailStatus, FreshOK, taskVars
<1>7. ASSUME NEW r \in Requests, RequestDropped(r) PROVE AwaitedInv'
  BY <1>7 DEF RequestDropped
<1>8. ASSUME NEW t \in Tasks, TaskActivate(t) PROVE AwaitedInv'
  BY <1>8 DEF TaskActivate, WriteStatus, AfterWrite, Gone, Move, reqVars
<1>9. ASSUME NEW t \in Tasks, TaskStep(t), ~TaskActivate(t) PROVE AwaitedInv'
  BY <1>9 DEF TaskStep, TaskSetupFails, TaskFails, TaskOpenSource, TaskFinish, TaskDeregister,
              TaskReport, TaskCancelled, WriteStatus, FailStatus, Gone, Move, reqVars
<1>10. CASE ResetStale \/ CrashRestart \/ \E s \in Streams : DeleteStream(s)
  BY <1>10 DEF ResetStale, CrashRestart, DeleteStream, taskVars, reqVars
<1>11. CASE UNCHANGED vars
  BY <1>11 DEF vars, taskVars, reqVars
<1> QED
  BY <1>1, <1>2, <1>3, <1>4, <1>5, <1>6, <1>7, <1>8, <1>9, <1>10, <1>11
     DEF Next, ManagerNext, RequestStep

(* The exception that the two theorems above make for streams with a lost   *)
(* write is empty when nothing fails.                                       *)
THEOREM NothingLostWithoutFaults == Spec => []NothingLost
<1>1. Init => TableInv /\ AwaitedInv
  BY TableInvInit DEF Init, AwaitedInv
<1>2. TableInv /\ AwaitedInv /\ [Next]_vars => TableInv' /\ AwaitedInv'
  BY TableInvNext, AwaitedInvNext
<1>3. AwaitedInv => NothingLost
  BY DEF AwaitedInv, NothingLost
<1> QED
  BY <1>1, <1>2, <1>3, PTL DEF Spec

-----------------------------------------------------------------------------
(* OneCapture fails: CaptureOrphan.cfg.  There are two ways to that, and no  *)
(* other.                                                                   *)

(* A task that ends takes the entry of its successor out of the table.      *)
TakesAnother(t) == TaskDeregister(t) /\ entry[strm[t]] \notin {t, None}

(* A stop call lets go of the task it has taken, before it has aborted it.  *)
LetsGo(r) ==
    /\ pc[r] \in {"mark", "abort"}
    /\ RequestDropped(r) \/ (StopMark(r) /\ held'[r] = None)

Orphans == (\E t \in Tasks : TakesAnother(t)) \/ (\E r \in Requests : LetsGo(r))

(* A capture in nobody's hands is the one that its stream's entry names.    *)
OwnedTask(t) ==
    stage[t] \in Registered /\ ~aborted[t] /\ (\A r \in Requests : held[r] # t)
        => entry[strm[t]] = t

OwnedInv ==
    /\ \A t \in Tasks : OwnedTask(t)
    /\ \A r \in Requests : pc[r] = "settle" =>
          aborted[held[r]] \/ stage[held[r]] \notin LiveStages

LEMMA OwnedInvStart ==
    ASSUME TableInv, OwnedInv, NEW r \in Requests,
           \/ \E s \in Streams : StartCall(r, s) \/ StopCall(r, s)
           \/ StartFind(r) \/ StartRefused(r) \/ Reply(r)
           \/ \E t \in Tasks : StartClaim(r, t)
    PROVE  OwnedInv'
<1> USE DEF TableInv, TypeOK, OwnedInv, OwnedTask, Goto
<1>1. ASSUME NEW s \in Streams, StartCall(r, s) \/ StopCall(r, s) PROVE OwnedInv'
  BY <1>1 DEF StartCall, StopCall, taskVars
<1>2. CASE StartFind(r) \/ StartRefused(r) \/ Reply(r)
  BY <1>2 DEF StartFind, StartRefused, Reply, taskVars
<1>3. ASSUME NEW t \in Tasks, StartClaim(r, t) PROVE OwnedInv'
  <2>1. \A u \in Tasks : OwnedTask(u)'
    BY <1>3 DEF StartClaim, Fresh, Registered, LiveStages, Stages
  <2>2. \A q \in Requests : pc'[q] = "settle" => pc[q] = "settle" /\ held[q] # t
    BY <1>3 DEF StartClaim, Fresh
  <2>3. \A u \in Tasks : u # t => stage'[u] = stage[u] /\ aborted'[u] = aborted[u]
    BY <1>3 DEF StartClaim
  <2> QED
    BY <1>3, <2>1, <2>2, <2>3 DEF StartClaim, HeldOK, Stopping
<1> QED
  BY <1>1, <1>2, <1>3

LEMMA OwnedInvStop ==
    ASSUME TableInv, OwnedInv, ~Orphans, NEW r \in Requests,
           \/ StopRemove(r) \/ StopMark(r) \/ StopAbort(r) \/ StopSettle(r)
           \/ RequestDropped(r)
    PROVE  OwnedInv'
<1> USE DEF TableInv, TypeOK, EntryTaskLive, HeldOK, OwnedInv, OwnedTask, Goto
<1>1. CASE StopRemove(r)
  <2>1. UNCHANGED <<stage, strm, aborted, target>>
    BY <1>1 DEF StopRemove, taskVars
  <2>2. entry' = [entry EXCEPT ![target[r]] = None]
        /\ held' = [held EXCEPT ![r] = entry[target[r]]]
    BY <1>1 DEF StopRemove
  <2>3. held[r] = None
    BY <1>1 DEF StopRemove, Stopping
  <2>4. ASSUME NEW t \in Tasks PROVE OwnedTask(t)'
    <3>1. CASE strm[t] = target[r] /\ entry[target[r]] = t
      BY <2>2, <3>1
    <3>2. CASE strm[t] # target[r]
      BY <2>1, <2>2, <2>3, <3>2
    <3>3. CASE strm[t] = target[r] /\ entry[target[r]] # t
      BY <2>1, <2>2, <2>3, <3>3
    <3> QED
      BY <3>1, <3>2, <3>3
  <2>5. ASSUME NEW q \in Requests, pc'[q] = "settle"
        PROVE  pc[q] = "settle" /\ held'[q] = held[q]
    BY <1>1, <2>2, <2>5 DEF StopRemove
  <2> QED
    BY <2>1, <2>4, <2>5
<1>2. CASE StopMark(r)
  <2>1. UNCHANGED <<entry, stage, strm, aborted, held>> /\ Goto(r, "abort")
    BY <1>2 DEF StopMark, Orphans, LetsGo, taskVars, Stopping
  <2> QED
    BY <2>1
<1>3. CASE StopAbort(r)
  <2>1. held[r] \in Tasks
    BY <1>3 DEF StopAbort, Stopping
  <2>2. UNCHANGED <<entry, stage, strm, held>>
        /\ aborted' = [aborted EXCEPT ![held[r]] = stage[held[r]] \in LiveStages]
    BY <1>3 DEF StopAbort
  <2>3. ASSUME NEW t \in Tasks PROVE OwnedTask(t)'
    <3>1. CASE t = held[r]
      BY <2>2, <3>1
    <3>2. CASE t # held[r]
      BY <2>1, <2>2, <3>2
    <3> QED
      BY <3>1, <3>2
  <2>4. ASSUME NEW q \in Requests, pc'[q] = "settle"
        PROVE  aborted'[held'[q]] \/ stage'[held'[q]] \notin LiveStages
    <3>1. CASE held[q] = held[r]
      <4>1. CASE stage[held[r]] \in LiveStages
        <5>1. aborted' = [aborted EXCEPT ![held[r]] = TRUE]
          BY <2>2, <4>1
        <5>2. aborted'[held[r]]
          BY <2>1, <5>1
        <5> QED
          BY <2>2, <3>1, <5>2
      <4>2. CASE stage[held[r]] \notin LiveStages
        BY <2>2, <3>1, <4>2
      <4> QED
        BY <4>1, <4>2
    <3>2. CASE held[q] # held[r]
      <4>1. pc[q] = "settle" /\ held[q] \in Tasks
        BY <1>3, <2>4, <3>2 DEF StopAbort, Stopping
      <4> QED
        BY <2>1, <2>2, <3>2, <4>1
    <3> QED
      BY <3>1, <3>2
  <2> QED
    BY <2>3, <2>4
<1>4. CASE StopSettle(r)
  BY <1>4 DEF StopSettle, Registered, taskVars
<1>5. CASE RequestDropped(r)
  <2>1. pc[r] \notin {"mark", "abort"}
    BY <1>5 DEF Orphans, LetsGo
  <2> QED
    BY <1>5, <2>1 DEF RequestDropped, Registered, Stopping, taskVars
<1> QED
  BY <1>1, <1>2, <1>3, <1>4, <1>5

LEMMA OwnedInvTask ==
    ASSUME TableInv, OwnedInv, ~Orphans, NEW t \in Tasks, TaskStep(t)
    PROVE  OwnedInv'
<1> USE DEF TableInv, TypeOK, EntryTaskLive, HeldOK, Stopping, OwnedInv, OwnedTask,
            LiveStages, Registered, reqVars
<1>1. CASE TaskSetupFails(t)
  BY <1>1 DEF TaskSetupFails
<1>2. CASE TaskActivate(t)
  BY <1>2 DEF TaskActivate, AfterWrite, Gone, Move
<1>3. CASE TaskFails(t)
  BY <1>3 DEF TaskFails
<1>4. CASE TaskOpenSource(t)
  BY <1>4 DEF TaskOpenSource, Move
<1>5. CASE TaskFinish(t)
  BY <1>5 DEF TaskFinish, Move
<1>6. CASE TaskDeregister(t)
  <2>1. entry[strm[t]] \in {t, None}
    BY <1>6 DEF Orphans, TakesAnother
  <2> QED
    BY <1>6, <2>1 DEF TaskDeregister, Move
<1>7. CASE TaskReport(t)
  BY <1>7 DEF TaskReport, Gone
<1>8. CASE TaskCancelled(t)
  BY <1>8 DEF TaskCancelled, Gone
<1> QED
  BY <1>1, <1>2, <1>3, <1>4, <1>5, <1>6, <1>7, <1>8 DEF TaskStep

LEMMA OwnedInvNext == TableInv /\ OwnedInv /\ [Next]_vars /\ [~Orphans]_vars => OwnedInv'
<1> SUFFICES ASSUME TableInv, OwnedInv, [Next]_vars, [~Orphans]_vars PROVE OwnedInv'
  OBVIOUS
<1>1. CASE UNCHANGED vars
  BY <1>1 DEF vars, taskVars, reqVars, OwnedInv, OwnedTask
<1>2. CASE Next /\ ~Orphans
  <2>1. ASSUME NEW r \in Requests, RequestStep(r) \/ RequestDropped(r) \/ Reply(r)
        PROVE  OwnedInv'
    BY <1>2, <2>1, OwnedInvStart, OwnedInvStop DEF RequestStep
  <2>2. ASSUME NEW r \in Requests, NEW s \in Streams, StartCall(r, s) \/ StopCall(r, s)
        PROVE  OwnedInv'
    BY <2>2, OwnedInvStart
  <2>3. ASSUME NEW t \in Tasks, TaskStep(t) PROVE OwnedInv'
    BY <1>2, <2>3, OwnedInvTask
  <2>4. CASE ResetStale \/ \E s \in Streams : DeleteStream(s)
    BY <2>4 DEF ResetStale, DeleteStream, OwnedInv, OwnedTask, taskVars, reqVars
  <2>5. CASE CrashRestart
    BY <2>5 DEF CrashRestart, OwnedInv, OwnedTask, TableInv, TypeOK, Registered, LiveStages
  <2> QED
    BY <1>2, <2>1, <2>2, <2>3, <2>4, <2>5 DEF Next, ManagerNext
<1> QED
  BY <1>1, <1>2

(* As long as no task takes the entry of another out of the table, and no   *)
(* stop call lets go of a task it has not aborted, a stream has one capture *)
(* at most, whatever else fails.                                            *)
THEOREM OneCaptureUnlessOrphaned == Spec /\ [][~Orphans]_vars => []OneCapture
<1>1. Init => TableInv /\ OwnedInv
  BY TableInvInit DEF Init, OwnedInv, OwnedTask, Registered, LiveStages
<1>2. TableInv /\ OwnedInv /\ [Next]_vars /\ [~Orphans]_vars => TableInv' /\ OwnedInv'
  BY TableInvNext, OwnedInvNext
<1>3. TableInv /\ OwnedInv => OneCapture
  BY DEF TableInv, TypeOK, HeldOK, Stopping, OwnedInv, OwnedTask, OneCapture, Capturing,
         Registered, LiveStages
<1> QED
  BY <1>1, <1>2, <1>3, PTL DEF Spec

-----------------------------------------------------------------------------
(* InactiveMeansStopped fails: FrontendStatus.cfg.  There are three ways to  *)
(* that, and no other.  The write of a stop call is not one of them: the    *)
(* handler that made the call writes the same again.                        *)

Delivering(s) == entry[s] # None /\ stage[entry[s]] \in {"active", "running"}

(* A handler corrects the row of a stream that is being captured by now.    *)
LateHandler(r) == (AdminStartFailed(r) \/ AdminStopped(r)) /\ Delivering(target[r])

(* A task reports its end when its successor is at work.                    *)
LateReport(t) == TaskReport(t) /\ Delivering(strm[t])

(* The reset of stale rows runs when captures have been started already.    *)
LateReset == ResetStale /\ \E s \in Streams : Delivering(s)

Overwrites ==
    \/ \E r \in Requests : LateHandler(r)
    \/ \E t \in Tasks : LateReport(t)
    \/ LateReset

(* A row that wrongly says "inactive" is owed to a stop call whose handler  *)
(* has not answered.                                                        *)
StopUnderWay(s) == \E r \in Requests : target[r] = s /\ kind[r] = "stop" /\ pc[r] = "ok"

InactiveInv ==
    /\ AdminTypeOK
    /\ \A r \in Requests : pc[r] \in {"remove", "mark", "abort", "settle"} => kind[r] = "stop"
    /\ \A s \in Streams \ lost :
          row[s] = "inactive" /\ Delivering(s) => StopUnderWay(s)

AdminInv == TableInv /\ InactiveInv

LEMMA AdminInvInit == AdminInit => AdminInv
<1> SUFFICES ASSUME AdminInit PROVE AdminInv
  OBVIOUS
<1>1. TableInv
  BY TableInvInit DEF AdminInit
<1>2. InactiveInv
  BY <1>1 DEF AdminInit, Init, AdminInv, TableInv, InactiveInv, AdminTypeOK, Delivering
<1> QED
  BY <1>1, <1>2 DEF AdminInv

LEMMA AdminInvHandlers ==
    ASSUME AdminInv, ~Overwrites, NEW r \in Requests,
           \/ \E s \in Streams : AdminStart(r, s) \/ AdminStop(r, s)
           \/ AdminAnswer(r)
    PROVE  AdminInv'
<1> USE DEF AdminInv, TableInv, InactiveInv, AdminTypeOK, TypeOK, Delivering, StopUnderWay, Goto
<1>1. ASSUME NEW s \in Streams, AdminStart(r, s) \/ AdminStop(r, s) PROVE AdminInv'
  <2>1. TableInv'
    BY <1>1, TableInvStart, TableInvStop DEF AdminStart, AdminStop
  <2>2. /\ UNCHANGED <<row, entry, stage, lost>>
        /\ pc[r] = "idle"
        /\ \A q \in Requests : q # r =>
              pc'[q] = pc[q] /\ target'[q] = target[q] /\ kind'[q] = kind[q]
    BY <1>1 DEF AdminStart, AdminStop, StartCall, StopCall, taskVars
  <2>3. AdminTypeOK' /\ (pc'[r] = "remove" => kind'[r] = "stop") /\ pc'[r] \in {"find", "remove"}
    BY <1>1, <2>1 DEF AdminStart, AdminStop, StartCall, StopCall
  <2>4. \A s1 \in Streams : StopUnderWay(s1) => StopUnderWay(s1)'
    BY <2>2
  <2>5. ASSUME NEW q \in Requests, pc'[q] \in {"remove", "mark", "abort", "settle"}
        PROVE  kind'[q] = "stop"
    BY <2>2, <2>3, <2>5
  <2>6. ASSUME NEW s1 \in Streams \ lost', row'[s1] = "inactive", Delivering(s1)'
        PROVE  StopUnderWay(s1)'
    <3>1. s1 \notin lost /\ row[s1] = "inactive" /\ Delivering(s1)
      BY <2>2, <2>6
    <3> QED
      BY <2>4, <3>1
  <2> QED
    BY <2>1, <2>3, <2>5, <2>6
<1>2. CASE AdminAnswer(r)
  <2>1. UNCHANGED <<entry, stage, strm, outcome, aborted, target, held, resetPending, kind>>
        /\ Goto(r, "idle")
    BY <1>2 DEF AdminAnswer, AdminStarted, AdminStartFailed, AdminStopped, AdminStopFailed,
                AdminDropped, Answer, taskVars
  <2>2. pc[r] \in {"ok", "err"}
    BY <1>2 DEF AdminAnswer, AdminStarted, AdminStartFailed, AdminStopped, AdminStopFailed,
                AdminDropped
  <2>3. row' \in [Streams -> Status] /\ lost' \subseteq Streams
    BY <1>2 DEF AdminAnswer, AdminStarted, AdminStartFailed, AdminStopped, AdminStopFailed,
                AdminDropped, WriteStatus, Write, FailStatus, Status
  <2>4. TableInv'
    BY <2>1, <2>2, <2>3 DEF EntryTaskLive, HeldOK, FreshOK, Stopping, Points
  <2>5. ASSUME NEW s \in Streams \ lost', row'[s] = "inactive", Delivering(s)'
        PROVE  StopUnderWay(s)'
    <3>1. Delivering(s)
      BY <2>1, <2>5
    <3>2. CASE s # target[r]
      <4>1. row'[s] = row[s] /\ s \notin lost
        BY <1>2, <2>5, <3>2
           DEF AdminAnswer, AdminStarted, AdminStartFailed, AdminStopped, AdminStopFailed,
               AdminDropped, WriteStatus, Write, FailStatus
      <4>2. PICK q \in Requests : target[q] = s /\ kind[q] = "stop" /\ pc[q] = "ok"
        BY <2>5, <3>1, <4>1
      <4>3. q # r
        BY <3>2, <4>2
      <4> QED
        BY <2>1, <4>2, <4>3
    <3>3. CASE s = target[r]
      <4>1. ~AdminStartFailed(r) /\ ~AdminStopped(r)
        BY <3>1, <3>3 DEF Overwrites, LateHandler
      <4>2. ~AdminStarted(r) /\ ~AdminDropped(r)
        BY <2>5, <3>3 DEF AdminStarted, AdminDropped, WriteStatus, Write, FailStatus
      <4>3. pc[r] = "err" /\ row' = row /\ lost' = lost
        BY <1>2, <4>1, <4>2 DEF AdminAnswer, AdminStopFailed
      <4>4. PICK q \in Requests : target[q] = s /\ kind[q] = "stop" /\ pc[q] = "ok"
        BY <2>5, <3>1, <4>3
      <4> QED
        BY <2>1, <4>3, <4>4
    <3> QED
      BY <3>2, <3>3
  <2>6. InactiveInv'
    BY <2>1, <2>2, <2>4, <2>5
  <2> QED
    BY <2>4, <2>6
<1> QED
  BY <1>1, <1>2

LEMMA AdminInvRequest ==
    ASSUME AdminInv, NEW r \in Requests, RequestStep(r) \/ RequestDropped(r), UNCHANGED kind
    PROVE  AdminInv'
<1> USE DEF AdminInv, TableInv, InactiveInv, AdminTypeOK, TypeOK, Delivering, StopUnderWay, Goto
<1>1. TableInv'
  BY TableInvStart, TableInvStop DEF RequestStep
<1>2. CASE StartFind(r) \/ StartRefused(r)
  BY <1>1, <1>2 DEF StartFind, StartRefused, taskVars
<1>3. ASSUME NEW t \in Tasks, StartClaim(r, t) PROVE InactiveInv'
  <2>1. \A s \in Streams \ lost' : row'[s] = "inactive" /\ Delivering(s)' =>
            s # target[r] /\ s \notin lost /\ row[s] = "inactive" /\ Delivering(s)
    BY <1>3 DEF StartClaim, WriteStatus, Write, Fresh
  <2>2. \A s \in Streams : StopUnderWay(s) => StopUnderWay(s)'
    BY <1>3 DEF StartClaim
  <2> QED
    BY <1>1, <1>3, <2>1, <2>2 DEF StartClaim
<1>4. CASE StopRemove(r)
  BY <1>1, <1>4 DEF StopRemove, taskVars
<1>5. CASE StopMark(r)
  BY <1>1, <1>5 DEF StopMark, WriteStatus, Write, FailStatus, taskVars
<1>6. CASE StopAbort(r)
  BY <1>1, <1>6 DEF StopAbort
<1>7. CASE StopSettle(r)
  BY <1>1, <1>7 DEF StopSettle, WriteStatus, Write, FailStatus, taskVars
<1>8. CASE RequestDropped(r)
  BY <1>1, <1>8 DEF RequestDropped, WriteUnnoticed, Write, taskVars, Stopping
<1> QED
  BY <1>1, <1>2, <1>3, <1>4, <1>5, <1>6, <1>7, <1>8 DEF RequestStep

LEMMA AdminInvTask ==
    ASSUME AdminInv, ~Overwrites, NEW t \in Tasks, TaskStep(t), UNCHANGED kind
    PROVE  AdminInv'
<1> USE DEF AdminInv, TableInv, InactiveInv, AdminTypeOK, TypeOK, Delivering, StopUnderWay,
            EntryTaskLive, reqVars
<1>1. TableInv'
  BY TableInvTask
<1>2. CASE TaskSetupFails(t)
  BY <1>1, <1>2 DEF TaskSetupFails
<1>3. CASE TaskActivate(t)
  BY <1>1, <1>3 DEF TaskActivate, WriteStatus, WriteUnnoticed, Write, AfterWrite, Gone, Move
<1>4. CASE TaskFails(t)
  BY <1>1, <1>4 DEF TaskFails
<1>5. CASE TaskOpenSource(t)
  BY <1>1, <1>5 DEF TaskOpenSource, Move
<1>6. CASE TaskFinish(t)
  BY <1>1, <1>6 DEF TaskFinish, Move
<1>7. CASE TaskDeregister(t)
  BY <1>1, <1>7 DEF TaskDeregister, Move
<1>8. CASE TaskReport(t)
  <2>1. ~Delivering(strm[t])
    BY <1>8 DEF Overwrites, LateReport
  <2> QED
    BY <1>1, <1>8, <2>1 DEF TaskReport, WriteStatus, Write, FailStatus, Gone
<1>9. CASE TaskCancelled(t)
  BY <1>1, <1>9 DEF TaskCancelled, Gone
<1> QED
  BY <1>1, <1>2, <1>3, <1>4, <1>5, <1>6, <1>7, <1>8, <1>9 DEF TaskStep

LEMMA AdminInvNext == AdminInv /\ [AdminNext]_fvars /\ [~Overwrites]_fvars => AdminInv'
<1> SUFFICES ASSUME AdminInv, [AdminNext]_fvars, [~Overwrites]_fvars PROVE AdminInv'
  OBVIOUS
<1>1. CASE UNCHANGED fvars
  <2>1. TableInv'
    BY <1>1, TableInvNext DEF fvars, AdminInv
  <2> QED
    BY <1>1, <2>1 DEF fvars, vars, taskVars, reqVars, AdminInv, TableInv, InactiveInv, AdminTypeOK,
                      Delivering, StopUnderWay
<1>2. CASE AdminNext /\ ~Overwrites
  <2>1. ASSUME NEW r \in Requests, NEW s \in Streams, AdminStart(r, s) \/ AdminStop(r, s)
        PROVE  AdminInv'
    BY <1>2, <2>1, AdminInvHandlers
  <2>2. ASSUME NEW r \in Requests, AdminAnswer(r) PROVE AdminInv'
    BY <1>2, <2>2, AdminInvHandlers
  <2>3. ASSUME UNCHANGED kind, NEW r \in Requests, RequestStep(r) \/ RequestDropped(r)
        PROVE  AdminInv'
    BY <2>3, AdminInvRequest
  <2>4. ASSUME UNCHANGED kind, NEW t \in Tasks, TaskStep(t) PROVE AdminInv'
    BY <1>2, <2>4, AdminInvTask
  <2>5. ASSUME UNCHANGED kind, ResetStale \/ CrashRestart \/ \E s \in Streams : DeleteStream(s)
        PROVE  AdminInv'
    <3>1. TableInv'
      BY <2>5, TableInvNext DEF Next, ManagerNext, AdminInv
    <3> USE DEF AdminInv, TableInv, InactiveInv, AdminTypeOK, TypeOK, Delivering, StopUnderWay
    <3>2. CASE ResetStale
      <4>1. \A s \in Streams : ~Delivering(s)
        BY <1>2, <3>2 DEF Overwrites, LateReset
      <4> QED
        BY <2>5, <3>1, <3>2, <4>1 DEF ResetStale, taskVars, reqVars
    <3>3. CASE CrashRestart
      BY <2>5, <3>1, <3>3 DEF CrashRestart
    <3>4. CASE \E s \in Streams : DeleteStream(s)
      BY <2>5, <3>1, <3>4 DEF DeleteStream, taskVars, reqVars
    <3> QED
      BY <2>5, <3>2, <3>3, <3>4
  <2> QED
    BY <1>2, <2>1, <2>2, <2>3, <2>4, <2>5 DEF AdminNext, Underneath
<1> QED
  BY <1>1, <1>2

(* A row says "inactive" while its stream is being captured, with nobody    *)
(* left to correct it, only if a handler, the report of an earlier task or  *)
(* the reset at start-up came too late.                                     *)
THEOREM InactiveUnlessOverwritten ==
    AdminSpec /\ [][~Overwrites]_fvars => []InactiveMeansStopped
<1>1. AdminInit => AdminInv
  BY AdminInvInit
<1>2. AdminInv /\ [AdminNext]_fvars /\ [~Overwrites]_fvars => AdminInv'
  BY AdminInvNext
<1>3. AdminInv => InactiveMeansStopped
  BY DEF AdminInv, InactiveInv, StopUnderWay, Delivering, InactiveMeansStopped, Quiet
<1> QED
  BY <1>1, <1>2, <1>3, PTL DEF AdminSpec
=============================================================================
