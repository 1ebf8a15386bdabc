--------------------------- MODULE StreamFrontend ---------------------------
(***************************************************************************)
(* The stream settings page of gl_web::frontend in front of the            *)
(* CaptureManager: admin_start_stream and admin_stop_stream call the        *)
(* manager and then write execution_status themselves, which the manager    *)
(* and its tasks also write.                                                *)
(***************************************************************************)
EXTENDS CaptureManager

VARIABLE kind   \* what each request asked for

fvars == <<vars, kind>>

AdminTypeOK == TypeOK /\ kind \in [Requests -> {"start", "stop"}]

AdminInit == Init /\ kind \in [Requests -> {"start", "stop"}]

AdminStart(r, s) == StartCall(r, s) /\ kind' = [kind EXCEPT ![r] = "start"]
AdminStop(r, s)  == StopCall(r, s) /\ kind' = [kind EXCEPT ![r] = "stop"]

Answer(r) ==
    /\ Goto(r, "idle")
    /\ UNCHANGED <<entry, taskVars, target, held, resetPending, kind>>

(* start_stream said Ok: the handler writes "active", whatever has become   *)
(* of the capture by now.                                                   *)
AdminStarted(r) ==
    /\ pc[r] = "ok" /\ kind[r] = "start"
    /\ WriteStatus(target[r], "active") \/ FailStatus(target[r])
    /\ Answer(r)

(* start_stream said Err: the handler writes "inactive", whatever the error *)
(* was, and ignores the outcome of the write.                               *)
AdminStartFailed(r) ==
    /\ pc[r] = "err" /\ kind[r] = "start"
    /\ WriteStatus(target[r], "inactive") \/ FailStatus(target[r])
    /\ Answer(r)

AdminStopped(r) ==
    /\ pc[r] = "ok" /\ kind[r] = "stop"
    /\ WriteStatus(target[r], "inactive") \/ FailStatus(target[r])
    /\ Answer(r)

AdminStopFailed(r) ==
    /\ pc[r] = "err" /\ kind[r] = "stop"
    /\ Answer(r)
    /\ UNCHANGED <<row, lost>>

(* The client went away during the handler's own write. *)
AdminDropped(r) ==
    /\ "drop" \in Faults
    /\ pc[r] \in {"ok", "err"}
    /\ lost' = lost \cup {target[r]}
    /\ Answer(r)
    /\ UNCHANGED row

AdminAnswer(r) ==
    \/ AdminDropped(r)
    \/ AdminStarted(r) \/ AdminStartFailed(r) \/ AdminStopped(r) \/ AdminStopFailed(r)

(* What goes on underneath the two handlers. *)
Underneath ==
    \/ \E r \in Requests : RequestStep(r) \/ RequestDropped(r)
    \/ \E t \in Tasks : TaskStep(t)
    \/ \E s \in Streams : DeleteStream(s)
    \/ ResetStale
    \/ CrashRestart

AdminNext ==
    \/ \E r \in Requests, s \in Streams : AdminStart(r, s) \/ AdminStop(r, s)
    \/ \E r \in Requests : AdminAnswer(r)
    \/ Underneath /\ UNCHANGED kind

AdminSpec == AdminInit /\ [][AdminNext]_fvars

(* The reset at start-up is a task nothing waits for, and can itself reset  *)
(* the row of a capture that has just begun.  Here it comes before the      *)
(* first request, so that only the handlers' own writes are at stake.       *)
AdminSpecAfterReset ==
    AdminInit /\ [][AdminNext /\ (resetPending => ResetStale)]_fvars

-----------------------------------------------------------------------------
(* Properties *)

Quiet == ~resetPending /\ \A r \in Requests : pc[r] = "idle"

(* Once every handler has answered, a row that says "inactive" means that   *)
(* no capture of the stream is registered and running: the handlers write   *)
(* the status to make sure that it reflects what the capture manager did.   *)
InactiveMeansStopped ==
    Quiet => \A s \in Streams \ lost :
        row[s] = "inactive" => entry[s] = None \/ stage[entry[s]] # "running"
=============================================================================
