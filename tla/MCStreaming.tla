----------------------------- MODULE MCStreaming -----------------------------
(* The session of MjpegStream, the sessions' life in StreamSessions, and the *)
(* frames of captures: with requests for them while nothing is stored, and   *)
(* what one capture and its jobs store; and the scheduler of those jobs,     *)
(* with any handler.  They share no variable and are explored in turn, not   *)
(* in their product.                                                         *)
EXTENDS MjpegStream, StreamFrames, StreamSessions, JobScheduler

VARIABLE explored   \* the part that is at work

MCConfigs == { [kind |-> "file", complete |-> TRUE], [kind |-> "ffmpeg", complete |-> FALSE] }

MCInit ==
    /\ Init /\ FramesInit /\ SessionsInit /\ JobInit
    /\ explored \in {"session", "sessions", "requests", "store", "jobs"}
    /\ explored = "sessions" \/ kind = "file"
    /\ explored \in {"requests", "store"} \/ config.kind = "file"

ForRequests ==
    /\ FramesNext
    /\ files' = {} /\ second' = 0
    /\ \A a \in Askers : asker'[a] # Idle => ~asker'[a].job

ForStorage ==
    /\ FramesNext
    /\ task'[2].at = "none" /\ installed' = 0
    /\ \A a \in Askers : asker'[a] # Idle => asker'[a].job

MCNext ==
    /\ \/ explored = "session" /\ Next /\ UNCHANGED <<frameVars, sessionVars, jobVars>>
       \/ explored = "sessions" /\ SessionsNext /\ UNCHANGED <<vars, frameVars, jobVars>>
       \/ explored = "requests" /\ ForRequests /\ UNCHANGED <<vars, sessionVars, jobVars>>
       \/ explored = "store" /\ ForStorage /\ UNCHANGED <<vars, sessionVars, jobVars>>
       \/ explored = "jobs" /\ JobNext /\ UNCHANGED <<vars, frameVars, sessionVars>>
    /\ UNCHANGED explored

MCSpec ==
    /\ MCInit /\ [][MCNext]_<<vars, frameVars, sessionVars, jobVars, explored>>
    /\ JobFairness

(* Sessions, their clients, frames and files are what they should be.        *)
StreamingTypeOK == MjpegTypeOK /\ SessionsTypeOK /\ FramesTypeOK
=============================================================================
