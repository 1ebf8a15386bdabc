---------------------------- MODULE MCFileCapture ----------------------------
(* A file capture's handle; captures that come and go with viewers, but no   *)
(* request and nothing stored; the handles whose snapshots are commands; and *)
(* the background processor of such snapshots.  They share no variable and   *)
(* are explored in turn, not in their product.                               *)
EXTENDS FileCapture, StreamFrames, CaptureSources, SnapshotProcessor

VARIABLE explored   \* the part that is at work

MCConfigs == { [kind |-> "file", complete |-> TRUE], [kind |-> "ffmpeg", complete |-> FALSE] }

MCInit ==
    /\ Init /\ FramesInit /\ SourcesInit /\ ProcInit
    /\ explored \in {"handle", "viewers", "sources", "processor"}
    /\ explored = "viewers" \/ config.kind = "file"
    /\ explored = "sources" \/ source = "ffmpeg"

ForViewers == FramesNext /\ files' = {} /\ second' = 0 /\ UNCHANGED asker

MCNext ==
    /\ \/ explored = "handle" /\ Next /\ UNCHANGED <<frameVars, sourceVars, procVars>>
       \/ explored = "viewers" /\ ForViewers /\ UNCHANGED <<vars, sourceVars, procVars>>
       \/ explored = "sources" /\ SourcesNext /\ UNCHANGED <<vars, frameVars, procVars>>
       \/ explored = "processor" /\ ProcNext /\ UNCHANGED <<vars, frameVars, sourceVars>>
    /\ UNCHANGED explored

MCSpec ==
    /\ MCInit /\ [][MCNext]_<<vars, frameVars, sourceVars, procVars, explored>>
    /\ Fairness /\ FramesFairness /\ SourcesFairness /\ ProcFairness

(* Handles, captures and sources hold what they should.                      *)
CaptureTypeOK == FileTypeOK /\ FramesTypeOK /\ SourcesTypeOK

(* Whoever waits for a handle of any kind is answered, and a file's stops    *)
(* its processes (gl_capture/src/lib.rs CaptureHandle).                      *)
CapturesServe == HandleServes /\ SourcesAnswer
=============================================================================
