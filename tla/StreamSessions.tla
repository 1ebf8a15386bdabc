--------------------------- MODULE StreamSessions ---------------------------
(***************************************************************************)
(* start_stream and stop_stream of gl_web/src/routes/stream.rs.  They keep  *)
(* two things in step that know nothing of each other: the capture of the   *)
(* stream in the capture manager, and its StreamSession, with a source of   *)
(* its own, in the StreamManager of gl_stream/src/mjpeg.rs.                 *)
(*                                                                          *)
(* The capture manager is here a table entry that is claimed and released   *)
(* atomically; CaptureManager has its steps.  A session is numbered when it *)
(* is made.  The loop of a session has no exit.                             *)
(***************************************************************************)
EXTENDS Naturals

CONSTANTS
    LifecycleRequests,  \* requests to start or stop the stream
    Kinds,              \* kinds of source a stream may be configured with
    MaxSessions         \* bound on the sessions that are made

ASSUME SessionAssumption == MaxSessions \in Nat

VARIABLES
    kind,       \* the kind of the stream
    capturing,  \* running_captures has the stream
    session,    \* the session in StreamManager::sessions, or 0
    loops,      \* sessions whose loop has been spawned
    at,         \* where each request stands
    alone,      \* history: requests with no other beside them so far
    settled     \* history: what the last request, if it was alone, has promised

sessionVars == <<kind, capturing, session, loops, at, alone, settled>>

LifecyclePoints == {"idle", "reads", "looks", "opens", "checks", "starts", "stops", "removes"}

SessionsInit ==
    /\ kind \in Kinds
    /\ capturing = FALSE
    /\ session = 0 /\ loops = {}
    /\ at = [r \in LifecycleRequests |-> "idle"]
    /\ alone = {}
    /\ settled = "nothing"

StepTo(r, point) == at' = [at EXCEPT ![r] = point]

(* A response: what a request says is settled if no other was under way.    *)
Reply(r, state) ==
    /\ StepTo(r, "idle")
    /\ alone' = alone \ {r}
    /\ settled' = IF r \in alone THEN state ELSE "nothing"
Continues(r, point) == StepTo(r, point) /\ UNCHANGED <<alone, settled>>

Arrives(r, point) ==
    /\ at[r] = "idle"
    /\ StepTo(r, point)
    /\ alone' = IF \A q \in LifecycleRequests : at[q] = "idle" THEN {r} ELSE {}
    /\ settled' = "nothing"
    /\ UNCHANGED <<kind, capturing, session, loops>>

StartArrives(r) == Arrives(r, "reads")
StopArrives(r) == Arrives(r, "stops")

-----------------------------------------------------------------------------
(* The row, which may be gone or unreadable, and then the sessions.         *)
StartReads(r) ==
    /\ at[r] = "reads"
    /\ Continues(r, "looks") \/ Reply(r, "nothing")
    /\ UNCHANGED <<kind, capturing, session, loops>>

StartLooks(r) ==
    /\ at[r] = "looks"
    /\ Continues(r, IF session # 0 THEN "checks" ELSE "opens")
    /\ UNCHANGED <<kind, capturing, session, loops>>

(* The kinds create_capture_source_from_stream knows, the website only with *)
(* its feature: the capture manager knows "rtsp" too.                       *)
SessionSource(k) == k \in {"ffmpeg", "file", "website", "yt", "youtube"}

(* The source is made and started, and may fail.  What it gives becomes   *)
(* a session, whose loop is spawned before add_session puts it in the place *)
(* of whatever is there.                                                    *)
StartOpens(r) ==
    /\ at[r] = "opens"
    /\ \/ /\ SessionSource(kind)
          /\ \E n \in 1 .. MaxSessions :
              /\ n \notin loops /\ \A m \in 1 .. n - 1 : m \in loops
              /\ loops' = loops \cup {n}
              /\ session' = n
          /\ Continues(r, "checks")
       \/ Reply(r, "nothing") /\ UNCHANGED <<session, loops>>
    /\ UNCHANGED <<kind, capturing>>

(* is_stream_running                                                        *)
StartChecks(r) ==
    /\ at[r] = "checks"
    /\ IF capturing THEN Reply(r, "both") ELSE Continues(r, "starts")
    /\ UNCHANGED <<kind, capturing, session, loops>>

\* Faulty: the session is left when the capture does not start.
StartLeavesSession(r) ==
    /\ at[r] = "starts"
    /\ \/ ~capturing /\ capturing' = TRUE /\ Reply(r, "both") /\ UNCHANGED session
       \/ Reply(r, IF capturing THEN "nothing" ELSE "neither") /\ UNCHANGED <<session, capturing>>
    /\ UNCHANGED <<kind, loops>>

(* CaptureManager::start_stream refuses a stream that is running, and may   *)
(* fail; the session is removed then, whose ever it is.                     *)
StartsCapture(r) ==
    /\ at[r] = "starts"
    /\ \/ ~capturing /\ capturing' = TRUE /\ Reply(r, "both") /\ UNCHANGED session
       \/ /\ session' = 0
          /\ Reply(r, IF capturing THEN "nothing" ELSE "neither") /\ UNCHANGED capturing
    /\ UNCHANGED <<kind, loops>>

(* CaptureManager::stop_stream: not found, stopped, or stopped with an      *)
(* error.                                                                   *)
StopStops(r) ==
    /\ at[r] = "stops"
    /\ IF capturing THEN /\ capturing' = FALSE
                         /\ Continues(r, "removes") \/ Reply(r, "nothing")
       ELSE Reply(r, "nothing") /\ UNCHANGED capturing
    /\ UNCHANGED <<kind, session, loops>>

\* Faulty: the session is removed only when the capture is gone already.
StopLeavesSession(r) ==
    /\ at[r] = "removes"
    /\ session' = IF capturing THEN 0 ELSE session
    /\ Reply(r, "neither")
    /\ UNCHANGED <<kind, capturing, loops>>

StopRemoves(r) ==
    /\ at[r] = "removes"
    /\ session' = 0
    /\ Reply(r, "neither")
    /\ UNCHANGED <<kind, capturing, loops>>

-----------------------------------------------------------------------------
(* The client goes away.                                                    *)
RequestIsDropped(r) ==
    /\ at[r] # "idle"
    /\ Reply(r, "nothing")
    /\ UNCHANGED <<kind, capturing, session, loops>>

(* The capture ends by itself; nobody tells the session.                    *)
CaptureEnds ==
    /\ capturing
    /\ capturing' = FALSE
    /\ alone' = {} /\ settled' = "nothing"
    /\ UNCHANGED <<kind, session, loops, at>>

SessionsNext ==
    \/ \E r \in LifecycleRequests :
        \/ StartArrives(r) \/ StopArrives(r) \/ StartReads(r) \/ StartLooks(r) \/ StartOpens(r)
        \/ StartChecks(r) \/ StartsCapture(r) \/ StopStops(r) \/ StopRemoves(r)
        \/ RequestIsDropped(r)
    \/ CaptureEnds

SessionsSpec == SessionsInit /\ [][SessionsNext]_sessionVars

-----------------------------------------------------------------------------
(* Properties *)

(* The types; a session in the table has its loop.                          *)
SessionsTypeOK ==
    /\ kind \in Kinds /\ capturing \in BOOLEAN
    /\ session \in {0} \cup loops
    /\ loops \subseteq 1 .. MaxSessions
    /\ at \in [LifecycleRequests -> LifecyclePoints]
    /\ alone \subseteq {r \in LifecycleRequests : at[r] # "idle"}
    /\ settled \in {"nothing", "both", "neither"}

(* What a start or a stop has answered, with no other request beside it and *)
(* the capture going on, holds until the next one: after a start there are  *)
(* both a capture and a session, after a stop and after a start that could  *)
(* not capture there is neither.                                            *)
SessionsFollow ==
    /\ settled = "both" => capturing /\ session # 0
    /\ settled = "neither" => ~capturing /\ session = 0
=============================================================================
