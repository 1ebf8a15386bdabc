--------------------------- MODULE CaptureSources ---------------------------
(***************************************************************************)
(* Captures whose every snapshot is an external command or a browser:       *)
(* FfmpegSource, YtDlpSource and WebsiteSource of gl_capture behind their   *)
(* CaptureHandle, and generate_snapshot_with_ffmpeg, which the background   *)
(* processor calls for a path, without a handle.  The commands are children *)
(* run by gl_proc::run, in a blocking thread for snapshots: when the asker  *)
(* is gone the thread goes on until its child ends or times out.            *)
(*                                                                          *)
(* What a browser does is external: a page is shot or it is not.  The lock  *)
(* inside a browser client is only taken under the handle's, so it is not   *)
(* modelled.  What yt-dlp is asked for is left out: it prints text, of any  *)
(* kind, and whether it is a URL is found out by the command it is given to.*)
(***************************************************************************)
EXTENDS HardwareAccel, FiniteSets

CONSTANTS
    Users,      \* tasks and requests that take snapshots
    MaxLeft     \* bound on the commands whose asker is gone

Opener == "opener"
Closer == "closer"
NoUser == "no user"
SourcesAssumption == MaxLeft \in Nat /\ {Opener, Closer, NoUser} \cap Users = {}
ASSUME SourcesAssumption

VARIABLES
    source,     \* the kind of the source
    session,    \* the handle: none yet, being opened, or its CaptureState
    gate,       \* who holds the lock on that state
    closing,    \* where stop() of the handle stands
    client,     \* the browser of a website's handle
    step,       \* where each snapshot stands
    got,        \* what the last snapshot of each user was answered with
    command,    \* the child each user, or the opener, waits for
    left,       \* commands nobody waits for
    temp        \* the file the latest snapshot of each user writes to exists

sourceVars == <<source, session, gate, closing, client, step, got, command, left, temp>>

Kinds == {"ffmpeg", "yt_dlp", "website", "embedded", "path"}
NoCommand == [at |-> "none", ok |-> FALSE, lines |-> Nothing]
Running == [at |-> "running", ok |-> FALSE, lines |-> Nothing]
Ended(result) == [at |-> "ended", ok |-> result.ok, lines |-> result.lines]
Over(x) == command[x].at = "ended"

(* What can come out of the commands.  Anything may fail or print nothing.  *)
Fails == [ok |-> FALSE, lines |-> Nothing]
Prints(lines) == { Fails, [ok |-> TRUE, lines |-> Nothing], [ok |-> TRUE, lines |-> lines] }

(* ffmpeg -f image2 ... pipe:1                                              *)
SnapshotOutcomes == Prints(<<Image(1)>>)
ValidateOutcomes == { Fails, [ok |-> TRUE, lines |-> Nothing] }
(* yt-dlp prints title, duration and is_live, or a URL, or whatever it has  *)
(* to say: also more than there is room for, in characters of three bytes.  *)
TextOutcomes == Prints(<<Text(1)>>) \cup Prints(<<Wide(OutputLimit)>>)
(* ffmpeg writing to the temporary file                                     *)
FileOutcomes == Prints(Nothing)

Outcomes(x) ==
    IF x = Opener THEN (IF source = "ffmpeg" THEN ValidateOutcomes ELSE TextOutcomes)
    ELSE IF step[x] = "url" THEN TextOutcomes
    ELSE IF source = "yt_dlp" THEN FileOutcomes
    ELSE SnapshotOutcomes

SourcesInit ==
    /\ source \in Kinds
    /\ session = IF source = "path" THEN "Running" ELSE "none"
    /\ gate = NoUser /\ closing = "idle"
    /\ client = "none"
    /\ step = [u \in Users |-> "idle"]
    /\ got = [u \in Users |-> "nothing"]
    /\ command = [x \in Users \cup {Opener} |-> NoCommand]
    /\ left = 0
    /\ temp = [u \in Users |-> FALSE]

Launch(x) == command' = [command EXCEPT ![x] = Running]
Forget(x) == command' = [command EXCEPT ![x] = NoCommand]
SnapshotsStay == UNCHANGED <<gate, step, got, left, temp>>
SessionStays == UNCHANGED <<source, session, closing, client>>

-----------------------------------------------------------------------------
(* start: ffmpeg validates, yt-dlp asks for information, both by a command  *)
(* that is awaited directly; a website gets a browser.                      *)
BeginOpen ==
    /\ session = "none"
    /\ session' = "opening"
    /\ IF source \in {"ffmpeg", "yt_dlp"} THEN Launch(Opener) ELSE UNCHANGED command
    /\ UNCHANGED <<source, closing, client>> /\ SnapshotsStay

Opened ==
    /\ session = "opening" /\ Over(Opener) /\ Succeeded(command[Opener])
    /\ session' = "Running"
    /\ Forget(Opener)
    /\ UNCHANGED <<source, closing, client>> /\ SnapshotsStay

(* The validation failed, or the future of start is dropped or panics,      *)
(* which kills the child (kill_on_drop).                                    *)
OpenFails ==
    /\ session = "opening"
    /\ session' = "none"
    /\ Forget(Opener)
    /\ UNCHANGED <<source, closing, client>> /\ SnapshotsStay

(* A WebDriver that cannot be reached is replaced by the mock client, which *)
(* always answers the same one-pixel image; an embedded browser is not.     *)
BrowserOpens ==
    /\ session = "opening" /\ source \in {"website", "embedded"}
    /\ session' = "Running"
    /\ client' \in IF source = "website" THEN {"driver", "mock"} ELSE {"driver"}
    /\ UNCHANGED <<source, closing, command>> /\ SnapshotsStay

-----------------------------------------------------------------------------
(* gl_proc::run waits for the child and its output, up to the timeout; then *)
(* the child is killed, and its output is lost.                             *)
Exits(x) ==
    /\ command[x].at = "running"
    /\ \E result \in Outcomes(x) : command' = [command EXCEPT ![x] = Ended(result)]
    /\ IF x \in Users /\ step[x] = "frame" /\ source = "yt_dlp"
       THEN \E written \in BOOLEAN : temp' = [temp EXCEPT ![x] = written]
       ELSE UNCHANGED temp
    /\ SessionStays /\ UNCHANGED <<gate, step, got, left>>

TimesOut(x) ==
    /\ command[x].at = "running"
    /\ command' = [command EXCEPT ![x].at = "killed"]
    /\ SessionStays /\ SnapshotsStay

Dies(x) ==
    /\ command[x].at = "killed"
    /\ command' = [command EXCEPT ![x] = Ended(Fails)]
    /\ SessionStays /\ SnapshotsStay

(* A thread whose asker is gone ends with its child.                        *)
ThreadEnds ==
    /\ left > 0
    /\ left' = left - 1
    /\ SessionStays /\ UNCHANGED <<gate, step, got, command, temp>>

-----------------------------------------------------------------------------
WithHandle == source # "path"
Drives == source \in {"website", "embedded"}

(* The snapshot's first command, or the browser.                            *)
Begin(u) ==
    /\ step' = [step EXCEPT ![u] =
                    IF Drives THEN "drive" ELSE IF source = "yt_dlp" THEN "url" ELSE "frame"]
    /\ temp' = [temp EXCEPT ![u] = FALSE]
    /\ IF Drives THEN UNCHANGED command ELSE Launch(u)

(* CaptureHandle::snapshot waits for its lock; for a path there is none.    *)
Request(u) ==
    /\ step[u] = "idle" /\ session \in {"Running", "Stopped"} /\ left < MaxLeft
    /\ got' = [got EXCEPT ![u] = "nothing"]
    /\ IF WithHandle THEN step' = [step EXCEPT ![u] = "lock"] /\ UNCHANGED <<command, temp>>
       ELSE Begin(u)
    /\ SessionStays /\ UNCHANGED <<gate, left>>

\* Faulty: the lock is let go before the source takes the snapshot.
TakeBriefly(u) ==
    /\ step[u] = "lock" /\ gate = NoUser
    /\ session = "Running" /\ Begin(u)
    /\ SessionStays /\ UNCHANGED <<gate, got, left>>

Take(u) ==
    /\ step[u] = "lock" /\ gate = NoUser
    /\ session = "Running"
    /\ gate' = u /\ Begin(u)
    /\ SessionStays /\ UNCHANGED <<got, left>>

(* Every way out of a snapshot lets go of the lock.                         *)
Lets(u) ==
    /\ step' = [step EXCEPT ![u] = "idle"]
    /\ gate' = IF gate = u THEN NoUser ELSE gate

Answer(u, what) ==
    /\ Lets(u)
    /\ got' = [got EXCEPT ![u] = what]
    /\ Forget(u)
    /\ UNCHANGED left /\ SessionStays

(* Capture has been stopped.                                                *)
Refuse(u) ==
    /\ step[u] = "lock" /\ gate = NoUser
    /\ session = "Stopped"
    /\ Answer(u, "error") /\ UNCHANGED temp

(* The URL yt-dlp has printed is given to ffmpeg.                           *)
UrlKnown(u) ==
    /\ step[u] = "url" /\ Over(u) /\ Printed(command[u])
    /\ step' = [step EXCEPT ![u] = "frame"]
    /\ Launch(u)
    /\ SessionStays /\ UNCHANGED <<gate, got, left, temp>>

(* A failed command, or one that has printed nothing; or a file that is not *)
(* there or cannot be read.                                                 *)
CommandFailed(u) ==
    /\ source = "yt_dlp" /\ Over(u)
    /\ step[u] = "frame" \/ (step[u] = "url" /\ ~Printed(command[u]))
    /\ Answer(u, "error") /\ UNCHANGED temp

(* ffmpeg's standard output, as far as it was taken for text, is the image: *)
(* of a source, and of a path.                                              *)
TakeOutput(u) ==
    /\ step[u] = "frame" /\ Over(u)
    /\ Answer(u, IF Printed(command[u]) THEN "image" ELSE "error")
    /\ UNCHANGED temp

FrameOver(u) == source = "ffmpeg" /\ TakeOutput(u)
PathOver(u)  == source = "path" /\ TakeOutput(u)

(* The temporary file is read, then removed.                                *)
FileRead(u) ==
    /\ step[u] = "frame" /\ source = "yt_dlp"
    /\ Over(u) /\ Succeeded(command[u]) /\ temp[u]
    /\ step' = [step EXCEPT ![u] = "remove"]
    /\ Forget(u)
    /\ SessionStays /\ UNCHANGED <<gate, got, left, temp>>

(* A removal that fails is ignored.                                         *)
FileRemoved(u) ==
    /\ step[u] = "remove"
    /\ temp' \in {temp, [temp EXCEPT ![u] = FALSE]}
    /\ Answer(u, "image")

(* What the three browsers answer.  Any step of a real one may fail; the    *)
(* embedded one closes its tab by a guard all the same.                     *)
MockScreenshot   == {"blank"}
DriverScreenshot == {"image", "error"}
ChromeScreenshot == {"image", "error"}

Driven(u) ==
    /\ step[u] = "drive"
    /\ \E what \in IF client = "mock" THEN MockScreenshot
                  ELSE IF source = "website" THEN DriverScreenshot ELSE ChromeScreenshot :
          Answer(u, what)
    /\ UNCHANGED temp

\* Faulty: the lock is lost with the dropped future.
AbandonLocked(u) ==
    /\ step[u] \notin {"idle", "drive"}
    /\ left' = IF command[u].at \in {"running", "killed"} THEN left + 1 ELSE left
    /\ step' = [step EXCEPT ![u] = "idle"] /\ UNCHANGED gate
    /\ Forget(u)
    /\ SessionStays /\ UNCHANGED <<got, temp>>

(* The asker's future is dropped: what it waited for goes on in its thread. *)
(* The embedded browser works without an await, so it cannot be left.       *)
Abandon(u) ==
    /\ step[u] # "idle" /\ (step[u] = "drive" => source = "website")
    /\ left' = IF command[u].at \in {"running", "killed"} THEN left + 1 ELSE left
    /\ Lets(u)
    /\ Forget(u)
    /\ SessionStays /\ UNCHANGED <<got, temp>>

-----------------------------------------------------------------------------
(* stop of the handle, or the task its drop leaves: a browser is taken out  *)
(* of the client and quits, or its future is dropped; of ffmpeg and yt-dlp  *)
(* nothing is left to stop.                                                 *)
Close ==
    /\ closing = "idle" /\ session = "Running" /\ WithHandle
    /\ closing' = "lock"
    /\ UNCHANGED <<source, session, client, command>> /\ SnapshotsStay

CloseTakes ==
    /\ closing = "lock" /\ gate = NoUser
    /\ session' = "Stopped"
    /\ IF Drives THEN client' = "closed" /\ closing' = "quit" /\ gate' = Closer
       ELSE closing' = "idle" /\ UNCHANGED <<client, gate>>
    /\ UNCHANGED <<source, step, got, command, left, temp>>

CloseEnds ==
    /\ closing = "quit"
    /\ closing' = "idle" /\ gate' = NoUser
    /\ UNCHANGED <<source, session, client, step, got, command, left, temp>>

-----------------------------------------------------------------------------
ChildEnds(x) == Exits(x) \/ TimesOut(x) \/ Dies(x)
UserProceeds(u) ==
    \/ UrlKnown(u) \/ CommandFailed(u) \/ FrameOver(u) \/ PathOver(u)
    \/ FileRead(u) \/ FileRemoved(u) \/ Driven(u)

SourcesNext ==
    \/ BeginOpen \/ Opened \/ OpenFails \/ BrowserOpens
    \/ \E x \in Users \cup {Opener} : ChildEnds(x)
    \/ ThreadEnds
    \/ \E u \in Users : Request(u) \/ Take(u) \/ Refuse(u) \/ UserProceeds(u) \/ Abandon(u)
    \/ Close \/ CloseTakes \/ CloseEnds

(* Commands have a timeout, and clients of browsers one of their own; the   *)
(* lock is given to its waiters in turn.                                    *)
SourcesFairness ==
    /\ \A u \in Users : /\ WF_sourceVars(ChildEnds(u)) /\ WF_sourceVars(UserProceeds(u))
                        /\ SF_sourceVars(Take(u) \/ Refuse(u))
    /\ WF_sourceVars(CloseEnds)

SourcesSpec == SourcesInit /\ [][SourcesNext]_sourceVars /\ SourcesFairness
-----------------------------------------------------------------------------
(* The types of the sources' state.                                         *)
SourcesTypeOK ==
    /\ source \in Kinds
    /\ session \in {"none", "opening", "Running", "Stopped"}
    /\ gate \in Users \cup {Closer, NoUser}
    /\ closing \in {"idle", "lock", "quit"}
    /\ client \in {"none", "driver", "mock", "closed"}
    /\ step \in [Users -> {"idle", "lock", "url", "frame", "remove", "drive"}]
    /\ got \in [Users -> {"nothing", "image", "blank", "error"}]
    /\ DOMAIN command = Users \cup {Opener}
    /\ left \in Nat
    /\ temp \in [Users -> BOOLEAN]

(* One snapshot of a handle is at work at a time, nothing of it once it is  *)
(* stopped, and no browser is closed under a snapshot (CaptureHandle).      *)
OneAtATime ==
    WithHandle =>
        \A u \in Users : step[u] \notin {"idle", "lock"} =>
            gate = u /\ session = "Running" /\ client # "closed"

(* A child that somebody waits for is the opener's, or that of the snapshot *)
(* which holds the lock: a source is opened and read by one at a time, but  *)
(* for the commands whose askers are gone (gl_proc run, CaptureHandle).     *)
ChildIsHolders ==
    WithHandle =>
        \A x \in Users \cup {Opener} : command[x].at # "none" =>
            IF x = Opener THEN session = "opening" ELSE gate = x /\ session = "Running"

(* Both: what a handle's lock promises.                                     *)
SourcesSound == OneAtATime /\ ChildIsHolders

(* "Take a snapshot and return JPEG bytes": a snapshot for which ffmpeg has *)
(* succeeded and printed is answered with the image (CaptureSource and      *)
(* generate_snapshot_with_ffmpeg in lib.rs, FfmpegSource::snapshot).        *)
PrintedIsAnswered ==
    [][\A u \in Users :
          (FrameOver(u) \/ PathOver(u)) /\ command[u].ok /\ command[u].lines # Nothing
              => got'[u] = "image"]_sourceVars

(* Whoever waits for a handle is answered or leaves, whatever the commands  *)
(* do and whoever is dropped (gl_proc run's timeout, CaptureHandle).        *)
SourcesAnswer == \A u \in Users : (step[u] = "lock") ~> (step[u] = "idle")
=============================================================================
