---------------------------- MODULE StreamFrames ----------------------------
(***************************************************************************)
(* Where the frames of one stream go: the loop of a capture task, its       *)
(* latest_snapshot and broadcast channel, the requests and jobs that ask    *)
(* for a snapshot (get_latest_snapshot in gl_web/src/capture_manager.rs),   *)
(* the MJPEG viewers, and the snapshot files and rows.                      *)
(*                                                                          *)
(* A capture is one successful start_stream; captures are numbered in the   *)
(* order of their starts.  execution_status is in CaptureManager; here the  *)
(* locks are held for single steps and the entry in running_captures is the *)
(* number of its capture, and a frame is the capture whose source gave it.   *)
(* The broadcast ring and its lagging receivers are in MjpegStream.         *)
(***************************************************************************)
EXTENDS Naturals, FiniteSetsExt

CONSTANTS
    MaxCaptures,    \* bound on the starts
    MaxSecond,      \* bound on the clock
    MaxRows,        \* bound on the rows of the stream
    Askers,         \* places for requests for a snapshot and snapshot jobs
    Viewers,
    Keep,           \* rows that cleanup_old_snapshots keeps
    Configs,        \* configurations a stream may have
    WebsiteFeature  \* the program is built with the feature "website"

ASSUME FrameAssumption ==
    /\ MaxCaptures \in Nat /\ MaxSecond \in Nat /\ MaxRows \in Nat
    /\ Keep \in Nat \ {0}

Captures == 1 .. MaxCaptures

(* The two directories: the capture manager's, and the one of the jobs.     *)
(* A file is named by its second.                                           *)
Names == [dir : {"manager", "job"}, second : 0 .. MaxSecond]

VARIABLES
    config,     \* streams.config
    entry,      \* the capture in running_captures, or 0
    installed,  \* the capture whose CaptureHandle the entry has, or 0
    task,       \* where each capture task stands
    updater,    \* the task that installs the handle of each capture
    latest,     \* latest_snapshot of each capture's entry: a frame, or 0
    leaving,    \* captures a stop_stream call has in its hands
    aborted,
    watch,      \* the capture whose channel a viewer receives from, or 0
    asker,      \* where each request or job stands
    second,     \* the clock
    files,
    rows,       \* the snapshots table: how many rows have each name
    twice,      \* history: names given to more than one file
    apart       \* history: captures that began when nobody was at work on
                \* behalf of an earlier one

captureVars == <<config, entry, installed, task, updater, leaving, aborted, apart>>
storeVars == <<files, rows, twice>>
frameVars == <<captureVars, latest, watch, asker, second, storeVars>>

TaskStages ==
    {"none", "opening", "loop", "store", "insert", "cleanup", "delete", "ending", "over", "died"}
At(where) == [at |-> where]
Idle == At("idle")
Live(g) == task[g].at \notin {"none", "over", "died"}

FramesInit ==
    /\ config \in Configs
    /\ entry = 0 /\ installed = 0
    /\ task = [g \in Captures |-> At("none")]
    /\ updater = [g \in Captures |-> "none"]
    /\ latest = [g \in Captures |-> 0]
    /\ leaving = {} /\ aborted = {} /\ apart = {}
    /\ watch = [v \in Viewers |-> 0]
    /\ asker = [a \in Askers |-> Idle]
    /\ second = 0
    /\ files = {} /\ rows = [n \in Names |-> 0] /\ twice = {}

-----------------------------------------------------------------------------
(* A source can be opened when its configuration is complete; a missing     *)
(* file, an unreachable camera and the like come on top.                    *)
FileOpens(c)     == c.kind = "file" /\ c.complete
ProcessOpens(c)  == c.kind \in {"ffmpeg", "rtsp"} /\ c.complete
WebsiteOpens(c)  == c.kind = "website" /\ c.complete /\ WebsiteFeature
DownloadOpens(c) == c.kind \in {"yt", "youtube"} /\ c.complete
Opens(c) == FileOpens(c) \/ ProcessOpens(c) \/ WebsiteOpens(c) \/ DownloadOpens(c)

(* A snapshot by a source that is made for it and dropped.                  *)
OnceByFile(c)     == FileOpens(c)
OnceByFfmpeg(c)   == c.kind = "ffmpeg" /\ c.complete
OnceByRtsp(c)     == c.kind = "rtsp" /\ c.complete
OnceByWebsite(c)  == WebsiteOpens(c)
OnceByDownload(c) == DownloadOpens(c)
Once(c) ==
    OnceByFile(c) \/ OnceByFfmpeg(c) \/ OnceByRtsp(c) \/ OnceByWebsite(c) \/ OnceByDownload(c)

Puts(n) ==
    /\ files' = files \cup {n}
    /\ twice' = IF n \in files \/ rows[n] > 0 THEN twice \cup {n} ELSE twice

RowCount(table) == MapThenSumSet(LAMBDA n : table[n], Names)
Inserts(n) == RowCount(rows) < MaxRows /\ rows' = [rows EXCEPT ![n] = @ + 1]

(* What the cleanup may leave: the latest rows, of both directories.        *)
Kept(table) ==
    /\ \A n \in Names : table[n] <= rows[n]
    /\ RowCount(table) = IF RowCount(rows) < Keep THEN RowCount(rows) ELSE Keep
    /\ \A n, m \in Names : table[n] > 0 /\ table[m] < rows[m] => n.second >= m.second

-----------------------------------------------------------------------------
(* start_stream and its task.                                               *)
Elsewhere == UNCHANGED <<config, watch, second, storeVars>>

NobodyAtWork ==
    /\ \A a \in Askers : asker[a] = Idle
    /\ \A h \in Captures : updater[h] \in {"none", "gone"}

\* Faulty: latest_snapshot belongs to the stream, not to its capture.
StartKeepsMemory ==
    /\ entry = 0
    /\ \E g \in Captures :
        /\ task[g].at = "none" /\ \A h \in 1 .. g - 1 : task[h].at # "none"
        /\ entry' = g /\ installed' = 0
        /\ latest' = [latest EXCEPT ![g] = IF g > 1 THEN latest[g - 1] ELSE 0]
        /\ task' = [task EXCEPT ![g] = At("opening")]
        /\ updater' = [updater EXCEPT ![g] = "waits"]
        /\ apart' = IF NobodyAtWork THEN apart \cup {g} ELSE apart
    /\ UNCHANGED <<leaving, aborted, asker>> /\ Elsewhere

StartCapture ==
    /\ entry = 0
    /\ \E g \in Captures :
        /\ task[g].at = "none" /\ \A h \in 1 .. g - 1 : task[h].at # "none"
        /\ entry' = g /\ installed' = 0
        /\ task' = [task EXCEPT ![g] = At("opening")]
        /\ updater' = [updater EXCEPT ![g] = "waits"]
        /\ apart' = IF NobodyAtWork THEN apart \cup {g} ELSE apart
    /\ UNCHANGED <<leaving, aborted, latest, asker>> /\ Elsewhere

GoesOn(g, stage) == task' = [task EXCEPT ![g] = stage]
TableStays == UNCHANGED <<config, entry, installed, leaving, aborted, apart, watch, second>>

(* The handle goes to the updater, which waits for it.                      *)
TaskOpens(g) ==
    /\ task[g].at = "opening" /\ Opens(config)
    /\ GoesOn(g, At("loop"))
    /\ updater' = [updater EXCEPT ![g] = "has"]
    /\ TableStays /\ UNCHANGED <<latest, asker, storeVars>>

(* An error, a panic or the early return before there is a source: the      *)
(* sender is dropped.  An error ends in the removal of the entry.           *)
TaskGivesUp(g) ==
    /\ task[g].at = "opening"
    /\ GoesOn(g, At("ending")) \/ GoesOn(g, At("died"))
    /\ updater' = [updater EXCEPT ![g] = "gone"]
    /\ TableStays /\ UNCHANGED <<latest, asker, storeVars>>

UpdaterInstalls(g) ==
    /\ updater[g] = "has"
    /\ updater' = [updater EXCEPT ![g] = "gone"]
    /\ installed' = IF entry # 0 THEN g ELSE 0
    /\ UNCHANGED <<entry, task, leaving, aborted, apart, latest, asker>> /\ Elsewhere

(* A tick takes a frame, keeps and broadcasts it; a snapshot that fails     *)
(* changes nothing.                                                         *)
TickKeeps(g) ==
    /\ task[g].at = "loop"
    /\ latest' = [latest EXCEPT ![g] = g]
    /\ GoesOn(g, At("store"))
    /\ TableStays /\ UNCHANGED <<updater, asker, storeVars>>

(* A smart snapshot job is set off; it asks for a snapshot of its own.      *)
TickSetsOffJob(g) ==
    /\ task[g].at = "store"
    /\ \E a \in Askers :
        /\ asker[a] = Idle
        /\ asker' = [asker EXCEPT ![a] = [at |-> "memory", job |-> TRUE]]
    /\ GoesOn(g, At("loop"))
    /\ TableStays /\ UNCHANGED <<updater, latest, storeVars>>

(* No scheduler, or it refuses: store_snapshot_async.                       *)
TickPuts(g) ==
    LET n == [dir |-> "manager", second |-> second]
    IN  /\ task[g].at = "store"
        /\ \/ Puts(n) /\ GoesOn(g, [at |-> "insert", name |-> n])
           \/ GoesOn(g, At("loop")) /\ UNCHANGED <<files, twice>>
        /\ TableStays /\ UNCHANGED <<updater, latest, asker, rows>>

TickInserts(g) ==
    /\ task[g].at = "insert"
    /\ \/ Inserts(task[g].name) /\ GoesOn(g, At("cleanup"))
       \/ GoesOn(g, [task[g] EXCEPT !.at = "delete"]) /\ UNCHANGED rows
    /\ TableStays /\ UNCHANGED <<updater, latest, asker, files, twice>>

\* Faulty: the files of the rows go with them, in both directories.
CleanupWithFiles(g) ==
    /\ task[g].at = "cleanup"
    /\ \E table \in [Names -> 0 .. MaxRows] :
        /\ Kept(table)
        /\ rows' = table
        /\ files' = {n \in files : \A m \in Names : m.second = n.second => table[m] = rows[m]}
    /\ GoesOn(g, At("loop"))
    /\ TableStays /\ UNCHANGED <<updater, latest, asker, twice>>

(* cleanup_old_snapshots keeps the latest rows, of both directories; the    *)
(* files of the others stay.  It may fail.                                  *)
TickCleansUp(g) ==
    /\ task[g].at = "cleanup"
    /\ \/ \E table \in [Names -> 0 .. MaxRows] : Kept(table) /\ rows' = table
       \/ UNCHANGED rows
    /\ GoesOn(g, At("loop"))
    /\ TableStays /\ UNCHANGED <<updater, latest, asker, files, twice>>

(* The file of a row that could not be inserted.                            *)
TickDeletes(g) ==
    /\ task[g].at = "delete"
    /\ files' = files \ {task[g].name} \/ UNCHANGED files
    /\ GoesOn(g, At("loop"))
    /\ TableStays /\ UNCHANGED <<updater, latest, asker, rows, twice>>

(* The configured duration is over, or ctrl-C.                              *)
LoopEnds(g) ==
    /\ task[g].at = "loop"
    /\ GoesOn(g, At("ending"))
    /\ TableStays /\ UNCHANGED <<updater, latest, asker, storeVars>>

\* Faulty: the entry stays.
EndsInPlace(g) ==
    /\ task[g].at = "ending"
    /\ GoesOn(g, At("over"))
    /\ TableStays /\ UNCHANGED <<updater, latest, asker, storeVars>>

(* The task removes the stream's entry, whose ever it is.                   *)
TaskLeaves(g) ==
    /\ task[g].at = "ending"
    /\ GoesOn(g, At("over"))
    /\ entry' = 0 /\ installed' = 0
    /\ UNCHANGED <<updater, leaving, aborted, apart, latest, asker>> /\ Elsewhere

(* An abort takes effect at an await; an INSERT under way may still be      *)
(* done.                                                                    *)
AbortTakesEffect(g) ==
    /\ g \in aborted /\ Live(g)
    /\ GoesOn(g, At("over"))
    /\ updater' = [updater EXCEPT ![g] = IF @ = "waits" THEN "gone" ELSE @]
    /\ \/ task[g].at = "insert" /\ Inserts(task[g].name)
       \/ UNCHANGED rows
    /\ TableStays /\ UNCHANGED <<latest, asker, files, twice>>

-----------------------------------------------------------------------------
(* stop_stream: out of the table, abort, and after 100 ms and a status      *)
(* write the CaptureTask is dropped.  A failed write or a dropped request   *)
(* drops it before the abort.                                               *)
TasksStay == UNCHANGED <<task, updater, apart, latest, asker>> /\ Elsewhere

StopTakes ==
    /\ entry # 0
    /\ leaving' = leaving \cup {entry}
    /\ entry' = 0 /\ installed' = 0
    /\ TasksStay /\ UNCHANGED aborted

StopAborts(g) ==
    /\ g \in leaving \ aborted
    /\ aborted' = aborted \cup {g}
    /\ TasksStay /\ UNCHANGED <<entry, installed, leaving>>

StopLeaves(g) ==
    /\ g \in leaving
    /\ leaving' = leaving \ {g}
    /\ TasksStay /\ UNCHANGED <<entry, installed, aborted>>

-----------------------------------------------------------------------------
(* MJPEG viewers: a channel is closed when the entry, the task and the stop *)
(* that has taken it out have dropped their senders.                        *)
Sends(g) == entry = g \/ g \in leaving \/ (Live(g) /\ task[g].at # "ending")

OnlyViewers == UNCHANGED <<captureVars, latest, asker, second, storeVars>>

Watch(v) ==
    /\ watch[v] = 0 /\ entry # 0
    /\ watch' = [watch EXCEPT ![v] = entry]
    /\ OnlyViewers

ViewerEnds(v) ==
    /\ watch[v] # 0 /\ ~Sends(watch[v])
    /\ watch' = [watch EXCEPT ![v] = 0]
    /\ OnlyViewers

ViewerLeaves(v) ==
    /\ watch[v] # 0
    /\ watch' = [watch EXCEPT ![v] = 0]
    /\ OnlyViewers

-----------------------------------------------------------------------------
(* get_latest_snapshot, for a request or for a job.                         *)
AskerGoes(a, stage) == asker' = [asker EXCEPT ![a] = stage]
AskerMoves(a, where) == AskerGoes(a, [at |-> where, job |-> asker[a].job])

(* A request is answered; a job goes on with the frame.                     *)
Answered(a) == IF asker[a].job THEN AskerMoves(a, "compare") ELSE AskerGoes(a, Idle)
OnlyAskers == UNCHANGED <<captureVars, watch, second, storeVars>>

AskSnapshot(a) ==
    /\ asker[a] = Idle
    /\ AskerGoes(a, [at |-> "memory", job |-> FALSE])
    /\ OnlyAskers /\ UNCHANGED latest

FromMemory(a) ==
    /\ asker[a].at = "memory"
    /\ IF entry # 0 /\ latest[entry] # 0 THEN Answered(a) ELSE AskerMoves(a, "handle")
    /\ OnlyAskers /\ UNCHANGED latest

ClonesHandle(a) ==
    /\ asker[a].at = "handle"
    /\ IF installed # 0
       THEN AskerGoes(a, [at |-> "snap", job |-> asker[a].job, of |-> installed])
       ELSE AskerMoves(a, "row")
    /\ OnlyAskers /\ UNCHANGED latest

FromHandle(a) ==
    /\ asker[a].at = "snap"
    /\ AskerGoes(a, [asker[a] EXCEPT !.at = "cache"]) \/ AskerMoves(a, "row")
    /\ OnlyAskers /\ UNCHANGED latest

(* The entry may be another one by now.                                     *)
CachesFrame(a) ==
    /\ asker[a].at = "cache"
    /\ latest' = IF entry # 0 THEN [latest EXCEPT ![entry] = asker[a].of] ELSE latest
    /\ Answered(a)
    /\ OnlyAskers

(* The latest row.  The path in a row of the capture manager lacks the      *)
(* directory, so that its file cannot be read.                              *)
FromRow(a) ==
    /\ asker[a].at = "row"
    /\ \/ \E n \in Names :
            /\ rows[n] > 0 /\ \A m \in Names : rows[m] > 0 => m.second <= n.second
            /\ IF n.dir = "job" /\ n \in files THEN Answered(a) ELSE AskerMoves(a, "fallback")
       \/ RowCount(rows) = 0 /\ AskerMoves(a, "fallback")
    /\ OnlyAskers /\ UNCHANGED latest

(* take_stream_snapshot_fallback, for a stream that is running.             *)
OnDemand(a) ==
    /\ asker[a].at = "fallback" /\ entry # 0 /\ Once(config)
    /\ Answered(a)
    /\ OnlyAskers /\ UNCHANGED latest

(* After an error stream_snapshot opens a file itself, and tries            *)
(* take_stream_snapshot_fallback once more for any other source.            *)
DirectlyByPage(a) ==
    /\ asker[a].at = "fallback" /\ ~asker[a].job
    /\ FileOpens(config) \/ (entry # 0 /\ Once(config))
    /\ AskerGoes(a, Idle)
    /\ OnlyAskers /\ UNCHANGED latest

(* take_snapshot_impl of routes/stream.rs opens a source of any kind.       *)
RouteFfmpeg(c)   == c.kind = "ffmpeg" /\ c.complete
RouteRtsp(c)     == c.kind = "rtsp" /\ c.complete
RouteWebsite(c)  == WebsiteOpens(c)
RouteDownload(c) == DownloadOpens(c)

DirectlyByRoute(a) ==
    /\ asker[a].at = "fallback" /\ ~asker[a].job
    /\ \/ FileOpens(config) \/ RouteFfmpeg(config) \/ RouteRtsp(config)
       \/ RouteWebsite(config) \/ RouteDownload(config)
    /\ AskerGoes(a, Idle)
    /\ OnlyAskers /\ UNCHANGED latest

(* An error, a timeout, an abort, or the client has gone.                   *)
AskerEnds(a) ==
    /\ asker[a] # Idle
    /\ AskerGoes(a, Idle)
    /\ \/ asker[a].at = "insert" /\ Inserts(asker[a].name)
       \/ UNCHANGED rows
    /\ UNCHANGED <<captureVars, latest, watch, second, files, twice>>

(* The job stores what differs from the row before, and deletes no file.    *)
JobStores(a) ==
    LET n == [dir |-> "job", second |-> second]
    IN  /\ asker[a].at = "compare"
        /\ Puts(n)
        /\ AskerGoes(a, [at |-> "insert", job |-> TRUE, name |-> n])
        /\ UNCHANGED <<captureVars, latest, watch, second, rows>>

JobInserts(a) ==
    /\ asker[a].at = "insert"
    /\ Inserts(asker[a].name)
    /\ AskerGoes(a, Idle)
    /\ UNCHANGED <<captureVars, latest, watch, second, files, twice>>

-----------------------------------------------------------------------------
SecondPasses ==
    /\ second < MaxSecond
    /\ second' = second + 1
    /\ UNCHANGED <<captureVars, latest, watch, asker, storeVars>>

(* The process ends, or the manager is dropped: its tasks are aborted.      *)
Shutdown ==
    /\ entry' = 0 /\ installed' = 0 /\ leaving' = {} /\ aborted' = {}
    /\ task' = [g \in Captures |-> IF Live(g) THEN At("over") ELSE task[g]]
    /\ updater' = [g \in Captures |-> IF updater[g] = "none" THEN "none" ELSE "gone"]
    /\ watch' = [v \in Viewers |-> 0]
    /\ asker' = [a \in Askers |-> Idle]
    /\ UNCHANGED <<config, apart, latest, second, storeVars>>

CaptureStep(g) ==
    \/ TaskOpens(g) \/ TaskGivesUp(g) \/ TickKeeps(g) \/ TickSetsOffJob(g) \/ TickPuts(g)
    \/ TickInserts(g) \/ TickCleansUp(g) \/ TickDeletes(g) \/ LoopEnds(g) \/ TaskLeaves(g)
AskerStep(a) ==
    \/ FromMemory(a) \/ ClonesHandle(a) \/ FromHandle(a) \/ CachesFrame(a) \/ FromRow(a)
    \/ OnDemand(a) \/ DirectlyByPage(a) \/ DirectlyByRoute(a) \/ JobStores(a) \/ JobInserts(a)
    \/ AskerEnds(a)

FramesNext ==
    \/ StartCapture \/ StopTakes
    \/ \E g \in Captures :
        CaptureStep(g) \/ UpdaterInstalls(g) \/ AbortTakesEffect(g) \/ StopAborts(g) \/ StopLeaves(g)
    \/ \E v \in Viewers : Watch(v) \/ ViewerEnds(v) \/ ViewerLeaves(v)
    \/ \E a \in Askers : AskSnapshot(a) \/ AskerStep(a)
    \/ SecondPasses \/ Shutdown

(* The runtime polls the tasks; a stop goes on after its 100 ms.  Nothing   *)
(* makes a loop end.                                                        *)
FramesFairness ==
    /\ \A g \in Captures :
        WF_frameVars(TaskLeaves(g)) /\ WF_frameVars(AbortTakesEffect(g)) /\ WF_frameVars(StopLeaves(g))
    /\ \A v \in Viewers : WF_frameVars(ViewerEnds(v))

FramesSpec == FramesInit /\ [][FramesNext]_frameVars /\ FramesFairness

-----------------------------------------------------------------------------
(* Properties *)

(* The types; the entry is a capture that was started, and a handle is in   *)
(* the table only with an entry.                                            *)
FramesTypeOK ==
    /\ config \in Configs
    /\ entry \in {0} \cup {g \in Captures : task[g].at # "none"}
    /\ installed \in {0} \cup Captures /\ (entry = 0 => installed = 0)
    /\ \A g \in Captures : task[g].at \in TaskStages
    /\ updater \in [Captures -> {"none", "waits", "has", "gone"}]
    /\ \A g \in Captures : updater[g] = "waits" <=> task[g].at = "opening"
    /\ latest \in [Captures -> 0 .. MaxCaptures]
    /\ leaving \subseteq Captures /\ aborted \subseteq Captures /\ entry \notin leaving
    /\ watch \in [Viewers -> 0 .. MaxCaptures]
    /\ second \in 0 .. MaxSecond
    /\ files \subseteq Names /\ twice \subseteq Names
    /\ rows \in [Names -> Nat]

(* Once nobody is at work on behalf of an earlier capture, a capture shows  *)
(* its own frames and nobody else's: neither its memory nor its handle is   *)
(* of the camera that was configured before.                                *)
ShowsOwnFrames ==
    \A g \in apart :
        /\ latest[g] \in {0, g}
        /\ entry = g => installed \in {0, g}

(* A row has its file, unless another snapshot was stored under that name   *)
(* in the same second: nobody deletes the file of a row.                    *)
RowsHaveFiles ==
    \A n \in Names : rows[n] > 0 => n \in files \cup twice

(* Both: what is shown and what is kept is what it claims to be.            *)
FramesSound == ShowsOwnFrames /\ RowsHaveFiles

(* A viewer's response ends when its capture is over, and when a capture    *)
(* that died has been taken out of the table.                               *)
ViewersEnd ==
    \A v \in Viewers, g \in Captures :
        watch[v] = g /\ (task[g].at = "over" \/ (task[g].at = "died" /\ entry # g))
            ~> watch[v] # g
=============================================================================
