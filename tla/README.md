# glimpser-rs in TLA+

glimpser is a self-hosted camera monitor: it captures frames from streams,
keeps snapshots whose perceptual hash changed, analyses them, notifies, updates
itself, and shows everything in a web interface. It is one process on one SQLite
database; its difficulty is in the tokio tasks that share tables, rows, locks
and caches. This directory models those tasks, checks them with TLC and proves
the central invariants with TLAPS.

## 1. Inventory

Nineteen crates. For each part: its state, its operations, whom it talks to,
what is hard, and what makes it correct.

| Part | State | Operations | Hard behaviour | Correct when |
|---|---|---|---|---|
| `gl_web/capture_manager.rs` | `running_captures` (stream to task), `streams.execution_status`, latest frame, snapshot files and rows | `start_stream`, `stop_stream`, the capture task, `get_latest_snapshot`, reset at start-up | requests and tasks interleave at every await; abort; dropped handlers; restart | the table holds live tasks; the column tells the truth; what is shown is the stream's own |
| `gl_web/frontend.rs` | writes the same column; forms for streams; log-in and set-up pages | start, stop, delete, create, update pages | writes after the manager has answered | the page's status is the capture's |
| `gl_scheduler` | handlers, `running_jobs`, tables `scheduled_jobs` and `job_executions` | schedule, execute, cancel, stop, reload | a task may end before its handle is inserted; foreign key of results; restart | what runs can be cancelled; entries go away |
| `gl_scheduler/jobs.rs` | files and `snapshots` rows | `SmartSnapshotJob::execute` | executions of one stream overlap; timeout; file before row | no two consecutive snapshots alike |
| `gl_capture/background_processor.rs` | job map, request channel | submit, process, wait, cancel, clean up | four writers of a status, 45 s timeout against completion | a caller and a poller see the same; jobs end |
| `gl_capture` file sources and `process_pool.rs` | a handle's state behind a mutex, a flag shared by clones, ffmpeg processes | start, snapshot, stop, drop, monitor | futures dropped at every await, tasks left by `Drop` | nothing starts after a stop; processes end |
| `gl_capture` command and browser sources, `gl_proc` | child processes, temporary files, browser clients | start, snapshot, stop; run with timeout and kill | output read as text; commands outlive their askers | whoever asks is answered; one user of a source at a time; an image that was made arrives |
| `gl_stream` | sessions, broadcast ring, subscriber count | subscribe, poll, send | lagging clients, counters that wrap | gaps are told, the count is exact |
| `gl_web/routes/stream.rs` | sessions beside captures | start, stop, snapshots | two things that know nothing of each other | a running stream has its session |
| `gl_db` cache, `gl_web/routes/streams.rs`, `admin.rs` | an LRU cache with a TTL before the `streams` table | list, get, create, update, delete, import | a fill races an update, writes past the cache | an ETag names one row; what is stale goes away |
| `gl_web` auth and middleware | accounts, tokens, keys, limiter windows | log in, set up, bootstrap, manage, limit | a look and an insert apart; windows that begin anywhere | set-up only without users; the limit holds in every window |
| `gl_analysis` | event history, rules | analyse, deduplicate, filter, store | duplicates within a batch, capped history | an event is reported once per window |
| `gl_notify` dispatcher | delivery rows | make deliveries, send, retry | crash between send and mark, limits, order by strings | nothing goes out twice unless unrecorded; a working channel delivers |
| `gl_notify` adapters, breaker, retry; `routes/alerts.rs` | failure counters and an open flag | send | atomics without order; partial sends retried | an open circuit can be tried again; success means every channel |
| `gl_update` | installed, staged and backup binary, status | check, download, verify, install, health check, roll back | crash or dropped request between steps | there is always a whole binary; a result tells what is installed |
| `gl_sched` | not linked into the program | - | - | - |
| `gl_storage` | files | put, get, delete, with retry | I/O | modelled only where snapshots are stored |
| `gl_ai`, `gl_vision`, `gl_cap`, `gl_config`, `gl_obs`, `gl_core`, `test_support` | none that interacts | pure computation, parsing, I/O | - | - |

How they interact. A web handler calls `CaptureManager::start_stream`, which
spawns a capture task; the task writes `execution_status`, broadcasts frames
and, on every tick, calls `JobScheduler::execute_now`, which spawns an
execution of `SmartSnapshotJob`; the job asks the capture manager for the latest
frame and stores it. A frame comes from the capture's handle, whose source is a
file with pooled ffmpeg processes, a command, or a browser. Snapshots by path go
through `BackgroundSnapshotProcessor`. The REST start handler also keeps a
`StreamSession` in `gl_stream`, with a source of its own. The stream routes read
and write the table through a cache the capture manager knows nothing of.
`AnalysisService` stores events, from which the dispatcher makes deliveries.
At start `main` creates the manager (which resets stale statuses in a task of
its own), then the scheduler, registers its handlers, waits for the reload of
persisted jobs, and starts the web servers.

`PROJECT.json` lists the hazards with the line where each one bites.

## 2. Modules

| Module | Models | Uses |
|---|---|---|
| `CaptureManager` | capture manager, capture tasks, `execution_status` | - |
| `StreamFrontend` | the settings page's handlers over the manager | `CaptureManager` |
| `JobScheduler` | scheduler and job storage | - |
| `SmartSnapshot` | the snapshot job as the handler of every execution | `JobScheduler` |
| `SnapshotProcessor` | background snapshot processor | - |
| `MjpegStream` | one streaming session and its clients | - |
| `StreamFrames` | where a stream's frames go: loop, memory, viewers, requests, files and rows | - |
| `StreamSessions` | the REST handlers that start and stop a stream | - |
| `AtomicUpdate` | abstract: the installed binary changes in one step | - |
| `UpdateService` | update service, sidecar strategy, health checks | `AtomicUpdate` (refinement) |
| `AnalysisService` | pipeline, rules, deduplication, filters, inserts | - |
| `NotificationDispatcher` | deliveries and their tasks | `AnalysisService` |
| `StreamCache` | the LRU cache, as functions | - |
| `StreamRoutes` | stream routes and repositories | `StreamCache` |
| `Accounts` | accounts, tokens, keys, rate limiters | - |
| `AlertDelivery` | alerts through adapters, retry wrapper, circuit breaker | - |
| `FileCapture` | a file's capture handle, its source and process pool | - |
| `HardwareAccel` | output capture of `gl_proc`, acceleration, as functions | - |
| `CaptureSources` | command and browser sources | `HardwareAccel` |
| `MCStreaming`, `MCWebApi`, `MCFileCapture` | instances of several components each | the components |
| `MCNotifications` | constants of that run | `NotificationDispatcher` |
| `CaptureManagerProofs` | the theorems | the capture manager and its settings page |
| `JobSchedulerProofs`, `SnapshotProcessorProofs`, `UpdateServiceProofs` | the theorems | their component |
| `NotificationDispatcherProofs` | the theorems on analysis and notification | `NotificationDispatcher`, `AnalysisService` |
| `StreamingProofs`, `WebApiProofs`, `FileCaptureProofs` | the theorems on each component of a composed run, and on its joint types | `MCStreaming`, `MCWebApi`, `MCFileCapture` |

Definitions whose comment begins with "Faulty:" are not part of any
specification. Each is a plausible mistake in one definition, and shows that the
property it is listed with in `PROJECT.json` can fail.

### CaptureManager

`row` is the status column of each stream, `entry` the table
`running_captures`, `stage`, `strm`, `outcome` and `aborted` the capture tasks,
`pc`, `target` and `held` the requests in flight.

* `start_stream` is `StartFind` (the row is read), then `StartRefused` or
  `StartClaim`. `StartClaim` is everything done under the write lock: the check,
  the "starting" write, the spawn and the insert. All other accesses to the table
  wait for that lock and nothing in the section reads the column back, so nobody
  can tell the section from one step. The spawned task may run before the
  insert, but its first access to the table is after it.
* `stop_stream` is `StopRemove`, `StopMark`, `StopAbort`, `StopSettle`: one action
  per await. A failed write returns early, as `?` does.
* A capture task is `spawned`, `active`, `running`, `ended`, `removed`; `TaskSetupFails`
  is the early return and the `expect` before the capture begins, after which the
  entry stays (`died`).
* An abort takes effect at the task's next await. A write that has already been
  handed to the database still takes place: `TaskActivate` and `TaskReport` of an
  aborted task are possible and end it.
* `RequestDropped` is the web server dropping the handler's future when the client
  goes away; the write it was waiting for has happened or not.
* `ResetStale` is the task spawned by `CaptureManager::new`; it runs concurrently with
  the first requests. `CrashRestart` keeps only the database.
* `lost` is a history variable, read by no action: the streams whose last due status
  write failed, was dropped with its request, or was followed by a late write of an
  aborted task for which nobody waits any more. It also takes in rows left at
  "stopping" by a crash, which the reset does not look for. It says exactly which
  failures the status properties forgive.

### StreamFrontend

The two handlers call the manager and then write the column themselves:
"active" after `Ok`, "inactive" after any error of a start. They replace `Reply`.
`AdminSpecAfterReset` has the behaviours in which the reset at start-up comes before the
first request: otherwise the reset alone can leave a captured stream at "inactive".

### JobScheduler and SmartSnapshot

An execution is one call of `execute_now`: `Enter` (with the row saved when the job
is scheduled), `Spawn` or `NoHandler`, `Track`. The task it spawns runs `TaskBegin`,
`TaskEnd`, `TaskRecord`, `TaskRemove`, and nothing orders it with `Track`.
`SaveResult` has the foreign key in it: results are saved under the job id
'unknown', so they are stored only while such a job exists, and saving or deleting
that job removes them again. `phase` is the order in `main`: handlers, `start`, and
only then callers. `CancelJob` is one action because it holds the lock of
`running_jobs` throughout.

In `SmartSnapshot` every execution runs the job for one stream: `Capture`,
`Compare`, then `Store` and `Insert`, or `Touch`. A frame is the scene it shows;
two frames are similar when they show the same scene, which is what the threshold
stands for. `stamped` is the order of `captured_at`, which is taken before the
insert. An insert that was under way when the handler was dropped may still happen.

### SnapshotProcessor

`status` is the job map, `queue` the unbounded channel, `work` the request on its
way through the loop and a blocking thread, `waiter` the caller of
`process_job_sync`. The status and the reply are two steps of the thread; a timeout
may come between them. `CancelSnapshotJob` is for the jobs of `submit_job` only, whose
ids are handed out. Clean-up takes any set of final jobs: ages are left out.

### MjpegStream, StreamFrames, StreamSessions

`MjpegStream`: `sequence`, `subscribers`, `gen` and `frame` are the session and its
loop, `sent` what the channel of tokio has carried: the ring holds the last
`Capacity` positions, and a receiver (`next`) that has been overtaken is moved to
the oldest of them. `last`, `expected`, `gaps`, `dropped` are the fields of a
client's `MjpegStream`; `first` and `got` are history. The loop takes a number and
sends the frame in two steps (`SnapshotTaken`, `Send`); a frame sent while there is
no receiver uses up a number and no position. A client is counted before its
receiver exists and uncounted before it is dropped. A poll of an empty ring changes
nothing; a closed channel cannot be seen, because every client keeps the session,
and so the sender, alive. The handler has no await between `Count` and the
construction of the `MjpegStream`, so it cannot be dropped there.

`StreamFrames`: a capture is one successful start, numbered; a frame is the number
of the capture whose source gave it. `task` is the loop of each capture, `updater`
the task that looks the entry up again to install the handle, which may by then be
the entry of a later capture. A request tries memory, the handle, the latest row and
the fallbacks in turn, and every one of them is an await. Files are named by stream
and second, so that two stores of a second share one (`twice`). `apart` is history:
the captures that began when nobody was at work on behalf of an earlier one.

`StreamSessions`: start and stop of `routes/stream.rs`, one action per await, over a
capture entry and the session of `StreamManager`. `settled` is history: what the
last request, if nobody was beside it, has promised.

### AtomicUpdate and UpdateService

The service's mutex lets one operation run at a time, so `pc` is where it is:
check, download, verify, stage, back up, copy, swap, health checks, roll back.
`current`, `backup` and `staging` are the files of the install directory; `Torn` is
one written halfway, `Damaged` a download whose bytes are not the release. Every
file operation may fail; `Disconnect` drops the operation at an await;
`ProcessRestarts` starts the process again from the installed binary. `Rank` is the order of the
versions as strings, which is what `is_newer_version` compares. `AtomicUpdate` says
that the installed binary is one whole release that changes in one step, forward or
back; `Atomic` maps `installed` to `current` and `fallback` to the history
variable `prior`.

### AnalysisService and NotificationDispatcher

`Analyze` is one frame through pipeline, rules, deduplication, quiet hours and
filters, which happens under the service's mutex; the inserts are steps of their
own (`Store`, `StoreFails`). Rules of one action stand for rules of several.
`memory` is the history of the rule engine, cut to `MaxHistory` events by number.

The dispatcher's loop is `LoadEvents`, `NextEvent`, `Create` per channel, then
`LoadDeliveries` and one task per delivery (`Send`, `MarkSent`, `ScheduleRetry`,
`GiveUp`), which it waits for. What is due is the sequence `due`, because the code
compares times as strings: what has just been made or put off is never due yet.

### StreamCache, StreamRoutes, Accounts, AlertDelivery

`StreamCache` has the LRU cache's operations as functions on its two collections.
In `StreamRoutes` every statement a request sends and everything it does to the
cache is a step; a row's fields are the numbers of the writes that brought them,
`upd` is `updated_at`, the ETag. `StatusWrite` is the capture manager writing past
the cache; the administrator's routes, the pages and the import do so too. `excused`
is history: entries made stale by a race, a write past the cache or a dropped
request.

`Accounts` has log-in, set-up and bootstrap as a look and an insert with awaits
between them, and the handlers behind `RequireAuth`. `access` is how much longer a
token of an account is accepted; `recent`, the requests a limiter has admitted in the
last `Window` ticks since a restart, is history.

`AlertDelivery`: a sender's channels are futures joined in one task, so `polled` is
the one that runs until its next await; other senders run between any two accesses
to the breaker's atomics, each of which is an action. `done` is how far an adapter's
loop over the channels of its kind has come in this try.

### FileCapture, CaptureSources, HardwareAccel

`FileCapture`: the handle's state is behind a tokio mutex held by `snapshot` and
`stop` to their end (`holder`). All clones of the source share `is_running`, and
dropping any of them clears it. A dropped handle leaves a task that stops the
source and drops its clone (`stops`, `drops`); it may run at any later time. `Held`
is the pool's reference count: the monitor ends the processes when it is gone.

`CaptureSources`: a snapshot is a command in a blocking thread or a browser
session; the command goes on when its asker is gone (`left`). What a command prints
is a sequence of lines that are text or not; `gl_proc::run` keeps text only, and panics
when it slices a line inside a character. yt-dlp prints text, of any kind: whether it is
a URL is found out by the command it is given to. The temporary file is removed or stays,
since a failed removal is ignored. `HardwareAccel` has `capture_output`, the probing and
the selection as functions.

## 3. Runs

| Run | Shows | Instance |
|---|---|---|
| `capture_manager` | types; entries are live tasks; the status is accounted for; "starting" and "stopping" end | 1 stream, 2 requests, 2 tasks, all faults |
| `capture_orphan` | violated: one capture per stream | the same, without any fault |
| `frontend_status` | violated: "inactive" means stopped | 1 request at a time, no fault, the reset over |
| `smart_snapshot` | violated: no duplicate snapshots | 2 executions, 2 scenes, no fault |
| `snapshot_cancel` | violated: a cancelled job stays cancelled | 2 jobs |
| `mjpeg_stream` | types; exact subscriber count; losses told; frames increase; what is shown and stored is what it claims; sessions follow captures; an execution that was answered for can be cancelled, and its entry is released | 2 clients, a ring of 2, 6 frames; 2 captures, 1 request or job, 2 rows; 3 requests, 3 sessions; 2 executions, jobs j1 and 'unknown', all faults |
| `notifications` | types; duplicates are apart; nothing goes out twice unless unrecorded; deliveries are exact; a working channel delivers; events are notified | 2 frames, a working and an unusable channel, 1 incident, 2 ticks |
| `web_api` | types; an ETag names one row; what is stale is explained and goes away; bursts are bounded; access ends; circuits recover and success is true; binaries are safe, results tell what is installed, an update is settled, and `AtomicUpdate` is implemented | 2 streams, cache of 1, 2 requests; 2 accounts, 1 caller beside the managers; 2 senders; 4 releases, one of them broken, one sorted before its predecessors, 3 health checks |
| `file_capture` | types; nothing after a stop, no lone snapshot refused; one user of a source at a time; whoever asks is answered and processes end; viewers end; a caller's answer and the job agree; a job is forgotten only when over; jobs end | 2 callers, 3 leftover tasks; 2 captures, 1 viewer; 2 users, 2 leftover commands; 2 jobs of the background processor |
| `snapshot_image` | violated: what ffmpeg has printed is answered | 1 user |
| `set_up_race` | violated: set-up makes the first account | 2 callers |
| `rate_window` | violated: the limit holds in every window | 2 callers, a limit of 2 in 2 ticks |

These properties are conjunctions of named parts, so that one run asks one
question: `StatusAccounted`, `LossesTold`, `FramesSound`, `BinariesSafe`,
`ResultTellsInstalled`, `DeliveriesExact`, `AlertsSound`,
`HandleSound`, `SourcesSound`, `CapturesServe`; the parts are defined and commented
above them in their module.

Components that share no variable. `mjpeg_stream`, `web_api` and `file_capture`
each instantiate several components. Whatever one of them does it can do while the
others rest, so the roots explore them in turn: `explored` says which one is at
work, and the product of their states, which has no new behaviour for any of the
properties, is left out. `StreamFrames` is explored in three parts, each with the
rest of its state at its initial value: requests for frames of two captures without
stores, the stores of one capture and of jobs, and viewers of two captures.

Bounds, and why they are enough.

* Captures. Streams share nothing but the lock, and every property speaks of one
  stream. Two requests let a start overlap a stop or another start; two tasks are an
  old capture that is ending and its successor. A task identity is used again once
  nothing refers to it, so runs are not bounded in length. `GraceSuffices` is TRUE:
  the 100 ms that `stop_stream` sleeps are taken to be enough for an abort to take
  effect. The theorems hold for both values, the one about lost writes for TRUE.
* Jobs. An execution and a snapshot job are used once: these parts of `mjpeg_stream`
  and `file_capture` end, and so do the runs of `smart_snapshot` and `snapshot_cancel`;
  they do not check deadlock. Two executions are enough for properties that
  concern one execution and the rows it shares with another.
* Streaming. Six frames in a ring of two (`MaxFrames`) let a client read one, be
  overtaken twice and read again; a second client leaves and joins meanwhile.
  `MaxCaptures` = 2 is a capture and its successor; `MaxSecond` = 1 gives two names
  per directory, `MaxRows` = 2 with `Keep` = 1 makes every clean-up delete.
  `MaxSessions` = 3 with three requests lets a session be replaced while another
  request is between two steps.
* Updates. Release 3 never answers its health check, release 2 is 0.10.0 and comes
  before 0.8.0 as a string, so that both directions of the comparison are met.
* Notifications. `MaxInputs` = 2 is a frame and its repetition, `MaxTime` = 1 puts
  them within a window or apart, `MaxHistory` = 1 cuts; `MaxIncidents` = 1 is one
  failing statement, restart, new configuration or deletion anywhere; `EventLimit` =
  2 crowds out a third event, `MaxConcurrent` = 1 makes deliveries wait, and
  `RetryDelays` has both lengths that matter (0: give up at once).
* Routes. A cache of one entry evicts at every second put; `MaxWrites` = 2 and
  `MaxRequests` = 2 are the smallest race of two requests with a write each;
  `CacheLimit` = 1 separates the list that is cached from the one that is not.
* Accounts. `MaxAdmitted` = 2 in a `Window` of 2 ticks lets a burst straddle two
  windows; `Life` = 1 makes tokens expire. In `web_api` one log-in, set-up or bootstrap
  is under way beside the requests of the managers, which is what `AccessEnds` is about;
  the two set-ups of the race are in `set_up_race`. One client address: limiter entries of
  different addresses are independent.
* Alerts. One sender is a request with a channel of each kind, the webhook kind
  having no adapter, as in the route; the other has two channels of one kind. Both
  thresholds and `MaxRetries` are 2: the least for which a counter matters.
* Captures by file and by command. `MaxTasks` = 3 and `MaxLeft` = 2 bound what
  dropped futures leave behind; one leftover task per caller and one of the stop can
  be late at once. `OutputLimit` is 4 units of text: a
  line of characters of 3 units is cut inside one.

Fairness. The tokio runtime polls every spawned task and every handler that can go
on, and a database call returns: such steps are weakly fair. Nothing makes a
capture end (its duration may be infinite), a client call, a write fail or the
process crash: none of these is fair. In particular:

* `JobScheduler`: the end of a handler is fair because the scheduler puts a timeout
  around it; `SnapshotProcessor`: the end of ffmpeg, for the same reason.
* `UpdateService`: every step but the download, which has no timeout.
* `NotificationDispatcher`: the loop, its tasks, and time, for new rows and for
  those put off; `StreamRoutes` and `Accounts`: time, and handlers under way.
* `FileCapture` and `CaptureSources`: taking a lock is strongly fair, because
  tokio's mutex serves its waiters in order, so one that is free again and again is
  had by each of them; commands are weakly fair by their timeout; the tasks of
  dropped handles and the monitor are polled.
* `StreamFrames`: an aborted task ends, a stop that sleeps 100 ms goes on, a viewer
  whose channel is closed ends. `AlertDelivery` has safety properties only.

Disagreements found. The seven violated properties each state what a comment, a
description or a test of the repository says; `PROJECT.json` quotes it under
`findings` with what the code does.

1. A task that ends by itself removes the table entry of its stream, whoever's it
   is. Stop, start, and the end of the first capture: the second one runs on without
   an entry, and a third can be started.
2. A start request for a running stream fails and marks the stream inactive.
3. Overlapping executions of the snapshot job store the same scene twice.
4. A snapshot job that is submitted, and cancelled while its request is queued, is set
   to processing by the loop.
5. An image that ffmpeg writes to its standard output is not text, so `gl_proc::run`
   loses it and the snapshot fails: ffmpeg and RTSP sources, and snapshots by path,
   never yield an image that was made.
6. Two set-ups look for users, hash their passwords and insert: both make an account.
7. The rate limiter's window does not slide: around the end of a window a client gets
   more than the limit in a span as long as a window, but fewer than twice as much
   (`BurstBounded`).

What else the models have in them because the code does it, and a reader may not
expect:

* Captures. The reset at start-up is a task nothing waits for; it may set the row of a
  capture that has just begun to "inactive". The task that installs a capture's handle finds the entry by stream id
  and may put an old handle into a new entry (`UpdaterInstalls`); `apart` in
  `ShowsOwnFrames` says when that cannot be. Fallback rows lack the artifacts
  directory in their path, so the file of such a row is never found. Only the
  fallback path cleans rows up, and no path deletes the files of deleted rows.
* Sessions. A session's loop never ends. A stop whose capture has ended answers
  NotFound and leaves the session; a start may replace a session whose loop goes on.
  The REST start does not know "rtsp", the page's direct snapshot not "youtube".
* Cache and routes. If-Match is compared with the cached row, an await before the
  write. An update reads the row and then writes all of its fields. A list or get
  that read before an update may fill the cache after it; a deleted stream may be
  served until its entry expires. The reset at start-up keeps `updated_at`, so a 304
  may confirm an old status (`EtagIdentifiesRow` therefore compares with clients'
  copies only what an update sets).
* Accounts. `has_any_users` counts active accounts: set-up opens again when the last
  one is soft-deleted, while its e-mail stays taken. Tokens outlive their account
  until they expire. `RequireAuth` is outside the limiter. The limiter is per scope and
  per worker.
* Notifications. The application does not start the dispatcher. Rows become due only
  on the next UTC day, because "T" sorts after " ". A retry never counts as an
  attempt, so a delivery on an unusable channel is retried for ever unless there are
  no delays. Channels missed by a failing insert are never made up for. The 100 first
  events stay first when they have been notified.
* Alerts. The route makes a manager and a breaker per request, so that its circuit
  never opens, registers no webhook adapter, and sends the whole notification once
  per channel name. A retry repeats the channels that had succeeded. Two channels of
  one kind are each sent to twice. Client errors are retried although a comment
  (`circuit_breaker.rs:177`) excepts them.
* Updates. The health check after the swap asks the old process, which is still the
  one running. Versions are compared as strings. A dropped request leaves the status
  at its last value.
* Sources. An image on a pipe is lost (5.), so only yt-dlp, by a temporary file, and
  browsers yield frames, and the validation of an acceleration, which reads a video from
  a pipe, never passes although its test says that software should
  (`hardware_accel.rs:556`); nothing calls it, and `detect` answers software only.
  A chosen format of a live yt-dlp source takes the place of `--get-url`, the argument
  that asks for the URL (`yt_dlp_source.rs:163`): what is printed instead goes to ffmpeg as
  a URL. The models leave the arguments out and let any text be printed.
  `SnapshotProcessor` has a successful ffmpeg all the same: its properties are about the
  job map and hold either way. A website without a WebDriver silently shoots the mock's
  blank page. A failed removal leaves the temporary file.
* File captures. A snapshot that comes while a dropped handle's task is still to run
  may be refused as "not running". Processes live until the monitor's next round.

## 4. Proofs

`tlapm` checks every step; the assumptions are those on the constants, which are
named in their modules. Constants are otherwise arbitrary: any number of streams,
tasks, requests, executions, jobs, clients, releases, channels and callers.

`CaptureManagerProofs`. `TypeOK` and `EntryTaskLive` are not inductive. `TableInv`
adds that a task taken out by a stop is nobody's entry (`HeldOK`: an abort cannot
reach a task that is still registered) and that a task identity not in use is not
aborted and has no outcome (`FreshOK`: a start registers a clean task).
`NoPhantomCapture`, `NoAbandonedStop` and both together, `NoStatusAbandoned`, follow
from `RowInv` on top of it. It asks for less than the property, with a stronger
witness: a row that claims a capture has a keeper, which is the pending reset, a stop
request under way, or a live task of the stream that was *not aborted*. The property
as checked accepts an aborted task, which would not be inductive: that task may end
without another write. A step that removes one keeper leaves another or has just
written the row. `NothingLostWithoutFaults` adds `AwaitedInv` (an aborted task is
still held by the stop request that aborted it): without faults and with a sufficient
grace, `lost` stays empty, so the status theorems hold without any exception.

Two more theorems of that module bound what two of the violating runs show: the steps that
lead to the violation are named as actions, and a behaviour without them keeps the property,
whatever else fails. `OneCaptureUnlessOrphaned` excludes the deregistration of a successor's
entry (`TakesAnother`) and a stop call that leaves between taking its task and aborting it
(`LetsGo`, by a failed write or a dropped connection); from `OwnedInv`, a capture in
nobody's hands is then the one its entry names. `InactiveUnlessOverwritten` excludes three
late writes of "inactive": by a settings handler, by the report of an earlier task and by
the reset at start-up. TLC finds the property violated when any one of the three is allowed.
The second write of `stop_stream` may be just as late and needs no exception: its handler
is still to answer and writes the same again, which is what `InactiveInv` carries.

`JobSchedulerProofs`. With the types, `LiveIsTracked` is inductive: an entry goes only
with an abort (`CancelJob`) or with the end of its task (`TaskRemove`), and an abort is
forgotten only when the task is over.

`SnapshotProcessorProofs`. `CallerToldTheTruth` needs `QueueOK` (a request is in the
channel at most once, and only while it is queued: `Receive` must not touch a job that
is further on) and `RecordOK` (what the oneshot channel holds is what the thread
recorded before, and the status agrees with it or is gone, unless the caller timed
out). `ForgottenJobsAreOver` adds that a job in a final state whose work is not over
was given up or cancelled: clean-up takes only final ones.

`StreamingProofs`, the session. None of the properties is inductive. `NumberedFrom` is the
heart: while a client listens no number is lost, so the frames since its receiver was
created, counted back from the upcoming one, are numbered without a hole. `LastSeen`
places the last frame a client saw just before those it was told it lost, and these just
before its next one; the two give the gap its exact size when a frame is read. `Blank` says
that a client without a receiver starts afresh. The count needs the cardinality of the
set of counted clients, which each `Count` and `Drop` changes by one.

`StreamingProofs`, the frames. `TableInv` orders the captures: they start in the order of
their numbers and the entry is the last that started. `ShowsOwnFrames` then needs
`Unmixed`: every updater of a capture before one that began apart is gone, so none can put
its handle into the later entry, and nobody who has a frame of another capture can store it
in this one's memory. `RowsHaveFiles` needs `StoreInv`, which says for each name what the
tasks and jobs between the file and its row hold. `SessionsInv` for the REST handlers: whoever is alone has
been disturbed by nobody, so what it read still holds when it acts, and what is settled
was settled when no request was under way.

`UpdateServiceProofs`. `UInv` follows the bytes: what is staged is what was verified, the
backup is what is about to be replaced, and until the swap nothing has happened to the
installed binary. From it follow the safety properties, and, with the history `prior`,
that every step is an `Install`, a `Restore` or a stutter of `AtomicUpdate`: the
refinement is proved for any number of releases and any string order.

`NotificationDispatcherProofs`. `SentOnce` needs that a row has at most one task and that
a row at work is not yet sent (`SendInv`): a round begins only when all tasks of the last
have ended, and it takes rows that are open. `DuplicatesApart` needs the numbering
(`NumbersInv`: events are numbered in order, those of a batch in the order of the rules)
and `RememberedInv`: what the present engine has let through it still remembers, unless
`MaxHistory` events have come since. An event that the deduplication let through is
therefore a window away from everything of its key that is stored. The lemmas
`SmallestOf` and `LargestOf` find the cut of the history; they go by well-founded order,
since induction on numbers is out of reach. `DeliveriesExact` needs three parts:
`StreamsInv` (a row is gone with its event, whose stream never comes back), `LoopInv` (what
the loop still wants has no row yet) and `CoveredInv` (every channel an event is meant for
is still wanted, has its row, or is missed).

`WebApiProofs`, the routes. `CacheOK` says that the LRU's two collections agree, and is a
lemma for each function of `StreamCache`: the order names each cached stream once, and the
evictions of a put leave room for one. `EtagIdentifiesRow` needs `RowsInv` (every row's
timestamp has been given out, and its stream's id) and `StampsInv` (an update that has its timestamp and has
not yet written is the only one to hold it). `StaleIsExplained` is inductive on top of
these: one lemma says what a step may do to the cache (`CacheGoesOn`), and each action is
shown to stay within it.

`WebApiProofs`, the accounts. `BurstBounded` needs `LimiterInv`: the requests admitted in
the last window lie in the limiter's present window, which has counted them, or in a single
earlier one, which never had more than `MaxAdmitted`; that it is a single one, and that its
first request has left the span when the present one is full, depends on a window's starting
with a request. The types need that a token is issued for an account that exists
(`CallerInv`).

`WebApiProofs`, the alerts. That an open circuit has a time or a writer of one is inductive
with the types, since the flag is set before the time and only by somebody who goes on to
write it. That success means every channel needs `DeliveredInv`: an adapter has been through
all channels of its kind up to `done`, and through all of them when its future goes the way
of a success.

`FileCaptureProofs`, the file handle. `LockHeld` (in the type invariant) gives mutual
exclusion, and `LoneInv` adds that nothing is left behind as long as a snapshot that started
alone holds the lock: only a holder leaves tasks.

`FileCaptureProofs`, the sources. `SourcesSound` is `OneAtATime` and `ChildIsHolders`, and
needs `SourcesInv`: at every point of a snapshot its command is the snapshot's own, and
outside of it there is none (`UserInv`), the opener has one only while the session opens, and
the lock is the closer's while it quits (`HandleInv`). What commands print makes no
difference to it. `AccelSelected` is a fact about functions, proved for every platform and
every set of accelerations that work.

Each composed run explores its components in turn, so its joint type invariant
(`StreamingTyped`, `WebTyped`, `CapturesTyped`) follows from each component's invariant: a
step of the run is one of a component and leaves the others as they are. In `file_capture` the frames are
explored without requests and stores, for which `ViewersInv` is the invariant.

Lemmas that carry most of the work are stated once: the arithmetic of the ring
(`MjpegNumbers`), what stays when a step leaves a table alone (`TableKept`, `StoreKept`,
`UserKept`, `ClientsStay`, `RowStays`), and ordered lists and their members (`OrderedIsLong`,
`RemovedFromOrder`, `FrontOfOrder`).

Every safety invariant of the passing runs, and both of their action properties
(`FramesIncrease`, `ImplementsAtomicUpdate`), is thus proved for all constants that satisfy the
named assumptions. Only model-checked: liveness (`TransitionEnds`, `EntryReleased`, `JobEnds`,
`ApplyEnds`, `GoodChannelsDeliver`, `EventsNotified`, `CacheRecovers`, `AccessEnds`,
`CapturesServe`, `ViewersEnd`), since fairness and `ENABLED` are beyond this prover, and the
seven violated properties; for `OneCapture`, `InactiveMeansStopped` and `LimitHolds` a theorem
says how far the violation goes. The inductive invariants were
checked by TLC on their runs before they were proved, all but `SendInv`, which quantifies over
all sets.

## 5. Not modelled

* `run_*_capture` of the capture manager (lines 807 to 1343), which have no caller; metrics;
  timestamps where no property tells them apart.
* The RTSP server (a feature that is off, with a stub for its frames), `gl_sched`, which
  nothing links, and the buffer pool and encoder of `gl_stream`, which nothing uses.
* Behaviour that is pure computation or I/O: AI, vision and CAP parsing, configuration,
  observability, rendering of pages, validation of request bodies, single queries.
* The restart of a failed ffmpeg process: `mark_failure` has no caller in this version.
* The retry loop of `gl_storage`, the retention sweep and the other standard jobs: a
  single operation each, nothing that interacts.
* The self-replace strategy, behind a feature that is off; release information that a
  client sends with its request to apply an update instead of what the check has found.
* What becomes of a start of the capture manager when opening its source panics (in
  `CaptureSources` such a start fails); panics over the standard error of a command, which
  count as a failed command.
* The answer of `process_job_sync` when its channel is closed, which happens only as the
  process ends; the error of an analysis whose rule has an invalid wildcard pattern.

`PROJECT.json` gives the reason for every part that is `partly` modelled.

Every hazard listed there has a property. Known, and left out of the list because
their effect is outside the models or was judged to be intended: the gauges of
`gl_stream`; `max_concurrent_jobs`, which is never looked at; one-time jobs that are
executed again at each restart; an image file left without its row when an insert fails;
the id `submit_stream_snapshot_job` makes up; a string comparison in quiet hours that
span midnight.

## 6. Plan

1. An abstract capture (idle, capturing, stopping) that `CaptureManager` implements where
   the first disagreement does not arise, an abstract snapshot job, and an abstract
   dispatcher that sends each wanted delivery once, with their refinements proved.
2. `NoDuplicateSnapshots` for executions that do not overlap. (`CancelledStays` has no such
   condition worth stating: every cancelled job that is not cleaned up first is overwritten.)
3. Further action properties: the numbers of events and captures never go back, an update's
   `prior` is what was installed.
4. `StreamSessions` over the steps of `CaptureManager` instead of its atomic entry.
