---------------------------- MODULE UpdateService -----------------------------
(***************************************************************************)
(* gl_update: UpdateService with the sidecar strategy, the signature       *)
(* verifier, the GitHub client and the health checker, as the admin        *)
(* handlers drive them.                                                    *)
(*                                                                         *)
(* The handlers hold the service's mutex for the whole of an operation, so *)
(* one operation runs at a time and pc is where it is. Its future is       *)
(* dropped, at an await, when the client goes away; the process may die    *)
(* between any two steps, and is started again from the install directory. *)
(***************************************************************************)
EXTENDS Naturals

CONSTANTS
    MaxRelease,     \* releases are numbered in the order they are published
    Rank,           \* their order as strings, which is_newer_version compares
    Broken,         \* releases whose process never answers "ok"
    RetryCount,     \* health checks before the update is given up
    NoFile, Torn, Damaged

Releases == 0 .. MaxRelease
Files == Releases \cup {NoFile, Torn, Damaged}

ASSUME ReleaseAssumption == MaxRelease \in Nat /\ Broken \subseteq Releases
ASSUME RankAssumption == Rank \in [Releases -> Nat]
ASSUME RetryAssumption == RetryCount \in Nat \ {0}
ASSUME FileAssumption ==
    /\ NoFile \notin Releases /\ Torn \notin Releases /\ Damaged \notin Releases
    /\ NoFile # Torn /\ NoFile # Damaged /\ Torn # Damaged

VARIABLES
    latest,         \* the newest release on GitHub
    current, backup, staging,   \* the three files of the install directory
    running,        \* the release this process was started from
    pc, status,     \* the step under way; current_status
    version,        \* config.current_version
    info, data,     \* the UpdateInfo being applied, the bytes downloaded
    attempt,        \* health check attempts begun
    offers,         \* releases check_for_updates has handed out
    last,           \* the last UpdateStep of the result the client was given
    before,         \* history: current when the apply began
    prior           \* history: what the last swap replaced

files == <<current, backup, staging, prior>>
job == <<info, data, attempt, last, before>>
updateVars == <<latest, files, running, pc, status, version, job, offers>>

Statuses == {"idle", "checking", "pending", "downloading", "verifying", "installing",
             "health_checking", "success", "rolling_back", "failed"}
Steps == [step : {"none", "download", "verify", "install", "health_check", "rollback"},
          ok : BOOLEAN]
NoStep == [step |-> "none", ok |-> TRUE]

UpdateTypeOK ==
    /\ latest \in Releases
    /\ current \in Files /\ backup \in Files /\ staging \in Files
    /\ running \in Releases
    /\ pc \in {"idle", "checking", "downloading", "verifying", "staging",
               "backup", "copying", "swap", "health", "rollback"}
    /\ status \in Statuses
    /\ version \in Releases
    /\ info \in Releases /\ data \in Releases \cup {Damaged}
    /\ attempt \in 0 .. RetryCount
    /\ offers \subseteq Releases
    /\ last \in Steps
    /\ before \in Files /\ prior \in Files

(* The install directory is empty on a fresh host, or holds what runs.      *)
UpdateInit ==
    /\ latest = 0 /\ running = 0 /\ version = 0
    /\ current \in {NoFile, 0}
    /\ backup = NoFile /\ staging = NoFile
    /\ pc = "idle" /\ status = "idle"
    /\ info = 0 /\ data = 0 /\ attempt = 0
    /\ offers = {}
    /\ last = NoStep
    /\ before = current /\ prior = NoFile

Publish ==
    /\ latest < MaxRelease
    /\ latest' = latest + 1
    /\ UNCHANGED <<files, running, pc, status, version, job, offers>>

-----------------------------------------------------------------------------
(* check_for_updates *)

IsNewer(new, old) == Rank[new] > Rank[old]

Check ==
    /\ pc = "idle"
    /\ pc' = "checking" /\ status' = "checking"
    /\ UNCHANGED <<latest, files, running, version, job, offers>>

(* The latest release is newer and has a binary and its signature file.     *)
CheckFinds ==
    /\ pc = "checking"
    /\ IsNewer(latest, version)
    /\ pc' = "idle" /\ status' = "pending"
    /\ offers' = offers \cup {latest}
    /\ UNCHANGED <<latest, files, running, version, job>>

NothingFound ==
    /\ pc = "checking"
    /\ pc' = "idle" /\ status' = "idle"
    /\ UNCHANGED <<latest, files, running, version, job, offers>>

CheckFindsNothing == NothingFound /\ ~IsNewer(latest, version)

(* The request failed, the rate limit is used up, the release is a draft or *)
(* lacks an asset: the error is answered as a result.                       *)
CheckFails == NothingFound

-----------------------------------------------------------------------------
(* apply_update *)

(* The client sends back the UpdateInfo of some earlier check.              *)
Apply(r) ==
    /\ pc = "idle"
    /\ r \in offers
    /\ pc' = "downloading" /\ status' = "downloading"
    /\ info' = r
    /\ last' = NoStep
    /\ before' = current
    /\ UNCHANGED <<latest, files, running, version, data, attempt, offers>>

(* complete_failure, after the step that was recorded last.                 *)
Finish(name, ok) ==
    /\ pc' = "idle" /\ status' = "failed"
    /\ last' = [step |-> name, ok |-> ok]
    /\ UNCHANGED <<latest, running, version, info, data, attempt, offers, before>>

Downloaded(d) ==
    /\ pc = "downloading"
    /\ d \in {info, Damaged}
    /\ data' = d
    /\ pc' = "verifying" /\ status' = "verifying"
    /\ UNCHANGED <<latest, files, running, version, info, attempt, offers, last, before>>

DownloadFails ==
    /\ pc = "downloading"
    /\ Finish("download", FALSE)
    /\ UNCHANGED files

(* Faulty: the outcome of the verification is not looked at. *)
VerifyNothing ==
    /\ pc = "verifying"
    /\ pc' = "staging" /\ status' = "installing"
    /\ UNCHANGED <<latest, files, running, version, job, offers>>

(* verify: the signature fits the bytes of the release it was made for.     *)
Verify ==
    /\ pc = "verifying"
    /\ data = info
    /\ pc' = "staging" /\ status' = "installing"
    /\ UNCHANGED <<latest, files, running, version, job, offers>>

VerifyFails ==
    /\ pc = "verifying"
    /\ data # info
    /\ Finish("verify", FALSE)
    /\ UNCHANGED files

-----------------------------------------------------------------------------
(* SidecarStrategy::install_update *)

(* write_binary_atomically: a temporary file, synced, renamed to staging.   *)
(* A binary that is there is backed up before it is replaced.               *)
Stage ==
    /\ pc = "staging"
    /\ staging' = data
    /\ pc' = IF current = NoFile THEN "swap" ELSE "backup"
    /\ UNCHANGED <<latest, current, backup, prior, running, status, version, job, offers>>

(* The write fails, or the mode cannot be set on the file that is there.    *)
StageFails ==
    /\ pc = "staging"
    /\ staging' \in {staging, data}
    /\ Finish("install", FALSE)
    /\ UNCHANGED <<current, backup, prior>>

(* Faulty: an existing backup is kept. *)
CopyUnlessThere ==
    /\ pc = "backup"
    /\ backup' = IF backup = NoFile THEN Torn ELSE backup
    /\ pc' = IF backup = NoFile THEN "copying" ELSE "swap"
    /\ UNCHANGED <<latest, current, staging, prior, running, status, version, job, offers>>

(* fs::copy truncates the backup first, and then fills it.                  *)
CopyBegins ==
    /\ pc = "backup"
    /\ backup' = Torn
    /\ pc' = "copying"
    /\ UNCHANGED <<latest, current, staging, prior, running, status, version, job, offers>>

CopyEnds ==
    /\ pc = "copying"
    /\ backup' = current
    /\ pc' = "swap"
    /\ UNCHANGED <<latest, current, staging, prior, running, status, version, job, offers>>

CopyFails ==
    /\ pc = "copying"
    /\ staging' = NoFile
    /\ Finish("install", FALSE)
    /\ UNCHANGED <<current, backup, prior>>

(* rename(staging, current)                                                 *)
Swap ==
    /\ pc = "swap"
    /\ current' = staging /\ staging' = NoFile
    /\ prior' = current
    /\ pc' = "health" /\ status' = "health_checking"
    /\ attempt' = 1
    /\ UNCHANGED <<latest, backup, running, version, info, data, offers, last, before>>

(* The rename fails; a backup that exists is renamed to current, if it can. *)
SwapFails ==
    /\ pc = "swap"
    /\ \/ /\ backup # NoFile
          /\ current' = backup /\ backup' = NoFile
       \/ UNCHANGED <<current, backup>>
    /\ Finish("install", FALSE)
    /\ UNCHANGED <<staging, prior>>

-----------------------------------------------------------------------------
(* check_health: the URL is answered by this very process.                  *)

(* Faulty: the new version is not taken over. *)
HealthPassesOldVersion ==
    /\ pc = "health"
    /\ running \notin Broken
    /\ pc' = "idle" /\ status' = "success"
    /\ last' = [step |-> "health_check", ok |-> TRUE]
    /\ UNCHANGED <<latest, files, running, version, info, data, attempt, offers, before>>

HealthPasses ==
    /\ pc = "health"
    /\ running \notin Broken
    /\ pc' = "idle" /\ status' = "success"
    /\ version' = info
    /\ last' = [step |-> "health_check", ok |-> TRUE]
    /\ UNCHANGED <<latest, files, running, info, data, attempt, offers, before>>

(* Faulty: the attempts are not counted. *)
HealthRetriesForEver ==
    /\ pc = "health"
    /\ UNCHANGED updateVars

(* Faulty: one attempt too many. *)
HealthRetriesOnceMore ==
    /\ pc = "health"
    /\ attempt <= RetryCount
    /\ attempt' = attempt + 1
    /\ UNCHANGED <<latest, files, running, pc, status, version, info, data, offers, last, before>>

HealthRetries ==
    /\ pc = "health"
    /\ attempt < RetryCount
    /\ attempt' = attempt + 1
    /\ UNCHANGED <<latest, files, running, pc, status, version, info, data, offers, last, before>>

HealthFails ==
    /\ pc = "health"
    /\ attempt = RetryCount
    /\ pc' = "rollback" /\ status' = "rolling_back"
    /\ UNCHANGED <<latest, files, running, version, job, offers>>

(* Faulty: the backup is restored by a copy that may stop half way. *)
RollbackByCopy ==
    /\ pc = "rollback"
    /\ backup # NoFile
    /\ current' \in {backup, Torn}
    /\ prior' = NoFile
    /\ Finish("rollback", TRUE)
    /\ UNCHANGED <<backup, staging>>

(* rename(backup, current)                                                  *)
Rollback ==
    /\ pc = "rollback"
    /\ backup # NoFile
    /\ current' = backup /\ backup' = NoFile
    /\ prior' = NoFile
    /\ Finish("rollback", TRUE)
    /\ UNCHANGED staging

(* There is no backup, or it cannot be renamed.                             *)
RollbackFails ==
    /\ pc = "rollback"
    /\ Finish("rollback", FALSE)
    /\ UNCHANGED files

-----------------------------------------------------------------------------
(* The client goes away while the operation awaits: nothing is undone and   *)
(* the status is left as it is.                                             *)
Disconnect ==
    /\ pc \in {"checking", "downloading", "staging", "health"}
    /\ pc' = "idle"
    /\ last' = NoStep
    /\ UNCHANGED <<latest, files, running, status, version, info, data, attempt, offers, before>>

(* The process dies and is started again, from the install directory when   *)
(* there is a binary; UpdateService::new takes the version built into it.   *)
ProcessRestarts ==
    /\ current \notin {Torn, Damaged}
    /\ running' = IF current = NoFile THEN running ELSE current
    /\ version' = running'
    /\ pc' = "idle" /\ status' = "idle"
    /\ info' = 0 /\ data' = 0 /\ attempt' = 0
    /\ last' = NoStep
    /\ UNCHANGED <<latest, files, offers, before>>

Service ==
    \/ CheckFinds \/ CheckFindsNothing \/ CheckFails
    \/ \E d \in Releases \cup {Damaged} : Downloaded(d)
    \/ DownloadFails \/ Verify \/ VerifyFails
    \/ Stage \/ StageFails \/ CopyBegins \/ CopyEnds \/ CopyFails
    \/ Swap \/ SwapFails
    \/ HealthPasses \/ HealthRetries \/ HealthFails
    \/ Rollback \/ RollbackFails

UpdateNext ==
    \/ Publish \/ Check \/ Service \/ Disconnect \/ ProcessRestarts
    \/ \E r \in Releases : Apply(r)

(* Local file operations return, and every health check has a timeout; the  *)
(* GitHub API's client has one too, but the download of a release has none. *)
UpdateFairness == WF_updateVars(Service /\ pc # "downloading")

UpdateSpec == UpdateInit /\ [][UpdateNext]_updateVars /\ UpdateFairness

-----------------------------------------------------------------------------
(* Properties *)

(* Once a binary is installed, the install directory holds a whole release  *)
(* at every moment, wherever the process dies.                              *)
BinaryInPlace ==
    /\ current \in Releases \cup {NoFile}
    /\ pc \in {"health", "rollback"} => current = info

(* An apply that reports a failure, other than that its rollback failed,    *)
(* has left the binary that was there when it began.                        *)
FailedApplyKeepsBinary ==
    last # NoStep /\ last \notin {[step |-> "health_check", ok |-> TRUE],
                                  [step |-> "rollback", ok |-> FALSE]}
        => current = before

(* Until an update is settled the replaced binary can be found on disk.     *)
OldBinaryRecoverable ==
    pc # "idle" /\ pc # "checking" /\ last = NoStep => before \in {current, backup}

(* A service that reports success reports the version that is installed.    *)
SuccessNamesInstalled == status = "success" => current = version

(* Wherever the process dies there is a binary to start and one to go back  *)
(* to.                                                                      *)
BinariesSafe == BinaryInPlace /\ OldBinaryRecoverable

(* What an apply, or the status after it, says of the binary is so.         *)
ResultTellsInstalled == FailedApplyKeepsBinary /\ SuccessNamesInstalled

(* A verified update is settled, in success or in failure.                  *)
ApplyEnds == pc = "verifying" ~> pc = "idle"

(* The installed binary behaves as AtomicUpdate says.                       *)
Atomic == INSTANCE AtomicUpdate WITH installed <- current, fallback <- prior, None <- NoFile
ImplementsAtomicUpdate == Atomic!Spec
=============================================================================
