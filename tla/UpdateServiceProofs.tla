-------------------------- MODULE UpdateServiceProofs --------------------------
(***************************************************************************)
(* The update service keeps a whole binary in place, and implements        *)
(* AtomicUpdate, for any number of releases, any string order of their     *)
(* versions and any number of health checks.                               *)
(***************************************************************************)
EXTENDS UpdateService, TLAPS

(* Before the swap nothing has happened to the installed binary.            *)
Preparing == {"downloading", "verifying", "staging", "backup", "copying", "swap"}

(* What is staged is what was verified; the backup is what is replaced.     *)
UInv ==
    /\ UpdateTypeOK
    /\ current \in Releases \cup {NoFile}
    /\ prior \in Releases \cup {NoFile}
    /\ current = NoFile => backup = NoFile
    /\ pc \in {"staging", "backup", "copying", "swap"} => data = info
    /\ pc \in {"backup", "copying", "swap"} => staging = info
    /\ pc \in Preparing => current = before /\ last = NoStep
    /\ pc \in {"backup", "copying"} => current # NoFile
    /\ pc = "swap" => backup = current
    /\ pc \in {"health", "rollback"} =>
          current = info /\ last = NoStep /\ backup = before /\ prior = before
    /\ status = "success" => pc = "idle" /\ current = version
    /\ FailedApplyKeepsBinary

LEMMA InitUInv == UpdateInit => UInv
<1> SUFFICES ASSUME UpdateInit PROVE UInv
  OBVIOUS
<1>1. 0 \in Releases /\ 0 \in 0 .. RetryCount
  BY ReleaseAssumption, RetryAssumption DEF Releases
<1>2. NoStep \in Steps
  BY DEF NoStep, Steps
<1>3. UpdateTypeOK
  BY <1>1, <1>2 DEF UpdateInit, UpdateTypeOK, Files, Statuses
<1> QED
  BY <1>1, <1>3, FileAssumption DEF UpdateInit, UInv, Preparing, FailedApplyKeepsBinary

(* Every step preserves the invariant. *)
LEMMA StepUInv == UInv /\ [UpdateNext]_updateVars => UInv'
<1> SUFFICES ASSUME UInv, [UpdateNext]_updateVars PROVE UInv'
  OBVIOUS
<1> USE ReleaseAssumption, RetryAssumption, FileAssumption
    DEF UInv, UpdateTypeOK, Releases, Files, Statuses, Steps, NoStep, Preparing,
        FailedApplyKeepsBinary, files, job
<1>1. CASE Publish
  BY <1>1 DEF Publish
<1>2. CASE Check
  BY <1>2 DEF Check
<1>3. CASE CheckFinds
  BY <1>3 DEF CheckFinds
<1>3a. CASE CheckFindsNothing
  BY <1>3a DEF CheckFindsNothing, NothingFound
<1>3b. CASE CheckFails
  BY <1>3b DEF CheckFails, NothingFound
<1>4. ASSUME NEW r \in Releases, Apply(r) PROVE UInv'
  BY <1>4 DEF Apply
<1>5. ASSUME NEW d \in Releases \cup {Damaged}, Downloaded(d) PROVE UInv'
  BY <1>5 DEF Downloaded
<1>6. CASE DownloadFails
  BY <1>6 DEF DownloadFails, Finish
<1>6a. CASE VerifyFails
  BY <1>6a DEF VerifyFails, Finish
<1>7. CASE Verify
  BY <1>7 DEF Verify
<1>8. CASE Stage
  BY <1>8 DEF Stage
<1>9. CASE StageFails
  BY <1>9 DEF StageFails, Finish
<1>10. CASE CopyBegins \/ CopyEnds
  BY <1>10 DEF CopyBegins, CopyEnds
<1>11. CASE CopyFails
  BY <1>11 DEF CopyFails, Finish
<1>12. CASE Swap
  BY <1>12 DEF Swap
<1>13. CASE SwapFails
  BY <1>13 DEF SwapFails, Finish
<1>14. CASE HealthPasses
  BY <1>14 DEF HealthPasses
<1>15. CASE HealthRetries
  BY <1>15 DEF HealthRetries
<1>15a. CASE HealthFails
  BY <1>15a DEF HealthFails
<1>16. CASE Rollback
  BY <1>16 DEF Rollback, Finish
<1>17. CASE RollbackFails
  BY <1>17 DEF RollbackFails, Finish
<1>18. CASE Disconnect
  BY <1>18 DEF Disconnect
<1>19. CASE ProcessRestarts
  BY <1>19 DEF ProcessRestarts
<1>20. CASE UNCHANGED updateVars
  BY <1>20 DEF updateVars
<1> QED
  BY <1>1, <1>2, <1>3, <1>3a, <1>3b, <1>4, <1>5, <1>6, <1>6a, <1>7, <1>8, <1>9, <1>10, <1>11, <1>12, <1>13,
     <1>14, <1>15, <1>15a, <1>16, <1>17, <1>18, <1>19, <1>20 DEF UpdateNext, Service

THEOREM UInvHolds == UpdateSpec => []UInv
  BY InitUInv, StepUInv, PTL DEF UpdateSpec

(* Every variable of the update service keeps its type. *)
THEOREM UpdateTypeCorrect == UpdateSpec => []UpdateTypeOK
<1>1. UInv => UpdateTypeOK
  BY DEF UInv
<1> QED
  BY <1>1, UInvHolds, PTL

(* Wherever the process dies, the install directory holds a whole release,  *)
(* if it ever held one.                                                     *)
THEOREM BinaryAlwaysInPlace == UpdateSpec => []BinaryInPlace
<1>1. UInv => BinaryInPlace
  BY DEF UInv, BinaryInPlace
<1> QED
  BY <1>1, UInvHolds, PTL

(* A failed apply, with or without a rollback, changes nothing. *)
THEOREM FailedApplyChangesNothing == UpdateSpec => []FailedApplyKeepsBinary
<1>1. UInv => FailedApplyKeepsBinary
  BY DEF UInv
<1> QED
  BY <1>1, UInvHolds, PTL

(* While an update is under way the replaced binary is on disk. *)
THEOREM OldBinaryIsRecoverable == UpdateSpec => []OldBinaryRecoverable
<1>1. UInv => OldBinaryRecoverable
  BY DEF UInv, OldBinaryRecoverable, UpdateTypeOK, Preparing
<1> QED
  BY <1>1, UInvHolds, PTL

(* Success is reported of the installed version. *)
THEOREM SuccessIsInstalled == UpdateSpec => []SuccessNamesInstalled
<1>1. UInv => SuccessNamesInstalled
  BY DEF UInv, SuccessNamesInstalled
<1> QED
  BY <1>1, UInvHolds, PTL

(* There is always a binary to start and one to go back to. *)
THEOREM BinariesAlwaysSafe == UpdateSpec => []BinariesSafe
<1>1. BinaryInPlace /\ OldBinaryRecoverable => BinariesSafe
  BY DEF BinariesSafe
<1> QED
  BY <1>1, BinaryAlwaysInPlace, OldBinaryIsRecoverable, PTL

(* Reported results are so. *)
THEOREM ResultsAreTrue == UpdateSpec => []ResultTellsInstalled
<1>1. FailedApplyKeepsBinary /\ SuccessNamesInstalled => ResultTellsInstalled
  BY DEF ResultTellsInstalled
<1> QED
  BY <1>1, FailedApplyChangesNothing, SuccessIsInstalled, PTL

-----------------------------------------------------------------------------
(* Only a swap and a rollback are visible to AtomicUpdate. *)
LEMMA StepAtomic == UInv /\ [UpdateNext]_updateVars => [Atomic!Next]_(Atomic!vars)
<1> SUFFICES ASSUME UInv, [UpdateNext]_updateVars PROVE [Atomic!Next]_(Atomic!vars)
  OBVIOUS
<1> USE FileAssumption DEF UInv, Atomic!vars, files
<1>1. CASE Swap
  <2>1. Atomic!Install(info)
    BY <1>1 DEF Swap, Atomic!Install
  <2> QED
    BY <2>1 DEF Atomic!Next, UpdateTypeOK
<1>2. CASE Rollback
  <2>1. Atomic!Restore
    BY <1>2 DEF Rollback, Atomic!Restore
  <2> QED
    BY <2>1 DEF Atomic!Next
<1>3. CASE SwapFails
  BY <1>3 DEF SwapFails
<1>4. CASE UNCHANGED <<current, prior>>
  BY <1>4
<1>5. UpdateNext => Swap \/ Rollback \/ SwapFails \/ UNCHANGED <<current, prior>>
  BY DEF UpdateNext, Service, Publish, Check, CheckFinds, CheckFindsNothing, CheckFails, NothingFound,
         Apply, Downloaded, DownloadFails, Verify, VerifyFails, Stage, StageFails, CopyBegins, CopyEnds, CopyFails,
         HealthPasses, HealthRetries, HealthFails, RollbackFails, Disconnect, ProcessRestarts, Finish
<1> QED
  BY <1>1, <1>2, <1>3, <1>4, <1>5 DEF updateVars

(* The update service implements AtomicUpdate. *)
THEOREM UpdateImplementsAtomic == UpdateSpec => ImplementsAtomicUpdate
<1>1. UpdateInit => Atomic!Init
  BY ReleaseAssumption DEF UpdateInit, Atomic!Init, Releases
<1> QED
  BY <1>1, StepAtomic, UInvHolds, PTL DEF UpdateSpec, ImplementsAtomicUpdate, Atomic!Spec
=============================================================================
