-------------------------- MODULE FileCaptureProofs --------------------------
(***************************************************************************)
(* For any number of callers, captures, viewers and users of a handle: a    *)
(* stopped file handle does nothing more, and a snapshot that starts alone  *)
(* is not refused; a source takes one snapshot at a time, by one command at *)
(* a time.                                                                  *)
(***************************************************************************)
EXTENDS MCFileCapture, SequenceTheorems, TLAPS

USE CallersAssumption

(* A lone snapshot is past its start and holds the lock; nothing was left   *)
(* behind when it started, and while it has the lock nobody leaves anything.*)
LoneInv ==
    \A c \in lone :
        /\ pc[c] \in {"snap", "stop", "drop"}
        /\ stops = 0 /\ drops = 0
        /\ pc[c] = "snap" => is_running

FileInv == FileTypes /\ LockHeld /\ NothingAfterStop /\ LoneInv

LEMMA FileInvInit == Init => FileInv
<1> SUFFICES ASSUME Init PROVE FileInv
  OBVIOUS
<1> USE DEF Init, HasClone, Nobody, Stopper
<1>1. FileTypes
  BY DEF FileTypes
<1>2. LockHeld
  BY DEF LockHeld
<1>3. NothingAfterStop /\ LoneInv
  BY DEF NothingAfterStop, LoneInv
<1> QED
  BY <1>1, <1>2, <1>3 DEF FileInv

LEMMA CallerKeepsInv ==
    ASSUME FileInv, NEW c \in Callers, Ask(c) \/ Acquire(c) \/ Proceed(c) \/ Cancel(c)
    PROVE  FileInv'
<1> USE DEF FileInv, HasClone, HasHandle, Nobody, Stopper
<1>1. CASE Ask(c)
  <2>1. FileTypes'
    BY <1>1 DEF Ask, Goes, FileTypes
  <2>2. LockHeld'
    BY <1>1 DEF Ask, Goes, FileTypes, LockHeld
  <2>3. NothingAfterStop'
    BY <1>1 DEF Ask, Goes, FileTypes, LockHeld, NothingAfterStop
  <2>4. LoneInv'
    BY <1>1 DEF Ask, Goes, FileTypes, LockHeld, LoneInv
  <2> QED
    BY <2>1, <2>2, <2>3, <2>4
<1>2. CASE Acquire(c)
  <2>1. FileTypes'
    BY <1>2 DEF Acquire, Goes, FileTypes
  <2>2. LockHeld'
    BY <1>2 DEF Acquire, Goes, FileTypes, LockHeld
  <2>3. NothingAfterStop'
    BY <1>2 DEF Acquire, Goes, FileTypes, LockHeld, NothingAfterStop
  <2>4. LoneInv'
    BY <1>2 DEF Acquire, Goes, FileTypes, LockHeld, LoneInv
  <2> QED
    BY <2>1, <2>2, <2>3, <2>4
<1>3. CASE Ensure(c)
  <2>1. FileTypes'
    BY <1>3 DEF Ensure, Goes, FileTypes
  <2>2. LockHeld'
    BY <1>3 DEF Ensure, Goes, FileTypes, LockHeld
  <2>3. NothingAfterStop'
    BY <1>3 DEF Ensure, Goes, FileTypes, LockHeld, NothingAfterStop
  <2>4. LoneInv'
    BY <1>3 DEF Ensure, Goes, FileTypes, LockHeld, LoneInv
  <2> QED
    BY <2>1, <2>2, <2>3, <2>4
<1>4. CASE EnsureFails(c)
  <2>1. FileTypes'
    BY <1>4 DEF EnsureFails, Goes, Release, FileTypes
  <2>2. LockHeld'
    BY <1>4 DEF EnsureFails, Goes, Release, FileTypes, LockHeld
  <2>3. NothingAfterStop'
    BY <1>4 DEF EnsureFails, Goes, Release, FileTypes, LockHeld, NothingAfterStop
  <2>4. LoneInv'
    BY <1>4 DEF EnsureFails, Goes, Release, FileTypes, LockHeld, LoneInv
  <2> QED
    BY <2>1, <2>2, <2>3, <2>4
<1>5. CASE Start(c)
  <2>1. FileTypes'
    BY <1>5 DEF Start, Goes, FileTypes
  <2>2. LockHeld'
    BY <1>5 DEF Start, Goes, FileTypes, LockHeld
  <2>3. NothingAfterStop'
    BY <1>5 DEF Start, Goes, FileTypes, LockHeld, NothingAfterStop
  <2>4. LoneInv'
    BY <1>5 DEF Start, Goes, FileTypes, LockHeld, LoneInv
  <2> QED
    BY <2>1, <2>2, <2>3, <2>4
<1>6. CASE Snap(c)
  <2>1. FileTypes'
    BY <1>6 DEF Snap, Goes, FileTypes
  <2>2. LockHeld'
    BY <1>6 DEF Snap, Goes, FileTypes, LockHeld
  <2>3. NothingAfterStop'
    BY <1>6 DEF Snap, Goes, FileTypes, LockHeld, NothingAfterStop
  <2>4. LoneInv'
    BY <1>6 DEF Snap, Goes, FileTypes, LockHeld, LoneInv
  <2> QED
    BY <2>1, <2>2, <2>3, <2>4
<1>7. CASE StopInner(c)
  <2>1. FileTypes'
    BY <1>7 DEF StopInner, Goes, FileTypes
  <2>2. LockHeld'
    BY <1>7 DEF StopInner, Goes, FileTypes, LockHeld
  <2>3. NothingAfterStop'
    BY <1>7 DEF StopInner, Goes, FileTypes, LockHeld, NothingAfterStop
  <2>4. LoneInv'
    BY <1>7 DEF StopInner, Goes, FileTypes, LockHeld, LoneInv
  <2> QED
    BY <2>1, <2>2, <2>3, <2>4
<1>8. CASE Return(c)
  <2>0. drops' = drops + 1 /\ drops + 1 \in Nat
    BY <1>8 DEF Return, FileTypes
  <2>1. FileTypes'
    BY <1>8, <2>0 DEF Return, Goes, Release, FileTypes
  <2>2. LockHeld'
    BY <1>8 DEF Return, Goes, Release, FileTypes, LockHeld
  <2>3. NothingAfterStop'
    BY <1>8 DEF Return, Goes, Release, FileTypes, LockHeld, NothingAfterStop
  <2>4. LoneInv'
    BY <1>8 DEF Return, Goes, Release, FileTypes, LockHeld, LoneInv
  <2> QED
    BY <2>1, <2>2, <2>3, <2>4
<1>9. CASE (SnapRefused(c) \/ Cancel(c))
  <2>1. Leave(c) /\ pc[c] # "idle"
    BY <1>9 DEF SnapRefused, Cancel
  <2>2. FileTypes'
    BY <2>1 DEF Leave, Goes, Release, FileTypes
  <2>3. LockHeld'
    BY <2>1 DEF Leave, Goes, Release, FileTypes, LockHeld
  <2>4. NothingAfterStop'
    BY <2>1 DEF Leave, Goes, Release, FileTypes, NothingAfterStop
  <2>5. ASSUME NEW e \in lone, e # c PROVE holder = e /\ pc[c] = "lock"
    BY <2>1, <2>5 DEF FileTypes, LockHeld, LoneInv
  <2>6. LoneInv'
    BY <2>1, <2>5 DEF Leave, Goes, Release, FileTypes, LoneInv
  <2> QED
    BY <2>2, <2>3, <2>4, <2>6
<1> QED
  BY <1>1, <1>2, <1>3, <1>4, <1>5, <1>6, <1>7, <1>8, <1>9 DEF Proceed

LEMMA StopperKeepsInv ==
    ASSUME FileInv, StopAsked \/ StopAcquires \/ StopProceeds \/ StopCancelled
    PROVE  FileInv'
<1> USE DEF FileInv, HasClone, Nobody, Stopper
<1>1. CASE StopAsked
  <2>1. FileTypes'
    BY <1>1 DEF StopAsked, FileTypes
  <2>2. LockHeld'
    BY <1>1 DEF StopAsked, FileTypes, LockHeld
  <2>3. NothingAfterStop'
    BY <1>1 DEF StopAsked, FileTypes, LockHeld, NothingAfterStop
  <2>4. LoneInv'
    BY <1>1 DEF StopAsked, FileTypes, LockHeld, LoneInv
  <2> QED
    BY <2>1, <2>2, <2>3, <2>4
<1>2. CASE StopAcquires
  <2>1. FileTypes'
    BY <1>2 DEF StopAcquires, FileTypes
  <2>2. LockHeld'
    BY <1>2 DEF StopAcquires, FileTypes, LockHeld
  <2>3. NothingAfterStop'
    BY <1>2 DEF StopAcquires, FileTypes, LockHeld, NothingAfterStop
  <2>4. LoneInv'
    BY <1>2 DEF StopAcquires, FileTypes, LockHeld, LoneInv
  <2> QED
    BY <2>1, <2>2, <2>3, <2>4
<1>3. CASE StopStarts
  <2>1. FileTypes'
    BY <1>3 DEF StopStarts, FileTypes
  <2>2. LockHeld'
    BY <1>3 DEF StopStarts, FileTypes, LockHeld
  <2>3. NothingAfterStop'
    BY <1>3 DEF StopStarts, FileTypes, LockHeld, NothingAfterStop
  <2>4. LoneInv'
    BY <1>3 DEF StopStarts, FileTypes, LockHeld, LoneInv
  <2> QED
    BY <2>1, <2>2, <2>3, <2>4
<1>4. CASE StopEnds
  <2>0. drops' = drops + 1 /\ drops + 1 \in Nat
    BY <1>4 DEF StopEnds, FileTypes
  <2>1. FileTypes'
    BY <1>4, <2>0 DEF StopEnds, Release, FileTypes
  <2>2. LockHeld'
    BY <1>4 DEF StopEnds, Release, FileTypes, LockHeld
  <2>3. NothingAfterStop'
    BY <1>4 DEF StopEnds, Release, FileTypes, LockHeld, NothingAfterStop
  <2>4. LoneInv'
    BY <1>4 DEF StopEnds, Release, FileTypes, LockHeld, LoneInv
  <2> QED
    BY <2>1, <2>2, <2>3, <2>4
<1>5. CASE StopCancelled
  <2>1. FileTypes'
    BY <1>5 DEF StopCancelled, Release, FileTypes
  <2>2. LockHeld'
    BY <1>5 DEF StopCancelled, Release, FileTypes, LockHeld
  <2>3. NothingAfterStop'
    BY <1>5 DEF StopCancelled, Release, FileTypes, LockHeld, NothingAfterStop
  <2>4. LoneInv'
    BY <1>5 DEF StopCancelled, Release, FileTypes, LockHeld, LoneInv
  <2> QED
    BY <2>1, <2>2, <2>3, <2>4
<1> QED
  BY <1>1, <1>2, <1>3, <1>4, <1>5 DEF StopProceeds

LEMMA FileInvNext == FileInv /\ [Next]_vars => FileInv'
<1> SUFFICES ASSUME FileInv, [Next]_vars PROVE FileInv'
  OBVIOUS
<1> USE DEF FileInv, HasClone
<1>1. CASE TaskStops
  <2>0. stops - 1 \in Nat /\ drops + 1 \in Nat
    BY <1>1 DEF TaskStops, FileTypes
  <2>1. FileTypes'
    BY <1>1, <2>0 DEF TaskStops, FileTypes
  <2>2. LockHeld'
    BY <1>1 DEF TaskStops, FileTypes, LockHeld
  <2>3. NothingAfterStop'
    BY <1>1 DEF TaskStops, FileTypes, LockHeld, NothingAfterStop
  <2>4. LoneInv'
    BY <1>1 DEF TaskStops, FileTypes, LockHeld, LoneInv
  <2> QED
    BY <2>1, <2>2, <2>3, <2>4
<1>2. CASE TaskDrops
  <2>0. drops - 1 \in Nat
    BY <1>2 DEF TaskDrops, FileTypes
  <2>1. FileTypes'
    BY <1>2, <2>0 DEF TaskDrops, FileTypes
  <2>2. LockHeld'
    BY <1>2 DEF TaskDrops, FileTypes, LockHeld
  <2>3. NothingAfterStop'
    BY <1>2 DEF TaskDrops, FileTypes, LockHeld, NothingAfterStop
  <2>4. LoneInv'
    BY <1>2 DEF TaskDrops, FileTypes, LockHeld, LoneInv
  <2> QED
    BY <2>1, <2>2, <2>3, <2>4
<1>3. CASE Monitor
  <2>1. FileTypes'
    BY <1>3 DEF Monitor, MonitorChecks, MonitorTicks, FileTypes
  <2>2. LockHeld'
    BY <1>3 DEF Monitor, MonitorChecks, MonitorTicks, FileTypes, LockHeld
  <2>3. NothingAfterStop'
    BY <1>3 DEF Monitor, MonitorChecks, MonitorTicks, FileTypes, LockHeld, NothingAfterStop
  <2>4. LoneInv'
    BY <1>3 DEF Monitor, MonitorChecks, MonitorTicks, FileTypes, LockHeld, LoneInv
  <2> QED
    BY <2>1, <2>2, <2>3, <2>4
<1>4. CASE UNCHANGED vars
  <2>1. FileTypes'
    BY <1>4 DEF vars, FileTypes
  <2>2. LockHeld'
    BY <1>4 DEF vars, FileTypes, LockHeld
  <2>3. NothingAfterStop'
    BY <1>4 DEF vars, FileTypes, LockHeld, NothingAfterStop
  <2>4. LoneInv'
    BY <1>4 DEF vars, FileTypes, LockHeld, LoneInv
  <2> QED
    BY <2>1, <2>2, <2>3, <2>4
<1> QED
  BY <1>1, <1>2, <1>3, <1>4, CallerKeepsInv, StopperKeepsInv DEF Next, Leftover

(* The types, and that the lock is held by whoever is past taking it.       *)
THEOREM FileTypeCorrect == Spec => []FileTypeOK
<1>1. FileInv => FileTypeOK
  BY DEF FileInv, FileTypeOK
<1> QED
  BY <1>1, FileInvInit, FileInvNext, PTL DEF Spec

(* A stopped handle starts nothing, and only what earlier snapshots left    *)
(* behind can refuse one.                                                   *)
THEOREM HandleIsSound == Spec => []HandleSound
<1>1. FileInv => HandleSound
  BY DEF FileInv, LoneInv, HandleSound, LoneSnapshotSucceeds
<1> QED
  BY <1>1, FileInvInit, FileInvNext, PTL DEF Spec

-----------------------------------------------------------------------------
(* The detection of an acceleration.                                         *)

Selectable == Accels \cup {"None"}

(* Sequences of accelerations, with what is in them and what comes first. *)
Found(s, among, head) ==
    /\ s \in Seq(Selectable) /\ Range(s) = among
    /\ s = <<>> <=> among = {}
    /\ s # <<>> => s[1] = head

LEMMA RangeOfOne == ASSUME NEW a PROVE Range(<<a>>) = {a}
<1>1. DOMAIN <<a>> = {1} /\ <<a>>[1] = a
  OBVIOUS
<1> QED
  BY <1>1 DEF Range

LEMMA RangeOfNone == Range(<<>>) = {}
<1>1. DOMAIN <<>> = {}
  OBVIOUS
<1> QED
  BY <1>1 DEF Range

LEMMA OneFound ==
    ASSUME NEW accel \in Selectable, NEW works
    PROVE  Found(Probed(accel, works), works \cap {accel}, accel)
<1>1. CASE accel \in works
  <2>1. Probed(accel, works) = <<accel>> /\ works \cap {accel} = {accel}
    BY <1>1 DEF Probed
  <2>2. <<accel>> \in Seq(Selectable) /\ <<accel>> # <<>> /\ <<accel>>[1] = accel
    OBVIOUS
  <2> QED
    BY <2>1, <2>2, RangeOfOne DEF Found
<1>2. CASE accel \notin works
  <2>1. Probed(accel, works) = <<>> /\ works \cap {accel} = {}
    BY <1>2 DEF Probed
  <2>2. <<>> \in Seq(Selectable)
    OBVIOUS
  <2> QED
    BY <2>1, <2>2, RangeOfNone DEF Found
<1> QED
  BY <1>1, <1>2

LEMMA MoreFound ==
    ASSUME NEW s, NEW t, NEW a, NEW b, NEW x, NEW y, Found(s, a, x), Found(t, b, y)
    PROVE  Found(s \o t, a \cup b, IF a = {} THEN y ELSE x)
<1>1. s \in Seq(Selectable) /\ t \in Seq(Selectable)
  BY DEF Found
<1>2. /\ s \o t \in Seq(Selectable)
      /\ s \o t = <<>> <=> s = <<>> /\ t = <<>>
      /\ Range(s \o t) = Range(s) \cup Range(t)
  BY <1>1, ConcatProperties, ConcatEqualIffEmpty, RangeConcatenation
<1>3. s = <<>> => s \o t = t
  BY <1>1, ConcatEmptySeq
<1>4. s # <<>> => (s \o t)[1] = s[1]
  <2>1. Len(s) \in Nat /\ Len(t) \in Nat /\ (s # <<>> => Len(s) >= 1)
    BY <1>1, EmptySeq, LenProperties
  <2> QED
    BY <1>1, <2>1, ConcatProperties
<1> QED
  BY <1>2, <1>3, <1>4 DEF Found

(* What a detection finds, and what it prefers: the first it has found. *)
LEMMA Detected ==
    ASSUME NEW platform \in {"macos", "linux", "windows", "unknown"}, NEW works \in SUBSET Accels
    PROVE  /\ Range(DetectCapabilities(platform, works).available) =
                {"None"} \cup (works \cap Range(Ranking(platform)))
           /\ IF works \cap Range(Ranking(platform)) = {}
              THEN DetectCapabilities(platform, works).preferred = "None"
              ELSE \E i \in DOMAIN Ranking(platform) :
                     /\ DetectCapabilities(platform, works).preferred = Ranking(platform)[i]
                     /\ Ranking(platform)[i] \in works
                     /\ \A j \in 1..(i - 1) : Ranking(platform)[j] \notin works
<1> DEFINE caps == DetectCapabilities(platform, works)
           order == Ranking(platform)
           found == Probe(platform, works)
           usable == works \cap Range(order)
<1>1. /\ caps.available = <<"None">> \o found
      /\ caps.preferred = IF found = <<>> THEN "None" ELSE found[1]
  BY DEF DetectCapabilities
<1> HIDE DEF caps
<1>2. \E first : /\ Found(found, usable, first)
                 /\ usable = {} \/ \E i \in DOMAIN order : /\ first = order[i] /\ order[i] \in works
                                                           /\ \A j \in 1..(i - 1) : order[j] \notin works
  <2>0. \A a \in Selectable : Found(Probed(a, works), works \cap {a}, a)
    BY OneFound
  <2>s. /\ "Vaapi" \in Selectable /\ "Cuda" \in Selectable /\ "Qsv" \in Selectable
        /\ "VideoToolbox" \in Selectable
    BY DEF Selectable, Accels
  <2>1. CASE platform = "linux"
    <3>1. order = <<"Vaapi", "Cuda", "Qsv">>
      BY <2>1 DEF Ranking
    <3>2. usable = ((works \cap {"Vaapi"}) \cup (works \cap {"Cuda"})) \cup (works \cap {"Qsv"})
      BY <3>1 DEF Range
    <3> DEFINE first == IF (works \cap {"Vaapi"}) \cup (works \cap {"Cuda"}) = {} THEN "Qsv"
                        ELSE IF works \cap {"Vaapi"} = {} THEN "Cuda" ELSE "Vaapi"
    <3>3. Found(found, usable, first)
      <4>1. found = (Probed("Vaapi", works) \o Probed("Cuda", works)) \o Probed("Qsv", works)
        BY <2>1 DEF Probe
      <4> HIDE DEF found, usable
      <4>2. /\ Found(Probed("Vaapi", works), works \cap {"Vaapi"}, "Vaapi")
            /\ Found(Probed("Cuda", works), works \cap {"Cuda"}, "Cuda")
            /\ Found(Probed("Qsv", works), works \cap {"Qsv"}, "Qsv")
        BY <2>0, <2>s
      <4>3. Found(Probed("Vaapi", works) \o Probed("Cuda", works),
                  (works \cap {"Vaapi"}) \cup (works \cap {"Cuda"}),
                  IF works \cap {"Vaapi"} = {} THEN "Cuda" ELSE "Vaapi")
        BY <4>2, MoreFound
      <4>4. Found(found, ((works \cap {"Vaapi"}) \cup (works \cap {"Cuda"})) \cup (works \cap {"Qsv"}), first)
        BY <4>1, <4>2, <4>3, MoreFound
      <4> QED
        BY <3>2, <4>4
    <3>4. CASE "Vaapi" \in works
      <4>1. 1 \in DOMAIN order /\ first = order[1] /\ \A j \in 1..(1 - 1) : order[j] \notin works
        BY <3>1, <3>4
      <4> QED
        BY <3>1, <3>3, <3>4, <4>1
    <3>5. CASE "Vaapi" \notin works /\ "Cuda" \in works
      <4>1. 2 \in DOMAIN order /\ first = order[2] /\ \A j \in 1..(2 - 1) : order[j] \notin works
        BY <3>1, <3>5
      <4> QED
        BY <3>1, <3>3, <3>5, <4>1
    <3>6. CASE "Vaapi" \notin works /\ "Cuda" \notin works /\ "Qsv" \in works
      <4>1. 3 \in DOMAIN order /\ first = order[3] /\ \A j \in 1..(3 - 1) : order[j] \notin works
        BY <3>1, <3>6
      <4> QED
        BY <3>1, <3>3, <3>6, <4>1
    <3>7. CASE "Vaapi" \notin works /\ "Cuda" \notin works /\ "Qsv" \notin works
      BY <3>2, <3>3, <3>7
    <3> QED
      BY <3>4, <3>5, <3>6, <3>7
  <2>2. CASE platform = "windows"
    <3>1. order = <<"Qsv", "Cuda">>
      BY <2>2 DEF Ranking
    <3>2. usable = (works \cap {"Qsv"}) \cup (works \cap {"Cuda"})
      BY <3>1 DEF Range
    <3> DEFINE first == IF works \cap {"Qsv"} = {} THEN "Cuda" ELSE "Qsv"
    <3>3. Found(found, usable, first)
      <4>1. found = Probed("Qsv", works) \o Probed("Cuda", works)
        BY <2>2 DEF Probe
      <4> HIDE DEF found, usable
      <4>2. /\ Found(Probed("Cuda", works), works \cap {"Cuda"}, "Cuda")
            /\ Found(Probed("Qsv", works), works \cap {"Qsv"}, "Qsv")
        BY <2>0, <2>s
      <4>3. Found(found, (works \cap {"Qsv"}) \cup (works \cap {"Cuda"}), first)
        BY <4>1, <4>2, MoreFound
      <4> QED
        BY <3>2, <4>3
    <3>4. CASE "Qsv" \in works
      <4>1. 1 \in DOMAIN order /\ first = order[1] /\ \A j \in 1..(1 - 1) : order[j] \notin works
        BY <3>1, <3>4
      <4> QED
        BY <3>1, <3>3, <3>4, <4>1
    <3>5. CASE "Qsv" \notin works /\ "Cuda" \in works
      <4>1. 2 \in DOMAIN order /\ first = order[2] /\ \A j \in 1..(2 - 1) : order[j] \notin works
        BY <3>1, <3>5
      <4> QED
        BY <3>1, <3>3, <3>5, <4>1
    <3>6. CASE "Qsv" \notin works /\ "Cuda" \notin works
      BY <3>2, <3>3, <3>6
    <3> QED
      BY <3>4, <3>5, <3>6
  <2>3. CASE platform = "macos"
    <3>1. order = <<"VideoToolbox">> /\ found = Probed("VideoToolbox", works)
      BY <2>3 DEF Ranking, Probe
    <3>2. usable = works \cap {"VideoToolbox"}
      BY <3>1 DEF Range
    <3>3. Found(found, usable, "VideoToolbox")
      <4>1. Found(Probed("VideoToolbox", works), works \cap {"VideoToolbox"}, "VideoToolbox")
        BY <2>0, <2>s
      <4> QED
        BY <3>1, <3>2, <4>1, Zenon
    <3>4. 1 \in DOMAIN order /\ order[1] = "VideoToolbox" /\ \A j \in 1..(1 - 1) : order[j] \notin works
      BY <3>1
    <3> QED
      BY <3>2, <3>3, <3>4
  <2>4. CASE platform = "unknown"
    <3>1. order = <<>> /\ found = <<>>
      BY <2>4 DEF Ranking, Probe
    <3> QED
      BY <3>1 DEF Found, Range
  <2> QED
    BY <2>1, <2>2, <2>3, <2>4
<1> HIDE DEF found, order
<1>3. PICK first : /\ Found(found, usable, first)
                   /\ usable = {} \/ \E i \in DOMAIN order : /\ first = order[i] /\ order[i] \in works
                                                             /\ \A j \in 1..(i - 1) : order[j] \notin works
  BY <1>2
<1>4. Range(caps.available) = {"None"} \cup usable
  <2>1. <<"None">> \in Seq(Selectable) /\ Range(<<"None">>) = {"None"}
    <3>1. "None" \in Selectable
      BY DEF Selectable
    <3> QED
      BY <3>1, RangeOfOne
  <2>2. found \in Seq(Selectable) /\ Range(found) = usable
    BY <1>3 DEF Found
  <2> HIDE DEF usable
  <2> DEFINE one == <<"None">>
  <2>3. one \in Seq(Selectable)
    BY <2>1
  <2> HIDE DEF one
  <2>4. Range(one \o found) = Range(one) \cup Range(found)
    BY <2>2, <2>3, RangeConcatenation
  <2> QED
    BY <1>1, <2>1, <2>2, <2>4, Zenon DEF one
<1> HIDE DEF usable
<1>5. IF usable = {} THEN caps.preferred = "None" ELSE caps.preferred = first
  BY <1>1, <1>3 DEF Found
<1> QED
  BY <1>3, <1>4, <1>5 DEF caps, order, usable

(* The selection uses what works, the preferred if it does (hardware_accel.rs). *)
THEOREM AccelIsSelected == AccelSelected
<1>1. ASSUME NEW platform \in {"macos", "linux", "windows", "unknown"}, NEW works \in SUBSET Accels
      PROVE  LET caps == DetectCapabilities(platform, works)
                 usable == works \cap Range(Ranking(platform))
             IN /\ \A p \in usable : SelectBest(caps, p) = p
                /\ \A p \in ({"any"} \cup Accels) \ usable :
                     LET chosen == SelectBest(caps, p)
                     IN IF usable = {} THEN chosen = "None"
                        ELSE \E i \in DOMAIN Ranking(platform) :
                                /\ chosen = Ranking(platform)[i] /\ chosen \in usable
                                /\ \A j \in 1..(i - 1) : Ranking(platform)[j] \notin usable
  <2> DEFINE caps == DetectCapabilities(platform, works)
             order == Ranking(platform)
             usable == works \cap Range(order)
  <2>1. Range(caps.available) = {"None"} \cup usable
    BY Detected
  <2>2. IF usable = {} THEN caps.preferred = "None"
        ELSE \E i \in DOMAIN order : /\ caps.preferred = order[i] /\ order[i] \in works
                                      /\ \A j \in 1..(i - 1) : order[j] \notin works
    BY Detected
  <2>3. \A i \in DOMAIN order : order[i] \in Range(order)
    BY DEF Range
  <2>4. usable \subseteq Accels /\ "any" \notin Accels /\ "None" \notin Accels
    BY DEF Accels
  <2> HIDE DEF caps, order
  <2>6. caps.preferred \in {"None"} \cup usable
    BY <2>2, <2>3
  <2>7. \A p \in usable : SelectBest(caps, p) = p
    BY <2>1, <2>4 DEF SelectBest, Supports
  <2>8. \A p \in ({"any"} \cup Accels) \ usable : SelectBest(caps, p) = caps.preferred
    BY <2>1, <2>4, <2>6 DEF SelectBest, Supports
  <2>9. IF usable = {} THEN caps.preferred = "None"
        ELSE \E i \in DOMAIN order : /\ caps.preferred = order[i] /\ caps.preferred \in usable
                                      /\ \A j \in 1..(i - 1) : order[j] \notin usable
    BY <2>2, <2>3
  <2> HIDE DEF usable
  <2> QED
    BY <2>7, <2>8, <2>9 DEF caps, order, usable
<1> QED
  BY <1>1 DEF AccelSelected

-----------------------------------------------------------------------------
(* The command and browser sources.                                          *)

USE SourcesAssumption DEF SourcesAssumption

Output == {Nothing, <<Image(1)>>, <<Text(1)>>, <<Wide(OutputLimit)>>}
Commands == [at : {"none", "running", "killed", "ended"}, ok : BOOLEAN, lines : Output]
Steps == {"idle", "lock", "url", "frame", "remove", "drive"}
Answers == {"nothing", "image", "blank", "error"}

HandleInv ==
    /\ command \in [Users \cup {Opener} -> Commands]
    /\ command[Opener].at # "none" => session = "opening" /\ source \in {"ffmpeg", "yt_dlp"}
    /\ closing = "lock" => session \in {"Running", "Stopped"}
    /\ closing = "quit" => gate = Closer
    /\ client = "closed" => session = "Stopped"

(* Nobody asks before the handle is there; a child is a working snapshot's. *)
UserInv(u) ==
    /\ session \in {"none", "opening"} => step[u] = "idle"
    /\ command[u].at # "none" => step[u] \in {"url", "frame"}

SourcesInv == SourcesTypeOK /\ HandleInv /\ OneAtATime /\ \A u \in Users : UserInv(u)

(* How a snapshot that is not touched by a step stands afterwards. *)
LEMMA UserKept ==
    ASSUME NEW v \in Users, UserInv(v), step'[v] = step[v], command'[v] = command[v],
           session' = session \/ session' \notin {"none", "opening"}
    PROVE  UserInv(v)'
  BY DEF UserInv

LEMMA CommandsOK ==
    /\ NoCommand \in Commands /\ NoCommand.at = "none"
    /\ Running \in Commands /\ Running.at = "running"
    /\ \A result \in [ok : BOOLEAN, lines : Output] : Ended(result) \in Commands
<1>1. Running.at = "running" /\ NoCommand.at = "none"
  BY DEF Running, NoCommand
<1>2. NoCommand \in Commands /\ Running \in Commands
  BY DEF Running, NoCommand, Commands, Output
<1>3. ASSUME NEW result \in [ok : BOOLEAN, lines : Output]
      PROVE  Ended(result) \in Commands
  <2>1. result.ok \in BOOLEAN /\ result.lines \in Output
    OBVIOUS
  <2>2. [at |-> "ended", ok |-> result.ok, lines |-> result.lines] \in Commands
    BY <2>1, Zenon DEF Commands
  <2> QED
    BY <2>2 DEF Ended
<1> QED
  BY <1>1, <1>2, <1>3

(* What a user, or the opener, can be told by its command. *)
LEMMA OutcomesOK ==
    ASSUME NEW x, NEW result \in Outcomes(x)
    PROVE  result \in [ok : BOOLEAN, lines : Output]
<1>1. ASSUME NEW lines \in Output, NEW out \in Prints(lines)
      PROVE  out \in [ok : BOOLEAN, lines : Output]
  <2>1. Nothing \in Output
    BY DEF Output
  <2>2. CASE out = [ok |-> FALSE, lines |-> Nothing]
    BY <2>1, <2>2
  <2>3. CASE out = [ok |-> TRUE, lines |-> Nothing]
    BY <2>1, <2>3
  <2>4. CASE out = [ok |-> TRUE, lines |-> lines]
    BY <1>1, <2>4
  <2> QED
    BY <1>1, <2>2, <2>3, <2>4 DEF Prints, Fails
<1>2. /\ <<Image(1)>> \in Output /\ <<Text(1)>> \in Output /\ <<Wide(OutputLimit)>> \in Output
      /\ Nothing \in Output
  BY DEF Output
<1>3. Fails \in Prints(Nothing) /\ [ok |-> TRUE, lines |-> Nothing] \in Prints(Nothing)
  BY DEF Prints
<1>4. \E lines \in Output : result \in Prints(lines)
  BY <1>2, <1>3 DEF Outcomes, SnapshotOutcomes, ValidateOutcomes, TextOutcomes, FileOutcomes
<1> QED
  BY <1>1, <1>4

LEMMA SourcesInvInit == SourcesInit => SourcesInv
<1> SUFFICES ASSUME SourcesInit PROVE SourcesInv
  OBVIOUS
<1> USE DEF SourcesInit
<1>1. SourcesTypeOK
  BY DEF SourcesTypeOK
<1>2. HandleInv
  BY CommandsOK DEF HandleInv
<1>3. OneAtATime
  BY DEF OneAtATime
<1>4. ASSUME NEW u \in Users PROVE UserInv(u)
  BY CommandsOK DEF UserInv
<1> QED
  BY <1>1, <1>2, <1>3, <1>4 DEF SourcesInv

-----------------------------------------------------------------------------
LEMMA OpeningKeeps ==
    ASSUME SourcesInv, BeginOpen \/ Opened \/ OpenFails \/ BrowserOpens
    PROVE  SourcesInv'
<1>0. SourcesTypeOK /\ HandleInv /\ OneAtATime /\ \A u \in Users : UserInv(u)
  BY DEF SourcesInv
<1>1. session \in {"none", "opening"} /\ SnapshotsStay /\ source' = source /\ closing' = closing
  BY DEF BeginOpen, Opened, OpenFails, BrowserOpens
<1>2. \A u \in Users : step[u] = "idle" /\ Opener # u
  BY <1>0, <1>1 DEF UserInv
<1>3. /\ session' \in {"none", "opening", "Running"}
      /\ client' \in {"none", "driver", "mock"} \/ client' = client
  BY DEF BeginOpen, Opened, OpenFails, BrowserOpens
<1>4. /\ command' \in [Users \cup {Opener} -> Commands]
      /\ \A u \in Users : command'[u] = command[u]
  BY <1>0, <1>2, CommandsOK DEF BeginOpen, Opened, OpenFails, BrowserOpens, HandleInv, Launch, Forget
<1>5. command'[Opener].at # "none" => session' = "opening" /\ source' \in {"ffmpeg", "yt_dlp"}
  <2>1. CASE BeginOpen
    <3>1. command[Opener].at = "none"
      BY <1>0, <2>1 DEF BeginOpen, HandleInv
    <3> QED
      BY <1>1, <2>1, <3>1 DEF BeginOpen
  <2>2. CASE Opened \/ OpenFails
    <3>1. command' = [command EXCEPT ![Opener] = NoCommand]
      BY <2>2 DEF Opened, OpenFails, Forget
    <3>2. command'[Opener] = NoCommand
      BY <1>0, <3>1 DEF HandleInv
    <3> QED
      BY <3>2, CommandsOK
  <2>3. CASE BrowserOpens
    BY <1>0, <2>3 DEF BrowserOpens, HandleInv
  <2> QED
    BY <2>1, <2>2, <2>3
<1>6. SourcesTypeOK'
  BY <1>0, <1>1, <1>3, <1>4 DEF SourcesTypeOK, SnapshotsStay
<1>7. HandleInv'
  BY <1>0, <1>1, <1>3, <1>4, <1>5 DEF HandleInv, SnapshotsStay
<1>8. OneAtATime'
  BY <1>1, <1>2 DEF OneAtATime, SnapshotsStay
<1>9. ASSUME NEW u \in Users PROVE UserInv(u)'
  BY <1>0, <1>1, <1>2, <1>4 DEF UserInv, SnapshotsStay
<1> QED
  BY <1>6, <1>7, <1>8, <1>9 DEF SourcesInv

LEMMA ClosingKeeps ==
    ASSUME SourcesInv, Close \/ CloseTakes \/ CloseEnds \/ ThreadEnds
    PROVE  SourcesInv'
<1>0. SourcesTypeOK /\ HandleInv /\ OneAtATime /\ \A u \in Users : UserInv(u)
  BY DEF SourcesInv
<1>1. /\ source' = source /\ step' = step /\ got' = got /\ command' = command /\ temp' = temp
  BY DEF Close, CloseTakes, CloseEnds, ThreadEnds, SnapshotsStay, SessionStays
<1>2. /\ session' = session \/ session' = "Stopped"
      /\ client' = client \/ client' = "closed"
      /\ gate' \in Users \cup {Closer, NoUser} /\ closing' \in {"idle", "lock", "quit"}
  BY <1>0 DEF Close, CloseTakes, CloseEnds, ThreadEnds, SnapshotsStay, SessionStays, SourcesTypeOK
<1>3. SourcesTypeOK'
  <2>1. CASE left' = left
    BY <1>0, <1>1, <1>2, <2>1 DEF SourcesTypeOK
  <2>2. CASE ThreadEnds
    <3>1. left' \in Nat
      BY <1>0, <2>2 DEF ThreadEnds, SourcesTypeOK
    <3> QED
      BY <1>0, <1>1, <1>2, <3>1 DEF SourcesTypeOK
  <2> QED
    BY <2>1, <2>2 DEF Close, CloseTakes, CloseEnds, SnapshotsStay
<1>4. HandleInv'
  <2>1. session = "opening" => session' = "opening"
    BY <1>0 DEF HandleInv, Close, CloseTakes, CloseEnds, ThreadEnds, SessionStays
  <2> QED
    BY <1>0, <1>1, <2>1 DEF HandleInv, Close, CloseTakes, CloseEnds, ThreadEnds, SnapshotsStay, SessionStays
<1>5. OneAtATime'
  <2>1. CASE Close \/ ThreadEnds
    BY <1>0, <2>1 DEF OneAtATime, WithHandle, Close, ThreadEnds, SnapshotsStay, SessionStays
  <2>2. CASE CloseTakes
    BY <1>0, <1>1, <2>2 DEF OneAtATime, WithHandle, CloseTakes
  <2>3. CASE CloseEnds
    BY <1>0, <1>1, <2>3 DEF OneAtATime, WithHandle, CloseEnds, HandleInv
  <2> QED
    BY <2>1, <2>2, <2>3
<1>6. ASSUME NEW u \in Users PROVE UserInv(u)'
  BY <1>0, <1>1, <1>2, UserKept
<1> QED
  BY <1>3, <1>4, <1>5, <1>6 DEF SourcesInv

-----------------------------------------------------------------------------
Working(u) == step[u] \notin {"idle", "lock"}

(* A step of one user, or of the child it waits for. *)
LEMMA UserStep ==
    ASSUME SourcesInv, SessionStays, NEW u \in Users,
           step' \in [Users -> Steps], got' \in [Users -> Answers], temp' \in [Users -> BOOLEAN],
           command' \in [Users \cup {Opener} -> Commands],
           \A v \in Users \ {u} : step'[v] = step[v],
           \A x \in (Users \cup {Opener}) \ {u} : command'[x] = command[x],
           left' \in Nat,
           gate' = gate \/ (gate' = u /\ gate = NoUser) \/ (gate' = NoUser /\ gate = u),
           WithHandle /\ Working(u)' => gate' = u /\ session = "Running" /\ client # "closed",
           UserInv(u)'
    PROVE  SourcesInv'
<1>0. SourcesTypeOK /\ HandleInv /\ OneAtATime /\ \A v \in Users : UserInv(v)
  BY DEF SourcesInv
<1>1. /\ source' = source /\ session' = session /\ closing' = closing /\ client' = client
  BY DEF SessionStays
<1>2. SourcesTypeOK'
  BY <1>0, <1>1 DEF SourcesTypeOK, Steps, Answers
<1>3. HandleInv'
  <2>1. Closer # u /\ Opener # u /\ Closer # NoUser
    BY DEF Closer, NoUser
  <2> QED
    BY <1>0, <1>1, <2>1 DEF HandleInv
<1>4. OneAtATime'
  <2>1. ASSUME NEW v \in Users, v # u, WithHandle, Working(v)'
        PROVE  gate' = v /\ session = "Running" /\ client # "closed"
    BY <1>0, <2>1 DEF OneAtATime, Working
  <2> QED
    BY <1>1, <2>1 DEF OneAtATime, WithHandle, Working
<1>5. ASSUME NEW v \in Users PROVE UserInv(v)'
  <2>1. CASE v = u
    BY <2>1
  <2>2. CASE v # u
    BY <1>0, <1>1, <2>2, UserKept
  <2> QED
    BY <2>1, <2>2
<1> QED
  BY <1>2, <1>3, <1>4, <1>5 DEF SourcesInv

(* A child ends, or its time is up. *)
LEMMA ChildKeeps ==
    ASSUME SourcesInv, NEW x \in Users \cup {Opener}, ChildEnds(x)
    PROVE  SourcesInv'
<1>0. SourcesTypeOK /\ HandleInv /\ OneAtATime /\ \A v \in Users : UserInv(v)
  BY DEF SourcesInv
<1>1. /\ SessionStays /\ gate' = gate /\ step' = step /\ got' = got /\ left' = left
      /\ \A y \in (Users \cup {Opener}) \ {x} : command'[y] = command[y]
  BY <1>0 DEF ChildEnds, Exits, TimesOut, Dies, SnapshotsStay, HandleInv
<1>2. temp' \in [Users -> BOOLEAN]
  <2>1. temp' = temp \/ \E written \in BOOLEAN : temp' = [temp EXCEPT ![x] = written]
    BY DEF ChildEnds, Exits, TimesOut, Dies, SnapshotsStay
  <2> QED
    BY <1>0, <2>1 DEF SourcesTypeOK
<1>3. command' \in [Users \cup {Opener} -> Commands]
  <2>0. command \in [Users \cup {Opener} -> Commands] /\ command[x] \in Commands
    BY <1>0 DEF HandleInv
  <2>1. CASE Exits(x)
    <3>1. PICK result \in Outcomes(x) : command' = [command EXCEPT ![x] = Ended(result)]
      BY <2>1 DEF Exits
    <3>2. Ended(result) \in Commands
      BY OutcomesOK, CommandsOK
    <3> QED
      BY <2>0, <3>1, <3>2
  <2>2. CASE TimesOut(x)
    <3>1. command' = [command EXCEPT ![x] = [command[x] EXCEPT !.at = "killed"]]
      BY <2>2 DEF TimesOut
    <3>2. [command[x] EXCEPT !.at = "killed"] \in Commands
      BY <2>0 DEF Commands
    <3> QED
      BY <2>0, <3>1, <3>2
  <2>3. CASE Dies(x)
    <3>1. command' = [command EXCEPT ![x] = Ended(Fails)]
      BY <2>3 DEF Dies
    <3>2. Fails \in [ok : BOOLEAN, lines : Output]
      BY DEF Fails, Output
    <3> QED
      BY <2>0, <3>1, <3>2, CommandsOK
  <2> QED
    BY <2>1, <2>2, <2>3 DEF ChildEnds
<1>4. command[x].at # "none"
  BY DEF ChildEnds, Exits, TimesOut, Dies
<1>5. CASE x \in Users
  <2>1. UserInv(x)'
    BY <1>0, <1>1, <1>4, <1>5 DEF UserInv, SessionStays
  <2>2. WithHandle /\ Working(x)' => gate' = x /\ session = "Running" /\ client # "closed"
    BY <1>0, <1>1, <1>5 DEF OneAtATime, Working
  <2>3. step' \in [Users -> Steps] /\ got' \in [Users -> Answers] /\ left' \in Nat
    BY <1>0, <1>1 DEF SourcesTypeOK, Steps, Answers
  <2>4. \A v \in Users \ {x} : step'[v] = step[v]
    BY <1>1
  <2> QED
    BY <1>1, <1>2, <1>3, <1>5, <2>1, <2>2, <2>3, <2>4, UserStep
<1>6. CASE x = Opener
  <2>1. \A v \in Users : command'[v] = command[v]
    BY <1>1, <1>6
  <2>2. SourcesTypeOK'
    BY <1>0, <1>1, <1>2, <1>3 DEF SourcesTypeOK, SessionStays
  <2>3. HandleInv'
    BY <1>0, <1>1, <1>3, <1>4, <1>6 DEF HandleInv, SessionStays
  <2>4. OneAtATime'
    BY <1>0, <1>1 DEF OneAtATime, WithHandle, SessionStays
  <2>5. ASSUME NEW v \in Users PROVE UserInv(v)'
    BY <1>0, <1>1, <2>1, UserKept DEF SessionStays
  <2> QED
    BY <2>2, <2>3, <2>4, <2>5 DEF SourcesInv
<1> QED
  BY <1>5, <1>6

(* A user that goes on with its snapshot, or has begun it. *)
LEMMA GoesOnKeeps ==
    ASSUME SourcesInv, SessionStays, NEW u \in Users, NEW where \in Steps \ {"idle"},
           step' = [step EXCEPT ![u] = where], got' \in [Users -> Answers],
           temp' \in [Users -> BOOLEAN], command' \in [Users \cup {Opener} -> Commands],
           \A x \in (Users \cup {Opener}) \ {u} : command'[x] = command[x],
           left' = left,
           gate' = gate \/ (gate' = u /\ gate = NoUser),
           where # "lock" /\ WithHandle => gate' = u /\ session = "Running" /\ client # "closed",
           session \notin {"none", "opening"},
           command'[u].at # "none" => where \in {"url", "frame"}
    PROVE  SourcesInv'
<1>0. SourcesTypeOK /\ HandleInv /\ OneAtATime /\ \A v \in Users : UserInv(v)
  BY DEF SourcesInv
<1>1. /\ step' \in [Users -> Steps] /\ step'[u] = where /\ left' \in Nat
      /\ \A v \in Users \ {u} : step'[v] = step[v]
  BY <1>0 DEF SourcesTypeOK, Steps
<1>2. UserInv(u)'
  BY <1>1 DEF UserInv, SessionStays
<1>3. WithHandle /\ Working(u)' => gate' = u /\ session = "Running" /\ client # "closed"
  BY <1>1 DEF Working
<1> QED
  BY <1>1, <1>2, <1>3, UserStep

(* A snapshot that is over, or has been left. *)
LEMMA EndsKeeps ==
    ASSUME SourcesInv, SessionStays, NEW u \in Users, Lets(u), Forget(u),
           got' \in [Users -> Answers], temp' \in [Users -> BOOLEAN], left' \in Nat
    PROVE  SourcesInv'
<1>0. SourcesTypeOK /\ HandleInv
  BY DEF SourcesInv
<1>1. /\ step' \in [Users -> Steps] /\ step'[u] = "idle"
      /\ \A v \in Users \ {u} : step'[v] = step[v]
  BY <1>0 DEF SourcesTypeOK, Lets, Steps
<1>2. /\ command' \in [Users \cup {Opener} -> Commands] /\ command'[u].at = "none"
      /\ \A x \in (Users \cup {Opener}) \ {u} : command'[x] = command[x]
  BY <1>0, CommandsOK DEF Forget, HandleInv
<1>3. UserInv(u)'
  BY <1>1, <1>2 DEF UserInv
<1>4. gate' = gate \/ (gate' = NoUser /\ gate = u)
  BY DEF Lets
<1>5. ~Working(u)'
  BY <1>1 DEF Working
<1> QED
  BY <1>1, <1>2, <1>3, <1>4, <1>5, UserStep

(* The step with which the work of a snapshot begins. *)
LEMMA BegunOK ==
    ASSUME SourcesInv, NEW u \in Users, Begin(u), step[u] \in {"idle", "lock"}
    PROVE  \E where \in {"url", "frame", "drive"} :
             /\ step' = [step EXCEPT ![u] = where]
             /\ temp' \in [Users -> BOOLEAN]
             /\ command' \in [Users \cup {Opener} -> Commands]
             /\ command'[u].at # "none" => where \in {"url", "frame"}
             /\ \A x \in (Users \cup {Opener}) \ {u} : command'[x] = command[x]
<1>0. SourcesTypeOK /\ HandleInv /\ UserInv(u)
  BY DEF SourcesInv
<1> DEFINE where == IF Drives THEN "drive" ELSE IF source = "yt_dlp" THEN "url" ELSE "frame"
<1>1. where \in {"url", "frame", "drive"} /\ step' = [step EXCEPT ![u] = where]
  BY DEF Begin
<1>2. temp' \in [Users -> BOOLEAN]
  BY <1>0 DEF Begin, SourcesTypeOK
<1>3. command[u].at = "none" /\ command \in [Users \cup {Opener} -> Commands]
  BY <1>0 DEF UserInv, HandleInv
<1>4. /\ command' \in [Users \cup {Opener} -> Commands]
      /\ command'[u].at # "none" => where \in {"url", "frame"}
      /\ \A x \in (Users \cup {Opener}) \ {u} : command'[x] = command[x]
  BY <1>3, CommandsOK DEF Begin, Launch
<1> HIDE DEF where
<1> QED
  BY <1>1, <1>2, <1>4

LEMMA BeginningKeeps ==
    ASSUME SourcesInv, NEW u \in Users, Request(u) \/ Take(u)
    PROVE  SourcesInv'
<1>0. SourcesTypeOK /\ HandleInv /\ OneAtATime /\ UserInv(u)
  BY DEF SourcesInv
<1>1. SessionStays /\ left' = left /\ session \notin {"none", "opening"}
      /\ step[u] \in {"idle", "lock"}
  BY DEF Request, Take
<1>2. got' \in [Users -> Answers]
  BY <1>0 DEF Request, Take, SourcesTypeOK, Answers
<1>3. CASE Request(u) /\ WithHandle
  <2>1. /\ step' = [step EXCEPT ![u] = "lock"] /\ UNCHANGED <<command, temp, gate>>
    BY <1>3 DEF Request
  <2>2. command[u].at = "none"
    BY <1>0, <1>1 DEF UserInv
  <2>3. command' \in [Users \cup {Opener} -> Commands] /\ temp' \in [Users -> BOOLEAN]
    BY <1>0, <2>1 DEF HandleInv, SourcesTypeOK
  <2> QED
    BY <1>1, <1>2, <2>1, <2>2, <2>3, GoesOnKeeps DEF Steps
<1>4. CASE Begin(u)
  <2>1. PICK where \in {"url", "frame", "drive"} :
             /\ step' = [step EXCEPT ![u] = where]
             /\ temp' \in [Users -> BOOLEAN]
             /\ command' \in [Users \cup {Opener} -> Commands]
             /\ command'[u].at # "none" => where \in {"url", "frame"}
             /\ \A x \in (Users \cup {Opener}) \ {u} : command'[x] = command[x]
    BY <1>1, <1>4, BegunOK
  <2>2. gate' = gate \/ (gate' = u /\ gate = NoUser)
    BY DEF Request, Take
  <2>3. WithHandle => gate' = u /\ session = "Running" /\ client # "closed"
    <3>1. WithHandle => Take(u)
      BY <1>0, <1>1, <2>1 DEF Request, SourcesTypeOK
    <3> QED
      BY <1>0, <3>1 DEF Take, HandleInv
  <2> QED
    BY <1>1, <1>2, <2>1, <2>2, <2>3, GoesOnKeeps DEF Steps
<1> QED
  BY <1>3, <1>4 DEF Request, Take

LEMMA ProceedingKeeps ==
    ASSUME SourcesInv, NEW u \in Users, UrlKnown(u) \/ FileRead(u)
    PROVE  SourcesInv'
<1>0. SourcesTypeOK /\ HandleInv /\ OneAtATime /\ UserInv(u)
  BY DEF SourcesInv
<1>1. SessionStays /\ left' = left /\ temp' = temp /\ gate' = gate /\ got' = got /\ Working(u)
  BY DEF UrlKnown, FileRead, Working
<1>2. got' \in [Users -> Answers] /\ session \notin {"none", "opening"}
  BY <1>0, <1>1 DEF UserInv, SourcesTypeOK, Working, Answers
<1>3. WithHandle => gate' = u /\ session = "Running" /\ client # "closed"
  BY <1>0, <1>1 DEF OneAtATime, Working
<1>4. temp' \in [Users -> BOOLEAN] /\ command \in [Users \cup {Opener} -> Commands]
  BY <1>0, <1>1 DEF SourcesTypeOK, HandleInv
<1>5. CASE UrlKnown(u)
  <2>1. step' = [step EXCEPT ![u] = "frame"] /\ Launch(u)
    BY <1>5 DEF UrlKnown
  <2>2. /\ command' \in [Users \cup {Opener} -> Commands]
        /\ \A x \in (Users \cup {Opener}) \ {u} : command'[x] = command[x]
    BY <1>4, <2>1, CommandsOK DEF Launch
  <2> QED
    BY <1>1, <1>2, <1>3, <1>4, <2>1, <2>2, GoesOnKeeps DEF Steps
<1>6. CASE FileRead(u)
  <2>1. step' = [step EXCEPT ![u] = "remove"] /\ Forget(u)
    BY <1>6 DEF FileRead
  <2>2. /\ command' \in [Users \cup {Opener} -> Commands] /\ command'[u].at = "none"
        /\ \A x \in (Users \cup {Opener}) \ {u} : command'[x] = command[x]
    BY <1>4, <2>1, CommandsOK DEF Forget
  <2> QED
    BY <1>1, <1>2, <1>3, <1>4, <2>1, <2>2, GoesOnKeeps DEF Steps
<1> QED
  BY <1>5, <1>6

LEMMA EndingKeeps ==
    ASSUME SourcesInv, NEW u \in Users,
           \/ Refuse(u) \/ CommandFailed(u) \/ FrameOver(u) \/ PathOver(u)
           \/ FileRemoved(u) \/ Driven(u) \/ Abandon(u)
    PROVE  SourcesInv'
<1>0. SourcesTypeOK
  BY DEF SourcesInv
<1>1. SessionStays /\ Lets(u) /\ Forget(u) /\ left' \in Nat
  BY <1>0 DEF Refuse, CommandFailed, FrameOver, PathOver, TakeOutput, FileRemoved, Driven, Abandon, Answer,
              SourcesTypeOK
<1>4. temp' \in [Users -> BOOLEAN]
  <2>1. CASE temp' = temp
    BY <1>0, <2>1 DEF SourcesTypeOK
  <2>2. CASE temp' = [temp EXCEPT ![u] = FALSE]
    BY <1>0, <2>2 DEF SourcesTypeOK
  <2> QED
    BY <2>1, <2>2 DEF Refuse, CommandFailed, FrameOver, PathOver, TakeOutput, FileRemoved, Driven, Abandon
<1>2. got' = got \/ \E what \in Answers : got' = [got EXCEPT ![u] = what]
  BY DEF Refuse, CommandFailed, FrameOver, PathOver, TakeOutput, FileRemoved, Driven, Abandon, Answer,
         Answers, MockScreenshot, DriverScreenshot, ChromeScreenshot
<1>3. got' \in [Users -> Answers]
  BY <1>0, <1>2 DEF SourcesTypeOK, Answers
<1> QED
  BY <1>1, <1>3, <1>4, EndsKeeps

LEMMA SourcesInvNext == SourcesInv /\ [SourcesNext]_sourceVars => SourcesInv'
<1> SUFFICES ASSUME SourcesInv, [SourcesNext]_sourceVars PROVE SourcesInv'
  OBVIOUS
<1>1. CASE UNCHANGED sourceVars
  <2>0. SourcesTypeOK /\ HandleInv /\ OneAtATime /\ \A u \in Users : UserInv(u)
    BY DEF SourcesInv
  <2>1. SourcesTypeOK'
    BY <1>1, <2>0 DEF sourceVars, SourcesTypeOK
  <2>2. HandleInv'
    BY <1>1, <2>0 DEF sourceVars, HandleInv
  <2>3. OneAtATime'
    BY <1>1, <2>0 DEF sourceVars, OneAtATime, WithHandle
  <2>4. ASSUME NEW u \in Users PROVE UserInv(u)'
    BY <1>1, <2>0, UserKept DEF sourceVars
  <2> QED
    BY <2>1, <2>2, <2>3, <2>4 DEF SourcesInv
<1>2. CASE SourcesNext
  BY <1>2, OpeningKeeps, ChildKeeps, ClosingKeeps, BeginningKeeps, ProceedingKeeps, EndingKeeps
     DEF SourcesNext, UserProceeds
<1> QED
  BY <1>1, <1>2

LEMMA SourcesInvIsSound == SourcesInv => SourcesTypeOK /\ SourcesSound
<1> SUFFICES ASSUME SourcesInv PROVE SourcesTypeOK /\ SourcesSound
  OBVIOUS
<1>1. ASSUME WithHandle, NEW x \in Users \cup {Opener}, command[x].at # "none"
      PROVE  IF x = Opener THEN session = "opening" ELSE gate = x /\ session = "Running"
  BY <1>1 DEF SourcesInv, HandleInv, UserInv, OneAtATime
<1> QED
  BY <1>1 DEF SourcesInv, SourcesSound, ChildIsHolders

(* A handle's source takes one snapshot at a time, whatever is abandoned or *)
(* closed meanwhile, and the one child somebody waits for is that of the    *)
(* snapshot which holds the lock.                                           *)
THEOREM SourcesAreSound == SourcesSpec => []SourcesSound
  BY SourcesInvInit, SourcesInvNext, SourcesInvIsSound, PTL DEF SourcesSpec

-----------------------------------------------------------------------------
(* Captures with their viewers, when nobody asks for a snapshot.             *)

USE FrameAssumption

Plain == {At(where) : where \in {"none", "opening", "loop", "store", "ending", "over", "died"}}

(* Without requests, and with nothing stored, no task is about to insert or *)
(* to delete; and a stop has only captures that were started.               *)
ViewersInv ==
    /\ FramesTypeOK
    /\ task \in [Captures -> Plain]
    /\ asker = [a \in Askers |-> Idle]
    /\ files = {} /\ rows = [n \in Names |-> 0]
    /\ \A g \in leaving : task[g].at # "none"

LEMMA ViewersInvInit == FramesInit => ViewersInv
<1> SUFFICES ASSUME FramesInit PROVE ViewersInv
  OBVIOUS
<1>1. FramesTypeOK
  BY DEF FramesInit, FramesTypeOK, At, TaskStages, Captures
<1>2. task \in [Captures -> Plain]
  BY DEF FramesInit, Plain
<1> QED
  BY <1>1, <1>2 DEF FramesInit, ViewersInv

LEMMA PlainTasks ==
    ASSUME NEW stage \in Plain
    PROVE  /\ stage.at \in {"none", "opening", "loop", "store", "ending", "over", "died"}
           /\ stage.at \in TaskStages
  BY DEF Plain, At, TaskStages

(* A task goes on, is started or ends. *)
LEMMA TasksGoOn ==
    ASSUME ViewersInv, NEW g \in Captures, NEW where \in {"opening", "loop", "store", "ending", "over", "died"},
           task' = [task EXCEPT ![g] = At(where)],
           config' = config, second' = second, watch' = watch, storeVars' = storeVars, asker' = asker,
           aborted' = aborted, leaving' = leaving,
           entry' \in {0, entry} \/ (entry' = g /\ task[g].at = "none"),
           installed' \in {0, installed}, entry' = 0 => installed' = 0,
           updater' \in [Captures -> {"none", "waits", "has", "gone"}],
           latest' \in [Captures -> 0 .. MaxCaptures],
           \A h \in Captures : updater'[h] = "waits" <=> task'[h].at = "opening"
    PROVE  ViewersInv'
<1>0. /\ FramesTypeOK /\ task \in [Captures -> Plain]
      /\ \A h \in leaving : h \in Captures /\ task[h].at # "none"
  BY DEF ViewersInv, FramesTypeOK
<1>1. /\ task' \in [Captures -> Plain] /\ task'[g].at = where
      /\ \A h \in Captures : h # g => task'[h] = task[h]
  BY <1>0 DEF Plain, At
<1>2. \A h \in Captures : task'[h].at \in TaskStages
  BY <1>1, PlainTasks
<1>3. \A h \in leaving' : task'[h].at # "none"
  BY <1>0, <1>1
<1>4. /\ entry' \in {0} \cup {h \in Captures : task'[h].at # "none"}
      /\ entry' \notin leaving'
  BY <1>0, <1>1 DEF FramesTypeOK, Captures
<1>5. FramesTypeOK'
  BY <1>0, <1>2, <1>4 DEF FramesTypeOK, storeVars
<1> QED
  BY <1>1, <1>3, <1>5 DEF ViewersInv, storeVars

(* The tasks stay where they are. *)
LEMMA OthersGoOn ==
    ASSUME ViewersInv, task' = task,
           config' = config, second' = second, storeVars' = storeVars, asker' = asker, latest' = latest,
           watch' \in [Viewers -> 0 .. MaxCaptures], aborted' \subseteq Captures,
           leaving' \subseteq leaving \cup ({entry} \cap Captures),
           entry' \in {0, entry} \ leaving',
           installed' \in {0} \cup Captures, entry' = 0 => installed' = 0,
           updater' \in [Captures -> {"none", "waits", "has", "gone"}],
           \A h \in Captures : updater'[h] = "waits" <=> updater[h] = "waits"
    PROVE  ViewersInv'
<1>0. /\ FramesTypeOK /\ task \in [Captures -> Plain]
      /\ \A h \in leaving : h \in Captures /\ task[h].at # "none"
  BY DEF ViewersInv, FramesTypeOK
<1>1. \A h \in leaving' : task[h].at # "none" /\ h \in Captures
  BY <1>0 DEF FramesTypeOK, Captures
<1>2. FramesTypeOK'
  BY <1>0, <1>1 DEF FramesTypeOK, storeVars
<1> QED
  BY <1>0, <1>1, <1>2 DEF ViewersInv, storeVars

LEMMA ViewersInvNext == ViewersInv /\ (ForViewers \/ UNCHANGED frameVars) => ViewersInv'
<1> SUFFICES ASSUME ViewersInv, ForViewers \/ UNCHANGED frameVars PROVE ViewersInv'
  OBVIOUS
<1>0. /\ FramesTypeOK /\ task \in [Captures -> Plain] /\ asker = [a \in Askers |-> Idle]
      /\ files = {} /\ rows = [n \in Names |-> 0]
  BY DEF ViewersInv
<1>1. CASE UNCHANGED frameVars
  BY <1>0, <1>1, OthersGoOn DEF frameVars, captureVars, FramesTypeOK
<1> SUFFICES ASSUME FramesNext, files' = {}, second' = 0, asker' = asker PROVE ViewersInv'
  BY <1>1 DEF ForViewers
<1>2. ASSUME NEW g \in Captures
      PROVE  /\ task[g] \in Plain
             /\ task[g].at \in {"none", "opening", "loop", "store", "ending", "over", "died"}
             /\ updater \in [Captures -> {"none", "waits", "has", "gone"}]
             /\ latest \in [Captures -> 0 .. MaxCaptures]
             /\ \A h \in Captures : updater[h] = "waits" <=> task[h].at = "opening"
             /\ DOMAIN task = Captures /\ \A where : At(where).at = where
  BY <1>0, PlainTasks DEF FramesTypeOK, At
<1>3. CASE StartCapture
  <2>1. PICK g \in Captures :
           /\ task[g].at = "none" /\ entry' = g /\ installed' = 0
           /\ task' = [task EXCEPT ![g] = At("opening")]
           /\ updater' = [updater EXCEPT ![g] = "waits"]
    BY <1>3 DEF StartCapture
  <2>2. UNCHANGED <<leaving, aborted, latest, asker, config, watch, second, storeVars>>
    BY <1>3 DEF StartCapture, Elsewhere
  <2>3. /\ updater' \in [Captures -> {"none", "waits", "has", "gone"}]
        /\ \A h \in Captures : updater'[h] = "waits" <=> task'[h].at = "opening"
    BY <1>2, <2>1
  <2>4. g # 0
    BY DEF Captures
  <2> QED
    BY <1>2, <2>1, <2>2, <2>3, <2>4, TasksGoOn
<1>4. ASSUME NEW g \in Captures, TaskOpens(g) \/ TaskGivesUp(g) PROVE ViewersInv'
  <2>1. PICK where \in {"loop", "ending", "died"}, to \in {"has", "gone"} :
           task' = [task EXCEPT ![g] = At(where)] /\ updater' = [updater EXCEPT ![g] = to]
    BY <1>4 DEF TaskOpens, TaskGivesUp, GoesOn
  <2>2. TableStays /\ UNCHANGED <<latest, asker, storeVars>>
    BY <1>4 DEF TaskOpens, TaskGivesUp
  <2>3. /\ updater' \in [Captures -> {"none", "waits", "has", "gone"}]
        /\ \A h \in Captures : updater'[h] = "waits" <=> task'[h].at = "opening"
    BY <1>2, <2>1
  <2>4. entry = 0 => installed = 0
    BY <1>0 DEF FramesTypeOK
  <2> QED
    BY <1>2, <2>1, <2>2, <2>3, <2>4, TasksGoOn DEF TableStays
<1>5. ASSUME NEW g \in Captures, TickKeeps(g) \/ TickPuts(g) \/ LoopEnds(g) PROVE ViewersInv'
  <2>1. PICK where \in {"loop", "store", "ending"} : task' = [task EXCEPT ![g] = At(where)]
    BY <1>5 DEF TickKeeps, TickPuts, LoopEnds, GoesOn, Puts
  <2>2. /\ TableStays /\ UNCHANGED <<updater, asker, storeVars>>
        /\ latest' = latest \/ latest' = [latest EXCEPT ![g] = g]
        /\ task[g].at \in {"loop", "store"}
    BY <1>5 DEF TickKeeps, TickPuts, LoopEnds, Puts, storeVars
  <2>3. latest' \in [Captures -> 0 .. MaxCaptures]
    BY <1>2, <2>2 DEF Captures
  <2>4. \A h \in Captures : updater'[h] = "waits" <=> task'[h].at = "opening"
    BY <1>2, <2>1, <2>2
  <2>5. entry = 0 => installed = 0
    BY <1>0 DEF FramesTypeOK
  <2> QED
    BY <1>2, <2>1, <2>2, <2>3, <2>4, <2>5, TasksGoOn DEF TableStays
<1>6. ASSUME NEW g \in Captures, TickSetsOffJob(g) \/ TickInserts(g) \/ TickCleansUp(g) \/ TickDeletes(g)
      PROVE  FALSE
  <2>1. CASE TickSetsOffJob(g)
    BY <1>0, <2>1 DEF TickSetsOffJob, Idle, At
  <2> QED
    BY <1>2, <1>6, <2>1 DEF TickInserts, TickCleansUp, TickDeletes
<1>7. ASSUME NEW g \in Captures, TaskLeaves(g) PROVE ViewersInv'
  <2>1. \A h \in Captures : updater'[h] = "waits" <=> task'[h].at = "opening"
    BY <1>2, <1>7 DEF TaskLeaves, GoesOn
  <2> QED
    BY <1>2, <1>7, <2>1, TasksGoOn DEF TaskLeaves, GoesOn, Elsewhere
<1>8. ASSUME NEW g \in Captures, AbortTakesEffect(g) PROVE ViewersInv'
  <2>1. /\ task' = [task EXCEPT ![g] = At("over")] /\ TableStays
        /\ updater' = [updater EXCEPT ![g] = IF @ = "waits" THEN "gone" ELSE @]
        /\ UNCHANGED <<latest, asker, storeVars>>
    BY <1>2, <1>8 DEF AbortTakesEffect, GoesOn, storeVars
  <2>2. /\ updater' \in [Captures -> {"none", "waits", "has", "gone"}]
        /\ \A h \in Captures : updater'[h] = "waits" <=> task'[h].at = "opening"
    BY <1>2, <2>1
  <2>3. entry = 0 => installed = 0
    BY <1>0 DEF FramesTypeOK
  <2> QED
    BY <1>2, <2>1, <2>2, <2>3, TasksGoOn DEF TableStays
<1>9. ASSUME NEW g \in Captures, UpdaterInstalls(g) PROVE ViewersInv'
  <2>1. /\ updater' = [updater EXCEPT ![g] = "gone"] /\ updater[g] = "has"
        /\ installed' = (IF entry # 0 THEN g ELSE 0)
        /\ UNCHANGED <<entry, task, leaving, aborted, latest, asker>> /\ Elsewhere
    BY <1>9 DEF UpdaterInstalls
  <2> QED
    BY <1>0, <1>2, <2>1, OthersGoOn DEF Elsewhere, FramesTypeOK
<1>10. CASE StopTakes
  <2>1. /\ leaving' = leaving \cup {entry} /\ entry \in Captures /\ entry' = 0 /\ installed' = 0
        /\ 0 \notin leaving'
    BY <1>0, <1>10 DEF StopTakes, FramesTypeOK, Captures
  <2> QED
    BY <1>0, <1>10, <2>1, OthersGoOn DEF StopTakes, TasksStay, Elsewhere, FramesTypeOK
<1>11. ASSUME NEW g \in Captures, StopAborts(g) \/ StopLeaves(g) PROVE ViewersInv'
  BY <1>0, <1>11, OthersGoOn DEF StopAborts, StopLeaves, TasksStay, Elsewhere, FramesTypeOK
<1>12. ASSUME NEW v \in Viewers, Watch(v) \/ ViewerEnds(v) \/ ViewerLeaves(v) PROVE ViewersInv'
  <2>0. watch \in [Viewers -> 0 .. MaxCaptures] /\ entry \in 0 .. MaxCaptures
    BY <1>0 DEF FramesTypeOK, Captures
  <2>1. watch' \in [Viewers -> 0 .. MaxCaptures]
    <3>1. watch' = [watch EXCEPT ![v] = entry] \/ watch' = [watch EXCEPT ![v] = 0]
      BY <1>12 DEF Watch, ViewerEnds, ViewerLeaves
    <3> QED
      BY <2>0, <3>1
  <2> QED
    BY <1>0, <1>12, <2>1, OthersGoOn
       DEF Watch, ViewerEnds, ViewerLeaves, OnlyViewers, captureVars, FramesTypeOK
<1>13. ASSUME NEW a \in Askers, AskSnapshot(a) \/ AskerStep(a) PROVE FALSE
  <2>1. asker[a] = Idle /\ Idle.at = "idle"
    BY <1>0 DEF Idle, At
  <2>2. CASE AskSnapshot(a)
    BY <1>0, <2>1, <2>2 DEF AskSnapshot, AskerGoes, Idle, At
  <2> QED
    BY <1>13, <2>1, <2>2
       DEF AskerStep, FromMemory, ClonesHandle, FromHandle, CachesFrame, FromRow, OnDemand, DirectlyByPage,
           DirectlyByRoute, JobStores, JobInserts, AskerEnds
<1>14. CASE SecondPasses
  <2>1. second = second'
    BY <1>0, <1>14 DEF SecondPasses, FramesTypeOK
  <2> QED
    BY <1>0, <1>14, <2>1, OthersGoOn DEF SecondPasses, captureVars, FramesTypeOK
<1>15. CASE Shutdown
  <2>1. /\ entry' = 0 /\ installed' = 0 /\ leaving' = {} /\ aborted' = {}
        /\ watch' = [v \in Viewers |-> 0] /\ asker' = asker /\ updater' \in [Captures -> {"none", "gone"}]
        /\ task' = [g \in Captures |-> IF Live(g) THEN At("over") ELSE task[g]]
        /\ UNCHANGED <<config, latest, second, storeVars>>
    BY <1>0, <1>15 DEF Shutdown
  <2>2. ASSUME NEW g \in Captures
        PROVE  /\ task'[g] \in Plain /\ task'[g].at \in TaskStages /\ task'[g].at # "opening"
               /\ updater'[g] # "waits"
    <3>1. CASE Live(g)
      BY <2>1, <3>1 DEF Plain, At, TaskStages
    <3>2. CASE ~Live(g)
      BY <1>2, <2>1, <3>2, PlainTasks DEF Live
    <3> QED
      BY <2>1, <3>1, <3>2
  <2>3. task' \in [Captures -> Plain]
    BY <2>1, <2>2
  <2>4. FramesTypeOK'
    BY <1>0, <2>1, <2>2 DEF FramesTypeOK, storeVars
  <2> QED
    BY <1>0, <2>1, <2>3, <2>4 DEF ViewersInv, storeVars
<1> QED
  BY <1>3, <1>4, <1>5, <1>6, <1>7, <1>8, <1>9, <1>10, <1>11, <1>12, <1>13, <1>14, <1>15
     DEF FramesNext, CaptureStep

-----------------------------------------------------------------------------
(* Whichever part is at work, each keeps its invariant: its own step, or     *)
(* none, is all that happens to it.                                          *)
LEMMA PartsInvNext ==
    FileInv /\ ViewersInv /\ SourcesInv /\ [MCNext]_<<vars, frameVars, sourceVars, procVars, explored>>
        => FileInv' /\ ViewersInv' /\ SourcesInv'
<1> SUFFICES ASSUME FileInv, ViewersInv, SourcesInv, [MCNext]_<<vars, frameVars, sourceVars, procVars, explored>>
             PROVE  FileInv' /\ ViewersInv' /\ SourcesInv'
  OBVIOUS
<1>1. [Next]_vars /\ (ForViewers \/ UNCHANGED frameVars) /\ [SourcesNext]_sourceVars
  BY DEF MCNext
<1> QED
  BY <1>1, FileInvNext, ViewersInvNext, SourcesInvNext

(* Handles, captures that come and go with their viewers, and sources hold   *)
(* what they should, and the lock is with whoever is past taking it.         *)
THEOREM CapturesTyped == MCSpec => []CaptureTypeOK
<1>1. MCInit => FileInv /\ ViewersInv /\ SourcesInv
  BY FileInvInit, ViewersInvInit, SourcesInvInit DEF MCInit
<1>2. FileInv /\ ViewersInv /\ SourcesInv => CaptureTypeOK
  BY SourcesInvIsSound DEF FileInv, FileTypeOK, ViewersInv, CaptureTypeOK
<1> QED
  BY <1>1, <1>2, PartsInvNext, PTL DEF MCSpec
=============================================================================
