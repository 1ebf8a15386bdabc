---------------------------- MODULE HardwareAccel ----------------------------
(***************************************************************************)
(* What gl_capture/src/hardware_accel.rs finds out about hardware           *)
(* acceleration, and what the child processes of gl_proc/src/lib.rs leave   *)
(* of their output: pure functions, with what they should amount to.        *)
(*                                                                          *)
(* A line of output is text or not UTF-8, and has a size.  read_line into a *)
(* String gives an error for a line that is not UTF-8, and the loop of      *)
(* capture_output ends there.  The characters of a line of text are of one  *)
(* width: a slice of it that ends inside a character panics.                *)
(***************************************************************************)
EXTENDS Naturals, Sequences, SequencesExt

CONSTANTS
    OutputLimit     \* DEFAULT_OUTPUT_LIMIT, in the sizes lines have here

ASSUME LimitAssumption == OutputLimit \in Nat \ {0}

Text(size)  == [text |-> TRUE, size |-> size, width |-> 1]
Wide(chars) == [text |-> TRUE, size |-> 3 * chars, width |-> 3]
Image(size) == [text |-> FALSE, size |-> size, width |-> 1]
Nothing == <<>>

NothingRead == [size |-> 0, truncated |-> FALSE, going |-> TRUE, panicked |-> FALSE]

(* A line is read while there is room; one that is too long is sliced where *)
(* the room ends.                                                           *)
LineRead(read, line, limit) ==
    LET room == limit - read.size
    IN IF ~read.going \/ read.size >= limit \/ ~line.text THEN [read EXCEPT !.going = FALSE]
       ELSE IF line.size <= room THEN [read EXCEPT !.size = @ + line.size]
       ELSE IF room % line.width = 0
            THEN [read EXCEPT !.size = limit, !.truncated = TRUE, !.going = FALSE]
            ELSE [read EXCEPT !.panicked = TRUE, !.going = FALSE]

(* capture_output: how much was kept, whether a line was cut, and whether   *)
(* the cut was inside a character.                                          *)
CaptureOutput(lines, limit) ==
    LET read[k \in 0..Len(lines)] ==
            IF k = 0 THEN NothingRead ELSE LineRead(read[k - 1], lines[k], limit)
    IN read[Len(lines)]

(* CommandResult: what a caller of run sees of a process that ended.  A     *)
(* panic is an error to who waits for the thread the command is run in.     *)
Succeeded(result) == result.ok /\ ~CaptureOutput(result.lines, OutputLimit).panicked
Printed(result) == Succeeded(result) /\ CaptureOutput(result.lines, OutputLimit).size > 0

-----------------------------------------------------------------------------
Accels == {"Vaapi", "Cuda", "Qsv", "VideoToolbox"}

(* A probe adds its acceleration if the test command succeeds with it.      *)
Probed(accel, works) == IF accel \in works THEN <<accel>> ELSE <<>>

(* The probes of a platform, one after the other.                           *)
Probe(platform, works) ==
    CASE platform = "macos"   -> Probed("VideoToolbox", works)
      [] platform = "linux"   -> Probed("Vaapi", works) \o Probed("Cuda", works) \o Probed("Qsv", works)
      [] platform = "windows" -> Probed("Qsv", works) \o Probed("Cuda", works)
      [] OTHER                -> <<>>

(* detect_capabilities: software first, then what the probes have found.    *)
(* detect does not call it yet, and says that there is software only.       *)
DetectCapabilities(platform, works) ==
    LET found == Probe(platform, works)
    IN [available |-> <<"None">> \o found,
        preferred |-> IF found = <<>> THEN "None" ELSE found[1]]

Supports(caps, accel) == accel \in Range(caps.available)

(* select_best with a preference, or "any" without one.                     *)
SelectBest(caps, preferred) ==
    IF preferred # "any" /\ Supports(caps, preferred) THEN preferred
    ELSE IF Supports(caps, caps.preferred) THEN caps.preferred
    ELSE "None"

-----------------------------------------------------------------------------
(* Which acceleration comes first where.                                    *)
Ranking(platform) ==
    CASE platform = "macos"   -> <<"VideoToolbox">>
      [] platform = "linux"   -> <<"Vaapi", "Cuda", "Qsv">>
      [] platform = "windows" -> <<"Qsv", "Cuda">>
      [] OTHER                -> <<>>

(* What select_best chooses can be used: it is the preference if that works *)
(* on the platform, else the first probed that works, else software         *)
(* (hardware_accel.rs select_best, detect_capabilities).                    *)
AccelSelected ==
    \A platform \in {"macos", "linux", "windows", "unknown"}, works \in SUBSET Accels :
        LET caps == DetectCapabilities(platform, works)
            usable == works \cap Range(Ranking(platform))
        IN /\ \A p \in usable : SelectBest(caps, p) = p
           /\ \A p \in ({"any"} \cup Accels) \ usable :
                LET chosen == SelectBest(caps, p)
                IN IF usable = {} THEN chosen = "None"
                   ELSE \E i \in DOMAIN Ranking(platform) :
                           /\ chosen = Ranking(platform)[i] /\ chosen \in usable
                           /\ \A j \in 1..(i - 1) : Ranking(platform)[j] \notin usable
=============================================================================
