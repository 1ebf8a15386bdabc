----------------------------- MODULE MjpegStream -----------------------------
(***************************************************************************)
(* gl_stream: one StreamSession and the HTTP clients that watch it.  The   *)
(* session's loop numbers every frame and broadcasts it through the ring   *)
(* of tokio::sync::broadcast; each client's MjpegStream polls its receiver *)
(* and tells a gap it was warned of (Lagged) from one nobody explains.     *)
(*                                                                         *)
(* The loop and every client run on threads of their own: taking a number  *)
(* and sending the frame are two steps, as are counting a subscriber and   *)
(* giving it a receiver, and dropping the count and then the receiver.     *)
(***************************************************************************)
EXTENDS Naturals, Sequences, FiniteSets

CONSTANTS
    Clients,        \* connections that may be open at the same time
    Capacity,       \* frames in the ring: buffer_size, rounded up by tokio
    MaxFrames,      \* bound: the loop takes no more sequence numbers than this
    None            \* Option::None

ASSUME ClientsAssumption  == IsFiniteSet(Clients)
ASSUME CapacityAssumption == Capacity \in Nat \ {0}
ASSUME FramesAssumption   == MaxFrames \in Nat
ASSUME NoneAssumption     == None \notin Nat

VARIABLES
    sequence,       \* StreamSession::sequence, the next number
    subscribers,    \* StreamSession::subscribers
    gen,            \* where the session's loop is
    frame,          \* the number the loop last took
    sent,           \* the number of the frame at each position the channel has
                    \* used; the ring holds the last Capacity positions
    pc,             \* where each connection is
    next,           \* position its receiver reads next
    last,           \* last_sequence
    expected,       \* expected_gap
    gaps,           \* sequence_gaps
    dropped,        \* frames_dropped_count
    first, got      \* history: the receiver's first position, frames received

genVars  == <<sequence, gen, frame, sent>>
viewVars == <<next, last, expected, gaps, dropped, first, got>>
vars     == <<genVars, subscribers, pc, viewVars>>

Points    == {"away", "counted", "open", "streaming", "uncounted"}
Counted   == {"counted", "open", "streaming"}
Receiving == {"open", "streaming", "uncounted"}

Receivers == {c \in Clients : pc[c] \in Receiving}

MjpegTypeOK ==
    /\ sequence \in 0 .. MaxFrames
    /\ subscribers \in Nat
    /\ gen \in {"tick", "snapshot", "numbered"}
    /\ frame \in Nat
    /\ sent \in Seq(Nat)
    /\ pc \in [Clients -> Points]
    /\ next \in [Clients -> Nat]
    /\ last \in [Clients -> Nat \cup {None}]
    /\ expected \in [Clients -> Nat \cup {None}]
    /\ gaps \in [Clients -> Nat]
    /\ dropped \in [Clients -> Nat]
    /\ first \in [Clients -> Nat]
    /\ got \in [Clients -> Nat]

Init ==
    /\ sequence = 0 /\ subscribers = 0
    /\ gen = "tick" /\ frame = 0 /\ sent = <<>>
    /\ pc = [c \in Clients |-> "away"]
    /\ next = [c \in Clients |-> 0]
    /\ last = [c \in Clients |-> None]
    /\ expected = [c \in Clients |-> None]
    /\ gaps = [c \in Clients |-> 0]
    /\ dropped = [c \in Clients |-> 0]
    /\ first = [c \in Clients |-> 0]
    /\ got = [c \in Clients |-> 0]

Goto(c, p) == pc' = [pc EXCEPT ![c] = p]

-----------------------------------------------------------------------------
(* The session's loop.  With no subscribers it only sleeps. *)

Tick ==
    /\ gen = "tick" /\ subscribers # 0
    /\ gen' = "snapshot"
    /\ UNCHANGED <<sequence, frame, sent, subscribers, pc, viewVars>>

(* Faulty: the number is read and not advanced. *)
SnapshotReused ==
    /\ gen = "snapshot" /\ sequence < MaxFrames
    /\ frame' = sequence /\ sequence' = sequence
    /\ gen' = "numbered"
    /\ UNCHANGED <<sent, subscribers, pc, viewVars>>

SnapshotTaken ==
    /\ gen = "snapshot" /\ sequence < MaxFrames
    /\ frame' = sequence /\ sequence' = sequence + 1
    /\ gen' = "numbered"
    /\ UNCHANGED <<sent, subscribers, pc, viewVars>>

(* An error or the frame timeout: the loop goes on without a number. *)
SnapshotFails ==
    /\ gen = "snapshot"
    /\ gen' = "tick"
    /\ UNCHANGED <<sequence, frame, sent, subscribers, pc, viewVars>>

(* broadcast::Sender::send: without a receiver the frame goes nowhere. *)
Broadcast(f) == sent' = IF Receivers = {} THEN sent ELSE Append(sent, f)

Send ==
    /\ gen = "numbered"
    /\ Broadcast(frame)
    /\ gen' = "tick"
    /\ UNCHANGED <<sequence, frame, subscribers, pc, viewVars>>

-----------------------------------------------------------------------------
(* A client connects: the handler counts it, then creates its receiver,    *)
(* which starts at the next frame to be sent.                               *)

Count(c) ==
    /\ pc[c] = "away"
    /\ subscribers' = subscribers + 1
    /\ Goto(c, "counted")
    /\ UNCHANGED <<genVars, viewVars>>

(* Faulty: a receiver that starts at the oldest frame still in the ring,    *)
(* from before it joined, possibly from before nobody listened.             *)
SubscribeWithBacklog(c) ==
    /\ pc[c] = "counted"
    /\ LET oldest == IF Len(sent) < Capacity THEN 1 ELSE Len(sent) - Capacity + 1
       IN  next' = [next EXCEPT ![c] = oldest] /\ first' = [first EXCEPT ![c] = oldest]
    /\ Goto(c, "open")
    /\ UNCHANGED <<genVars, subscribers, last, expected, gaps, dropped, got>>

Subscribe(c) ==
    /\ pc[c] = "counted"
    /\ next' = [next EXCEPT ![c] = Len(sent) + 1]
    /\ first' = [first EXCEPT ![c] = Len(sent) + 1]
    /\ Goto(c, "open")
    /\ UNCHANGED <<genVars, subscribers, last, expected, gaps, dropped, got>>

(* The first poll only writes the boundary. *)
FirstPoll(c) ==
    /\ pc[c] = "open"
    /\ Goto(c, "streaming")
    /\ UNCHANGED <<genVars, subscribers, viewVars>>

(* poll_next when try_recv returns the frame numbered f. *)
Unexplained(c, f) ==
    /\ last[c] # None /\ f > last[c] + 1
    /\ expected[c] # f - (last[c] + 1)

PollFrame(c) ==
    /\ pc[c] = "streaming"
    /\ next[c] <= Len(sent) /\ Len(sent) < next[c] + Capacity
    /\ gaps' = [gaps EXCEPT ![c] = IF Unexplained(c, sent[next[c]]) THEN @ + 1 ELSE @]
    /\ last' = [last EXCEPT ![c] = sent[next[c]]]
    /\ expected' = [expected EXCEPT ![c] = None]
    /\ next' = [next EXCEPT ![c] = @ + 1]
    /\ got' = [got EXCEPT ![c] = @ + 1]
    /\ UNCHANGED <<genVars, subscribers, pc, dropped, first>>

(* Lagged: the ring has overwritten what the receiver should read next; it  *)
(* moves to the oldest frame that is left and reports how many it skipped.  *)
Skipped(c) == (Len(sent) + 1) - (next[c] + Capacity)

OrZero(v) == IF v = None THEN 0 ELSE v

(* Faulty: counts lags, not frames. *)
PollLaggedOnce(c) ==
    /\ pc[c] = "streaming"
    /\ next[c] + Capacity <= Len(sent)
    /\ next' = [next EXCEPT ![c] = @ + Skipped(c)]
    /\ dropped' = [dropped EXCEPT ![c] = @ + 1]
    /\ expected' = [expected EXCEPT ![c] = OrZero(@) + Skipped(c)]
    /\ UNCHANGED <<genVars, subscribers, pc, last, gaps, first, got>>

(* Faulty: a second lag replaces the gap the first one announced. *)
PollLaggedAfresh(c) ==
    /\ pc[c] = "streaming"
    /\ next[c] + Capacity <= Len(sent)
    /\ next' = [next EXCEPT ![c] = @ + Skipped(c)]
    /\ dropped' = [dropped EXCEPT ![c] = @ + Skipped(c)]
    /\ expected' = [expected EXCEPT ![c] = Skipped(c)]
    /\ UNCHANGED <<genVars, subscribers, pc, last, gaps, first, got>>

PollLagged(c) ==
    /\ pc[c] = "streaming"
    /\ next[c] + Capacity <= Len(sent)
    /\ next' = [next EXCEPT ![c] = @ + Skipped(c)]
    /\ dropped' = [dropped EXCEPT ![c] = @ + Skipped(c)]
    /\ expected' = [expected EXCEPT ![c] = OrZero(@) + Skipped(c)]
    /\ UNCHANGED <<genVars, subscribers, pc, last, gaps, first, got>>

(* Faulty: only a stream that was polled is uncounted. *)
DropIfStarted(c) ==
    /\ pc[c] \in {"open", "streaming"}
    /\ subscribers' = IF pc[c] = "streaming" THEN subscribers - 1 ELSE subscribers
    /\ Goto(c, "uncounted")
    /\ UNCHANGED <<genVars, viewVars>>

(* MjpegStream::drop, then the drop of its fields, the receiver among them. *)
Drop(c) ==
    /\ pc[c] \in {"open", "streaming"}
    /\ subscribers' = subscribers - 1
    /\ Goto(c, "uncounted")
    /\ UNCHANGED <<genVars, viewVars>>

(* Faulty: the receiver's drop uncounts the client once more. *)
DropReceiverUncounting(c) ==
    /\ pc[c] = "uncounted"
    /\ subscribers' = subscribers - 1
    /\ Goto(c, "away")
    /\ UNCHANGED <<genVars, viewVars>>

DropReceiver(c) ==
    /\ pc[c] = "uncounted"
    /\ Goto(c, "away")
    /\ next' = [next EXCEPT ![c] = 0]
    /\ last' = [last EXCEPT ![c] = None]
    /\ expected' = [expected EXCEPT ![c] = None]
    /\ gaps' = [gaps EXCEPT ![c] = 0]
    /\ dropped' = [dropped EXCEPT ![c] = 0]
    /\ first' = [first EXCEPT ![c] = 0]
    /\ got' = [got EXCEPT ![c] = 0]
    /\ UNCHANGED <<genVars, subscribers>>

Next ==
    \/ Tick \/ SnapshotTaken \/ SnapshotFails \/ Send
    \/ \E c \in Clients :
          \/ Count(c) \/ Subscribe(c) \/ FirstPoll(c)
          \/ PollFrame(c) \/ PollLagged(c)
          \/ Drop(c) \/ DropReceiver(c)

Spec == Init /\ [][Next]_vars

-----------------------------------------------------------------------------
(* The counter that decides whether the loop captures is the number of     *)
(* connected clients, however connections and drops interleave: it never   *)
(* wraps below zero (unsubscribe subtracts without a check), and a session  *)
(* nobody watches goes idle.                                               *)
SubscribersExact == subscribers = Cardinality({c \in Clients : pc[c] \in Counted})

(* No client counts a gap in the frame numbers that its lag does not       *)
(* explain, whatever the lags, the other clients and the frames sent to    *)
(* nobody between its predecessors' leaving and its own joining.           *)
NoUnexpectedGap == \A c \in Clients : gaps[c] = 0

(* What a client received and what it was told it lost are together all    *)
(* the frames its receiver has passed since it was created.                *)
FramesAccountedFor == \A c \in Clients : first[c] + got[c] + dropped[c] = next[c]

(* Nothing a client missed goes untold.                                     *)
LossesTold == NoUnexpectedGap /\ FramesAccountedFor

(* The frames a client receives have increasing numbers: "Backwards        *)
(* sequence - this shouldn't happen with broadcast channels" (mjpeg.rs).   *)
FramesIncrease ==
    [][\A c \in Clients : got'[c] > got[c] /\ last[c] # None => last'[c] > last[c]]_vars
=============================================================================
