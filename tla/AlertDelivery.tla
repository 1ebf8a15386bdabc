--------------------------- MODULE AlertDelivery ---------------------------
(***************************************************************************)
(* NotificationManager::send and what it is built from: an adapter inside a *)
(* RetryWrapper inside a CircuitBreakerWrapper (gl_notify/src/lib.rs,       *)
(* retry.rs, circuit_breaker.rs, adapters/), as /alerts/test puts them      *)
(* together (gl_web/src/routes/alerts.rs).                                  *)
(*                                                                          *)
(* A sender uses a manager; clones of a manager share their adapters and so *)
(* one circuit breaker.  (A request makes a manager of its own; sharing one *)
(* is what the library offers.)  A notification's channels are delivered by *)
(* a future each, joined in one task: only an await lets another of them    *)
(* run, while other senders run between any two accesses to the breaker.    *)
(***************************************************************************)
EXTENDS Naturals, Sequences, SequencesExt

CONSTANTS
    Senders,
    Requests,       \* those of them that are requests of /alerts/test
    Notes,          \* a sender's Notification::channels
    Registered,     \* the kinds that have an adapter
    MaxRetries,
    FailureThreshold,
    SuccessThreshold

ASSUME AlertsAssumption ==
    /\ Requests \subseteq Senders
    /\ \A s \in Senders : Notes[s] \in Seq(Range(Notes[s]))
    /\ MaxRetries \in Nat /\ FailureThreshold \in Nat /\ SuccessThreshold \in Nat

VARIABLES
    circuit,    \* SimpleCircuitBreaker
    future,     \* adapter.send of every channel, by sender and index
    polled,     \* the index of the future a sender's task is in, or 0
    received,   \* history: the channels that have confirmed in this send
    results     \* of the sends so far: ChannelResult::success of a request

alertVars == <<circuit, future, polled, received, results>>

Indices(s) == 1 .. Len(Notes[s])
Channels(s) == Range(Notes[s])
Late == {"none", "fresh", "old"}    \* last_failure_time, and whether it is over

Resting == {"new", "sending", "waiting", "ok", "err"}
Working == {"look", "half", "reset", "zero", "count", "close", "clear", "fail",
            "opens", "time", "log"}
Futures == [at : Resting \cup Working, done : Nat, tries : Nat, then : {"send", "log", "err"}]

Fresh(stage) == [at |-> stage, done |-> 0, tries |-> 0, then |-> "send"]
Begun(s) == [i \in Indices(s) |-> Fresh(IF Notes[s][i].kind \in Registered THEN "new" ELSE "err")]

AlertsInit ==
    /\ circuit = [failures |-> 0, successes |-> 0, open |-> FALSE, last |-> "none"]
    /\ future = [s \in Senders |-> Begun(s)]
    /\ polled = [s \in Senders |-> 0]
    /\ received = [s \in Senders |-> {}]
    /\ results = [s \in Senders |-> << >>]

-----------------------------------------------------------------------------
Becomes(s, i, changed) == future' = [future EXCEPT ![s][i] = changed]
MovesTo(s, i, stage) == Becomes(s, i, [future[s][i] EXCEPT !.at = stage])

(* A step between two awaits: the task stays in the future while it has     *)
(* accesses of the breaker to make.                                         *)
Stays(s, i) ==
    /\ polled' = [polled EXCEPT ![s] = IF future'[s][i].at \in Working THEN i ELSE 0]
    /\ UNCHANGED <<received, results>>

Polls(s, i, stage) == polled[s] \in {0, i} /\ future[s][i].at = stage

(* What follows is_open: a closed circuit sends, an open one refuses; after *)
(* a failure it is only asked for the log, twice.                           *)
Asked(s, i, open) ==
    LET f == future[s][i]
    IN  Becomes(s, i,
            IF f.then = "log" THEN [f EXCEPT !.at = "log", !.then = "err"]
            ELSE Fresh(IF f.then = "send" /\ ~open THEN "sending" ELSE "err"))

(* is_open: the flag, then the time of the last failure, then the two       *)
(* stores that make it half-open.                                           *)
LoadOpen(s, i) ==
    /\ Polls(s, i, "new") \/ Polls(s, i, "log")
    /\ IF circuit.open THEN MovesTo(s, i, "look") ELSE Asked(s, i, FALSE)
    /\ Stays(s, i)
    /\ UNCHANGED circuit

LookAtTime(s, i) ==
    /\ Polls(s, i, "look")
    /\ IF circuit.last = "old" THEN MovesTo(s, i, "half") ELSE Asked(s, i, TRUE)
    /\ Stays(s, i)
    /\ UNCHANGED circuit

HalfOpen(s, i) ==
    /\ Polls(s, i, "half")
    /\ circuit' = [circuit EXCEPT !.open = FALSE]
    /\ MovesTo(s, i, "reset")
    /\ Stays(s, i)

HalfOpened(s, i) ==
    /\ Polls(s, i, "reset")
    /\ circuit' = [circuit EXCEPT !.successes = 0]
    /\ Asked(s, i, FALSE)
    /\ Stays(s, i)

-----------------------------------------------------------------------------
(* The adapter goes through the channels of the notification and sends to   *)
(* every one of its kind, whichever of them the future is for; done is the  *)
(* last it has sent to.                                                     *)
OfItsKind(s, i) == {j \in Indices(s) : Notes[s][j].kind = Notes[s][i].kind}
Left(s, i, n) == {j \in OfItsKind(s, i) : j > n}
Target(s, i) ==
    {j \in Left(s, i, future[s][i].done) : \A k \in Left(s, i, future[s][i].done) : j <= k}

Succeeds(s, i) == Becomes(s, i, Fresh("zero")) /\ polled' = [polled EXCEPT ![s] = i]

\* Faulty: the loop over the channels ends at the first.
SentToFirst(s, i) ==
    /\ polled[s] = 0 /\ future[s][i].at = "sending"
    /\ \E j \in Target(s, i) : received' = [received EXCEPT ![s] = @ \cup {Notes[s][j]}]
    /\ Succeeds(s, i)
    /\ UNCHANGED <<circuit, results>>

Sent(s, i) ==
    /\ polled[s] = 0 /\ future[s][i].at = "sending"
    /\ \E j \in Target(s, i) :
        /\ received' = [received EXCEPT ![s] = @ \cup {Notes[s][j]}]
        /\ IF Left(s, i, j) = {} THEN Succeeds(s, i)
           ELSE Becomes(s, i, [future[s][i] EXCEPT !.done = j]) /\ UNCHANGED polled
    /\ UNCHANGED <<circuit, results>>

\* Faulty: a retry goes on behind the channel that failed.
RetriedFromNext(s, i) ==
    LET f == future[s][i]
    IN  \/ /\ f.tries + 1 < MaxRetries
           /\ \E j \in Target(s, i) :
                Becomes(s, i, [f EXCEPT !.at = "waiting", !.tries = @ + 1,
                                        !.done = IF Left(s, i, j) = {} THEN @ ELSE j])
           /\ UNCHANGED polled
        \/ Becomes(s, i, Fresh("fail")) /\ polled' = [polled EXCEPT ![s] = i]

(* A failure is retried from the first channel on; the last one, and a      *)
(* request error of the Pushover adapter that is not worth a retry, count   *)
(* for the breaker.                                                         *)
Failed(s, i) ==
    LET f == future[s][i]
    IN  \/ /\ f.tries + 1 < MaxRetries
           /\ Becomes(s, i, [Fresh("waiting") EXCEPT !.tries = f.tries + 1])
           /\ UNCHANGED polled
        \/ /\ f.tries + 1 >= MaxRetries \/ Notes[s][i].kind = "pushover"
           /\ Becomes(s, i, Fresh("fail")) /\ polled' = [polled EXCEPT ![s] = i]

(* The service answers with an error, or does not answer.                   *)
NotSent(s, i) ==
    LET f == future[s][i]
    IN  /\ polled[s] = 0 /\ f.at = "sending"
        /\ Failed(s, i)
        /\ UNCHANGED <<circuit, received, results>>

Retry(s, i) ==
    /\ polled[s] = 0 /\ future[s][i].at = "waiting"
    /\ MovesTo(s, i, "sending")
    /\ UNCHANGED <<circuit, polled, received, results>>

-----------------------------------------------------------------------------
(* record_success.                                                          *)
ForgetFailures(s, i) ==
    /\ Polls(s, i, "zero")
    /\ circuit' = [circuit EXCEPT !.failures = 0]
    /\ MovesTo(s, i, "count")
    /\ Stays(s, i)

CountSuccess(s, i) ==
    /\ Polls(s, i, "count")
    /\ circuit' = [circuit EXCEPT !.successes = @ + 1]
    /\ MovesTo(s, i, IF circuit'.successes >= SuccessThreshold THEN "close" ELSE "ok")
    /\ Stays(s, i)

Close(s, i) ==
    /\ Polls(s, i, "close")
    /\ circuit' = [circuit EXCEPT !.open = FALSE]
    /\ MovesTo(s, i, "clear")
    /\ Stays(s, i)

Closed(s, i) ==
    /\ Polls(s, i, "clear")
    /\ circuit' = [circuit EXCEPT !.successes = 0]
    /\ MovesTo(s, i, "ok")
    /\ Stays(s, i)

(* record_failure: after it the circuit is asked for the log.               *)
FailureCounted(s, i, opens) ==
    Becomes(s, i, [future[s][i] EXCEPT
        !.at = IF opens THEN "opens" ELSE "log", !.then = IF opens THEN @ ELSE "log"])

CountFailure(s, i) ==
    /\ Polls(s, i, "fail")
    /\ circuit' = [circuit EXCEPT !.failures = @ + 1]
    /\ FailureCounted(s, i, circuit'.failures >= FailureThreshold)
    /\ Stays(s, i)

Open(s, i) ==
    /\ Polls(s, i, "opens")
    /\ circuit' = [circuit EXCEPT !.open = TRUE]
    /\ MovesTo(s, i, "time")
    /\ Stays(s, i)

\* Faulty: only the failure that reaches the threshold sets the time.
TimeOnFirstFailure(s, i) ==
    /\ Polls(s, i, "time")
    /\ circuit' = [circuit EXCEPT !.last = IF circuit.failures = FailureThreshold THEN "fresh" ELSE @]
    /\ Becomes(s, i, [future[s][i] EXCEPT !.at = "log", !.then = "log"])
    /\ Stays(s, i)

RecordTime(s, i) ==
    /\ Polls(s, i, "time")
    /\ circuit' = [circuit EXCEPT !.last = "fresh"]
    /\ Becomes(s, i, [future[s][i] EXCEPT !.at = "log", !.then = "log"])
    /\ Stays(s, i)

-----------------------------------------------------------------------------
Joined(s) == \A i \in Indices(s) : future[s][i].at \in {"ok", "err"}
AllSent(s) == \A i \in Indices(s) : future[s][i].at = "ok"

(* A request sends once for each of its channels' names.                    *)
SendsOf(s) == IF s \in Requests THEN Len(Notes[s]) ELSE 1

(* join_all is over: the route writes the result down and sends the whole   *)
(* notification again for the next name.                                    *)
NextName(s) ==
    /\ Joined(s)
    /\ Len(results[s]) < SendsOf(s)
    /\ results' = [results EXCEPT ![s] = Append(@, AllSent(s))]
    /\ IF Len(results'[s]) < SendsOf(s)
       THEN /\ future' = [future EXCEPT ![s] = Begun(s)]
            /\ received' = [received EXCEPT ![s] = {}]
       ELSE UNCHANGED <<future, received>>
    /\ UNCHANGED <<circuit, polled>>

TimePassed ==
    /\ circuit' = [circuit EXCEPT !.last = IF @ = "fresh" THEN "old" ELSE @]
    /\ UNCHANGED <<future, polled, received, results>>

BreakerStep(s, i) ==
    \/ LoadOpen(s, i) \/ LookAtTime(s, i) \/ HalfOpen(s, i) \/ HalfOpened(s, i)
    \/ ForgetFailures(s, i) \/ CountSuccess(s, i) \/ Close(s, i) \/ Closed(s, i)
    \/ CountFailure(s, i) \/ Open(s, i) \/ RecordTime(s, i)

SendStep(s, i) == Sent(s, i) \/ NotSent(s, i) \/ Retry(s, i)

AlertsNext ==
    \/ \E s \in Senders : \E i \in Indices(s) : BreakerStep(s, i) \/ SendStep(s, i)
    \/ \E s \in Senders : NextName(s)
    \/ TimePassed

AlertsSpec == AlertsInit /\ [][AlertsNext]_alertVars

-----------------------------------------------------------------------------
(* Properties *)

(* The types; a task is in at most one of its futures between two awaits.   *)
AlertsTypeOK ==
    /\ circuit \in [failures : Nat, successes : Nat, open : BOOLEAN, last : Late]
    /\ DOMAIN future = Senders /\ DOMAIN polled = Senders /\ DOMAIN received = Senders
    /\ \A s \in Senders :
        /\ future[s] \in [Indices(s) -> Futures]
        /\ polled[s] \in {0} \cup Indices(s)
        /\ received[s] \subseteq Channels(s)
        /\ \A i \in Indices(s) : future[s][i].at \in Working <=> polled[s] = i

(* The circuit is not stuck: an open one has a last failure, from which     *)
(* is_open can tell when to try again, or whoever opened it is writing it.  *)
CircuitCanRecover ==
    circuit.open =>
        \/ circuit.last # "none"
        \/ \E s \in Senders : \E i \in Indices(s) : future[s][i].at = "time"

(* When every future of a send succeeds, every channel of the notification  *)
(* has confirmed it (ChannelResult::success).                               *)
SuccessIsTrue ==
    \A s \in Senders : AllSent(s) => received[s] = Channels(s)

(* Both.                                                                    *)
AlertsSound == CircuitCanRecover /\ SuccessIsTrue
=============================================================================
