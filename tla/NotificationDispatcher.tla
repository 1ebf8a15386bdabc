------------------------ MODULE NotificationDispatcher ------------------------
(***************************************************************************)
(* gl_notify: the NotificationDispatcher, which turns the events that      *)
(* AnalysisService stores into deliveries, one for each channel, and sends *)
(* what is due.  Each round first makes deliveries for new events and then *)
(* works on at most max_concurrent_deliveries of them, one task each, and  *)
(* waits for the tasks.                                                    *)
(*                                                                         *)
(* get_pending_deliveries compares scheduled_at and the time as strings.   *)
(* What is due is therefore a beginning of the table in the order of       *)
(* scheduled_at: the sequence due.  A delivery that has just been made, or *)
(* put off, is never due yet (a new one not before the next day, its       *)
(* RFC 3339 "T" sorting after the blank of datetime('now')), and becomes   *)
(* so with time, behind all that are.                                      *)
(***************************************************************************)
EXTENDS AnalysisService, SequencesExt

CONSTANTS
    Channels,       \* the enabled channels, in the order of the configuration
    Threshold,      \* severity_threshold of each
    Usable,         \* those of a known type whose configuration is complete
    RetryDelays,    \* the lengths retry_delays_minutes may have
    EventLimit,     \* the 100 of process_pending_events
    MaxConcurrent,  \* max_concurrent_deliveries
    MaxRows         \* bound: deliveries and events the properties look at

ChannelIds == {Channels[k] : k \in DOMAIN Channels}

ASSUME ChannelsAssumption ==
    /\ Channels \in Seq(ChannelIds) /\ Threshold \in [ChannelIds -> Severities]
    /\ \A j, k \in DOMAIN Channels : Channels[j] = Channels[k] => j = k
ASSUME DispatcherNumbers ==
    /\ RetryDelays \subseteq Nat /\ RetryDelays # {}
    /\ EventLimit \in Nat \ {0} /\ MaxConcurrent \in Nat \ {0} /\ MaxRows \in Nat

VARIABLES
    rows,           \* notification_deliveries, in the order they were made
    due,            \* ids of rows that are due, by scheduled_at
    pc,             \* where the dispatcher's loop is
    todo,           \* events of this round it has not looked at
    event, wanted,  \* the event rows are made for, the channels still to do
    tasks,          \* the delivery tasks at work, by row
    delays,         \* retry_delays_minutes.len()
    missed          \* history: <<event, channel>> whose row could not be made

loopVars == <<pc, todo, event, wanted>>
dispatchVars == <<rows, due, loopVars, tasks, delays, missed>>
vars == <<analysisVars, incidents, dispatchVars>>

Rows == [event : Events, channel : ChannelIds,
         status : {"pending", "retry", "sent", "failed", "gone"},
         attempts : Nat, maxAttempts : Nat,
         sends : Nat,       \* history: times it went out
         unmarked : Nat]    \* history: those not recorded as sent
Open == {"pending", "retry"}
Tasks == [stage : {"get", "sent", "refused"}, attempts : Nat]

DispatchTypeOK ==
    /\ AnalysisTypeOK
    /\ rows \in Seq(Rows)
    /\ due \in Seq(1 .. Len(rows))
    /\ pc \in {"next", "create", "join"}
    /\ todo \subseteq Events
    /\ pc = "create" => event \in Events /\ wanted # {}
    /\ wanted \subseteq DOMAIN Channels
    /\ \E T \in SUBSET (1 .. Len(rows)) : tasks \in [T -> Tasks]
    /\ delays \in RetryDelays
    /\ missed \subseteq Events \X ChannelIds

Idle == [no |-> 0]

Init ==
    /\ AnalysisInit
    /\ rows = <<>> /\ due = <<>>
    /\ pc = "join" /\ todo = {} /\ event = Idle /\ wanted = {} /\ tasks = <<>>
    /\ delays \in RetryDelays
    /\ missed = {}

-----------------------------------------------------------------------------
(* process_pending_events, when the tasks of the last round have ended.  The *)
(* query takes the first EventLimit of all the events that are to be         *)
(* notified, those with deliveries included.                                 *)
Before(e, f) == e.severity > f.severity \/ (e.severity = f.severity /\ e.no < f.no)
(* Faulty: should_notify is not looked at. *)
AllEvents == events

Notifiable == {e \in events : e.notify}
Crowded(e) == Cardinality({f \in Notifiable : Before(f, e)}) >= EventLimit

LoadEvents ==
    /\ pc = "join" /\ DOMAIN tasks = {}
    /\ todo' = {e \in Notifiable : ~Crowded(e)}
    /\ pc' = "next"
    /\ UNCHANGED <<analysisVars, incidents, rows, due, event, wanted, tasks, delays, missed>>

Deliveries(e) == {i \in DOMAIN rows : rows[i].event = e /\ rows[i].status # "gone"}
Meets(e, k) == e.severity >= Threshold[Channels[k]]
WantedBy(e) == {k \in DOMAIN Channels : Meets(e, k)}

(* Faulty: an event with deliveries ends the loop instead of one turn of it. *)
NextEventBreaks(e) ==
    /\ pc = "next" /\ e \in todo /\ \A f \in todo : ~Before(f, e)
    /\ IF Deliveries(e) = {} /\ WantedBy(e) # {}
       THEN pc' = "create" /\ event' = e /\ wanted' = WantedBy(e) /\ todo' = todo \ {e}
       ELSE todo' = {} /\ UNCHANGED <<pc, event, wanted>>
    /\ UNCHANGED <<analysisVars, incidents, rows, due, tasks, delays, missed>>

(* The next event is passed over when it has deliveries already. *)
NextEvent(e) ==
    /\ pc = "next" /\ e \in todo /\ \A f \in todo : ~Before(f, e)
    /\ todo' = todo \ {e}
    /\ IF Deliveries(e) = {} /\ WantedBy(e) # {}
       THEN pc' = "create" /\ event' = e /\ wanted' = WantedBy(e)
       ELSE UNCHANGED <<pc, event, wanted>>
    /\ UNCHANGED <<analysisVars, incidents, rows, due, tasks, delays, missed>>

(* A query that fails ends this part of the round. *)
EventsFail ==
    /\ \/ pc = "join" /\ DOMAIN tasks = {}
       \/ pc = "next" /\ todo # {}
    /\ Incident
    /\ pc' = "next" /\ todo' = {}
    /\ UNCHANGED <<analysisVars, rows, due, event, wanted, tasks, delays, missed>>

NextWanted == CHOOSE k \in wanted : \A j \in wanted : k <= j

NewRow(e, k) ==
    [event |-> e, channel |-> Channels[k], status |-> "pending", attempts |-> 0,
     maxAttempts |-> delays + 1, sends |-> 0, unmarked |-> 0]

(* Faulty: the end of the channels is looked for too early. *)
MadeStuck ==
    /\ wanted' = wanted \ {NextWanted}
    /\ IF wanted = {} THEN pc' = "next" /\ event' = Idle ELSE UNCHANGED <<pc, event>>
    /\ UNCHANGED <<analysisVars, due, todo, tasks, delays>>

(* Faulty: the first row made ends the loop over the channels. *)
MadeFirst ==
    /\ wanted' = {} /\ pc' = "next" /\ event' = Idle
    /\ UNCHANGED <<analysisVars, due, todo, tasks, delays>>

Made ==
    /\ wanted' = wanted \ {NextWanted}
    /\ IF wanted = {NextWanted} THEN pc' = "next" /\ event' = Idle ELSE UNCHANGED <<pc, event>>
    /\ UNCHANGED <<analysisVars, due, todo, tasks, delays>>

Create ==
    /\ pc = "create" /\ event \in events
    /\ rows' = Append(rows, NewRow(event, NextWanted))
    /\ Made /\ UNCHANGED <<incidents, missed>>

(* A failing insert is logged: the event may have been deleted meanwhile.   *)
CreateFails ==
    /\ pc = "create"
    /\ IF event \in events THEN Incident ELSE UNCHANGED incidents
    /\ missed' = missed \cup {<<event, Channels[NextWanted]>>}
    /\ Made /\ UNCHANGED rows

-----------------------------------------------------------------------------
(* process_pending_deliveries. *)
Waiting(i) == rows[i].status \in Open /\ \A k \in DOMAIN due : due[k] # i

(* Time passes: new rows become due in their order. *)
BecomesDue(i) ==
    /\ i \in DOMAIN rows /\ Waiting(i)
    /\ rows[i].status = "pending" =>
          \A j \in 1 .. i - 1 : rows[j].status = "pending" => ~Waiting(j)
    /\ due' = Append(due, i)
    /\ UNCHANGED <<analysisVars, incidents, rows, loopVars, tasks, delays, missed>>

Pending(i) == rows[i].status \in Open /\ rows[i].attempts < rows[i].maxAttempts
Taken ==
    {due[k] : k \in {m \in DOMAIN due :
        /\ Pending(due[m])
        /\ Cardinality({j \in 1 .. m - 1 : Pending(due[j])}) < MaxConcurrent}}

LoadDeliveries ==
    /\ pc = "next" /\ todo = {}
    /\ tasks' = [i \in Taken |-> [stage |-> "get", attempts |-> rows[i].attempts]]
    /\ pc' = "join"
    /\ UNCHANGED <<analysisVars, incidents, rows, due, todo, event, wanted, delays, missed>>

LoadFails ==
    /\ pc = "next" /\ todo = {} /\ Incident
    /\ pc' = "join"
    /\ UNCHANGED <<analysisVars, rows, due, todo, event, wanted, tasks, delays, missed>>

Ends(i) == tasks' = [j \in DOMAIN tasks \ {i} |-> tasks[j]]

(* Faulty: the row is marked before the notification goes out. *)
SendMarksFirst(i) ==
    /\ i \in DOMAIN tasks /\ tasks[i].stage = "get" /\ rows[i].event \in events
    /\ IF rows[i].status # "sent"
       THEN rows' = [rows EXCEPT ![i].status = "sent"] /\ UNCHANGED tasks
       ELSE rows' = [rows EXCEPT ![i].sends = @ + 1] /\ Ends(i)
    /\ UNCHANGED <<analysisVars, incidents, due, loopVars, delays, missed>>

(* process_single_delivery of row i, up to the answer of the channel; an    *)
(* event that is gone ends the task.                                        *)
Send(i) ==
    /\ i \in DOMAIN tasks /\ tasks[i].stage = "get"
    /\ IF rows[i].event \notin events
       THEN Ends(i) /\ UNCHANGED rows
       ELSE IF rows[i].channel \in Usable
       THEN /\ tasks' = [tasks EXCEPT ![i].stage = "sent"]
            /\ rows' = [rows EXCEPT ![i].sends = @ + 1, ![i].unmarked = @ + 1]
       ELSE tasks' = [tasks EXCEPT ![i].stage = "refused"] /\ UNCHANGED rows
    /\ UNCHANGED <<analysisVars, incidents, due, loopVars, delays, missed>>

(* A row that is no longer due leaves the sequence. *)
Undue(i) ==
    IF \E k \in DOMAIN due : due[k] = i
    THEN due' = RemoveAt(due, CHOOSE k \in DOMAIN due : due[k] = i)
    ELSE UNCHANGED due

Updates(i, row) ==
    /\ IF rows[i].status = "gone" THEN UNCHANGED <<rows, due>>
       ELSE rows' = [rows EXCEPT ![i] = row] /\ Undue(i)
    /\ Ends(i)
    /\ UNCHANGED <<analysisVars, incidents, loopVars, delays, missed>>

MarkSent(i) ==
    /\ i \in DOMAIN tasks /\ tasks[i].stage = "sent"
    /\ Updates(i, [rows[i] EXCEPT !.status = "sent", !.unmarked = @ - 1])

(* Faulty: scheduled_at is left as it was. *)
ScheduleRetryNow(i) ==
    /\ i \in DOMAIN tasks /\ tasks[i].stage = "refused" /\ tasks[i].attempts < delays
    /\ rows[i].status # "gone"
    /\ rows' = [rows EXCEPT ![i].status = "retry"]
    /\ Ends(i)
    /\ UNCHANGED <<analysisVars, incidents, due, loopVars, delays, missed>>

(* schedule_retry leaves attempt_count alone. *)
ScheduleRetry(i) ==
    /\ i \in DOMAIN tasks /\ tasks[i].stage = "refused" /\ tasks[i].attempts < delays
    /\ rows[i].attempts < rows[i].maxAttempts
    /\ Updates(i, [rows[i] EXCEPT !.status = "retry"])

GiveUp(i) ==
    /\ i \in DOMAIN tasks /\ tasks[i].stage = "refused" /\ tasks[i].attempts >= delays
    /\ Updates(i, [rows[i] EXCEPT !.status = "failed", !.attempts = @ + 1])

(* The first query or the last update of a task fails, which ends it. *)
TaskFails(i) ==
    /\ i \in DOMAIN tasks
    /\ Incident
    /\ Ends(i)
    /\ UNCHANGED <<analysisVars, rows, due, loopVars, delays, missed>>

-----------------------------------------------------------------------------
(* The rows of a deleted stream's events go with them. *)
Cascade(s) ==
    /\ rows' = [i \in DOMAIN rows |->
                  IF rows[i].event.stream = s THEN [rows[i] EXCEPT !.status = "gone"] ELSE rows[i]]
    /\ UNCHANGED <<due, loopVars, tasks, delays, missed>>

(* The process is started again, possibly with another configuration. *)
Restart ==
    /\ AnalysisRestart
    /\ pc' = "join" /\ todo' = {} /\ event' = Idle /\ wanted' = {} /\ tasks' = <<>>
    /\ delays' \in RetryDelays
    /\ missed' = missed \cup {<<event, Channels[k]>> : k \in wanted}
    /\ UNCHANGED <<rows, due>>

Analysis ==
    /\ \/ AnalyzeFrame
       \/ \E e \in batch : Store(e) \/ StoreFails(e)
       \/ UpdateConfig
       \/ Tick
    /\ UNCHANGED dispatchVars

Round ==
    LoadEvents \/ (\E e \in todo : NextEvent(e)) \/ Create \/ LoadDeliveries

Task(i) == Send(i) \/ MarkSent(i) \/ ScheduleRetry(i) \/ GiveUp(i)

Next ==
    \/ Analysis
    \/ Round \/ EventsFail \/ CreateFails \/ LoadFails
    \/ \E i \in DOMAIN rows : Task(i) \/ TaskFails(i) \/ BecomesDue(i)
    \/ \E s \in streams : DeleteStream(s) /\ Cascade(s)
    \/ Restart

NextDue(status) == \E i \in DOMAIN rows : rows[i].status = status /\ BecomesDue(i)

(* The loop and its tasks keep running, as tokio polls them, and time       *)
(* passes, for the new rows and for those that were put off.                *)
Spec ==
    /\ Init /\ [][Next]_vars
    /\ WF_vars(Round \/ CreateFails)
    /\ WF_vars(\E i \in DOMAIN rows : Task(i))
    /\ WF_vars(NextDue("pending")) /\ WF_vars(NextDue("retry"))

-----------------------------------------------------------------------------
(* A delivery goes out again only when an earlier time was not recorded:    *)
(* those recorded are one if the row says 'sent', and none otherwise.       *)
SentOnce ==
    \A i \in DOMAIN rows : rows[i].status # "gone" =>
        rows[i].sends = rows[i].unmarked + (IF rows[i].status = "sent" THEN 1 ELSE 0)

(* There is a delivery only for an event that was to be notified and meets  *)
(* the channel's threshold, and no second one for the same channel.         *)
RowsSound ==
    \A i \in DOMAIN rows :
        /\ rows[i].event.notify
        /\ rows[i].event.severity >= Threshold[rows[i].channel]
        /\ \A j \in DOMAIN rows :
              rows[i].event = rows[j].event /\ rows[i].channel = rows[j].channel => i = j

(* An event with one delivery has one for every channel it is meant for,    *)
(* once the dispatcher has left it, but for the rows that could not be      *)
(* made: those are never made up for.                                       *)
ChannelsCovered ==
    \A e \in events : e # event /\ Deliveries(e) # {} =>
        \A k \in WantedBy(e) :
            \/ \E i \in Deliveries(e) : rows[i].channel = Channels[k]
            \/ <<e, Channels[k]>> \in missed

(* The deliveries are those the events call for.                            *)
DeliveriesExact == RowsSound /\ ChannelsCovered

(* A delivery on a channel that works is made in the end, however many      *)
(* others are retried for ever on one that does not.                        *)
GoodChannelsDeliver ==
    \A i \in 1 .. MaxRows :
        i \in DOMAIN rows /\ rows[i].channel \in Usable
        ~> i \in DOMAIN rows /\ rows[i].status \in {"sent", "gone"}

(* An event some channel wants has its deliveries made, unless EventLimit   *)
(* others are before it, which they stay when they have been notified.      *)
EventsNotified ==
    \A n \in 0 .. MaxRows - 1 :
        (\E e \in Notifiable : e.no = n /\ WantedBy(e) # {})
        ~> \A e \in Notifiable : e.no = n =>
              Crowded(e) \/ Deliveries(e) # {} \/ \E c \in ChannelIds : <<e, c>> \in missed
=============================================================================
