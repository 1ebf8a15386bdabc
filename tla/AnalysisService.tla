---------------------------- MODULE AnalysisService ----------------------------
(***************************************************************************)
(* gl_analysis: AnalysisService::analyze.  The captures send it frames,    *)
(* and its mutex lets one through at a time.  The pipeline turns a frame   *)
(* into a batch of events, the rule engine drops and changes some of them  *)
(* with the help of the history it keeps, the configuration filters the    *)
(* rest, and what is left is inserted, row by row, in analysis_events.     *)
(*                                                                         *)
(* Events are numbered in the order the rule engine lets them through,     *)
(* which is also the order of their rows.  Sending to the notification     *)
(* manager is left out: analyze gives it no channels, so nothing is sent.  *)
(***************************************************************************)
EXTENDS Naturals, Sequences, FiniteSets

CONSTANTS
    Streams,        \* the templates whose frames are analysed
    Answers,        \* what the AI may say: a description, objects, a summary
    Rules,          \* the enabled rules, the highest priority first
    DedupTypes,     \* DeduplicationConfig::event_types
    Window,         \* its window, and that of the event counts of rules
    MaxHistory,     \* max_history_size
    MinSeverity,    \* NotificationConfig::min_severity
    RuleQuiet,      \* the quiet hours of the rule set, as ticks of the clock
    ConfigQuiet,    \* the quiet hours of the notification settings
    MaxTime,        \* bound: the clock stops here
    MaxInputs,      \* bound: frames in which something is found
    MaxIncidents    \* bound: failing database calls, restarts, new configurations,
                    \* deleted streams

ObjectTypes == {"fire_detected", "person_detected", "car_detected", "animal_detected"}
EventTypes  == ObjectTypes \cup {"motion_detected", "frame_described", "activity_summary"}

(* Info = 0, Low, Medium, High, Critical, as the derived order has them.    *)
Severities == 0 .. 4
SeverityOf == [t \in EventTypes |->
    CASE t = "fire_detected" -> 4
      [] t = "person_detected" -> 3
      [] t \in {"motion_detected", "car_detected"} -> 2
      [] t \in {"frame_described", "animal_detected"} -> 1
      [] t = "activity_summary" -> 0]

(* A rule of one action; one of several is as many rules with its           *)
(* conditions, none of which looks at what an action changes.               *)
RuleForms == [types : SUBSET EventTypes, atLeast : Nat,
              action : {"suppress", "delete", "set_severity"}, severity : Severities]

ASSUME RulesAssumption == Rules \in Seq(RuleForms) /\ DedupTypes \subseteq EventTypes
ASSUME AnswersAssumption ==
    Answers \subseteq [described : BOOLEAN, objects : Seq(ObjectTypes), summary : BOOLEAN]
ASSUME AnalysisNumbers ==
    /\ Window \in Nat /\ MaxHistory \in Nat /\ MinSeverity \in Severities
    /\ MaxTime \in Nat /\ MaxInputs \in Nat /\ MaxIncidents \in Nat

VARIABLES
    now,            \* Utc::now
    memory,         \* RuleEngine::event_history
    kept,           \* the number of events the rule engine has let through
    engine,         \* history: which RuleEngine this is
    batch,          \* the events analyze has still to insert
    inputs,         \* history: frames in which something was found
    events,         \* the rows of analysis_events
    streams,        \* the rows of streams
    incidents       \* what MaxIncidents bounds

ruleVars == <<memory, kept, engine>>
analysisVars == <<now, ruleVars, batch, inputs, events, streams>>

Events == [type : EventTypes, stream : Streams, severity : Severities,
           notify : BOOLEAN, time : Nat, no : Nat, input : Nat, engine : Nat]

AnalysisTypeOK ==
    /\ now \in 0 .. MaxTime
    /\ memory \subseteq Events /\ batch \subseteq Events /\ events \subseteq Events
    /\ kept \in Nat
    /\ engine \in Nat
    /\ inputs \in 0 .. MaxInputs
    /\ streams \subseteq Streams
    /\ incidents \in 0 .. MaxIncidents

AnalysisInit ==
    /\ now = 0
    /\ memory = {} /\ kept = 0 /\ engine = 0
    /\ batch = {} /\ inputs = 0
    /\ events = {} /\ streams = Streams
    /\ incidents = 0

-----------------------------------------------------------------------------
(* The pipeline.  A processor that fails adds nothing and the next one runs; *)
(* the AI is asked only about frames with motion, and names what it finds,   *)
(* possibly the same kind twice.                                             *)
Pipeline(motion, ai) ==
    LET moved == IF motion THEN <<"motion_detected">> ELSE <<>>
        seen  == IF motion /\ ai.described THEN <<"frame_described">> \o ai.objects ELSE <<>>
        last  == IF ai.summary /\ Len(moved \o seen) >= 2 THEN <<"activity_summary">> ELSE <<>>
    IN  moved \o seen \o last

Raw(s, type) ==
    [type |-> type, stream |-> s, severity |-> SeverityOf[type], notify |-> TRUE,
     time |-> now, no |-> 0, input |-> inputs, engine |-> engine]

-----------------------------------------------------------------------------
(* The rule engine.  Every event of a batch is judged by the history as it  *)
(* was before the batch.                                                    *)
Recent == {h \in memory : h.time + Window > now}

Applies(r, e) ==
    /\ e.type \in r.types
    /\ Cardinality({h \in Recent : h.type \in r.types}) >= r.atLeast

Applying(action, e) == {i \in DOMAIN Rules : Rules[i].action = action /\ Applies(Rules[i], e)}

(* The last rule to set it decides. *)
RuledSeverity(e) ==
    IF Applying("set_severity", e) = {} THEN e.severity
    ELSE LET last == CHOOSE i \in Applying("set_severity", e) :
                        \A j \in Applying("set_severity", e) : j <= i
         IN  Rules[last].severity

(* The keys compared: the type, the source and the template. *)
SameKey(e, f) == e.type = f.type /\ e.stream = f.stream

check_deduplication(e) ==
    e.type \in DedupTypes => \A h \in Recent : ~SameKey(h, e)

Survives(e) == Applying("delete", e) = {} /\ check_deduplication(e)

Ruled(e) ==
    [e EXCEPT !.severity = RuledSeverity(e),
              !.notify = Applying("suppress", e) = {} /\ now \notin RuleQuiet]

(* The events of raw that survive, numbered in their order. *)
apply_rules(raw) ==
    LET through == {i \in DOMAIN raw : Survives(raw[i])}
    IN  {[Ruled(raw[i]) EXCEPT !.no = kept + Cardinality({j \in through : j < i})] :
           i \in through}

(* Faulty: one event too many goes. *)
RememberFewer(new, count) == {h \in memory \cup new : h.no + MaxHistory > count}

(* The oldest go when there are more than max_history_size. *)
Remember(new, count) == {h \in memory \cup new : h.no + MaxHistory >= count}

apply_config_filters(new) ==
    {[e EXCEPT !.notify = e.notify /\ now \notin ConfigQuiet] :
       e \in {f \in new : f.severity >= MinSeverity}}

(* A frame of s goes through the pipeline, the rules and the filters.  The  *)
(* whole of an analysis, inserts included, takes less than a tick.          *)
Analyze(s, found) ==
    /\ batch = {} /\ inputs < MaxInputs
    /\ inputs' = IF found = <<>> THEN inputs ELSE inputs + 1
    /\ LET new == apply_rules([i \in DOMAIN found |-> Raw(s, found[i])])
       IN  /\ kept' = kept + Cardinality(new)
           /\ memory' = Remember(new, kept + Cardinality(new))
           /\ batch' = apply_config_filters(new)
    /\ UNCHANGED <<now, engine, events, streams, incidents>>

AnalyzeFrame ==
    \E s \in Streams, motion \in BOOLEAN, ai \in Answers : Analyze(s, Pipeline(motion, ai))

Incident == incidents < MaxIncidents /\ incidents' = incidents + 1

First(e) == e \in batch /\ \A f \in batch : e.no <= f.no

(* store_events inserts the next event; its stream must still be there. *)
Store(e) ==
    /\ First(e) /\ e.stream \in streams
    /\ events' = events \cup {e}
    /\ batch' = batch \ {e}
    /\ UNCHANGED <<now, ruleVars, inputs, streams, incidents>>

(* An insert fails: analyze returns the error, the rest is not inserted.    *)
StoreFails(e) ==
    /\ First(e)
    /\ IF e.stream \in streams
       THEN Incident ELSE UNCHANGED incidents
    /\ batch' = {}
    /\ UNCHANGED <<now, ruleVars, inputs, events, streams>>

(* A new configuration comes with a new rule engine. *)
UpdateConfig ==
    /\ batch = {} /\ Incident
    /\ memory' = {} /\ engine' = engine + 1
    /\ UNCHANGED <<now, kept, batch, inputs, events, streams>>

(* So does a restart, which loses what was not inserted. *)
AnalysisRestart ==
    /\ Incident
    /\ memory' = {} /\ engine' = engine + 1
    /\ batch' = {}
    /\ UNCHANGED <<now, kept, inputs, events, streams>>

Tick ==
    /\ batch = {} /\ now < MaxTime
    /\ now' = now + 1
    /\ UNCHANGED <<ruleVars, batch, inputs, events, streams, incidents>>

(* A stream is deleted, and the rows of its events with it. *)
DeleteStream(s) ==
    /\ s \in streams /\ Incident
    /\ streams' = streams \ {s}
    /\ events' = {e \in events : e.stream # s}
    /\ UNCHANGED <<now, ruleVars, batch, inputs>>

-----------------------------------------------------------------------------
(* Two events of one key are stored from two frames only when they are a    *)
(* window apart, or max_history_size events have come between them, or the  *)
(* rule engine has been replaced.                                           *)
DuplicatesApart ==
    \A e, f \in events :
        /\ e.no < f.no /\ SameKey(e, f) /\ e.type \in DedupTypes
        /\ e.engine = f.engine /\ e.input # f.input
        => e.time + Window <= f.time \/ e.no + MaxHistory < f.no
=============================================================================
