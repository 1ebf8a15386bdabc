--------------------- MODULE NotificationDispatcherProofs ---------------------
(***************************************************************************)
(* For any events, rules, channels and limits: duplicates are kept apart,   *)
(* every event has the rows its channels call for, and a notification goes  *)
(* out again only when an earlier time was not recorded.                    *)
(***************************************************************************)
EXTENDS NotificationDispatcher, SequenceTheorems, FiniteSetTheorems, WellFoundedInduction, TLAPS

(* A set of numbers has a smallest, and one that is bounded a largest.       *)
LEMMA SmallestOf ==
    ASSUME NEW A \in SUBSET Nat, A # {}
    PROVE  \E m \in A : \A n \in A : m <= n
<1>1. PICK m \in A : \A n \in A : <<n, m>> \notin OpToRel(<, Nat)
  BY NatLessThanWellFounded, WFMin, Zenon
<1>2. \A n \in A : ~(n < m)
  BY <1>1 DEF OpToRel
<1> QED
  BY <1>2

LEMMA LargestOf ==
    ASSUME NEW top \in Nat, NEW A \in SUBSET (1 .. top), A # {}
    PROVE  \E m \in A : \A n \in A : n <= m
<1> DEFINE B == {top - n : n \in A}
<1>0. \A n \in A : n \in 1 .. top /\ top - n \in Nat
  OBVIOUS
<1>1. B \in SUBSET Nat /\ B # {}
  <2>1. \A b \in B : b \in Nat
    BY <1>0
  <2>2. PICK n \in A : TRUE
    OBVIOUS
  <2>3. top - n \in B
    OBVIOUS
  <2> QED
    BY <2>1, <2>3
<1> HIDE DEF B
<1>2. PICK b \in B : \A c \in B : b <= c
  BY <1>1, SmallestOf
<1>3. PICK m \in A : b = top - m
  BY DEF B
<1>4. ASSUME NEW n \in A PROVE n <= m
  <2>1. top - n \in B
    BY DEF B
  <2> QED
    BY <1>0, <1>2, <1>3, <2>1
<1> QED
  BY <1>4

-----------------------------------------------------------------------------
(* The analysis.                                                             *)

USE AnalysisNumbers

Stored == batch \cup events

(* Numbers are given out in order, and engines are counted.                  *)
NumbersInv == \A e \in Stored : e.no < kept /\ e.engine <= engine

(* What the present engine has let through it remembers, or max_history_size *)
(* events have come since.                                                   *)
RememberedInv ==
    \A e \in Stored : e.engine = engine =>
        \/ \E h \in memory : SameKey(h, e) /\ h.time = e.time /\ h.no = e.no
        \/ e.no + MaxHistory < kept

Apart(e, f) ==
    /\ e.no < f.no /\ SameKey(e, f) /\ e.type \in DedupTypes
    /\ e.engine = f.engine /\ e.input # f.input
    => e.time + Window <= f.time \/ e.no + MaxHistory < f.no
ApartInv == \A e, f \in Stored : Apart(e, f)

AnalysisInv == AnalysisTypeOK /\ NumbersInv /\ RememberedInv /\ ApartInv

(* How many of a set of numbers are below one of them.                       *)
Below(S, i) == Cardinality({j \in S : j < i})

LEMMA CountedBelow ==
    ASSUME NEW n \in Nat, NEW S \in SUBSET (1 .. n)
    PROVE  /\ IsFiniteSet(S) /\ Cardinality(S) \in Nat
           /\ \A i \in S : Below(S, i) \in Nat /\ Below(S, i) < Cardinality(S)
           /\ \A i, j \in S : i < j => Below(S, i) < Below(S, j)
<1>1. IsFiniteSet(S) /\ Cardinality(S) \in Nat
  <2>1. IsFiniteSet(1 .. n)
    BY FS_Interval
  <2> QED
    BY <2>1, FS_Subset, FS_CardinalityType
<1>2. ASSUME NEW T \in SUBSET S, NEW U \in SUBSET T, NEW i \in T, i \notin U
      PROVE  Cardinality(U) \in Nat /\ Cardinality(T) \in Nat /\ Cardinality(U) < Cardinality(T)
  <2>1. IsFiniteSet(T) /\ IsFiniteSet(U)
    BY <1>1, <1>2, FS_Subset
  <2>2. Cardinality(U) <= Cardinality(T) /\ (Cardinality(T) = Cardinality(U) => T = U)
    BY <2>1, FS_Subset
  <2>3. Cardinality(U) \in Nat /\ Cardinality(T) \in Nat
    BY <2>1, FS_CardinalityType
  <2> QED
    BY <1>2, <2>2, <2>3
<1>3. ASSUME NEW i \in S PROVE Below(S, i) \in Nat /\ Below(S, i) < Cardinality(S)
  <2>1. i \notin {j \in S : j < i} /\ {j \in S : j < i} \in SUBSET S
    OBVIOUS
  <2> QED
    BY <1>2, <2>1 DEF Below
<1>4. ASSUME NEW i \in S, NEW j \in S, i < j PROVE Below(S, i) < Below(S, j)
  <2>1. /\ {k \in S : k < i} \in SUBSET {k \in S : k < j} /\ {k \in S : k < j} \in SUBSET S
        /\ i \in {k \in S : k < j} /\ i \notin {k \in S : k < i}
    <3>1. \A k \in S : (k < i => k < j) /\ ~(i < i)
      BY <1>4
    <3> QED
      BY <1>4, <3>1
  <2> QED
    BY <1>2, <2>1 DEF Below
<1> QED
  BY <1>1, <1>3, <1>4

(* The last rule that sets it decides: there is one, and it names a severity. *)
LEMMA SeverityRuled ==
    ASSUME NEW e, e.severity \in Severities
    PROVE  RuledSeverity(e) \in Severities
<1> DEFINE A == Applying("set_severity", e)
<1>1. Len(Rules) \in Nat /\ DOMAIN Rules = 1 .. Len(Rules) /\ \A i \in DOMAIN Rules : Rules[i] \in RuleForms
  BY RulesAssumption, LenProperties, ElementOfSeq
<1>2. A \in SUBSET (1 .. Len(Rules))
  BY <1>1 DEF Applying
<1>3. CASE A = {}
  BY <1>3 DEF RuledSeverity
<1>4. CASE A # {}
  <2> DEFINE last == CHOOSE i \in A : \A j \in A : j <= i
  <2>1. last \in A
    <3> HIDE DEF A
    <3>1. \E i \in A : \A j \in A : j <= i
      BY <1>1, <1>2, <1>4, LargestOf
    <3> QED
      BY <3>1
  <2>2. RuledSeverity(e) = Rules[last].severity
    BY <1>4 DEF RuledSeverity
  <2>3. Rules[last] \in RuleForms
    BY <1>1, <1>2, <2>1
  <2> HIDE DEF last
  <2> QED
    BY <2>2, <2>3 DEF RuleForms
<1> QED
  BY <1>3, <1>4

(* Events that differ in severity and in being notified at most.             *)
Same(f, e) ==
    /\ f.type = e.type /\ f.stream = e.stream /\ f.time = e.time
    /\ f.no = e.no /\ f.input = e.input /\ f.engine = e.engine

LEMMA EventSet ==
    ASSUME NEW e \in Events
    PROVE  /\ \A x \in BOOLEAN : [e EXCEPT !.notify = x] \in Events /\ Same([e EXCEPT !.notify = x], e)
           /\ \A x \in Severities : [e EXCEPT !.severity = x] \in Events /\ Same([e EXCEPT !.severity = x], e)
           /\ \A n \in Nat : LET f == [e EXCEPT !.no = n]
                             IN f \in Events /\ f.no = n /\ Same(f, [e EXCEPT !.no = n])
                                /\ f.type = e.type /\ f.stream = e.stream /\ f.time = e.time
                                /\ f.input = e.input /\ f.engine = e.engine
  BY DEF Events, Same

LEMMA EventRuled ==
    ASSUME NEW e \in Events
    PROVE  Ruled(e) \in Events /\ Same(Ruled(e), e)
<1>1. e.severity \in Severities
  BY DEF Events
<1> DEFINE n == Applying("suppress", e) = {} /\ now \notin RuleQuiet
           f == [e EXCEPT !.severity = RuledSeverity(e)]
           g == [f EXCEPT !.notify = n]
<1>2. f \in Events /\ Same(f, e)
  BY <1>1, SeverityRuled, EventSet
<1>3. n \in BOOLEAN
  OBVIOUS
<1>4. Ruled(e) = g
  BY DEF Ruled
<1> HIDE DEF f, n
<1>5. g \in Events /\ Same(g, f)
  BY <1>2, <1>3, EventSet
<1> HIDE DEF g
<1> QED
  BY <1>2, <1>4, <1>5 DEF Same

(* What the rules let through of a frame, and what is made of it.            *)
Through(raw) == {i \in DOMAIN raw : Survives(raw[i])}
Numbered(raw, i) == [Ruled(raw[i]) EXCEPT !.no = kept + Below(Through(raw), i)]

Fresh(g, s) ==
    /\ g \in Events /\ kept <= g.no
    /\ g.time = now /\ g.stream = s /\ g.input = inputs /\ g.engine = engine
    /\ g.type \in DedupTypes => \A h \in Recent : ~SameKey(h, g)

LEMMA RawOfFrame ==
    ASSUME AnalysisTypeOK, NEW s \in Streams, NEW type \in EventTypes
    PROVE  /\ Raw(s, type) \in Events
           /\ LET e == Raw(s, type)
              IN  /\ e.time = now /\ e.stream = s /\ e.input = inputs /\ e.engine = engine
                  /\ e.type = type
<1>1. SeverityOf[type] \in Severities
  BY DEF SeverityOf, EventTypes, ObjectTypes, Severities
<1>2. now \in Nat /\ inputs \in Nat /\ engine \in Nat
  BY DEF AnalysisTypeOK
<1> QED
  BY <1>1, <1>2 DEF Raw, Events

LEMMA FrameNumbered ==
    ASSUME AnalysisTypeOK, NEW s \in Streams, NEW found \in Seq(EventTypes)
    PROVE  LET raw == [i \in DOMAIN found |-> Raw(s, found[i])]
               new == apply_rules(raw)
           IN  /\ Cardinality(new) \in Nat
               /\ \A g \in new : Fresh(g, s) /\ g.no < kept + Cardinality(new)
<1> DEFINE raw == [i \in DOMAIN found |-> Raw(s, found[i])]
           new == apply_rules(raw)
           S == Through(raw)
           f == [i \in S |-> Numbered(raw, i)]
<1>1. DOMAIN raw = 1 .. Len(found) /\ Len(found) \in Nat /\ S \in SUBSET (1 .. Len(found))
  BY LenProperties DEF Through
<1>2. ASSUME NEW i \in DOMAIN raw
      PROVE  /\ raw[i] \in Events
             /\ raw[i].time = now /\ raw[i].stream = s /\ raw[i].input = inputs /\ raw[i].engine = engine
  <2>1. found[i] \in EventTypes
    BY ElementOfSeq, <1>1
  <2>2. raw[i] = Raw(s, found[i])
    BY <1>1
  <2> HIDE DEF raw
  <2> QED
    BY <2>1, <2>2, RawOfFrame
<1>3. kept \in Nat
  BY DEF AnalysisTypeOK
<1>4. /\ IsFiniteSet(S) /\ Cardinality(S) \in Nat
      /\ \A i \in S : Below(S, i) \in Nat /\ Below(S, i) < Cardinality(S)
      /\ \A i, j \in S : i < j => Below(S, i) < Below(S, j)
  <2> HIDE DEF S
  <2> QED
    BY <1>1, CountedBelow
<1>5. new = {Numbered(raw, i) : i \in S}
  BY DEF apply_rules, Numbered, Through, Below
<1> HIDE DEF new
<1>6. ASSUME NEW i \in S
      PROVE  Fresh(Numbered(raw, i), s) /\ Numbered(raw, i).no = kept + Below(S, i)
  <2>1. i \in DOMAIN raw /\ Survives(raw[i])
    BY DEF Through
  <2> DEFINE e == raw[i]
             r == Ruled(e)
             n == kept + Below(S, i)
             g == [r EXCEPT !.no = n]
  <2>2. /\ e \in Events
        /\ e.time = now /\ e.stream = s /\ e.input = inputs /\ e.engine = engine
    BY <1>2, <2>1
  <2>3. n \in Nat /\ kept <= n
    BY <1>3, <1>4
  <2> HIDE DEF e, n
  <2>4. r \in Events /\ Same(r, e)
    BY <2>2, EventRuled
  <2> HIDE DEF r
  <2>5. /\ g \in Events /\ g.no = n /\ g.type = r.type /\ g.stream = r.stream /\ g.time = r.time
        /\ g.input = r.input /\ g.engine = r.engine
    BY <2>3, <2>4, EventSet
  <2>6. Numbered(raw, i) = g
    BY DEF Numbered, g, r, e, n
  <2> HIDE DEF g
  <2>7. g.type \in DedupTypes => \A h \in Recent : ~SameKey(h, g)
    BY <2>1, <2>4, <2>5 DEF Survives, check_deduplication, SameKey, Same, e
  <2> QED
    BY <2>2, <2>3, <2>4, <2>5, <2>6, <2>7 DEF Fresh, Same, n
<1> HIDE DEF raw, S
<1>7. Cardinality(new) = Cardinality(S)
  <2>1. f \in Surjection(S, new)
    BY <1>5 DEF Surjection
  <2>2. f \in Injection(S, new)
    <3>1. ASSUME NEW i \in S, NEW j \in S, Numbered(raw, i) = Numbered(raw, j) PROVE i = j
      <4>1. Below(S, i) = Below(S, j)
        BY <1>3, <1>4, <1>6, <3>1
      <4> QED
        BY <1>1, <1>4, <4>1
    <3>2. IsInjective(f)
      BY <3>1 DEF IsInjective
    <3>3. f \in [S -> new]
      BY <1>5
    <3> QED
      BY <3>2, <3>3 DEF Injection
  <2> QED
    BY <1>4, <2>1, <2>2, FS_Surjection
<1>8. \A g \in new : Fresh(g, s) /\ g.no < kept + Cardinality(new)
  BY <1>3, <1>4, <1>5, <1>6, <1>7
<1>9. Cardinality(new) \in Nat
  BY <1>4, <1>7
<1> QED
  BY <1>8, <1>9 DEF new, raw

LEMMA PipelineTypes ==
    ASSUME NEW motion \in BOOLEAN, NEW ai \in Answers
    PROVE  Pipeline(motion, ai) \in Seq(EventTypes)
<1> DEFINE T == EventTypes
           moved == IF motion THEN <<"motion_detected">> ELSE <<>>
           seen  == IF motion /\ ai.described THEN <<"frame_described">> \o ai.objects ELSE <<>>
           last  == IF ai.summary /\ Len(moved \o seen) >= 2 THEN <<"activity_summary">> ELSE <<>>
<1>1. "motion_detected" \in T /\ "frame_described" \in T /\ "activity_summary" \in T
  BY DEF EventTypes
<1>2. ai.objects \in Seq(T)
  <2>1. ai.objects \in Seq(ObjectTypes) /\ ObjectTypes \subseteq T
    BY AnswersAssumption DEF EventTypes
  <2> HIDE DEF T
  <2> QED
    BY <2>1, SeqMonotonic
<1> HIDE DEF T
<1>3. moved \in Seq(T) /\ <<"frame_described">> \in Seq(T) /\ <<>> \in Seq(T) /\ last \in Seq(T)
  <2>1. ASSUME NEW x \in T PROVE <<x>> \in Seq(T)
    OBVIOUS
  <2>2. <<>> \in Seq(T)
    OBVIOUS
  <2>3. <<"motion_detected">> \in Seq(T) /\ <<"frame_described">> \in Seq(T) /\ <<"activity_summary">> \in Seq(T)
    BY <1>1, <2>1
  <2> QED
    BY <2>2, <2>3
<1>4. <<"frame_described">> \o ai.objects \in Seq(T)
  BY <1>2, <1>3, ConcatProperties
<1>5. seen \in Seq(T)
  BY <1>3, <1>4
<1>6. Pipeline(motion, ai) = moved \o seen \o last
  BY DEF Pipeline
<1> HIDE DEF moved, seen, last
<1>7. moved \o seen \in Seq(T)
  BY <1>3, <1>5, ConcatProperties
<1>8. moved \o seen \o last \in Seq(T)
  BY <1>3, <1>7, ConcatProperties
<1> QED
  BY <1>6, <1>8 DEF T

LEMMA AnalysisInvInit == AnalysisInit => AnalysisInv
  BY DEF AnalysisInit, AnalysisInv, AnalysisTypeOK, NumbersInv, RememberedInv, ApartInv, Stored

(* What leaves the rule engine, what it remembers and the rows do not grow.  *)
LEMMA AnalysisShrinks ==
    ASSUME AnalysisInv, Stored' \subseteq Stored, batch' \subseteq Events, events' \subseteq Events,
           now' \in 0 .. MaxTime, inputs' = inputs, streams' \subseteq Streams,
           incidents' \in 0 .. MaxIncidents, kept' = kept,
           (memory' = memory /\ engine' = engine) \/ (memory' = {} /\ engine' = engine + 1)
    PROVE  AnalysisInv'
<1>0. AnalysisTypeOK /\ NumbersInv /\ RememberedInv /\ ApartInv
  BY DEF AnalysisInv
<1>1. AnalysisTypeOK'
  BY <1>0 DEF AnalysisTypeOK
<1>2. \A e \in Stored : e \in Events /\ e.engine \in Nat
  BY <1>0 DEF AnalysisTypeOK, Stored, Events
<1>3. engine \in Nat
  BY <1>0 DEF AnalysisTypeOK
<1>4. NumbersInv'
  <2>1. \A e \in Stored' : e \in Stored /\ e.no < kept /\ e.engine <= engine
    BY <1>0 DEF NumbersInv
  <2> QED
    BY <1>2, <1>3, <2>1 DEF NumbersInv
<1>5. RememberedInv'
  <2>1. CASE memory' = memory /\ engine' = engine
    BY <1>0, <2>1 DEF RememberedInv, SameKey
  <2>2. CASE engine' = engine + 1
    <3>1. \A e \in Stored : e.engine # engine'
      BY <1>0, <1>2, <1>3, <2>2 DEF NumbersInv
    <3> QED
      BY <3>1 DEF RememberedInv
  <2> QED
    BY <2>1, <2>2
<1>6. ApartInv'
  BY <1>0 DEF ApartInv, Apart, SameKey
<1> QED
  BY <1>1, <1>4, <1>5, <1>6 DEF AnalysisInv

(* A frame is analysed.                                                      *)
LEMMA FrameKeeps ==
    ASSUME AnalysisInv, NEW s \in Streams, NEW found \in Seq(EventTypes), Analyze(s, found)
    PROVE  AnalysisInv'
<1> DEFINE new == apply_rules([i \in DOMAIN found |-> Raw(s, found[i])])
           count == kept + Cardinality(new)
<1>0. AnalysisTypeOK /\ NumbersInv /\ RememberedInv /\ ApartInv
  BY DEF AnalysisInv
<1>1. Cardinality(new) \in Nat /\ \A g \in new : Fresh(g, s) /\ g.no < count
  BY <1>0, FrameNumbered
<1>2. /\ batch = {} /\ inputs < MaxInputs /\ inputs' \in {inputs, inputs + 1}
      /\ kept' = count /\ memory' = Remember(new, count) /\ batch' = apply_config_filters(new)
      /\ UNCHANGED <<now, engine, events, streams, incidents>>
  BY DEF Analyze
<1>3. kept \in Nat /\ now \in Nat /\ engine \in Nat /\ inputs \in Nat /\ count \in Nat /\ kept <= count
  BY <1>0, <1>1 DEF AnalysisTypeOK
<1> HIDE DEF new, count
<1>4. ASSUME NEW b \in batch'
      PROVE  b \in Events /\ \E g \in new : Same(b, g)
  <2>1. PICK g \in new : b = [g EXCEPT !.notify = g.notify /\ now \notin ConfigQuiet]
    BY <1>2 DEF apply_config_filters
  <2>2. g \in Events /\ (g.notify /\ now \notin ConfigQuiet) \in BOOLEAN
    BY <1>1 DEF Fresh
  <2> QED
    BY <2>1, <2>2, EventSet
<1>5. ASSUME NEW h \in memory \cup new
      PROVE  h \in Events /\ (h \in memory' \/ h.no + MaxHistory < count)
  <2>1. h \in Events
    BY <1>0, <1>1 DEF AnalysisTypeOK, Fresh
  <2>2. h.no \in Nat
    BY <2>1 DEF Events
  <2> QED
    BY <1>2, <1>3, <2>1, <2>2 DEF Remember
<1>6. Stored = events /\ Stored' = events \cup batch'
  BY <1>2 DEF Stored
<1>7. \A e \in events : e \in Events /\ e.no \in Nat /\ e.time \in Nat
  BY <1>0 DEF AnalysisTypeOK, Events
<1>8. ASSUME NEW b \in batch'
      PROVE  /\ kept <= b.no /\ b.no < count /\ b.no \in Nat
             /\ b.time = now /\ b.input = inputs /\ b.engine = engine
             /\ b.type \in DedupTypes => \A h \in Recent : ~SameKey(h, b)
  <2>1. PICK g \in new : Same(b, g)
    BY <1>4
  <2>2. Fresh(g, s) /\ g.no < count
    BY <1>1
  <2>3. b.no \in Nat
    BY <1>4 DEF Events
  <2> QED
    BY <2>1, <2>2, <2>3 DEF Same, Fresh, SameKey
<1>9. AnalysisTypeOK'
  <2>1. memory' \subseteq Events
    BY <1>0, <1>2, <1>5 DEF Remember
  <2>2. batch' \subseteq Events
    BY <1>4
  <2>3. inputs' \in 0 .. MaxInputs
    BY <1>0, <1>2 DEF AnalysisTypeOK
  <2> QED
    BY <1>0, <1>2, <1>3, <2>1, <2>2, <2>3 DEF AnalysisTypeOK
<1>10. NumbersInv'
  <2>1. ASSUME NEW e \in events PROVE e.no < count /\ e.engine <= engine
    BY <1>0, <1>3, <1>6, <1>7 DEF NumbersInv
  <2>2. ASSUME NEW b \in batch' PROVE b.no < count /\ b.engine <= engine
    BY <1>3, <1>8
  <2> QED
    BY <1>2, <1>6, <2>1, <2>2 DEF NumbersInv
<1>11. RememberedInv'
  <2>1. ASSUME NEW e \in events, e.engine = engine
        PROVE  (\E h \in memory' : SameKey(h, e) /\ h.time = e.time /\ h.no = e.no) \/ e.no + MaxHistory < count
    <3>1. CASE e.no + MaxHistory < kept
      BY <1>3, <1>7, <3>1
    <3>2. CASE \E h \in memory : SameKey(h, e) /\ h.time = e.time /\ h.no = e.no
      BY <1>5, <3>2
    <3> QED
      BY <1>0, <1>6, <2>1, <3>1, <3>2 DEF RememberedInv
  <2>2. ASSUME NEW b \in batch'
        PROVE  (\E h \in memory' : SameKey(h, b) /\ h.time = b.time /\ h.no = b.no) \/ b.no + MaxHistory < count
    BY <1>4, <1>5 DEF Same, SameKey
  <2> QED
    BY <1>2, <1>6, <2>1, <2>2 DEF RememberedInv, SameKey
<1>12. ASSUME NEW e \in events, NEW f \in batch' PROVE Apart(e, f)
  <2> SUFFICES ASSUME e.no < f.no, SameKey(e, f), e.type \in DedupTypes, e.engine = f.engine
               PROVE  e.time + Window <= f.time \/ e.no + MaxHistory < f.no
    BY DEF Apart
  <2>1. e.engine = engine /\ f.time = now /\ kept <= f.no /\ f.no \in Nat /\ e.no \in Nat /\ e.time \in Nat
    BY <1>7, <1>8
  <2>2. CASE e.no + MaxHistory < kept
    BY <1>3, <2>1, <2>2
  <2>3. ASSUME NEW h \in memory, SameKey(h, e), h.time = e.time PROVE e.time + Window <= now
    <3>1. SameKey(h, f) /\ f.type \in DedupTypes
      BY <2>3 DEF SameKey
    <3>2. h \notin Recent
      BY <1>8, <3>1
    <3>3. ~(e.time + Window > now)
      BY <2>3, <3>2 DEF Recent
    <3> QED
      BY <1>3, <2>1, <3>3
  <2> QED
    BY <1>0, <1>6, <2>1, <2>2, <2>3 DEF RememberedInv
<1>13. ASSUME NEW e \in batch', NEW f \in Stored' PROVE Apart(e, f)
  <2>1. CASE f \in events
    <3>1. ~(e.no < f.no)
      BY <1>0, <1>3, <1>6, <1>7, <1>8, <2>1 DEF NumbersInv
    <3> QED
      BY <3>1 DEF Apart
  <2>2. CASE f \in batch'
    BY <1>8, <2>2 DEF Apart
  <2> QED
    BY <1>6, <2>1, <2>2
<1>14. ApartInv'
  <2>1. \A e, f \in Stored' : Apart(e, f)
    BY <1>0, <1>6, <1>12, <1>13 DEF ApartInv
  <2> QED
    BY <2>1 DEF ApartInv, Apart, SameKey
<1> QED
  BY <1>9, <1>10, <1>11, <1>14 DEF AnalysisInv

LEMMA AnalysisInvNext == AnalysisInv /\ [Next]_vars => AnalysisInv'
<1> SUFFICES ASSUME AnalysisInv, [Next]_vars PROVE AnalysisInv'
  OBVIOUS
<1>0. /\ now \in 0 .. MaxTime /\ batch \subseteq Events /\ events \subseteq Events /\ streams \subseteq Streams
      /\ incidents \in 0 .. MaxIncidents
  BY DEF AnalysisInv, AnalysisTypeOK
<1>1. ASSUME Incident \/ UNCHANGED incidents PROVE incidents' \in 0 .. MaxIncidents
  BY <1>0, <1>1 DEF Incident
<1>2. ASSUME UNCHANGED analysisVars, Incident \/ UNCHANGED incidents PROVE AnalysisInv'
  BY <1>0, <1>1, <1>2, AnalysisShrinks DEF analysisVars, ruleVars, Stored
<1>3. CASE AnalyzeFrame
  BY <1>3, PipelineTypes, FrameKeeps DEF AnalyzeFrame
<1>4. ASSUME NEW e \in batch, Store(e) \/ StoreFails(e) PROVE AnalysisInv'
  <2>1. /\ Stored' \subseteq Stored /\ batch' \subseteq batch /\ events' \subseteq batch \cup events
        /\ UNCHANGED <<now, memory, kept, engine, inputs, streams>> /\ (Incident \/ UNCHANGED incidents)
    BY <1>4 DEF Store, StoreFails, Stored, ruleVars
  <2> QED
    BY <1>0, <1>1, <2>1, AnalysisShrinks
<1>5. CASE UpdateConfig \/ AnalysisRestart
  BY <1>0, <1>1, <1>5, AnalysisShrinks DEF UpdateConfig, AnalysisRestart, Stored
<1>6. CASE Tick
  <2>1. now' \in 0 .. MaxTime
    BY <1>0, <1>6 DEF Tick
  <2> QED
    BY <1>0, <1>6, <2>1, AnalysisShrinks DEF Tick, ruleVars, Stored
<1>7. ASSUME NEW s \in streams, DeleteStream(s) PROVE AnalysisInv'
  <2>1. /\ Stored' \subseteq Stored /\ batch' = batch /\ events' \subseteq events /\ streams' \subseteq streams
        /\ UNCHANGED <<now, memory, kept, engine, inputs>> /\ Incident
    BY <1>7 DEF DeleteStream, Stored, ruleVars
  <2> QED
    BY <1>0, <1>1, <2>1, AnalysisShrinks
<1>8. CASE Round \/ EventsFail \/ CreateFails \/ LoadFails
  <2>1. UNCHANGED analysisVars /\ (Incident \/ UNCHANGED incidents)
    BY <1>8 DEF Round, LoadEvents, NextEvent, Create, LoadDeliveries, EventsFail, CreateFails, LoadFails, Made
  <2> QED
    BY <1>2, <2>1
<1>9. ASSUME NEW i, Task(i) \/ TaskFails(i) \/ BecomesDue(i) PROVE AnalysisInv'
  <2>1. UNCHANGED analysisVars /\ (Incident \/ UNCHANGED incidents)
    BY <1>9 DEF Task, Send, MarkSent, ScheduleRetry, GiveUp, Updates, TaskFails, BecomesDue
  <2> QED
    BY <1>2, <2>1
<1>10. CASE UNCHANGED vars
  BY <1>2, <1>10 DEF vars
<1> QED
  BY <1>3, <1>4, <1>5, <1>6, <1>7, <1>8, <1>9, <1>10 DEF Next, Analysis, Restart

(* Two events of one kind are stored from two frames only when the window,   *)
(* max_history_size events or a new rule engine lie between them             *)
(* (gl_analysis rule_engine.rs check_deduplication).                         *)
THEOREM DuplicatesAreApart == Spec => []DuplicatesApart
<1>1. Init => AnalysisInv
  BY AnalysisInvInit DEF Init
<1>2. AnalysisInv => DuplicatesApart
  BY DEF AnalysisInv, ApartInv, Apart, Stored, DuplicatesApart
<1> QED
  BY <1>1, <1>2, AnalysisInvNext, PTL DEF Spec

-----------------------------------------------------------------------------
(* What is sent.                                                             *)

HIDE AnalysisNumbers

(* What the argument needs of a row and of a delivery task.                 *)
RowShape(r) ==
    /\ r = [event |-> r.event, channel |-> r.channel, status |-> r.status,
            attempts |-> r.attempts, maxAttempts |-> r.maxAttempts,
            sends |-> r.sends, unmarked |-> r.unmarked]
    /\ r.sends \in Int /\ r.unmarked \in Int

TaskShape(t) == t = [stage |-> t.stage, attempts |-> t.attempts]

Counted(r) ==
    r.status # "gone" => r.sends = r.unmarked + (IF r.status = "sent" THEN 1 ELSE 0)

(* A delivery at work is on a row that is not yet sent; every row has one   *)
(* task at most, since a round begins when all of the last have ended.      *)
SendInv ==
    /\ \E S : rows \in Seq(S)
    /\ \A i \in DOMAIN rows : RowShape(rows[i]) /\ Counted(rows[i])
    /\ due \in Seq(DOMAIN rows)
    /\ DOMAIN tasks \subseteq DOMAIN rows
    /\ \A i \in DOMAIN tasks : TaskShape(tasks[i]) /\ rows[i].status # "sent"
    /\ pc # "join" => DOMAIN tasks = {}

LEMMA SendInvInit == Init => SendInv
<1> SUFFICES ASSUME Init PROVE SendInv
  OBVIOUS
<1>1. DOMAIN rows = {} /\ DOMAIN tasks = {}
  BY DEF Init
<1>2. rows \in Seq({}) /\ due \in Seq(DOMAIN rows)
  BY EmptySeq DEF Init
<1> QED
  BY <1>1, <1>2 DEF SendInv, Init

(* The two-field updates of a row, one field at a time.                     *)
LEMMA StatusSet ==
    ASSUME NEW row, RowShape(row), NEW x
    PROVE  LET r == [row EXCEPT !.status = x]
           IN  /\ RowShape(r) /\ r.status = x /\ r.attempts = row.attempts
               /\ r.sends = row.sends /\ r.unmarked = row.unmarked
  BY DEF RowShape

LEMMA UnmarkedSet ==
    ASSUME NEW row, RowShape(row), NEW x \in Int
    PROVE  LET r == [row EXCEPT !.unmarked = x]
           IN  /\ RowShape(r) /\ r.status = row.status
               /\ r.sends = row.sends /\ r.unmarked = x
  BY DEF RowShape

LEMMA SendsSet ==
    ASSUME NEW row, RowShape(row), NEW x \in Int
    PROVE  LET r == [row EXCEPT !.sends = x]
           IN  /\ RowShape(r) /\ r.status = row.status
               /\ r.sends = x /\ r.unmarked = row.unmarked
  BY DEF RowShape

LEMMA AttemptsSet ==
    ASSUME NEW row, RowShape(row), NEW x
    PROVE  LET r == [row EXCEPT !.attempts = x]
           IN  /\ RowShape(r) /\ r.status = row.status
               /\ r.sends = row.sends /\ r.unmarked = row.unmarked
  BY DEF RowShape

(* A row is replaced, and leaves what is due or does not.                   *)
LEMMA RowReplaced ==
    ASSUME SendInv, NEW i \in DOMAIN rows, NEW r, RowShape(r), Counted(r),
           rows' = [rows EXCEPT ![i] = r]
    PROVE  /\ \E S : rows' \in Seq(S)
           /\ DOMAIN rows' = DOMAIN rows
           /\ rows'[i] = r
           /\ \A j \in DOMAIN rows : j # i => rows'[j] = rows[j]
           /\ \A j \in DOMAIN rows' : RowShape(rows'[j]) /\ Counted(rows'[j])
<1>1. PICK S : rows \in Seq(S)
  BY DEF SendInv
<1> DEFINE T == S \cup {r}
<1>2. rows \in Seq(T) /\ r \in T
  BY <1>1
<1>3. i \in 1 .. Len(rows) /\ DOMAIN rows = 1 .. Len(rows)
  BY <1>1, LenProperties
<1> HIDE DEF T
<1>4. rows' \in Seq(T)
  BY <1>2, <1>3, ExceptSeq
<1>5. DOMAIN rows' = DOMAIN rows /\ rows'[i] = r /\ \A j \in DOMAIN rows : j # i => rows'[j] = rows[j]
  OBVIOUS
<1> QED
  BY <1>4, <1>5 DEF SendInv

LEMMA UndueKeepsDue ==
    ASSUME SendInv, NEW i, Undue(i)
    PROVE  due' \in Seq(DOMAIN rows)
<1> DEFINE D == DOMAIN rows
<1>1. due \in Seq(D)
  BY DEF SendInv
<1> HIDE DEF D
<1>2. CASE \E k \in DOMAIN due : due[k] = i
  <2>1. PICK k \in DOMAIN due : due' = RemoveAt(due, k)
    BY <1>2 DEF Undue
  <2>2. DOMAIN due = 1 .. Len(due) /\ Len(due) \in Nat
    BY <1>1, LenProperties
  <2>3. \A j \in 1 .. Len(due) : due[j] \in D
    BY <1>1, ElementOfSeq
  <2>4. SubSeq(due, 1, k - 1) \in Seq(D)
    BY <2>2, <2>3, SubSeqProperties
  <2>5. SubSeq(due, k + 1, Len(due)) \in Seq(D)
    BY <2>2, <2>3, SubSeqProperties
  <2> QED
    BY <2>1, <2>4, <2>5, ConcatProperties DEF RemoveAt, D
<1>3. CASE ~\E k \in DOMAIN due : due[k] = i
  BY <1>1, <1>3 DEF Undue, D
<1> QED
  BY <1>2, <1>3

LEMMA UpdateKeepsInv ==
    ASSUME SendInv, NEW i \in DOMAIN tasks, NEW r, RowShape(r), Counted(r), Updates(i, r)
    PROVE  SendInv'
<1>1. i \in DOMAIN rows /\ pc = "join" /\ pc' = pc
  BY DEF SendInv, Updates, loopVars
<1>2. DOMAIN tasks' = DOMAIN tasks \ {i} /\ \A j \in DOMAIN tasks' : tasks'[j] = tasks[j]
  BY DEF Updates, Ends
<1>3. CASE rows[i].status = "gone"
  BY <1>1, <1>2, <1>3 DEF SendInv, Updates
<1>4. CASE rows[i].status # "gone"
  <2>1. rows' = [rows EXCEPT ![i] = r] /\ Undue(i)
    BY <1>4 DEF Updates
  <2>2. due' \in Seq(DOMAIN rows)
    BY <2>1, UndueKeepsDue
  <2>3. /\ \E S : rows' \in Seq(S)
        /\ DOMAIN rows' = DOMAIN rows
        /\ \A j \in DOMAIN rows : j # i => rows'[j] = rows[j]
        /\ \A j \in DOMAIN rows' : RowShape(rows'[j]) /\ Counted(rows'[j])
    BY <1>1, <2>1, RowReplaced
  <2> QED
    BY <1>1, <1>2, <2>2, <2>3 DEF SendInv
<1> QED
  BY <1>3, <1>4

LEMMA TaskKeepsInv ==
    ASSUME SendInv, NEW i \in DOMAIN rows, Task(i) \/ TaskFails(i)
    PROVE  SendInv'
<1> DEFINE row == rows[i]
<1>1. RowShape(row) /\ Counted(row)
  BY DEF SendInv
<1>2. CASE Send(i)
  <2>1. i \in DOMAIN tasks /\ UNCHANGED <<due, pc>> /\ row.status # "sent"
    BY <1>2 DEF Send, loopVars, SendInv
  <2>2. CASE UNCHANGED rows
    <3>1. /\ DOMAIN tasks' \subseteq DOMAIN tasks
          /\ \A j \in DOMAIN tasks' : TaskShape(tasks'[j])
      BY <1>2, <2>1, <2>2 DEF Send, Ends, SendInv, TaskShape
    <3> QED
      BY <2>1, <2>2, <3>1 DEF SendInv
  <2>3. CASE /\ tasks' = [tasks EXCEPT ![i].stage = "sent"]
             /\ rows' = [rows EXCEPT ![i].sends = @ + 1, ![i].unmarked = @ + 1]
    <3> DEFINE r == [row EXCEPT !.sends = row.sends + 1, !.unmarked = row.unmarked + 1]
    <3>1. rows' = [rows EXCEPT ![i] = r]
      BY <2>3, <1>1 DEF RowShape
    <3>2. row.sends \in Int /\ row.unmarked \in Int
      BY <1>1 DEF RowShape
    <3> DEFINE q == [row EXCEPT !.sends = row.sends + 1]
    <3>3. RowShape(r) /\ Counted(r) /\ r.status = row.status
      <4>1. RowShape(q) /\ q.status = row.status /\ q.sends = row.sends + 1 /\ q.unmarked = row.unmarked
        BY <1>1, <3>2, SendsSet
      <4>2. r = [q EXCEPT !.unmarked = row.unmarked + 1]
        OBVIOUS
      <4> HIDE DEF q
      <4>3. RowShape(r) /\ r.status = q.status /\ r.sends = q.sends /\ r.unmarked = row.unmarked + 1
        BY <3>2, <4>1, <4>2, UnmarkedSet
      <4> HIDE DEF r
      <4> QED
        BY <1>1, <2>1, <3>2, <4>1, <4>3 DEF Counted
    <3> HIDE DEF r, row
    <3>4. /\ \E S : rows' \in Seq(S)
          /\ DOMAIN rows' = DOMAIN rows
          /\ rows'[i] = r
          /\ \A j \in DOMAIN rows : j # i => rows'[j] = rows[j]
          /\ \A j \in DOMAIN rows' : RowShape(rows'[j]) /\ Counted(rows'[j])
      BY <3>1, <3>3, RowReplaced
    <3>5. DOMAIN tasks' = DOMAIN tasks /\ \A j \in DOMAIN tasks' : TaskShape(tasks'[j])
      BY <2>1, <2>3 DEF SendInv, TaskShape
    <3> QED
      BY <2>1, <3>3, <3>4, <3>5 DEF SendInv
  <2> QED
    BY <1>2, <2>2, <2>3 DEF Send
<1>3. CASE MarkSent(i)
  <2> DEFINE r == [row EXCEPT !.status = "sent", !.unmarked = row.unmarked - 1]
  <2>1. i \in DOMAIN tasks /\ Updates(i, r) /\ row.status # "sent"
    BY <1>3 DEF MarkSent, SendInv
  <2>2. CASE row.status # "gone"
    <3> DEFINE q == [row EXCEPT !.status = "sent"]
    <3>1. RowShape(r) /\ Counted(r)
      <4>1. row.sends \in Int /\ row.unmarked \in Int /\ row.sends = row.unmarked
        BY <1>1, <2>1, <2>2 DEF RowShape, Counted
      <4>2. RowShape(q) /\ q.status = "sent" /\ q.sends = row.sends
        BY <1>1, StatusSet
      <4>3. r = [q EXCEPT !.unmarked = row.unmarked - 1]
        OBVIOUS
      <4> HIDE DEF q
      <4>4. RowShape(r) /\ r.status = q.status /\ r.sends = q.sends /\ r.unmarked = row.unmarked - 1
        BY <4>1, <4>2, <4>3, UnmarkedSet
      <4> HIDE DEF r
      <4> QED
        BY <4>1, <4>2, <4>4 DEF Counted
    <3> QED
      BY <2>1, <3>1, UpdateKeepsInv
  <2>3. CASE row.status = "gone"
    <3>1. Updates(i, row)
      BY <2>1, <2>3 DEF Updates
    <3> QED
      BY <1>1, <2>1, <3>1, UpdateKeepsInv
  <2> QED
    BY <2>2, <2>3
<1>4. CASE ScheduleRetry(i)
  <2> DEFINE r == [row EXCEPT !.status = "retry"]
  <2>1. i \in DOMAIN tasks /\ Updates(i, r) /\ row.status # "sent"
    BY <1>4 DEF ScheduleRetry, SendInv
  <2>2. CASE row.status # "gone"
    <3>1. RowShape(r) /\ Counted(r)
      BY <1>1, <2>1, <2>2 DEF RowShape, Counted
    <3> QED
      BY <2>1, <3>1, UpdateKeepsInv
  <2>3. CASE row.status = "gone"
    <3>1. Updates(i, row)
      BY <2>1, <2>3 DEF Updates
    <3> QED
      BY <1>1, <2>1, <3>1, UpdateKeepsInv
  <2> QED
    BY <2>2, <2>3
<1>5. CASE GiveUp(i)
  <2> DEFINE r == [row EXCEPT !.status = "failed", !.attempts = row.attempts + 1]
  <2>1. i \in DOMAIN tasks /\ Updates(i, r) /\ row.status # "sent"
    BY <1>5 DEF GiveUp, SendInv
  <2>2. CASE row.status # "gone"
    <3> DEFINE q == [row EXCEPT !.status = "failed"]
    <3>1. RowShape(r) /\ Counted(r)
      <4>1. RowShape(q) /\ q.status = "failed" /\ q.sends = row.sends /\ q.unmarked = row.unmarked
        BY <1>1, StatusSet
      <4>2. r = [q EXCEPT !.attempts = row.attempts + 1]
        OBVIOUS
      <4> HIDE DEF q
      <4>3. RowShape(r) /\ r.status = q.status /\ r.sends = q.sends /\ r.unmarked = q.unmarked
        BY <4>1, <4>2, AttemptsSet
      <4> HIDE DEF r
      <4> QED
        BY <1>1, <2>1, <2>2, <4>1, <4>3 DEF Counted, RowShape
    <3> QED
      BY <2>1, <3>1, UpdateKeepsInv
  <2>3. CASE row.status = "gone"
    <3>1. Updates(i, row)
      BY <2>1, <2>3 DEF Updates
    <3> QED
      BY <1>1, <2>1, <3>1, UpdateKeepsInv
  <2> QED
    BY <2>2, <2>3
<1>6. CASE TaskFails(i)
  BY <1>6 DEF TaskFails, Ends, loopVars, SendInv
<1> QED
  BY <1>2, <1>3, <1>4, <1>5, <1>6 DEF Task

(* The loop makes a row, for an event or without one.                       *)
LEMMA CreateKeepsInv ==
    ASSUME SendInv, Create
    PROVE  SendInv'
<1> DEFINE r == NewRow(event, NextWanted)
<1>1. rows' = Append(rows, r) /\ DOMAIN tasks = {} /\ UNCHANGED <<due, tasks>>
  BY DEF Create, Made, SendInv
<1>2. RowShape(r) /\ Counted(r)
  BY DEF NewRow, RowShape, Counted
<1>3. PICK S : rows \in Seq(S)
  BY DEF SendInv
<1> DEFINE T == S \cup {r}
<1>4. rows \in Seq(T) /\ r \in T
  BY <1>3
<1> HIDE DEF T, r
<1>5. /\ Append(rows, r) \in Seq(T)
      /\ Len(Append(rows, r)) = Len(rows) + 1
      /\ \A i \in 1 .. Len(rows) : Append(rows, r)[i] = rows[i]
      /\ Append(rows, r)[Len(rows) + 1] = r
  BY <1>4, AppendProperties
<1>6. /\ Len(rows) \in Nat /\ DOMAIN rows = 1 .. Len(rows)
      /\ DOMAIN rows' = 1 .. Len(rows) + 1
  BY <1>1, <1>4, <1>5, LenProperties
<1>7. \A i \in DOMAIN rows' : RowShape(rows'[i]) /\ Counted(rows'[i])
  <2> SUFFICES ASSUME NEW i \in DOMAIN rows' PROVE RowShape(rows'[i]) /\ Counted(rows'[i])
    OBVIOUS
  <2>1. CASE i \in DOMAIN rows
    BY <1>1, <1>5, <1>6, <2>1 DEF SendInv
  <2>2. CASE i = Len(rows) + 1
    BY <1>1, <1>2, <1>5, <2>2
  <2> QED
    BY <1>6, <2>1, <2>2
<1>8. due' \in Seq(DOMAIN rows')
  BY <1>1, <1>6 DEF SendInv
<1> QED
  BY <1>1, <1>5, <1>7, <1>8 DEF SendInv

(* What is due and open is taken by one task each.                          *)
LEMMA LoadKeepsInv ==
    ASSUME SendInv, LoadDeliveries
    PROVE  SendInv'
<1>1. DOMAIN due = 1 .. Len(due) /\ \A k \in DOMAIN due : due[k] \in DOMAIN rows
  BY LenProperties, ElementOfSeq DEF SendInv
<1>2. Taken \subseteq DOMAIN rows /\ \A i \in Taken : rows[i].status # "sent"
  BY <1>1 DEF Taken, Pending, Open
<1>3. /\ DOMAIN tasks' = Taken /\ \A i \in DOMAIN tasks' : TaskShape(tasks'[i])
      /\ UNCHANGED <<rows, due>> /\ pc' = "join"
  BY DEF LoadDeliveries, TaskShape
<1> QED
  BY <1>2, <1>3 DEF SendInv

LEMMA DueKeepsInv ==
    ASSUME SendInv, NEW i \in DOMAIN rows, BecomesDue(i)
    PROVE  SendInv'
<1>1. due' \in Seq(DOMAIN rows)
  BY AppendProperties DEF BecomesDue, SendInv
<1> QED
  BY <1>1 DEF BecomesDue, SendInv, loopVars

LEMMA CascadeKeepsInv ==
    ASSUME SendInv, NEW s, Cascade(s)
    PROVE  SendInv'
<1>1. PICK S : rows \in Seq(S)
  BY DEF SendInv
<1>2. DOMAIN rows = 1 .. Len(rows) /\ Len(rows) \in Nat
  BY <1>1, LenProperties
<1> DEFINE T == {rows'[i] : i \in DOMAIN rows'}
<1>3. DOMAIN rows' = DOMAIN rows /\ UNCHANGED <<due, tasks, pc>>
  BY DEF Cascade, loopVars
<1>4. rows' \in Seq(T)
  <2>1. rows' \in [1 .. Len(rows) -> T]
    BY <1>2, <1>3 DEF Cascade
  <2> QED
    BY <1>2, <2>1
<1>5. \A i \in DOMAIN rows' :
        RowShape(rows'[i]) /\ Counted(rows'[i]) /\ (rows'[i].status = "sent" => rows[i].status = "sent")
  <2> SUFFICES ASSUME NEW i \in DOMAIN rows'
               PROVE  RowShape(rows'[i]) /\ Counted(rows'[i]) /\ (rows'[i].status = "sent" => rows[i].status = "sent")
    OBVIOUS
  <2>1. RowShape(rows[i]) /\ Counted(rows[i])
    BY <1>3 DEF SendInv
  <2>2. rows'[i] = rows[i] \/ rows'[i] = [rows[i] EXCEPT !.status = "gone"]
    BY <1>3 DEF Cascade
  <2> QED
    BY <2>1, <2>2 DEF RowShape, Counted
<1> HIDE DEF T
<1> QED
  BY <1>3, <1>4, <1>5 DEF SendInv

LEMMA SendInvNext == SendInv /\ [Next]_vars => SendInv'
<1> SUFFICES ASSUME SendInv, [Next]_vars PROVE SendInv'
  OBVIOUS
<1>1. ASSUME UNCHANGED <<rows, due, tasks>>, DOMAIN tasks = {} \/ pc' = "join" PROVE SendInv'
  BY <1>1 DEF SendInv
<1>2. CASE Analysis \/ UNCHANGED vars
  <2>1. UNCHANGED <<rows, due, tasks, pc>>
    BY <1>2 DEF Analysis, dispatchVars, loopVars, vars
  <2> QED
    BY <1>1, <2>1 DEF SendInv
<1>3. CASE LoadEvents \/ EventsFail \/ LoadFails \/ CreateFails \/ \E e \in todo : NextEvent(e)
  <2>1. UNCHANGED <<rows, due, tasks>> /\ DOMAIN tasks = {}
    BY <1>3 DEF LoadEvents, EventsFail, LoadFails, CreateFails, NextEvent, Made, SendInv
  <2> QED
    BY <1>1, <2>1
<1>4. CASE Create
  BY <1>4, CreateKeepsInv
<1>5. CASE LoadDeliveries
  BY <1>5, LoadKeepsInv
<1>6. CASE \E i \in DOMAIN rows : Task(i) \/ TaskFails(i) \/ BecomesDue(i)
  BY <1>6, TaskKeepsInv, DueKeepsInv
<1>7. CASE \E s \in streams : DeleteStream(s) /\ Cascade(s)
  BY <1>7, CascadeKeepsInv
<1>8. CASE Restart
  <2>1. UNCHANGED <<rows, due>> /\ tasks' = <<>>
    BY <1>8 DEF Restart
  <2>2. DOMAIN tasks' = {}
    BY <2>1
  <2> QED
    BY <2>1, <2>2 DEF SendInv
<1> QED
  BY <1>2, <1>3, <1>4, <1>5, <1>6, <1>7, <1>8 DEF Next, Round

(* A notification goes out again only when an earlier time was not          *)
(* recorded (dispatcher.rs process_single_delivery, mark_as_sent).          *)
THEOREM NeverSentTwice == Spec => []SentOnce
<1>1. SendInv => SentOnce
  BY DEF SendInv, SentOnce, Counted
<1> QED
  BY <1>1, SendInvInit, SendInvNext, PTL DEF Spec

-----------------------------------------------------------------------------
(* The rows that are made.                                                   *)

USE ChannelsAssumption

Known(e) == e \in events \/ e.stream \notin streams

(* A row is gone with its event, whose stream does not come back.            *)
StreamsInv ==
    /\ \A e \in events : e.stream \in streams
    /\ \A i \in DOMAIN rows :
        IF rows[i].status = "gone" THEN rows[i].event.stream \notin streams ELSE rows[i].event \in events

(* Rows are made for an event that is to be notified, and not yet for the    *)
(* channels still wanted.                                                    *)
LoopInv ==
    /\ \A e \in todo : e.notify /\ Known(e)
    /\ wanted \subseteq DOMAIN Channels
    /\ pc # "create" => event = Idle /\ wanted = {}
    /\ pc = "create" =>
        /\ wanted # {} /\ event.notify /\ Known(event)
        /\ \A k \in wanted : Meets(event, k)
        /\ event \in events =>
            \A i \in DOMAIN rows, k \in wanted : rows[i].event = event => rows[i].channel # Channels[k]

Accounted(e, k) ==
    \/ e = event /\ k \in wanted
    \/ \E i \in Deliveries(e) : rows[i].channel = Channels[k]
    \/ <<e, Channels[k]>> \in missed
CoveredInv ==
    \A e \in events : Deliveries(e) # {} \/ (pc = "create" /\ e = event) =>
        \A k \in WantedBy(e) : Accounted(e, k)

DeliveryInv == RowsSound /\ StreamsInv /\ LoopInv /\ CoveredInv

LEMMA DeliveryInvInit == Init => DeliveryInv
<1> SUFFICES ASSUME Init PROVE DeliveryInv
  OBVIOUS
<1>1. DOMAIN rows = {} /\ events = {} /\ todo = {} /\ wanted = {} /\ pc = "join" /\ event = Idle
  BY DEF Init, AnalysisInit
<1> QED
  BY <1>1 DEF DeliveryInv, RowsSound, StreamsInv, LoopInv, CoveredInv

(* The rows keep their events and channels, and whether they are there.      *)
RowsStay ==
    /\ DOMAIN rows' = DOMAIN rows
    /\ \A i \in DOMAIN rows :
        /\ rows'[i].event = rows[i].event /\ rows'[i].channel = rows[i].channel
        /\ rows'[i].status = "gone" <=> rows[i].status = "gone"

LEMMA RowStays ==
    ASSUME SendInv, NEW i \in DOMAIN rows, NEW r,
           r.event = rows[i].event, r.channel = rows[i].channel,
           r.status = "gone" <=> rows[i].status = "gone",
           rows' = [rows EXCEPT ![i] = r]
    PROVE  RowsStay
  BY DEF RowsStay

LEMMA TaskStays ==
    ASSUME SendInv, NEW i \in DOMAIN rows, Task(i) \/ TaskFails(i)
    PROVE  RowsStay /\ UNCHANGED <<analysisVars, loopVars, missed>>
<1> DEFINE row == rows[i]
<1>0. RowShape(row)
  BY DEF SendInv
<1>1. UNCHANGED <<analysisVars, loopVars, missed>>
  BY DEF Task, Send, MarkSent, ScheduleRetry, GiveUp, Updates, TaskFails
<1>2. CASE UNCHANGED rows
  BY <1>1, <1>2 DEF RowsStay
<1>3. ASSUME NEW r, r.event = row.event, r.channel = row.channel, r.status # "gone", Updates(i, r)
      PROVE  RowsStay
  <2>1. CASE row.status = "gone"
    BY <2>1, <1>2, <1>3 DEF Updates
  <2>2. CASE row.status # "gone"
    BY <2>2, <1>3, RowStays DEF Updates
  <2> QED
    BY <2>1, <2>2
<1>4. CASE Send(i)
  <2>1. CASE rows' = [rows EXCEPT ![i].sends = @ + 1, ![i].unmarked = @ + 1]
    <3> DEFINE r == [row EXCEPT !.sends = row.sends + 1, !.unmarked = row.unmarked + 1]
    <3>1. r.event = row.event /\ r.channel = row.channel /\ r.status = row.status
      BY <1>0 DEF RowShape
    <3>2. rows' = [rows EXCEPT ![i] = r]
      BY <1>0, <2>1 DEF RowShape
    <3> QED
      BY <1>1, <3>1, <3>2, RowStays
  <2> QED
    BY <1>2, <1>4, <2>1 DEF Send
<1>5. CASE MarkSent(i)
  <2> DEFINE r == [row EXCEPT !.status = "sent", !.unmarked = row.unmarked - 1]
  <2>1. r.event = row.event /\ r.channel = row.channel /\ r.status = "sent"
    BY <1>0 DEF RowShape
  <2>2. Updates(i, r)
    BY <1>5 DEF MarkSent
  <2> QED
    BY <1>1, <1>3, <2>1, <2>2
<1>6. CASE ScheduleRetry(i)
  <2> DEFINE r == [row EXCEPT !.status = "retry"]
  <2>1. r.event = row.event /\ r.channel = row.channel /\ r.status = "retry"
    BY <1>0 DEF RowShape
  <2>2. Updates(i, r)
    BY <1>6 DEF ScheduleRetry
  <2> QED
    BY <1>1, <1>3, <2>1, <2>2
<1>7. CASE GiveUp(i)
  <2> DEFINE r == [row EXCEPT !.status = "failed", !.attempts = row.attempts + 1]
  <2>1. r.event = row.event /\ r.channel = row.channel /\ r.status = "failed"
    BY <1>0 DEF RowShape
  <2>2. Updates(i, r)
    BY <1>7 DEF GiveUp
  <2> QED
    BY <1>1, <1>3, <2>1, <2>2
<1>8. CASE TaskFails(i)
  BY <1>2, <1>8 DEF TaskFails
<1> QED
  BY <1>1, <1>4, <1>5, <1>6, <1>7, <1>8 DEF Task

(* The rows stay, and an event may come: there is nothing for it yet.        *)
LEMMA EventComes ==
    ASSUME DeliveryInv, RowsStay, UNCHANGED <<loopVars, streams, missed>>,
           NEW e, events' = events \/ (events' = events \cup {e} /\ e.stream \in streams)
    PROVE  DeliveryInv'
<1>0. RowsSound /\ StreamsInv /\ LoopInv /\ CoveredInv
  BY DEF DeliveryInv
<1> USE DEF RowsStay
<1>1. \A f : Deliveries(f)' = Deliveries(f)
  BY DEF Deliveries
<1>2. RowsSound'
  BY <1>0 DEF RowsSound
<1>3. events \subseteq events' /\ \A f \in events' : f.stream \in streams
  BY <1>0 DEF StreamsInv
<1>4. StreamsInv'
  BY <1>0, <1>3 DEF StreamsInv
<1>5. \A f : Known(f) => (f \in events <=> f \in events') /\ (Known(f))'
  BY <1>3 DEF Known
<1>6. LoopInv'
  BY <1>0, <1>5 DEF LoopInv, loopVars, Meets
<1>7. CoveredInv'
  <2> SUFFICES ASSUME NEW f \in events', Deliveries(f) # {} \/ (pc = "create" /\ f = event),
                      NEW k \in WantedBy(f)
               PROVE  Accounted(f, k)'
    BY <1>1 DEF CoveredInv, WantedBy, Meets, loopVars
  <2>1. f \in events
    <3>1. CASE Deliveries(f) # {}
      BY <1>0, <3>1 DEF StreamsInv, Deliveries
    <3>2. CASE pc = "create" /\ f = event
      BY <1>0, <1>3, <3>2 DEF LoopInv, Known
    <3> QED
      BY <3>1, <3>2
  <2>2. Accounted(f, k)
    BY <1>0, <2>1 DEF CoveredInv
  <2> QED
    BY <1>1, <2>2 DEF Accounted, loopVars, Deliveries
<1> QED
  BY <1>2, <1>4, <1>6, <1>7 DEF DeliveryInv

LEMMA Wants == \A e : \A k \in WantedBy(e) : k \in DOMAIN Channels /\ Meets(e, k)
  BY DEF WantedBy

LEMMA NextIsWanted ==
    ASSUME LoopInv, wanted # {}
    PROVE  NextWanted \in wanted
<1>1. wanted \subseteq Nat
  BY LenProperties DEF LoopInv
<1>2. \E k \in wanted : \A j \in wanted : k <= j
  BY <1>1, SmallestOf
<1> QED
  BY <1>2 DEF NextWanted

(* The rows and the events stay.                                             *)
LEMMA LoopGoesOn ==
    ASSUME DeliveryInv, UNCHANGED <<rows, streams, events>>, LoopInv', missed \subseteq missed',
           event = event' \/ wanted = {} \/ \A k \in wanted : <<event, Channels[k]>> \in missed',
           event = event' => \A k \in wanted \ wanted' : <<event, Channels[k]>> \in missed',
           pc' = "create" => (pc = "create" /\ event' = event) \/ wanted' = WantedBy(event')
    PROVE  DeliveryInv'
<1>0. RowsSound /\ StreamsInv /\ CoveredInv
  BY DEF DeliveryInv
<1>1. RowsSound' /\ StreamsInv'
  BY <1>0 DEF RowsSound, StreamsInv
<1>2. CoveredInv'
  <2> SUFFICES ASSUME NEW f \in events, Deliveries(f) # {} \/ (pc' = "create" /\ f = event'),
                      NEW k \in WantedBy(f)
               PROVE  Accounted(f, k)'
    BY DEF CoveredInv, WantedBy, Meets, Deliveries
  <2>1. CASE Accounted(f, k)
    BY <2>1 DEF Accounted, Deliveries
  <2>2. CASE ~Accounted(f, k)
    <3>1. pc' = "create" /\ f = event' /\ ~(pc = "create" /\ f = event)
      BY <1>0, <2>2 DEF CoveredInv
    <3> QED
      BY <3>1 DEF Accounted
  <2> QED
    BY <2>1, <2>2
<1> QED
  BY <1>1, <1>2 DEF DeliveryInv

(* A row is made for the next channel that is wanted.                        *)
LEMMA CreateDelivers ==
    ASSUME SendInv, DeliveryInv, Create
    PROVE  DeliveryInv'
<1> DEFINE c == NextWanted
           r == NewRow(event, c)
           n == Len(rows) + 1
<1>0. RowsSound /\ StreamsInv /\ LoopInv /\ CoveredInv
  BY DEF DeliveryInv
<1>1. /\ pc = "create" /\ event \in events /\ rows' = Append(rows, r)
      /\ wanted' = wanted \ {c} /\ UNCHANGED <<events, streams, todo, missed>>
      /\ IF wanted = {c} THEN pc' = "next" /\ event' = Idle ELSE UNCHANGED <<pc, event>>
  BY DEF Create, Made, analysisVars
<1>2. wanted # {} /\ wanted \subseteq DOMAIN Channels /\ c \in wanted
  BY <1>0, <1>1, NextIsWanted DEF LoopInv
<1>3. r.event = event /\ r.channel = Channels[c] /\ r.status = "pending"
  BY DEF NewRow
<1> HIDE DEF c, r
<1>4. PICK S : rows \in Seq(S)
  BY DEF SendInv
<1>5. Len(rows) \in Nat /\ DOMAIN rows = 1 .. Len(rows)
  BY <1>4, LenProperties
<1>6. /\ DOMAIN rows' = 1 .. n /\ rows'[n] = r
      /\ \A i \in DOMAIN rows : rows'[i] = rows[i] /\ i # n
  <2> DEFINE T == S \cup {r}
  <2>1. rows \in Seq(T) /\ r \in T
    BY <1>4
  <2> HIDE DEF T
  <2>2. /\ Append(rows, r) \in Seq(T) /\ Len(Append(rows, r)) = n
        /\ \A i \in 1 .. Len(rows) : Append(rows, r)[i] = rows[i]
        /\ Append(rows, r)[n] = r
    BY <2>1, AppendProperties
  <2> QED
    BY <1>1, <1>5, <2>2, LenProperties
<1>7. DOMAIN rows' = DOMAIN rows \cup {n}
  BY <1>5, <1>6
<1> HIDE DEF n
<1>8. ASSUME NEW i \in DOMAIN rows, rows[i].event = event
      PROVE  \A k \in wanted : rows[i].channel # Channels[k]
  BY <1>0, <1>1, <1>8 DEF LoopInv
<1>9. event.notify /\ \A k \in wanted : Meets(event, k)
  BY <1>0, <1>1 DEF LoopInv
<1>10. RowsSound'
  <2>1. r.event.notify /\ r.event.severity >= Threshold[r.channel]
    BY <1>2, <1>3, <1>9 DEF Meets
  <2>2. \A i \in DOMAIN rows : ~(rows[i].event = r.event /\ rows[i].channel = r.channel)
    BY <1>2, <1>3, <1>8
  <2> QED
    BY <1>0, <1>6, <1>7, <2>1, <2>2 DEF RowsSound
<1>11. StreamsInv'
  <2>1. rows'[n].status # "gone" /\ rows'[n].event \in events
    BY <1>1, <1>3, <1>6
  <2> QED
    BY <1>0, <1>1, <1>6, <1>7, <2>1 DEF StreamsInv
<1>12. LoopInv'
  <2>1. CASE wanted = {c}
    BY <1>0, <1>1, <2>1 DEF LoopInv, Known
  <2>2. CASE wanted # {c}
    <3>1. wanted' # {} /\ wanted' \subseteq DOMAIN Channels /\ pc' = "create" /\ event' = event
      BY <1>1, <1>2, <2>2
    <3>2. ASSUME NEW i \in DOMAIN rows', NEW k \in wanted', rows'[i].event = event
          PROVE  rows'[i].channel # Channels[k]
      <4>1. CASE i \in DOMAIN rows
        BY <1>1, <1>6, <1>8, <3>2, <4>1
      <4>2. CASE i = n
        BY <1>1, <1>2, <1>3, <1>6, <4>2
      <4> QED
        BY <1>7, <4>1, <4>2
    <3> QED
      BY <1>0, <1>1, <1>9, <3>1, <3>2 DEF LoopInv, Known, Meets
  <2> QED
    BY <2>1, <2>2
<1>13. CoveredInv'
  <2> SUFFICES ASSUME NEW f \in events, Deliveries(f)' # {} \/ f = event, NEW k \in WantedBy(f)
               PROVE  Accounted(f, k)'
    <3>1. \A f \in events : (pc' = "create" /\ f = event') => f = event
      BY <1>1
    <3> QED
      BY <1>1, <3>1 DEF CoveredInv, WantedBy, Meets
  <2>1. Deliveries(f) \subseteq Deliveries(f)' /\ (f # event => Deliveries(f)' = Deliveries(f))
    BY <1>3, <1>6, <1>7 DEF Deliveries
  <2>2. f = event => n \in Deliveries(f)' /\ rows'[n].channel = Channels[c]
    BY <1>3, <1>6, <1>7 DEF Deliveries
  <2>3. CASE f # event
    <3>1. Accounted(f, k)
      BY <1>0, <2>1, <2>3 DEF CoveredInv
    <3> QED
      BY <1>1, <1>6, <2>1, <2>3, <3>1 DEF Accounted, Deliveries
  <2>4. CASE f = event
    <3>1. CASE k = c
      BY <2>2, <2>4, <3>1 DEF Accounted
    <3>2. CASE k \in wanted /\ k # c
      BY <1>1, <2>4, <3>2 DEF Accounted
    <3>3. CASE k \notin wanted
      <4>1. Accounted(f, k)
        BY <1>0, <1>1, <2>4 DEF CoveredInv
      <4> QED
        BY <1>1, <1>6, <2>1, <2>4, <3>3, <4>1 DEF Accounted, Deliveries
    <3> QED
      BY <3>1, <3>2, <3>3
  <2> QED
    BY <2>3, <2>4
<1> QED
  BY <1>10, <1>11, <1>12, <1>13 DEF DeliveryInv

LEMMA LoopDelivers ==
    ASSUME SendInv, DeliveryInv, LoadEvents \/ (\E e \in todo : NextEvent(e)) \/ EventsFail \/ CreateFails
                                 \/ LoadDeliveries \/ LoadFails \/ Restart
    PROVE  DeliveryInv'
<1>0. LoopInv /\ StreamsInv
  BY DEF DeliveryInv
<1>1. CASE LoadEvents \/ EventsFail \/ LoadDeliveries \/ LoadFails
  <2>1. /\ UNCHANGED <<rows, events, streams, event, wanted, missed>> /\ pc # "create" /\ pc' # "create"
        /\ \A e \in todo' : e \in todo \/ (e \in events /\ e.notify)
    BY <1>0, <1>1 DEF LoadEvents, EventsFail, LoadDeliveries, LoadFails, Notifiable, analysisVars, LoopInv
  <2>2. LoopInv'
    BY <1>0, <2>1 DEF LoopInv, Known
  <2> QED
    BY <2>1, <2>2, LoopGoesOn
<1>2. ASSUME NEW e \in todo, NextEvent(e) PROVE DeliveryInv'
  <2>1. /\ UNCHANGED <<rows, events, streams, missed>> /\ pc = "next" /\ todo' \subseteq todo
        /\ event = Idle /\ wanted = {} /\ e.notify /\ Known(e)
    BY <1>0, <1>2 DEF NextEvent, analysisVars, LoopInv
  <2>2. CASE UNCHANGED <<pc, event, wanted>>
    <3>1. LoopInv'
      BY <1>0, <2>1, <2>2 DEF LoopInv, Known
    <3> QED
      BY <2>1, <2>2, <3>1, LoopGoesOn
  <2>3. CASE Deliveries(e) = {} /\ WantedBy(e) # {} /\ pc' = "create" /\ event' = e /\ wanted' = WantedBy(e)
    <3>1. e \in events => \A i \in DOMAIN rows : rows[i].event # e
      BY <1>0, <2>3 DEF StreamsInv, Deliveries
    <3>2. LoopInv'
      BY <1>0, <2>1, <2>3, <3>1, Wants DEF LoopInv, Known, Meets
    <3> QED
      BY <2>1, <2>3, <3>2, LoopGoesOn
  <2> QED
    BY <1>2, <2>2, <2>3 DEF NextEvent
<1>3. CASE CreateFails
  <2>1. /\ pc = "create" /\ missed' = missed \cup {<<event, Channels[NextWanted]>>}
        /\ wanted' = wanted \ {NextWanted} /\ UNCHANGED <<rows, events, streams, todo>>
        /\ IF wanted = {NextWanted} THEN pc' = "next" /\ event' = Idle ELSE UNCHANGED <<pc, event>>
    BY <1>3 DEF CreateFails, Made, analysisVars
  <2>2. NextWanted \in wanted
    BY <1>0, <2>1, NextIsWanted DEF LoopInv
  <2> DEFINE c == NextWanted
  <2> HIDE DEF c
  <2>3. LoopInv'
    <3>1. CASE wanted = {c}
      BY <1>0, <2>1, <3>1 DEF LoopInv, Known, c
    <3>2. CASE wanted # {c}
      <4>1. wanted' # {} /\ wanted' \subseteq wanted /\ pc' = "create" /\ event' = event
        BY <2>1, <2>2, <3>2 DEF c
      <4> QED
        BY <1>0, <2>1, <4>1 DEF LoopInv, Known, Meets
    <3> QED
      BY <3>1, <3>2
  <2>4. \A k \in wanted \ wanted' : k = NextWanted
    BY <2>1
  <2>5. event # event' => \A k \in wanted : k = NextWanted
    BY <2>1
  <2> QED
    BY <2>1, <2>2, <2>3, <2>4, <2>5, LoopGoesOn
<1>4. CASE Restart
  <2>1. /\ UNCHANGED <<rows, events, streams>> /\ pc' = "join" /\ todo' = {} /\ event' = Idle /\ wanted' = {}
        /\ missed' = missed \cup {<<event, Channels[k]>> : k \in wanted}
    BY <1>4 DEF Restart, AnalysisRestart
  <2>2. LoopInv'
    BY <2>1 DEF LoopInv
  <2> QED
    BY <2>1, <2>2, LoopGoesOn
<1> QED
  BY <1>1, <1>2, <1>3, <1>4

(* A stream is deleted, its events and their rows with it.                   *)
LEMMA CascadeDelivers ==
    ASSUME SendInv, DeliveryInv, NEW s \in streams, DeleteStream(s), Cascade(s)
    PROVE  DeliveryInv'
<1>0. RowsSound /\ StreamsInv /\ LoopInv /\ CoveredInv
  BY DEF DeliveryInv
<1>1. /\ streams' = streams \ {s} /\ events' = {e \in events : e.stream # s}
      /\ UNCHANGED <<pc, todo, event, wanted, missed>> /\ DOMAIN rows' = DOMAIN rows
  BY DEF DeleteStream, Cascade, loopVars
<1>2. ASSUME NEW i \in DOMAIN rows
      PROVE  /\ rows'[i].event = rows[i].event /\ rows'[i].channel = rows[i].channel
             /\ IF rows[i].event.stream = s THEN rows'[i].status = "gone" ELSE rows'[i] = rows[i]
  <2>1. RowShape(rows[i])
    BY DEF SendInv
  <2>2. rows'[i] = IF rows[i].event.stream = s THEN [rows[i] EXCEPT !.status = "gone"] ELSE rows[i]
    BY DEF Cascade
  <2> QED
    BY <2>1, <2>2 DEF RowShape
<1>3. RowsSound'
  BY <1>0, <1>1, <1>2 DEF RowsSound
<1>4. StreamsInv'
  BY <1>0, <1>1, <1>2 DEF StreamsInv
<1>5. \A e : Known(e) => Known(e)'
  BY <1>1 DEF Known
<1>6. LoopInv'
  BY <1>0, <1>1, <1>2, <1>5 DEF LoopInv, Meets
<1>7. CoveredInv'
  <2> SUFFICES ASSUME NEW f \in events, f.stream # s, Deliveries(f)' # {} \/ (pc = "create" /\ f = event),
                      NEW k \in WantedBy(f)
               PROVE  Accounted(f, k)'
    BY <1>1 DEF CoveredInv, WantedBy, Meets
  <2>1. Deliveries(f)' = Deliveries(f)
    BY <1>1, <1>2 DEF Deliveries
  <2>2. Accounted(f, k)
    BY <1>0, <2>1 DEF CoveredInv
  <2> QED
    BY <1>1, <1>2, <2>1, <2>2 DEF Accounted, Deliveries
<1> QED
  BY <1>3, <1>4, <1>6, <1>7 DEF DeliveryInv

LEMMA DeliveryInvNext == SendInv /\ DeliveryInv /\ [Next]_vars => DeliveryInv'
<1> SUFFICES ASSUME SendInv, DeliveryInv, [Next]_vars PROVE DeliveryInv'
  OBVIOUS
<1>1. ASSUME UNCHANGED rows PROVE RowsStay
  BY <1>1 DEF RowsStay
<1>2. CASE Analysis \/ UNCHANGED vars
  <2>1. /\ UNCHANGED <<rows, loopVars, streams, missed>>
        /\ events' = events \/ \E e : events' = events \cup {e} /\ e.stream \in streams
    BY <1>2 DEF Analysis, dispatchVars, vars, analysisVars, AnalyzeFrame, Analyze, Store, StoreFails,
                UpdateConfig, Tick, ruleVars
  <2>2. PICK e : events' = events \/ (events' = events \cup {e} /\ e.stream \in streams)
    BY <2>1
  <2> QED
    BY <1>1, <2>1, <2>2, EventComes
<1>3. ASSUME NEW i \in DOMAIN rows, Task(i) \/ TaskFails(i) \/ BecomesDue(i) PROVE DeliveryInv'
  <2>1. RowsStay /\ UNCHANGED <<analysisVars, loopVars, missed>>
    BY <1>1, <1>3, TaskStays DEF BecomesDue
  <2> QED
    BY <2>1, EventComes DEF analysisVars
<1> QED
  BY <1>2, <1>3, CreateDelivers, LoopDelivers, CascadeDelivers DEF Next, Round

(* There is one row for each channel that an event is meant for, none for    *)
(* another, and none missing but those that could not be made                *)
(* (gl_notify dispatcher.rs create_delivery_records).                        *)
THEOREM DeliveriesAreExact == Spec => []DeliveriesExact
<1>1. DeliveryInv => DeliveriesExact
  BY DEF DeliveryInv, DeliveriesExact, CoveredInv, Accounted, ChannelsCovered
<1> QED
  BY <1>1, SendInvInit, SendInvNext, DeliveryInvInit, DeliveryInvNext, PTL DEF Spec

-----------------------------------------------------------------------------
(* The types.                                                                *)

USE DispatcherNumbers

(* A notification that went out is on a row that says so, or will.           *)
RowsTyped ==
    /\ rows \in Seq(Rows)
    /\ pc \in {"next", "create", "join"} /\ todo \subseteq Events
    /\ pc = "create" => event \in Events
    /\ tasks = [i \in DOMAIN tasks |-> tasks[i]]
    /\ \A i \in DOMAIN tasks : tasks[i] \in Tasks /\ (tasks[i].stage = "sent" => rows[i].unmarked > 0)
    /\ delays \in RetryDelays
    /\ missed \subseteq Events \X ChannelIds

DispatchInv == AnalysisInv /\ SendInv /\ DeliveryInv /\ RowsTyped

LEMMA DispatchInvTypes == DispatchInv => DispatchTypeOK
<1> SUFFICES ASSUME DispatchInv PROVE DispatchTypeOK
  OBVIOUS
<1>1. RowsTyped /\ AnalysisTypeOK /\ LoopInv /\ due \in Seq(DOMAIN rows) /\ DOMAIN tasks \subseteq DOMAIN rows
  BY DEF DispatchInv, AnalysisInv, SendInv, DeliveryInv
<1>2. DOMAIN rows = 1 .. Len(rows)
  BY <1>1, LenProperties DEF RowsTyped
<1>3. tasks \in [DOMAIN tasks -> Tasks] /\ DOMAIN tasks \in SUBSET (1 .. Len(rows))
  BY <1>1, <1>2 DEF RowsTyped
<1> QED
  BY <1>1, <1>2, <1>3 DEF RowsTyped, LoopInv, DispatchTypeOK

LEMMA RowsTypedInit == Init => RowsTyped
<1> SUFFICES ASSUME Init PROVE RowsTyped
  OBVIOUS
<1>1. rows \in Seq(Rows)
  BY EmptySeq DEF Init
<1>2. DOMAIN tasks = {} /\ tasks = [i \in DOMAIN tasks |-> tasks[i]]
  BY DEF Init
<1> QED
  BY <1>1, <1>2 DEF Init, RowsTyped

LEMMA ChannelsTyped == \A k \in DOMAIN Channels : Channels[k] \in ChannelIds
  BY DEF ChannelIds

(* Nothing happens to the rows; the tasks may all end.                       *)
LEMMA LoopTypes ==
    ASSUME DispatchInv, rows' = rows, delays' \in RetryDelays,
           tasks' = tasks \/ tasks' = <<>>,
           pc' \in {"next", "create", "join"}, todo' \subseteq todo \cup events,
           pc' = "create" => (pc = "create" /\ event' = event) \/ event' \in todo,
           missed' \subseteq missed \cup {<<event, Channels[k]>> : k \in wanted}
    PROVE  RowsTyped'
<1>1. RowsTyped /\ LoopInv /\ events \subseteq Events
  BY DEF DispatchInv, AnalysisInv, AnalysisTypeOK, DeliveryInv
<1>2. \A k \in wanted : event \in Events /\ Channels[k] \in ChannelIds
  BY <1>1, ChannelsTyped DEF RowsTyped, LoopInv
<1>3. missed' \subseteq Events \X ChannelIds
  BY <1>1, <1>2 DEF RowsTyped
<1>4. DOMAIN <<>> = {} /\ <<>> = [i \in DOMAIN <<>> |-> <<>>[i]]
  OBVIOUS
<1>5. tasks' = [i \in DOMAIN tasks' |-> tasks'[i]]
  BY <1>1, <1>4 DEF RowsTyped
<1>6. \A i \in DOMAIN tasks' : tasks'[i] \in Tasks /\ (tasks'[i].stage = "sent" => rows[i].unmarked > 0)
  BY <1>1, <1>4 DEF RowsTyped
<1> QED
  BY <1>1, <1>3, <1>5, <1>6 DEF RowsTyped

(* A row is set anew; its task ends or goes on.                              *)
LEMMA RowTypes ==
    ASSUME DispatchInv, NEW i \in DOMAIN tasks, NEW r \in Rows,
           rows' = rows \/ rows' = [rows EXCEPT ![i] = r],
           Ends(i) \/ (tasks' = [tasks EXCEPT ![i].stage = "refused"])
                   \/ (tasks' = [tasks EXCEPT ![i].stage = "sent"] /\ rows'[i].unmarked > 0),
           UNCHANGED <<loopVars, delays, missed>>
    PROVE  RowsTyped'
<1>1. RowsTyped /\ i \in DOMAIN rows
  BY DEF DispatchInv, SendInv
<1>2. Len(rows) \in Nat /\ DOMAIN rows = 1 .. Len(rows) /\ rows \in Seq(Rows)
  BY <1>1, LenProperties DEF RowsTyped
<1>3. rows' \in Seq(Rows) /\ \A j \in DOMAIN rows : j # i => rows'[j] = rows[j]
  <2>1. CASE rows' = [rows EXCEPT ![i] = r]
    BY <1>1, <1>2, <2>1, ExceptSeq
  <2> QED
    BY <1>2, <2>1
<1>4. ASSUME NEW j \in DOMAIN tasks'
      PROVE  tasks'[j] \in Tasks /\ (tasks'[j].stage = "sent" => rows'[j].unmarked > 0)
  <2>1. /\ j \in DOMAIN tasks /\ tasks[j] \in Tasks /\ j \in DOMAIN rows
        /\ tasks[j].stage = "sent" => rows[j].unmarked > 0
    BY <1>1 DEF RowsTyped, Ends, DispatchInv, SendInv
  <2>2. CASE j # i
    BY <1>3, <2>1, <2>2 DEF Ends
  <2>3. CASE j = i
    BY <2>1, <2>3 DEF Ends, Tasks
  <2> QED
    BY <2>2, <2>3
<1>5. tasks' = [j \in DOMAIN tasks' |-> tasks'[j]]
  BY <1>1 DEF Ends, RowsTyped
<1> QED
  BY <1>1, <1>3, <1>4, <1>5 DEF RowsTyped, loopVars

(* A row with one field set anew.                                            *)
LEMMA FieldSet ==
    ASSUME NEW row \in Rows
    PROVE  /\ \A x \in {"retry", "sent", "failed", "gone"} : [row EXCEPT !.status = x] \in Rows
           /\ \A n \in Nat : [row EXCEPT !.attempts = n] \in Rows
           /\ \A n \in Nat : [row EXCEPT !.sends = n] \in Rows
           /\ \A n \in Nat : [row EXCEPT !.unmarked = n] \in Rows /\ [row EXCEPT !.unmarked = n].unmarked = n
<1>1. row = [event |-> row.event, channel |-> row.channel, status |-> row.status, attempts |-> row.attempts,
             maxAttempts |-> row.maxAttempts, sends |-> row.sends, unmarked |-> row.unmarked]
  BY DEF Rows
<1>2. ASSUME NEW x \in {"retry", "sent", "failed", "gone"} PROVE [row EXCEPT !.status = x] \in Rows
  BY <1>1 DEF Rows
<1>3. ASSUME NEW n \in Nat PROVE [row EXCEPT !.attempts = n] \in Rows
  BY <1>1 DEF Rows
<1>4. ASSUME NEW n \in Nat PROVE [row EXCEPT !.sends = n] \in Rows
  BY <1>1 DEF Rows
<1>5. ASSUME NEW n \in Nat
      PROVE  [row EXCEPT !.unmarked = n] \in Rows /\ [row EXCEPT !.unmarked = n].unmarked = n
  BY <1>1 DEF Rows
<1> QED
  BY <1>2, <1>3, <1>4, <1>5

LEMMA TaskTypes ==
    ASSUME DispatchInv, NEW i \in DOMAIN rows, Task(i) \/ TaskFails(i)
    PROVE  RowsTyped'
<1> DEFINE row == rows[i]
<1>0. RowsTyped
  BY DEF DispatchInv
<1>1. row \in Rows /\ row.sends \in Nat /\ row.unmarked \in Nat /\ row.attempts \in Nat
  <2>1. row \in Rows
    BY <1>0, LenProperties, ElementOfSeq DEF RowsTyped
  <2> QED
    BY <2>1 DEF Rows
<1>2. i \in DOMAIN tasks /\ UNCHANGED <<loopVars, delays, missed>>
  BY DEF Task, Send, MarkSent, ScheduleRetry, GiveUp, Updates, TaskFails
<1>3. ASSUME NEW r \in Rows, Updates(i, r) PROVE RowsTyped'
  <2>1. (rows' = rows \/ rows' = [rows EXCEPT ![i] = r]) /\ Ends(i)
    BY <1>3 DEF Updates
  <2> QED
    BY <1>2, <2>1, RowTypes
<1>4. CASE Send(i)
  <2>1. CASE /\ tasks' = [tasks EXCEPT ![i].stage = "sent"]
             /\ rows' = [rows EXCEPT ![i].sends = @ + 1, ![i].unmarked = @ + 1]
    <3> DEFINE r == [row EXCEPT !.sends = row.sends + 1, !.unmarked = row.unmarked + 1]
    <3> DEFINE q == [row EXCEPT !.sends = row.sends + 1]
    <3>1. r \in Rows /\ r.unmarked > 0
      <4>1. r = [q EXCEPT !.unmarked = row.unmarked + 1]
        OBVIOUS
      <4>2. row.sends + 1 \in Nat /\ row.unmarked + 1 \in Nat /\ row.unmarked + 1 > 0
        BY <1>1
      <4> HIDE DEF r, row
      <4>3. q \in Rows
        BY <1>1, <4>2, FieldSet
      <4> HIDE DEF q
      <4>4. r \in Rows /\ r.unmarked = row.unmarked + 1
        BY <4>1, <4>2, <4>3, FieldSet, Zenon
      <4> QED
        BY <4>2, <4>4
    <3>2. rows' = [rows EXCEPT ![i] = r]
      BY <1>1, <2>1 DEF Rows
    <3> HIDE DEF r
    <3>3. rows'[i].unmarked > 0
      BY <3>1, <3>2
    <3> QED
      BY <1>2, <2>1, <3>1, <3>2, <3>3, RowTypes
  <2>2. CASE rows' = rows /\ (Ends(i) \/ tasks' = [tasks EXCEPT ![i].stage = "refused"])
    BY <1>1, <1>2, <2>2, RowTypes
  <2> QED
    BY <1>4, <2>1, <2>2 DEF Send
<1>5. CASE MarkSent(i)
  <2> DEFINE r == [row EXCEPT !.status = "sent", !.unmarked = row.unmarked - 1]
  <2>1. Updates(i, r) /\ row.unmarked > 0
    BY <1>0, <1>5 DEF MarkSent, RowsTyped
  <2> DEFINE q == [row EXCEPT !.status = "sent"]
  <2>2. r \in Rows
    <3>1. r = [q EXCEPT !.unmarked = row.unmarked - 1]
      OBVIOUS
    <3>2. row.unmarked - 1 \in Nat
      BY <1>1, <2>1
    <3> HIDE DEF r, row
    <3>3. q \in Rows
      BY <1>1, FieldSet
    <3> HIDE DEF q
    <3> QED
      BY <3>1, <3>2, <3>3, FieldSet
  <2> QED
    BY <1>3, <2>1, <2>2
<1>6. CASE ScheduleRetry(i)
  <2> DEFINE r == [row EXCEPT !.status = "retry"]
  <2>1. Updates(i, r)
    BY <1>6 DEF ScheduleRetry
  <2>2. r \in Rows
    BY <1>1 DEF Rows
  <2> QED
    BY <1>3, <2>1, <2>2
<1>7. CASE GiveUp(i)
  <2> DEFINE r == [row EXCEPT !.status = "failed", !.attempts = row.attempts + 1]
  <2>1. Updates(i, r)
    BY <1>7 DEF GiveUp
  <2> DEFINE q == [row EXCEPT !.status = "failed"]
  <2>2. r \in Rows
    <3>1. r = [q EXCEPT !.attempts = row.attempts + 1]
      OBVIOUS
    <3>2. row.attempts + 1 \in Nat
      BY <1>1
    <3> HIDE DEF r, row
    <3>3. q \in Rows
      BY <1>1, FieldSet
    <3> HIDE DEF q
    <3> QED
      BY <3>1, <3>2, <3>3, FieldSet
  <2> QED
    BY <1>3, <2>1, <2>2
<1>8. CASE TaskFails(i)
  BY <1>1, <1>2, <1>8, RowTypes DEF TaskFails
<1> QED
  BY <1>4, <1>5, <1>6, <1>7, <1>8 DEF Task

LEMMA CreateTypes ==
    ASSUME DispatchInv, Create
    PROVE  RowsTyped'
<1> DEFINE r == NewRow(event, NextWanted)
<1>0. RowsTyped /\ LoopInv /\ SendInv
  BY DEF DispatchInv, DeliveryInv
<1>1. /\ pc = "create" /\ rows' = Append(rows, r) /\ UNCHANGED <<todo, tasks, delays, missed>>
      /\ pc' \in {"next", "create"} /\ (pc' = "create" => event' = event) /\ DOMAIN tasks = {}
  BY <1>0 DEF Create, Made, SendInv
<1>2. r \in Rows
  <2>1. event \in Events /\ NextWanted \in DOMAIN Channels
    BY <1>0, <1>1, NextIsWanted DEF RowsTyped, LoopInv
  <2>2. Channels[NextWanted] \in ChannelIds /\ delays + 1 \in Nat
    BY <1>0, <2>1, ChannelsTyped DEF RowsTyped
  <2> QED
    BY <2>1, <2>2 DEF NewRow, Rows
<1> HIDE DEF r
<1>3. rows' \in Seq(Rows)
  BY <1>0, <1>1, <1>2, AppendProperties DEF RowsTyped
<1> QED
  BY <1>0, <1>1, <1>3 DEF RowsTyped

LEMMA CascadeTypes ==
    ASSUME DispatchInv, NEW s, Cascade(s)
    PROVE  RowsTyped'
<1>0. RowsTyped /\ DOMAIN tasks \subseteq DOMAIN rows
  BY DEF DispatchInv, SendInv
<1>1. Len(rows) \in Nat /\ DOMAIN rows = 1 .. Len(rows) /\ \A i \in DOMAIN rows : rows[i] \in Rows
  BY <1>0, LenProperties, ElementOfSeq DEF RowsTyped
<1>2. ASSUME NEW i \in DOMAIN rows
      PROVE  rows'[i] \in Rows /\ rows'[i].unmarked = rows[i].unmarked
  <2>1. rows'[i] = rows[i] \/ rows'[i] = [rows[i] EXCEPT !.status = "gone"]
    BY DEF Cascade
  <2> QED
    BY <1>1, <2>1 DEF Rows
<1>3. rows' \in [1 .. Len(rows) -> Rows]
  BY <1>1, <1>2 DEF Cascade
<1>4. rows' \in Seq(Rows)
  BY <1>1, <1>3
<1> QED
  BY <1>0, <1>2, <1>4 DEF RowsTyped, Cascade, loopVars

LEMMA RowsTypedNext == DispatchInv /\ [Next]_vars => RowsTyped'
<1> SUFFICES ASSUME DispatchInv, [Next]_vars PROVE RowsTyped'
  OBVIOUS
<1>0. RowsTyped /\ LoopInv
  BY DEF DispatchInv, DeliveryInv
<1>1. CASE Analysis \/ UNCHANGED vars
  BY <1>0, <1>1, LoopTypes DEF Analysis, dispatchVars, vars, loopVars, RowsTyped
<1>2. CASE LoadEvents \/ EventsFail \/ LoadFails \/ Restart
  <2>1. /\ rows' = rows /\ delays' \in RetryDelays /\ (tasks' = tasks \/ tasks' = <<>>)
        /\ pc' \in {"next", "join"} /\ todo' \subseteq todo \cup events
        /\ missed' \subseteq missed \cup {<<event, Channels[k]>> : k \in wanted}
    BY <1>0, <1>2 DEF LoadEvents, EventsFail, LoadFails, Restart, Notifiable, RowsTyped
  <2> QED
    BY <2>1, LoopTypes
<1>3. ASSUME NEW e \in todo, NextEvent(e) PROVE RowsTyped'
  <2>1. /\ UNCHANGED <<rows, delays, tasks, missed>> /\ todo' \subseteq todo
        /\ pc' \in {"next", "create"} /\ (pc' = "create" => event' = e)
    BY <1>3 DEF NextEvent
  <2> QED
    BY <1>0, <2>1, LoopTypes DEF RowsTyped
<1>4. CASE CreateFails
  <2>1. /\ pc = "create" /\ UNCHANGED <<rows, delays, tasks, todo>>
        /\ pc' \in {"next", "create"} /\ (pc' = "create" => event' = event)
        /\ missed' = missed \cup {<<event, Channels[NextWanted]>>}
    BY <1>4 DEF CreateFails, Made
  <2>2. NextWanted \in wanted
    BY <1>0, <2>1, NextIsWanted DEF LoopInv
  <2> QED
    BY <1>0, <2>1, <2>2, LoopTypes DEF RowsTyped
<1>5. CASE LoadDeliveries
  <2>1. /\ UNCHANGED <<rows, todo, delays, missed>> /\ pc' = "join"
        /\ tasks' = [i \in Taken |-> [stage |-> "get", attempts |-> rows[i].attempts]]
    BY <1>5 DEF LoadDeliveries
  <2>2. ASSUME NEW i \in Taken PROVE rows[i].attempts \in Nat
    <3>1. PICK k \in DOMAIN due : i = due[k]
      BY DEF Taken
    <3>2. i \in DOMAIN rows
      BY <3>1, LenProperties, ElementOfSeq DEF DispatchInv, SendInv
    <3>3. rows[i] \in Rows
      BY <1>0, <3>2, LenProperties, ElementOfSeq DEF RowsTyped
    <3> QED
      BY <3>3 DEF Rows
  <2>3. ASSUME NEW i \in DOMAIN tasks' PROVE tasks'[i] \in Tasks /\ tasks'[i].stage = "get"
    BY <2>1, <2>2 DEF Tasks
  <2>4. tasks' = [i \in DOMAIN tasks' |-> tasks'[i]]
    BY <2>1
  <2> QED
    BY <1>0, <2>1, <2>3, <2>4 DEF RowsTyped
<1>6. ASSUME NEW i \in DOMAIN rows, BecomesDue(i) PROVE RowsTyped'
  BY <1>0, <1>6, LoopTypes DEF BecomesDue, loopVars, RowsTyped
<1> QED
  BY <1>1, <1>2, <1>3, <1>4, <1>5, <1>6, CreateTypes, TaskTypes, CascadeTypes DEF Next, Round

(* The types of the events, the rows, what is due and the tasks at work.     *)
THEOREM DispatchTyped == Spec => []DispatchTypeOK
<1>1. Init => AnalysisInv
  BY AnalysisInvInit DEF Init
<1>2. DispatchInv /\ [Next]_vars => DispatchInv'
  BY AnalysisInvNext, SendInvNext, DeliveryInvNext, RowsTypedNext DEF DispatchInv
<1>3. Init => DispatchInv
  BY <1>1, SendInvInit, DeliveryInvInit, RowsTypedInit DEF DispatchInv
<1> QED
  BY <1>2, <1>3, DispatchInvTypes, PTL DEF Spec
=============================================================================
