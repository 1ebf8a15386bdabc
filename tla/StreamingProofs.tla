--------------------------- MODULE StreamingProofs ---------------------------
(***************************************************************************)
(* For any number of clients, any ring and any number of frames: the       *)
(* subscriber count is exact, clients see increasing frame numbers and no  *)
(* gap they were not told of, and every frame is accounted for.            *)
(*                                                                         *)
(* For any number of captures, requests and jobs: a capture shows its own  *)
(* frames, and rows have their files.  For any number of requests to start *)
(* and to stop a stream: its session follows its capture.                  *)
(***************************************************************************)
EXTENDS MCStreaming, FiniteSetTheorems, TLAPS

-----------------------------------------------------------------------------
(* The session and its clients: MjpegStream.                                *)

CountedClients == {c \in Clients : pc[c] \in Counted}

(* The number of the frame that is to be sent next. *)
Upcoming == IF gen = "numbered" THEN frame ELSE sequence

Listening(c) == pc[c] \in Receiving

NumberOK == gen = "numbered" => sequence = frame + 1

(* As long as anybody listens no number is lost: counted back from the      *)
(* upcoming frame, the frames since a receiver was created are numbered     *)
(* without a gap.                                                           *)
NumberedFrom(c) ==
    /\ 1 <= first[c] /\ first[c] <= next[c] /\ next[c] <= Len(sent) + 1
    /\ \A i \in first[c] .. Len(sent) : sent[i] + Len(sent) + 1 = Upcoming + i

(* The frame a client saw last stands just before the ones it was told it   *)
(* lost, and those just before the one it reads next.                       *)
LastSeen(c) ==
    last[c] # None => last[c] + OrZero(expected[c]) + Len(sent) + 2 = Upcoming + next[c]

Blank(c) ==
    /\ last[c] = None /\ expected[c] = None
    /\ first[c] = 0 /\ got[c] = 0 /\ dropped[c] = 0 /\ next[c] = 0

ClientOK(c) ==
    /\ gaps[c] = 0
    /\ first[c] + got[c] + dropped[c] = next[c]
    /\ LastSeen(c)
    /\ Listening(c) => NumberedFrom(c)
    /\ ~ Listening(c) => Blank(c)

MjpegInv ==
    /\ MjpegTypeOK
    /\ SubscribersExact
    /\ NumberOK
    /\ \A c \in Clients : ClientOK(c)

(* A sum grows with its last part. *)
LEMMA SumGrows ==
    ASSUME NEW a \in Nat, NEW b \in Nat, NEW d \in Nat, NEW n \in Nat, NEW k \in Nat,
           a + b + d = n
    PROVE  a + b + (d + k) = n + k
  OBVIOUS

(* The numbers the invariant computes with are natural numbers. *)
LEMMA MjpegNumbers ==
    ASSUME MjpegTypeOK
    PROVE  /\ Len(sent) \in Nat /\ sequence \in Nat /\ frame \in Nat /\ Upcoming \in Nat
           /\ \A i \in 1 .. Len(sent) : sent[i] \in Nat
           /\ \A c \in Clients :
                 /\ next[c] \in Nat /\ first[c] \in Nat
                 /\ got[c] \in Nat /\ dropped[c] \in Nat
                 /\ OrZero(expected[c]) \in Nat
                 /\ last[c] # None => last[c] \in Nat
<1> USE FramesAssumption, NoneAssumption DEF MjpegTypeOK
<1>1. Len(sent) \in Nat /\ \A i \in 1 .. Len(sent) : sent[i] \in Nat
  <2>1. sent \in Seq(Nat)
    OBVIOUS
  <2> QED
    BY <2>1
<1>2. sequence \in Nat /\ frame \in Nat /\ Upcoming \in Nat
  BY DEF Upcoming
<1>3. ASSUME NEW c \in Clients
      PROVE  /\ next[c] \in Nat /\ first[c] \in Nat
             /\ got[c] \in Nat /\ dropped[c] \in Nat
             /\ OrZero(expected[c]) \in Nat
             /\ last[c] # None => last[c] \in Nat
  BY DEF OrZero
<1> QED
  BY <1>1, <1>2, <1>3

(* A client that a step does not concern. *)
LEMMA Bystander ==
    ASSUME NEW d \in Clients, ClientOK(d), UNCHANGED <<sent, Upcoming>>,
           Listening(d)' = Listening(d),
           UNCHANGED <<next[d], last[d], expected[d], gaps[d], dropped[d], first[d], got[d]>>
    PROVE  ClientOK(d)'
  BY DEF ClientOK, LastSeen, NumberedFrom, Blank

(* A step that neither counts nor uncounts anybody keeps the count. *)
LEMMA CountUndisturbed ==
    ASSUME SubscribersExact, UNCHANGED subscribers, CountedClients' = CountedClients
    PROVE  SubscribersExact'
  BY DEF SubscribersExact, CountedClients

LEMMA MjpegInvInit == Init => MjpegInv
<1> SUFFICES ASSUME Init PROVE MjpegInv
  OBVIOUS
<1>1. MjpegTypeOK
  BY FramesAssumption DEF Init, MjpegTypeOK, Points
<1>2. SubscribersExact
  <2>1. {c \in Clients : pc[c] \in Counted} = {}
    BY DEF Init, Counted
  <2> QED
    BY <2>1, FS_EmptySet DEF Init, SubscribersExact
<1>3. NumberOK
  BY DEF Init, NumberOK
<1>4. \A c \in Clients : ClientOK(c)
  BY DEF Init, ClientOK, LastSeen, Listening, Receiving, Blank
<1> QED
  BY <1>1, <1>2, <1>3, <1>4 DEF MjpegInv

LEMMA MjpegInvNext == MjpegInv /\ [Next]_vars => MjpegInv'
<1> SUFFICES ASSUME MjpegInv, [Next]_vars PROVE MjpegInv'
  OBVIOUS
<1> USE FramesAssumption, CapacityAssumption, NoneAssumption
<1>0. /\ MjpegTypeOK /\ SubscribersExact /\ NumberOK
      /\ \A c \in Clients : ClientOK(c)
  BY DEF MjpegInv
<1>1. ASSUME NEW c \in Clients, PollFrame(c) PROVE MjpegInv'
  <2> DEFINE f == sent[next[c]]
  <2>1. /\ Listening(c) /\ NumberedFrom(c) /\ LastSeen(c)
        /\ next[c] <= Len(sent)
    BY <1>0, <1>1 DEF PollFrame, ClientOK, Listening, Receiving
  <2>2. f \in Nat /\ f + Len(sent) + 1 = Upcoming + next[c]
    <3>1. next[c] \in first[c] .. Len(sent) /\ next[c] \in 1 .. Len(sent)
      BY <1>0, <2>1, MjpegNumbers DEF NumberedFrom
    <3> QED
      BY <1>0, <2>1, <3>1, MjpegNumbers DEF NumberedFrom
  <2> HIDE DEF f
  <2>3. last[c] # None => f = last[c] + 1 + OrZero(expected[c])
    <3> SUFFICES ASSUME last[c] # None PROVE f = last[c] + 1 + OrZero(expected[c])
      OBVIOUS
    <3> DEFINE a == last[c]
               b == OrZero(expected[c])
               l == Len(sent)
               u == Upcoming
               n == next[c]
    <3>1. a \in Nat /\ b \in Nat /\ l \in Nat /\ u \in Nat /\ n \in Nat
      BY <1>0, MjpegNumbers
    <3>2. a + b + l + 2 = u + n /\ f + l + 1 = u + n
      BY <2>1, <2>2, Zenon DEF LastSeen
    <3> HIDE DEF a, b, l, u, n
    <3>3. f \in Nat
      BY <2>2
    <3>4. f + (l + 1) = (a + 1 + b) + (l + 1)
      BY <3>1, <3>2, <3>3
    <3>5. f = a + 1 + b
      BY <3>1, <3>3, <3>4
    <3> QED
      BY <3>5 DEF a, b
  <2>4. ~ Unexplained(c, f)
    <3> SUFFICES ASSUME last[c] # None, f > last[c] + 1
                 PROVE  expected[c] = f - (last[c] + 1)
      BY DEF Unexplained
    <3>1. last[c] \in Nat /\ expected[c] \in Nat \cup {None}
      BY <1>0 DEF MjpegTypeOK
    <3>2. OrZero(expected[c]) = IF expected[c] = None THEN 0 ELSE expected[c]
      BY DEF OrZero
    <3> QED
      BY <2>2, <2>3, <3>1, <3>2
  <2>5. /\ UNCHANGED <<sequence, gen, frame, sent, gaps, subscribers, pc, dropped, first>>
        /\ last' = [last EXCEPT ![c] = f]
        /\ expected' = [expected EXCEPT ![c] = None]
        /\ next' = [next EXCEPT ![c] = @ + 1]
        /\ got' = [got EXCEPT ![c] = @ + 1]
    BY <1>0, <1>1, <2>4 DEF PollFrame, genVars, MjpegTypeOK, f
  <2>6. MjpegTypeOK'
    BY <1>0, <2>2, <2>5, SMTT(20) DEF MjpegTypeOK
  <2>7. SubscribersExact' /\ NumberOK'
    BY <1>0, <2>5 DEF SubscribersExact, NumberOK
  <2>8. Upcoming' = Upcoming /\ \A d \in Clients : Listening(d)' = Listening(d)
    BY <2>5 DEF Listening, Upcoming
  <2>9. ASSUME NEW d \in Clients, d # c PROVE ClientOK(d)'
    BY <1>0, <2>5, <2>8, <2>9, Bystander DEF MjpegTypeOK
  <2>10. ClientOK(c)'
    <3>1. /\ gaps'[c] = gaps[c] /\ first'[c] = first[c] /\ dropped'[c] = dropped[c]
          /\ last'[c] = f /\ expected'[c] = None
          /\ next'[c] = next[c] + 1 /\ got'[c] = got[c] + 1
      BY <1>0, <2>5 DEF MjpegTypeOK
    <3>2. /\ Len(sent) \in Nat /\ Upcoming \in Nat /\ next[c] \in Nat /\ got[c] \in Nat
          /\ first[c] \in Nat /\ dropped[c] \in Nat
      BY <1>0, MjpegNumbers
    <3>3. LastSeen(c)'
      <4>1. /\ OrZero(expected[c])' = 0 /\ last[c]' = f /\ next[c]' = next[c] + 1
            /\ Len(sent)' = Len(sent) /\ Upcoming' = Upcoming
        BY <2>5, <2>8, <3>1 DEF OrZero
      <4>2. \A l, u, n \in Nat : f + l + 1 = u + n => f + 0 + l + 2 = u + (n + 1)
        BY <2>2
      <4>3. f + 0 + Len(sent) + 2 = Upcoming + (next[c] + 1)
        BY <2>2, <3>2, <4>2
      <4> QED
        BY <4>1, <4>3 DEF LastSeen
    <3>4. NumberedFrom(c)'
      BY <2>1, <2>5, <2>8, <3>1, <3>2 DEF NumberedFrom
    <3>5. gaps[c] = 0 /\ first[c] + got[c] + dropped[c] = next[c]
      BY <1>0 DEF ClientOK
    <3>6. first'[c] + got'[c] + dropped'[c] = next'[c]
      <4>1. \A a, g, d, n \in Nat : a + g + d = n => a + (g + 1) + d = n + 1
        OBVIOUS
      <4>2. first[c] + (got[c] + 1) + dropped[c] = next[c] + 1
        BY <3>2, <3>5, <4>1
      <4> QED
        BY <3>1, <4>2
    <3> QED
      BY <2>1, <2>8, <3>1, <3>3, <3>4, <3>5, <3>6 DEF ClientOK
  <2> QED
    BY <2>6, <2>7, <2>9, <2>10 DEF MjpegInv
<1>2. ASSUME NEW c \in Clients, PollLagged(c) PROVE MjpegInv'
  <2> DEFINE k == Skipped(c)
  <2>1. /\ Listening(c) /\ NumberedFrom(c) /\ LastSeen(c)
        /\ next[c] + Capacity <= Len(sent)
    BY <1>0, <1>2 DEF PollLagged, ClientOK, Listening, Receiving
  <2>2. k \in Nat /\ next[c] + k <= Len(sent) + 1
    BY <1>0, <2>1, MjpegNumbers DEF Skipped
  <2>3. /\ next' = [next EXCEPT ![c] = @ + k]
        /\ dropped' = [dropped EXCEPT ![c] = @ + k]
        /\ expected' = [expected EXCEPT ![c] = OrZero(@) + k]
        /\ UNCHANGED <<sequence, gen, frame, sent, subscribers, pc, last, gaps, first, got>>
    BY <1>2 DEF PollLagged, genVars
  <2> HIDE DEF k
  <2>4. MjpegTypeOK'
    <3>1. OrZero(expected[c]) \in Nat /\ next[c] \in Nat /\ dropped[c] \in Nat
      BY <1>0, MjpegNumbers
    <3>2. OrZero(expected[c]) + k \in Nat /\ next[c] + k \in Nat /\ dropped[c] + k \in Nat
      BY <2>2, <3>1
    <3>3. /\ expected' \in [Clients -> Nat \cup {None}]
          /\ next' \in [Clients -> Nat] /\ dropped' \in [Clients -> Nat]
      BY <1>0, <2>3, <3>2, Zenon DEF MjpegTypeOK
    <3> QED
      BY <1>0, <2>3, <3>3 DEF MjpegTypeOK
  <2>5. SubscribersExact' /\ NumberOK'
    BY <1>0, <2>3 DEF SubscribersExact, NumberOK
  <2>6. Upcoming' = Upcoming /\ \A d \in Clients : Listening(d)' = Listening(d)
    BY <2>3 DEF Listening, Upcoming
  <2>7. ASSUME NEW d \in Clients, d # c PROVE ClientOK(d)'
    BY <1>0, <2>3, <2>6, <2>7, Bystander DEF MjpegTypeOK
  <2>8. ClientOK(c)'
    <3>1. /\ gaps'[c] = gaps[c] /\ first'[c] = first[c] /\ dropped'[c] = dropped[c] + k
          /\ last'[c] = last[c] /\ expected'[c] = OrZero(expected[c]) + k
          /\ next'[c] = next[c] + k /\ got'[c] = got[c]
      BY <1>0, <2>3 DEF MjpegTypeOK
    <3>2. /\ Len(sent) \in Nat /\ Upcoming \in Nat /\ next[c] \in Nat /\ got[c] \in Nat
          /\ first[c] \in Nat /\ dropped[c] \in Nat /\ OrZero(expected[c]) \in Nat
          /\ last[c] # None => last[c] \in Nat
      BY <1>0, MjpegNumbers
    <3>3. OrZero(expected[c])' = OrZero(expected[c]) + k
      BY <2>2, <3>1, <3>2 DEF OrZero
    <3>4. LastSeen(c)'
      <4>1. ASSUME last[c] # None
            PROVE  last[c] + (OrZero(expected[c]) + k) + Len(sent) + 2 = Upcoming + (next[c] + k)
        <5> DEFINE a == last[c]
                   b == OrZero(expected[c])
                   l == Len(sent)
                   n == next[c]
                   u == Upcoming
        <5>1. a + b + l + 2 = u + n
          BY <2>1, <4>1 DEF LastSeen
        <5>2. a \in Nat /\ b \in Nat /\ l \in Nat /\ n \in Nat /\ u \in Nat
          BY <3>2, <4>1
        <5> HIDE DEF a, b, l, n, u
        <5>3. a + (b + k) + l + 2 = u + (n + k)
          BY <2>2, <5>1, <5>2
        <5> QED
          BY <5>3 DEF a, b, l, n, u
      <4>2. /\ last[c]' = last[c] /\ next[c]' = next[c] + k /\ Len(sent)' = Len(sent)
            /\ OrZero(expected[c])' = OrZero(expected[c]) + k /\ Upcoming' = Upcoming
        BY <2>3, <2>6, <3>1, <3>3
      <4> QED
        BY <4>1, <4>2, Zenon DEF LastSeen
    <3>5. NumberedFrom(c)'
      <4>1. first'[c] = first[c] /\ next'[c] = next[c] + k /\ sent' = sent /\ Upcoming' = Upcoming
        BY <2>3, <2>6, <3>1
      <4>2. first[c] <= next[c] + k /\ next[c] + k <= Len(sent) + 1
        BY <2>1, <2>2, <3>2 DEF NumberedFrom
      <4> QED
        BY <2>1, <4>1, <4>2 DEF NumberedFrom
    <3>6. gaps[c] = 0 /\ first[c] + got[c] + dropped[c] = next[c]
      BY <1>0 DEF ClientOK
    <3>7. first'[c] + got'[c] + dropped'[c] = next'[c]
      <4> HIDE DEF k
      <4>1. first[c] + got[c] + (dropped[c] + k) = next[c] + k
        <5> DEFINE a == first[c]
                   b == got[c]
                   d == dropped[c]
                   n == next[c]
        <5>1. a \in Nat /\ b \in Nat /\ d \in Nat /\ n \in Nat /\ k \in Nat /\ a + b + d = n
          BY <2>2, <3>2, <3>6
        <5> HIDE DEF a, b, d, n
        <5>2. a + b + (d + k) = n + k
          BY <5>1, SumGrows
        <5> QED
          BY <5>2 DEF a, b, d, n
      <4>2. /\ first[c]' = first[c] /\ got[c]' = got[c]
            /\ dropped[c]' = dropped[c] + k /\ next[c]' = next[c] + k
        BY <3>1
      <4> QED
        BY <4>1, <4>2
    <3> QED
      BY <2>1, <2>6, <3>1, <3>4, <3>5, <3>6, <3>7 DEF ClientOK
  <2> QED
    BY <2>4, <2>5, <2>7, <2>8 DEF MjpegInv
<1>3. CASE Tick \/ SnapshotTaken \/ SnapshotFails
  <2>1. /\ UNCHANGED <<sent, subscribers, pc, viewVars>> /\ gen # "numbered"
        /\ \/ UNCHANGED <<sequence, frame>> /\ gen' \in {"tick", "snapshot"}
           \/ /\ sequence < MaxFrames /\ sequence' = sequence + 1
              /\ frame' = sequence /\ gen' = "numbered"
    BY <1>0, <1>3 DEF Tick, SnapshotTaken, SnapshotFails
  <2>2. MjpegTypeOK'
    BY <1>0, <2>1 DEF MjpegTypeOK, viewVars
  <2>3. SubscribersExact' /\ NumberOK'
    BY <1>0, <2>1 DEF SubscribersExact, NumberOK
  <2>4. Upcoming' = Upcoming /\ \A d \in Clients : Listening(d)' = Listening(d)
    BY <2>1 DEF Listening, Upcoming
  <2>5. ASSUME NEW d \in Clients PROVE ClientOK(d)'
    BY <1>0, <2>1, <2>4, Bystander DEF viewVars
  <2> QED
    BY <2>2, <2>3, <2>5 DEF MjpegInv
<1>4. CASE Send
  <2>1. /\ gen = "numbered" /\ gen' = "tick" /\ Broadcast(frame)
        /\ UNCHANGED <<sequence, frame, subscribers, pc, viewVars>>
    BY <1>4 DEF Send
  <2>2. MjpegTypeOK'
    BY <1>0, <2>1 DEF Broadcast, MjpegTypeOK, viewVars
  <2>3. SubscribersExact' /\ NumberOK'
    BY <1>0, <2>1 DEF SubscribersExact, NumberOK
  <2>4. Upcoming = frame /\ Upcoming' = frame + 1
    BY <1>0, <2>1 DEF Upcoming, NumberOK
  <2>5. ASSUME NEW d \in Clients PROVE ClientOK(d)'
    <3>1. /\ UNCHANGED <<next[d], last[d], expected[d], gaps[d], dropped[d], first[d], got[d]>>
          /\ Listening(d)' = Listening(d) /\ ClientOK(d)
      BY <1>0, <2>1 DEF viewVars, Listening
    <3>2. CASE ~ Listening(d)
      BY <3>1, <3>2 DEF ClientOK, LastSeen, Blank
    <3>3. CASE Listening(d)
      <4>1. sent' = Append(sent, frame)
        BY <2>1, <3>3 DEF Broadcast, Receivers, Listening
      <4>2. /\ sent \in Seq(Nat) /\ frame \in Nat
            /\ Len(sent) \in Nat /\ next[d] \in Nat /\ first[d] \in Nat
            /\ OrZero(expected[d]) \in Nat /\ (last[d] # None => last[d] \in Nat)
        BY <1>0, MjpegNumbers DEF MjpegTypeOK
      <4>3. /\ Len(sent') = Len(sent) + 1 /\ sent'[Len(sent) + 1] = frame
            /\ \A i \in 1 .. Len(sent) : sent'[i] = sent[i] /\ sent[i] \in Nat
        BY <4>1, <4>2
      <4>4. NumberedFrom(d) /\ LastSeen(d)
        BY <3>1, <3>3 DEF ClientOK
      <4>5. OrZero(expected[d])' = OrZero(expected[d])
        BY <3>1 DEF OrZero
      <4>6. LastSeen(d)'
        <5>1. ASSUME last[d] # None
              PROVE  last[d] + OrZero(expected[d]) + (Len(sent) + 1) + 2 = (frame + 1) + next[d]
          <6> DEFINE a == last[d]
                     b == OrZero(expected[d])
                     l == Len(sent)
                     n == next[d]
          <6>1. a + b + l + 2 = frame + n
            BY <2>4, <4>4, <5>1 DEF LastSeen
          <6>2. a \in Nat /\ b \in Nat /\ l \in Nat /\ n \in Nat /\ frame \in Nat
            BY <4>2, <5>1
          <6> HIDE DEF a, b, l, n
          <6>3. a + b + (l + 1) + 2 = (frame + 1) + n
            BY <6>1, <6>2
          <6> QED
            BY <6>3 DEF a, b, l, n
        <5>2. /\ last[d]' = last[d] /\ next[d]' = next[d] /\ Len(sent)' = Len(sent) + 1
              /\ OrZero(expected[d])' = OrZero(expected[d]) /\ Upcoming' = frame + 1
          BY <2>4, <3>1, <4>3, <4>5
        <5> QED
          BY <5>1, <5>2, Zenon DEF LastSeen
      <4>7. ASSUME NEW i \in first[d] .. Len(sent')
            PROVE  sent'[i] + Len(sent') + 1 = Upcoming' + i
        <5>1. CASE i = Len(sent) + 1
          BY <2>4, <4>2, <4>3, <5>1
        <5>2. CASE i # Len(sent) + 1
          <6>1. i \in first[d] .. Len(sent) /\ i \in 1 .. Len(sent) /\ i \in Nat
            BY <4>2, <4>3, <4>4, <5>2 DEF NumberedFrom
          <6>2. sent[i] + Len(sent) + 1 = frame + i
            BY <2>4, <4>4, <6>1 DEF NumberedFrom
          <6>3. sent[i] + (Len(sent) + 1) + 1 = (frame + 1) + i
            <7> DEFINE x == sent[i]
                       l == Len(sent)
            <7>1. x + l + 1 = frame + i /\ x \in Nat /\ l \in Nat /\ frame \in Nat /\ i \in Nat
              BY <4>2, <4>3, <6>1, <6>2
            <7> HIDE DEF x, l
            <7>2. x + (l + 1) + 1 = (frame + 1) + i
              BY <7>1
            <7> QED
              BY <7>2 DEF x, l
          <6> QED
            BY <2>4, <4>3, <6>1, <6>3
        <5> QED
          BY <5>1, <5>2
      <4>8. NumberedFrom(d)'
        BY <3>1, <4>2, <4>3, <4>4, <4>7 DEF NumberedFrom
      <4> QED
        BY <3>1, <3>3, <4>6, <4>8 DEF ClientOK
    <3> QED
      BY <3>2, <3>3
  <2> QED
    BY <2>2, <2>3, <2>5 DEF MjpegInv
<1>5. ASSUME NEW c \in Clients, Count(c) PROVE MjpegInv'
  <2>1. /\ UNCHANGED <<genVars, viewVars>> /\ pc[c] = "away"
        /\ subscribers' = subscribers + 1 /\ pc' = [pc EXCEPT ![c] = "counted"]
    BY <1>5 DEF Count, Goto
  <2>2. MjpegTypeOK'
    BY <1>0, <2>1 DEF MjpegTypeOK, genVars, viewVars, Points
  <2>3. SubscribersExact' /\ NumberOK'
    <3>1. CountedClients' = CountedClients \cup {c} /\ c \notin CountedClients
      BY <1>0, <2>1 DEF CountedClients, Counted, MjpegTypeOK
    <3>2. IsFiniteSet(CountedClients)
      BY ClientsAssumption, FS_Subset DEF CountedClients
    <3>3. Cardinality(CountedClients') = Cardinality(CountedClients) + 1
      BY <3>1, <3>2, FS_AddElement
    <3> QED
      BY <1>0, <2>1, <3>3 DEF SubscribersExact, CountedClients, NumberOK, genVars
  <2>4. UNCHANGED <<sent, Upcoming>> /\ \A d \in Clients : Listening(d)' = Listening(d)
    BY <1>0, <2>1 DEF Listening, Receiving, Upcoming, genVars, MjpegTypeOK
  <2>5. ASSUME NEW d \in Clients PROVE ClientOK(d)'
    BY <1>0, <2>1, <2>4, Bystander DEF viewVars
  <2> QED
    BY <2>2, <2>3, <2>5 DEF MjpegInv
<1>6. ASSUME NEW c \in Clients, Subscribe(c) PROVE MjpegInv'
  <2>1. /\ pc[c] = "counted" /\ pc' = [pc EXCEPT ![c] = "open"]
        /\ next' = [next EXCEPT ![c] = Len(sent) + 1]
        /\ first' = [first EXCEPT ![c] = Len(sent) + 1]
        /\ UNCHANGED <<sequence, gen, frame, sent, subscribers, last, expected, gaps, dropped, got>>
    BY <1>6 DEF Subscribe, Goto, genVars
  <2>2. MjpegTypeOK'
    BY <1>0, <2>1 DEF MjpegTypeOK, Points
  <2>3. SubscribersExact' /\ NumberOK'
    <3>1. CountedClients' = CountedClients
      BY <1>0, <2>1 DEF CountedClients, Counted, MjpegTypeOK
    <3> QED
      BY <1>0, <2>1, <3>1, CountUndisturbed DEF NumberOK
  <2>4. Upcoming' = Upcoming
    BY <2>1 DEF Upcoming
  <2>5. ASSUME NEW d \in Clients, d # c PROVE ClientOK(d)'
    <3>1. /\ UNCHANGED <<next[d], last[d], expected[d], gaps[d], dropped[d], first[d], got[d]>>
          /\ Listening(d)' = Listening(d) /\ ClientOK(d)
      BY <1>0, <2>1, <2>5 DEF Listening, MjpegTypeOK
    <3> QED
      BY <2>1, <2>4, <3>1, Bystander
  <2>6. ClientOK(c)'
    <3>1. gaps[c] = 0 /\ Blank(c)
      BY <1>0, <2>1 DEF ClientOK, Listening, Receiving
    <3>2. /\ next'[c] = Len(sent) + 1 /\ first'[c] = Len(sent) + 1 /\ Len(sent') \in Nat
          /\ UNCHANGED <<sent, last[c], expected[c], gaps[c], dropped[c], got[c]>>
          /\ Listening(c)'
      BY <1>0, <2>1, MjpegNumbers DEF MjpegTypeOK, Listening, Receiving
    <3> QED
      BY <3>1, <3>2 DEF ClientOK, LastSeen, NumberedFrom, Blank
  <2> QED
    BY <2>2, <2>3, <2>5, <2>6 DEF MjpegInv
<1>7. ASSUME NEW c \in Clients, FirstPoll(c) PROVE MjpegInv'
  <2>1. /\ pc[c] = "open" /\ pc' = [pc EXCEPT ![c] = "streaming"]
        /\ UNCHANGED <<genVars, subscribers, viewVars>>
    BY <1>7 DEF FirstPoll, Goto
  <2>2. MjpegTypeOK'
    BY <1>0, <2>1 DEF MjpegTypeOK, genVars, viewVars, Points
  <2>3. SubscribersExact' /\ NumberOK'
    <3>1. CountedClients' = CountedClients
      BY <1>0, <2>1 DEF CountedClients, Counted, MjpegTypeOK
    <3> QED
      BY <1>0, <2>1, <3>1, CountUndisturbed DEF NumberOK, genVars
  <2>4. UNCHANGED <<sent, Upcoming>> /\ \A d \in Clients : Listening(d)' = Listening(d)
    BY <1>0, <2>1 DEF Listening, Receiving, Upcoming, genVars, MjpegTypeOK
  <2>5. ASSUME NEW d \in Clients PROVE ClientOK(d)'
    BY <1>0, <2>1, <2>4, Bystander DEF viewVars
  <2> QED
    BY <2>2, <2>3, <2>5 DEF MjpegInv
<1>8. ASSUME NEW c \in Clients, Drop(c) PROVE MjpegInv'
  <2>1. /\ pc[c] \in {"open", "streaming"} /\ pc' = [pc EXCEPT ![c] = "uncounted"]
        /\ subscribers' = subscribers - 1
        /\ UNCHANGED <<genVars, viewVars>>
    BY <1>8 DEF Drop, Goto
  <2>2. SubscribersExact' /\ subscribers' \in Nat
    <3>1. CountedClients' = CountedClients \ {c} /\ c \in CountedClients
      BY <1>0, <2>1 DEF CountedClients, Counted, MjpegTypeOK
    <3>2. IsFiniteSet(CountedClients)
      BY ClientsAssumption, FS_Subset DEF CountedClients
    <3>3. Cardinality(CountedClients') = Cardinality(CountedClients) - 1
      BY <3>1, <3>2, FS_RemoveElement
    <3>4. Cardinality(CountedClients') \in Nat
      BY <3>1, <3>2, FS_RemoveElement, FS_CardinalityType
    <3> QED
      BY <1>0, <2>1, <3>3, <3>4 DEF SubscribersExact, CountedClients
  <2>3. MjpegTypeOK' /\ NumberOK'
    BY <1>0, <2>1, <2>2 DEF MjpegTypeOK, NumberOK, genVars, viewVars, Points
  <2>4. UNCHANGED <<sent, Upcoming>> /\ \A d \in Clients : Listening(d)' = Listening(d)
    BY <1>0, <2>1 DEF Listening, Receiving, Upcoming, genVars, MjpegTypeOK
  <2>5. ASSUME NEW d \in Clients PROVE ClientOK(d)'
    BY <1>0, <2>1, <2>4, Bystander DEF viewVars
  <2> QED
    BY <2>2, <2>3, <2>5 DEF MjpegInv
<1>9. ASSUME NEW c \in Clients, DropReceiver(c) PROVE MjpegInv'
  <2>1. /\ pc[c] = "uncounted" /\ pc' = [pc EXCEPT ![c] = "away"]
        /\ next' = [next EXCEPT ![c] = 0] /\ last' = [last EXCEPT ![c] = None]
        /\ expected' = [expected EXCEPT ![c] = None] /\ gaps' = [gaps EXCEPT ![c] = 0]
        /\ dropped' = [dropped EXCEPT ![c] = 0] /\ first' = [first EXCEPT ![c] = 0]
        /\ got' = [got EXCEPT ![c] = 0]
        /\ UNCHANGED <<sequence, gen, frame, sent, subscribers>>
    BY <1>9 DEF DropReceiver, Goto, genVars
  <2>2. MjpegTypeOK'
    BY <1>0, <2>1 DEF MjpegTypeOK, Points
  <2>3. SubscribersExact' /\ NumberOK'
    <3>1. CountedClients' = CountedClients
      BY <1>0, <2>1 DEF CountedClients, Counted, MjpegTypeOK
    <3> QED
      BY <1>0, <2>1, <3>1, CountUndisturbed DEF NumberOK
  <2>4. Upcoming' = Upcoming
    BY <2>1 DEF Upcoming
  <2>5. ASSUME NEW d \in Clients, d # c PROVE ClientOK(d)'
    <3>1. /\ UNCHANGED <<next[d], last[d], expected[d], gaps[d], dropped[d], first[d], got[d]>>
          /\ Listening(d)' = Listening(d) /\ ClientOK(d)
      BY <1>0, <2>1, <2>5 DEF Listening, MjpegTypeOK
    <3> QED
      BY <2>1, <2>4, <3>1, Bystander
  <2>6. ClientOK(c)'
    BY <1>0, <2>1 DEF MjpegTypeOK, ClientOK, LastSeen, Blank, Listening, Receiving
  <2> QED
    BY <2>2, <2>3, <2>5, <2>6 DEF MjpegInv
<1>10. CASE UNCHANGED vars
  <2>1. UNCHANGED <<sequence, gen, frame, sent, subscribers, pc, viewVars>>
    BY <1>10 DEF vars, genVars
  <2>2. MjpegTypeOK' /\ SubscribersExact' /\ NumberOK'
    BY <1>0, <2>1 DEF MjpegTypeOK, SubscribersExact, NumberOK, viewVars
  <2>3. UNCHANGED <<sent, Upcoming>> /\ \A d \in Clients : Listening(d)' = Listening(d)
    BY <2>1 DEF Listening, Upcoming
  <2>4. ASSUME NEW d \in Clients PROVE ClientOK(d)'
    BY <1>0, <2>1, <2>3, Bystander DEF viewVars
  <2> QED
    BY <2>2, <2>4 DEF MjpegInv
<1> QED
  BY <1>1, <1>2, <1>3, <1>4, <1>5, <1>6, <1>7, <1>8, <1>9, <1>10 DEF Next

LEMMA MjpegInvariant == Spec => []MjpegInv
  BY MjpegInvInit, MjpegInvNext, PTL DEF Spec

(* The state of the session and of its clients always has its types.        *)
THEOREM MjpegTyped == Spec => []MjpegTypeOK
<1>1. MjpegInv => MjpegTypeOK
  BY DEF MjpegInv
<1> QED
  BY <1>1, MjpegInvariant, PTL

(* The count that sends the loop to sleep is the number of clients; since   *)
(* it is also a natural number, unsubscribe never wraps it.                 *)
THEOREM SubscribersCounted == Spec => []SubscribersExact
<1>1. MjpegInv => SubscribersExact
  BY DEF MjpegInv
<1> QED
  BY <1>1, MjpegInvariant, PTL

(* sequence_gaps stays zero: every gap a client meets is the lag it was     *)
(* told of.                                                                 *)
THEOREM GapsExplained == Spec => []NoUnexpectedGap
<1>1. MjpegInv => NoUnexpectedGap
  BY DEF MjpegInv, ClientOK, NoUnexpectedGap
<1> QED
  BY <1>1, MjpegInvariant, PTL

(* Received and dropped frames add up to what the receiver has passed.      *)
THEOREM FramesAccounted == Spec => []FramesAccountedFor
<1>1. MjpegInv => FramesAccountedFor
  BY DEF MjpegInv, ClientOK, FramesAccountedFor
<1> QED
  BY <1>1, MjpegInvariant, PTL

(* A client is told of every frame it missed.                               *)
THEOREM LossesAreTold == Spec => []LossesTold
<1>1. NoUnexpectedGap /\ FramesAccountedFor => LossesTold
  BY DEF LossesTold
<1> QED
  BY <1>1, GapsExplained, FramesAccounted, PTL

(* The branch of poll_next for a backwards sequence is never taken.         *)
THEOREM NeverBackwards == Spec => FramesIncrease
<1> DEFINE Step == \A c \in Clients : got'[c] > got[c] /\ last[c] # None => last'[c] > last[c]
<1>1. MjpegInv /\ [Next]_vars => [Step]_vars
  <2> SUFFICES ASSUME MjpegInv, Next, NEW c \in Clients, got'[c] > got[c], last[c] # None
               PROVE  last'[c] > last[c]
    OBVIOUS
  <2>0. MjpegTypeOK /\ ClientOK(c)
    BY DEF MjpegInv
  <2>1. PollFrame(c)
    <3>1. PICK d \in Clients : PollFrame(d) \/ DropReceiver(d)
      BY <2>0 DEF Next, Tick, SnapshotTaken, SnapshotFails, Send, Count, Subscribe, FirstPoll,
         PollLagged, Drop, viewVars, MjpegTypeOK
    <3>2. ~ DropReceiver(d)
      <4>1. DropReceiver(d) => got'[c] \in {0, got[c]}
        BY <2>0 DEF DropReceiver, MjpegTypeOK
      <4> QED
        BY <2>0, <4>1 DEF MjpegTypeOK
    <3>3. d # c => got'[c] = got[c]
      BY <2>0, <3>1, <3>2 DEF PollFrame, MjpegTypeOK
    <3> QED
      BY <2>0, <3>1, <3>2, <3>3 DEF MjpegTypeOK
  <2>2. /\ next[c] <= Len(sent) /\ last'[c] = sent[next[c]]
        /\ NumberedFrom(c) /\ LastSeen(c)
    BY <2>0, <2>1 DEF PollFrame, ClientOK, Listening, Receiving, MjpegTypeOK
  <2>3. /\ Len(sent) \in Nat /\ Upcoming \in Nat /\ next[c] \in Nat /\ first[c] \in Nat
        /\ OrZero(expected[c]) \in Nat /\ last[c] \in Nat
    BY <2>0, MjpegNumbers
  <2>4. sent[next[c]] \in Nat /\ sent[next[c]] + Len(sent) + 1 = Upcoming + next[c]
    <3>1. next[c] \in first[c] .. Len(sent) /\ next[c] \in 1 .. Len(sent)
      BY <2>2, <2>3 DEF NumberedFrom
    <3> QED
      BY <2>0, <2>2, <3>1, MjpegNumbers DEF NumberedFrom
  <2>5. last[c] + OrZero(expected[c]) + Len(sent) + 2 = Upcoming + next[c]
    BY <2>2 DEF LastSeen
  <2> DEFINE f == sent[next[c]]
  <2>6. f \in Nat /\ f + Len(sent) + 1 = Upcoming + next[c] /\ last'[c] = f
    BY <2>2, <2>4
  <2> HIDE DEF f
  <2>7. f > last[c]
    <3>1. \A a, b, l, u, n \in Nat : a + b + l + 2 = u + n /\ f + l + 1 = u + n => f > a
      BY <2>6
    <3> QED
      BY <2>3, <2>5, <2>6, <3>1
  <2> QED
    BY <2>6, <2>7
<1> QED
  BY <1>1, MjpegInvariant, PTL DEF Spec, FramesIncrease

-----------------------------------------------------------------------------
(* The captures, who asks for their frames, and what is stored:             *)
(* StreamFrames.                                                            *)

(* What a task and an asker hold at each of their points.                   *)
Stages == [at : TaskStages \ {"insert", "delete"}] \cup [at : {"insert", "delete"}, name : Names]
AskerStages ==
    {Idle} \cup [at : {"memory", "handle", "row", "fallback", "compare"}, job : BOOLEAN]
           \cup [at : {"snap", "cache"}, job : BOOLEAN, of : Captures]
           \cup [at : {"insert"}, job : {TRUE}, name : Names]

Started(g) == task[g].at # "none"

(* The table and the tasks: captures start in the order of their numbers,   *)
(* so that the entry is the last one that has started.                      *)
TableInv ==
    /\ FramesTypeOK
    /\ task \in [Captures -> Stages] /\ asker \in [Askers -> AskerStages]
    /\ apart \subseteq Captures
    /\ \A g \in Captures : Started(g) => \A h \in 1 .. g - 1 : Started(h)
    /\ entry # 0 => \A g \in Captures : Started(g) => g <= entry
    /\ \A g \in Captures :
        /\ ~Started(g) => latest[g] = 0 /\ g \notin leaving \cup aborted \cup apart
        /\ updater[g] = "none" <=> ~Started(g)

(* A capture that began apart is met by no handle of an earlier one: not in *)
(* the table, not with an updater, not with somebody who will cache a frame.*)
Unmixed(g) ==
    /\ latest[g] \in {0, g}
    /\ \A h \in 1 .. g - 1 : updater[h] = "gone"
    /\ entry = g =>
        /\ installed \in {0, g}
        /\ \A a \in Askers : asker[a].at \in {"snap", "cache"} => asker[a].of = g

(* Whoever is about to insert a row, or to delete the file of a row that    *)
(* could not be inserted.                                                   *)
Holds(g, n) == task[g].at \in {"insert", "delete"} /\ task[g].name = n
JobHolds(a, n) == asker[a].at = "insert" /\ asker[a].name = n

(* A name that somebody holds has its file, and one that another holds too, *)
(* or that has a row already, was given twice; but a job's name is not one  *)
(* of the capture manager's.                                                *)
StoreInv ==
    /\ RowsHaveFiles
    /\ \A g \in Captures, n \in Names : Holds(g, n) =>
        /\ n.dir = "manager" /\ n \in files \cup twice
        /\ rows[n] > 0 => n \in twice
        /\ \A h \in Captures \ {g} : Holds(h, n) => n \in twice
    /\ \A a \in Askers, n \in Names : JobHolds(a, n) => n.dir = "job" /\ n \in files \cup twice

FramesInv == TableInv /\ (\A g \in apart : Unmixed(g)) /\ StoreInv

LEMMA FramesInvInit == FramesInit => FramesInv
<1> SUFFICES ASSUME FramesInit PROVE FramesInv
  OBVIOUS
<1> USE FrameAssumption DEF FramesInit, At, Idle
<1>1. TableInv
  BY DEF TableInv, FramesTypeOK, Stages, TaskStages, AskerStages, Started, Captures
<1>2. StoreInv
  BY DEF StoreInv, RowsHaveFiles, Holds, JobHolds
<1> QED
  BY <1>1, <1>2 DEF FramesInv

(* The table, the captures that began apart and the names are each left     *)
(* alone by most steps.                                                     *)
LEMMA UnmixedKept ==
    ASSUME TableInv, \A g \in apart : Unmixed(g), apart' = apart,
           \A h \in Captures : updater[h] = "gone" => updater'[h] = "gone",
           UNCHANGED <<latest, entry, installed>>,
           \A a \in Askers : asker'[a].at \in {"snap", "cache"} =>
              \/ asker[a].at \in {"snap", "cache"} /\ asker'[a].of = asker[a].of
              \/ entry # 0 => asker'[a].of = installed /\ installed # 0
    PROVE  \A g \in apart' : Unmixed(g)'
<1> SUFFICES ASSUME NEW g \in apart PROVE Unmixed(g)'
  OBVIOUS
<1>1. Unmixed(g) /\ g \in Captures /\ g # 0 /\ g \in Nat
  BY FrameAssumption DEF TableInv, Captures
<1>2. \A h \in 1 .. g - 1 : h \in Captures
  BY <1>1, FrameAssumption DEF Captures
<1> QED
  BY <1>1, <1>2 DEF Unmixed

LEMMA StoreKept ==
    ASSUME StoreInv, UNCHANGED storeVars,
           \A g \in Captures, n \in Names : Holds(g, n)' => Holds(g, n),
           \A a \in Askers, n \in Names : JobHolds(a, n)' => JobHolds(a, n)
    PROVE  StoreInv'
  BY DEF StoreInv, RowsHaveFiles, storeVars

LEMMA TableKept ==
    ASSUME TableInv, FramesTypeOK', task' \in [Captures -> Stages], asker' \in [Askers -> AskerStages],
           entry' \in {0, entry}, apart' = apart,
           \A g \in leaving' \cup aborted' : g \in leaving \cup aborted \/ (g = entry /\ entry # 0),
           \A g \in Captures :
              /\ Started(g)' <=> Started(g)
              /\ updater'[g] = "none" <=> updater[g] = "none"
              /\ latest'[g] = latest[g] \/ Started(g)
    PROVE  TableInv'
<1>1. entry # 0 => Started(entry)
  BY DEF TableInv, FramesTypeOK, Started
<1>2. \A g \in Captures : \A h \in 1 .. g - 1 : h \in Captures
  BY FrameAssumption DEF Captures
<1>3. \A g \in Captures : Started(g)' => \A h \in 1 .. g - 1 : Started(h)'
  BY <1>2 DEF TableInv
<1>4. entry' # 0 => \A g \in Captures : Started(g)' => g <= entry'
  BY DEF TableInv
<1>5. ASSUME NEW g \in Captures
      PROVE  /\ ~Started(g)' => latest'[g] = 0 /\ g \notin leaving' \cup aborted' \cup apart'
             /\ updater'[g] = "none" <=> ~Started(g)'
  BY <1>1 DEF TableInv
<1> QED
  BY <1>3, <1>4, <1>5 DEF TableInv

LEMMA StartKeeps == FramesInv /\ StartCapture => FramesInv'
<1> SUFFICES ASSUME FramesInv, StartCapture PROVE FramesInv'
  OBVIOUS
<1> USE FrameAssumption
<1>0. TableInv /\ (\A g \in apart : Unmixed(g)) /\ StoreInv
  BY DEF FramesInv
<1>1. PICK g \in Captures :
        /\ task[g].at = "none" /\ \A h \in 1 .. g - 1 : task[h].at # "none"
        /\ entry' = g /\ installed' = 0
        /\ task' = [task EXCEPT ![g] = At("opening")]
        /\ updater' = [updater EXCEPT ![g] = "waits"]
        /\ apart' = IF NobodyAtWork THEN apart \cup {g} ELSE apart
  BY DEF StartCapture
<1>2. entry = 0 /\ UNCHANGED <<leaving, aborted, latest, asker, config, watch, second, storeVars>>
  BY DEF StartCapture, Elsewhere
<1>3. \A h \in Captures : Started(h)' <=> Started(h) \/ h = g
  BY <1>0, <1>1 DEF TableInv, Started, At
<1>4. ASSUME NEW h \in Captures, Started(h) PROVE h < g
  BY <1>0, <1>1, <1>4 DEF TableInv, Started, Captures
<1>5. FramesTypeOK'
  BY <1>0, <1>1, <1>2 DEF TableInv, FramesTypeOK, At, Started, TaskStages, storeVars, Captures
<1>6. task' \in [Captures -> Stages] /\ asker' \in [Askers -> AskerStages] /\ apart' \subseteq Captures
  BY <1>0, <1>1, <1>2 DEF TableInv, At, Stages, TaskStages
<1>7. TableInv'
  <2>1. \A h \in Captures : Started(h)' => \A k \in 1 .. h - 1 : Started(k)'
    BY <1>0, <1>1, <1>3 DEF TableInv, Started, Captures
  <2>2. \A h \in Captures : Started(h)' => h <= entry'
    BY <1>1, <1>3, <1>4 DEF Captures
  <2>3. ASSUME NEW h \in Captures
        PROVE  /\ ~Started(h)' => latest'[h] = 0 /\ h \notin leaving' \cup aborted' \cup apart'
               /\ updater'[h] = "none" <=> ~Started(h)'
    BY <1>0, <1>1, <1>2, <1>3 DEF TableInv, FramesTypeOK
  <2> QED
    BY <1>5, <1>6, <2>1, <2>2, <2>3 DEF TableInv
<1>8. ASSUME NEW h \in apart' PROVE Unmixed(h)'
  <2>1. CASE h \in apart
    <3>1. h < g /\ h \in Captures /\ Unmixed(h)
      BY <1>0, <1>4, <2>1 DEF TableInv
    <3>2. \A k \in 1 .. h - 1 : updater'[k] = updater[k]
      BY <1>0, <1>1, <3>1 DEF TableInv, FramesTypeOK, Captures
    <3> QED
      BY <1>1, <1>2, <3>1, <3>2 DEF Unmixed, Captures
  <2>2. CASE h = g /\ NobodyAtWork
    <3>1. \A k \in 1 .. g - 1 : updater'[k] = "gone"
      <4> SUFFICES ASSUME NEW k \in 1 .. g - 1 PROVE updater'[k] = "gone"
        OBVIOUS
      <4>1. k \in Captures /\ k # g /\ task[k].at # "none"
        BY <1>1 DEF Captures
      <4>2. updater[k] # "none" /\ updater[k] \in {"none", "gone"}
        BY <1>0, <2>2, <4>1 DEF TableInv, Started, NobodyAtWork
      <4> QED
        BY <1>0, <1>1, <4>1, <4>2 DEF TableInv, FramesTypeOK
    <3>2. \A a \in Askers : asker'[a].at = "idle"
      BY <1>2, <2>2 DEF NobodyAtWork, Idle, At
    <3>3. latest'[g] = 0
      BY <1>0, <1>1, <1>2 DEF TableInv, Started
    <3> QED
      BY <1>1, <2>2, <3>1, <3>2, <3>3 DEF Unmixed
  <2> QED
    BY <1>1, <2>1, <2>2
<1>9. StoreInv'
  BY <1>0, <1>1, <1>2, StoreKept DEF Holds, JobHolds, At, TableInv
<1> QED
  BY <1>7, <1>8, <1>9 DEF FramesInv

LEMMA TaskKeeps ==
    ASSUME FramesInv, NEW g \in Captures,
           TaskOpens(g) \/ TaskGivesUp(g) \/ TickKeeps(g) \/ TickSetsOffJob(g) \/ LoopEnds(g)
    PROVE  FramesInv'
<1> USE FrameAssumption
<1>0. TableInv /\ (\A h \in apart : Unmixed(h)) /\ StoreInv
  BY DEF FramesInv
<1> DEFINE Moves(s) == task' = [task EXCEPT ![g] = s]
<1>1. TableStays /\ UNCHANGED storeVars
  BY DEF TaskOpens, TaskGivesUp, TickKeeps, TickSetsOffJob, LoopEnds
<1>2. PICK stage \in {"loop", "ending", "died", "store"} : Moves(At(stage)) /\ task[g].at # "none"
  BY DEF TaskOpens, TaskGivesUp, TickKeeps, TickSetsOffJob, LoopEnds, GoesOn
<1>3. task' \in [Captures -> Stages]
  BY <1>0, <1>2 DEF TableInv, Stages, TaskStages, At
<1>4. \A h \in Captures : Started(h)' <=> Started(h)
  BY <1>0, <1>2 DEF TableInv, Started, At
<1>5. \/ UNCHANGED updater /\ task[g].at # "opening"
      \/ /\ task[g].at = "opening" /\ updater[g] = "waits"
         /\ \E u \in {"has", "gone"} : updater' = [updater EXCEPT ![g] = u]
  BY <1>0 DEF TaskOpens, TaskGivesUp, TickKeeps, TickSetsOffJob, LoopEnds, TableInv, FramesTypeOK
<1>6. latest' = latest \/ latest' = [latest EXCEPT ![g] = g]
  BY DEF TaskOpens, TaskGivesUp, TickKeeps, TickSetsOffJob, LoopEnds
<1>7. /\ asker' \in [Askers -> AskerStages]
      /\ \A a \in Askers : asker'[a] = asker[a] \/ asker'[a] = [at |-> "memory", job |-> TRUE]
  <2>1. UNCHANGED asker
        \/ \E a \in Askers : asker' = [asker EXCEPT ![a] = [at |-> "memory", job |-> TRUE]]
    BY DEF TaskOpens, TaskGivesUp, TickKeeps, TickSetsOffJob, LoopEnds
  <2>2. [at |-> "memory", job |-> TRUE] \in AskerStages
    BY DEF AskerStages
  <2>3. asker \in [Askers -> AskerStages]
    BY <1>0 DEF TableInv
  <2> QED
    BY <2>1, <2>2, <2>3
<1>8. FramesTypeOK'
  <2> USE DEF TableInv, FramesTypeOK
  <2>1. \A h \in Captures : task'[h].at \in TaskStages /\ (task[h].at # "none" => task'[h].at # "none")
    BY <1>0, <1>2 DEF TaskStages, At
  <2>2. entry' = entry /\ entry \in {0} \cup {h \in Captures : task'[h].at # "none"}
    BY <1>0, <1>1, <2>1 DEF TableStays
  <2>3. updater' \in [Captures -> {"none", "waits", "has", "gone"}]
    BY <1>0, <1>5
  <2>4. \A h \in Captures : updater'[h] = "waits" <=> task'[h].at = "opening"
    BY <1>0, <1>2, <1>5 DEF At
  <2>5. latest' \in [Captures -> 0 .. MaxCaptures]
    <3>1. latest \in [Captures -> 0 .. MaxCaptures] /\ g \in 0 .. MaxCaptures
      BY <1>0 DEF Captures
    <3> HIDE DEF TableInv, FramesTypeOK, Moves
    <3> QED
      BY <1>6, <3>1, Zenon
  <2> QED
    BY <1>0, <1>1, <2>1, <2>2, <2>3, <2>4, <2>5 DEF TableStays, storeVars
<1>9. TableInv'
  BY <1>0, <1>1, <1>2, <1>3, <1>4, <1>5, <1>6, <1>7, <1>8, TableKept
     DEF TableStays, TableInv, FramesTypeOK, Started
<1>10. ASSUME NEW h \in apart' PROVE Unmixed(h)'
  <2>1. h \in Captures /\ Unmixed(h) /\ \A k \in 1 .. h - 1 : k \in Captures
    BY <1>0, <1>1, <1>10 DEF TableInv, TableStays, Captures
  <2>2. latest'[h] \in {0, h}
    BY <1>0, <1>6, <2>1 DEF Unmixed, TableInv, FramesTypeOK
  <2>3. \A k \in 1 .. h - 1 : updater'[k] = "gone"
    BY <1>0, <1>5, <2>1 DEF Unmixed, TableInv, FramesTypeOK
  <2> QED
    BY <1>1, <1>7, <2>1, <2>2, <2>3 DEF Unmixed, TableStays
<1>11. StoreInv'
  BY <1>0, <1>1, <1>2, <1>7, StoreKept DEF Holds, JobHolds, At, TableInv
<1> QED
  BY <1>9, <1>10, <1>11 DEF FramesInv

(* The steps between taking a frame and going on with the loop: the file,   *)
(* the row, the cleanup, the deletion.                                      *)
LEMMA StorageKeeps ==
    ASSUME FramesInv, NEW g \in Captures,
           TickPuts(g) \/ TickInserts(g) \/ TickCleansUp(g) \/ TickDeletes(g)
    PROVE  FramesInv'
<1> USE FrameAssumption
<1>0. TableInv /\ (\A h \in apart : Unmixed(h)) /\ StoreInv
  BY DEF FramesInv
<1>1. TableStays /\ UNCHANGED <<updater, latest, asker>>
  BY DEF TickPuts, TickInserts, TickCleansUp, TickDeletes
<1> DEFINE Moves(s) == task' = [task EXCEPT ![g] = s]
           n == [dir |-> "manager", second |-> second]
           m == task[g].name
           Back == {At("loop"), At("cleanup")}
<1>2. n \in Names /\ n.dir = "manager"
  BY <1>0 DEF TableInv, FramesTypeOK, Names
<1>3. task[g].at \in {"insert", "delete"} => Holds(g, m) /\ m \in Names /\ task[g] = [at |-> task[g].at, name |-> m]
  BY <1>0 DEF TableInv, Stages, Holds, TaskStages
<1>4. /\ task[g].at \in {"store", "insert", "delete", "cleanup"}
      /\ \/ \E s \in Back : Moves(s)
         \/ task[g].at = "store" /\ Moves([at |-> "insert", name |-> n])
         \/ task[g].at = "insert" /\ Moves([at |-> "delete", name |-> m])
  BY <1>3 DEF TickPuts, TickInserts, TickCleansUp, TickDeletes, GoesOn
<1>5. PICK s \in Stages : Moves(s) /\ s.at \in {"loop", "cleanup", "insert", "delete"}
  <2>1. \A s \in Back : s \in Stages /\ s.at \in {"loop", "cleanup"}
    BY DEF Stages, TaskStages, At
  <2>2. \A w \in {"insert", "delete"}, k \in Names : [at |-> w, name |-> k] \in Stages
    BY DEF Stages
  <2> QED
    BY <1>2, <1>3, <1>4, <2>1, <2>2
<1>6. task' \in [Captures -> Stages]
  BY <1>0, <1>5 DEF TableInv
<1>7. \A h \in Captures : Started(h)' <=> Started(h)
  BY <1>0, <1>4, <1>5 DEF TableInv, Started
<1>8. files' \subseteq Names /\ twice' \subseteq Names /\ rows' \in [Names -> Nat]
  <2>1. CASE TickPuts(g)
    BY <1>0, <1>2, <2>1 DEF TickPuts, Puts, TableInv, FramesTypeOK
  <2>2. CASE TickInserts(g)
    BY <1>0, <1>3, <2>2 DEF TickInserts, Inserts, TableInv, FramesTypeOK
  <2>3. CASE TickCleansUp(g)
    BY <1>0, <2>3 DEF TickCleansUp, TableInv, FramesTypeOK
  <2>4. CASE TickDeletes(g)
    BY <1>0, <2>4 DEF TickDeletes, TableInv, FramesTypeOK
  <2> QED
    BY <2>1, <2>2, <2>3, <2>4
<1>9. FramesTypeOK'
  <2>1. \A h \in Captures : task'[h].at \in TaskStages
    BY <1>0, <1>5 DEF TableInv, FramesTypeOK, TaskStages
  <2>2. \A h \in Captures : updater'[h] = "waits" <=> task'[h].at = "opening"
    BY <1>0, <1>1, <1>4, <1>5 DEF TableInv, FramesTypeOK
  <2> QED
    BY <1>0, <1>1, <1>7, <1>8, <2>1, <2>2 DEF TableInv, FramesTypeOK, TableStays, Started
<1>10. TableInv'
  BY <1>0, <1>1, <1>6, <1>7, <1>9, TableKept DEF TableStays, TableInv
<1>11. \A h \in apart' : Unmixed(h)'
  BY <1>0, <1>1, UnmixedKept DEF TableStays
<1>12. \A h \in Captures \ {g}, k \in Names : Holds(h, k)' <=> Holds(h, k)
  BY <1>0, <1>5 DEF TableInv, Holds
<1>13. \A a \in Askers, k \in Names : JobHolds(a, k)' <=> JobHolds(a, k)
  BY <1>1 DEF JobHolds
<1>14. StoreInv'
  <2>1. CASE TickPuts(g)
    <3>1. CASE GoesOn(g, At("loop")) /\ UNCHANGED <<files, twice, rows>>
      <4>1. \A k \in Names : ~Holds(g, k)'
        BY <1>0, <3>1 DEF GoesOn, At, Holds, TableInv
      <4> QED
        BY <1>0, <1>12, <1>13, <3>1, <4>1, StoreKept DEF storeVars
    <3>2. CASE Puts(n) /\ GoesOn(g, [at |-> "insert", name |-> n]) /\ UNCHANGED rows
      <4>1. \A k \in Names : Holds(g, k)' <=> k = n
        BY <1>0, <3>2 DEF GoesOn, Holds, TableInv
      <4>2. files' = files \cup {n} /\ twice \subseteq twice' /\ (n \in files \/ rows[n] > 0 => n \in twice')
        BY <3>2 DEF Puts
      <4>3. RowsHaveFiles'
        BY <1>0, <3>2, <4>2 DEF StoreInv, RowsHaveFiles
      <4>4. ASSUME NEW h \in Captures, NEW k \in Names, Holds(h, k)'
            PROVE  /\ k.dir = "manager" /\ k \in files' \cup twice'
                   /\ rows'[k] > 0 => k \in twice'
                   /\ \A i \in Captures \ {h} : Holds(i, k)' => k \in twice'
        BY <1>0, <1>2, <1>12, <3>2, <4>1, <4>2, <4>4 DEF StoreInv
      <4>5. ASSUME NEW a \in Askers, NEW k \in Names, JobHolds(a, k)'
            PROVE  k.dir = "job" /\ k \in files' \cup twice'
        BY <1>0, <1>13, <4>2, <4>5 DEF StoreInv
      <4> QED
        BY <4>3, <4>4, <4>5 DEF StoreInv
    <3> QED
      BY <1>0, <2>1, <3>1, <3>2 DEF TickPuts
  <2>2. CASE TickInserts(g)
    <3>1. UNCHANGED <<files, twice>> /\ Holds(g, m) /\ m \in Names
      BY <1>3, <2>2 DEF TickInserts
    <3>2. CASE Inserts(m) /\ GoesOn(g, At("cleanup"))
      <4>1. \A k \in Names : ~Holds(g, k)'
        BY <1>0, <3>2 DEF GoesOn, At, Holds, TableInv
      <4>2. \A k \in Names : rows'[k] > 0 => rows[k] > 0 \/ k = m
        BY <1>0, <3>2 DEF Inserts, TableInv, FramesTypeOK
      <4>3. m \in files \cup twice /\ \A h \in Captures \ {g} : Holds(h, m) => m \in twice
        BY <1>0, <3>1 DEF StoreInv
      <4>4. RowsHaveFiles'
        BY <1>0, <3>1, <4>2, <4>3 DEF StoreInv, RowsHaveFiles
      <4>5. ASSUME NEW h \in Captures, NEW k \in Names, Holds(h, k)'
            PROVE  /\ k.dir = "manager" /\ k \in files' \cup twice'
                   /\ rows'[k] > 0 => k \in twice'
                   /\ \A i \in Captures \ {h} : Holds(i, k)' => k \in twice'
        BY <1>0, <1>12, <3>1, <4>1, <4>2, <4>3, <4>5 DEF StoreInv
      <4>6. ASSUME NEW a \in Askers, NEW k \in Names, JobHolds(a, k)'
            PROVE  k.dir = "job" /\ k \in files' \cup twice'
        BY <1>0, <1>13, <3>1, <4>6 DEF StoreInv
      <4> QED
        BY <4>4, <4>5, <4>6 DEF StoreInv
    <3>3. CASE GoesOn(g, [task[g] EXCEPT !.at = "delete"]) /\ UNCHANGED rows
      <4>1. \A k \in Names : Holds(g, k)' => Holds(g, k)
        BY <1>0, <1>3, <2>2, <3>3 DEF GoesOn, Holds, TableInv, TickInserts
      <4> QED
        BY <1>0, <1>12, <1>13, <3>1, <3>3, <4>1, StoreKept DEF storeVars
    <3> QED
      BY <2>2, <3>2, <3>3 DEF TickInserts
  <2>3. CASE TickCleansUp(g)
    <3>1. UNCHANGED <<files, twice>> /\ \A k \in Names : rows'[k] > 0 => rows[k] > 0
      BY <1>0, <2>3 DEF TickCleansUp, Kept, TableInv, FramesTypeOK
    <3>2. \A k \in Names : ~Holds(g, k)'
      BY <1>0, <2>3 DEF TickCleansUp, GoesOn, At, Holds, TableInv
    <3> QED
      BY <1>0, <1>12, <1>13, <3>1, <3>2 DEF StoreInv, RowsHaveFiles
  <2>4. CASE TickDeletes(g)
    <3>1. /\ UNCHANGED <<rows, twice>> /\ Holds(g, m) /\ m \in Names
          /\ \A k \in Names : k \in files => k \in files' \/ k = m
      BY <1>3, <2>4 DEF TickDeletes
    <3>2. \A k \in Names : ~Holds(g, k)'
      BY <1>0, <2>4 DEF TickDeletes, GoesOn, At, Holds, TableInv
    <3>3. /\ m.dir = "manager" /\ (rows[m] > 0 => m \in twice)
          /\ \A h \in Captures \ {g} : Holds(h, m) => m \in twice
      BY <1>0, <3>1 DEF StoreInv
    <3>4. RowsHaveFiles'
      BY <1>0, <3>1, <3>3 DEF StoreInv, RowsHaveFiles
    <3>5. ASSUME NEW h \in Captures, NEW k \in Names, Holds(h, k)'
          PROVE  /\ k.dir = "manager" /\ k \in files' \cup twice'
                 /\ rows'[k] > 0 => k \in twice'
                 /\ \A i \in Captures \ {h} : Holds(i, k)' => k \in twice'
      BY <1>0, <1>12, <3>1, <3>2, <3>3, <3>5 DEF StoreInv
    <3>6. ASSUME NEW a \in Askers, NEW k \in Names, JobHolds(a, k)'
          PROVE  k.dir = "job" /\ k \in files' \cup twice'
      BY <1>0, <1>13, <3>1, <3>3, <3>6 DEF StoreInv
    <3> QED
      BY <3>4, <3>5, <3>6 DEF StoreInv
  <2> QED
    BY <2>1, <2>2, <2>3, <2>4
<1> QED
  BY <1>10, <1>11, <1>14 DEF FramesInv

(* The ends of a capture: its own, and the stop that aborts it.             *)
LEMMA EndKeeps ==
    ASSUME FramesInv, NEW g \in Captures,
           TaskLeaves(g) \/ AbortTakesEffect(g) \/ StopTakes \/ StopAborts(g) \/ StopLeaves(g)
    PROVE  FramesInv'
<1> USE FrameAssumption
<1>0. TableInv /\ (\A h \in apart : Unmixed(h)) /\ StoreInv
  BY DEF FramesInv
<1>1. /\ UNCHANGED <<config, watch, second, files, twice, latest, asker, apart>>
      /\ \/ UNCHANGED <<entry, installed>>
         \/ entry' = 0 /\ installed' = 0
  BY DEF TaskLeaves, AbortTakesEffect, StopTakes, StopAborts, StopLeaves, TasksStay, TableStays,
     Elsewhere, storeVars
<1>2. \/ UNCHANGED <<task, updater>>
      \/ /\ task' = [task EXCEPT ![g] = At("over")] /\ Started(g)
         /\ \/ task[g].at = "ending" /\ UNCHANGED updater
            \/ updater' = [updater EXCEPT ![g] = IF @ = "waits" THEN "gone" ELSE @]
  BY DEF TaskLeaves, AbortTakesEffect, StopTakes, StopAborts, StopLeaves, TasksStay, GoesOn, Live, Started
<1>3. /\ \A h \in leaving' \cup aborted' : h \in leaving \cup aborted \/ (h = entry /\ entry # 0)
      /\ leaving' \subseteq leaving \/ entry' = 0
  BY DEF TaskLeaves, AbortTakesEffect, StopTakes, StopAborts, StopLeaves, TableStays
<1>4. \/ UNCHANGED rows
      \/ task[g].at = "insert" /\ Inserts(task[g].name) /\ task' = [task EXCEPT ![g] = At("over")]
  BY DEF TaskLeaves, AbortTakesEffect, StopTakes, StopAborts, StopLeaves, TasksStay, GoesOn, Elsewhere, storeVars
<1>5. task' \in [Captures -> Stages]
  BY <1>0, <1>2 DEF TableInv, Stages, TaskStages, At
<1>6. \A h \in Captures : Started(h)' <=> Started(h)
  BY <1>0, <1>2 DEF TableInv, Started, At
<1>7. rows' \in [Names -> Nat] /\ \A k \in Names : rows'[k] > 0 => rows[k] > 0 \/ Holds(g, k)
  <2>1. CASE UNCHANGED rows
    BY <1>0, <2>1 DEF TableInv, FramesTypeOK
  <2>2. CASE task[g].at = "insert" /\ Inserts(task[g].name)
    <3>1. task[g].name \in Names
      BY <1>0, <2>2 DEF TableInv, Stages, TaskStages
    <3> QED
      BY <1>0, <2>2, <3>1 DEF TableInv, FramesTypeOK, Inserts, Holds
  <2> QED
    BY <1>4, <2>1, <2>2
<1>8. FramesTypeOK'
  <2>1. entry # 0 => entry \in Captures
    BY <1>0 DEF TableInv, FramesTypeOK
  <2>2. leaving' \subseteq Captures /\ aborted' \subseteq Captures /\ entry' \notin leaving'
    <3>1. leaving \subseteq Captures /\ aborted \subseteq Captures
      BY <1>0 DEF TableInv, FramesTypeOK
    <3>2. leaving' \subseteq Captures /\ aborted' \subseteq Captures
      BY <1>3, <2>1, <3>1
    <3>3. 0 \notin Captures
      BY DEF Captures
    <3> QED
      BY <1>0, <1>1, <1>3, <3>1, <3>2, <3>3 DEF TableInv, FramesTypeOK
  <2>3. /\ \A h \in Captures : task'[h].at \in TaskStages
        /\ updater' \in [Captures -> {"none", "waits", "has", "gone"}]
        /\ \A h \in Captures : updater'[h] = "waits" <=> task'[h].at = "opening"
    BY <1>0, <1>2 DEF TableInv, FramesTypeOK, TaskStages, At
  <2> QED
    BY <1>0, <1>1, <1>6, <1>7, <2>2, <2>3 DEF TableInv, FramesTypeOK, Started
<1>9. TableInv'
  <2>1. \A h \in Captures : updater'[h] = "none" <=> updater[h] = "none"
    BY <1>0, <1>2 DEF TableInv, FramesTypeOK
  <2> QED
    BY <1>0, <1>1, <1>3, <1>5, <1>6, <1>8, <2>1, TableKept DEF TableInv
<1>10. ASSUME NEW h \in apart' PROVE Unmixed(h)'
  <2>1. h \in Captures /\ Unmixed(h) /\ \A k \in 1 .. h - 1 : k \in Captures
    BY <1>0, <1>1, <1>10 DEF TableInv, Captures
  <2>2. \A k \in 1 .. h - 1 : updater'[k] = "gone"
    BY <1>0, <1>2, <2>1 DEF Unmixed, TableInv, FramesTypeOK
  <2> QED
    BY <1>1, <2>1, <2>2 DEF Unmixed, Captures
<1>11. StoreInv'
  <2>1. \A h \in Captures, k \in Names : Holds(h, k)' => Holds(h, k) /\ (h = g => UNCHANGED task)
    BY <1>0, <1>2 DEF Holds, TableInv, At
  <2>2. \A a \in Askers, k \in Names : JobHolds(a, k)' <=> JobHolds(a, k)
    BY <1>1 DEF JobHolds
  <2>3. RowsHaveFiles'
    BY <1>0, <1>1, <1>7 DEF StoreInv, RowsHaveFiles
  <2>4. ASSUME NEW h \in Captures, NEW k \in Names, Holds(h, k)'
        PROVE  /\ k.dir = "manager" /\ k \in files' \cup twice'
               /\ rows'[k] > 0 => k \in twice'
               /\ \A i \in Captures \ {h} : Holds(i, k)' => k \in twice'
    <3>1. CASE UNCHANGED rows
      BY <1>0, <1>1, <2>1, <2>4, <3>1 DEF StoreInv
    <3>2. CASE h # g
      BY <1>0, <1>1, <1>7, <2>1, <2>4, <3>2 DEF StoreInv
    <3>3. CASE ~UNCHANGED rows /\ h = g
      BY <1>0, <1>4, <2>4, <3>3 DEF TableInv, Holds, At
    <3> QED
      BY <3>1, <3>2, <3>3
  <2> QED
    BY <1>0, <1>1, <2>2, <2>3, <2>4 DEF StoreInv
<1> QED
  BY <1>9, <1>10, <1>11 DEF FramesInv

LEMMA UpdaterKeeps == ASSUME FramesInv, NEW g \in Captures, UpdaterInstalls(g) PROVE FramesInv'
<1> USE FrameAssumption
<1>0. TableInv /\ (\A h \in apart : Unmixed(h)) /\ StoreInv
  BY DEF FramesInv
<1>1. /\ updater[g] = "has" /\ updater' = [updater EXCEPT ![g] = "gone"]
      /\ installed' = IF entry # 0 THEN g ELSE 0
      /\ UNCHANGED <<entry, task, leaving, aborted, apart, latest, asker, config, watch, second, files, rows, twice>>
  BY DEF UpdaterInstalls, Elsewhere, storeVars
<1>2. FramesTypeOK'
  BY <1>0, <1>1 DEF TableInv, FramesTypeOK
<1>3. \A h \in Captures : Started(h)' <=> Started(h)
  BY <1>1 DEF Started
<1>4. TableInv'
  <2>1. \A h \in Captures : updater'[h] = "none" <=> updater[h] = "none"
    BY <1>0, <1>1 DEF TableInv, FramesTypeOK
  <2> QED
    BY <1>0, <1>1, <1>2, <1>3, <2>1, TableKept DEF TableInv
<1>5. ASSUME NEW h \in apart' PROVE Unmixed(h)'
  <2>1. h \in Captures /\ Unmixed(h) /\ \A k \in 1 .. h - 1 : k \in Captures
    BY <1>0, <1>1, <1>5 DEF TableInv, Captures
  <2>2. \A k \in 1 .. h - 1 : updater'[k] = "gone"
    BY <1>0, <1>1, <2>1 DEF Unmixed, TableInv, FramesTypeOK
  <2>3. ASSUME entry = h PROVE g = h
    <3>1. Started(g)
      BY <1>0, <1>1 DEF TableInv, FramesTypeOK
    <3>2. g <= h /\ ~(g < h)
      BY <1>0, <1>1, <2>1, <2>3, <3>1 DEF TableInv, Unmixed, Captures
    <3> QED
      BY <3>2, <2>1 DEF Captures
  <2> QED
    BY <1>1, <2>1, <2>2, <2>3 DEF Unmixed
<1>6. StoreInv'
  BY <1>0, <1>1, StoreKept DEF Holds, JobHolds, storeVars
<1> QED
  BY <1>4, <1>5, <1>6 DEF FramesInv

(* The viewers and the clock. *)
LEMMA OthersKeep ==
    ASSUME FramesInv, SecondPasses \/ (\E v \in Viewers : Watch(v) \/ ViewerEnds(v) \/ ViewerLeaves(v))
    PROVE  FramesInv'
<1> USE FrameAssumption
<1>0. TableInv /\ (\A h \in apart : Unmixed(h)) /\ StoreInv
  BY DEF FramesInv
<1>1. /\ UNCHANGED <<captureVars, latest, asker, storeVars>>
      /\ second' \in 0 .. MaxSecond /\ watch' \in [Viewers -> 0 .. MaxCaptures]
  BY <1>0 DEF SecondPasses, Watch, ViewerEnds, ViewerLeaves, OnlyViewers, TableInv, FramesTypeOK, Captures
<1>2. FramesTypeOK'
  BY <1>0, <1>1 DEF TableInv, FramesTypeOK, captureVars, storeVars
<1>3. TableInv'
  BY <1>0, <1>1, <1>2, TableKept DEF TableInv, captureVars, Started
<1>4. \A h \in apart' : Unmixed(h)'
  BY <1>0, <1>1, UnmixedKept DEF captureVars
<1>5. StoreInv'
  BY <1>0, <1>1, StoreKept DEF Holds, JobHolds, captureVars
<1> QED
  BY <1>3, <1>4, <1>5 DEF FramesInv

LEMMA ShutdownKeeps == FramesInv /\ Shutdown => FramesInv'
<1> SUFFICES ASSUME FramesInv, Shutdown PROVE FramesInv'
  OBVIOUS
<1> USE FrameAssumption
<1>0. TableInv /\ (\A h \in apart : Unmixed(h)) /\ StoreInv
  BY DEF FramesInv
<1>1. /\ entry' = 0 /\ installed' = 0 /\ leaving' = {} /\ aborted' = {}
      /\ task' = [g \in Captures |-> IF Live(g) THEN At("over") ELSE task[g]]
      /\ updater' = [g \in Captures |-> IF updater[g] = "none" THEN "none" ELSE "gone"]
      /\ watch' = [v \in Viewers |-> 0] /\ asker' = [a \in Askers |-> Idle]
      /\ UNCHANGED <<config, apart, latest, second, files, rows, twice>>
  BY DEF Shutdown, storeVars
<1>2. \A g \in Captures :
        /\ task'[g].at \in {"none", "over", "died"} /\ (Started(g)' <=> Started(g))
        /\ task'[g] \in Stages
  BY <1>0, <1>1 DEF TableInv, Live, Started, At, Stages, TaskStages
<1>3. task' \in [Captures -> Stages] /\ asker' \in [Askers -> AskerStages]
  BY <1>1, <1>2 DEF AskerStages
<1>4. FramesTypeOK'
  BY <1>0, <1>1, <1>2 DEF TableInv, FramesTypeOK, TaskStages
<1>5. TableInv'
  BY <1>0, <1>1, <1>2, <1>3, <1>4, TableKept DEF TableInv
<1>6. ASSUME NEW h \in apart' PROVE Unmixed(h)'
  <2>1. h \in Captures /\ Unmixed(h) /\ \A k \in 1 .. h - 1 : k \in Captures
    BY <1>0, <1>1, <1>6 DEF TableInv, Captures
  <2> QED
    BY <1>1, <2>1 DEF Unmixed, Captures
<1>7. StoreInv'
  <2>1. \A g \in Captures, n \in Names : ~Holds(g, n)'
    BY <1>2 DEF Holds
  <2>2. \A a \in Askers, n \in Names : ~JobHolds(a, n)'
    BY <1>1 DEF JobHolds, Idle, At
  <2> QED
    BY <1>0, <1>1, <2>1, <2>2, StoreKept DEF storeVars
<1> QED
  BY <1>5, <1>6, <1>7 DEF FramesInv

(* A request or a job that goes on, or ends. *)
LEMMA AskerKeeps ==
    ASSUME FramesInv, NEW a \in Askers, AskSnapshot(a) \/ AskerStep(a)
    PROVE  FramesInv'
<1> USE FrameAssumption
<1>0. TableInv /\ (\A h \in apart : Unmixed(h)) /\ StoreInv
  BY DEF FramesInv
<1> DEFINE n == [dir |-> "job", second |-> second]
           Goes(s) == asker' = [asker EXCEPT ![a] = s]
           j == asker[a].job
           Calm == {"memory", "handle", "row", "fallback", "compare"}
<1>1. UNCHANGED <<captureVars, watch, second>>
  BY DEF AskSnapshot, AskerStep, FromMemory, ClonesHandle, FromHandle, CachesFrame, FromRow, OnDemand,
     DirectlyByPage, DirectlyByRoute, JobStores, JobInserts, AskerEnds, OnlyAskers, AskerGoes
<1>2. /\ asker[a] # Idle => j \in BOOLEAN
      /\ asker[a].at \in {"snap", "cache"} =>
            /\ asker[a].of \in Captures
            /\ asker[a] = [at |-> asker[a].at, job |-> j, of |-> asker[a].of]
      /\ asker[a].at = "insert" => asker[a].name \in Names /\ JobHolds(a, asker[a].name)
  <2>1. asker[a] \in AskerStages
    BY <1>0 DEF TableInv
  <2>2. CASE asker[a] = Idle
    BY <2>2 DEF Idle, At
  <2>3. CASE asker[a] \in [at : Calm, job : BOOLEAN]
    BY <2>3 DEF Idle, At
  <2>4. CASE asker[a] \in [at : {"snap", "cache"}, job : BOOLEAN, of : Captures]
    BY <2>4
  <2>5. CASE asker[a] \in [at : {"insert"}, job : {TRUE}, name : Names]
    BY <2>5 DEF JobHolds
  <2> QED
    BY <2>1, <2>2, <2>3, <2>4, <2>5 DEF AskerStages
<1>3. installed # 0 => installed \in Captures /\ entry # 0
  BY <1>0 DEF TableInv, FramesTypeOK
<1>4. n \in Names /\ n.dir = "job"
  BY <1>0 DEF TableInv, FramesTypeOK, Names
<1> HIDE DEF n
<1>5. \/ Goes(Idle)
      \/ \E w \in Calm, i \in BOOLEAN : Goes([at |-> w, job |-> i])
      \/ asker[a].at = "handle" /\ installed # 0 /\ Goes([at |-> "snap", job |-> j, of |-> installed])
      \/ asker[a].at = "snap" /\ Goes([at |-> "cache", job |-> j, of |-> asker[a].of])
      \/ asker[a].at = "compare" /\ Goes([at |-> "insert", job |-> TRUE, name |-> n]) /\ Puts(n) /\ UNCHANGED rows
  <2>1. CASE AskSnapshot(a)
    BY <2>1 DEF AskSnapshot, AskerGoes
  <2>2. CASE FromMemory(a) \/ CachesFrame(a) \/ FromRow(a) \/ OnDemand(a)
    <3>1. asker[a] # Idle
      BY <2>2 DEF FromMemory, CachesFrame, FromRow, OnDemand, Idle, At
    <3>2. Answered(a) \/ AskerMoves(a, "handle") \/ AskerMoves(a, "fallback")
      BY <2>2 DEF FromMemory, CachesFrame, FromRow, OnDemand
    <3> QED
      BY <1>2, <3>1, <3>2 DEF Answered, AskerMoves, AskerGoes
  <2>3. CASE ClonesHandle(a)
    BY <1>2, <2>3 DEF ClonesHandle, AskerGoes, AskerMoves, Idle, At
  <2>4. CASE FromHandle(a)
    <3>1. asker[a] # Idle
      BY <2>4 DEF FromHandle, Idle, At
    <3>2. [asker[a] EXCEPT !.at = "cache"] = [at |-> "cache", job |-> j, of |-> asker[a].of]
      BY <1>2, <2>4 DEF FromHandle
    <3> QED
      BY <1>2, <2>4, <3>1, <3>2 DEF FromHandle, AskerGoes, AskerMoves
  <2>5. CASE DirectlyByPage(a) \/ DirectlyByRoute(a) \/ JobInserts(a) \/ AskerEnds(a)
    BY <2>5 DEF DirectlyByPage, DirectlyByRoute, JobInserts, AskerEnds, AskerGoes
  <2>6. CASE JobStores(a)
    BY <2>6 DEF JobStores, AskerGoes, n
  <2> QED
    BY <2>1, <2>2, <2>3, <2>4, <2>5, <2>6 DEF AskerStep
<1>6. /\ asker' \in [Askers -> AskerStages]
      /\ \A b \in Askers \ {a} : asker'[b] = asker[b]
  <2>1. asker \in [Askers -> AskerStages]
    BY <1>0 DEF TableInv
  <2>2. asker[a].at \in {"snap", "handle"} => j \in BOOLEAN
    BY <1>2 DEF Idle, At
  <2>3. /\ Idle \in AskerStages
        /\ \A w \in Calm, i \in BOOLEAN : [at |-> w, job |-> i] \in AskerStages
        /\ \A w \in {"snap", "cache"}, i \in BOOLEAN, g \in Captures :
              [at |-> w, job |-> i, of |-> g] \in AskerStages
        /\ \A k \in Names : [at |-> "insert", job |-> TRUE, name |-> k] \in AskerStages
    BY DEF AskerStages
  <2>4. PICK s \in AskerStages : Goes(s)
    BY <1>2, <1>3, <1>4, <1>5, <2>2, <2>3
  <2> QED
    BY <2>1, <2>4
<1>7. /\ asker'[a].at \in {"snap", "cache"} =>
            \/ asker[a].at \in {"snap", "cache"} /\ asker'[a].of = asker[a].of
            \/ asker'[a].of = installed /\ installed # 0
      /\ \A k \in Names : JobHolds(a, k)' => k = n /\ Puts(n) /\ UNCHANGED rows
  BY <1>0, <1>5 DEF TableInv, Idle, At, JobHolds
<1>8. \/ UNCHANGED latest
      \/ /\ entry # 0 /\ asker[a].at = "cache"
         /\ latest' = [latest EXCEPT ![entry] = asker[a].of]
  BY DEF AskSnapshot, AskerStep, FromMemory, ClonesHandle, FromHandle, CachesFrame, FromRow, OnDemand,
     DirectlyByPage, DirectlyByRoute, JobStores, JobInserts, AskerEnds, OnlyAskers
<1>9. \/ UNCHANGED storeVars
      \/ Puts(n) /\ UNCHANGED rows
      \/ /\ asker[a].at = "insert" /\ Inserts(asker[a].name) /\ UNCHANGED <<files, twice>>
         /\ asker' = [asker EXCEPT ![a] = Idle]
  BY DEF AskSnapshot, AskerStep, FromMemory, ClonesHandle, FromHandle, CachesFrame, FromRow, OnDemand,
     DirectlyByPage, DirectlyByRoute, JobStores, JobInserts, AskerEnds, OnlyAskers, storeVars, AskerGoes, n
<1>10. FramesTypeOK'
  <2>1. latest' \in [Captures -> 0 .. MaxCaptures]
    BY <1>0, <1>2, <1>8 DEF TableInv, FramesTypeOK, Captures
  <2>2. files' \subseteq Names /\ twice' \subseteq Names /\ rows' \in [Names -> Nat]
    BY <1>0, <1>2, <1>4, <1>9 DEF TableInv, FramesTypeOK, storeVars, Puts, Inserts
  <2> QED
    BY <1>0, <1>1, <2>1, <2>2 DEF TableInv, FramesTypeOK, captureVars
<1>11. TableInv'
  <2>1. \A h \in Captures : latest'[h] = latest[h] \/ Started(h)
    BY <1>0, <1>8 DEF TableInv, FramesTypeOK, Started
  <2> QED
    BY <1>0, <1>1, <1>6, <1>10, <2>1, TableKept DEF TableInv, captureVars, Started
<1>12. ASSUME NEW h \in apart' PROVE Unmixed(h)'
  <2>1. h \in Captures /\ Unmixed(h)
    BY <1>0, <1>1, <1>12 DEF TableInv, captureVars
  <2>2. latest'[h] \in {0, h}
    BY <1>0, <1>8, <2>1 DEF Unmixed, TableInv, FramesTypeOK
  <2>3. \A b \in Askers : entry = h /\ asker'[b].at \in {"snap", "cache"} => asker'[b].of = h
    BY <1>6, <1>7, <2>1 DEF Unmixed
  <2> QED
    BY <1>1, <2>1, <2>2, <2>3 DEF Unmixed, captureVars
<1>13. StoreInv'
  <2>1. \A h \in Captures, k \in Names : Holds(h, k)' <=> Holds(h, k)
    BY <1>1 DEF Holds, captureVars
  <2>2. \A b \in Askers \ {a}, k \in Names : JobHolds(b, k)' <=> JobHolds(b, k)
    BY <1>6 DEF JobHolds
  <2>3. CASE Puts(n) /\ UNCHANGED rows
    <3>1. /\ files' = files \cup {n} /\ twice \subseteq twice'
          /\ n \in files' /\ \A k \in twice' : k \in twice \/ k = n
      BY <2>3 DEF Puts
    <3>2. RowsHaveFiles'
      BY <1>0, <2>3, <3>1 DEF StoreInv, RowsHaveFiles
    <3>3. ASSUME NEW h \in Captures, NEW k \in Names, Holds(h, k)'
          PROVE  /\ k.dir = "manager" /\ k \in files' \cup twice'
                 /\ rows'[k] > 0 => k \in twice'
                 /\ \A i \in Captures \ {h} : Holds(i, k)' => k \in twice'
      BY <1>0, <2>1, <2>3, <3>1, <3>3 DEF StoreInv
    <3>4. ASSUME NEW b \in Askers, NEW k \in Names, JobHolds(b, k)'
          PROVE  k.dir = "job" /\ k \in files' \cup twice'
      BY <1>0, <1>4, <1>7, <2>2, <3>1, <3>4 DEF StoreInv
    <3> QED
      BY <3>2, <3>3, <3>4 DEF StoreInv
  <2>4. CASE asker[a].at = "insert" /\ Inserts(asker[a].name) /\ UNCHANGED <<files, twice>>
             /\ asker' = [asker EXCEPT ![a] = Idle]
    <3> DEFINE m == asker[a].name
    <3>1. m \in Names /\ m.dir = "job" /\ m \in files \cup twice
      BY <1>0, <1>2, <2>4 DEF StoreInv
    <3>2. \A k \in Names : rows'[k] > 0 => rows[k] > 0 \/ k = m
      BY <1>0, <2>4, <3>1 DEF Inserts, TableInv, FramesTypeOK
    <3> HIDE DEF m
    <3>3. RowsHaveFiles'
      BY <1>0, <2>4, <3>1, <3>2 DEF StoreInv, RowsHaveFiles
    <3>4. ASSUME NEW h \in Captures, NEW k \in Names, Holds(h, k)'
          PROVE  /\ k.dir = "manager" /\ k \in files' \cup twice'
                 /\ rows'[k] > 0 => k \in twice'
                 /\ \A i \in Captures \ {h} : Holds(i, k)' => k \in twice'
      BY <1>0, <2>1, <2>4, <3>1, <3>2, <3>4 DEF StoreInv
    <3>5. ASSUME NEW b \in Askers, NEW k \in Names, JobHolds(b, k)'
          PROVE  k.dir = "job" /\ k \in files' \cup twice'
      <4>1. b # a
        BY <1>0, <2>4, <3>5 DEF TableInv, JobHolds, Idle, At
      <4> QED
        BY <1>0, <2>2, <2>4, <3>5, <4>1 DEF StoreInv
    <3> QED
      BY <3>3, <3>4, <3>5 DEF StoreInv
  <2>5. CASE UNCHANGED storeVars /\ ~(Puts(n) /\ UNCHANGED rows)
    <3>1. ASSUME NEW b \in Askers, NEW k \in Names, JobHolds(b, k)', ~JobHolds(b, k) PROVE FALSE
      BY <1>7, <2>2, <2>5, <3>1
    <3> QED
      BY <1>0, <2>1, <2>5, <3>1, StoreKept
  <2> QED
    BY <1>9, <2>3, <2>4, <2>5
<1> QED
  BY <1>11, <1>12, <1>13 DEF FramesInv

LEMMA FramesInvNext == FramesInv /\ [FramesNext]_frameVars => FramesInv'
<1> SUFFICES ASSUME FramesInv, [FramesNext]_frameVars PROVE FramesInv'
  OBVIOUS
<1>1. CASE UNCHANGED frameVars
  <2>1. UNCHANGED <<captureVars, latest, watch, asker, second, storeVars>>
    BY <1>1 DEF frameVars
  <2>2. TableInv' /\ StoreInv'
    BY <2>1 DEF FramesInv, TableInv, FramesTypeOK, captureVars, storeVars, Started,
       StoreInv, RowsHaveFiles, Holds, JobHolds
  <2>3. \A g \in apart' : Unmixed(g)'
    BY <2>1 DEF FramesInv, Unmixed, captureVars
  <2> QED
    BY <2>2, <2>3 DEF FramesInv
<1>2. ASSUME NEW g \in Captures,
             CaptureStep(g) \/ UpdaterInstalls(g) \/ AbortTakesEffect(g) \/ StopAborts(g) \/ StopLeaves(g)
      PROVE  FramesInv'
  BY <1>2, TaskKeeps, StorageKeeps, EndKeeps, UpdaterKeeps DEF CaptureStep
<1>3. ASSUME StopTakes PROVE FramesInv'
  <2>1. \E g \in Captures : TRUE
    BY <1>3 DEF StopTakes, FramesInv, TableInv, FramesTypeOK
  <2> QED
    BY <1>3, <2>1, EndKeeps
<1> QED
  BY <1>1, <1>2, <1>3, StartKeeps, OthersKeep, AskerKeeps, ShutdownKeeps DEF FramesNext

LEMMA FramesInvariant == FramesSpec => []FramesInv
  BY FramesInvInit, FramesInvNext, PTL DEF FramesSpec

(* What a task, an updater, a request and the table hold always has its     *)
(* type, the entry is a capture that has started, and no handle is in the   *)
(* table without an entry.                                                  *)
THEOREM FramesTyped == FramesSpec => []FramesTypeOK
<1>1. FramesInv => FramesTypeOK
  BY DEF FramesInv, TableInv
<1> QED
  BY <1>1, FramesInvariant, PTL

(* A capture that began when nobody was at work for an earlier one shows    *)
(* its own frames only, and nobody deletes the file of a row.               *)
THEOREM FramesAreOwn == FramesSpec => []FramesSound
<1>1. FramesInv => FramesSound
  BY DEF FramesInv, StoreInv, Unmixed, FramesSound, ShowsOwnFrames
<1> QED
  BY <1>1, FramesInvariant, PTL

-----------------------------------------------------------------------------
(* Starting and stopping: StreamSessions.                                   *)

(* A request that is alone has not been disturbed: what it has read or done *)
(* still holds when it goes on.                                             *)
SessionsInv ==
    /\ SessionsTypeOK
    /\ \A r \in alone, q \in LifecycleRequests : q # r => at[q] = "idle"
    /\ settled # "nothing" => \A q \in LifecycleRequests : at[q] = "idle"
    /\ \A r \in alone :
        /\ at[r] \in {"checks", "starts"} => session # 0
        /\ at[r] = "removes" => ~capturing
    /\ SessionsFollow

LEMMA SessionsInvInit == SessionsInit => SessionsInv
  BY DEF SessionsInit, SessionsInv, SessionsTypeOK, SessionsFollow, LifecyclePoints

LEMMA SessionsInvNext == SessionsInv /\ [SessionsNext]_sessionVars => SessionsInv'
<1> SUFFICES ASSUME SessionsInv, [SessionsNext]_sessionVars PROVE SessionsInv'
  OBVIOUS
<1> USE SessionAssumption DEF SessionsInv, SessionsTypeOK, SessionsFollow, LifecyclePoints
<1>1. ASSUME NEW r \in LifecycleRequests, StartArrives(r) \/ StopArrives(r) PROVE SessionsInv'
  <2>1. /\ at[r] = "idle" /\ settled' = "nothing"
        /\ UNCHANGED <<kind, capturing, session, loops>>
    BY <1>1 DEF StartArrives, StopArrives, Arrives
  <2>2. PICK point \in {"reads", "stops"} : at' = [at EXCEPT ![r] = point]
    BY <1>1 DEF StartArrives, StopArrives, Arrives, StepTo
  <2>3. alone' = {} \/ (alone' = {r} /\ \A q \in LifecycleRequests : at[q] = "idle")
    BY <1>1 DEF StartArrives, StopArrives, Arrives
  <2>4. SessionsTypeOK'
    BY <2>1, <2>2, <2>3
  <2> QED
    BY <2>1, <2>2, <2>3, <2>4
<1>2. ASSUME NEW r \in LifecycleRequests, StartReads(r) \/ StartLooks(r) \/ RequestIsDropped(r)
      PROVE  SessionsInv'
  <2>1. CASE Reply(r, "nothing") /\ UNCHANGED <<kind, capturing, session, loops>>
    BY <2>1 DEF Reply, StepTo
  <2>2. CASE StartReads(r) /\ Continues(r, "looks")
    BY <2>2 DEF StartReads, Continues, StepTo
  <2>3. CASE StartLooks(r)
    BY <2>3 DEF StartLooks, Continues, StepTo
  <2> QED
    BY <1>2, <2>1, <2>2, <2>3 DEF StartReads, RequestIsDropped
<1>3. ASSUME NEW r \in LifecycleRequests, StartOpens(r) PROVE SessionsInv'
  <2>1. CASE Reply(r, "nothing") /\ UNCHANGED <<session, loops, kind, capturing>>
    BY <2>1 DEF Reply, StepTo
  <2>2. ASSUME NEW n \in 1 .. MaxSessions, loops' = loops \cup {n}, session' = n,
               Continues(r, "checks"), UNCHANGED <<kind, capturing>>, at[r] = "opens"
        PROVE  SessionsInv'
    <3>1. n # 0 /\ n \in loops' /\ loops' \subseteq 1 .. MaxSessions
      BY <2>2
    <3>2. settled' = "nothing" /\ alone' = alone /\ at' = [at EXCEPT ![r] = "checks"]
      BY <2>2 DEF Continues, StepTo
    <3>3. SessionsTypeOK'
      BY <2>2, <3>1, <3>2
    <3> QED
      BY <2>2, <3>1, <3>2, <3>3
  <2> QED
    BY <1>3, <2>1, <2>2 DEF StartOpens
<1>4. ASSUME NEW r \in LifecycleRequests, StartChecks(r) PROVE SessionsInv'
  BY <1>4 DEF StartChecks, Reply, Continues, StepTo
<1>5. ASSUME NEW r \in LifecycleRequests, StartsCapture(r) PROVE SessionsInv'
  <2>1. CASE ~capturing /\ capturing' = TRUE /\ Reply(r, "both")
    BY <1>5, <2>1 DEF StartsCapture, Reply, StepTo
  <2>2. CASE session' = 0 /\ Reply(r, IF capturing THEN "nothing" ELSE "neither")
             /\ UNCHANGED capturing
    BY <1>5, <2>2 DEF StartsCapture, Reply, StepTo
  <2> QED
    BY <1>5, <2>1, <2>2 DEF StartsCapture
<1>6. ASSUME NEW r \in LifecycleRequests, StopStops(r) PROVE SessionsInv'
  <2>1. CASE Reply(r, "nothing")
    BY <1>6, <2>1 DEF StopStops, Reply, StepTo
  <2>2. CASE capturing' = FALSE /\ Continues(r, "removes")
    <3>1. UNCHANGED <<kind, session, loops>> /\ at' = [at EXCEPT ![r] = "removes"]
          /\ UNCHANGED <<alone, settled>> /\ at[r] = "stops"
      BY <1>6, <2>2 DEF StopStops, Continues, StepTo
    <3> QED
      BY <2>2, <3>1
  <2> QED
    BY <1>6, <2>1, <2>2 DEF StopStops
<1>7. ASSUME NEW r \in LifecycleRequests, StopRemoves(r) PROVE SessionsInv'
  <2>1. /\ session' = 0 /\ UNCHANGED <<kind, capturing, loops>> /\ at[r] = "removes"
        /\ at' = [at EXCEPT ![r] = "idle"] /\ alone' = alone \ {r}
    BY <1>7 DEF StopRemoves, Reply, StepTo
  <2>2. settled' = IF r \in alone THEN "neither" ELSE "nothing"
    BY <1>7 DEF StopRemoves, Reply
  <2>3. SessionsTypeOK'
    BY <2>1, <2>2
  <2> QED
    BY <2>1, <2>2, <2>3
<1>8. CASE CaptureEnds
  BY <1>8 DEF CaptureEnds
<1>9. CASE UNCHANGED sessionVars
  BY <1>9 DEF sessionVars
<1> QED
  BY <1>1, <1>2, <1>3, <1>4, <1>5, <1>6, <1>7, <1>8, <1>9 DEF SessionsNext

LEMMA SessionsInvariant == SessionsSpec => []SessionsInv
  BY SessionsInvInit, SessionsInvNext, PTL DEF SessionsSpec

(* What a start or a stop that was alone has answered still holds: both a   *)
(* capture and a session, or neither.                                       *)
THEOREM SessionsKept == SessionsSpec => []SessionsFollow
<1>1. SessionsInv => SessionsFollow
  BY DEF SessionsInv
<1> QED
  BY <1>1, SessionsInvariant, PTL

-----------------------------------------------------------------------------
(* The three parts together: a step of one leaves the others alone.         *)

LEMMA StreamingInvariant == MCSpec => [](MjpegInv /\ FramesInv /\ SessionsInv)
<1> DEFINE I == MjpegInv /\ FramesInv /\ SessionsInv
<1>1. MCInit => I
  BY MjpegInvInit, FramesInvInit, SessionsInvInit DEF MCInit
<1>2. I /\ [MCNext]_<<vars, frameVars, sessionVars, jobVars, explored>> => I'
  <2>1. [MCNext]_<<vars, frameVars, sessionVars, jobVars, explored>>
          => [Next]_vars /\ [FramesNext]_frameVars /\ [SessionsNext]_sessionVars
    BY DEF MCNext, ForRequests, ForStorage
  <2> QED
    BY <2>1, MjpegInvNext, FramesInvNext, SessionsInvNext
<1> QED
  BY <1>1, <1>2, PTL DEF MCSpec

(* Sessions, their clients, frames and files are always what they should    *)
(* be.                                                                      *)
THEOREM StreamingTyped == MCSpec => []StreamingTypeOK
<1>1. MjpegInv /\ FramesInv /\ SessionsInv => StreamingTypeOK
  BY DEF MjpegInv, FramesInv, TableInv, SessionsInv, StreamingTypeOK
<1> QED
  BY <1>1, StreamingInvariant, PTL
=============================================================================
