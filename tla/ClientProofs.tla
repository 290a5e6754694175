---------------------------- MODULE ClientProofs ----------------------------
(***************************************************************************)
(* Theorems about Client for every metric space, every list of probes,     *)
(* every number of pings, every delay and every cost of a connect: the     *)
(* report is complete, a challenge that covers the timeouts lasts, and an  *)
(* honest client is believed, but for connects cheaper than the overhead   *)
(* taken off them, its jitter, and what the engine's grid misses.          *)
(***************************************************************************)
EXTENDS Client, FiniteSetTheorems, TLAPS

Time == (1..DialTimeout) \union {Marker}

\* Which message is under way says where the client stands.
WireOf == [fetch |-> "fetch", challenge |-> "fetch",
           submit |-> "submit", verdict |-> "submit", expired |-> "submit"]

\* The shape of the variables, functions and messages included.
Shape ==
  /\ home \in Homes /\ pingCount \in PingCounts /\ ttl \in TTLs
  /\ now \in Nat /\ expiresAt \in Nat
  /\ pc \in {"fetch", "ping", "submit"} \union Ended
  /\ rtts \in [Target -> Seq(Time)]
  /\ \A t \in Target : Len(rtts[t]) <= pingCount
  /\ start \in [Target -> Nat]
  /\ \A t \in Target : start[t] <= now
  /\ wire # NoMessage =>
       /\ wire.kind \in DOMAIN WireOf /\ pc = WireOf[wire.kind]
       /\ wire.sent \in Nat /\ now - wire.sent \in 0..MaxDelay

\* From the submission on, all pings are done and the report says what they were.
Complete == \A t \in Target : Len(rtts[t]) = pingCount

Reported ==
  /\ Arrives("submit") => wire.report = Report /\ Complete
  /\ measurements # <<>> =>
       measurements = Report /\ Complete /\ pc \in {"submit"} \union Ended

\* A recorded time is the marker or long enough.
Honest(t, rtt) == rtt = Marker \/ rtt >= Dist(home, t) + HandshakeCost

AllHonest == \A t \in Target : \A i \in DOMAIN rtts[t] : Honest(t, rtts[t][i])

\* The pings of every target are on schedule: those done took DialTimeout each
\* at most, and so has the one under way.
Issued == expiresAt - ttl

Elapsing == \A t \in Target : Pinging(t) => Elapsed(t) <= DialTimeout

OnSchedule ==
  /\ Arrives("challenge") => wire.sent = Issued
  /\ pc = "ping" =>
       /\ now <= Issued + MaxDelay + pingCount * DialTimeout
       /\ \A t \in Target : Pinging(t) =>
            start[t] <= Issued + MaxDelay + Len(rtts[t]) * DialTimeout
  /\ Arrives("submit") => wire.sent <= Issued + MaxDelay + pingCount * DialTimeout

IInv == Shape /\ Elapsing /\ Reported /\ AllHonest /\ OnSchedule /\ InTime

-----------------------------------------------------------------------------

\* What the constants are.
LEMMA Constants ==
  /\ TcpOverhead \in Nat /\ HandshakeCost \in Nat \ {0} /\ DialTimeout \in Nat
  /\ MaxDelay \in Nat /\ Marker \in Nat /\ PingCounts \subseteq Nat /\ TTLs \subseteq Nat
  /\ Target \subseteq Place /\ Homes \subseteq Place
  /\ \A p, q \in Place : Dist(p, q) <= Marker - TcpOverhead
<1>1. Target \subseteq Place
  BY ClientAssumption DEF Target, ToSet
<1>2. QED
  BY <1>1, ClientAssumption

\* At the call of FetchChallenge nothing is measured.
LEMMA InitIInv == Init => IInv
<1> SUFFICES ASSUME Init PROVE IInv
  OBVIOUS
<1> USE DEF Init
<1>1. Shape
  <2>1. rtts \in [Target -> Seq(Time)] /\ start \in [Target -> Nat]
    OBVIOUS
  <2>2. wire.kind \in DOMAIN WireOf /\ pc = WireOf[wire.kind]
    BY DEF WireOf
  <2>3. wire.sent \in Nat /\ now - wire.sent \in 0..MaxDelay
    BY Constants
  <2>4. \A t \in Target : Len(rtts[t]) <= pingCount /\ start[t] <= now
    BY Constants
  <2>5. QED
    BY <2>1, <2>2, <2>3, <2>4 DEF Shape
<1>2. Elapsing /\ Reported /\ OnSchedule
  BY DEF Elapsing, Pinging, Reported, Arrives, OnSchedule
<1>3. AllHonest
  BY DEF AllHonest
<1>4. InTime
  BY DEF InTime
<1>5. QED
  BY <1>1, <1>2, <1>3, <1>4 DEF IInv

-----------------------------------------------------------------------------
(* The shape of the variables. *)

\* What one connect adds to the results.
LEMMA RecordStep ==
  ASSUME Shape, NEW t \in Target, Pinging(t), NEW rtt \in Time, Record(t, rtt)
  PROVE  /\ rtts' \in [Target -> Seq(Time)] /\ start' \in [Target -> Nat]
         /\ rtts'[t] = Append(rtts[t], rtt) /\ Len(rtts'[t]) = Len(rtts[t]) + 1
         /\ start'[t] = now
         /\ \A u \in Target \ {t} : rtts'[u] = rtts[u] /\ start'[u] = start[u]
         /\ pc = "ping" /\ Len(rtts[t]) < pingCount
<1>1. rtts \in [Target -> Seq(Time)] /\ start \in [Target -> Nat] /\ now \in Nat
  BY DEF Shape
<1>2. rtts[t] \in Seq(Time)
  BY <1>1
<1>3. Append(rtts[t], rtt) \in Seq(Time) /\ Len(Append(rtts[t], rtt)) = Len(rtts[t]) + 1
  BY <1>2
<1>4. rtts' = [rtts EXCEPT ![t] = Append(@, rtt)] /\ start' = [start EXCEPT ![t] = now]
  BY DEF Record
<1>5. rtts'[t] = Append(rtts[t], rtt) /\ start'[t] = now
  BY <1>1, <1>4
<1>6. rtts' \in [Target -> Seq(Time)]
  BY <1>1, <1>3, <1>4
<1>7. start' \in [Target -> Nat]
  BY <1>1, <1>4
<1>8. \A u \in Target \ {t} : rtts'[u] = rtts[u] /\ start'[u] = start[u]
  BY <1>1, <1>4
<1>9. QED
  BY <1>3, <1>5, <1>6, <1>7, <1>8 DEF Pinging

\* A connect that is recorded took a time.
LEMMA RecordedTime ==
  ASSUME Shape, Elapsing, NEW t \in Target, Answer(t)
  PROVE  Elapsed(t) \in Time /\ Elapsed(t) >= Dist(home, t) + HandshakeCost
<1>1. Elapsed(t) \in Int
  BY DEF Shape, Elapsed
<1>2. Dist(home, t) \in Nat
  BY Constants, MetricAssumption DEF Shape
<1>3. Elapsed(t) <= DialTimeout /\ Elapsed(t) >= Dist(home, t) + HandshakeCost
  BY DEF Elapsing, Answer
<1>4. QED
  BY <1>1, <1>2, <1>3, Constants DEF Time

\* What a connect does, however it ends.
Connect(t) == \E rtt \in Time : Honest(t, rtt) /\ Pinging(t) /\ Record(t, rtt)

\* An answer takes its time, and a failure is the marker.
LEMMA ConnectStep ==
  ASSUME Shape, Elapsing, NEW t \in Target, Answer(t) \/ Unreachable(t)
  PROVE  Connect(t)
<1>1. CASE Answer(t)
  BY <1>1, RecordedTime DEF Answer, Connect, Honest
<1>2. CASE Unreachable(t)
  BY <1>2 DEF Unreachable, Failed, Connect, Honest, Time
<1>3. QED
  BY <1>1, <1>2

\* Messages arrive where they are waited for, and no connect outlasts its timeout.
LEMMA ShapeStep ==
  ASSUME Shape, Elapsing, [Next]_vars
  PROVE  Shape' /\ Elapsing'
<1> USE DEF Shape
<1>1. CASE Issue
  <2>1. wire'.kind = "challenge" /\ wire'.sent = now /\ pc' = "fetch"
    BY <1>1 DEF Issue, Send, Arrives, WireOf
  <2>2. wire'.kind \in DOMAIN WireOf /\ pc' = WireOf[wire'.kind]
    BY <2>1 DEF WireOf
  <2>3. expiresAt' \in Nat
    BY <1>1, Constants DEF Issue
  <2>4. Shape'
    BY <1>1, <2>1, <2>2, <2>3, Constants DEF Issue, given
  <2>5. QED
    BY <2>1, <2>4 DEF Elapsing, Pinging
<1>2. CASE StartPings
  <2>1. start' \in [Target -> Nat] /\ \A t \in Target : start'[t] = now
    BY <1>2 DEF StartPings
  <2>2. Shape'
    BY <1>2, <2>1 DEF StartPings, given
  <2>3. \A t \in Target : Elapsed(t)' = 0
    BY <1>2, <2>1 DEF StartPings, Elapsed
  <2>4. QED
    BY <2>2, <2>3, Constants DEF Elapsing
<1>3. CASE \E t \in Target : Answer(t) \/ Unreachable(t)
  <2>1. PICK t \in Target : Connect(t)
    BY <1>3, ConnectStep
  <2>2. PICK rtt \in Time : Pinging(t) /\ Record(t, rtt)
    BY <2>1 DEF Connect
  <2>3. /\ rtts' \in [Target -> Seq(Time)] /\ start' \in [Target -> Nat]
        /\ Len(rtts'[t]) = Len(rtts[t]) + 1 /\ start'[t] = now
        /\ \A u \in Target \ {t} : rtts'[u] = rtts[u] /\ start'[u] = start[u]
        /\ Len(rtts[t]) < pingCount
    BY <2>2, RecordStep
  <2>4. /\ UNCHANGED <<given, now, pc, wire, expiresAt, measurements>>
        /\ pingCount \in Nat
    BY <2>2, Constants DEF Record
  <2>5. ASSUME NEW u \in Target PROVE Len(rtts'[u]) <= pingCount' /\ start'[u] <= now'
    <3>1. Len(rtts[u]) \in Nat /\ Len(rtts[u]) <= pingCount /\ start[u] <= now /\ now \in Nat
      OBVIOUS
    <3>2. pingCount' = pingCount /\ now' = now
      BY <2>4 DEF given
    <3>3. CASE u = t
      BY <2>3, <2>4, <3>1, <3>2, <3>3
    <3>4. CASE u # t
      BY <2>3, <3>1, <3>2, <3>4
    <3>5. QED
      BY <3>3, <3>4
  <2>6. Shape'
    BY <2>3, <2>4, <2>5 DEF given
  <2>7. ASSUME NEW u \in Target, Pinging(u)' PROVE Elapsed(u)' <= DialTimeout
    <3>1. CASE u = t
      BY <2>3, <2>4, <3>1, Constants DEF Elapsed
    <3>2. CASE u # t
      BY <2>3, <2>4, <2>7, <3>2 DEF Elapsing, Pinging, Elapsed, given
    <3>3. QED
      BY <3>1, <3>2
  <2>8. QED
    BY <2>6, <2>7 DEF Elapsing
<1>4. CASE SubmitMeasurement
  <2>1. wire'.kind = "submit" /\ wire'.sent = now /\ pc' = "submit"
    BY <1>4 DEF SubmitMeasurement, Send
  <2>2. wire'.kind \in DOMAIN WireOf /\ pc' = WireOf[wire'.kind]
    BY <2>1 DEF WireOf
  <2>3. Shape'
    BY <1>4, <2>1, <2>2, Constants DEF SubmitMeasurement, given
  <2>4. QED
    BY <2>1, <2>3 DEF Elapsing, Pinging
<1>5. CASE Validate
  <2>1. wire'.kind \in {"verdict", "expired"} /\ wire'.sent = now /\ pc' = "submit"
    BY <1>5 DEF Validate, Send, Arrives, WireOf
  <2>2. wire'.kind \in DOMAIN WireOf /\ pc' = WireOf[wire'.kind]
    BY <2>1 DEF WireOf
  <2>3. Shape'
    BY <1>5, <2>1, <2>2, Constants DEF Validate, given
  <2>4. QED
    BY <2>1, <2>3 DEF Elapsing, Pinging
<1>6. CASE Finish \/ Disconnect
  <2>1. pc' \in Ended /\ pc' # "ping" /\ wire' = NoMessage
    BY <1>6 DEF Finish, Disconnect, Ended
  <2>2. Shape'
    BY <1>6, <2>1 DEF Finish, Disconnect, given
  <2>3. QED
    BY <2>1, <2>2 DEF Elapsing, Pinging
<1>7. CASE Tick
  <2>1. Shape'
    BY <1>7, Constants DEF Tick, given
  <2>2. ASSUME NEW t \in Target, Pinging(t)' PROVE Elapsed(t)' <= DialTimeout
    <3>1. Pinging(t) /\ Elapsed(t) < DialTimeout
      BY <1>7, <2>2 DEF Tick, Pinging, given
    <3>2. Elapsed(t)' = Elapsed(t) + 1 /\ Elapsed(t) \in Int
      BY <1>7 DEF Tick, Elapsed
    <3>3. QED
      BY <3>1, <3>2, Constants
  <2>3. QED
    BY <2>1, <2>2 DEF Elapsing
<1>8. CASE UNCHANGED vars
  BY <1>8 DEF vars, given, Elapsing, Pinging, Elapsed
<1>9. QED
  BY <1>1, <1>2, <1>3, <1>4, <1>5, <1>6, <1>7, <1>8 DEF Next, Program

-----------------------------------------------------------------------------
(* What is submitted. *)

\* The results are read when all pings are done, and they do not change after.
LEMMA ReportedStep ==
  ASSUME Shape, Elapsing, Reported, [Next]_vars
  PROVE  Reported'
<1> USE DEF Reported
<1>1. CASE Issue
  <2>1. pc = "fetch" /\ pc' = pc
    BY <1>1 DEF Issue, Arrives, Shape, WireOf
  <2>2. measurements = <<>> /\ measurements' = measurements
    BY <1>1, <2>1 DEF Issue, Ended
  <2>3. ~Arrives("submit")'
    BY <1>1 DEF Issue, Send, Arrives
  <2>4. QED
    BY <2>2, <2>3
<1>2. CASE StartPings
  <2>1. pc = "fetch"
    BY <1>2 DEF StartPings, Arrives, Shape, WireOf
  <2>2. measurements' = <<>>
    BY <1>2, <2>1 DEF StartPings, Ended
  <2>3. ~Arrives("submit")'
    BY <1>2 DEF StartPings, Arrives
  <2>4. QED
    BY <2>2, <2>3
<1>3. CASE \E t \in Target : Answer(t) \/ Unreachable(t)
  <2>1. PICK t \in Target, rtt \in Time : Pinging(t) /\ Record(t, rtt)
    BY <1>3, ConnectStep DEF Connect
  <2>2. pc = "ping" /\ UNCHANGED <<wire, measurements>>
    BY <2>1 DEF Pinging, Record
  <2>3. measurements' = <<>>
    BY <2>2 DEF Ended
  <2>4. ~Arrives("submit")'
    BY <2>2 DEF Arrives, Shape, WireOf
  <2>5. QED
    BY <2>3, <2>4
<1>4. CASE SubmitMeasurement
  <2>1. wire'.report = Report /\ UNCHANGED <<given, rtts, measurements>> /\ pc = "ping" /\ Waited
    BY <1>4 DEF SubmitMeasurement, Send, Waited
  <2>2. Report' = Report
    BY <2>1 DEF Report
  <2>3. Complete'
    <3>1. ASSUME NEW t \in Target PROVE Len(rtts[t]) = pingCount
      <4>1. Len(rtts[t]) \in Nat /\ pingCount \in Nat /\ Len(rtts[t]) <= pingCount
        BY Constants DEF Shape
      <4>2. ~(Len(rtts[t]) < pingCount)
        BY <2>1 DEF Waited, Pinging
      <4>3. QED
        BY <4>1, <4>2
    <3>2. QED
      BY <2>1, <3>1 DEF Complete, given
  <2>4. measurements' = <<>>
    BY <2>1 DEF Ended
  <2>5. QED
    BY <2>1, <2>2, <2>3, <2>4
<1>5. CASE Validate
  <2>1. wire.report = Report /\ Complete /\ pc = "submit" /\ UNCHANGED <<given, pc, rtts>>
    BY <1>5 DEF Validate, Arrives, Shape, WireOf
  <2>2. Report' = Report /\ Complete'
    BY <2>1 DEF Report, Complete, given
  <2>3. ~Arrives("submit")'
    BY <1>5 DEF Validate, Send, Arrives
  <2>4. measurements' = measurements \/ measurements' = wire.report
    BY <1>5 DEF Validate
  <2>5. QED
    BY <2>1, <2>2, <2>3, <2>4
<1>6. CASE Finish \/ Disconnect
  <2>1. ~Arrives("submit")' /\ pc' \in Ended /\ UNCHANGED <<given, rtts, measurements>>
    BY <1>6 DEF Finish, Disconnect, Arrives, Ended
  <2>2. Report' = Report /\ (Complete => Complete')
    BY <2>1 DEF Report, Complete, given
  <2>3. QED
    BY <2>1, <2>2
<1>7. CASE Tick \/ UNCHANGED vars
  <2>1. UNCHANGED <<given, pc, wire, rtts, measurements>>
    BY <1>7 DEF Tick, vars
  <2>2. Report' = Report /\ (Complete => Complete') /\ Arrives("submit")' = Arrives("submit")
    BY <2>1 DEF Report, Complete, Arrives, given
  <2>3. QED
    BY <2>1, <2>2
<1>8. QED
  BY <1>1, <1>2, <1>3, <1>4, <1>5, <1>6, <1>7 DEF Next, Program

\* pingProbe records nothing but markers and honest times.
LEMMA AllHonestStep ==
  ASSUME Shape, Elapsing, AllHonest, [Next]_vars
  PROVE  AllHonest'
<1>1. CASE \E t \in Target : Answer(t) \/ Unreachable(t)
  <2>1. PICK t \in Target, rtt \in Time : Honest(t, rtt) /\ Pinging(t) /\ Record(t, rtt)
    BY <1>1, ConnectStep DEF Connect
  <2>2. /\ rtts'[t] = Append(rtts[t], rtt)
        /\ \A u \in Target \ {t} : rtts'[u] = rtts[u]
        /\ rtts[t] \in Seq(Time)
    BY <2>1, RecordStep DEF Shape
  <2>3. home' = home
    BY <2>1 DEF Record, given
  <2>4. ASSUME NEW u \in Target, NEW i \in DOMAIN rtts'[u]
        PROVE  Honest(u, rtts'[u][i])
    <3>1. CASE u = t
      <4>1. rtts'[t][i] = rtt \/ (i \in DOMAIN rtts[t] /\ rtts'[t][i] = rtts[t][i])
        BY <2>2, <2>4, <3>1
      <4>2. QED
        BY <2>1, <3>1, <4>1 DEF AllHonest
    <3>2. CASE u # t
      BY <2>2, <2>4, <3>2 DEF AllHonest
    <3>3. QED
      BY <3>1, <3>2
  <2>5. QED
    BY <2>3, <2>4 DEF AllHonest, Honest
<1>2. CASE UNCHANGED <<home, rtts>>
  BY <1>2 DEF AllHonest, Honest
<1>3. Next => UNCHANGED <<home, rtts>> \/ \E t \in Target : Answer(t) \/ Unreachable(t)
  BY DEF Next, Program, Issue, StartPings, SubmitMeasurement, Validate, Finish, Disconnect,
         Tick, given
<1>4. QED
  BY <1>1, <1>2, <1>3 DEF vars, given

-----------------------------------------------------------------------------
(* The deadline. *)

\* One ping more takes one timeout more.
LEMMA OneMore ==
  ASSUME NEW m \in Nat, NEW n \in Nat, NEW d \in Nat, m < n
  PROVE  m * d + d <= n * d /\ (m + 1) * d = m * d + d
<1>1. m + 1 <= n
  OBVIOUS
<1>2. (m + 1) * d = m * d + d
  OBVIOUS
<1>3. (m + 1) * d <= n * d
  BY <1>1
<1>4. QED
  BY <1>2, <1>3

\* n is at most d after a time that is on schedule after p, and q allows for both.
LEMMA Allows ==
  ASSUME NEW i \in Int, NEW p \in Int, NEW q \in Int, NEW d \in Int, NEW s \in Int,
         NEW n \in Int, s <= i + MaxDelay + p, n <= s + d, p + d <= q
  PROVE  n <= i + MaxDelay + q
BY Constants

\* What was on time before any ping is on schedule.
LEMMA AtFirst ==
  ASSUME NEW i \in Int, NEW q \in Nat, NEW n \in Int, n <= i + MaxDelay
  PROVE  n <= i + MaxDelay + q
BY Constants

\* No target falls behind its schedule, whatever the others do.
LEMMA ScheduleStep ==
  ASSUME Shape, Elapsing, OnSchedule, [Next]_vars
  PROVE  OnSchedule'
<1> DEFINE Latest == Issued + MaxDelay + pingCount * DialTimeout
<1>0. Issued \in Int /\ pingCount \in Nat /\ pingCount * DialTimeout \in Nat /\ Latest \in Int
  <2>1. pingCount \in Nat /\ Issued \in Int
    BY Constants DEF Shape, Issued
  <2>2. pingCount * DialTimeout \in Nat
    BY <2>1, Constants
  <2>3. QED
    BY <2>1, <2>2, Constants
<1>1. CASE Issue
  <2>1. wire'.kind = "challenge" /\ wire'.sent = now /\ Issued' = now /\ pc' = "fetch"
    <3>1. ttl \in Nat /\ now \in Nat
      BY Constants DEF Shape
    <3>2. expiresAt' - ttl = now
      BY <1>1, <3>1 DEF Issue
    <3>3. QED
      BY <1>1, <3>2 DEF Issue, Send, Arrives, Shape, WireOf, Issued, given
  <2>2. QED
    BY <2>1 DEF OnSchedule, Arrives
<1>2. CASE StartPings
  <2>1. wire.sent = Issued /\ wire # NoMessage
    BY <1>2 DEF StartPings, OnSchedule, Arrives
  <2>2. now <= Issued + MaxDelay
    BY <2>1, <1>0, Constants DEF Shape
  <2>3. Issued' = Issued /\ UNCHANGED <<pingCount, now, rtts>> /\ wire' = NoMessage
    BY <1>2 DEF StartPings, Issued, given
  <2>4. ASSUME NEW t \in Target
        PROVE  start'[t] <= Issued + MaxDelay + Len(rtts[t]) * DialTimeout
    <3>1. start'[t] = now /\ now \in Nat
      BY <1>2 DEF StartPings, Shape
    <3>2. Len(rtts[t]) * DialTimeout \in Nat
      <4>1. Len(rtts[t]) \in Nat
        BY DEF Shape
      <4>2. QED
        BY <4>1, Constants
    <3>3. now <= Issued + MaxDelay + Len(rtts[t]) * DialTimeout
      BY <2>2, <3>1, <3>2, <1>0, AtFirst
    <3>4. QED
      BY <3>1, <3>3
  <2>5. now <= Latest
    <3>1. now \in Nat
      BY DEF Shape
    <3>2. QED
      BY <2>2, <3>1, <1>0, AtFirst
  <2>6. QED
    BY <2>3, <2>4, <2>5 DEF OnSchedule, Arrives
<1>3. CASE \E t \in Target : Answer(t) \/ Unreachable(t)
  <2>1. PICK t \in Target, rtt \in Time : Pinging(t) /\ Record(t, rtt)
    BY <1>3, ConnectStep DEF Connect
  <2>2. /\ Len(rtts'[t]) = Len(rtts[t]) + 1 /\ start'[t] = now
        /\ \A u \in Target \ {t} : rtts'[u] = rtts[u] /\ start'[u] = start[u]
        /\ pc = "ping"
    BY <2>1, RecordStep
  <2>3. Issued' = Issued /\ UNCHANGED <<pingCount, now, pc, wire>>
    BY <2>1 DEF Record, Issued, given
  <2>4. start'[t] <= Issued + MaxDelay + Len(rtts'[t]) * DialTimeout
    <3>1. Len(rtts[t]) \in Nat /\ start[t] \in Nat /\ now \in Nat
      BY DEF Shape
    <3>2. start[t] <= Issued + MaxDelay + Len(rtts[t]) * DialTimeout
      BY <2>1, <2>2 DEF OnSchedule
    <3>3. now <= start[t] + DialTimeout
      <4>1. now - start[t] <= DialTimeout
        BY <2>1 DEF Elapsing, Elapsed
      <4>2. QED
        BY <3>1, <4>1, Constants
    <3>4. /\ (Len(rtts[t]) + 1) * DialTimeout = Len(rtts[t]) * DialTimeout + DialTimeout
          /\ Len(rtts[t]) * DialTimeout \in Nat
      BY <3>1, Constants
    <3>5. Len(rtts'[t]) * DialTimeout = Len(rtts[t]) * DialTimeout + DialTimeout
      BY <2>2, <3>4
    <3>6. /\ Len(rtts'[t]) * DialTimeout \in Int
          /\ Len(rtts[t]) * DialTimeout + DialTimeout <= Len(rtts'[t]) * DialTimeout
      <4> DEFINE m == Len(rtts[t]) * DialTimeout
      <4>1. m \in Nat /\ Len(rtts'[t]) * DialTimeout = m + DialTimeout
        BY <3>4, <3>5
      <4>2. QED
        <5> HIDE DEF m
        <5>1. m + DialTimeout \in Int /\ m + DialTimeout <= m + DialTimeout
          BY <4>1, Constants
        <5>2. QED
          BY <4>1, <5>1 DEF m
    <3>7. now <= Issued + MaxDelay + Len(rtts'[t]) * DialTimeout
      <4> DEFINE p == Len(rtts[t]) * DialTimeout
                 q == Len(rtts'[t]) * DialTimeout
      <4>1. /\ p \in Int /\ q \in Int /\ p + DialTimeout <= q
            /\ start[t] <= Issued + MaxDelay + p
        BY <3>2, <3>4, <3>6
      <4>2. now \in Int /\ start[t] \in Int /\ DialTimeout \in Int /\ Issued \in Int
        BY <3>1, <1>0, Constants
      <4> HIDE DEF p, q
      <4>3. now <= Issued + MaxDelay + q
        BY <4>1, <4>2, <3>3, Allows
      <4>4. QED
        BY <4>3 DEF q
    <3>8. QED
      BY <2>2, <3>7
  <2>5. ASSUME NEW u \in Target, Pinging(u)'
        PROVE  start'[u] <= Issued + MaxDelay + Len(rtts'[u]) * DialTimeout
    <3>1. CASE u = t
      BY <2>4, <3>1
    <3>2. CASE u # t
      <4>1. Pinging(u)
        BY <2>2, <2>3, <2>5, <3>2 DEF Pinging
      <4>2. QED
        BY <2>2, <3>2, <4>1 DEF OnSchedule
    <3>3. QED
      BY <3>1, <3>2
  <2>6. QED
    BY <2>2, <2>3, <2>5 DEF OnSchedule, Arrives
<1>4. CASE SubmitMeasurement
  <2>1. /\ wire'.kind = "submit" /\ wire'.sent = now /\ pc' = "submit" /\ pc = "ping"
        /\ Issued' = Issued /\ pingCount' = pingCount
    BY <1>4 DEF SubmitMeasurement, Send, Waited, Issued, given
  <2>2. now <= Latest
    BY <2>1 DEF OnSchedule
  <2>3. QED
    BY <2>1, <2>2 DEF OnSchedule, Arrives
<1>5. CASE Validate
  <2>1. wire'.kind \in {"verdict", "expired"} /\ pc' = "submit"
    BY <1>5 DEF Validate, Send, Arrives, Shape, WireOf
  <2>2. QED
    BY <2>1 DEF OnSchedule, Arrives
<1>6. CASE Finish \/ Disconnect
  <2>1. wire' = NoMessage /\ pc' # "ping"
    BY <1>6 DEF Finish, Disconnect
  <2>2. QED
    BY <2>1 DEF OnSchedule, Arrives
<1>7. CASE Tick
  <2>1. Issued' = Issued /\ UNCHANGED <<pingCount, pc, wire, rtts, start>> /\ now' = now + 1
    BY <1>7 DEF Tick, Issued, given
  <2>2. ASSUME pc = "ping" PROVE now + 1 <= Latest
    <3>1. wire = NoMessage
      BY <2>2 DEF Shape, WireOf
    <3>2. PICK t \in Target : Pinging(t) /\ Elapsed(t) < DialTimeout
      BY <1>7, <3>1 DEF Tick
    <3>3. Len(rtts[t]) \in Nat /\ start[t] \in Nat /\ now \in Nat
      BY DEF Shape
    <3>4. start[t] <= Issued + MaxDelay + Len(rtts[t]) * DialTimeout
      BY <2>2, <3>2 DEF OnSchedule
    <3>5. now + 1 <= start[t] + DialTimeout
      BY <3>2, <3>3, Constants DEF Elapsed
    <3>6. Len(rtts[t]) * DialTimeout + DialTimeout <= pingCount * DialTimeout
      BY <3>2, <3>3, <1>0, Constants, OneMore DEF Pinging
    <3>7. Len(rtts[t]) * DialTimeout \in Nat
      BY <3>3, Constants
    <3>8. now + 1 \in Int /\ pingCount * DialTimeout \in Int /\ DialTimeout \in Int
      BY <3>3, <1>0, Constants
    <3>9. QED
      BY <3>3, <3>4, <3>5, <3>6, <3>7, <3>8, <1>0, Allows
  <2>3. QED
    BY <2>1, <2>2 DEF OnSchedule, Arrives, Pinging
<1>8. CASE UNCHANGED vars
  BY <1>8 DEF vars, given, OnSchedule, Arrives, Pinging, Issued
<1>9. QED
  BY <1>1, <1>2, <1>3, <1>4, <1>5, <1>6, <1>7, <1>8 DEF Next, Program

\* A report on schedule arrives before the deadline.
LEMMA InTimeStep ==
  ASSUME Shape, OnSchedule, InTime, [Next]_vars
  PROVE  InTime'
<1> DEFINE Lasts == ttl >= pingCount * DialTimeout + 2 * MaxDelay
<1>1. CASE Validate
  <2>1. Lasts => ~Expired
    <3>1. wire # NoMessage /\ wire.sent <= Issued + MaxDelay + pingCount * DialTimeout
      BY <1>1 DEF Validate, OnSchedule, Arrives
    <3>2. now <= wire.sent + MaxDelay /\ wire.sent \in Nat
      BY <3>1, Constants DEF Shape
    <3>3. expiresAt \in Nat /\ ttl \in Nat /\ now \in Nat
      BY Constants DEF Shape
    <3>4. pingCount * DialTimeout \in Nat
      <4>1. pingCount \in Nat
        BY Constants DEF Shape
      <4>2. QED
        BY <4>1, Constants
    <3>5. Lasts => now <= expiresAt
      BY <3>1, <3>2, <3>3, <3>4, Constants DEF Issued
    <3>6. QED
      BY <3>3, <3>5 DEF Expired
  <2>2. Lasts => wire'.kind = "verdict" /\ pc' = pc
    BY <1>1, <2>1 DEF Validate, Send
  <2>3. QED
    BY <1>1, <2>2 DEF Validate, InTime, given
<1>2. CASE Finish
  <2>1. Lasts => pc' = "done"
    BY <1>2 DEF Finish, InTime, Arrives
  <2>2. QED
    BY <1>2, <2>1 DEF Finish, InTime, given
<1>3. CASE Issue \/ SubmitMeasurement \/ StartPings \/ Disconnect
  <2>1. /\ UNCHANGED given /\ (pc' = pc \/ pc' # "refused")
        /\ wire' = NoMessage \/ wire'.kind # "expired"
    BY <1>3 DEF Issue, SubmitMeasurement, StartPings, Disconnect, Send
  <2>2. QED
    BY <2>1 DEF InTime, given
<1>4. CASE UNCHANGED <<given, pc, wire>>
  BY <1>4 DEF InTime, given
<1>5. Next => \/ Validate \/ Finish \/ Issue \/ SubmitMeasurement \/ StartPings \/ Disconnect
              \/ UNCHANGED <<given, pc, wire>>
  BY DEF Next, Program, Tick, Answer, Unreachable, Record
<1>6. QED
  BY <1>1, <1>2, <1>3, <1>4, <1>5 DEF vars

-----------------------------------------------------------------------------
(* The theorems. *)

\* The inductive invariant of the client.
THEOREM Invariance == Spec => []IInv
<1>1. IInv /\ [Next]_vars => IInv'
  BY ShapeStep, ReportedStep, AllHonestStep, ScheduleStep, InTimeStep DEF IInv
<1>2. QED
  BY InitIInv, <1>1, PTL DEF Spec

\* Times, places and RTTs are what pingProbe and the messages can make of them.
THEOREM TypeCorrect == Spec => []TypeOK
<1>1. ASSUME IInv PROVE TypeOK
  <2>1. ASSUME NEW t \in Target
        PROVE  rtts[t] \in Seq(Time) /\ Len(rtts[t]) <= pingCount /\ start[t] <= now
    BY <1>1 DEF IInv, Shape
  <2>2. measurements \in {<<>>, Report}
    BY <1>1 DEF IInv, Reported
  <2>3. QED
    BY <1>1, <2>1, <2>2 DEF IInv, Shape, TypeOK, Time
<1>2. QED
  BY <1>1, Invariance, PTL

\* A challenge whose TTL covers the timeouts of all pings of one probe and two
\* messages is never refused as expired, though every probe be silent.
THEOREM ChallengeLasts == Spec => []InTime
<1>1. IInv => InTime
  BY DEF IInv
<1>2. QED
  BY <1>1, Invariance, PTL

\* What wg.Wait lets through has a report for every target, in order, with all
\* of its pings.
THEOREM ReportsAreComplete == Spec => []ReportIsComplete
<1>1. ASSUME IInv, measurements # <<>>, NEW i \in DOMAIN measurements
      PROVE  /\ i \in DOMAIN Targets /\ measurements[i].probe = Targets[i]
             /\ Len(measurements[i].RTTs) = IF pingCount = 0 THEN 1 ELSE pingCount
             /\ \A k \in DOMAIN measurements[i].RTTs :
                  Honest(measurements[i].probe, measurements[i].RTTs[k])
  <2> DEFINE t == Targets[i]
  <2>1. measurements = Report /\ Complete
    BY <1>1 DEF IInv, Reported
  <2>2. i \in DOMAIN Targets /\ t \in Target
    BY <1>1, <2>1 DEF Report, Target, ToSet
  <2>3. /\ measurements[i].probe = t
        /\ measurements[i].RTTs = IF rtts[t] = <<>> THEN <<Marker>> ELSE rtts[t]
    BY <2>1, <2>2 DEF Report
  <2>4. rtts[t] \in Seq(Time) /\ Len(rtts[t]) = pingCount
    BY <1>1, <2>1, <2>2 DEF IInv, Shape, Complete
  <2>5. CASE rtts[t] = <<>>
    <3>1. pingCount = 0 /\ measurements[i].RTTs = <<Marker>>
      BY <2>3, <2>4, <2>5
    <3>2. QED
      BY <2>2, <2>3, <3>1 DEF Honest
  <2>6. CASE rtts[t] # <<>>
    <3>1. pingCount # 0 /\ measurements[i].RTTs = rtts[t]
      BY <2>3, <2>4, <2>6
    <3>2. \A k \in DOMAIN rtts[t] : Honest(t, rtts[t][k])
      BY <1>1, <2>2 DEF IInv, AllHonest
    <3>3. QED
      BY <2>2, <2>3, <2>4, <3>1, <3>2
  <2>7. QED
    BY <2>5, <2>6
<1>2. ASSUME IInv, measurements # <<>> PROVE Len(measurements) = Len(Targets)
  <2>1. measurements = Report /\ Targets \in Seq(Place)
    BY <1>2, ClientAssumption DEF IInv, Reported
  <2>2. QED
    BY <2>1 DEF Report
<1>3. IInv => ReportIsComplete
  BY <1>1, <1>2 DEF ReportIsComplete, Honest
<1>4. QED
  BY <1>3, Invariance, PTL

-----------------------------------------------------------------------------
(* Why an honest client is believed. *)

\* What is proved of medians beside the engine holds whatever the engine's own
\* constants are: with no probes, no reports and no sample points, too.
NoPoints(at, radius) == {}
NoSpread(inside) == 0

Lemmas == INSTANCE GeoEngineProofs WITH
  Grid <- NoPoints, Spread <- NoSpread, Probe <- {}, UnknownProbe <- NoMessage,
  RttLists <- {}, MaxReports <- 0, HighRtt <- 0, Near <- 0, Wide <- 0, Bonuses <- {}

\* The engine's assumptions about places hold of the client's.
LEMMA SameAssumptions == Lemmas!MetricAssumption /\ Lemmas!SamplingAssumption
BY MetricAssumption, ClientAssumption DEF Lemmas!MetricAssumption, Lemmas!SamplingAssumption

AtMost(s, v) == {k \in DOMAIN s : s[k] <= v}

\* The median of a list that is not empty is a number in it, and more than half
\* of the list is no larger.
LEMMA MedianMember ==
  ASSUME NEW s \in Seq(Int), s # <<>>
  PROVE  /\ medianInt(s) \in ToSet(s) /\ medianInt(s) \in Int
         /\ Cardinality(AtMost(s, medianInt(s))) > Len(s) \div 2
<1>1. /\ Lemmas!medianInt(s) \in Lemmas!ToSet(s) /\ Lemmas!medianInt(s) \in Int
      /\ Lemmas!Cardinality(Lemmas!AtMost(s, Lemmas!medianInt(s))) > Len(s) \div 2
  BY SameAssumptions, Lemmas!MedianMember, Lemmas!MedianType
<1>2. Lemmas!medianInt(s) = medianInt(s) /\ Lemmas!ToSet(s) = ToSet(s)
  BY Zenon DEF medianInt, Lemmas!medianInt, ToSet, Lemmas!ToSet, Cardinality, Lemmas!Cardinality,
               IsFiniteSet, Lemmas!IsFiniteSet
<1>3. \A T : Lemmas!Cardinality(T) = Cardinality(T)
  BY Zenon DEF Cardinality, Lemmas!Cardinality, IsFiniteSet, Lemmas!IsFiniteSet
<1>4. Lemmas!AtMost(s, medianInt(s)) = AtMost(s, medianInt(s))
  BY DEF AtMost, Lemmas!AtMost
<1>5. QED
  BY <1>1, <1>2, <1>3, <1>4

\* Two circles with a common place reach as far as their centres are apart.
LEMMA CirclesMeet ==
  ASSUME NEW a \in Place, NEW b \in Place, NEW p \in Place, NEW r \in Int, NEW s \in Int,
         Dist(p, a) <= r, Dist(p, b) <= s
  PROVE  r + s >= Dist(a, b)
BY SameAssumptions, Lemmas!CirclesMeet

\* The indices of a list, and any of them, are finitely many.
LEMMA SomeIndices ==
  ASSUME NEW n \in Nat, NEW T \in SUBSET (1..n)
  PROVE  IsFiniteSet(T) /\ Cardinality(T) \in Nat
<1>1. IsFiniteSet(1..n)
  BY FS_Interval
<1>2. QED
  BY <1>1, FS_Subset, FS_CardinalityType

\* The radius that the server makes of a time falls short of the distance that
\* light covers in it only between the overhead it takes off and that of the
\* connect; the marker stands for any distance.
LEMMA HonestTime ==
  ASSUME NEW d \in Nat, d <= Marker - TcpOverhead, NEW rtt \in Int,
         rtt = Marker \/ rtt >= d + HandshakeCost
  PROVE  /\ MaxDistanceFromRTT(rtt) \in Int /\ Shortfall \in Nat
         /\ d <= MaxDistanceFromRTT(rtt) + Shortfall
         /\ rtt <= TcpOverhead \/ rtt >= d + TcpOverhead => d <= MaxDistanceFromRTT(rtt)
<1>1. rtt <= TcpOverhead \/ rtt >= d + TcpOverhead => d <= MaxDistanceFromRTT(rtt)
  BY Constants DEF MaxDistanceFromRTT
<1>2. MaxDistanceFromRTT(rtt) \in Int /\ Shortfall \in Nat
  BY Constants DEF MaxDistanceFromRTT, Shortfall
<1>3. ASSUME rtt > TcpOverhead, rtt < d + TcpOverhead
      PROVE  d <= MaxDistanceFromRTT(rtt) + Shortfall
  <2>1. MaxDistanceFromRTT(rtt) = rtt - TcpOverhead /\ rtt >= d + HandshakeCost
    BY <1>3, Constants DEF MaxDistanceFromRTT
  <2>2. Shortfall = TcpOverhead - HandshakeCost
    BY <1>3, <2>1, Constants DEF Shortfall
  <2>3. QED
    BY <2>1, <2>2, Constants
<1>4. QED
  BY <1>1, <1>2, <1>3, Constants

\* Every time in an honest report is the marker or long enough.
HonestReport(m) ==
  /\ m.probe \in Place
  /\ m.RTTs \in Seq(Int) \ {<<>>}
  /\ \A k \in DOMAIN m.RTTs : Honest(m.probe, m.RTTs[k])

\* The client is in the circle of every report that is honest and not undercut,
\* and near the circle of every other.
LEMMA InCircle ==
  ASSUME home \in Place, NEW m, HonestReport(m)
  PROVE  /\ Radius(m) \in Int /\ Dist(home, m.probe) \in Nat /\ Shortfall \in Nat
         /\ Dist(home, m.probe) <= Radius(m) + Shortfall
         /\ ~Undercut(m) => Dist(home, m.probe) <= Radius(m)
<1> DEFINE s == m.RTTs
           v == medianInt(s)
           d == Dist(home, m.probe)
<1>1. s \in Seq(Int) /\ s # <<>> /\ m.probe \in Place
  BY DEF HonestReport
<1>2. v \in ToSet(s) /\ v \in Int /\ Cardinality(AtMost(s, v)) > Len(s) \div 2
  <2> HIDE DEF s
  <2> QED
    BY <1>1, MedianMember
<1>3. PICK k \in DOMAIN s : v = s[k]
  BY <1>2 DEF ToSet
<1>4. v = Marker \/ v >= d + HandshakeCost
  BY <1>3 DEF HonestReport, Honest
<1>5. d \in Nat /\ d <= Marker - TcpOverhead
  BY <1>1, MetricAssumption, Constants
<1>6. /\ MaxDistanceFromRTT(v) \in Int /\ Shortfall \in Nat
      /\ d <= MaxDistanceFromRTT(v) + Shortfall
      /\ v <= TcpOverhead \/ v >= d + TcpOverhead => d <= MaxDistanceFromRTT(v)
  <2> HIDE DEF v, d
  <2> QED
    BY <1>2, <1>4, <1>5, HonestTime
<1>7. ASSUME v > TcpOverhead, v < d + TcpOverhead PROVE Undercut(m)
  <2> HIDE DEF s, v, d
  <2>1. Cheap(m) = {i \in DOMAIN s : s[i] < d + TcpOverhead}
    BY DEF Cheap, s, d
  <2>2. DOMAIN s = 1..Len(s) /\ Len(s) \in Nat /\ \A i \in DOMAIN s : s[i] \in Int
    BY <1>1
  <2>3. AtMost(s, v) \subseteq Cheap(m) /\ Cheap(m) \subseteq 1..Len(s)
    BY <1>2, <1>5, <1>7, <2>1, <2>2, Constants DEF AtMost
  <2>4. Cardinality(AtMost(s, v)) <= Cardinality(Cheap(m))
    BY <2>2, <2>3, SomeIndices, FS_Subset
  <2>5. Cardinality(Cheap(m)) \in Nat /\ Cardinality(AtMost(s, v)) \in Nat
    BY <2>2, <2>3, SomeIndices
  <2>6. 2 * Cardinality(Cheap(m)) > Len(s)
    BY <1>2, <2>2, <2>4, <2>5
  <2>7. k \in Cheap(m) /\ s[k] > TcpOverhead
    BY <1>3, <1>7, <2>1
  <2>8. QED
    BY <2>6, <2>7 DEF Undercut, s
<1>8. ~Undercut(m) => d <= MaxDistanceFromRTT(v)
  <2> HIDE DEF v, d
  <2> QED
    BY <1>2, <1>5, <1>6, <1>7, Constants
<1>9. QED
  BY <1>5, <1>6, <1>8 DEF Radius

\* Two honest reports, neither of them undercut, never contradict each other.
LEMMA HonestPair ==
  ASSUME home \in Place, NEW m, NEW o, HonestReport(m), HonestReport(o),
         ~Undercut(m), ~Undercut(o)
  PROVE  Radius(m) + Radius(o) >= Dist(m.probe, o.probe)
<1>1. m.probe \in Place /\ o.probe \in Place
  BY DEF HonestReport
<1>2. /\ Dist(home, m.probe) <= Radius(m) /\ Radius(m) \in Int
      /\ Dist(home, o.probe) <= Radius(o) /\ Radius(o) \in Int
  BY InCircle
<1>3. QED
  BY <1>1, <1>2, CirclesMeet

\* A list of honest reports.
HonestList ==
  /\ home \in Place /\ Len(measurements) \in Nat /\ DOMAIN measurements = 1..Len(measurements)
  /\ \A i \in DOMAIN measurements : HonestReport(measurements[i])

\* Whom the circles of a list of honest reports leave out, its undercut reports do.
LEMMA LeftOut ==
  ASSUME HonestList, NEW i \in DOMAIN measurements,
         Outside(home, Circles(measurements)[i])
  PROVE  Undercut(measurements[i])
<1>1. /\ Circles(measurements)[i].at = measurements[i].probe
      /\ Circles(measurements)[i].radius = Radius(measurements[i])
  BY DEF Circles
<1>2. ~(Dist(home, measurements[i].probe) <= Radius(measurements[i]))
  <2>1. Dist(home, measurements[i].probe) \in Nat /\ Radius(measurements[i]) \in Int
    BY InCircle DEF HonestList
  <2>2. Dist(home, measurements[i].probe) > Radius(measurements[i])
    BY <1>1 DEF Outside
  <2>3. QED
    BY <2>1, <2>2
<1>3. QED
  BY <1>2, InCircle DEF HonestList

\* A list of honest reports is held against the client as far as it is undercut.
LEMMA HonestListIsBelieved ==
  ASSUME HonestList
  PROVE  HonestIsBelieved
<1> DEFINE undercut == {i \in DOMAIN measurements : Undercut(measurements[i])}
           outside == {i \in DOMAIN Circles(measurements) : Outside(home, Circles(measurements)[i])}
<1>1. ASSUME NEW i \in DOMAIN measurements
      PROVE  Dist(home, measurements[i].probe)
               <= Radius(measurements[i]) + IF i \in undercut THEN Shortfall ELSE 0
  BY InCircle DEF HonestList
<1>2. ASSUME undercut = {}, NEW i \in DOMAIN measurements, NEW j \in DOMAIN measurements
      PROVE  Radius(measurements[i]) + Radius(measurements[j])
               >= Dist(measurements[i].probe, measurements[j].probe)
  BY <1>2, HonestPair DEF HonestList
<1>3. undercut = {} => CheckRatios(measurements)
  BY <1>2 DEF CheckRatios
<1>4. undercut = {} => \A c \in Closest(measurements) : CorrelateProbes(measurements, c)
  BY <1>2 DEF Closest, CorrelateProbes
<1>5. ASSUME home \in Exclusions(Circles(measurements), Place)
      PROVE  undercut # {} /\ 2 * Cardinality(undercut) >= Len(measurements)
  <2>1. outside # {} /\ 2 * Cardinality(outside) >= Len(Circles(measurements))
    BY <1>5 DEF Exclusions
  <2>2. /\ DOMAIN Circles(measurements) = DOMAIN measurements
        /\ Len(Circles(measurements)) = Len(measurements) /\ Len(measurements) \in Nat
    BY DEF Circles, HonestList
  <2>3. outside \subseteq undercut /\ undercut \subseteq 1..Len(measurements)
    BY <2>2, LeftOut DEF HonestList
  <2> HIDE DEF outside, undercut
  <2>4. /\ Cardinality(outside) <= Cardinality(undercut)
        /\ Cardinality(outside) \in Nat /\ Cardinality(undercut) \in Nat
    BY <2>2, <2>3, SomeIndices, FS_Subset
  <2>5. undercut # {}
    BY <2>1, <2>3
  <2>6. 2 * Cardinality(undercut) >= Len(measurements)
    BY <2>1, <2>2, <2>4
  <2>7. QED
    BY <2>5, <2>6
<1>6. QED
  BY <1>1, <1>3, <1>4, <1>5 DEF HonestIsBelieved

\* What the client reports is honest.
LEMMA ReportIsHonest ==
  ASSUME IInv
  PROVE  HonestList
<1>1. home \in Place
  BY ClientAssumption DEF IInv, Shape
<1>2. ASSUME measurements # <<>>, NEW i \in DOMAIN measurements
      PROVE  HonestReport(measurements[i])
  <2> DEFINE t == Targets[i]
  <2>1. measurements = Report
    BY <1>2 DEF IInv, Reported
  <2>2. i \in DOMAIN Targets /\ t \in Target
    BY <1>2, <2>1 DEF Report, Target, ToSet
  <2>3. /\ measurements[i].probe = t
        /\ measurements[i].RTTs = IF rtts[t] = <<>> THEN <<Marker>> ELSE rtts[t]
    BY <2>1, <2>2 DEF Report
  <2>4. rtts[t] \in Seq(Int) /\ t \in Place
    BY <2>2, Constants DEF IInv, Shape, Time
  <2>5. \A k \in DOMAIN rtts[t] : Honest(t, rtts[t][k])
    BY <2>2 DEF IInv, AllHonest
  <2>6. <<Marker>> \in Seq(Int) \ {<<>>} /\ \A k \in DOMAIN <<Marker>> : Honest(t, <<Marker>>[k])
    BY Constants DEF Honest
  <2>7. CASE rtts[t] = <<>>
    BY <2>3, <2>4, <2>6, <2>7 DEF HonestReport
  <2>8. CASE rtts[t] # <<>>
    BY <2>3, <2>4, <2>5, <2>8 DEF HonestReport
  <2>9. QED
    BY <2>7, <2>8
<1>3. Len(measurements) \in Nat /\ DOMAIN measurements = 1..Len(measurements)
  <2>1. CASE measurements = <<>>
    BY <2>1
  <2>2. CASE measurements # <<>>
    <3>1. measurements = Report /\ Targets \in Seq(Place)
      BY <2>2, ClientAssumption DEF IInv, Reported
    <3>2. QED
      BY <3>1 DEF Report
  <2>3. QED
    BY <2>1, <2>2
<1>4. QED
  BY <1>1, <1>2, <1>3 DEF HonestList

\* Whatever probes are silent or slow, an honest client is in the circle of
\* every report but those whose connects cost less than the server takes off,
\* and from these it is no further than the difference; nothing else can fail a
\* test for contradictions or have its place excluded (geo.go:70 to 85).
THEOREM HonestClientIsBelieved == Spec => []HonestIsBelieved
<1>1. IInv => HonestIsBelieved
  BY ReportIsHonest, HonestListIsBelieved
<1>2. QED
  BY <1>1, Invariance, PTL

-----------------------------------------------------------------------------
(* What the verdict can hold against an honest client. *)

\* What only the engine knows of: its sampling and the bounds of its score.
CONSTANTS Grid(_, _), Spread(_), HighRtt, Near, Wide

Nowhere == CHOOSE p : p \notin Target

Engine == INSTANCE GeoEngineProofs WITH
  Probe <- Target, UnknownProbe <- Nowhere, RttLists <- Seq(Int),
  MaxReports <- Len(Targets), Bonuses <- Nat

\* The places where the client can be, and those of them that the engine's grid
\* over the smallest circle hits.
Common == {p \in Place : InAll(p, Circles(measurements))}
Hit == LET circle == Engine!Smallest(Circles(measurements))
       IN  Common \intersect Grid(circle.at, circle.radius)

\* The client is at a place that satisfies all reports, but the grid hits no such
\* place, or hits one that shows as a single point.
SamplingMisses == home \in Common /\ (Hit = {} \/ Spread(Hit) = 0)

\* REJECTED says that connects were cheaper than the overhead taken off them
\* (geo.go:79) or that the grid was too coarse (geo.go:141), and SUSPICIOUS that
\* the times vary too little or look like a VPN: nothing else that server.go:133
\* to 139 looks at ever speaks against an honest client.
VerdictIsExplained ==
  \A c \in Closest(measurements), bonus \in Nat :
    LET verdict == Engine!Verdict(measurements, c, bonus)
    IN  /\ verdict = "REJECTED" =>
             /\ Len(measurements) > 1
             /\ SamplingMisses \/ \E i \in DOMAIN measurements : Undercut(measurements[i])
        /\ verdict = "SUSPICIOUS" =>
             Engine!JitterAbnormal(measurements) \/ Engine!DetectVPN(measurements)

\* The engine's circles and tests are those of the client's module.
LEMMA SameTests ==
  /\ Engine!Circles(measurements) = Circles(measurements)
  /\ \A p, circles : Engine!InAll(p, circles) <=> InAll(p, circles)
BY Zenon DEF Circles, Engine!Circles, Radius, Engine!Radius, MaxDistanceFromRTT,
     Engine!MaxDistanceFromRTT, medianInt, Engine!medianInt, ToSet, Engine!ToSet,
     Cardinality, Engine!Cardinality, IsFiniteSet, Engine!IsFiniteSet,
     InAll, Engine!InAll

\* The engine's assumptions hold, whatever its bounds are.
LEMMA EngineAssumptions ==
  ASSUME HighRtt \in Nat, Near \in Nat, Wide \in Nat
  PROVE  Engine!MetricAssumption /\ Engine!SamplingAssumption
<1>1. Nowhere \notin Target
  BY NoSetContainsEverything DEF Nowhere
<1>2. Len(Targets) \in Nat
  BY ClientAssumption
<1>3. QED
  BY <1>1, <1>2, MetricAssumption, Constants DEF Engine!MetricAssumption, Engine!SamplingAssumption

\* The client's report is one that the engine takes.
LEMMA EngineTakes ==
  ASSUME IInv
  PROVE  Engine!TypeOK
<1> DEFINE M == [probe : Target, RTTs : Seq(Int)]
<1>1. CASE measurements = <<>>
  BY <1>1, ClientAssumption DEF Engine!TypeOK
<1>2. CASE measurements # <<>>
  <2>1. measurements = Report
    BY <1>2 DEF IInv, Reported
  <2>2. ASSUME NEW i \in DOMAIN Targets PROVE Report[i] \in M
    <3>1. Targets[i] \in Target
      BY DEF Target, ToSet
    <3>2. rtts[Targets[i]] \in Seq(Int) /\ <<Marker>> \in Seq(Int)
      BY <3>1, Constants DEF IInv, Shape, Time
    <3>3. QED
      BY <3>1, <3>2 DEF Report
  <2>3. Report \in Seq(M) /\ Len(Report) <= Len(Targets)
    <3>1. Targets \in Seq(Place)
      BY ClientAssumption
    <3>2. /\ Len(Targets) \in Nat /\ DOMAIN Targets = 1..Len(Targets)
          /\ Report = [i \in 1..Len(Targets) |-> Report[i]] /\ Len(Report) = Len(Targets)
      BY <3>1 DEF Report
    <3> HIDE DEF M
    <3>3. Report \in [1..Len(Targets) -> M]
      BY <2>2, <3>2
    <3>4. Report \in Seq(M)
      BY <3>2, <3>3
    <3>5. QED
      BY <3>2, <3>4
  <2>4. QED
    BY <2>1, <2>3 DEF Engine!TypeOK, Engine!Measurement
<1>3. QED
  BY <1>1, <1>2

\* Circles that contain the client are rejected for the sampling alone.
LEMMA NotRejected ==
  ASSUME home \in Place, InAll(home, Circles(measurements)), ~SamplingMisses,
         Len(measurements) \in Nat, Len(measurements) > 1
  PROVE  Engine!IntersectCircles(Circles(measurements)).radius # 0
<1> DEFINE circles == Circles(measurements)
           inside == Engine!Inside(circles)
<1>1. inside = Hit
  BY SameTests DEF Engine!Inside, Hit, Common
<1>2. inside # {} /\ Spread(inside) # 0
  BY <1>1 DEF SamplingMisses, Common
<1>3. Engine!Overlap(circles, inside).radius # 0
  BY <1>2 DEF Engine!Overlap
<1>4. Len(circles) = Len(measurements)
  BY DEF Circles
<1>5. Engine!IntersectCircles(circles) = Engine!Overlap(circles, inside)
  BY <1>4 DEF Engine!IntersectCircles
<1>6. QED
  BY <1>3, <1>5

\* Circles that leave the client out are too small, because a report is undercut.
LEMMA InAllOrUndercut ==
  ASSUME HonestList
  PROVE  \/ InAll(home, Circles(measurements))
         \/ \E i \in DOMAIN measurements : Undercut(measurements[i])
<1>1. ASSUME NEW i \in DOMAIN measurements, ~Undercut(measurements[i])
      PROVE  Dist(home, measurements[i].probe) <= Radius(measurements[i])
  BY <1>1, InCircle DEF HonestList
<1>2. QED
  BY <1>1 DEF InAll, Circles

\* Whatever the engine samples and whatever bonus the dataset gives, an honest
\* client is REJECTED only where its connects were cheaper than the overhead
\* taken off or where the grid missed the places that satisfy its report, and
\* SUSPICIOUS only for its jitter or as a VPN (server.go:135): that a contradiction
\* of its circles shows as one or the other is what the engine's theorems say.
THEOREM HonestVerdict ==
  ASSUME HighRtt \in Nat, Near \in Nat, Wide \in Nat
  PROVE  Spec => []VerdictIsExplained
<1>1. ASSUME IInv, NEW c \in Closest(measurements), NEW bonus \in Nat
      PROVE  LET verdict == Engine!Verdict(measurements, c, bonus)
             IN  /\ verdict = "REJECTED" =>
                      /\ Len(measurements) > 1
                      /\ SamplingMisses \/ \E i \in DOMAIN measurements : Undercut(measurements[i])
                 /\ verdict = "SUSPICIOUS" =>
                      Engine!JitterAbnormal(measurements) \/ Engine!DetectVPN(measurements)
  <2> DEFINE result == Engine!Locate(measurements, bonus)
             vpn == Engine!DetectVPN(measurements)
             correlated == Engine!CorrelateProbes(measurements, c)
  <2>1. HonestList /\ Engine!TypeOK
    BY <1>1, ReportIsHonest, EngineTakes
  <2>2. /\ result.impossible <=>
             Len(measurements) > 1 /\ Engine!IntersectCircles(Circles(measurements)).radius = 0
        /\ result.jitter <=> Engine!JitterAbnormal(measurements)
        /\ result.ratio <=> ~Engine!CheckRatios(measurements)
    BY SameTests, Zenon DEF Engine!Locate
  <2>3. result.impossible =>
          /\ Len(measurements) > 1
          /\ SamplingMisses \/ \E i \in DOMAIN measurements : Undercut(measurements[i])
    BY <2>1, <2>2, NotRejected, InAllOrUndercut DEF HonestList
  <2>4. ~result.impossible => Engine!CheckRatios(measurements)
    BY <2>1, EngineAssumptions, Engine!RatioMeansImpossible
  <2>5. Engine!CheckRatios(measurements) => correlated
    <3>1. c \in DOMAIN measurements
      BY DEF Closest
    <3>2. QED
      BY <2>1, <3>1, EngineAssumptions, Engine!CorrelationFromRatios
  <2>6. Engine!Verdict(measurements, c, bonus) = Engine!Status(result, vpn, correlated)
    BY Zenon DEF Engine!Verdict
  <2> HIDE DEF result, correlated, vpn
  <2>7. QED
    <3> DEFINE verdict == Engine!Verdict(measurements, c, bonus)
    <3>1. verdict = "REJECTED" => result.impossible
      BY <2>6 DEF Engine!Status
    <3>2. verdict = "SUSPICIOUS" => ~result.impossible /\ (vpn \/ result.jitter \/ result.ratio \/ ~correlated)
      BY <2>6 DEF Engine!Status
    <3> HIDE DEF verdict
    <3>3. verdict = "SUSPICIOUS" => Engine!JitterAbnormal(measurements) \/ vpn
      BY <3>2, <2>2, <2>4, <2>5
    <3>4. QED
      BY <3>1, <3>3, <2>3 DEF vpn, verdict
<1>2. IInv => VerdictIsExplained
  BY <1>1, Zenon DEF VerdictIsExplained
<1>3. QED
  BY <1>2, Invariance, PTL
=============================================================================
