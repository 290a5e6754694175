------------------------------- MODULE Client -------------------------------
(***************************************************************************)
(* cmd/echomap-client, with the network between it and the probes and the  *)
(* server: an honest client that fetches a challenge, times TCP connects   *)
(* to all probes at once, and submits what it measured.                    *)
(*                                                                         *)
(* A tick is the one of GeoCircles.  Messages take up to MaxDelay, a       *)
(* connect takes as long as light needs plus HandshakeCost or longer,      *)
(* which may be less than the overhead that the server takes off, and the  *)
(* program itself runs in no time.  Of the server there is the deadline of *)
(* the challenge and the conversion of the report; that a challenge may be *)
(* taken or forgotten is the business of Server.                           *)
(***************************************************************************)
EXTENDS GeoCircles

CONSTANTS
  Targets,       \* the list of probes in the challenge, as their places
  Homes,         \* where the client may be
  HandshakeCost, \* least time of a connect beyond that of light
  DialTimeout,   \* the two seconds of pingProbe
  Marker,        \* the 999999 of pingProbe
  PingCounts,    \* ECHOMAP_PING_COUNT
  TTLs,          \* ECHOMAP_TOKEN_TTL
  MaxDelay,      \* of one message between client and server
  NoMessage

VARIABLES
  home, pingCount, ttl,  \* fixed from the start
  now,           \* the time
  pc,            \* of the client: "fetch", "ping", "submit", or how it ended
  wire,          \* the message under way between client and server
  expiresAt,     \* the deadline of the challenge, in the server
  rtts,          \* of pingProbe, for each target
  start,         \* when the connect to a target began
  measurements   \* what the server has converted

given == <<home, pingCount, ttl>>
vars == <<given, now, pc, wire, expiresAt, rtts, start, measurements>>

Target == ToSet(Targets)
Ended == {"done", "refused", "failed"}

\* The marker of an unreachable probe, about a second, stands for a circle
\* that leaves nothing out.
ASSUME ClientAssumption ==
  /\ Targets \in Seq(Place) /\ Homes \subseteq Place
  /\ \A i, j \in DOMAIN Targets : i # j => Targets[i] # Targets[j]
  /\ TcpOverhead \in Nat /\ HandshakeCost \in Nat \ {0} /\ DialTimeout \in Nat /\ MaxDelay \in Nat
  /\ PingCounts \subseteq Nat /\ TTLs \subseteq Nat /\ Marker \in Nat
  /\ \A p, q \in Place : Dist(p, q) <= Marker - TcpOverhead

-----------------------------------------------------------------------------
(* Faults the code does not have, each of which breaks a property below. *)

\* A failed ping is recorded as no time at all.
Failed_Zero == 0

\* pingProbe counts one ping too far.
Pinging_Extra(t) == pc = "ping" /\ Len(rtts[t]) <= pingCount

\* The results are read without waiting for all of them ...
Waited_Never == pc = "ping"

\* ... or only when every probe has answered at least once.
Waited_Answer ==
  pc = "ping" /\ \A t \in Target : Len(rtts[t]) >= pingCount /\ rtts[t] # <<>>
                                   /\ \E i \in DOMAIN rtts[t] : rtts[t][i] # Marker

\* A challenge is expired at its deadline already.
Expired_AtOnce == now >= expiresAt

-----------------------------------------------------------------------------

Send(kind, report) == wire' = [kind |-> kind, sent |-> now, report |-> report]
Arrives(kind) == wire # NoMessage /\ wire.kind = kind

\* main starts with the call of FetchChallenge.
Init ==
  /\ home \in Homes /\ pingCount \in PingCounts /\ ttl \in TTLs
  /\ now = 0
  /\ pc = "fetch"
  /\ wire = [kind |-> "fetch", sent |-> 0, report |-> <<>>]
  /\ expiresAt = 0
  /\ rtts = [t \in Target |-> <<>>]
  /\ start = [t \in Target |-> 0]
  /\ measurements = <<>>

\* The server: GenerateToken and the reply.
Issue ==
  /\ Arrives("fetch")
  /\ expiresAt' = now + ttl
  /\ Send("challenge", <<>>)
  /\ UNCHANGED <<given, now, pc, rtts, start, measurements>>

\* One goroutine per target, each of which starts its first connect.
StartPings ==
  /\ Arrives("challenge")
  /\ pc' = "ping"
  /\ wire' = NoMessage
  /\ start' = [t \in Target |-> now]
  /\ UNCHANGED <<given, now, expiresAt, rtts, measurements>>

Pinging(t) == pc = "ping" /\ Len(rtts[t]) < pingCount
Elapsed(t) == now - start[t]

\* The result of one connect, after which the next begins.
Record(t, rtt) ==
  /\ rtts' = [rtts EXCEPT ![t] = Append(@, rtt)]
  /\ start' = [start EXCEPT ![t] = now]
  /\ UNCHANGED <<given, now, pc, wire, expiresAt, measurements>>

Answer(t) ==
  /\ Pinging(t) /\ Elapsed(t) >= Dist(home, t) + HandshakeCost
  /\ Record(t, Elapsed(t))

\* Refused, unreachable or timed out: an error, sooner or later.
Failed == Marker

Unreachable(t) == Pinging(t) /\ Record(t, Failed)

\* wg.Wait, and the list in the order of the targets.  Without a ping there is
\* the marker.
Waited == pc = "ping" /\ \A t \in Target : ~Pinging(t)

Report ==
  [i \in DOMAIN Targets |->
     [probe |-> Targets[i],
      RTTs |-> IF rtts[Targets[i]] = <<>> THEN <<Marker>> ELSE rtts[Targets[i]]]]

SubmitMeasurement ==
  /\ Waited
  /\ pc' = "submit"
  /\ Send("submit", Report)
  /\ UNCHANGED <<given, now, expiresAt, rtts, start, measurements>>

\* The server: the deadline of ValidateToken, and the report of a challenge in
\* time.
Expired == now > expiresAt

Validate ==
  /\ Arrives("submit")
  /\ IF Expired THEN Send("expired", <<>>) /\ UNCHANGED measurements
     ELSE Send("verdict", <<>>) /\ measurements' = wire.report
  /\ UNCHANGED <<given, now, pc, expiresAt, rtts, start>>

\* The verdict is shown, or the error and the exit with status 1.
Finish ==
  /\ pc' = IF Arrives("verdict") THEN "done" ELSE "refused"
  /\ Arrives("verdict") \/ Arrives("expired")
  /\ wire' = NoMessage
  /\ UNCHANGED <<given, now, expiresAt, rtts, start, measurements>>

\* The connection breaks or the server is gone: there is no retry.
Disconnect ==
  /\ pc \in {"fetch", "submit"}
  /\ pc' = "failed"
  /\ wire' = NoMessage
  /\ UNCHANGED <<given, now, expiresAt, rtts, start, measurements>>

\* Time passes while a message or a connect is under way, and waits for what is
\* due: a message at its latest, a connect that times out.
Tick ==
  /\ wire # NoMessage \/ \E t \in Target : Pinging(t)
  /\ wire # NoMessage => now - wire.sent < MaxDelay
  /\ \A t \in Target : Pinging(t) => Elapsed(t) < DialTimeout
  /\ now' = now + 1
  /\ UNCHANGED <<given, pc, wire, expiresAt, rtts, start, measurements>>

Program == StartPings \/ SubmitMeasurement \/ Finish

Next ==
  \/ Program \/ Issue \/ Validate \/ Disconnect \/ Tick
  \/ \E t \in Target : Answer(t) \/ Unreachable(t)

Spec == Init /\ [][Next]_vars

\* Time passes, the program runs, a connect ends at its timeout and the server
\* answers; that it answers for ever is not assumed, nor that a probe does.
FairSpec ==
  /\ Spec /\ WF_vars(Tick) /\ WF_vars(Program) /\ WF_vars(Issue) /\ WF_vars(Validate)
  /\ \A t \in Target : WF_vars(Elapsed(t) >= DialTimeout /\ Unreachable(t))

-----------------------------------------------------------------------------

\* Times, places and RTTs are what the code can make of them.
TypeOK ==
  /\ home \in Homes /\ pingCount \in PingCounts /\ ttl \in TTLs /\ now \in Nat
  /\ pc \in {"fetch", "ping", "submit"} \union Ended
  /\ \A t \in Target :
       /\ rtts[t] \in Seq((1..DialTimeout) \union {Marker})
       /\ Len(rtts[t]) <= pingCount
       /\ start[t] <= now
  /\ wire # NoMessage => now - wire.sent \in 0..MaxDelay
  /\ measurements \in {<<>>, Report}

\* geo.go:79: a report is undercut when more than half of its connects took
\* less beyond light than the 10 ms taken off them, and not so little that the
\* RTT is used as it is.  How far a circle may then fall short of its client:
Cheap(m) == {k \in DOMAIN m.RTTs : m.RTTs[k] < Dist(home, m.probe) + TcpOverhead}

Undercut(m) ==
  /\ 2 * Cardinality(Cheap(m)) > Len(m.RTTs)
  /\ \E k \in Cheap(m) : m.RTTs[k] > TcpOverhead

Shortfall == IF HandshakeCost < TcpOverhead THEN TcpOverhead - HandshakeCost ELSE 0

\* What the physics may hold against an honest client, whichever probes are
\* silent and however slow the others: it is in the circle of every report but
\* an undercut one, and from that no further than the least connect falls short
\* of 10 ms; without such a report no test for contradictions fails; and only
\* if they are half of all reports is it told that it is not where it is.
HonestIsBelieved ==
  LET undercut == {i \in DOMAIN measurements : Undercut(measurements[i])}
  IN  /\ \A i \in DOMAIN measurements :
           Dist(home, measurements[i].probe)
             <= Radius(measurements[i]) + IF i \in undercut THEN Shortfall ELSE 0
      /\ undercut = {} =>
           /\ CheckRatios(measurements)
           /\ \A c \in Closest(measurements) : CorrelateProbes(measurements, c)
      /\ home \in Exclusions(Circles(measurements), Place) =>
           undercut # {} /\ 2 * Cardinality(undercut) >= Len(measurements)

\* The pings outlast ECHOMAP_TIMEOUT_MS, which nothing reads, but not a
\* challenge whose TTL covers PingCount timeouts and two messages: such a
\* challenge is never refused as expired, though every probe be silent.
InTime ==
  ttl >= pingCount * DialTimeout + 2 * MaxDelay =>
    pc # "refused" /\ (wire # NoMessage => wire.kind # "expired")

\* What the server converts has one report for each target of the challenge,
\* with all its own pings and at least one: the goroutines fill the list in
\* any order, and none is missing when it is read.
ReportIsComplete ==
  measurements # <<>> =>
    /\ Len(measurements) = Len(Targets)
    /\ \A i \in DOMAIN measurements :
         LET m == measurements[i]
         IN  /\ m.probe = Targets[i]
             /\ Len(m.RTTs) = IF pingCount = 0 THEN 1 ELSE pingCount
             /\ \A k \in DOMAIN m.RTTs :
                  m.RTTs[k] = Marker \/ m.RTTs[k] >= Dist(home, m.probe) + HandshakeCost

\* Every run of the client ends, though no probe answers.
Finishes == <>(pc \in Ended)
=============================================================================
