------------------------------- MODULE Server -------------------------------
(***************************************************************************)
(* internal/grpcserver over internal/challenge and internal/storage, in    *)
(* the life cycle that cmd/echomap/main.go gives them: calls of many       *)
(* handler goroutines, a store whose writes may fail, a graceful stop, and *)
(* a crash at any moment.                                                  *)
(*                                                                         *)
(* What Locate, DetectVPN and CorrelateProbes find in a report is the      *)
(* business of GeoEngine; here a report is its findings.  The rate limiter *)
(* runs before a handler and shares nothing with it: the server behind the *)
(* limiter does some of what this one does.                                *)
(***************************************************************************)
EXTENDS Integers, Sequences, FiniteSets

CONSTANTS
  Client, ChallengeId, Goroutine, TTL, TicksPerSecond, MaxTime,
  NoEntry, NoChallenge, WrongToken,  \* as in ChallengeManager
  Nobody,       \* the empty client ID that GetClientID returns for an unknown challenge
  Report,       \* the measurement lists that clients may submit
  NoRow,        \* no measurements row with this challenge ID
  NoReply,      \* no call was answered with a verdict for this challenge
  MaxFailures,  \* bound of the model: failed writes
  MaxCrashes    \* bound of the model: crashes

VARIABLES
  now, tokens, frame, drawn, handed, accepted,  \* as in ChallengeManager
  rpc,        \* what each goroutine holds of a SubmitMeasurement call
  phase,      \* of the process: up, stopping, closed (after OnStop) or down
  rows,       \* table measurements, by its primary key
  anomalies,  \* table anomalies: how many rows of each type a challenge has
  replied,    \* the status that was returned for a challenge (history)
  lost,       \* the writes that the store failed (history)
  crashes     \* how often the process was killed

managerVars == <<now, tokens, frame, drawn, handed, accepted>>
storeVars == <<rows, anomalies, lost>>
vars == <<managerVars, rpc, phase, storeVars, replied, crashes>>

Manager == INSTANCE ChallengeManager

Verdicts == {"REJECTED", "SUSPICIOUS", "CONFIRMED", "PLAUSIBLE"}
AnomalyType == {"JITTER_ABNORMAL", "VPN_DETECTED", "RATIO_INCONSISTENT"}

\* known: every probe ID is in the table; impossible, jitter, vpn, correlated
\* and confident: what the verdict is made of.
Finding == [known : BOOLEAN, impossible : BOOLEAN, jitter : BOOLEAN, vpn : BOOLEAN,
            correlated : BOOLEAN, confident : BOOLEAN]

MeasurementRecord == [clientID : Client \union {Nobody}, status : Verdicts,
                      suspicious : BOOLEAN]

\* GeoEngine: RatioMeansRejected and CorrelationCovered.
ASSUME ReportAssumption ==
  /\ Report \subseteq Finding
  /\ \A r \in Report : ~r.correlated => r.impossible

ASSUME ManagerAssumption == Manager!ClockAssumption /\ Manager!SentinelAssumption

ASSUME ServerAssumption ==
  /\ Nobody \notin Client /\ MaxFailures \in Nat /\ MaxCrashes \in Nat
  /\ NoRow \notin MeasurementRecord /\ NoReply \notin Verdicts

-----------------------------------------------------------------------------

\* CheckRatios has no part in this: where it fails, Locate finds no region and
\* the verdict is REJECTED.
Status(r) ==
  IF r.impossible THEN "REJECTED"
  ELSE IF r.vpn \/ r.jitter \/ ~r.correlated THEN "SUSPICIOUS"
  ELSE IF r.confident THEN "CONFIRMED"
  ELSE "PLAUSIBLE"

\* The anomalies to log, in the order of the code.
Anomalies(r) ==
  (IF r.jitter THEN <<"JITTER_ABNORMAL">> ELSE <<>>) \o
  (IF r.vpn THEN <<"VPN_DETECTED">> ELSE <<>>) \o
  (IF r.correlated THEN <<>> ELSE <<"RATIO_INCONSISTENT">>)

\* The locals of SubmitMeasurement: before ValidateToken, inside it, before
\* SaveResult, and before the LogAnomaly calls and the return.
Free == [pc |-> "free"]
Validating == [pc : {"validate"}, id : ChallengeId, clientID : Client \union {Nobody},
               token : Manager!Hmac \union {WrongToken}, report : Report]
Working == [pc : {"check", "save"}, id : ChallengeId, clientID : Client \union {Nobody},
            report : Report]
Logging == [pc : {"log"}, id : ChallengeId, clientID : Client \union {Nobody},
            report : Report, todo : Seq(AnomalyType)]
Call == {Free} \union Validating \union Working \union Logging

Busy(g) == rpc[g] # Free \/ frame[g] # Manager!Idle
Alive == phase # "down"

-----------------------------------------------------------------------------
(* Faults the code does not have, each of which breaks a property below. *)

\* GetClientID is called after ValidateToken has taken the entry away.
Identify_Late(g, id, token, report) ==
  [pc |-> "validate", id |-> id, clientID |-> Nobody, token |-> token, report |-> report]

\* After an unknown probe the challenge goes back into the map.
CheckToken_PutsBack(g) ==
  /\ Alive /\ rpc[g].pc = "check"
  /\ rpc' = [rpc EXCEPT ![g] = Free]
  /\ tokens' = IF rpc[g].report.known THEN tokens
               ELSE [tokens EXCEPT ![rpc[g].id] = frame[g].entry]
  /\ frame' = [frame EXCEPT ![g] = Manager!Idle]
  /\ accepted' = [accepted EXCEPT ![rpc[g].id] = @ + 1]
  /\ UNCHANGED <<now, drawn, handed, phase, storeVars, replied, crashes>>

\* The flag of the row forgets the VPN.
Suspicious_NoVPN(r) == r.jitter \/ ~r.correlated

\* OnStop closes the store without waiting for the handlers.
Close_Early ==
  /\ phase = "stopping"
  /\ phase' = "closed"
  /\ UNCHANGED <<managerVars, rpc, storeVars, replied, crashes>>

\* The server goes on accepting calls while it stops.
Accepting_Always == phase \in {"up", "stopping"}

\* A handler waits for an unknown challenge instead of refusing the call.
Unknown_Waits(g) == UNCHANGED <<rpc, managerVars>>

-----------------------------------------------------------------------------

\* The flag of the row leaves out PhysicallyImpossible.
Suspicious(r) == r.vpn \/ r.jitter \/ ~r.correlated

Init ==
  /\ Manager!Init
  /\ rpc = [g \in Goroutine |-> Free]
  /\ phase = "up"
  /\ rows = [id \in ChallengeId |-> NoRow]
  /\ anomalies = [id \in ChallengeId |-> [t \in AnomalyType |-> 0]]
  /\ replied = [id \in ChallengeId |-> NoReply]
  /\ lost = {}
  /\ crashes = 0

Tick ==
  /\ Manager!Tick
  /\ UNCHANGED <<rpc, phase, storeVars, replied, crashes>>

\* Stop is the moment from which GracefulStop lets no call in; until then, the
\* connections that are still open bring calls as before.
Accepting == phase = "up"

\* FetchChallenge is GenerateToken and the choice of probes.
FetchChallenge(g) ==
  /\ Accepting /\ rpc[g] = Free
  /\ Manager!Generate(g)
  /\ UNCHANGED <<rpc, phase, storeVars, replied, crashes>>

IssueChallenge(g) ==
  /\ Alive
  /\ Manager!StoreToken(g)
  /\ UNCHANGED <<rpc, phase, storeVars, replied, crashes>>

\* SubmitMeasurement starts with GetClientID, under the mutex for itself.
Identify(g, id, token, report) ==
  [pc |-> "validate", id |-> id, clientID |-> Manager!GetClientID(id, Nobody),
   token |-> token, report |-> report]

SubmitMeasurement(g) ==
  /\ Accepting /\ ~Busy(g)
  /\ \E id \in ChallengeId, token \in Manager!Presentable, report \in Report :
       rpc' = [rpc EXCEPT ![g] = Identify(g, id, token, report)]
  /\ UNCHANGED <<managerVars, phase, storeVars, replied, crashes>>

\* ValidateToken: an unknown ID ends the call with Unauthenticated ...
Unknown(g) ==
  /\ rpc' = [rpc EXCEPT ![g] = Free]
  /\ UNCHANGED managerVars

TurnAway(g) ==
  /\ Alive /\ rpc[g].pc = "validate"
  /\ tokens[rpc[g].id] = NoEntry
  /\ Unknown(g)
  /\ UNCHANGED <<phase, storeVars, replied, crashes>>

\* ... a known one is taken out of the map ...
ValidateToken(g) ==
  /\ Alive /\ rpc[g].pc = "validate"
  /\ Manager!ConsumeEntry(g, rpc[g].id, rpc[g].token)
  /\ rpc' = [rpc EXCEPT ![g] = [pc |-> "check", id |-> @.id, clientID |-> @.clientID,
                                report |-> @.report]]
  /\ UNCHANGED <<phase, storeVars, replied, crashes>>

\* ... and checked.  The conversion of the reports follows, and an unknown
\* probe ends the call with InvalidArgument, when the challenge is gone already.
CheckToken(g) ==
  /\ Alive /\ rpc[g].pc = "check"
  /\ rpc' = [rpc EXCEPT ![g] =
               IF Manager!Verdict(frame[g]) = "ok" /\ @.report.known
               THEN [@ EXCEPT !.pc = "save"] ELSE Free]
  /\ Manager!CheckEntry(g)
  /\ UNCHANGED <<phase, storeVars, replied, crashes>>

\* A write may fail: the database is closed, busy or full, or the caller has
\* hung up and its context is cancelled.  The error is dropped.
Fail(w) ==
  /\ phase = "closed" \/ Cardinality(lost) < MaxFailures
  /\ lost' = IF phase = "closed" THEN lost ELSE lost \union {w}
  /\ UNCHANGED <<rows, anomalies>>

\* INSERT INTO measurements fails when the primary key is taken, which drops
\* the new row.
Insert(id, row) ==
  /\ phase # "closed"
  /\ rows' = IF rows[id] = NoRow THEN [rows EXCEPT ![id] = row] ELSE rows
  /\ UNCHANGED <<anomalies, lost>>

SaveResult(g) ==
  /\ Alive /\ rpc[g].pc = "save"
  /\ LET c == rpc[g]
     IN  /\ \/ Insert(c.id, [clientID |-> c.clientID, status |-> Status(c.report),
                             suspicious |-> Suspicious(c.report)])
            \/ Fail(<<c.id, "row">>)
         /\ rpc' = [rpc EXCEPT ![g] = [pc |-> "log", id |-> c.id, clientID |-> c.clientID,
                                       report |-> c.report, todo |-> Anomalies(c.report)]]
  /\ UNCHANGED <<managerVars, phase, replied, crashes>>

LogAnomaly(g) ==
  /\ Alive /\ rpc[g].pc = "log" /\ rpc[g].todo # <<>>
  /\ LET type == Head(rpc[g].todo)
     IN  \/ /\ phase # "closed"
            /\ anomalies' = [anomalies EXCEPT ![rpc[g].id][type] = @ + 1]
            /\ UNCHANGED <<rows, lost>>
         \/ Fail(<<rpc[g].id, type>>)
  /\ rpc' = [rpc EXCEPT ![g].todo = Tail(@)]
  /\ UNCHANGED <<managerVars, phase, replied, crashes>>

\* The handler returns the verdict, whatever became of the writes.
Reply(g) ==
  /\ Alive /\ rpc[g].pc = "log" /\ rpc[g].todo = <<>>
  /\ replied' = [replied EXCEPT ![rpc[g].id] = Status(rpc[g].report)]
  /\ rpc' = [rpc EXCEPT ![g] = Free]
  /\ UNCHANGED <<managerVars, phase, storeVars, crashes>>

\* OnStop: GracefulStop waits for the handlers, then the store is closed.
Stop ==
  /\ phase = "up"
  /\ phase' = "stopping"
  /\ UNCHANGED <<managerVars, rpc, storeVars, replied, crashes>>

Close ==
  /\ phase = "stopping"
  /\ \A g \in Goroutine : ~Busy(g)
  /\ phase' = "closed"
  /\ UNCHANGED <<managerVars, rpc, storeVars, replied, crashes>>

\* What the process held is gone; the tables are on disk.
LoseMemory ==
  /\ Manager!Restart
  /\ rpc' = [g \in Goroutine |-> Free]
  /\ phase' = "down"
  /\ UNCHANGED <<storeVars, replied>>

Exit == phase = "closed" /\ LoseMemory /\ UNCHANGED crashes

Crash ==
  /\ Alive /\ crashes < MaxCrashes
  /\ crashes' = crashes + 1
  /\ LoseMemory

\* main: CREATE TABLE IF NOT EXISTS leaves the tables as they are.
Boot ==
  /\ phase = "down"
  /\ phase' = "up"
  /\ UNCHANGED <<managerVars, rpc, storeVars, replied, crashes>>

\* The goroutine of a call, from its arrival to its return.
Serve(g) ==
  \/ IssueChallenge(g) \/ TurnAway(g) \/ ValidateToken(g) \/ CheckToken(g)
  \/ SaveResult(g) \/ LogAnomaly(g) \/ Reply(g)

Next ==
  \/ \E g \in Goroutine : FetchChallenge(g) \/ SubmitMeasurement(g) \/ Serve(g)
  \/ Tick \/ Stop \/ Close \/ Exit \/ Crash \/ Boot

Spec == Init /\ [][Next]_vars

\* Go runs every goroutine that can run, the mutex is held for a map operation
\* only and a write to SQLite returns, with an error if need be; nothing makes
\* clients call, the clock pass or the process stop.
FairSpec ==
  Spec /\ WF_vars(Close) /\ \A g \in Goroutine : WF_vars(Serve(g))

-----------------------------------------------------------------------------

\* Every variable stays in the shape the handlers and the tables give it.
TypeOK ==
  /\ Manager!TypeOK
  /\ rpc \in [Goroutine -> Call]
  /\ phase \in {"up", "stopping", "closed", "down"}
  /\ rows \in [ChallengeId -> MeasurementRecord \union {NoRow}]
  /\ anomalies \in [ChallengeId -> [AnomalyType -> Nat]]
  /\ replied \in [ChallengeId -> Verdicts \union {NoReply}]
  /\ lost \subseteq ChallengeId \X (AnomalyType \union {"row"})
  /\ crashes \in 0..MaxCrashes

\* A row exists only for a challenge that was accepted, and names the client
\* to whom it was issued: GetClientID and ValidateToken are two turns at the
\* mutex (server.go:73-74), and what lies between them changes nothing.
RowsAreEarned ==
  \A id \in ChallengeId : rows[id] # NoRow =>
    /\ accepted[id] = 1
    /\ rows[id].clientID = handed[id].Token.clientID

\* The primary key of SaveResult (storage.go:65) is free whenever a handler
\* comes to it, however often and from wherever a challenge is submitted, and
\* no two handlers work for one challenge.
KeyIsFree ==
  \A g \in Goroutine :
    /\ rpc[g].pc = "save" =>
         /\ rows[rpc[g].id] = NoRow /\ replied[rpc[g].id] = NoReply
         /\ \A t \in AnomalyType : anomalies[rpc[g].id][t] = 0
    /\ \A h \in Goroutine \ {g} :
         {rpc[g].pc, rpc[h].pc} \subseteq {"save", "log"} => rpc[g].id # rpc[h].id

\* An anomaly is logged at most once for a challenge, and never beside a row
\* that is not marked suspicious.
AnomaliesMatchRow ==
  \A id \in ChallengeId, t \in AnomalyType :
    /\ anomalies[id][t] <= 1
    /\ anomalies[id][t] = 1 /\ rows[id] # NoRow => rows[id].suspicious

\* Where a client was told a verdict, the row with that verdict is in the
\* store, and with a SUSPICIOUS one an anomaly (integration_test.go:150),
\* unless the store itself refused the write: neither the stop of the server
\* nor a crash after the reply comes in between.
AnsweredIsRecorded ==
  \A id \in ChallengeId : replied[id] # NoReply =>
    /\ \/ rows[id] # NoRow /\ rows[id].status = replied[id]
       \/ <<id, "row">> \in lost
    /\ replied[id] = "SUSPICIOUS" =>
         \E t \in AnomalyType : anomalies[id][t] = 1 \/ <<id, t>> \in lost

\* The handlers use the manager as ChallengeManager says it is used, so what
\* is proved of it holds in the server.
UsesManager == Manager!Spec

\* SIGTERM is followed by the close of the store, unless the process dies.
Drains == phase = "stopping" ~> phase # "stopping"

\* Every call comes to an end, whatever the other handlers and the store do.
CallsReturn == \A g \in Goroutine : Busy(g) ~> ~Busy(g)
=============================================================================
