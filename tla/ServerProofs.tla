---------------------------- MODULE ServerProofs ----------------------------
(***************************************************************************)
(* Theorems about Server for every set of clients, challenges, goroutines  *)
(* and reports, and every number of failed writes and crashes: calls and   *)
(* challenges first, then what is in the store when a call is answered.    *)
(***************************************************************************)
EXTENDS Server, TLAPS

Lemmas == INSTANCE ChallengeManagerProofs

\* The inductive invariant of the manager, where the server uses it.
ManagerInv == Manager!TypeOK /\ Manager!OnePlace /\ Manager!SingleUse

\* What is proved of ChallengeManager is proved of its instance here: the
\* definitions are the same.
LEMMA SameInvariant == Lemmas!IInv <=> ManagerInv
BY Zenon DEF Lemmas!IInv, ManagerInv,
     Manager!Hmac, Lemmas!Hmac, Manager!TokenEntry, Lemmas!TokenEntry,
     Manager!ChallengeToken, Lemmas!ChallengeToken, Manager!Idle, Lemmas!Idle,
     Manager!StoreFrame, Lemmas!StoreFrame, Manager!CheckFrame, Lemmas!CheckFrame,
     Manager!Frame, Lemmas!Frame, Manager!hmacOf, Lemmas!hmacOf,
     Manager!UnixSeconds, Lemmas!UnixSeconds, Manager!TypeOK, Lemmas!TypeOK,
     Manager!OnePlace, Lemmas!OnePlace, Manager!SingleUse, Lemmas!SingleUse,
     Manager!HandedBound, Lemmas!HandedBound, Manager!MapBound, Lemmas!MapBound,
     Manager!FrameBound, Lemmas!FrameBound, Manager!Alone, Lemmas!Alone,
     Manager!BoundTo, Lemmas!BoundTo, Manager!StoreBound, Lemmas!StoreBound,
     Manager!CheckBound, Lemmas!CheckBound

\* So are the assumptions on the constants.
LEMMA SameAssumptions == Lemmas!ClockAssumption /\ Lemmas!SentinelAssumption
BY ManagerAssumption DEF Manager!ClockAssumption, Lemmas!ClockAssumption,
     Manager!SentinelAssumption, Lemmas!SentinelAssumption, Manager!TokenEntry,
     Lemmas!TokenEntry, Manager!ChallengeToken, Lemmas!ChallengeToken, Manager!Hmac,
     Lemmas!Hmac

\* The process starts in the invariant ...
LEMMA ManagerInitInv == Manager!Init => ManagerInv
<1>1. Lemmas!ClockAssumption /\ Lemmas!SentinelAssumption
  BY SameAssumptions
<1>2. Lemmas!Init <=> Manager!Init
  BY Zenon DEF Manager!Init, Lemmas!Init, Manager!Idle, Lemmas!Idle
<1>3. QED
  BY <1>1, <1>2, SameInvariant, Lemmas!InitIInv

\* The steps are the same, too.
LEMMA SameNext == Lemmas!Next <=> Manager!Next
BY Zenon DEF
     Manager!Hmac, Lemmas!Hmac, Manager!TokenEntry, Lemmas!TokenEntry,
     Manager!ChallengeToken, Lemmas!ChallengeToken, Manager!Idle, Lemmas!Idle,
     Manager!StoreFrame, Lemmas!StoreFrame, Manager!CheckFrame, Lemmas!CheckFrame,
     Manager!Frame, Lemmas!Frame, Manager!hmacOf, Lemmas!hmacOf,
     Manager!UnixSeconds, Lemmas!UnixSeconds, Manager!Next, Lemmas!Next,
     Manager!Tick, Lemmas!Tick, Manager!Generate, Lemmas!Generate,
     Manager!DrawChallenge, Lemmas!DrawChallenge, Manager!StoreToken,
     Lemmas!StoreToken, Manager!Consume, Lemmas!Consume, Manager!ConsumeEntry,
     Lemmas!ConsumeEntry, Manager!CheckEntry, Lemmas!CheckEntry, Manager!Verdict,
     Lemmas!Verdict, Manager!Presentable, Lemmas!Presentable, Manager!Restart,
     Lemmas!Restart

\* ... and no step of the manager leaves it.
LEMMA ManagerNextInv ==
  ASSUME ManagerInv, [Manager!Next]_managerVars
  PROVE  ManagerInv'
<1>1. Lemmas!ClockAssumption /\ Lemmas!SentinelAssumption
  BY SameAssumptions
<1>2. Lemmas!Next <=> Manager!Next
  BY SameNext
<1>3. [Lemmas!Next]_(Lemmas!vars)
  BY <1>2, Zenon DEF Lemmas!vars, managerVars
<1>4. Lemmas!IInv'
  BY <1>1, <1>3, SameInvariant, Lemmas!NextIInv
<1>5. Lemmas!IInv' <=> ManagerInv'
  BY Zenon DEF Lemmas!IInv, ManagerInv,
       Manager!Hmac, Lemmas!Hmac, Manager!TokenEntry, Lemmas!TokenEntry,
       Manager!ChallengeToken, Lemmas!ChallengeToken, Manager!Idle, Lemmas!Idle,
       Manager!StoreFrame, Lemmas!StoreFrame, Manager!CheckFrame, Lemmas!CheckFrame,
       Manager!Frame, Lemmas!Frame, Manager!hmacOf, Lemmas!hmacOf,
       Manager!UnixSeconds, Lemmas!UnixSeconds, Manager!TypeOK, Lemmas!TypeOK,
       Manager!OnePlace, Lemmas!OnePlace, Manager!SingleUse, Lemmas!SingleUse,
       Manager!HandedBound, Lemmas!HandedBound, Manager!MapBound, Lemmas!MapBound,
       Manager!FrameBound, Lemmas!FrameBound, Manager!Alone, Lemmas!Alone,
       Manager!BoundTo, Lemmas!BoundTo, Manager!StoreBound, Lemmas!StoreBound,
       Manager!CheckBound, Lemmas!CheckBound
<1>6. QED
  BY <1>4, <1>5

-----------------------------------------------------------------------------

\* Where a handler stands in SubmitMeasurement is where it stands in the manager.
Coherent ==
  \A g \in Goroutine :
    /\ rpc[g].pc = "free" => frame[g].pc # "check"
    /\ rpc[g].pc \in {"validate", "save", "log"} => frame[g] = Manager!Idle
    /\ rpc[g].pc = "check" => frame[g].pc = "check" /\ frame[g].id = rpc[g].id

\* A token that is presented was handed out, or nobody's; and it names its challenge.
Presented ==
  /\ \A g \in Goroutine : rpc[g].pc = "validate" => rpc[g].token \in Manager!Presentable
  /\ \A id \in ChallengeId : handed[id] # NoChallenge => handed[id].Token.id = id

\* The client that GetClientID found is the one of the challenge, if the token
\* is that of the challenge: where GetClientID came too early to find one, the
\* token is of another challenge.
Claimed(g) ==
  LET c == rpc[g]
  IN  /\ c.pc = "validate" /\ tokens[c.id] # NoEntry /\ c.token = tokens[c.id].token =>
           c.clientID = tokens[c.id].clientID
      /\ c.pc = "check" /\ frame[g].presented = frame[g].entry.token =>
           c.clientID = frame[g].entry.clientID
      /\ c.pc \in {"save", "log"} =>
           accepted[c.id] = 1 /\ c.clientID = handed[c.id].Token.clientID

Claims == \A g \in Goroutine : Claimed(g)

\* Nothing is stored or answered for a challenge that was not accepted.
Blank(id) ==
  /\ rows[id] = NoRow /\ replied[id] = NoReply
  /\ \A t \in AnomalyType : anomalies[id][t] = 0

Earned == \A id \in ChallengeId : Blank(id) \/ accepted[id] = 1

IInv ==
  /\ ManagerInv /\ TypeOK /\ Coherent /\ Presented /\ Claims
  /\ Earned /\ RowsAreEarned /\ KeyIsFree

-----------------------------------------------------------------------------

\* A call is one of the four kinds, told apart by where it stands.
LEMMA CallCases ==
  ASSUME NEW c \in Call
  PROVE  \/ c = Free /\ c.pc = "free"
         \/ c \in Validating /\ c.pc = "validate"
         \/ c \in Working /\ c.pc \in {"check", "save"}
         \/ c \in Logging /\ c.pc = "log"
BY DEF Call, Free, Validating, Working, Logging

\* At the start of the process nothing is stored and no call is under way.
LEMMA InitIInv == Init => IInv
<1> SUFFICES ASSUME Init PROVE IInv
  OBVIOUS
<1>1. ManagerInv /\ Manager!TypeOK
  BY ManagerInitInv DEF Init, ManagerInv
<1>2. \A g \in Goroutine : rpc[g] = Free /\ rpc[g].pc = "free" /\ frame[g] = Manager!Idle
                           /\ frame[g].pc = "idle"
  BY DEF Init, Free, Manager!Init, Manager!Idle
<1>3. TypeOK
  BY <1>1, ServerAssumption DEF Init, TypeOK, Call
<1>4. Coherent
  BY <1>2 DEF Coherent
<1>5. Presented /\ Claims /\ KeyIsFree
  BY <1>2 DEF Presented, Claims, Claimed, KeyIsFree, Init, Manager!Init
<1>6. Earned /\ RowsAreEarned
  BY DEF Earned, Blank, RowsAreEarned, Init
<1>7. QED
  BY <1>1, <1>3, <1>4, <1>5, <1>6 DEF IInv

\* Every step of the server is one of the manager, or leaves the manager alone.
LEMMA ManagerStep ==
  ASSUME TypeOK, Presented, [Next]_vars
  PROVE  [Manager!Next]_managerVars
<1>1. ASSUME NEW g \in Goroutine, FetchChallenge(g) PROVE Manager!Next
  BY <1>1 DEF FetchChallenge, Manager!Next
<1>2. ASSUME NEW g \in Goroutine, IssueChallenge(g) PROVE Manager!Next
  BY <1>2 DEF IssueChallenge, Manager!Next
<1>3. ASSUME NEW g \in Goroutine, ValidateToken(g) PROVE Manager!Next
  <2>1. rpc[g] \in Validating
    BY <1>3, CallCases DEF TypeOK, ValidateToken
  <2>2. rpc[g].id \in ChallengeId /\ rpc[g].token \in Manager!Presentable
    BY <1>3, <2>1 DEF Validating, Presented, ValidateToken
  <2>3. QED
    BY <1>3, <2>2 DEF ValidateToken, Manager!Next, Manager!Consume
<1>4. ASSUME NEW g \in Goroutine, CheckToken(g) PROVE Manager!Next
  BY <1>4 DEF CheckToken, Manager!Next
<1>5. CASE Tick
  BY <1>5 DEF Tick, Manager!Next
<1>6. CASE Exit \/ Crash
  BY <1>6 DEF Exit, Crash, LoseMemory, Manager!Next
<1>7. ASSUME NEW g \in Goroutine,
             SubmitMeasurement(g) \/ TurnAway(g) \/ SaveResult(g) \/ LogAnomaly(g) \/ Reply(g)
      PROVE  UNCHANGED managerVars
  BY <1>7 DEF SubmitMeasurement, TurnAway, Unknown, SaveResult, LogAnomaly, Reply
<1>8. CASE Stop \/ Close \/ Boot \/ UNCHANGED vars
  BY <1>8 DEF Stop, Close, Boot, vars
<1>9. QED
  BY <1>1, <1>2, <1>3, <1>4, <1>5, <1>6, <1>7, <1>8 DEF Next, Serve

-----------------------------------------------------------------------------
(* Types. *)

\* What a handler may hold next.
LEMMA CallTypes ==
  ASSUME NEW id \in ChallengeId, NEW c \in Client \union {Nobody}, NEW r \in Report
  PROVE  /\ \A t \in Manager!Hmac \union {WrongToken} :
              [pc |-> "validate", id |-> id, clientID |-> c, token |-> t, report |-> r] \in Call
         /\ \A pc \in {"check", "save"} :
              [pc |-> pc, id |-> id, clientID |-> c, report |-> r] \in Call
         /\ \A todo \in Seq(AnomalyType) :
              [pc |-> "log", id |-> id, clientID |-> c, report |-> r, todo |-> todo] \in Call
         /\ Free \in Call
BY DEF Call, Validating, Working, Logging

\* The anomalies that are due are of the three types.
LEMMA AnomaliesType == \A r : Anomalies(r) \in Seq(AnomalyType)
<1> TAKE r
<1>1. "JITTER_ABNORMAL" \in AnomalyType /\ "VPN_DETECTED" \in AnomalyType
      /\ "RATIO_INCONSISTENT" \in AnomalyType
  BY DEF AnomalyType
<1> DEFINE a == IF r.jitter THEN <<"JITTER_ABNORMAL">> ELSE <<>>
           b == IF r.vpn THEN <<"VPN_DETECTED">> ELSE <<>>
           c == IF r.correlated THEN <<>> ELSE <<"RATIO_INCONSISTENT">>
<1>2. a \in Seq(AnomalyType) /\ b \in Seq(AnomalyType) /\ c \in Seq(AnomalyType)
  BY <1>1
<1>3. (a \o b) \o c \in Seq(AnomalyType)
  <2> HIDE DEF a, b, c
  <2> QED
    BY <1>2
<1>4. QED
  BY <1>3 DEF Anomalies

\* What the handler writes has the types of the table.
LEMMA RowType ==
  ASSUME NEW c \in Client \union {Nobody}, NEW r \in Report
  PROVE  [clientID |-> c, status |-> Status(r), suspicious |-> Suspicious(r)] \in MeasurementRecord
<1>1. Status(r) \in Verdicts
  BY DEF Status, Verdicts
<1>2. Suspicious(r) \in BOOLEAN
  BY ReportAssumption DEF Suspicious, Finding
<1>3. QED
  BY <1>1, <1>2 DEF MeasurementRecord

\* What the manager leaves in shape, the handlers and the store do too.
LEMMA NextTypeOK ==
  ASSUME TypeOK, ManagerInv', [Next]_vars
  PROVE  TypeOK'
<1> USE DEF TypeOK
<1>0. Manager!TypeOK'
  BY DEF ManagerInv
<1>1. ASSUME NEW g \in Goroutine, FetchChallenge(g) \/ IssueChallenge(g) PROVE TypeOK'
  BY <1>0, <1>1 DEF FetchChallenge, IssueChallenge, storeVars
<1>2. ASSUME NEW g \in Goroutine, SubmitMeasurement(g) PROVE TypeOK'
  <2>1. PICK id \in ChallengeId, token \in Manager!Presentable, report \in Report :
          rpc' = [rpc EXCEPT ![g] = Identify(g, id, token, report)]
    BY <1>2 DEF SubmitMeasurement
  <2>2. token \in Manager!Hmac \union {WrongToken}
    BY DEF Manager!Presentable, Manager!TypeOK, Manager!ChallengeToken
  <2>3. Manager!GetClientID(id, Nobody) \in Client \union {Nobody}
    BY DEF Manager!GetClientID, Manager!TypeOK, Manager!TokenEntry
  <2>4. Identify(g, id, token, report) \in Call
    BY <2>2, <2>3, CallTypes DEF Identify
  <2>5. QED
    BY <1>0, <1>2, <2>1, <2>4 DEF SubmitMeasurement, storeVars
<1>3. ASSUME NEW g \in Goroutine, TurnAway(g) PROVE TypeOK'
  BY <1>0, <1>3, CallTypes DEF TurnAway, Unknown, storeVars, Call
<1>4. ASSUME NEW g \in Goroutine, ValidateToken(g) PROVE TypeOK'
  <2>1. rpc[g] \in Validating
    BY <1>4, CallCases DEF ValidateToken
  <2>2. [pc |-> "check", id |-> rpc[g].id, clientID |-> rpc[g].clientID,
         report |-> rpc[g].report] \in Call
    BY <2>1, CallTypes DEF Validating
  <2>3. QED
    BY <1>0, <1>4, <2>2 DEF ValidateToken, storeVars
<1>5. ASSUME NEW g \in Goroutine, CheckToken(g) PROVE TypeOK'
  <2>1. rpc[g] \in Working
    BY <1>5, CallCases DEF CheckToken
  <2>2. [rpc[g] EXCEPT !.pc = "save"] \in Call /\ Free \in Call
    BY <2>1 DEF Call, Working
  <2>3. QED
    BY <1>0, <1>5, <2>2 DEF CheckToken, storeVars
<1>6. ASSUME NEW g \in Goroutine, SaveResult(g) PROVE TypeOK'
  <2>1. rpc[g] \in Working
    BY <1>6, CallCases DEF SaveResult
  <2>2. /\ rpc[g].id \in ChallengeId /\ rpc[g].clientID \in Client \union {Nobody}
        /\ rpc[g].report \in Report
    BY <2>1 DEF Working
  <2>3. [pc |-> "log", id |-> rpc[g].id, clientID |-> rpc[g].clientID, report |-> rpc[g].report,
         todo |-> Anomalies(rpc[g].report)] \in Call
    BY <2>2, AnomaliesType, CallTypes
  <2>4. rpc' \in [Goroutine -> Call] /\ UNCHANGED <<managerVars, phase, replied, crashes>>
    BY <1>6, <2>3 DEF SaveResult
  <2>5. rows' \in [ChallengeId -> MeasurementRecord \union {NoRow}] /\ anomalies' = anomalies
    BY <1>6, <2>2, RowType DEF SaveResult, Insert, Fail
  <2>6. lost' \subseteq ChallengeId \X (AnomalyType \union {"row"})
    BY <1>6, <2>2 DEF SaveResult, Insert, Fail
  <2>7. QED
    BY <1>0, <2>4, <2>5, <2>6
<1>7. ASSUME NEW g \in Goroutine, LogAnomaly(g) PROVE TypeOK'
  <2>1. rpc[g] \in Logging
    BY <1>7, CallCases DEF LogAnomaly
  <2>2. rpc[g].id \in ChallengeId /\ rpc[g].todo \in Seq(AnomalyType) /\ rpc[g].todo # <<>>
    BY <1>7, <2>1 DEF Logging, LogAnomaly
  <2>3. Head(rpc[g].todo) \in AnomalyType /\ Tail(rpc[g].todo) \in Seq(AnomalyType)
    BY <2>2
  <2>4. [rpc[g] EXCEPT !.todo = Tail(rpc[g].todo)] \in Call
    BY <2>1, <2>3 DEF Call, Logging
  <2>5. rpc' = [rpc EXCEPT ![g] = [rpc[g] EXCEPT !.todo = Tail(rpc[g].todo)]]
    BY <1>7 DEF LogAnomaly
  <2>6. rows' = rows /\ UNCHANGED <<managerVars, phase, replied, crashes>>
    BY <1>7 DEF LogAnomaly, Fail
  <2>7. anomalies' \in [ChallengeId -> [AnomalyType -> Nat]]
    <3> DEFINE id == rpc[g].id
               type == Head(rpc[g].todo)
    <3>1. anomalies[id] \in [AnomalyType -> Nat] /\ anomalies[id][type] + 1 \in Nat
      BY <2>2, <2>3
    <3>2. [anomalies[id] EXCEPT ![type] = anomalies[id][type] + 1] \in [AnomalyType -> Nat]
      BY <3>1
    <3>3. \/ anomalies' = anomalies
          \/ anomalies' = [anomalies EXCEPT ![id] =
                             [anomalies[id] EXCEPT ![type] = anomalies[id][type] + 1]]
      BY <1>7 DEF LogAnomaly, Fail
    <3>4. QED
      BY <2>2, <3>2, <3>3
  <2>8. lost' \subseteq ChallengeId \X (AnomalyType \union {"row"})
    BY <1>7, <2>2, <2>3 DEF LogAnomaly, Fail
  <2>9. QED
    BY <1>0, <2>4, <2>5, <2>6, <2>7, <2>8
<1>8. ASSUME NEW g \in Goroutine, Reply(g) PROVE TypeOK'
  <2>1. rpc[g] \in Logging
    BY <1>8, CallCases DEF Reply
  <2>2. rpc[g].id \in ChallengeId /\ Status(rpc[g].report) \in Verdicts
    BY <2>1 DEF Logging, Status, Verdicts
  <2>3. QED
    BY <1>0, <1>8, <2>2, CallTypes DEF Reply, storeVars, Call
<1>9. CASE Tick \/ Stop \/ Close \/ Boot \/ UNCHANGED vars
  BY <1>0, <1>9 DEF Tick, Stop, Close, Boot, vars, storeVars
<1>10. CASE Exit \/ Crash
  BY <1>0, <1>10, ServerAssumption DEF Exit, Crash, LoseMemory, storeVars, Call
<1>11. QED
  BY <1>1, <1>2, <1>3, <1>4, <1>5, <1>6, <1>7, <1>8, <1>9, <1>10 DEF Next, Serve

-----------------------------------------------------------------------------
(* Where the calls stand. *)

\* One step moves one call at most, or ends them all.
Others(g) == \A h \in Goroutine \ {g} : rpc'[h] = rpc[h] /\ frame'[h] = frame[h]

AllLost == \A g \in Goroutine : rpc'[g] = Free /\ frame'[g] = Manager!Idle

Moves(g) ==
  \/ FetchChallenge(g) \/ IssueChallenge(g) \/ SubmitMeasurement(g) \/ TurnAway(g)
  \/ ValidateToken(g) \/ CheckToken(g) \/ SaveResult(g) \/ LogAnomaly(g) \/ Reply(g)

\* The step of a call is its own.
LEMMA OneCall ==
  ASSUME TypeOK, NEW g \in Goroutine, Moves(g)
  PROVE  Others(g)
<1> USE DEF Others
<1>1. rpc \in [Goroutine -> Call] /\ frame \in [Goroutine -> Manager!Frame]
  BY DEF TypeOK, Manager!TypeOK
<1>2. CASE FetchChallenge(g)
  BY <1>1, <1>2 DEF FetchChallenge, Manager!Generate, Manager!DrawChallenge
<1>3. CASE IssueChallenge(g)
  BY <1>1, <1>3 DEF IssueChallenge, Manager!StoreToken
<1>4. CASE SubmitMeasurement(g)
  BY <1>1, <1>4 DEF SubmitMeasurement, managerVars
<1>5. CASE TurnAway(g)
  BY <1>1, <1>5 DEF TurnAway, Unknown, managerVars
<1>6. CASE ValidateToken(g)
  BY <1>1, <1>6 DEF ValidateToken, Manager!ConsumeEntry
<1>7. CASE CheckToken(g)
  BY <1>1, <1>7 DEF CheckToken, Manager!CheckEntry
<1>8. CASE SaveResult(g)
  BY <1>1, <1>8 DEF SaveResult, managerVars
<1>9. CASE LogAnomaly(g)
  BY <1>1, <1>9 DEF LogAnomaly, managerVars
<1>10. CASE Reply(g)
  BY <1>1, <1>10 DEF Reply, managerVars
<1>11. QED
  BY <1>2, <1>3, <1>4, <1>5, <1>6, <1>7, <1>8, <1>9, <1>10 DEF Moves

\* What a step is, for the calls.
LEMMA StepCases ==
  ASSUME [Next]_vars
  PROVE  \/ \E g \in Goroutine : Moves(g)
         \/ AllLost /\ (Exit \/ Crash)
         \/ UNCHANGED <<rpc, frame>> /\ (Tick \/ Stop \/ Close \/ Boot \/ UNCHANGED vars)
<1>1. CASE Exit \/ Crash
  BY <1>1 DEF Exit, Crash, LoseMemory, Manager!Restart, AllLost
<1>2. CASE Tick \/ Stop \/ Close \/ Boot \/ UNCHANGED vars
  BY <1>2 DEF Tick, Stop, Close, Boot, vars, managerVars, Manager!Tick
<1>3. QED
  BY <1>1, <1>2 DEF Next, Serve, Moves

\* The call and the frame of the manager advance together.
LEMMA CoherentStep ==
  ASSUME TypeOK, Coherent, [Next]_vars
  PROVE  Coherent'
<1> USE DEF Coherent
<1>1. ASSUME NEW g \in Goroutine, Moves(g) PROVE Coherent'
  <2> DEFINE P(r, f) == /\ r.pc = "free" => f.pc # "check"
                        /\ r.pc \in {"validate", "save", "log"} => f = Manager!Idle
                        /\ r.pc = "check" => f.pc = "check" /\ f.id = r.id
  <2>0. /\ rpc \in [Goroutine -> Call] /\ frame \in [Goroutine -> Manager!Frame]
        /\ Manager!Idle.pc = "idle" /\ Free.pc = "free" /\ P(rpc[g], frame[g])
    BY DEF TypeOK, Manager!TypeOK, Manager!Idle, Free
  <2>1. CASE FetchChallenge(g)
    <3>1. rpc'[g] = Free
      BY <2>1 DEF FetchChallenge
    <3>2. frame'[g].pc = "store"
      BY <2>0, <2>1 DEF FetchChallenge, Manager!Generate, Manager!DrawChallenge
    <3>3. P(rpc'[g], frame'[g])
      BY <2>0, <3>1, <3>2
    <3>4. QED
      BY <3>3, <1>1, OneCall DEF Others
  <2>2. CASE IssueChallenge(g)
    <3>1. rpc'[g] = rpc[g] /\ frame[g].pc = "store" /\ frame'[g] = Manager!Idle
      BY <2>0, <2>2 DEF IssueChallenge, Manager!StoreToken
    <3>2. P(rpc'[g], frame'[g])
      BY <2>0, <3>1
    <3>3. QED
      BY <3>2, <1>1, OneCall DEF Others
  <2>3. CASE SubmitMeasurement(g)
    <3>1. rpc'[g].pc = "validate" /\ frame'[g] = Manager!Idle
      BY <2>0, <2>3 DEF SubmitMeasurement, Identify, Busy, managerVars
    <3>2. P(rpc'[g], frame'[g])
      BY <3>1
    <3>3. QED
      BY <3>2, <1>1, OneCall DEF Others
  <2>4. CASE TurnAway(g)
    <3>1. rpc[g].pc = "validate" /\ rpc'[g] = Free /\ frame' = frame
      BY <2>0, <2>4 DEF TurnAway, Unknown, managerVars
    <3>2. P(rpc'[g], frame'[g])
      BY <2>0, <3>1
    <3>3. QED
      BY <3>2, <1>1, OneCall DEF Others
  <2>5. CASE ValidateToken(g)
    <3>1. rpc'[g].pc = "check" /\ frame'[g].pc = "check" /\ frame'[g].id = rpc'[g].id
      BY <2>0, <2>5 DEF ValidateToken, Manager!ConsumeEntry
    <3>2. P(rpc'[g], frame'[g])
      BY <3>1
    <3>3. QED
      BY <3>2, <1>1, OneCall DEF Others
  <2>6. CASE CheckToken(g)
    <3>1. rpc[g].pc = "check" /\ frame'[g] = Manager!Idle
          /\ (rpc'[g] = [rpc[g] EXCEPT !.pc = "save"] \/ rpc'[g] = Free)
      BY <2>0, <2>6 DEF CheckToken, Manager!CheckEntry
    <3>2. rpc[g] \in Working
      BY <2>0, <3>1, CallCases
    <3>3. rpc'[g].pc \in {"save", "free"}
      BY <2>0, <3>1, <3>2 DEF Working
    <3>4. P(rpc'[g], frame'[g])
      BY <2>0, <3>1, <3>3
    <3>5. QED
      BY <3>4, <1>1, OneCall DEF Others
  <2>7. CASE SaveResult(g) \/ LogAnomaly(g) \/ Reply(g)
    <3>1. rpc[g].pc \in {"save", "log"} /\ frame' = frame
      BY <2>7 DEF SaveResult, LogAnomaly, Reply, managerVars
    <3>2. rpc'[g].pc \in {"log", "free"}
      <4>1. CASE SaveResult(g)
        BY <2>0, <4>1 DEF SaveResult
      <4>2. CASE LogAnomaly(g)
        <5>1. rpc[g] \in Logging
          BY <2>0, <4>2, CallCases DEF LogAnomaly
        <5>2. QED
          BY <2>0, <4>2, <5>1 DEF LogAnomaly, Logging
      <4>3. CASE Reply(g)
        BY <2>0, <4>3 DEF Reply
      <4>4. QED
        BY <2>7, <4>1, <4>2, <4>3
    <3>3. P(rpc'[g], frame'[g])
      BY <2>0, <3>1, <3>2
    <3>4. QED
      BY <3>3, <1>1, OneCall DEF Others
  <2>8. QED
    BY <1>1, <2>1, <2>2, <2>3, <2>4, <2>5, <2>6, <2>7 DEF Moves
<1>2. CASE AllLost
  BY <1>2 DEF AllLost, Free, Manager!Idle
<1>3. CASE UNCHANGED <<rpc, frame>>
  BY <1>3
<1>4. QED
  BY <1>1, <1>2, <1>3, StepCases

\* Only SubmitMeasurement brings a call to the validation of its token ...
LEMMA ValidatingStep ==
  ASSUME TypeOK, Coherent, NEW g \in Goroutine, Moves(g), ~SubmitMeasurement(g)
  PROVE  rpc'[g].pc # "validate"
<1>0. rpc \in [Goroutine -> Call] /\ Free.pc = "free"
  BY DEF TypeOK, Free
<1>1. CASE FetchChallenge(g) \/ TurnAway(g) \/ Reply(g)
  BY <1>0, <1>1 DEF FetchChallenge, TurnAway, Unknown, Reply
<1>2. CASE IssueChallenge(g)
  BY <1>2 DEF IssueChallenge, Manager!StoreToken, Coherent, Manager!Idle
<1>3. CASE ValidateToken(g) \/ SaveResult(g)
  BY <1>0, <1>3 DEF ValidateToken, SaveResult
<1>4. CASE CheckToken(g)
  <2>1. rpc[g] \in Working
    BY <1>0, <1>4, CallCases DEF CheckToken
  <2>2. QED
    BY <1>0, <1>4, <2>1 DEF CheckToken, Working
<1>5. CASE LogAnomaly(g)
  <2>1. rpc[g] \in Logging
    BY <1>0, <1>5, CallCases DEF LogAnomaly
  <2>2. QED
    BY <1>0, <1>5, <2>1 DEF LogAnomaly, Logging
<1>6. QED
  BY <1>1, <1>2, <1>3, <1>4, <1>5 DEF Moves

\* ... and only ValidateToken to the check.
LEMMA CheckingStep ==
  ASSUME TypeOK, Coherent, NEW g \in Goroutine, Moves(g), rpc'[g].pc = "check"
  PROVE  ValidateToken(g)
<1>0. rpc \in [Goroutine -> Call] /\ Free.pc = "free"
  BY DEF TypeOK, Free
<1>1. CASE FetchChallenge(g) \/ TurnAway(g) \/ Reply(g)
  BY <1>0, <1>1 DEF FetchChallenge, TurnAway, Unknown, Reply
<1>2. CASE IssueChallenge(g)
  BY <1>2 DEF IssueChallenge, Manager!StoreToken, Coherent
<1>3. CASE SubmitMeasurement(g) \/ SaveResult(g)
  BY <1>0, <1>3 DEF SubmitMeasurement, Identify, SaveResult
<1>4. CASE CheckToken(g)
  <2>1. rpc[g] \in Working
    BY <1>0, <1>4, CallCases DEF CheckToken
  <2>2. QED
    BY <1>0, <1>4, <2>1 DEF CheckToken, Working
<1>5. CASE LogAnomaly(g)
  <2>1. rpc[g] \in Logging
    BY <1>0, <1>5, CallCases DEF LogAnomaly
  <2>2. QED
    BY <1>0, <1>5, <2>1 DEF LogAnomaly, Logging
<1>6. QED
  BY <1>1, <1>2, <1>3, <1>4, <1>5 DEF Moves

-----------------------------------------------------------------------------
(* Whose challenge it is. *)

\* What the manager does to the history: nothing that was handed out changes,
\* an acceptance is not forgotten, and an entry that appears is a new one.
LEMMA HistoryStep ==
  ASSUME ManagerInv, [Manager!Next]_managerVars, NEW id \in ChallengeId
  PROVE  /\ handed[id] # NoChallenge => handed'[id] = handed[id]
         /\ handed'[id] # NoChallenge => handed'[id] = handed[id] \/ handed'[id].Token.id = id
         /\ accepted[id] = 1 => accepted'[id] = 1
         /\ \/ tokens'[id] = tokens[id] \/ tokens'[id] = NoEntry
            \/ /\ handed[id] = NoChallenge
               /\ tokens'[id].token \in Manager!Hmac /\ tokens'[id].token.id = id
<1>0. /\ frame \in [Goroutine -> Manager!Frame]
      /\ handed \in [ChallengeId -> Manager!ChallengeToken \union {NoChallenge}]
      /\ tokens \in [ChallengeId -> Manager!TokenEntry \union {NoEntry}]
      /\ accepted \in [ChallengeId -> Nat]
      /\ Manager!FrameBound
  BY DEF ManagerInv, Manager!TypeOK, Manager!OnePlace
<1>1. CASE UNCHANGED managerVars \/ Manager!Tick
  BY <1>1 DEF managerVars, Manager!Tick
<1>2. ASSUME NEW g \in Goroutine, Manager!Generate(g) PROVE UNCHANGED <<tokens, handed, accepted>>
  BY <1>2 DEF Manager!Generate, Manager!DrawChallenge
<1>3. ASSUME NEW g \in Goroutine, Manager!StoreToken(g), frame[g].id = id
      PROVE  /\ handed[id] = NoChallenge /\ accepted' = accepted
             /\ handed'[id].Token.id = id
             /\ tokens'[id].token \in Manager!Hmac /\ tokens'[id].token.id = id
  <2>1. frame[g].pc = "store"
    BY <1>3 DEF Manager!StoreToken
  <2>2. handed[id] = NoChallenge
    BY <1>0, <1>3, <2>1 DEF Manager!FrameBound, Manager!StoreBound
  <2>3. frame[g] \in Manager!StoreFrame
    BY <1>0, <2>1 DEF Manager!Frame, Manager!Idle, Manager!StoreFrame, Manager!CheckFrame
  <2>4. /\ Manager!hmacOf(id, frame[g].clientID, frame[g].expiresAt) \in Manager!Hmac
        /\ Manager!hmacOf(id, frame[g].clientID, frame[g].expiresAt).id = id
    BY <2>3 DEF Manager!hmacOf, Manager!Hmac, Manager!StoreFrame
  <2>5. /\ handed'[id].Token = Manager!hmacOf(id, frame[g].clientID, frame[g].expiresAt)
        /\ tokens'[id].token = Manager!hmacOf(id, frame[g].clientID, frame[g].expiresAt)
        /\ accepted' = accepted
    BY <1>0, <1>3 DEF Manager!StoreToken
  <2>6. QED
    BY <2>2, <2>4, <2>5
<1>4. ASSUME NEW g \in Goroutine, Manager!StoreToken(g), frame[g].id # id
      PROVE  handed'[id] = handed[id] /\ tokens'[id] = tokens[id] /\ accepted' = accepted
  BY <1>0, <1>4 DEF Manager!StoreToken
<1>5. ASSUME NEW g \in Goroutine, Manager!Consume(g)
      PROVE  UNCHANGED <<handed, accepted>> /\ (tokens'[id] = tokens[id] \/ tokens'[id] = NoEntry)
  BY <1>0, <1>5 DEF Manager!Consume, Manager!ConsumeEntry
<1>6. ASSUME NEW g \in Goroutine, Manager!CheckEntry(g)
      PROVE  UNCHANGED <<tokens, handed>> /\ (accepted[id] = 1 => accepted'[id] = 1)
  <2>1. accepted[frame[g].id] = 0
    BY <1>0, <1>6 DEF Manager!CheckEntry, Manager!FrameBound, Manager!CheckBound
  <2>2. QED
    BY <1>0, <1>6, <2>1 DEF Manager!CheckEntry
<1>7. CASE Manager!Restart
  BY <1>0, <1>7 DEF Manager!Restart
<1>8. QED
  BY <1>1, <1>2, <1>3, <1>4, <1>5, <1>6, <1>7 DEF Manager!Next

\* Tokens keep the name they were made for.
LEMMA PresentedStep ==
  ASSUME TypeOK, ManagerInv, Coherent, Presented, [Next]_vars
  PROVE  Presented'
<1>1. [Manager!Next]_managerVars
  BY ManagerStep
<1>2. ASSUME NEW id \in ChallengeId, handed'[id] # NoChallenge PROVE handed'[id].Token.id = id
  BY <1>1, <1>2, HistoryStep DEF Presented
<1>3. Manager!Presentable \subseteq Manager!Presentable'
  BY <1>1, HistoryStep DEF Manager!Presentable
<1>4. ASSUME NEW h \in Goroutine, rpc'[h].pc = "validate"
      PROVE  rpc'[h].token \in Manager!Presentable'
  <2>1. CASE rpc'[h] = rpc[h]
    BY <1>3, <1>4, <2>1 DEF Presented
  <2>2. ASSUME NEW g \in Goroutine, Moves(g), rpc'[h] # rpc[h]
        PROVE  rpc'[h].token \in Manager!Presentable'
    <3>1. g = h
      BY <2>2, OneCall DEF Others
    <3>2. SubmitMeasurement(h) /\ rpc \in [Goroutine -> Call]
      BY <1>4, <2>2, <3>1, ValidatingStep DEF TypeOK
    <3>3. rpc'[h].token \in Manager!Presentable
      BY <3>2 DEF SubmitMeasurement, Identify
    <3>4. QED
      BY <3>3, <1>3
  <2>3. CASE AllLost
    BY <1>4, <2>3 DEF AllLost, Free
  <2>4. QED
    BY <2>1, <2>2, <2>3, StepCases
<1>5. QED
  BY <1>2, <1>4 DEF Presented

\* A claim outlives what the others do meanwhile: the challenge whose ID a
\* handler was given before it existed has another token.
LEMMA ClaimKept ==
  ASSUME TypeOK, ManagerInv, Presented, [Manager!Next]_managerVars,
         NEW h \in Goroutine, Claimed(h), rpc'[h] = rpc[h], frame'[h] = frame[h]
  PROVE  Claimed(h)'
<1>0. rpc[h] \in Call
  BY DEF TypeOK
<1>1. ASSUME rpc[h].pc = "validate", tokens'[rpc[h].id] # NoEntry,
             rpc[h].token = tokens'[rpc[h].id].token
      PROVE  rpc[h].clientID = tokens'[rpc[h].id].clientID
  <2> DEFINE id == rpc[h].id
  <2>1. id \in ChallengeId
    BY <1>0, <1>1, CallCases DEF Validating
  <2>2. CASE tokens'[id] = tokens[id]
    BY <1>1, <2>2 DEF Claimed
  <2>3. ASSUME handed[id] = NoChallenge, tokens'[id].token \in Manager!Hmac,
               tokens'[id].token.id = id
        PROVE  FALSE
    <3>1. rpc[h].token \in Manager!Presentable /\ rpc[h].token # WrongToken
      BY <1>1, <2>3, ManagerAssumption DEF Presented, Manager!SentinelAssumption
    <3>2. PICK j \in ChallengeId : handed[j] # NoChallenge /\ rpc[h].token = handed[j].Token
      BY <3>1 DEF Manager!Presentable
    <3>3. j = id
      BY <1>1, <2>3, <3>2 DEF Presented
    <3>4. QED
      BY <2>3, <3>2, <3>3
  <2>4. QED
    BY <1>1, <2>1, <2>2, <2>3, HistoryStep
<1>2. ASSUME rpc[h].pc \in {"save", "log"}
      PROVE  accepted'[rpc[h].id] = 1 /\ rpc[h].clientID = handed'[rpc[h].id].Token.clientID
  <2>1. rpc[h].id \in ChallengeId
    BY <1>0, <1>2, CallCases DEF Working, Logging
  <2>2. accepted[rpc[h].id] = 1 /\ rpc[h].clientID = handed[rpc[h].id].Token.clientID
    BY <1>2 DEF Claimed
  <2>3. handed[rpc[h].id] # NoChallenge
    BY <2>1, <2>2 DEF ManagerInv, Manager!OnePlace, Manager!HandedBound
  <2>4. QED
    BY <2>1, <2>2, <2>3, HistoryStep
<1>3. QED
  BY <1>1, <1>2 DEF Claimed

\* A call comes to its writes through a token that is accepted, and then keeps
\* to its challenge.
LEMMA WritingStep ==
  ASSUME TypeOK, Coherent, NEW g \in Goroutine, Moves(g), rpc'[g].pc \in {"save", "log"}
  PROVE  /\ rpc'[g].id = rpc[g].id /\ rpc'[g].clientID = rpc[g].clientID
         /\ rpc[g].id \in ChallengeId
         /\ \/ CheckToken(g) /\ Manager!Verdict(frame[g]) = "ok" /\ frame[g].id = rpc[g].id
            \/ rpc[g].pc \in {"save", "log"} /\ rpc'[g].pc = "log" /\ UNCHANGED managerVars
<1>0. /\ rpc \in [Goroutine -> Call] /\ frame \in [Goroutine -> Manager!Frame]
      /\ Free.pc = "free" /\ rpc[g] \in Call
  BY DEF TypeOK, Manager!TypeOK, Free
<1>1. CASE FetchChallenge(g)
  BY <1>0, <1>1 DEF FetchChallenge
<1>2. CASE IssueChallenge(g)
  <2>1. frame[g].pc = "store" /\ rpc' = rpc
    BY <1>2 DEF IssueChallenge, Manager!StoreToken
  <2>2. QED
    BY <2>1 DEF Coherent, Manager!Idle
<1>3. CASE SubmitMeasurement(g)
  BY <1>0, <1>3 DEF SubmitMeasurement, Identify
<1>4. CASE TurnAway(g) \/ Reply(g)
  BY <1>0, <1>4 DEF TurnAway, Unknown, Reply
<1>5. CASE ValidateToken(g)
  BY <1>0, <1>5 DEF ValidateToken
<1>6. CASE CheckToken(g)
  <2>1. rpc[g] \in Working /\ frame[g].id = rpc[g].id
    BY <1>0, <1>6, CallCases DEF CheckToken, Coherent
  <2>2. rpc'[g] = [rpc[g] EXCEPT !.pc = "save"] /\ Manager!Verdict(frame[g]) = "ok"
    BY <1>0, <1>6 DEF CheckToken
  <2>3. QED
    BY <1>6, <2>1, <2>2 DEF Working
<1>7. CASE SaveResult(g)
  <2>1. rpc[g] \in Working
    BY <1>0, <1>7, CallCases DEF SaveResult
  <2>2. QED
    BY <1>0, <1>7, <2>1 DEF SaveResult, Working
<1>8. CASE LogAnomaly(g)
  <2>1. rpc[g] \in Logging
    BY <1>0, <1>8, CallCases DEF LogAnomaly
  <2>2. QED
    BY <1>0, <1>8, <2>1 DEF LogAnomaly, Logging
<1>9. QED
  BY <1>1, <1>2, <1>3, <1>4, <1>5, <1>6, <1>7, <1>8 DEF Moves

\* The token that was accepted is that of the entry, and the entry that of the
\* challenge, which had not been accepted before.
LEMMA AcceptedStep ==
  ASSUME TypeOK, ManagerInv, Coherent, Claims, NEW g \in Goroutine, CheckToken(g),
         Manager!Verdict(frame[g]) = "ok", frame[g].id = rpc[g].id, rpc[g].id \in ChallengeId
  PROVE  /\ accepted[rpc[g].id] = 0 /\ accepted'[rpc[g].id] = 1
         /\ rpc[g].clientID = handed'[rpc[g].id].Token.clientID
<1>1. Manager!CheckEntry(g) /\ frame[g].pc = "check" /\ rpc[g].pc = "check"
  BY DEF CheckToken, Manager!CheckEntry
<1>2. Manager!BoundTo(frame[g].entry, handed[rpc[g].id]) /\ accepted[rpc[g].id] = 0
  BY <1>1 DEF ManagerInv, Manager!OnePlace, Manager!FrameBound, Manager!CheckBound
<1>3. frame[g].presented = frame[g].entry.token
  BY DEF Manager!Verdict
<1>4. rpc[g].clientID = handed[rpc[g].id].Token.clientID
  BY <1>1, <1>2, <1>3 DEF Claims, Claimed, Manager!BoundTo
<1>5. accepted \in [ChallengeId -> Nat]
  BY DEF ManagerInv, Manager!TypeOK
<1>6. accepted'[rpc[g].id] = 1 /\ handed' = handed
  BY <1>1, <1>2, <1>5 DEF Manager!CheckEntry
<1>7. QED
  BY <1>2, <1>4, <1>6

\* GetClientID and ValidateToken are two turns at the mutex.
LEMMA ClaimsStep ==
  ASSUME TypeOK, ManagerInv, Coherent, Presented, Claims, [Next]_vars
  PROVE  Claims'
<1>0. [Manager!Next]_managerVars /\ rpc \in [Goroutine -> Call]
      /\ frame \in [Goroutine -> Manager!Frame]
  BY ManagerStep DEF TypeOK, Manager!TypeOK
<1>1. ASSUME NEW g \in Goroutine, Moves(g) PROVE Claimed(g)'
  <2>1. ASSUME rpc'[g].pc = "validate", tokens'[rpc'[g].id] # NoEntry,
               rpc'[g].token = tokens'[rpc'[g].id].token
        PROVE  rpc'[g].clientID = tokens'[rpc'[g].id].clientID
    <3>1. CASE SubmitMeasurement(g)
      <4>1. PICK id \in ChallengeId, token \in Manager!Presentable, report \in Report :
              rpc' = [rpc EXCEPT ![g] = Identify(g, id, token, report)]
        BY <3>1 DEF SubmitMeasurement
      <4>2. rpc'[g].id = id /\ rpc'[g].clientID = Manager!GetClientID(id, Nobody)
        BY <1>0, <4>1 DEF Identify
      <4>3. tokens' = tokens
        BY <3>1 DEF SubmitMeasurement, managerVars
      <4>4. QED
        BY <2>1, <4>2, <4>3 DEF Manager!GetClientID
    <3>2. CASE ~SubmitMeasurement(g)
      <4>1. rpc'[g].pc # "validate"
        BY <1>1, <3>2, ValidatingStep
      <4>2. QED
        BY <2>1, <4>1
    <3>3. QED
      BY <3>1, <3>2
  <2>2. ASSUME rpc'[g].pc = "check", frame'[g].presented = frame'[g].entry.token
        PROVE  rpc'[g].clientID = frame'[g].entry.clientID
    <3>1. ValidateToken(g)
      BY <1>1, <2>2, CheckingStep
    <3>2. rpc'[g].clientID = rpc[g].clientID /\ rpc[g].pc = "validate"
      BY <1>0, <3>1 DEF ValidateToken
    <3>3. /\ frame'[g].presented = rpc[g].token /\ frame'[g].entry = tokens[rpc[g].id]
          /\ tokens[rpc[g].id] # NoEntry
      BY <1>0, <3>1 DEF ValidateToken, Manager!ConsumeEntry
    <3>4. QED
      BY <2>2, <3>2, <3>3 DEF Claims, Claimed
  <2>3. ASSUME rpc'[g].pc \in {"save", "log"}
        PROVE  accepted'[rpc'[g].id] = 1
               /\ rpc'[g].clientID = handed'[rpc'[g].id].Token.clientID
    <3>1. /\ rpc'[g].id = rpc[g].id /\ rpc'[g].clientID = rpc[g].clientID
          /\ rpc[g].id \in ChallengeId
      BY <1>1, <2>3, WritingStep
    <3>2. CASE CheckToken(g) /\ Manager!Verdict(frame[g]) = "ok" /\ frame[g].id = rpc[g].id
      BY <3>1, <3>2, AcceptedStep
    <3>3. CASE rpc[g].pc \in {"save", "log"} /\ UNCHANGED managerVars
      BY <3>1, <3>3 DEF Claims, Claimed, managerVars
    <3>4. QED
      BY <1>1, <2>3, <3>2, <3>3, WritingStep
  <2>4. QED
    BY <2>1, <2>2, <2>3 DEF Claimed
<1>2. ASSUME NEW g \in Goroutine, Moves(g), NEW h \in Goroutine \ {g} PROVE Claimed(h)'
  <2>1. rpc'[h] = rpc[h] /\ frame'[h] = frame[h]
    BY <1>2, OneCall DEF Others
  <2>2. Claimed(h)
    BY DEF Claims
  <2>3. QED
    BY <1>0, <2>1, <2>2, ClaimKept
<1>3. CASE AllLost
  BY <1>3 DEF AllLost, Claims, Claimed, Free
<1>4. ASSUME UNCHANGED <<rpc, frame>>, NEW h \in Goroutine PROVE Claimed(h)'
  <2>1. Claimed(h)
    BY DEF Claims
  <2>2. QED
    BY <1>0, <1>4, <2>1, ClaimKept
<1>5. QED
  BY <1>1, <1>2, <1>3, <1>4, StepCases DEF Claims

\* Where the store was written, the call has left "save".
LEMMA SavingStep ==
  ASSUME TypeOK, Coherent, NEW g \in Goroutine, Moves(g), rpc[g].pc = "save"
  PROVE  rpc'[g].pc = "log"
BY DEF TypeOK, Coherent, Moves, FetchChallenge, IssueChallenge, Manager!StoreToken, Manager!Idle,
       SubmitMeasurement, Busy, TurnAway, ValidateToken, CheckToken, SaveResult, LogAnomaly,
       Reply, Free

-----------------------------------------------------------------------------
(* What the store holds, and what was answered. *)

\* A call writes and answers for its own challenge only, and a row stays.
LEMMA StoreStep ==
  ASSUME TypeOK, [Next]_vars, NEW id \in ChallengeId
  PROVE  \/ rows'[id] = rows[id] /\ anomalies'[id] = anomalies[id] /\ replied'[id] = replied[id]
         \/ \E g \in Goroutine :
              /\ rpc[g].pc \in {"save", "log"} /\ rpc[g].id = id /\ Moves(g)
              /\ UNCHANGED managerVars
              /\ \/ rows'[id] = rows[id]
                 \/ rows[id] = NoRow /\ rows'[id].clientID = rpc[g].clientID
<1>0. /\ rows \in [ChallengeId -> MeasurementRecord \union {NoRow}]
      /\ anomalies \in [ChallengeId -> [AnomalyType -> Nat]]
      /\ replied \in [ChallengeId -> Verdicts \union {NoReply}]
      /\ rpc \in [Goroutine -> Call]
  BY DEF TypeOK
<1>1. ASSUME NEW g \in Goroutine, SaveResult(g)
      PROVE  /\ rpc[g].pc = "save" /\ anomalies' = anomalies /\ replied' = replied
             /\ UNCHANGED managerVars
             /\ \/ rows'[id] = rows[id]
                \/ rpc[g].id = id /\ rows[id] = NoRow /\ rows'[id].clientID = rpc[g].clientID
  BY <1>0, <1>1 DEF SaveResult, Insert, Fail
<1>2. ASSUME NEW g \in Goroutine, LogAnomaly(g)
      PROVE  /\ rpc[g].pc = "log" /\ rows' = rows /\ replied' = replied
             /\ UNCHANGED managerVars
             /\ rpc[g].id = id \/ anomalies'[id] = anomalies[id]
  BY <1>0, <1>2 DEF LogAnomaly, Fail
<1>3. ASSUME NEW g \in Goroutine, Reply(g)
      PROVE  /\ rpc[g].pc = "log" /\ rows' = rows /\ anomalies' = anomalies
             /\ UNCHANGED managerVars
             /\ rpc[g].id = id \/ replied'[id] = replied[id]
  BY <1>0, <1>3 DEF Reply, storeVars
<1>4. ASSUME NEW g \in Goroutine,
             FetchChallenge(g) \/ IssueChallenge(g) \/ SubmitMeasurement(g) \/ TurnAway(g)
             \/ ValidateToken(g) \/ CheckToken(g)
      PROVE  UNCHANGED <<rows, anomalies, replied>>
  BY <1>4 DEF FetchChallenge, IssueChallenge, SubmitMeasurement, TurnAway, ValidateToken,
              CheckToken, storeVars
<1>5. CASE Tick \/ Stop \/ Close \/ Exit \/ Crash \/ Boot \/ UNCHANGED vars
  BY <1>5 DEF Tick, Stop, Close, Exit, Crash, LoseMemory, Boot, vars, storeVars
<1>6. QED
  BY <1>1, <1>2, <1>3, <1>4, <1>5 DEF Next, Serve, Moves

\* Whatever is written or answered is for an accepted challenge, and names its client.
LEMMA EarnedStep ==
  ASSUME TypeOK, ManagerInv, Presented, Claims, Earned, RowsAreEarned, [Next]_vars
  PROVE  Earned' /\ RowsAreEarned'
<1>0. [Manager!Next]_managerVars
  BY ManagerStep
<1>1. ASSUME NEW id \in ChallengeId PROVE (Blank(id) \/ accepted[id] = 1)'
  <2>1. CASE accepted[id] = 1
    BY <1>0, <2>1, HistoryStep
  <2>2. ASSUME NEW g \in Goroutine, rpc[g].pc \in {"save", "log"}, rpc[g].id = id
        PROVE  accepted[id] = 1
    BY <2>2 DEF Claims, Claimed
  <2>3. CASE /\ Blank(id) /\ rows'[id] = rows[id] /\ anomalies'[id] = anomalies[id]
             /\ replied'[id] = replied[id]
    BY <2>3 DEF Blank
  <2>4. QED
    BY <2>1, <2>2, <2>3, StoreStep DEF Earned
<1>2. ASSUME NEW id \in ChallengeId, rows'[id] # NoRow
      PROVE  accepted'[id] = 1 /\ rows'[id].clientID = handed'[id].Token.clientID
  <2>1. ASSUME accepted[id] = 1 PROVE accepted'[id] = 1 /\ handed'[id] = handed[id]
    <3>1. handed[id] # NoChallenge
      BY <2>1 DEF ManagerInv, Manager!OnePlace, Manager!HandedBound
    <3>2. QED
      BY <1>0, <2>1, <3>1, HistoryStep
  <2>2. CASE rows'[id] = rows[id]
    BY <1>2, <2>1, <2>2 DEF RowsAreEarned
  <2>3. ASSUME NEW g \in Goroutine, rpc[g].pc \in {"save", "log"}, rpc[g].id = id,
               rows'[id].clientID = rpc[g].clientID
        PROVE  accepted'[id] = 1 /\ rows'[id].clientID = handed'[id].Token.clientID
    BY <2>1, <2>3 DEF Claims, Claimed
  <2>4. QED
    BY <2>2, <2>3, StoreStep
<1>3. QED
  BY <1>1, <1>2 DEF Earned, RowsAreEarned

\* The check comes between two calls for one challenge, and lets one of them on.
LEMMA KeyIsFreeStep ==
  ASSUME TypeOK, ManagerInv, Coherent, Claims, Earned, KeyIsFree, [Next]_vars
  PROVE  KeyIsFree'
<1> DEFINE Apart(g, h) ==
      {rpc[g].pc, rpc[h].pc} \subseteq {"save", "log"} => rpc[g].id # rpc[h].id
<1>1. ASSUME NEW g \in Goroutine, rpc[g].pc \in {"save", "log"}
      PROVE  rpc[g].id \in ChallengeId /\ accepted[rpc[g].id] = 1
  <2>1. rpc[g] \in Working \union Logging
    BY <1>1, CallCases DEF TypeOK
  <2>2. QED
    BY <1>1, <2>1 DEF Working, Logging, Claims, Claimed
<1>2. ASSUME NEW g \in Goroutine, Moves(g), NEW h \in Goroutine \ {g}
      PROVE  Apart(g, h)' /\ Apart(h, g)'
  <2> SUFFICES ASSUME rpc'[g].pc \in {"save", "log"}, rpc'[h].pc \in {"save", "log"}
               PROVE  rpc'[g].id # rpc'[h].id
    OBVIOUS
  <2>1. rpc'[h] = rpc[h] /\ rpc'[g].id = rpc[g].id /\ rpc[h].pc \in {"save", "log"}
    BY <1>2, OneCall, WritingStep DEF Others
  <2>2. CASE rpc[g].pc \in {"save", "log"}
    BY <2>1, <2>2 DEF KeyIsFree
  <2>3. CASE CheckToken(g) /\ Manager!Verdict(frame[g]) = "ok" /\ frame[g].id = rpc[g].id
    <3>1. accepted[rpc[g].id] = 0
      BY <1>2, <2>3, WritingStep, AcceptedStep
    <3>2. QED
      BY <1>1, <2>1, <3>1
  <2>4. QED
    BY <1>2, <2>2, <2>3, WritingStep
<1>3. ASSUME NEW g \in Goroutine, NEW h \in Goroutine \ {g} PROVE Apart(g, h)'
  <2>1. Apart(g, h)
    BY DEF KeyIsFree
  <2>2. CASE UNCHANGED <<rpc, frame>>
    BY <2>1, <2>2
  <2>3. CASE AllLost
    BY <2>3 DEF AllLost, Free
  <2>4. ASSUME NEW k \in Goroutine, Moves(k) PROVE Apart(g, h)'
    <3>1. CASE k = g
      BY <1>2, <2>4, <3>1
    <3>2. CASE k = h
      BY <1>2, <2>4, <3>2
    <3>3. CASE k # g /\ k # h
      BY <2>1, <2>4, <3>3, OneCall DEF Others
    <3>4. QED
      BY <3>1, <3>2, <3>3
  <2>5. QED
    BY <2>2, <2>3, <2>4, StepCases
<1>4. ASSUME NEW g \in Goroutine, rpc'[g].pc = "save"
      PROVE  Blank(rpc[g].id)'
  <2>1. CASE rpc'[g] = rpc[g]
    <3>1. Blank(rpc[g].id) /\ rpc[g].id \in ChallengeId
      BY <1>1, <1>4, <2>1 DEF KeyIsFree, Blank
    <3>2. ASSUME NEW h \in Goroutine, rpc[h].pc \in {"save", "log"}, rpc[h].id = rpc[g].id,
                 Moves(h)
          PROVE  FALSE
      <4>1. h = g
        BY <1>4, <2>1, <3>2 DEF KeyIsFree
      <4>2. rpc[g].pc = "save"
        BY <1>4, <2>1
      <4>3. QED
        BY <1>4, <3>2, <4>1, <4>2, SavingStep
    <3>3. QED
      BY <2>1, <3>1, <3>2, StoreStep DEF Blank
  <2>2. ASSUME NEW k \in Goroutine, Moves(k), rpc'[g] # rpc[g] PROVE Blank(rpc[g].id)'
    <3>1. k = g
      BY <2>2, OneCall DEF Others
    <3>2. CheckToken(g) /\ Manager!Verdict(frame[g]) = "ok" /\ frame[g].id = rpc[g].id
          /\ rpc'[g].id = rpc[g].id /\ rpc[g].id \in ChallengeId
      BY <1>4, <2>2, <3>1, WritingStep
    <3>3. Blank(rpc[g].id)
      BY <3>2, AcceptedStep DEF Earned
    <3>4. UNCHANGED <<rows, anomalies, replied>>
      BY <3>2 DEF CheckToken, storeVars
    <3>5. QED
      BY <3>2, <3>3, <3>4 DEF Blank
  <2>3. CASE AllLost
    BY <1>4, <2>3 DEF AllLost, Free
  <2>4. QED
    BY <2>1, <2>2, <2>3, StepCases
<1>5. QED
  BY <1>3, <1>4 DEF KeyIsFree, Blank

-----------------------------------------------------------------------------
(* The theorems. *)

\* The parts together are inductive.
LEMMA NextIInv == IInv /\ [Next]_vars => IInv'
<1> SUFFICES ASSUME IInv, [Next]_vars PROVE IInv'
  OBVIOUS
<1> USE DEF IInv
<1>1. ManagerInv'
  BY ManagerStep, ManagerNextInv
<1>2. TypeOK'
  BY <1>1, NextTypeOK
<1>3. QED
  BY <1>1, <1>2, CoherentStep, PresentedStep, ClaimsStep, EarnedStep, KeyIsFreeStep

\* Whose challenge, token, entry and row it is stays right in every behaviour.
THEOREM Invariance == Spec => []IInv
<1>1. QED
  BY InitIInv, NextIInv, PTL DEF Spec

\* The variables keep the shape that the handlers and the tables give them.
THEOREM TypeCorrect == Spec => []TypeOK
<1>1. IInv => TypeOK
  BY DEF IInv
<1>2. QED
  BY Invariance, <1>1, PTL

\* A row names the client to whom its challenge was issued (server.go:73-74).
THEOREM RowsEarned == Spec => []RowsAreEarned
<1>1. IInv => RowsAreEarned
  BY DEF IInv
<1>2. QED
  BY Invariance, <1>1, PTL

\* No INSERT of SaveResult meets a taken primary key (storage.go:65).
THEOREM KeysAreFree == Spec => []KeyIsFree
<1>1. IInv => KeyIsFree
  BY DEF IInv
<1>2. QED
  BY Invariance, <1>1, PTL

\* The server is one of the programs ChallengeManager speaks of, so that the
\* theorems of ChallengeManagerProofs hold in it.
THEOREM ServerUsesManager == Spec => UsesManager
<1>1. Init => Manager!Init
  BY DEF Init
<1>2. IInv /\ [Next]_vars => [Manager!Next]_(Manager!vars)
  BY ManagerStep DEF IInv, managerVars, Manager!vars
<1>3. QED
  BY Invariance, <1>1, <1>2, PTL DEF Spec, UsesManager, Manager!Spec

\* Single use in the whole server: however handlers race for a challenge and
\* whenever the process dies, at most one submission of it is accepted
\* (challenge.go:151).
THEOREM TokensAreSingleUse == Spec => []Manager!SingleUse
<1>1. IInv => Manager!SingleUse
  BY DEF IInv, ManagerInv
<1>2. QED
  BY Invariance, <1>1, PTL

\* What a challenge looks like to TokenLifecycle is the same to both instances.
LEMMA SameLifecycle ==
  /\ Manager!grantOf = Lemmas!grantOf
  /\ Manager!Lifecycle!Init <=> Lemmas!Lifecycle!Init
  /\ [Manager!Lifecycle!Next]_<<now, Manager!grantOf>>
       <=> [Lemmas!Lifecycle!Next]_<<now, Lemmas!grantOf>>
BY Zenon DEF Manager!grantOf, Lemmas!grantOf, Manager!Live, Lemmas!Live,
     Manager!Lifecycle!Init, Lemmas!Lifecycle!Init, Manager!Lifecycle!Unused,
     Lemmas!Lifecycle!Unused, Manager!Lifecycle!Next, Lemmas!Lifecycle!Next,
     Manager!Lifecycle!Advance, Lemmas!Lifecycle!Advance, Manager!Lifecycle!Offer,
     Lemmas!Lifecycle!Offer, Manager!Lifecycle!Redeem, Lemmas!Lifecycle!Redeem,
     Manager!Lifecycle!Revoke, Lemmas!Lifecycle!Revoke

\* The server, with its store, its stop and its crashes, keeps the promise that
\* TokenLifecycle makes of challenges.
THEOREM ServerImplementsLifecycle == Spec => Manager!ImplementsLifecycle
<1>1. Lemmas!ClockAssumption /\ Lemmas!SentinelAssumption
  BY SameAssumptions
<1>2. Init => Manager!Lifecycle!Init
  <2>1. Lemmas!Init <=> Manager!Init
    BY Zenon DEF Manager!Init, Lemmas!Init, Manager!Idle, Lemmas!Idle
  <2>2. QED
    BY <1>1, <2>1, SameLifecycle, Lemmas!InitRefines DEF Init
<1>3. IInv /\ [Next]_vars => [Manager!Lifecycle!Next]_<<now, Manager!grantOf>>
  <2>1. IInv /\ [Next]_vars => ManagerInv /\ [Manager!Next]_managerVars
    BY ManagerStep DEF IInv
  <2>2. Lemmas!IInv /\ [Lemmas!Next]_(Lemmas!vars) =>
          [Lemmas!Lifecycle!Next]_<<now, Lemmas!grantOf>>
    BY <1>1, Lemmas!StepRefines
  <2>3. [Manager!Next]_managerVars => [Lemmas!Next]_(Lemmas!vars)
    BY SameNext, Zenon DEF Lemmas!vars, managerVars
  <2>4. QED
    BY <2>1, <2>2, <2>3, SameInvariant, SameLifecycle
<1>4. QED
  BY Invariance, <1>2, <1>3, PTL DEF Spec, Manager!ImplementsLifecycle, Manager!Lifecycle!Spec

-----------------------------------------------------------------------------
(* The store. *)

\* The anomalies a handler has yet to log.
Due(g) == {rpc[g].todo[i] : i \in DOMAIN rpc[g].todo}

\* When the anomalies are logged the row is in the store, or its loss is known:
\* each anomaly that is due is new and belongs to a suspicious row, and a
\* suspicious verdict has one that is due, logged or lost.
Stored(id, r) ==
  \/ rows[id] # NoRow /\ rows[id].status = Status(r)
  \/ <<id, "row">> \in lost

Logged(g) ==
  rpc[g].pc = "log" =>
    /\ \A i, j \in DOMAIN rpc[g].todo : rpc[g].todo[i] = rpc[g].todo[j] => i = j
    /\ \A t \in Due(g) : anomalies[rpc[g].id][t] = 0
    /\ rpc[g].todo # <<>> /\ rows[rpc[g].id] # NoRow => rows[rpc[g].id].suspicious
    /\ Stored(rpc[g].id, rpc[g].report)
    /\ Status(rpc[g].report) = "SUSPICIOUS" =>
         \E t \in AnomalyType : \/ t \in Due(g) \/ anomalies[rpc[g].id][t] = 1
                                \/ <<rpc[g].id, t>> \in lost

\* No handler is at work once the store is closed.
Drained == phase \in {"closed", "down"} => \A g \in Goroutine : ~Busy(g)

StoreIInv ==
  /\ IInv /\ Drained /\ \A g \in Goroutine : Logged(g)
  /\ AnomaliesMatchRow /\ AnsweredIsRecorded

-----------------------------------------------------------------------------

\* What is to be logged makes the row suspicious and is of different types, and
\* a suspicious verdict leaves something to log.
LEMMA AnomaliesFacts ==
  ASSUME NEW r \in Report
  PROVE  /\ Anomalies(r) # <<>> <=> Suspicious(r)
         /\ Status(r) = "SUSPICIOUS" => Anomalies(r) # <<>>
         /\ \A i, j \in DOMAIN Anomalies(r) : Anomalies(r)[i] = Anomalies(r)[j] => i = j
<1>0. r.jitter \in BOOLEAN /\ r.vpn \in BOOLEAN /\ r.correlated \in BOOLEAN
  BY ReportAssumption DEF Finding
<1> DEFINE a == IF r.jitter THEN <<"JITTER_ABNORMAL">> ELSE <<>>
           b == IF r.vpn THEN <<"VPN_DETECTED">> ELSE <<>>
           c == IF r.correlated THEN <<>> ELSE <<"RATIO_INCONSISTENT">>
<1>1. Anomalies(r) = (a \o b) \o c
  BY DEF Anomalies
<1>2. /\ Len(a) \in {0, 1} /\ (Len(a) = 1 => r.jitter /\ a[1] = "JITTER_ABNORMAL")
      /\ Len(b) \in {0, 1} /\ (Len(b) = 1 => r.vpn /\ b[1] = "VPN_DETECTED")
      /\ Len(c) \in {0, 1} /\ (Len(c) = 1 => ~r.correlated /\ c[1] = "RATIO_INCONSISTENT")
      /\ (r.jitter => Len(a) = 1) /\ (r.vpn => Len(b) = 1) /\ (~r.correlated => Len(c) = 1)
  BY <1>0
<1>3. a \in Seq(AnomalyType) /\ b \in Seq(AnomalyType) /\ c \in Seq(AnomalyType)
  <2>1. /\ "JITTER_ABNORMAL" \in AnomalyType /\ "VPN_DETECTED" \in AnomalyType
        /\ "RATIO_INCONSISTENT" \in AnomalyType
    BY DEF AnomalyType
  <2>2. QED
    BY <2>1
<1> HIDE DEF a, b, c
<1>4. /\ DOMAIN ((a \o b) \o c) = 1..Len((a \o b) \o c)
      /\ Len((a \o b) \o c) = Len(a) + Len(b) + Len(c)
  BY <1>3
<1>5. \A i \in 1..Len((a \o b) \o c) :
        ((a \o b) \o c)[i] = IF i <= Len(a) THEN a[i]
                             ELSE IF i <= Len(a) + Len(b) THEN b[i - Len(a)]
                             ELSE c[i - Len(a) - Len(b)]
  BY <1>3
<1>6. Anomalies(r) # <<>> <=> Suspicious(r)
  BY <1>1, <1>2, <1>4 DEF Suspicious
<1>7. \A i, j \in DOMAIN Anomalies(r) : Anomalies(r)[i] = Anomalies(r)[j] => i = j
  <2> DEFINE s == (a \o b) \o c
  <2>1. \A i \in DOMAIN s :
          /\ i \in 1..3
          /\ s[i] = "JITTER_ABNORMAL" <=> i = Len(a)
          /\ s[i] = "VPN_DETECTED" <=> Len(b) = 1 /\ i = Len(a) + 1
          /\ s[i] = "RATIO_INCONSISTENT" <=> Len(c) = 1 /\ i = Len(a) + Len(b) + 1
          /\ s[i] \in {"JITTER_ABNORMAL", "VPN_DETECTED", "RATIO_INCONSISTENT"}
    BY <1>2, <1>4, <1>5
  <2>2. QED
    BY <1>1, <1>2, <2>1
<1>8. QED
  BY <1>6, <1>7 DEF Status, Suspicious

\* A step that moves one call touches what is stored and answered for the
\* challenge of that call only, and no write is un-lost.
LEMMA OwnChallenge ==
  ASSUME TypeOK, NEW g \in Goroutine, Moves(g), NEW id \in ChallengeId,
         rpc[g].pc \in {"save", "log"} => rpc[g].id # id
  PROVE  /\ rows'[id] = rows[id] /\ anomalies'[id] = anomalies[id]
         /\ replied'[id] = replied[id]
<1>0. /\ rows \in [ChallengeId -> MeasurementRecord \union {NoRow}]
      /\ anomalies \in [ChallengeId -> [AnomalyType -> Nat]]
      /\ replied \in [ChallengeId -> Verdicts \union {NoReply}]
  BY DEF TypeOK
<1>1. CASE SaveResult(g)
  BY <1>0, <1>1 DEF SaveResult, Insert, Fail
<1>2. CASE LogAnomaly(g)
  BY <1>0, <1>2 DEF LogAnomaly, Fail
<1>3. CASE Reply(g)
  BY <1>0, <1>3 DEF Reply, storeVars
<1>4. CASE FetchChallenge(g) \/ IssueChallenge(g) \/ SubmitMeasurement(g) \/ TurnAway(g)
           \/ ValidateToken(g) \/ CheckToken(g)
  BY <1>4 DEF FetchChallenge, IssueChallenge, SubmitMeasurement, TurnAway, ValidateToken,
              CheckToken, storeVars
<1>5. QED
  BY <1>1, <1>2, <1>3, <1>4 DEF Moves

\* The history of lost writes only grows.
LEMMA LossIsKnown ==
  ASSUME [Next]_vars
  PROVE  lost \subseteq lost'
<1>1. ASSUME NEW g \in Goroutine, Moves(g) PROVE lost \subseteq lost'
  BY <1>1 DEF Moves, FetchChallenge, IssueChallenge, SubmitMeasurement, TurnAway, ValidateToken,
              CheckToken, SaveResult, Insert, LogAnomaly, Reply, Fail, storeVars
<1>2. CASE Exit \/ Crash
  BY <1>2 DEF Exit, Crash, LoseMemory, storeVars
<1>3. CASE Tick \/ Stop \/ Close \/ Boot \/ UNCHANGED vars
  BY <1>3 DEF Tick, Stop, Close, Boot, vars, storeVars
<1>4. QED
  BY <1>1, <1>2, <1>3, StepCases

\* GracefulStop waits: no call begins or goes on when the store is closed.
LEMMA DrainedStep ==
  ASSUME TypeOK, Coherent, Drained, [Next]_vars
  PROVE  Drained'
<1>0. /\ rpc \in [Goroutine -> Call] /\ frame \in [Goroutine -> Manager!Frame]
      /\ phase \in {"up", "stopping", "closed", "down"}
  BY DEF TypeOK, Manager!TypeOK
<1>1. ASSUME NEW g \in Goroutine, Moves(g) PROVE Drained'
  <2>1. phase' = phase
    BY <1>1 DEF Moves, FetchChallenge, IssueChallenge, SubmitMeasurement, TurnAway, ValidateToken,
                CheckToken, SaveResult, LogAnomaly, Reply
  <2>2. phase \notin {"closed", "down"}
    <3>1. CASE FetchChallenge(g) \/ SubmitMeasurement(g)
      BY <3>1 DEF FetchChallenge, SubmitMeasurement, Accepting
    <3>2. CASE IssueChallenge(g)
      <4>1. Busy(g)
        BY <3>2 DEF IssueChallenge, Manager!StoreToken, Busy, Manager!Idle
      <4>2. QED
        BY <4>1 DEF Drained
    <3>3. CASE TurnAway(g) \/ ValidateToken(g) \/ CheckToken(g) \/ SaveResult(g)
               \/ LogAnomaly(g) \/ Reply(g)
      <4>1. rpc[g] # Free
        BY <3>3 DEF TurnAway, ValidateToken, CheckToken, SaveResult, LogAnomaly, Reply, Free
      <4>2. QED
        BY <4>1 DEF Drained, Busy
    <3>4. QED
      BY <1>1, <3>1, <3>2, <3>3 DEF Moves
  <2>3. QED
    BY <2>1, <2>2 DEF Drained
<1>2. CASE AllLost
  BY <1>2 DEF AllLost, Drained, Busy
<1>3. CASE UNCHANGED <<rpc, frame>> /\ (Tick \/ Stop \/ Close \/ Boot \/ UNCHANGED vars)
  <2>1. CASE Tick \/ UNCHANGED vars
    BY <1>3, <2>1 DEF Drained, Busy, Tick, vars
  <2>2. CASE Stop \/ Boot
    BY <2>2 DEF Drained, Stop, Boot
  <2>3. CASE Close
    BY <1>3, <2>3 DEF Drained, Busy, Close
  <2>4. QED
    BY <1>3, <2>1, <2>2, <2>3
<1>4. QED
  BY <1>1, <1>2, <1>3, StepCases

\* The row is written, or its loss is noted, before the anomalies are.
LEMMA SavingLogs ==
  ASSUME StoreIInv, NEW g \in Goroutine, SaveResult(g)
  PROVE  Logged(g)' /\ AnomaliesMatchRow' /\ AnsweredIsRecorded'
<1> DEFINE id == rpc[g].id
           r == rpc[g].report
<1>0. TypeOK /\ KeyIsFree /\ Drained /\ AnomaliesMatchRow /\ AnsweredIsRecorded
  BY DEF StoreIInv, IInv
<1>1. rpc[g].pc = "save" /\ rpc[g] \in Working /\ rpc \in [Goroutine -> Call]
  BY <1>0, CallCases DEF SaveResult, TypeOK
<1>2. id \in ChallengeId /\ r \in Report
  BY <1>1 DEF Working
<1>3. rows[id] = NoRow /\ replied[id] = NoReply /\ \A t \in AnomalyType : anomalies[id][t] = 0
  BY <1>0, <1>1 DEF KeyIsFree
<1>4. phase # "closed"
  BY <1>0, <1>1 DEF Drained, Busy, Free
<1>5. /\ anomalies' = anomalies /\ replied' = replied /\ lost \subseteq lost'
      /\ rpc'[g] = [pc |-> "log", id |-> id, clientID |-> rpc[g].clientID, report |-> r,
                    todo |-> Anomalies(r)]
      /\ \A i \in ChallengeId \ {id} : rows'[i] = rows[i]
  BY <1>0, <1>1, <1>2 DEF SaveResult, Insert, Fail, TypeOK
<1>6. \/ rows'[id] = [clientID |-> rpc[g].clientID, status |-> Status(r),
                      suspicious |-> Suspicious(r)]
      \/ rows'[id] = NoRow /\ <<id, "row">> \in lost'
  BY <1>0, <1>2, <1>3, <1>4 DEF SaveResult, Insert, Fail, TypeOK
<1>7. Stored(id, r)'
  <2>1. [clientID |-> rpc[g].clientID, status |-> Status(r), suspicious |-> Suspicious(r)] # NoRow
    BY <1>1, <1>2, RowType, ServerAssumption DEF Working
  <2>2. rpc'[g].id = id /\ rpc'[g].report = r
    BY <1>5
  <2>3. \/ rows'[id] # NoRow /\ rows'[id].status = Status(r)
        \/ <<id, "row">> \in lost'
    BY <1>6, <2>1
  <2>4. QED
    BY <2>2, <2>3 DEF Stored
<1>8. Logged(g)'
  <2>1. rpc'[g].id = id /\ rpc'[g].report = r /\ rpc'[g].todo = Anomalies(r)
    BY <1>5
  <2>2. /\ rpc'[g].todo # <<>> <=> Suspicious(r)
        /\ Status(r) = "SUSPICIOUS" => rpc'[g].todo # <<>>
        /\ \A i, j \in DOMAIN rpc'[g].todo : rpc'[g].todo[i] = rpc'[g].todo[j] => i = j
    BY <1>2, <2>1, AnomaliesFacts
  <2>3. rpc'[g].todo \in Seq(AnomalyType)
    BY <2>1, AnomaliesType
  <2>4. \A t \in Due(g)' : t \in AnomalyType /\ anomalies'[id][t] = 0
    BY <1>3, <1>5, <2>3 DEF Due
  <2>5. rpc'[g].todo # <<>> => \E t \in AnomalyType : t \in Due(g)'
    <3>1. rpc'[g].todo # <<>> => rpc'[g].todo[1] \in AnomalyType /\ 1 \in DOMAIN rpc'[g].todo
      BY <2>3
    <3>2. QED
      BY <3>1 DEF Due
  <2>6. rpc'[g].todo # <<>> /\ rows'[id] # NoRow => rows'[id].suspicious
    BY <1>6, <2>2
  <2>7. QED
    BY <1>7, <2>1, <2>2, <2>4, <2>5, <2>6 DEF Logged
<1>9. AnomaliesMatchRow'
  BY <1>0, <1>3, <1>5 DEF AnomaliesMatchRow
<1>10. AnsweredIsRecorded'
  BY <1>0, <1>3, <1>5 DEF AnsweredIsRecorded
<1>11. QED
  BY <1>8, <1>9, <1>10

\* An anomaly leaves the list as it comes into the table, or is lost.
LEMMA LoggingLogs ==
  ASSUME StoreIInv, NEW g \in Goroutine, LogAnomaly(g)
  PROVE  Logged(g)' /\ AnomaliesMatchRow' /\ AnsweredIsRecorded'
<1> DEFINE id == rpc[g].id
           todo == rpc[g].todo
           type == Head(todo)
<1>0. TypeOK /\ Drained /\ Logged(g) /\ AnomaliesMatchRow /\ AnsweredIsRecorded
  BY DEF StoreIInv, IInv
<1>1. rpc[g].pc = "log" /\ rpc[g] \in Logging /\ rpc \in [Goroutine -> Call]
  BY <1>0, CallCases DEF LogAnomaly, TypeOK
<1>2. /\ id \in ChallengeId /\ todo \in Seq(AnomalyType) /\ todo # <<>>
      /\ type \in AnomalyType /\ type = todo[1] /\ 1 \in DOMAIN todo
  <2>1. id \in ChallengeId /\ todo \in Seq(AnomalyType) /\ todo # <<>>
    BY <1>1 DEF Logging, LogAnomaly
  <2>2. QED
    BY <2>1
<1>3. phase # "closed"
  BY <1>0, <1>1 DEF Drained, Busy, Free
<1>4. /\ rpc'[g].pc = "log" /\ rpc'[g].id = id /\ rpc'[g].report = rpc[g].report
      /\ rpc'[g].todo = Tail(todo)
  <2>1. rpc'[g] = [rpc[g] EXCEPT !.todo = Tail(todo)]
    BY <1>1 DEF LogAnomaly
  <2>2. QED
    BY <1>1, <2>1 DEF Logging
<1>5. /\ rows' = rows /\ replied' = replied /\ lost \subseteq lost'
      /\ \A i \in ChallengeId, t \in AnomalyType :
           <<i, t>> # <<id, type>> => anomalies'[i][t] = anomalies[i][t]
  BY <1>0, <1>2 DEF LogAnomaly, Fail, TypeOK
<1>6. \/ anomalies'[id][type] = anomalies[id][type] + 1
      \/ anomalies'[id][type] = anomalies[id][type] /\ <<id, type>> \in lost'
  BY <1>0, <1>2, <1>3 DEF LogAnomaly, Fail, TypeOK
<1>7. /\ \A i, j \in DOMAIN todo : todo[i] = todo[j] => i = j
      /\ anomalies[id][type] = 0
      /\ rows[id] # NoRow => rows[id].suspicious
      /\ Stored(id, rpc[g].report)
      /\ Status(rpc[g].report) = "SUSPICIOUS" =>
           \E t \in AnomalyType : t \in Due(g) \/ anomalies[id][t] = 1 \/ <<id, t>> \in lost
      /\ \A t \in Due(g) : anomalies[id][t] = 0
  BY <1>0, <1>1, <1>2 DEF Logged, Due
<1>8. /\ \A i \in DOMAIN Tail(todo) : i + 1 \in DOMAIN todo /\ Tail(todo)[i] = todo[i + 1]
                                      /\ i \in Nat \ {0}
      /\ \A i \in DOMAIN todo : i = 1 \/ (i - 1 \in DOMAIN Tail(todo)
                                          /\ Tail(todo)[i - 1] = todo[i])
  <2> HIDE DEF todo
  <2>1. Len(todo) \in Nat \ {0} /\ DOMAIN todo = 1..Len(todo)
    BY <1>2
  <2>2. DOMAIN Tail(todo) = 1..(Len(todo) - 1)
    BY <1>2
  <2>3. \A i \in 1..(Len(todo) - 1) : Tail(todo)[i] = todo[i + 1]
    BY <1>2
  <2>4. \A i \in 1..Len(todo) : i = 1 \/ (i - 1 \in 1..(Len(todo) - 1) /\ (i - 1) + 1 = i)
    BY <2>1
  <2>5. QED
    BY <2>1, <2>2, <2>3, <2>4
<1>9. Due(g)' = Due(g) \ {type}
  <2>1. Due(g)' = {Tail(todo)[i] : i \in DOMAIN Tail(todo)}
    BY <1>4 DEF Due
  <2>2. ASSUME NEW t \in Due(g)' PROVE t \in Due(g) /\ t # type
    <3>1. PICK i \in DOMAIN Tail(todo) : t = Tail(todo)[i]
      BY <2>1, <2>2
    <3>2. t = todo[i + 1] /\ i + 1 \in DOMAIN todo /\ i + 1 # 1
      BY <1>8, <3>1
    <3>3. QED
      BY <1>2, <1>7, <3>2 DEF Due
  <2>3. ASSUME NEW t \in Due(g), t # type PROVE t \in Due(g)'
    <3>1. PICK i \in DOMAIN todo : t = todo[i]
      BY <2>3 DEF Due
    <3>2. QED
      BY <1>2, <1>8, <2>1, <2>3, <3>1
  <2>4. QED
    BY <2>2, <2>3
<1>10. anomalies'[id][type] = 1 \/ (anomalies'[id][type] = 0 /\ <<id, type>> \in lost')
  BY <1>6, <1>7
<1>11. Logged(g)'
  <2>1. ASSUME NEW i \in DOMAIN Tail(todo), NEW j \in DOMAIN Tail(todo),
               Tail(todo)[i] = Tail(todo)[j]
        PROVE  i = j
    <3>1. i + 1 = j + 1 /\ i \in Nat /\ j \in Nat
      BY <1>7, <1>8, <2>1
    <3>2. QED
      BY <3>1
  <2>2. \A t \in Due(g)' : anomalies'[id][t] = 0
    <3>1. Due(g) \subseteq AnomalyType
      BY <1>2 DEF Due
    <3>2. QED
      BY <1>2, <1>5, <1>7, <1>9, <3>1
  <2>3. Stored(id, rpc[g].report)'
    BY <1>4, <1>5, <1>7 DEF Stored
  <2>4. ASSUME Status(rpc[g].report) = "SUSPICIOUS"
        PROVE  \E t \in AnomalyType :
                 t \in Due(g)' \/ anomalies'[id][t] = 1 \/ <<id, t>> \in lost'
    <3>1. PICK t \in AnomalyType : t \in Due(g) \/ anomalies[id][t] = 1 \/ <<id, t>> \in lost
      BY <1>7, <2>4
    <3>2. CASE t = type
      BY <1>2, <1>10, <3>2
    <3>3. CASE t # type
      <4>1. t \in Due(g)' \/ anomalies'[id][t] = 1 \/ <<id, t>> \in lost'
        BY <1>2, <1>5, <1>9, <3>1, <3>3
      <4>2. QED
        BY <4>1
    <3>4. QED
      BY <3>2, <3>3
  <2>5. QED
    BY <1>4, <1>5, <1>7, <2>1, <2>2, <2>3, <2>4 DEF Logged
<1>12. AnomaliesMatchRow'
  <2>1. ASSUME NEW i \in ChallengeId, NEW t \in AnomalyType
        PROVE  /\ anomalies'[i][t] <= 1
               /\ anomalies'[i][t] = 1 /\ rows'[i] # NoRow => rows'[i].suspicious
    <3>1. CASE <<i, t>> = <<id, type>>
      BY <1>5, <1>7, <1>10, <3>1
    <3>2. CASE <<i, t>> # <<id, type>>
      BY <1>0, <1>5, <3>2 DEF AnomaliesMatchRow
    <3>3. QED
      BY <3>1, <3>2
  <2>2. QED
    BY <2>1 DEF AnomaliesMatchRow
<1>13. AnsweredIsRecorded'
  <2>1. ASSUME NEW i \in ChallengeId, replied'[i] # NoReply
        PROVE  /\ (rows'[i] # NoRow /\ rows'[i].status = replied'[i]) \/ <<i, "row">> \in lost'
               /\ replied'[i] = "SUSPICIOUS" =>
                    \E t \in AnomalyType : anomalies'[i][t] = 1 \/ <<i, t>> \in lost'
    <3>1. (rows'[i] # NoRow /\ rows'[i].status = replied'[i]) \/ <<i, "row">> \in lost'
      BY <1>0, <1>5, <2>1 DEF AnsweredIsRecorded
    <3>2. ASSUME replied'[i] = "SUSPICIOUS"
          PROVE  \E t \in AnomalyType : anomalies'[i][t] = 1 \/ <<i, t>> \in lost'
      <4>1. PICK t \in AnomalyType : anomalies[i][t] = 1 \/ <<i, t>> \in lost
        BY <1>0, <1>5, <2>1, <3>2 DEF AnsweredIsRecorded
      <4>2. <<i, t>> # <<id, type>> \/ <<i, t>> \in lost'
        BY <1>5, <1>7, <4>1
      <4>3. QED
        BY <1>5, <4>1, <4>2
    <3>3. QED
      BY <3>1, <3>2
  <2>2. QED
    BY <2>1 DEF AnsweredIsRecorded
<1>14. QED
  BY <1>11, <1>12, <1>13

\* The reply comes when nothing is due any more.
LEMMA ReplyingLogs ==
  ASSUME StoreIInv, NEW g \in Goroutine, Reply(g)
  PROVE  Logged(g)' /\ AnomaliesMatchRow' /\ AnsweredIsRecorded'
<1>0. TypeOK /\ Logged(g) /\ AnomaliesMatchRow /\ AnsweredIsRecorded
  BY DEF StoreIInv, IInv
<1>1. /\ rpc[g].pc = "log" /\ rpc[g].todo = <<>> /\ rpc'[g] = Free
      /\ UNCHANGED <<rows, anomalies, lost>>
  BY <1>0 DEF Reply, storeVars, TypeOK
<1>2. Due(g) = {}
  BY <1>1 DEF Due
<1>3. ASSUME NEW i \in ChallengeId, replied'[i] # NoReply
      PROVE  /\ (rows[i] # NoRow /\ rows[i].status = replied'[i]) \/ <<i, "row">> \in lost
             /\ replied'[i] = "SUSPICIOUS" =>
                  \E t \in AnomalyType : anomalies[i][t] = 1 \/ <<i, t>> \in lost
  <2>1. CASE replied'[i] = replied[i]
    BY <1>0, <1>3, <2>1 DEF AnsweredIsRecorded
  <2>2. CASE i = rpc[g].id /\ replied'[i] = Status(rpc[g].report)
    BY <1>0, <1>1, <1>2, <2>2 DEF Logged, Stored
  <2>3. QED
    BY <1>0, <2>1, <2>2 DEF Reply, TypeOK
<1>4. Logged(g)' /\ AnomaliesMatchRow'
  BY <1>0, <1>1 DEF Logged, Free, AnomaliesMatchRow
<1>5. QED
  BY <1>1, <1>3, <1>4 DEF AnsweredIsRecorded

\* Another call's step leaves alone what this one is logging.
LEMMA LoggedKept ==
  ASSUME StoreIInv, [Next]_vars, NEW h \in Goroutine, rpc'[h] = rpc[h],
         rpc[h].pc = "log" =>
           /\ rows'[rpc[h].id] = rows[rpc[h].id]
           /\ anomalies'[rpc[h].id] = anomalies[rpc[h].id]
  PROVE  Logged(h)'
<1>1. Logged(h) /\ lost \subseteq lost' /\ Due(h)' = Due(h)
  BY LossIsKnown DEF StoreIInv, Due
<1>2. QED
  BY <1>1 DEF Logged, Stored

\* So does every step, for all the calls.
LEMMA LoggedStep ==
  ASSUME StoreIInv, [Next]_vars
  PROVE  (\A g \in Goroutine : Logged(g))' /\ AnomaliesMatchRow' /\ AnsweredIsRecorded'
<1>0. TypeOK /\ Coherent /\ KeyIsFree /\ AnomaliesMatchRow /\ AnsweredIsRecorded
      /\ rpc \in [Goroutine -> Call]
  BY DEF StoreIInv, IInv, TypeOK
<1>1. ASSUME NEW g \in Goroutine, Moves(g), ~(SaveResult(g) \/ LogAnomaly(g) \/ Reply(g))
      PROVE  /\ rpc'[g].pc # "log" /\ rpc[g].pc \notin {"save", "log"}
             /\ UNCHANGED <<rows, anomalies, lost, replied>>
  <2>1. UNCHANGED <<rows, anomalies, lost, replied>>
    BY <1>1 DEF Moves, FetchChallenge, IssueChallenge, SubmitMeasurement, TurnAway, ValidateToken,
                CheckToken, storeVars
  <2>2. rpc[g].pc \notin {"save", "log"}
    <3>1. CASE IssueChallenge(g)
      BY <1>0, <3>1 DEF IssueChallenge, Manager!StoreToken, Coherent, Manager!Idle
    <3>2. CASE FetchChallenge(g) \/ SubmitMeasurement(g) \/ TurnAway(g) \/ ValidateToken(g)
               \/ CheckToken(g)
      BY <3>2 DEF FetchChallenge, SubmitMeasurement, Busy, TurnAway, ValidateToken, CheckToken,
                  Free
    <3>3. QED
      BY <1>1, <3>1, <3>2 DEF Moves
  <2>3. rpc'[g].pc # "log"
    <3>1. CASE CheckToken(g)
      <4>1. rpc[g] \in Working
        BY <1>0, <3>1, CallCases DEF CheckToken
      <4>2. QED
        BY <1>0, <3>1, <4>1 DEF CheckToken, Working, Free
    <3>2. CASE ~CheckToken(g)
      BY <1>0, <1>1, <2>2, <3>2, WritingStep
    <3>3. QED
      BY <3>1, <3>2
  <2>4. QED
    BY <2>1, <2>2, <2>3
<1>2. ASSUME NEW g \in Goroutine, Moves(g)
      PROVE  Logged(g)' /\ AnomaliesMatchRow' /\ AnsweredIsRecorded'
  <2>1. CASE SaveResult(g) \/ LogAnomaly(g) \/ Reply(g)
    BY <2>1, SavingLogs, LoggingLogs, ReplyingLogs
  <2>2. CASE ~(SaveResult(g) \/ LogAnomaly(g) \/ Reply(g))
    <3>1. rpc'[g].pc # "log" /\ UNCHANGED <<rows, anomalies, lost, replied>>
      BY <1>1, <1>2, <2>2
    <3>2. QED
      BY <1>0, <3>1 DEF Logged, AnomaliesMatchRow, AnsweredIsRecorded
  <2>3. QED
    BY <2>1, <2>2
<1>3. ASSUME NEW g \in Goroutine, Moves(g), NEW h \in Goroutine \ {g} PROVE Logged(h)'
  <2>1. rpc'[h] = rpc[h]
    BY <1>0, <1>3, OneCall DEF Others
  <2>2. ASSUME rpc[h].pc = "log"
        PROVE  rows'[rpc[h].id] = rows[rpc[h].id] /\ anomalies'[rpc[h].id] = anomalies[rpc[h].id]
    <3>1. rpc[h].id \in ChallengeId
      BY <1>0, <2>2, CallCases DEF Logging
    <3>2. rpc[g].pc \in {"save", "log"} => rpc[g].id # rpc[h].id
      BY <1>0, <2>2 DEF KeyIsFree
    <3>3. QED
      BY <1>0, <1>3, <3>1, <3>2, OwnChallenge
  <2>3. QED
    BY <2>1, <2>2, LoggedKept
<1>4. CASE AllLost /\ (Exit \/ Crash)
  <2>1. UNCHANGED <<rows, anomalies, lost, replied>>
    BY <1>4 DEF Exit, Crash, LoseMemory, storeVars
  <2>2. QED
    BY <1>0, <1>4, <2>1 DEF AllLost, Free, Logged, AnomaliesMatchRow, AnsweredIsRecorded
<1>5. CASE UNCHANGED <<rpc, frame>> /\ (Tick \/ Stop \/ Close \/ Boot \/ UNCHANGED vars)
  <2>1. UNCHANGED <<rows, anomalies, lost, replied>>
    BY <1>5 DEF Tick, Stop, Close, Boot, vars, storeVars
  <2>2. \A h \in Goroutine : Logged(h)'
    BY <1>5, <2>1, LoggedKept
  <2>3. QED
    BY <1>0, <2>1, <2>2 DEF AnomaliesMatchRow, AnsweredIsRecorded
<1>6. QED
  BY <1>2, <1>3, <1>4, <1>5, StepCases

-----------------------------------------------------------------------------
(* The theorems. *)

\* Nothing is stored or answered at first.
LEMMA InitStoreIInv == Init => StoreIInv
<1> SUFFICES ASSUME Init PROVE StoreIInv
  OBVIOUS
<1>1. IInv
  BY InitIInv
<1>2. \A g \in Goroutine : rpc[g].pc = "free"
  BY DEF Init, Free
<1>3. phase = "up"
  BY DEF Init
<1>4. AnomaliesMatchRow /\ AnsweredIsRecorded
  BY DEF Init, AnomaliesMatchRow, AnsweredIsRecorded
<1>5. QED
  BY <1>1, <1>2, <1>3, <1>4 DEF StoreIInv, Drained, Logged

\* The parts together are inductive.
LEMMA NextStoreIInv == StoreIInv /\ [Next]_vars => StoreIInv'
<1> SUFFICES ASSUME StoreIInv, [Next]_vars PROVE StoreIInv'
  OBVIOUS
<1>1. IInv'
  BY NextIInv DEF StoreIInv
<1>2. Drained'
  BY DrainedStep DEF StoreIInv, IInv
<1>3. QED
  BY <1>1, <1>2, LoggedStep DEF StoreIInv

\* What is stored, due, lost and answered agrees in every behaviour.
THEOREM StoreInvariance == Spec => []StoreIInv
<1>1. QED
  BY InitStoreIInv, NextStoreIInv, PTL DEF Spec

\* An anomaly is in the table once at most, and beside a suspicious row.
THEOREM AnomaliesMatch == Spec => []AnomaliesMatchRow
<1>1. StoreIInv => AnomaliesMatchRow
  BY DEF StoreIInv
<1>2. QED
  BY StoreInvariance, <1>1, PTL

\* What a client was told is in the store, or the store refused it.
THEOREM AnswersAreRecorded == Spec => []AnsweredIsRecorded
<1>1. StoreIInv => AnsweredIsRecorded
  BY DEF StoreIInv
<1>2. QED
  BY StoreInvariance, <1>1, PTL
=============================================================================
