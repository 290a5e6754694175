----------------------- MODULE ChallengeManagerProofs -----------------------
(***************************************************************************)
(* Theorems about ChallengeManager for every set of clients, challenges    *)
(* and goroutines, every time to live and every resolution of the clock.   *)
(***************************************************************************)
EXTENDS ChallengeManager, TLAPS

\* The inductive invariant: SingleUse alone is not inductive, since a second
\* acceptance is excluded only by where the challenge can be.
IInv == TypeOK /\ OnePlace /\ SingleUse

\* What a frame is, by its program counter.
LEMMA FrameCases ==
  ASSUME NEW f \in Frame
  PROVE  \/ f = Idle /\ f.pc = "idle"
         \/ f \in StoreFrame /\ f.pc = "store"
         \/ f \in CheckFrame /\ f.pc = "check"
BY DEF Frame, Idle, StoreFrame, CheckFrame

\* The initial state has the types of Manager.
LEMMA InitTypeOK == Init => TypeOK
BY ClockAssumption DEF Init, TypeOK, Frame

\* Every step keeps the types.
LEMMA NextTypeOK == TypeOK /\ [Next]_vars => TypeOK'
<1> SUFFICES ASSUME TypeOK, [Next]_vars PROVE TypeOK'
  OBVIOUS
<1> USE DEF TypeOK
<1>1. CASE Tick
  BY <1>1, ClockAssumption DEF Tick
<1>2. ASSUME NEW g \in Goroutine, NEW c \in Client, NEW id \in ChallengeId,
             DrawChallenge(g, c, id)
      PROVE  TypeOK'
  <2>1. [pc |-> "store", id |-> id, clientID |-> c, expiresAt |-> now + TTL] \in Frame
    BY ClockAssumption DEF Frame, StoreFrame
  <2>2. QED
    BY <1>2, <2>1 DEF DrawChallenge
<1>3. ASSUME NEW g \in Goroutine, StoreToken(g)
      PROVE  TypeOK'
  <2>1. frame[g] \in StoreFrame
    BY <1>3, FrameCases DEF StoreToken
  <2>2. hmacOf(frame[g].id, frame[g].clientID, frame[g].expiresAt) \in Hmac
    BY <2>1 DEF StoreFrame, hmacOf, Hmac
  <2>3. UnixSeconds(frame[g].expiresAt) \in Int
    BY <2>1, ClockAssumption DEF StoreFrame, UnixSeconds
  <2>4. tokens' \in [ChallengeId -> TokenEntry \union {NoEntry}]
    BY <1>3, <2>1, <2>2 DEF StoreToken, TokenEntry, StoreFrame
  <2>5. handed' \in [ChallengeId -> ChallengeToken \union {NoChallenge}]
    BY <1>3, <2>1, <2>2, <2>3 DEF StoreToken, ChallengeToken, StoreFrame
  <2>6. QED
    BY <1>3, <2>4, <2>5 DEF StoreToken, Frame
<1>4. ASSUME NEW g \in Goroutine, NEW id \in ChallengeId, NEW t \in Presentable,
             ConsumeEntry(g, id, t)
      PROVE  TypeOK'
  <2>1. t \in Hmac \union {WrongToken}
    BY DEF Presentable, ChallengeToken
  <2>2. [pc |-> "check", id |-> id, entry |-> tokens[id], presented |-> t] \in Frame
    BY <1>4, <2>1 DEF ConsumeEntry, Frame, CheckFrame
  <2>3. QED
    BY <1>4, <2>2 DEF ConsumeEntry
<1>5. ASSUME NEW g \in Goroutine, CheckEntry(g)
      PROVE  TypeOK'
  <2>1. frame[g] \in CheckFrame
    BY <1>5, FrameCases DEF CheckEntry
  <2>2. accepted' \in [ChallengeId -> Nat]
    BY <1>5, <2>1 DEF CheckEntry, CheckFrame
  <2>3. QED
    BY <1>5, <2>2 DEF CheckEntry, Frame
<1>6. CASE Restart
  BY <1>6 DEF Restart, Frame
<1>7. CASE UNCHANGED vars
  BY <1>7 DEF vars
<1>8. QED
  BY <1>1, <1>2, <1>3, <1>4, <1>5, <1>6, <1>7 DEF Next, Generate, Consume

\* Type correctness: no interleaving of handlers, clock and restarts takes the
\* manager out of its types.
THEOREM TypeCorrect == Spec => []TypeOK
<1>1. QED
  BY InitTypeOK, NextTypeOK, PTL DEF Spec

-----------------------------------------------------------------------------

\* Nothing lives anywhere before the first challenge is drawn.
LEMMA InitIInv == Init => IInv
<1> SUFFICES ASSUME Init PROVE IInv
  OBVIOUS
<1>1. TypeOK
  BY InitTypeOK
<1>2. OnePlace
  BY DEF Init, OnePlace, HandedBound, MapBound, FrameBound, Alone, Idle
<1>3. SingleUse
  BY DEF Init, SingleUse
<1>4. QED
  BY <1>1, <1>2, <1>3 DEF IInv

\* The clock only moves the bound on when a challenge was begun.
LEMMA TickKeeps == IInv /\ Tick => OnePlace' /\ SingleUse'
<1> SUFFICES ASSUME IInv, Tick PROVE OnePlace' /\ SingleUse'
  OBVIOUS
<1> USE DEF IInv, OnePlace
<1>1. HandedBound' /\ MapBound' /\ Alone' /\ SingleUse'
  BY DEF Tick, HandedBound, MapBound, Alone, SingleUse, BoundTo, UnixSeconds
<1>2. FrameBound'
  <2> SUFFICES ASSUME NEW g \in Goroutine
               PROVE  /\ frame[g].pc = "store" => StoreBound(frame[g])'
                      /\ frame[g].pc = "check" => CheckBound(frame[g])'
    BY DEF Tick, FrameBound, StoreBound, CheckBound, BoundTo
  <2>1. 0..now \subseteq 0..now'
    BY DEF Tick, TypeOK
  <2>2. QED
    BY <2>1 DEF Tick, FrameBound, StoreBound, CheckBound, BoundTo
<1>3. QED
  BY <1>1, <1>2

\* A drawn name is new, so no map entry, frame or client knows of it.
LEMMA DrawKeeps ==
  ASSUME IInv, NEW g \in Goroutine, NEW c \in Client, NEW id \in ChallengeId,
         DrawChallenge(g, c, id)
  PROVE  OnePlace' /\ SingleUse'
<1> USE DEF IInv, OnePlace
<1>1. HandedBound' /\ MapBound' /\ SingleUse'
  BY DEF DrawChallenge, HandedBound, MapBound, SingleUse, BoundTo, UnixSeconds
<1>2. handed[id] = NoChallenge
  BY DEF DrawChallenge, HandedBound
<1>3. \A h \in Goroutine : frame[h].pc # "idle" => frame[h].id \in drawn
  <2> SUFFICES ASSUME NEW h \in Goroutine, frame[h].pc # "idle"
               PROVE  frame[h].id \in drawn
    OBVIOUS
  <2>1. frame[h].pc = "store" \/ (frame[h] \in CheckFrame /\ frame[h].pc = "check")
    BY FrameCases DEF TypeOK
  <2>2. QED
    BY <2>1 DEF FrameBound, StoreBound, CheckBound, BoundTo, HandedBound, CheckFrame
<1>4. Alone'
  BY <1>3 DEF DrawChallenge, Alone, TypeOK
<1>5. FrameBound'
  <2> SUFFICES ASSUME NEW h \in Goroutine
               PROVE  /\ frame'[h].pc = "store" => StoreBound(frame[h])'
                      /\ frame'[h].pc = "check" => CheckBound(frame[h])'
    BY DEF FrameBound, StoreBound, CheckBound, BoundTo
  <2>1. CASE h = g
    BY <1>2, <2>1 DEF DrawChallenge, StoreBound, TypeOK
  <2>2. CASE h # g
    BY <2>2 DEF DrawChallenge, FrameBound, StoreBound, CheckBound, BoundTo, TypeOK
  <2>3. QED
    BY <2>1, <2>2
<1>6. QED
  BY <1>1, <1>4, <1>5

\* Storing a challenge puts it in the map and out of the frame in one step.
LEMMA StoreKeeps ==
  ASSUME IInv, NEW g \in Goroutine, StoreToken(g)
  PROVE  OnePlace' /\ SingleUse'
<1> USE DEF IInv, OnePlace
<1> DEFINE f == frame[g]
           t == hmacOf(f.id, f.clientID, f.expiresAt)
<1>1. f \in StoreFrame /\ f.pc = "store"
  BY FrameCases DEF TypeOK, StoreToken
<1>2. StoreBound(f)
  BY <1>1 DEF FrameBound
<1>3. accepted[f.id] = 0 /\ tokens[f.id] = NoEntry
  BY <1>1, <1>2 DEF StoreBound, HandedBound, StoreFrame
<1>4. t \in Hmac /\ t.clientID = f.clientID /\ t.expiresAt = f.expiresAt
  BY <1>1 DEF StoreFrame, hmacOf, Hmac
<1>5. /\ handed'[f.id] = [ChallengeID |-> f.id, Token |-> t,
                          ExpiresAt |-> UnixSeconds(f.expiresAt)]
      /\ tokens'[f.id] = [token |-> t, clientID |-> f.clientID, expiresAt |-> f.expiresAt]
      /\ \A id \in ChallengeId \ {f.id} : handed'[id] = handed[id] /\ tokens'[id] = tokens[id]
  BY <1>1 DEF StoreToken, TypeOK, StoreFrame
<1>6. handed'[f.id] # NoChallenge
  <2>1. UnixSeconds(f.expiresAt) \in Int
    BY <1>1, ClockAssumption DEF StoreFrame, UnixSeconds
  <2>2. handed'[f.id] \in ChallengeToken
    BY <1>1, <1>4, <1>5, <2>1 DEF StoreFrame, ChallengeToken
  <2>3. QED
    BY <2>2, SentinelAssumption
<1>7. HandedBound'
  <2> SUFFICES ASSUME NEW id \in ChallengeId
               PROVE  /\ handed'[id] = NoChallenge => tokens'[id] = NoEntry /\ accepted'[id] = 0
                      /\ handed'[id] # NoChallenge =>
                           /\ id \in drawn'
                           /\ handed'[id].ExpiresAt = UnixSeconds(handed'[id].Token.expiresAt)
    BY DEF HandedBound, UnixSeconds
  <2>1. CASE id = f.id
    BY <1>2, <1>4, <1>5, <1>6, <2>1 DEF StoreToken, StoreBound
  <2>2. CASE id # f.id
    BY <1>5, <2>2 DEF StoreToken, HandedBound
  <2>3. QED
    BY <2>1, <2>2
<1>8. MapBound'
  <2> SUFFICES ASSUME NEW id \in ChallengeId, tokens'[id] # NoEntry
               PROVE  BoundTo(tokens'[id], handed'[id]) /\ accepted'[id] = 0
    BY DEF MapBound, BoundTo
  <2>1. CASE id = f.id
    BY <1>3, <1>4, <1>5, <1>6, <2>1 DEF StoreToken, BoundTo
  <2>2. CASE id # f.id
    BY <1>5, <2>2 DEF StoreToken, MapBound, BoundTo
  <2>3. QED
    BY <2>1, <2>2
<1>9. FrameBound'
  <2> SUFFICES ASSUME NEW h \in Goroutine, frame'[h].pc # "idle"
               PROVE  /\ frame'[h].pc = "store" => StoreBound(frame[h])'
                      /\ frame'[h].pc = "check" => CheckBound(frame[h])'
    BY DEF FrameBound, StoreBound, CheckBound, BoundTo
  <2>1. h # g /\ frame'[h] = frame[h]
    BY DEF StoreToken, TypeOK, Idle
  <2>2. frame[h].id # f.id
    BY <1>1, <2>1 DEF Alone
  <2>3. frame[h] \in StoreFrame \/ frame[h] \in CheckFrame
    BY <2>1, FrameCases DEF TypeOK
  <2>4. frame[h].id \in ChallengeId \ {f.id}
    BY <2>2, <2>3 DEF StoreFrame, CheckFrame
  <2>5. QED
    BY <1>5, <2>1, <2>4 DEF StoreToken, FrameBound, StoreBound, CheckBound, BoundTo
<1>10. Alone'
  BY DEF StoreToken, Alone, TypeOK, Idle
<1>11. SingleUse'
  BY DEF StoreToken, SingleUse
<1>12. QED
  BY <1>7, <1>8, <1>9, <1>10, <1>11

\* Taking an entry out moves the challenge from the map into one frame.
LEMMA ConsumeKeeps ==
  ASSUME IInv, NEW g \in Goroutine, NEW id \in ChallengeId, NEW t,
         ConsumeEntry(g, id, t)
  PROVE  OnePlace' /\ SingleUse'
<1> USE DEF IInv, OnePlace
<1>1. BoundTo(tokens[id], handed[id]) /\ accepted[id] = 0
  BY DEF ConsumeEntry, MapBound
<1>2. \A h \in Goroutine : frame[h].pc # "idle" => frame[h].id # id
  <2> SUFFICES ASSUME NEW h \in Goroutine, frame[h].pc # "idle"
               PROVE  frame[h].id # id
    OBVIOUS
  <2>1. \/ frame[h].pc = "store" /\ handed[frame[h].id] = NoChallenge
        \/ frame[h].pc = "check" /\ tokens[frame[h].id] = NoEntry
    BY FrameCases DEF TypeOK, FrameBound, StoreBound, CheckBound
  <2>2. QED
    BY <1>1, <2>1 DEF ConsumeEntry, BoundTo
<1>3. HandedBound' /\ MapBound' /\ SingleUse'
  BY DEF ConsumeEntry, HandedBound, MapBound, SingleUse, BoundTo, UnixSeconds, TypeOK
<1>4. Alone'
  BY <1>2 DEF ConsumeEntry, Alone, TypeOK
<1>5. FrameBound'
  <2> SUFFICES ASSUME NEW h \in Goroutine
               PROVE  /\ frame'[h].pc = "store" => StoreBound(frame[h])'
                      /\ frame'[h].pc = "check" => CheckBound(frame[h])'
    BY DEF FrameBound, StoreBound, CheckBound, BoundTo
  <2>1. CASE h = g
    BY <1>1, <2>1 DEF ConsumeEntry, CheckBound, BoundTo, TypeOK
  <2>2. CASE h # g
    BY <1>2, <2>2 DEF ConsumeEntry, FrameBound, StoreBound, CheckBound, BoundTo, TypeOK
  <2>3. QED
    BY <2>1, <2>2
<1>6. QED
  BY <1>3, <1>4, <1>5

\* A check ends the life of the challenge it holds, accepted or not.
LEMMA CheckKeeps ==
  ASSUME IInv, NEW g \in Goroutine, CheckEntry(g)
  PROVE  OnePlace' /\ SingleUse'
<1> USE DEF IInv, OnePlace
<1> DEFINE f == frame[g]
<1>1. f \in CheckFrame /\ CheckBound(f)
  BY FrameCases DEF TypeOK, CheckEntry, FrameBound
<1>2. f.id \in ChallengeId /\ handed[f.id] # NoChallenge /\ tokens[f.id] = NoEntry
  BY <1>1 DEF CheckFrame, CheckBound, BoundTo
<1>3. /\ \A id \in ChallengeId \ {f.id} : accepted'[id] = accepted[id]
      /\ accepted'[f.id] \in {0, 1}
  BY <1>1, <1>2 DEF CheckEntry, TypeOK, CheckBound
<1>4. HandedBound'
  BY <1>2, <1>3 DEF CheckEntry, HandedBound, UnixSeconds
<1>5. MapBound' /\ SingleUse'
  BY <1>2, <1>3 DEF CheckEntry, MapBound, SingleUse, BoundTo
<1>6. Alone'
  BY DEF CheckEntry, Alone, TypeOK, Idle
<1>7. FrameBound'
  <2> SUFFICES ASSUME NEW h \in Goroutine, frame'[h].pc # "idle"
               PROVE  /\ frame'[h].pc = "store" => StoreBound(frame[h])'
                      /\ frame'[h].pc = "check" => CheckBound(frame[h])'
    BY DEF FrameBound, StoreBound, CheckBound, BoundTo
  <2>1. h # g /\ frame'[h] = frame[h]
    BY DEF CheckEntry, TypeOK, Idle
  <2>2. frame[h].id # f.id
    BY <2>1 DEF Alone, CheckEntry
  <2>3. frame[h] \in StoreFrame \/ frame[h] \in CheckFrame
    BY <2>1, FrameCases DEF TypeOK
  <2>4. accepted'[frame[h].id] = accepted[frame[h].id]
    BY <1>3, <2>2, <2>3 DEF StoreFrame, CheckFrame
  <2>5. QED
    BY <2>1, <2>4 DEF CheckEntry, FrameBound, StoreBound, CheckBound, BoundTo
<1>8. QED
  BY <1>4, <1>5, <1>6, <1>7

\* A restart empties the map and the frames at once.
LEMMA RestartKeeps == IInv /\ Restart => OnePlace' /\ SingleUse'
BY DEF IInv, OnePlace, Restart, HandedBound, MapBound, FrameBound, Alone, SingleUse,
       Idle, UnixSeconds

\* Every step keeps the inductive invariant.
LEMMA NextIInv == IInv /\ [Next]_vars => IInv'
<1> SUFFICES ASSUME IInv, [Next]_vars PROVE IInv'
  OBVIOUS
<1>1. TypeOK'
  BY NextTypeOK DEF IInv
<1>2. OnePlace' /\ SingleUse'
  <2>1. CASE UNCHANGED vars
    BY <2>1 DEF IInv, vars, OnePlace, HandedBound, MapBound, FrameBound, StoreBound,
                CheckBound, BoundTo, Alone, SingleUse, UnixSeconds
  <2>2. CASE Next
    BY <2>2, TickKeeps, DrawKeeps, StoreKeeps, ConsumeKeeps, CheckKeeps, RestartKeeps
       DEF Next, Generate, Consume
  <2>3. QED
    BY <2>1, <2>2
<1>3. QED
  BY <1>1, <1>2 DEF IInv

\* A challenge is always in at most one place (challenge.go:125-131, 153-158).
THEOREM ChallengeInOnePlace == Spec => []OnePlace
<1>1. IInv => OnePlace
  BY DEF IInv
<1>2. QED
  BY InitIInv, NextIInv, <1>1, PTL DEF Spec

\* Tokens are single-use (challenge.go:151), whatever the number of handlers
\* that race for one challenge and however often the server restarts.
THEOREM TokensAreSingleUse == Spec => []SingleUse
<1>1. IInv => SingleUse
  BY DEF IInv
<1>2. QED
  BY InitIInv, NextIInv, <1>1, PTL DEF Spec

-----------------------------------------------------------------------------

\* Unix seconds are at most a second behind.
LEMMA UnixSecondsBound ==
  ASSUME NEW t \in Int
  PROVE  t < (UnixSeconds(t) + 1) * TicksPerSecond
BY ClockAssumption DEF UnixSeconds

\* Only a check can accept, and then the verdict was ok.
LEMMA AcceptingStep ==
  ASSUME IInv, [Next]_vars, NEW id \in ChallengeId, accepted'[id] # accepted[id]
  PROVE  \E g \in Goroutine :
           CheckEntry(g) /\ frame[g].id = id /\ Verdict(frame[g]) = "ok"
<1>1. PICK g \in Goroutine : CheckEntry(g)
  BY DEF Next, vars, Generate, Consume, Tick, DrawChallenge, StoreToken, ConsumeEntry, Restart
<1>2. Verdict(frame[g]) = "ok" /\ frame[g].id = id
  BY <1>1 DEF CheckEntry, IInv, TypeOK
<1>3. QED
  BY <1>1, <1>2

\* ValidateToken accepts nothing but the token that was returned for the ID,
\* and within a second of the expiry the client was told (challenge.go:164-172).
THEOREM AcceptanceEarned == Spec => AcceptanceIsEarned
<1>1. IInv /\ [Next]_vars =>
        [\A id \in ChallengeId : accepted'[id] # accepted[id] =>
           /\ handed[id] # NoChallenge
           /\ now < (handed[id].ExpiresAt + 1) * TicksPerSecond
           /\ \E g \in Goroutine : /\ frame[g].pc = "check"
                                   /\ frame[g].presented = handed[id].Token]_vars
  <2> SUFFICES ASSUME IInv, [Next]_vars, NEW id \in ChallengeId, accepted'[id] # accepted[id]
               PROVE  /\ handed[id] # NoChallenge
                      /\ now < (handed[id].ExpiresAt + 1) * TicksPerSecond
                      /\ \E g \in Goroutine : /\ frame[g].pc = "check"
                                              /\ frame[g].presented = handed[id].Token
    OBVIOUS
  <2>1. PICK g \in Goroutine : CheckEntry(g) /\ frame[g].id = id /\ Verdict(frame[g]) = "ok"
    BY AcceptingStep
  <2>2. frame[g].pc = "check" /\ BoundTo(frame[g].entry, handed[id])
    BY <2>1 DEF CheckEntry, IInv, OnePlace, FrameBound, CheckBound
  <2>3. ~(now > frame[g].entry.expiresAt) /\ frame[g].presented = frame[g].entry.token
    BY <2>1 DEF Verdict
  <2>4. handed[id] \in ChallengeToken
    BY <2>2 DEF IInv, TypeOK, BoundTo
  <2>5. handed[id].Token.expiresAt \in Int /\ now \in Int
    BY <2>4 DEF ChallengeToken, Hmac, IInv, TypeOK
  <2>6. handed[id].ExpiresAt = UnixSeconds(handed[id].Token.expiresAt)
    BY <2>2 DEF IInv, OnePlace, HandedBound, BoundTo
  <2>7. now <= handed[id].Token.expiresAt
    BY <2>2, <2>3, <2>5 DEF BoundTo
  <2>8. handed[id].ExpiresAt \in Int
    BY <2>4 DEF ChallengeToken
  <2>9. handed[id].Token.expiresAt < (handed[id].ExpiresAt + 1) * TicksPerSecond
    BY <2>5, <2>6, UnixSecondsBound
  <2>10. (handed[id].ExpiresAt + 1) * TicksPerSecond \in Int
    BY <2>8, ClockAssumption
  <2>11. now < (handed[id].ExpiresAt + 1) * TicksPerSecond
    BY <2>5, <2>7, <2>9, <2>10
  <2>12. QED
    BY <2>2, <2>3, <2>11 DEF BoundTo
<1>2. QED
  BY InitIInv, NextIInv, <1>1, PTL DEF Spec, AcceptanceIsEarned

-----------------------------------------------------------------------------

\* What a challenge looks like to TokenLifecycle depends on what was handed out
\* for it, on whether it was accepted and on where it is, and on nothing else.
LEMMA GrantUnchanged ==
  ASSUME handed' = handed, accepted' = accepted,
         \A id \in ChallengeId : Live(id)' <=> Live(id)
  PROVE  grantOf' = grantOf
BY DEF grantOf

\* It is determined by its values.
LEMMA GrantIsFunction ==
  /\ grantOf = [id \in ChallengeId |-> grantOf[id]]
  /\ grantOf' = [id \in ChallengeId |-> grantOf'[id]]
BY DEF grantOf

\* The manager's steps, one by one, as steps of TokenLifecycle.
LEMMA DrawRefines ==
  ASSUME IInv, NEW g \in Goroutine, NEW c \in Client, NEW id \in ChallengeId,
         DrawChallenge(g, c, id)
  PROVE  UNCHANGED <<now, grantOf>>
<1>1. \A i \in ChallengeId : Live(i)' <=> Live(i)
  BY DEF DrawChallenge, Live, IInv, TypeOK, Idle
<1>2. QED
  BY <1>1, GrantUnchanged DEF DrawChallenge

\* GenerateToken under the lock (challenge.go:124-138) offers a grant.
LEMMA StoreRefines ==
  ASSUME IInv, NEW g \in Goroutine, StoreToken(g)
  PROVE  \E i \in ChallengeId, h \in Client : Lifecycle!Offer(i, h)
<1>1. frame[g] \in StoreFrame /\ StoreBound(frame[g])
  BY FrameCases DEF IInv, TypeOK, StoreToken, OnePlace, FrameBound
<1>2. PICK id \in ChallengeId, c \in Client, start \in 0..now :
        frame[g].id = id /\ frame[g].clientID = c /\ frame[g].expiresAt = start + TTL
  BY <1>1 DEF StoreFrame, StoreBound
<1> DEFINE t == hmacOf(id, c, start + TTL)
<1>3. /\ handed' = [handed EXCEPT ![id] = [ChallengeID |-> id, Token |-> t,
                                           ExpiresAt |-> UnixSeconds(start + TTL)]]
      /\ tokens' = [tokens EXCEPT ![id] = [token |-> t, clientID |-> c,
                                           expiresAt |-> start + TTL]]
      /\ accepted' = accepted /\ now' = now /\ frame' = [frame EXCEPT ![g] = Idle]
  BY <1>2 DEF StoreToken
<1>4. handed[id] = NoChallenge /\ accepted[id] = 0
  BY <1>1, <1>2 DEF IInv, OnePlace, HandedBound, StoreBound
<1>5. handed'[id] # NoChallenge /\ tokens'[id] # NoEntry
  <2>1. start + TTL \in Int
    BY ClockAssumption DEF IInv, TypeOK
  <2>2. t \in Hmac /\ UnixSeconds(start + TTL) \in Int
    BY <2>1, ClockAssumption DEF hmacOf, Hmac, UnixSeconds
  <2>3. handed'[id] \in ChallengeToken /\ tokens'[id] \in TokenEntry
    BY <1>3, <2>1, <2>2 DEF IInv, TypeOK, ChallengeToken, TokenEntry
  <2>4. QED
    BY <2>3, SentinelAssumption
<1>6. grantOf[id] = [state |-> "unused"]
  BY <1>4 DEF grantOf
<1>7. grantOf'[id] = [state |-> "live", holder |-> c, deadline |-> start + TTL]
  <2>1. handed'[id].Token.clientID = c /\ handed'[id].Token.expiresAt = start + TTL
    BY <1>3 DEF IInv, TypeOK, hmacOf
  <2>2. Live(id)'
    BY <1>5 DEF Live
  <2>3. ~(accepted'[id] > 0)
    BY <1>3, <1>4
  <2>4. QED
    BY <1>5, <2>1, <2>2, <2>3 DEF grantOf
<1>8. ASSUME NEW i \in ChallengeId \ {id}
      PROVE  grantOf'[i] = grantOf[i]
  <2>1. handed'[i] = handed[i] /\ tokens'[i] = tokens[i] /\ accepted'[i] = accepted[i]
    BY <1>3 DEF IInv, TypeOK
  <2>2. Live(i)' <=> Live(i)
    BY <1>3, <2>1 DEF StoreToken, Live, IInv, TypeOK, Idle
  <2>3. QED
    BY <2>1, <2>2 DEF grantOf
<1>9. grantOf' = [grantOf EXCEPT ![id] =
                    [state |-> "live", holder |-> c, deadline |-> start + TTL]]
  BY <1>7, <1>8, GrantIsFunction
<1>10. QED
  BY <1>3, <1>6, <1>9 DEF Lifecycle!Offer, Lifecycle!Unused

\* Taking the entry out of the map (challenge.go:152-162) decides nothing yet:
\* the challenge is as live in the locals of the goroutine.
LEMMA ConsumeRefines ==
  ASSUME IInv, NEW g \in Goroutine, NEW id \in ChallengeId, NEW t,
         ConsumeEntry(g, id, t)
  PROVE  UNCHANGED <<now, grantOf>>
<1>1. \A i \in ChallengeId : Live(i)' <=> Live(i)
  <2> SUFFICES ASSUME NEW i \in ChallengeId PROVE Live(i)' <=> Live(i)
    OBVIOUS
  <2>1. frame'[g].pc = "check" /\ frame'[g].id = id /\ frame[g].pc # "check"
        /\ \A h \in Goroutine \ {g} : frame'[h] = frame[h]
    BY DEF ConsumeEntry, IInv, TypeOK, Idle
  <2>2. tokens[id] # NoEntry /\ \A j \in ChallengeId \ {id} : tokens'[j] = tokens[j]
    BY DEF ConsumeEntry, IInv, TypeOK
  <2>3. CASE i = id
    BY <2>1, <2>2, <2>3 DEF Live
  <2>4. CASE i # id
    BY <2>1, <2>2, <2>4 DEF Live
  <2>5. QED
    BY <2>3, <2>4
<1>2. QED
  BY <1>1, GrantUnchanged DEF ConsumeEntry

\* The check after the unlock (challenge.go:164-172) redeems or revokes the grant.
LEMMA CheckRefines ==
  ASSUME IInv, NEW g \in Goroutine, CheckEntry(g)
  PROVE  \E i \in ChallengeId : Lifecycle!Redeem(i) \/ Lifecycle!Revoke({i})
<1>1. frame[g] \in CheckFrame /\ CheckBound(frame[g])
  BY FrameCases DEF IInv, TypeOK, CheckEntry, OnePlace, FrameBound
<1>2. PICK id \in ChallengeId : frame[g].id = id
  BY <1>1 DEF CheckFrame
<1> DEFINE entry == frame[g].entry
           live == [state |-> "live", holder |-> entry.clientID, deadline |-> entry.expiresAt]
<1>3. /\ handed' = handed /\ tokens' = tokens /\ now' = now
      /\ frame' = [frame EXCEPT ![g] = Idle]
  BY DEF CheckEntry
<1>4. /\ BoundTo(entry, handed[id]) /\ tokens[id] = NoEntry /\ accepted[id] = 0
      /\ entry \in TokenEntry
  BY <1>1, <1>2 DEF CheckBound, CheckFrame
<1>5. grantOf[id] = live
  <2>1. Live(id)
    BY <1>2 DEF Live, CheckEntry
  <2>2. ~(accepted[id] > 0)
    BY <1>4
  <2>3. QED
    BY <1>4, <2>1, <2>2 DEF grantOf, BoundTo
<1>6. ~Live(id)'
  <2>1. tokens'[id] = NoEntry
    BY <1>3, <1>4
  <2>2. ASSUME NEW h \in Goroutine PROVE ~(frame'[h].pc = "check" /\ frame'[h].id = id)
    <3>1. CASE h = g
      BY <1>3, <3>1 DEF IInv, TypeOK, Idle
    <3>2. CASE h # g
      BY <1>2, <1>3, <3>2 DEF IInv, TypeOK, OnePlace, Alone, CheckEntry
    <3>3. QED
      BY <3>1, <3>2
  <2>3. QED
    BY <2>1, <2>2 DEF Live
<1>7. ASSUME NEW i \in ChallengeId \ {id}
      PROVE  grantOf'[i] = grantOf[i]
  <2>1. handed'[i] = handed[i] /\ accepted'[i] = accepted[i]
    BY <1>2 DEF CheckEntry, IInv, TypeOK
  <2>2. Live(i)' <=> Live(i)
    BY <1>2, <1>3 DEF CheckEntry, Live, IInv, TypeOK, Idle
  <2>3. QED
    BY <2>1, <2>2 DEF grantOf
<1>8. CASE Verdict(frame[g]) = "ok"
  <2>1. accepted'[id] > 0
    BY <1>2, <1>4, <1>8 DEF CheckEntry, IInv, TypeOK
  <2>2. grantOf'[id] = [live EXCEPT !.state = "redeemed"]
    BY <1>3, <1>4, <2>1 DEF grantOf, BoundTo
  <2>3. grantOf' = [grantOf EXCEPT ![id].state = "redeemed"]
    BY <1>5, <1>7, <2>2, GrantIsFunction
  <2>4. now <= entry.expiresAt
    BY <1>4, <1>8 DEF Verdict, TokenEntry, IInv, TypeOK
  <2>5. Lifecycle!Redeem(id)
    BY <1>3, <1>5, <2>3, <2>4 DEF Lifecycle!Redeem
  <2>6. QED
    BY <2>5
<1>9. CASE Verdict(frame[g]) # "ok"
  <2>1. ~(accepted'[id] > 0)
    BY <1>4, <1>9 DEF CheckEntry, IInv, TypeOK
  <2>2. grantOf'[id] = [live EXCEPT !.state = "revoked"]
    BY <1>3, <1>4, <1>6, <2>1 DEF grantOf, BoundTo
  <2>3. grantOf' = [i \in ChallengeId |-> IF i \in {id}
                                          THEN [grantOf[i] EXCEPT !.state = "revoked"]
                                          ELSE grantOf[i]]
    BY <1>5, <1>7, <2>2, GrantIsFunction
  <2>4. Lifecycle!Revoke({id})
    BY <1>3, <1>5, <2>3 DEF Lifecycle!Revoke
  <2>5. QED
    BY <2>4
<1>10. QED
  BY <1>8, <1>9

\* A restart revokes every grant that was live.
LEMMA RestartRefines == IInv /\ Restart => \E S \in SUBSET ChallengeId : Lifecycle!Revoke(S)
<1> SUFFICES ASSUME IInv, Restart PROVE \E S \in SUBSET ChallengeId : Lifecycle!Revoke(S)
  OBVIOUS
<1> DEFINE S == {id \in ChallengeId : grantOf[id].state = "live"}
<1>1. \A id \in ChallengeId : ~Live(id)'
  BY DEF Restart, Live, Idle
<1>2. ASSUME NEW id \in ChallengeId
      PROVE  grantOf'[id] = IF id \in S THEN [grantOf[id] EXCEPT !.state = "revoked"]
                                        ELSE grantOf[id]
  <2>1. handed'[id] = handed[id] /\ accepted'[id] = accepted[id] /\ ~Live(id)'
    BY <1>1 DEF Restart
  <2>2. CASE handed[id] = NoChallenge
    BY <2>1, <2>2 DEF grantOf
  <2>3. CASE handed[id] # NoChallenge
    BY <2>1, <2>3 DEF grantOf
  <2>4. QED
    BY <2>2, <2>3
<1>3. grantOf' = [id \in ChallengeId |-> IF id \in S
                                         THEN [grantOf[id] EXCEPT !.state = "revoked"]
                                         ELSE grantOf[id]]
  BY <1>2, GrantIsFunction
<1>4. Lifecycle!Revoke(S)
  BY <1>3 DEF Lifecycle!Revoke, Restart
<1>5. QED
  BY <1>4

\* Every step of the manager is a step of TokenLifecycle or leaves it alone.
LEMMA StepRefines ==
  IInv /\ [Next]_vars => [Lifecycle!Next]_<<now, grantOf>>
<1> SUFFICES ASSUME IInv, [Next]_vars PROVE [Lifecycle!Next]_<<now, grantOf>>
  OBVIOUS
<1>1. CASE Tick
  <2>1. \A i \in ChallengeId : Live(i)' <=> Live(i)
    BY <1>1 DEF Tick, Live
  <2>2. grantOf' = grantOf
    BY <1>1, <2>1, GrantUnchanged DEF Tick
  <2>3. QED
    BY <1>1, <2>2 DEF Tick, Lifecycle!Next, Lifecycle!Advance
<1>2. CASE \E g \in Goroutine : Generate(g) \/ Consume(g)
  BY <1>2, DrawRefines, ConsumeRefines DEF Generate, Consume
<1>3. ASSUME NEW g \in Goroutine, StoreToken(g)
      PROVE  Lifecycle!Next
  BY <1>3, StoreRefines DEF Lifecycle!Next
<1>4. ASSUME NEW g \in Goroutine, CheckEntry(g)
      PROVE  Lifecycle!Next
  <2>1. PICK i \in ChallengeId : Lifecycle!Redeem(i) \/ Lifecycle!Revoke({i})
    BY <1>4, CheckRefines
  <2>2. {i} \in SUBSET ChallengeId
    OBVIOUS
  <2>3. QED
    BY <2>1, <2>2 DEF Lifecycle!Next
<1>5. CASE Restart
  BY <1>5, RestartRefines DEF Lifecycle!Next
<1>6. CASE UNCHANGED vars
  <2>1. \A i \in ChallengeId : Live(i)' <=> Live(i)
    BY <1>6 DEF vars, Live
  <2>2. QED
    BY <1>6, <2>1, GrantUnchanged DEF vars
<1>7. QED
  BY <1>1, <1>2, <1>3, <1>4, <1>5, <1>6 DEF Next

\* Nothing was offered when the manager starts.
LEMMA InitRefines == Init => Lifecycle!Init
BY DEF Init, Lifecycle!Init, Lifecycle!Unused, grantOf

\* The manager implements its abstract specification: what TokenLifecycle
\* allows to be seen of a challenge is all that can be seen of it, for every
\* number of handlers and across restarts.
THEOREM ManagerImplementsLifecycle == Spec => ImplementsLifecycle
<1>1. QED
  BY InitIInv, NextIInv, InitRefines, StepRefines, PTL
     DEF Spec, ImplementsLifecycle, Lifecycle!Spec
=============================================================================
