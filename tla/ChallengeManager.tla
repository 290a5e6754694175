-------------------------- MODULE ChallengeManager --------------------------
(***************************************************************************)
(* internal/challenge: the token map of Manager, shared by the goroutines  *)
(* of the gRPC handlers.                                                   *)
(*                                                                         *)
(* GenerateToken reads the clock before it takes the mutex and stores the  *)
(* entry under it; ValidateToken takes the entry out of the map under the  *)
(* mutex and reads the clock and compares the HMAC after releasing it.     *)
(* Each of these two calls is therefore two steps, and other goroutines,   *)
(* the clock and a restart of the process may come in between.             *)
(*                                                                         *)
(* The HMAC is modelled as what the code uses it for: an injective         *)
(* function of challenge ID, client ID and expiry.  rand.Read is modelled  *)
(* as never drawing the same 16 bytes twice.                               *)
(***************************************************************************)
EXTENDS Integers

CONSTANTS
  Client,          \* client IDs
  ChallengeId,     \* the values 16 random bytes may take
  Goroutine,       \* handler goroutines that may be inside the manager at once
  TTL,             \* cfg.TokenTTL, in ticks
  TicksPerSecond,  \* expiresAt.Unix() drops what is below a second
  MaxTime,         \* bound of the model: the clock stops here
  NoEntry,         \* m.tokens has no such key
  NoChallenge,     \* nothing was ever returned for this ID
  WrongToken       \* a presented token that no GenerateToken computed

VARIABLES
  now,       \* time.Now(), in ticks
  tokens,    \* Manager.tokens
  frame,     \* what each goroutine holds in its locals inside the manager
  drawn,     \* challenge IDs that rand.Read has produced
  handed,    \* the ChallengeToken returned for an ID (history)
  accepted   \* how often ValidateToken returned nil for an ID (history)

vars == <<now, tokens, frame, drawn, handed, accepted>>

Hmac == [id : ChallengeId, clientID : Client, expiresAt : Int]
TokenEntry == [token : Hmac, clientID : Client, expiresAt : Int]
ChallengeToken == [ChallengeID : ChallengeId, Token : Hmac, ExpiresAt : Int]

\* The locals of GenerateToken between time.Now() and the lock, and those of
\* ValidateToken between the unlock and its return.
Idle == [pc |-> "idle"]
StoreFrame == [pc : {"store"}, id : ChallengeId, clientID : Client, expiresAt : Int]
CheckFrame == [pc : {"check"}, id : ChallengeId, entry : TokenEntry,
               presented : Hmac \union {WrongToken}]
Frame == {Idle} \union StoreFrame \union CheckFrame

ASSUME ClockAssumption ==
  TTL \in Int /\ TicksPerSecond \in Nat \ {0} /\ MaxTime \in Nat

ASSUME SentinelAssumption ==
  NoEntry \notin TokenEntry /\ NoChallenge \notin ChallengeToken /\ WrongToken \notin Hmac

-----------------------------------------------------------------------------

hmacOf(id, c, e) == [id |-> id, clientID |-> c, expiresAt |-> e]

UnixSeconds(t) == t \div TicksPerSecond

(* Faults the code does not have, each of which breaks a property below. *)

\* The "if exists" around the lookup is forgotten.
ConsumeEntry_Unchecked(g, id, presented) ==
  /\ frame[g] = Idle
  /\ frame' = [frame EXCEPT ![g] =
                 [pc |-> "check", id |-> id, entry |-> tokens[id], presented |-> presented]]
  /\ tokens' = [tokens EXCEPT ![id] = NoEntry]
  /\ UNCHANGED <<now, drawn, handed, accepted>>

\* The entry is only looked up under the lock and left in the map.
ConsumeEntry_Lookup(g, id, presented) ==
  /\ frame[g] = Idle
  /\ tokens[id] # NoEntry
  /\ frame' = [frame EXCEPT ![g] =
                 [pc |-> "check", id |-> id, entry |-> tokens[id], presented |-> presented]]
  /\ UNCHANGED <<now, tokens, drawn, handed, accepted>>

\* The challenge ID is too short, or its source of randomness repeats itself.
DrawChallenge_Repeating(g, c, id) ==
  /\ frame[g] = Idle
  /\ drawn' = drawn \union {id}
  /\ frame' = [frame EXCEPT ![g] =
                 [pc |-> "store", id |-> id, clientID |-> c, expiresAt |-> now + TTL]]
  /\ UNCHANGED <<now, tokens, handed, accepted>>

\* The token is not compared: knowing the challenge ID is enough.
Verdict_AnyToken(f) == IF now > f.entry.expiresAt THEN "expired" ELSE "ok"

\* Expiry is compared in the whole seconds of ExpiresAt.
Verdict_BySecond(f) ==
  IF UnixSeconds(now) > UnixSeconds(f.entry.expiresAt) THEN "expired"
  ELSE IF f.presented # f.entry.token THEN "invalid"
  ELSE "ok"

-----------------------------------------------------------------------------

\* GetClientID: the client behind a challenge that is still in the map.
GetClientID(id, none) == IF tokens[id] = NoEntry THEN none ELSE tokens[id].clientID

\* What ValidateToken returns once it holds the entry: expiry is looked at
\* before the HMAC.
Verdict(f) ==
  IF now > f.entry.expiresAt THEN "expired"
  ELSE IF f.presented # f.entry.token THEN "invalid"
  ELSE "ok"

Init ==
  /\ now = 0
  /\ tokens = [id \in ChallengeId |-> NoEntry]
  /\ frame = [g \in Goroutine |-> Idle]
  /\ drawn = {}
  /\ handed = [id \in ChallengeId |-> NoChallenge]
  /\ accepted = [id \in ChallengeId |-> 0]

Tick ==
  /\ now < MaxTime
  /\ now' = now + 1
  /\ UNCHANGED <<tokens, frame, drawn, handed, accepted>>

\* GenerateToken up to the lock: draw an ID, read the clock, compute the HMAC.
DrawChallenge(g, c, id) ==
  /\ frame[g] = Idle
  /\ id \notin drawn
  /\ drawn' = drawn \union {id}
  /\ frame' = [frame EXCEPT ![g] =
                 [pc |-> "store", id |-> id, clientID |-> c, expiresAt |-> now + TTL]]
  /\ UNCHANGED <<now, tokens, handed, accepted>>

\* GenerateToken under the lock, and its return to the caller.
StoreToken(g) ==
  /\ frame[g].pc = "store"
  /\ LET f == frame[g]
         t == hmacOf(f.id, f.clientID, f.expiresAt)
     IN  /\ tokens' = [tokens EXCEPT ![f.id] =
                         [token |-> t, clientID |-> f.clientID, expiresAt |-> f.expiresAt]]
         /\ handed' = [handed EXCEPT ![f.id] =
                         [ChallengeID |-> f.id, Token |-> t,
                          ExpiresAt |-> UnixSeconds(f.expiresAt)]]
  /\ frame' = [frame EXCEPT ![g] = Idle]
  /\ UNCHANGED <<now, drawn, accepted>>

\* ValidateToken under the lock.  For an ID that is not in the map it returns
\* "unknown challenge ID" and changes nothing.
ConsumeEntry(g, id, presented) ==
  /\ frame[g] = Idle
  /\ tokens[id] # NoEntry
  /\ frame' = [frame EXCEPT ![g] =
                 [pc |-> "check", id |-> id, entry |-> tokens[id], presented |-> presented]]
  /\ tokens' = [tokens EXCEPT ![id] = NoEntry]
  /\ UNCHANGED <<now, drawn, handed, accepted>>

\* ValidateToken after the unlock: it has the entry to itself and decides.
CheckEntry(g) ==
  /\ frame[g].pc = "check"
  /\ accepted' = IF Verdict(frame[g]) = "ok"
                 THEN [accepted EXCEPT ![frame[g].id] = @ + 1]
                 ELSE accepted
  /\ frame' = [frame EXCEPT ![g] = Idle]
  /\ UNCHANGED <<now, tokens, drawn, handed>>

\* The process dies and NewManager starts over with an empty map.  What the
\* clients hold, and what was decided before, stays as it was.
Restart ==
  /\ tokens' = [id \in ChallengeId |-> NoEntry]
  /\ frame' = [g \in Goroutine |-> Idle]
  /\ UNCHANGED <<now, drawn, handed, accepted>>

\* A caller may present any token that was handed out, for any ID, or garbage.
Presentable ==
  {handed[id].Token : id \in {i \in ChallengeId : handed[i] # NoChallenge}} \union {WrongToken}

Generate(g) == \E c \in Client, id \in ChallengeId : DrawChallenge(g, c, id)
Consume(g) == \E id \in ChallengeId, t \in Presentable : ConsumeEntry(g, id, t)

Next ==
  \/ Tick
  \/ \E g \in Goroutine : Generate(g) \/ StoreToken(g) \/ Consume(g) \/ CheckEntry(g)
  \/ Restart

Spec == Init /\ [][Next]_vars

-----------------------------------------------------------------------------

\* Every variable stays in the shape Manager and its callers give it.
TypeOK ==
  /\ now \in 0..MaxTime
  /\ tokens \in [ChallengeId -> TokenEntry \union {NoEntry}]
  /\ frame \in [Goroutine -> Frame]
  /\ drawn \subseteq ChallengeId
  /\ handed \in [ChallengeId -> ChallengeToken \union {NoChallenge}]
  /\ accepted \in [ChallengeId -> Nat]

\* challenge.go:151 "Tokens are single-use": whatever the goroutines that
\* present one ID do between the unlock and the check, ValidateToken returns
\* nil for that ID at most once, before and after a restart.
SingleUse == \A id \in ChallengeId : accepted[id] <= 1

\* The parts of the inductive invariant.  The names of challenges:
\* one is returned to a client only after it was drawn, and nothing is in the
\* map or was ever accepted under a name that was not returned.
HandedBound ==
  \A id \in ChallengeId :
    /\ handed[id] = NoChallenge => tokens[id] = NoEntry /\ accepted[id] = 0
    /\ handed[id] # NoChallenge =>
         /\ id \in drawn
         /\ handed[id].ExpiresAt = UnixSeconds(handed[id].Token.expiresAt)

\* The map: an entry is the challenge its client was told of, not yet accepted.
BoundTo(entry, challenge) ==
  /\ challenge # NoChallenge
  /\ entry.token = challenge.Token
  /\ entry.clientID = challenge.Token.clientID
  /\ entry.expiresAt = challenge.Token.expiresAt

MapBound ==
  \A id \in ChallengeId :
    tokens[id] # NoEntry => BoundTo(tokens[id], handed[id]) /\ accepted[id] = 0

\* The goroutines: what is about to be stored is not known to anybody yet, and
\* what is being checked has left the map.
StoreBound(f) ==
  /\ f.id \in drawn
  /\ handed[f.id] = NoChallenge
  /\ \E start \in 0..now : f.expiresAt = start + TTL

CheckBound(f) ==
  /\ BoundTo(f.entry, handed[f.id])
  /\ tokens[f.id] = NoEntry
  /\ accepted[f.id] = 0

FrameBound ==
  \A g \in Goroutine : /\ frame[g].pc = "store" => StoreBound(frame[g])
                       /\ frame[g].pc = "check" => CheckBound(frame[g])

\* No two goroutines hold the same challenge, whether to store or to check it.
Alone ==
  \A g, h \in Goroutine :
    frame[g].pc # "idle" /\ frame[h].pc # "idle" /\ frame[g].id = frame[h].id => g = h

\* A challenge lives in one place: in the map, in the locals of the one
\* goroutine that took it out or is about to store it, or nowhere and then for
\* good; and wherever it lives it is the challenge its client was told of.
OnePlace == HandedBound /\ MapBound /\ FrameBound /\ Alone

\* ValidateToken says yes only to the very token that GenerateToken returned
\* for this ID, and less than a second after the Unix timestamp the client was
\* told (challenge.go:136 drops the fraction, ERD.md:163 "dies after this").
AcceptanceIsEarned ==
  [][\A id \in ChallengeId : accepted'[id] # accepted[id] =>
       /\ handed[id] # NoChallenge
       /\ now < (handed[id].ExpiresAt + 1) * TicksPerSecond
       /\ \E g \in Goroutine : /\ frame[g].pc = "check"
                               /\ frame[g].presented = handed[id].Token]_vars

\* The holder, the deadline and the fate of a challenge as TokenLifecycle
\* sees them.  A challenge is live while it is in the map or being checked.
Live(id) ==
  \/ tokens[id] # NoEntry
  \/ \E g \in Goroutine : frame[g].pc = "check" /\ frame[g].id = id

grantOf ==
  [id \in ChallengeId |->
     IF handed[id] = NoChallenge THEN [state |-> "unused"]
     ELSE [state    |-> IF accepted[id] > 0 THEN "redeemed"
                        ELSE IF Live(id) THEN "live" ELSE "revoked",
           holder   |-> handed[id].Token.clientID,
           deadline |-> handed[id].Token.expiresAt]]

Lifecycle == INSTANCE TokenLifecycle WITH
  GrantId <- ChallengeId, Holder <- Client, Lifetime <- TTL,
  time <- now, grant <- grantOf

\* The manager keeps the promise of TokenLifecycle through every interleaving.
ImplementsLifecycle == Lifecycle!Spec
=============================================================================
