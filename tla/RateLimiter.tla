---------------------------- MODULE RateLimiter ----------------------------
(***************************************************************************)
(* internal/ratelimit: one window per key.  Allow holds the mutex from the *)
(* reading of the clock to its return, so a call is one step; the order of *)
(* the calls of all handlers is the order in which they get the mutex.     *)
(***************************************************************************)
EXTENDS Integers, Sequences

CONSTANTS
  Key,          \* values of x-client-id, peer addresses and "unknown": one string type
  Unknown,      \* the key "unknown"
  Absent,       \* no x-client-id in the metadata, or no peer in the context
  MaxRequests,  \* cfg.RateLimitMax, which may be zero or negative
  Window,       \* cfg.RateLimitWindow, in ticks
  MaxTime,      \* bound of the model: the clock stops here
  NoWindow,     \* l.clients has no such key
  Never         \* no call with this key was refused yet

VARIABLES
  now,       \* time.Now(), in ticks
  clients,   \* Limiter.clients
  stamps,    \* when the calls of each key were allowed (history)
  refusedAt  \* when a call of each key was last refused (history)

vars == <<now, clients, stamps, refusedAt>>

clientWindow == [count : Int, windowAt : Int]
Request == [id : Key \union {Absent}, peer : Key \union {Absent}]

ASSUME LimiterAssumption ==
  /\ MaxRequests \in Int /\ Window \in Int /\ MaxTime \in Nat
  /\ Unknown \in Key /\ Absent \notin Key
  /\ NoWindow \notin clientWindow /\ Never \notin Int

\* The first call of a window is allowed whatever MaxRequests says.
Budget == IF MaxRequests > 1 THEN MaxRequests ELSE 1

-----------------------------------------------------------------------------
(* Faults the code does not have, each of which breaks a property below. *)

\* The comparison with the maximum admits one call more.
Exhausted_OffByOne(k) == clients[k].count > MaxRequests

\* A new window forgets to count the call that opens it.
OpenWindow_Uncounted(k) ==
  clients' = [clients EXCEPT ![k] = [count |-> 0, windowAt |-> now]]

\* A refused call starts the wait again.
Refuse_Restarts(k) == clients' = [clients EXCEPT ![k].windowAt = now]

\* A new window is stored without its start, the zero time.
OpenWindow_NoStart(k) ==
  clients' = [clients EXCEPT ![k] = [count |-> 1, windowAt |-> Never]]

-----------------------------------------------------------------------------

extractClientKey(r) ==
  IF r.id # Absent THEN r.id ELSE IF r.peer # Absent THEN r.peer ELSE Unknown

\* The three ways through Allow, as they change l.clients.
Running(k) == clients[k] # NoWindow /\ now - clients[k].windowAt < Window
Exhausted(k) == clients[k].count >= MaxRequests

OpenWindow(k) == clients' = [clients EXCEPT ![k] = [count |-> 1, windowAt |-> now]]
CountUp(k) == clients' = [clients EXCEPT ![k].count = @ + 1]
Refuse(k) == UNCHANGED clients

Grants(k) == \/ ~Running(k) /\ OpenWindow(k)
             \/ Running(k) /\ ~Exhausted(k) /\ CountUp(k)
Denies(k) == Running(k) /\ Exhausted(k) /\ Refuse(k)

\* UnaryInterceptor: the request gets its key and goes to the handler, or is
\* answered with ResourceExhausted.
Admit(r) ==
  /\ Grants(extractClientKey(r))
  /\ stamps' = [stamps EXCEPT ![extractClientKey(r)] = Append(@, now)]
  /\ UNCHANGED <<now, refusedAt>>

Turn(r) ==
  /\ Denies(extractClientKey(r))
  /\ refusedAt' = [refusedAt EXCEPT ![extractClientKey(r)] = now]
  /\ UNCHANGED <<now, stamps>>

Tick ==
  /\ now < MaxTime
  /\ now' = now + 1
  /\ UNCHANGED <<clients, stamps, refusedAt>>

Init ==
  /\ now = 0
  /\ clients = [k \in Key |-> NoWindow]
  /\ stamps = [k \in Key |-> <<>>]
  /\ refusedAt = [k \in Key |-> Never]

Next == Tick \/ \E r \in Request : Admit(r) \/ Turn(r)

Spec == Init /\ [][Next]_vars

-----------------------------------------------------------------------------

\* Every variable stays in the shape Limiter gives it; a key is always one of
\* the strings extractClientKey may return.
TypeOK ==
  /\ now \in 0..MaxTime
  /\ clients \in [Key -> clientWindow \union {NoWindow}]
  /\ stamps \in [Key -> Seq(0..MaxTime)]
  /\ refusedAt \in [Key -> (0..MaxTime) \union {Never}]

\* The limiter counts in fixed windows that open with a call, so a burst at
\* the end of one and another at the start of the next are both allowed.  What
\* it does guarantee: no Window ticks ever hold 2 * Budget allowed calls of one
\* key (and 2 * Budget - 1 they may hold).
BurstBound ==
  \A k \in Key : \A i \in 1..Len(stamps[k]) :
    i + 2 * Budget - 1 <= Len(stamps[k])
      => stamps[k][i] + Window <= stamps[k][i + 2 * Budget - 1]

\* A key is refused only while a whole budget of its calls was allowed in the
\* Window ticks before: refused calls neither cost budget nor prolong the wait.
RefusalEarned ==
  \A k \in Key : refusedAt[k] # Never =>
    \E i \in 1..Len(stamps[k]) :
      /\ i + Budget - 1 <= Len(stamps[k])
      /\ stamps[k][i] + Window > refusedAt[k]
      /\ stamps[k][i + Budget - 1] <= refusedAt[k]

\* The other parts of the inductive invariant: calls are recorded in order ...
InOrder ==
  \A k \in Key : \A i \in 1..Len(stamps[k]) :
    /\ stamps[k][i] <= now
    /\ \A j \in i..Len(stamps[k]) : stamps[k][i] <= stamps[k][j]

\* ... the window of a key is the tail of its calls that count says, opened by
\* the first of them, and the window before it opened Window ticks earlier and
\* no more than a budget of calls before.
Opening(k) == Len(stamps[k]) - clients[k].count + 1

WindowIsTail ==
  \A k \in Key :
    /\ clients[k] = NoWindow => stamps[k] = <<>>
    /\ clients[k] # NoWindow =>
         /\ clients[k].count \in 1..Budget
         /\ Opening(k) \in 1..Len(stamps[k])
         /\ clients[k].windowAt = stamps[k][Opening(k)]
         /\ Opening(k) > 1 =>
              \E p \in 1..(Opening(k) - 1) :
                /\ Opening(k) - p <= Budget
                /\ stamps[k][p] + Window <= clients[k].windowAt

WindowInv == InOrder /\ WindowIsTail
=============================================================================
