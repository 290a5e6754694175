-------------------------- MODULE RateLimiterProofs --------------------------
(***************************************************************************)
(* Theorems about RateLimiter for every set of keys, every maximum and     *)
(* every length of the window, zero and negative ones included.            *)
(***************************************************************************)
EXTENDS RateLimiter, TLAPS

\* The inductive invariant: the bound on bursts needs to know where in the
\* history the running window and the one before it were opened.
IInv == TypeOK /\ WindowInv /\ BurstBound /\ RefusalEarned

\* The first call of a window is free, so the budget is at least one.
LEMMA BudgetType == Budget \in Nat \ {0} /\ MaxRequests <= Budget
BY LimiterAssumption DEF Budget

\* Whatever the metadata and the peer of a request, it has a key.
LEMMA KeyType == \A r \in Request : extractClientKey(r) \in Key
BY LimiterAssumption DEF Request, extractClientKey

\* The recorded times of a key are instants of the clock.
LEMMA StampType ==
  ASSUME TypeOK, NEW k \in Key
  PROVE  /\ stamps[k] \in Seq(0..MaxTime)
         /\ Len(stamps[k]) \in Nat
         /\ \A i \in 1..Len(stamps[k]) : stamps[k][i] \in 0..MaxTime
<1>1. stamps[k] \in Seq(0..MaxTime)
  BY DEF TypeOK
<1>2. QED
  BY <1>1, LimiterAssumption

\* Nothing was called yet.
LEMMA InitIInv == Init => IInv
<1> SUFFICES ASSUME Init PROVE IInv
  OBVIOUS
<1>1. TypeOK
  BY LimiterAssumption DEF Init, TypeOK
<1>2. WindowInv
  BY DEF Init, WindowInv, InOrder, WindowIsTail
<1>3. BurstBound
  BY DEF Init, BurstBound
<1>4. RefusalEarned
  BY DEF Init, RefusalEarned
<1>5. QED
  BY <1>1, <1>2, <1>3, <1>4 DEF IInv

\* The clock moves and nothing else does.
LEMMA TickKeeps == IInv /\ Tick => IInv'
<1> SUFFICES ASSUME IInv, Tick PROVE IInv'
  OBVIOUS
<1> USE DEF IInv
<1>1. TypeOK'
  BY LimiterAssumption DEF Tick, TypeOK
<1>2. InOrder'
  <2> SUFFICES ASSUME NEW k \in Key, NEW i \in 1..Len(stamps[k])
               PROVE  /\ stamps[k][i] <= now'
                      /\ \A j \in i..Len(stamps[k]) : stamps[k][i] <= stamps[k][j]
    BY DEF InOrder, Tick
  <2>1. stamps[k][i] <= now /\ stamps[k][i] \in Int /\ now \in Int
    BY StampType DEF InOrder, WindowInv, TypeOK
  <2>2. now' = now + 1
    BY DEF Tick
  <2>3. \A j \in i..Len(stamps[k]) : stamps[k][i] <= stamps[k][j]
    BY DEF InOrder, WindowInv
  <2>4. QED
    BY <2>1, <2>2, <2>3
<1>3. WindowIsTail' /\ BurstBound' /\ RefusalEarned'
  BY DEF Tick, WindowInv, WindowIsTail, Opening, BurstBound, RefusalEarned
<1>4. QED
  BY <1>1, <1>2, <1>3 DEF WindowInv

\* A call that is allowed, in the running window or in a new one.
LEMMA AdmitKeeps ==
  ASSUME IInv, NEW r \in Request, Admit(r)
  PROVE  IInv'
<1>1. PICK k \in Key : k = extractClientKey(r)
  BY KeyType
<1>2. PICK n \in Nat : n = Len(stamps[k])
  BY DEF IInv, TypeOK
<1>3. /\ now \in Nat /\ stamps[k] \in Seq(0..MaxTime)
      /\ \A i \in 1..n : stamps[k][i] \in 0..MaxTime /\ stamps[k][i] <= now
  <2>1. now \in Nat /\ TypeOK
    BY DEF IInv, TypeOK
  <2>2. QED
    BY <1>2, <2>1, StampType DEF IInv, WindowInv, InOrder
<1>4. /\ stamps'[k] = Append(stamps[k], now) /\ now' = now /\ refusedAt' = refusedAt
      /\ \A j \in Key \ {k} : stamps'[j] = stamps[j]
  BY <1>1 DEF Admit, IInv, TypeOK
<1>5. /\ Len(stamps'[k]) = n + 1
      /\ stamps'[k][n + 1] = now
      /\ \A i \in 1..n : stamps'[k][i] = stamps[k][i]
  BY <1>2, <1>3, <1>4
<1>6. /\ \A j \in Key \ {k} : clients'[j] = clients[j]
      /\ \/ ~Running(k) /\ clients'[k] = [count |-> 1, windowAt |-> now]
         \/ /\ Running(k) /\ ~Exhausted(k)
            /\ clients'[k] = [clients[k] EXCEPT !.count = @ + 1]
  BY <1>1 DEF Admit, Grants, OpenWindow, CountUp, IInv, TypeOK
<1>7. TypeOK' /\ clients'[k] \in clientWindow
  <2>1. clients'[k] \in clientWindow
    BY <1>1, <1>3, <1>6 DEF IInv, TypeOK, clientWindow, Running
  <2>2. clients' \in [Key -> clientWindow \union {NoWindow}]
    BY <1>1, <1>6, <2>1 DEF IInv, TypeOK, Admit, Grants, OpenWindow, CountUp
  <2>3. stamps' \in [Key -> Seq(0..MaxTime)]
    BY <1>1, <1>3, <1>4 DEF IInv, TypeOK, Admit
  <2>4. QED
    BY <1>4, <2>1, <2>2, <2>3 DEF IInv, TypeOK
<1>8. InOrder'
  <2> SUFFICES ASSUME NEW j \in Key, NEW i \in 1..Len(stamps'[j])
               PROVE  /\ stamps'[j][i] <= now
                      /\ \A m \in i..Len(stamps'[j]) : stamps'[j][i] <= stamps'[j][m]
    BY <1>4 DEF InOrder
  <2>1. CASE j # k
    BY <1>4, <2>1 DEF IInv, WindowInv, InOrder
  <2>2. CASE j = k /\ i = n + 1
    BY <1>3, <1>5, <2>2
  <2>3. CASE j = k /\ i \in 1..n
    <3>1. stamps'[k][i] = stamps[k][i] /\ stamps[k][i] <= now
      BY <1>3, <1>5, <2>3
    <3>2. ASSUME NEW m \in i..(n + 1) PROVE stamps'[k][i] <= stamps'[k][m]
      <4>1. CASE m = n + 1
        BY <1>5, <3>1, <4>1
      <4>2. CASE m \in i..n
        BY <1>2, <1>5, <2>3, <3>1, <4>2 DEF IInv, WindowInv, InOrder
      <4>3. QED
        BY <1>2, <2>3, <4>1, <4>2
    <3>3. QED
      BY <1>5, <2>3, <3>1, <3>2
  <2>4. QED
    BY <1>2, <1>5, <2>1, <2>2, <2>3
<1>9. WindowIsTail'
  <2> SUFFICES ASSUME NEW j \in Key
               PROVE  /\ clients'[j] = NoWindow => stamps'[j] = <<>>
                      /\ clients'[j] # NoWindow =>
                           /\ clients'[j].count \in 1..Budget
                           /\ Opening(j)' \in 1..Len(stamps'[j])
                           /\ clients'[j].windowAt = stamps'[j][Opening(j)']
                           /\ Opening(j)' > 1 =>
                                \E p \in 1..(Opening(j)' - 1) :
                                  /\ Opening(j)' - p <= Budget
                                  /\ stamps'[j][p] + Window <= clients'[j].windowAt
    BY DEF WindowIsTail
  <2>1. CASE j # k
    BY <1>4, <1>6, <2>1 DEF IInv, WindowInv, WindowIsTail, Opening
  <2>2. CASE j = k /\ Running(k)
    <3>1. /\ clients'[k] # NoWindow /\ clients'[k].count = clients[k].count + 1
          /\ clients'[k].windowAt = clients[k].windowAt
          /\ clients[k].count \in Int /\ clients[k].windowAt \in Int
          /\ clients[k] # NoWindow
      BY <1>6, <1>7, <2>2, LimiterAssumption DEF IInv, TypeOK, clientWindow, Running
    <3>2. /\ Opening(k)' = Opening(k) /\ Opening(k) \in 1..n
          /\ clients[k].windowAt = stamps[k][Opening(k)]
      <4>1. /\ Opening(k) = n - clients[k].count + 1
            /\ Opening(k)' = (n + 1) - clients'[k].count + 1
        BY <1>2, <1>5 DEF Opening
      <4>2. Opening(k)' = Opening(k)
        BY <3>1, <4>1
      <4>3. QED
        BY <1>2, <3>1, <4>2 DEF IInv, WindowInv, WindowIsTail
    <3>3. clients'[k].count \in 1..Budget
      BY <1>6, <2>2, <3>1, BudgetType, LimiterAssumption
         DEF Exhausted, IInv, WindowInv, WindowIsTail, Budget
    <3>4. clients'[k].windowAt = stamps'[k][Opening(k)']
      BY <1>5, <3>1, <3>2
    <3>5. ASSUME Opening(k)' > 1
          PROVE  \E p \in 1..(Opening(k)' - 1) :
                   /\ Opening(k)' - p <= Budget
                   /\ stamps'[k][p] + Window <= clients'[k].windowAt
      <4>1. PICK p \in 1..(Opening(k) - 1) :
              Opening(k) - p <= Budget /\ stamps[k][p] + Window <= clients[k].windowAt
        BY <3>1, <3>2, <3>5 DEF IInv, WindowInv, WindowIsTail
      <4>2. p \in 1..n
        BY <3>2
      <4>3. QED
        BY <1>5, <3>1, <3>2, <4>1, <4>2
    <3>6. Opening(k)' \in 1..Len(stamps'[k])
      BY <1>5, <3>2
    <3>7. QED
      BY <2>2, <3>1, <3>3, <3>4, <3>5, <3>6
  <2>3. CASE j = k /\ ~Running(k)
    <3>1. clients'[k] = [count |-> 1, windowAt |-> now] /\ clients'[k] # NoWindow
      BY <1>3, <1>6, <2>3, LimiterAssumption DEF clientWindow
    <3>2. Opening(k)' = n + 1
      BY <1>2, <1>5, <3>1 DEF Opening
    <3>3. ASSUME n >= 1
          PROVE  \E p \in 1..n : n + 1 - p <= Budget /\ stamps'[k][p] + Window <= now
      <4>1. clients[k] # NoWindow
        BY <1>2, <3>3 DEF IInv, WindowInv, WindowIsTail
      <4>2. /\ Opening(k) \in 1..n /\ n + 1 - Opening(k) = clients[k].count
            /\ clients[k].count <= Budget /\ clients[k].windowAt = stamps[k][Opening(k)]
        BY <1>2, <4>1, BudgetType DEF IInv, WindowInv, WindowIsTail, Opening
      <4>3. stamps[k][Opening(k)] + Window <= now
        BY <1>3, <2>3, <4>1, <4>2, LimiterAssumption DEF Running
      <4>4. QED
        BY <1>5, <4>2, <4>3
    <3>4. QED
      BY <1>2, <1>5, <2>3, <3>1, <3>2, <3>3, BudgetType
  <2>4. QED
    BY <2>1, <2>2, <2>3
<1>10. BurstBound'
  <2> SUFFICES ASSUME NEW j \in Key, NEW i \in 1..Len(stamps'[j]),
                      i + 2 * Budget - 1 <= Len(stamps'[j])
               PROVE  stamps'[j][i] + Window <= stamps'[j][i + 2 * Budget - 1]
    BY DEF BurstBound
  <2>1. CASE j # k
    BY <1>4, <2>1 DEF IInv, BurstBound
  <2>2. CASE j = k /\ i + 2 * Budget - 1 <= n
    <3>1. i \in 1..n /\ i + 2 * Budget - 1 \in 1..n
      BY <1>2, <2>2, BudgetType
    <3>2. stamps[k][i] + Window <= stamps[k][i + 2 * Budget - 1]
      BY <1>2, <2>2, <3>1 DEF IInv, BurstBound
    <3>3. QED
      BY <1>5, <2>2, <3>1, <3>2
  <2>3. CASE j = k /\ i + 2 * Budget - 1 = n + 1
    <3>1. clients'[k] # NoWindow
      BY <1>7, LimiterAssumption
    <3>2. PICK o \in 1..(n + 1) : o = Opening(k)'
      BY <1>5, <1>9, <3>1 DEF WindowIsTail
    <3>3. PICK c \in 1..Budget : c = clients'[k].count
      BY <1>9, <3>1 DEF WindowIsTail
    <3>4. o = (n + 1) - c + 1
      BY <1>5, <3>2, <3>3 DEF Opening
    <3>5. PICK w \in Int : w = clients'[k].windowAt
      BY <1>7 DEF clientWindow
    <3>6. w = stamps'[k][o]
      BY <1>9, <3>1, <3>2, <3>5 DEF WindowIsTail
    <3>7. i + Budget <= o /\ i \in 1..n /\ o > 1
      BY <1>2, <2>3, <3>4, BudgetType
    <3>8. PICK p \in 1..(o - 1) : o - p <= Budget /\ stamps'[k][p] + Window <= w
      BY <1>9, <3>1, <3>2, <3>5, <3>7 DEF WindowIsTail
    <3>9. i <= p /\ p \in 1..n
      BY <3>7, <3>8, BudgetType
    <3>10. stamps'[k][i] <= stamps'[k][p]
      BY <1>2, <1>5, <1>8, <3>7, <3>9 DEF InOrder
    <3>11. w <= now
      BY <1>4, <1>5, <1>8, <3>2, <3>6 DEF InOrder
    <3>12. stamps'[k][i] \in Int /\ stamps'[k][p] \in Int
      <4>1. stamps'[k][i] = stamps[k][i] /\ stamps'[k][p] = stamps[k][p]
        BY <1>5, <3>7, <3>9
      <4>2. stamps[k][i] \in 0..MaxTime /\ stamps[k][p] \in 0..MaxTime
        BY <1>3, <3>7, <3>9
      <4>3. QED
        BY <4>1, <4>2, LimiterAssumption
    <3>13. Window \in Int /\ now \in Int
      BY <1>3, LimiterAssumption
    <3>14. stamps'[k][i] + Window <= now
      BY <3>8, <3>10, <3>11, <3>12, <3>13
    <3>15. QED
      BY <1>5, <2>3, <3>14
  <2>4. i + 2 * Budget - 1 \in Int /\ (j = k => i + 2 * Budget - 1 <= n + 1)
    BY <1>5, BudgetType
  <2>5. QED
    BY <1>2, <2>1, <2>2, <2>3, <2>4
<1>11. RefusalEarned'
  <2> SUFFICES ASSUME NEW j \in Key, refusedAt[j] # Never
               PROVE  \E i \in 1..Len(stamps'[j]) :
                        /\ i + Budget - 1 <= Len(stamps'[j])
                        /\ stamps'[j][i] + Window > refusedAt[j]
                        /\ stamps'[j][i + Budget - 1] <= refusedAt[j]
    BY <1>4 DEF RefusalEarned
  <2>1. CASE j # k
    BY <1>4, <2>1 DEF IInv, RefusalEarned
  <2>2. CASE j = k
    <3>1. PICK i \in 1..n : /\ i + Budget - 1 <= n
                            /\ stamps[k][i] + Window > refusedAt[k]
                            /\ stamps[k][i + Budget - 1] <= refusedAt[k]
      BY <1>2, <2>2 DEF IInv, RefusalEarned
    <3>2. i + Budget - 1 \in 1..n /\ i \in 1..(n + 1) /\ i + Budget - 1 <= n + 1
      BY <1>2, <3>1, BudgetType
    <3>3. stamps'[k][i] = stamps[k][i] /\ stamps'[k][i + Budget - 1] = stamps[k][i + Budget - 1]
      BY <1>5, <3>1, <3>2
    <3>4. QED
      BY <1>5, <2>2, <3>1, <3>2, <3>3
  <2>3. QED
    BY <2>1, <2>2
<1>12. QED
  BY <1>7, <1>8, <1>9, <1>10, <1>11 DEF IInv, WindowInv

\* A call that is refused: its window holds a whole budget of calls.
LEMMA TurnKeeps ==
  ASSUME IInv, NEW r \in Request, Turn(r)
  PROVE  IInv'
<1>1. PICK k \in Key : k = extractClientKey(r)
  BY KeyType
<1>2. /\ Running(k) /\ Exhausted(k) /\ UNCHANGED <<now, clients, stamps>>
      /\ refusedAt' = [refusedAt EXCEPT ![k] = now]
  BY <1>1 DEF Turn, Denies, Refuse
<1>3. TypeOK'
  BY <1>1, <1>2 DEF IInv, TypeOK
<1>4. WindowInv' /\ BurstBound'
  BY <1>2 DEF IInv, WindowInv, InOrder, WindowIsTail, Opening, BurstBound
<1>5. RefusalEarned'
  <2> SUFFICES ASSUME NEW j \in Key, refusedAt'[j] # Never
               PROVE  \E i \in 1..Len(stamps[j]) :
                        /\ i + Budget - 1 <= Len(stamps[j])
                        /\ stamps[j][i] + Window > refusedAt'[j]
                        /\ stamps[j][i + Budget - 1] <= refusedAt'[j]
    BY <1>2 DEF RefusalEarned
  <2>1. CASE j # k
    BY <1>2, <2>1 DEF IInv, TypeOK, RefusalEarned
  <2>2. CASE j = k
    <3>1. refusedAt'[k] = now /\ now \in Nat
      BY <1>2 DEF IInv, TypeOK
    <3>2. /\ clients[k] # NoWindow /\ clients[k] \in clientWindow
          /\ now - clients[k].windowAt < Window
          /\ clients[k].count >= MaxRequests
      BY <1>2 DEF Running, Exhausted, IInv, TypeOK
    <3>3. /\ clients[k].count \in 1..Budget
          /\ Opening(k) \in 1..Len(stamps[k])
          /\ clients[k].windowAt = stamps[k][Opening(k)]
      BY <3>2 DEF IInv, WindowInv, WindowIsTail
    <3>4. clients[k].count = Budget
      BY <3>2, <3>3, LimiterAssumption DEF Budget, clientWindow
    <3>5. Opening(k) + Budget - 1 = Len(stamps[k])
      BY <3>3, <3>4, BudgetType DEF Opening, IInv, TypeOK
    <3>6. stamps[k][Opening(k)] + Window > now
      BY <3>1, <3>2, <3>3, LimiterAssumption DEF clientWindow
    <3>7. stamps[k][Len(stamps[k])] <= now
      BY <3>3 DEF IInv, WindowInv, InOrder, TypeOK
    <3>8. QED
      BY <2>2, <3>1, <3>3, <3>5, <3>6, <3>7
  <2>3. QED
    BY <2>1, <2>2
<1>6. QED
  BY <1>3, <1>4, <1>5 DEF IInv

\* Every step keeps the inductive invariant.
LEMMA NextIInv == IInv /\ [Next]_vars => IInv'
<1>1. CASE UNCHANGED vars
  BY <1>1 DEF vars, IInv, TypeOK, WindowInv, InOrder, WindowIsTail, Opening, BurstBound,
              RefusalEarned
<1>2. CASE Next
  BY <1>2, TickKeeps, AdmitKeeps, TurnKeeps DEF Next
<1>3. QED
  BY <1>1, <1>2

\* Type correctness: every request finds a key, every key a count and a start.
THEOREM TypeCorrect == Spec => []TypeOK
<1>1. IInv => TypeOK
  BY DEF IInv
<1>2. QED
  BY InitIInv, NextIInv, <1>1, PTL DEF Spec

\* The window of a key is the end of its history: Count calls from WindowAt on,
\* opened when the one before it had run out (ratelimit.go:44-47).
THEOREM WindowsAreTails == Spec => []WindowInv
<1>1. IInv => WindowInv
  BY DEF IInv
<1>2. QED
  BY InitIInv, NextIInv, <1>1, PTL DEF Spec

\* What the fixed windows of Allow (ratelimit.go:44-56) bound: fewer than twice
\* the budget in any Window ticks.
THEOREM BurstIsBounded == Spec => []BurstBound
<1>1. IInv => BurstBound
  BY DEF IInv
<1>2. QED
  BY InitIInv, NextIInv, <1>1, PTL DEF Spec

\* Allow says no (ratelimit.go:51-53) only to a key that had its budget.
THEOREM RefusalIsEarned == Spec => []RefusalEarned
<1>1. IInv => RefusalEarned
  BY DEF IInv
<1>2. QED
  BY InitIInv, NextIInv, <1>1, PTL DEF Spec
=============================================================================
