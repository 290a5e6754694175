------------------------------ MODULE Storage ------------------------------
(***************************************************************************)
(* internal/storage as a log: the two tables as the handlers fill them,    *)
(* and what the queries make of the times in them.                         *)
(*                                                                         *)
(* A handler reads the clock before it calls the store, so rows of racing  *)
(* handlers are stored in another order than they are stamped.  The SQLite *)
(* driver stores a time as the text of the local clock with its offset,    *)
(* and ORDER BY and >= compare texts: local times, which go back by up to  *)
(* Shift when the offset changes.  Primary keys and the other columns are  *)
(* the business of Server: here every row is one of another challenge.     *)
(***************************************************************************)
EXTENDS Integers, Sequences, FiniteSets, SequencesExt

CONSTANTS
  Client, Goroutine,
  Offset(_),    \* of local time from UTC, at a time
  Shift,        \* by how much two offsets differ at most
  NoRecord,     \* a goroutine that writes nothing
  MaxTime,      \* bound of the model: the clock
  MaxRecords,   \* bound of the model: records stored or on their way
  Limits,       \* arguments of the queries: limits, negative for none,
  Windows       \* and time windows

VARIABLES
  now,           \* the wall clock, in UTC
  held,          \* the record that a goroutine has stamped and not yet stored
  measurements,  \* the tables, in the order of their rowids
  anomalies

vars == <<now, held, measurements, anomalies>>

ASSUME QueryAssumption ==
  MaxTime \in Nat /\ Limits \subseteq Int /\ Windows \subseteq Int

ASSUME OffsetAssumption ==
  /\ Shift \in Int
  /\ \A t, u \in (0..MaxTime) \union {n - w : n \in 0..MaxTime, w \in Windows} :
       Offset(t) \in Int /\ Offset(t) - Offset(u) <= Shift

MeasurementRecord == [client : Client, suspicious : BOOLEAN, at : Nat]
AnomalyRecord == [client : Client, at : Nat]

\* The driver's text of a time, as far as texts are compared.
Text(t) == t + Offset(t)

-----------------------------------------------------------------------------
(* Faults the code does not have, each of which breaks a property below. *)

\* The record is built without its CreatedAt: the zero time is long ago.
Stamp_Unset(g, record) == held' = [held EXCEPT ![g] = [record EXCEPT !.at = -1]]

\* The limit is applied to the table and not to what is sorted.
Newest_LimitFirst(rows, sorted, limit) ==
  {SelectSeq(s, LAMBDA i : limit < 0 \/ i <= limit) : s \in sorted}

\* The begin of the window is in UTC, as SQLite's datetime('now') would be.
Since_UTC(window) == now - window

-----------------------------------------------------------------------------

Init ==
  /\ now = 0
  /\ held = [g \in Goroutine |-> NoRecord]
  /\ measurements = <<>>
  /\ anomalies = <<>>

Tick ==
  /\ now < MaxTime
  /\ now' = now + 1
  /\ UNCHANGED <<held, measurements, anomalies>>

\* time.Now() in the arguments of SaveResult and LogAnomaly.
Stamp(g, record) == held' = [held EXCEPT ![g] = record]

Records == Len(measurements) + Len(anomalies) + Cardinality({g \in Goroutine : held[g] # NoRecord})

Write(g) ==
  /\ held[g] = NoRecord /\ Records < MaxRecords
  /\ \E client \in Client :
       \/ Stamp(g, [client |-> client, at |-> now])
       \/ \E suspicious \in BOOLEAN :
            Stamp(g, [client |-> client, suspicious |-> suspicious, at |-> now])
  /\ UNCHANGED <<now, measurements, anomalies>>

SaveResult(g) ==
  /\ held[g] # NoRecord /\ "suspicious" \in DOMAIN held[g]
  /\ measurements' = Append(measurements, held[g])
  /\ held' = [held EXCEPT ![g] = NoRecord]
  /\ UNCHANGED <<now, anomalies>>

LogAnomaly(g) ==
  /\ held[g] # NoRecord /\ "suspicious" \notin DOMAIN held[g]
  /\ anomalies' = Append(anomalies, held[g])
  /\ held' = [held EXCEPT ![g] = NoRecord]
  /\ UNCHANGED <<now, measurements>>

\* The write fails, and nothing tells.
Fail(g) ==
  /\ held[g] # NoRecord
  /\ held' = [held EXCEPT ![g] = NoRecord]
  /\ UNCHANGED <<now, measurements, anomalies>>

Next == Tick \/ \E g \in Goroutine : Write(g) \/ SaveResult(g) \/ LogAnomaly(g) \/ Fail(g)

Spec == Init /\ [][Next]_vars

-----------------------------------------------------------------------------
(* The queries. *)

\* Rowids of a client's rows, ordered by created_at DESC: equal texts in any
\* order.
ByTimeDesc(rows, client) ==
  {s \in SetToSeqs({i \in DOMAIN rows : rows[i].client = client}) :
     \A i, j \in DOMAIN s : i < j => Text(rows[s[i]].at) >= Text(rows[s[j]].at)}

Newest(rows, sorted, limit) ==
  {SubSeq(s, 1, IF limit < 0 \/ limit > Len(s) THEN Len(s) ELSE limit) : s \in sorted}

\* Every list that the query may return, as rowids.
GetClientHistory(client, limit) ==
  Newest(measurements, ByTimeDesc(measurements, client), limit)

GetAnomalies(client, limit) == Newest(anomalies, ByTimeDesc(anomalies, client), limit)

\* time.Now().Add(-window), which the driver turns into a text again.
Since(window) == Text(now - window)

CountSuspicious(client, window) ==
  Cardinality({i \in DOMAIN measurements :
    /\ measurements[i].client = client /\ measurements[i].suspicious
    /\ Text(measurements[i].at) >= Since(window)})

-----------------------------------------------------------------------------

\* A record carries the time at which a handler made it.
TypeOK ==
  /\ now \in 0..MaxTime
  /\ held \in [Goroutine -> MeasurementRecord \union AnomalyRecord \union {NoRecord}]
  /\ measurements \in Seq(MeasurementRecord)
  /\ anomalies \in Seq(AnomalyRecord)
  /\ \A i \in DOMAIN measurements : measurements[i].at <= now

\* What a list of the newest must be, when local time may go back by Shift:
\* no row more than Shift newer than one that is listed is missing or follows
\* it, and only the limit cuts the list short.
IsNewest(s, rows, client, limit) ==
  LET mine == {i \in DOMAIN rows : rows[i].client = client}
  IN  /\ ToSet(s) \subseteq mine
      /\ ToSet(s) = mine \/ Len(s) = limit
      /\ \A k \in DOMAIN s, i \in mine :
           rows[i].at > rows[s[k]].at + Shift => i \in ToSet(SubSeq(s, 1, k - 1))

\* storage.go:131 and 174 "newest first": the histories of a client are the
\* newest of its rows up to the change of the local clock, in whatever order
\* the handlers came to store them.
HistoryIsNewest ==
  \A client \in Client, limit \in Limits :
    /\ \A s \in GetClientHistory(client, limit) : IsNewest(s, measurements, client, limit)
    /\ \A s \in GetAnomalies(client, limit) : IsNewest(s, anomalies, client, limit)

\* storage.go:199 "within a time window": no suspicious row of the window less
\* Shift is left out, and none older than the window and Shift is counted.
WindowIsCounted ==
  \A client \in Client, window \in Windows :
    LET age(a) == {i \in DOMAIN measurements :
                     /\ measurements[i].client = client /\ measurements[i].suspicious
                     /\ now - measurements[i].at <= a}
    IN  /\ Cardinality(age(window - Shift)) <= CountSuspicious(client, window)
        /\ CountSuspicious(client, window) <= Cardinality(age(window + Shift))
=============================================================================
