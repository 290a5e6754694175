# EchoMap in TLA+

EchoMap locates a client by the round-trip times it measures to a set of known
probes. The client fetches a challenge (a single-use token and a list of
probes), pings the probes, and submits what it measured together with the
token; the server checks the token, computes where the client can be, gives a
verdict and stores it. This directory holds a TLA+ model of server and client, the
TLC configurations that check it on small instances, and theorems about it,
proved with TLAPS, that hold for every value of the constants.

`PROJECT.json` lists components, runs, mutants, theorems, hazards and findings,
and maps every definition that models code to the lines it models.

## 1. The system

| Component | State it keeps | Operations | Hard to get right |
|---|---|---|---|
| Challenge manager, `internal/challenge/challenge.go` | map from challenge ID to token, client and expiry, under a mutex | `GenerateToken`, `GetClientID`, `ValidateToken` | the clock is read outside the lock, an entry is checked after the unlock; restart empties the map |
| Probe selection, same file | none | `SelectProbes` | diversity and nearness at once, ties, counts below the number of regions |
| Rate limiter, `internal/ratelimit` | map from key to a window (count, start), under a mutex | `Allow`, `UnaryInterceptor`, `extractClientKey` | window boundaries, refused calls, maximum zero |
| Geo engine, `internal/geo` | none | `Locate` with `IntersectCircles`, `ComputeExclusions`, `CheckJitter`, `CheckRatios`, `score`; `DetectVPN`, `CorrelateProbes` | three tests for one contradiction, sampling, thresholds |
| gRPC server, `internal/grpcserver` | none of its own | `FetchChallenge`, `SubmitMeasurement` | several turns at the manager's mutex in one call; a verdict, a flag and anomalies from different indicators; dropped errors |
| Storage, `internal/storage` | SQLite tables `measurements` (primary key: challenge) and `anomalies` | `SaveResult`, `LogAnomaly`, `GetResult`, `GetClientHistory`, `GetAnomalies`, `CountSuspicious`, `Close` | key conflicts, partial writes, writes after `Close`, rows stored in another order than stamped, times compared as text |
| Process, `cmd/echomap` | the dataset it chose | start: CSV file, RIPE Atlas or embedded data; `OnStop`: `GracefulStop`, then `Close` | a failure half way through a source, calls in flight at the stop, crashes |
| Dataset, `internal/dataset` | tables of expected RTTs and of cities | `LoadCSVFromReader`, `FromEntries`, `BestMatch`, `Lookup`, `LookupByProbeCoords` | a comparison that is no order, the order of a map, two ways to find a probe's city |
| RIPE Atlas adapter, `internal/dataset/ripeatlas` | none | `FetchPingResults`, `FetchProbes`, `BuildDataset` | several requests, any of which may fail; names of its own |
| Globalping adapter, `internal/dataset/globalping` | none | measure, fetch | not called by anything |
| CLI client, `cmd/echomap-client` | one run | fetch, parallel pings, submit | pings against the token's deadline, silent probes, results filled in by many goroutines |
| Configuration, reverse geocoding, generated protocol code | -- | -- | -- |

The handlers run in goroutines of their own. They share the token map, the
window map and the database; they share nothing else. The rate limiter runs
before a handler as an interceptor. The engine is a pure function of the
reports. What makes each part correct:

* manager: a challenge is accepted at most once, only with its own token, and
  only until its deadline, whatever handlers race for it;
* limiter: bounded bursts, and no refusal that was not paid for;
* engine: its separate tests agree where verdict, flag and comments rely on it;
* server and store: a row belongs to the client whose challenge was accepted,
  nothing is stored twice, and a client that was told a verdict finds it
  recorded unless the store itself failed;
* queries: a history is the newest of a client's rows, a window counts what
  lies in it, up to the change of the local clock;
* process: the best source that can be had becomes the dataset; a stop
  completes, and closes the store after the last handler;
* dataset: the answer is a best match as far as the comparison allows, whatever
  order the map has;
* client: an honest client comes to an end, in time, with a complete report, and
  physics speaks against it only as far as its connects were cheaper than the
  overhead taken off them.

## 2. Modules

| Module | What it is |
|---|---|
| `TokenLifecycle` | what the manager promises: a grant is unused, live, then redeemed in time or revoked |
| `ChallengeManager` | the manager step by step |
| `ChallengeManagerProofs` | its theorems |
| `RateLimiter`, `RateLimiterProofs` | the limiter and its theorems |
| `GeoCircles` | the physics that engine and client share: circles, ratio check, correlation, exclusions, median |
| `GeoEngine`, `GeoEngineProofs` | engine and verdict; their theorems, and the lemmas about `GeoCircles` |
| `ProbeSelection`, `ProbeSelectionProofs` | `SelectProbes`, one loop iteration a step; its theorems |
| `Server` | handlers over manager, store and process life cycle; instantiates `ChallengeManager` |
| `ServerProofs` | theorems about calls and challenges, and about what is stored and answered |
| `Storage`, `StorageProofs` | times in the tables, and the queries; theorems |
| `Dataset` | building tables, lookups, `BestMatch` (operators) |
| `DatasetSource`, `DatasetSourceProofs` | the choice of the dataset at the start, and layer 2 of `Locate`; extends `Dataset`; theorems about both |
| `Client`, `ClientProofs` | the client between probes and server, extends `GeoCircles`; its theorems |
| `MC...` | instances for TLC: tables, metrics, clocks, symmetry |

`Server` composes the manager with the store, `Client` the pings with the
circles the engine will draw from them, `DatasetSource` the sources with
the engine's use of the dataset.

Each model module has a short section of *faults*: variants of one definition
that a plausible bug would make of it. They are not part of any specification.
Putting one in place of its original makes TLC find a property violated, which
shows that the property can fail.

### ChallengeManager

`tokens` is `Manager.tokens`. `frame[g]` holds the locals of a goroutine inside
the manager. `GenerateToken` is `DrawChallenge` (random ID, clock, HMAC; no
lock) and `StoreToken` (under the lock, and the return); `ValidateToken` is
`ConsumeEntry` (under the lock: the entry leaves the map) and `CheckEntry`
(after the unlock: clock, HMAC). `Tick` and `Restart` may come in between.
`handed` and `accepted` are history: what was returned to clients, and how often
`ValidateToken` returned nil. A caller may present any token that was ever
handed out for any ID, or garbage. The HMAC is an injective function of its
inputs, and the random source never repeats a value; both are what the code
relies on. A clock of ticks with several to the second keeps the truncation of
`ExpiresAt` visible.

The refinement `ImplementsLifecycle` maps a challenge to a grant: *live* while
it is in the map or in the locals of a goroutine that checks it, *redeemed*
once accepted, *revoked* when it is gone otherwise.

### RateLimiter

`Allow` holds the mutex throughout, so a call is one step: it opens a window,
counts up, or refuses. `extractClientKey` is modelled with a missing header and a missing
peer. `stamps` and `refusedAt` are history. The code counts in fixed windows;
what that guarantees is `BurstBound` (fewer than two budgets in any window
length) and `RefusalEarned`.

### GeoEngine

`GeoCircles` holds what is pure physics, so that `Client` can ask what the engine
will make of a report. The state is the list of reports that the conversion loop of
`SubmitMeasurement` has accepted, so that every submission is a reachable
state; everything else is a function of it. The sphere is any metric space
(`Dist`), the 101 x 101 grid any set of sample points (`Grid`), the dataset any
bonus. Times and distances are integers scaled so that `MaxDistanceFromRTT` is
exact; means, ratios and coefficients of variation are compared by multiplying
out; the confidence is counted in hundredths. The smallest circle of radius
zero gets the region radius 1 and not 0: all sample points are the centre then,
and the mean of their coordinates misses it by a rounding error above zero,
which `RadiusKM == 0` does not take for impossible.

### ProbeSelection

With fewer slots than regions the loop ends early and regions late in the
alphabet get no probe, so the properties speak of regions from `count >=
Len(regions)` on. The loop over the sorted regions is `PickFromRegion`, the loop over the rest is
`Fill`, where equally near probes may come in any order. `NoneIsNearer` compares
the result with a definition that does not know the algorithm: of all sets of
that size with a probe in every region, none has a smaller total distance.

### Server

`rpc[g]` is where a `SubmitMeasurement` call stands: `GetClientID` done,
`ValidateToken` half done, `SaveResult` due, anomalies left to log. Every one of
these is a step, because each either takes the manager's mutex or writes to the
database. A write may fail for its own reasons (database busy or full, the
caller hung up); the code drops the error and goes on. `phase` is the process:
`Stop` is the moment from which `GracefulStop` lets no call in, on any of its
connections (a call that comes between the start of `OnStop` and that moment
looks to a handler like any other, and the model has it while the phase is
"up"); `GracefulStop` waits for the handlers, `Close` follows; a crash may come
at any step and loses everything but the tables. A report is
represented by what the engine finds in it; the assumption
`ReportAssumption`, that reports which fail the correlation are also
impossible, is what `GeoEngineProofs` establishes of the engine;
`ManagerAssumption` passes the assumptions of `ChallengeManager` on.

The limiter is not composed with the server: it shares no state with the
handlers and only removes calls, so the server behind it has a subset of the
behaviours checked here, and liveness concerns calls that were let in.

### Storage

`Server` has the tables by key; `Storage` has the times in them. A handler reads
the clock for a row and calls the store later (`Write`, then `SaveResult` or
`LogAnomaly`), so rows are stored in another order than they are stamped. The
driver stores a time as the text of the local clock, and both `ORDER BY
created_at DESC` and `created_at >= ?` compare texts, so what the queries see is
local time, `Text(t)`: when summer time ends it repeats an hour. A query is a
set of lists, one for each order that equal texts may come in. The documents
promise "newest first" and "within a time window" (storage.go:131, 174, 199);
`HistoryIsNewest` and `WindowIsCounted` say how far that holds: up to the
difference of the offsets (`Shift`), and exactly where the offset is constant.

### Dataset and DatasetSource

A table is a function from unordered pairs of cities to an average, and one from
cities to places. A row is the small table that it sets (`CsvRow`, `EntryRow`), and
both loops fold the rows into an empty one, later rows overwriting earlier ones
(`Table`). In a table from entries a place of 0 N 0 E is unknown. `BestMatch` scores each city by the relative error
over the pairs the table has, and sorts the scores: two that differ by less than
0.01 go by the number of matches. That comparison is no order (A may tie with B
and B with C, and A not with C), so what the sort returns depends on the
algorithm and on the order in which the map yields the cities.

No single algorithm stands for `sort.Slice`: up to 12 elements it is an insertion
sort, and beyond (the embedded table has 30 cities) it picks pivots, partitions,
and may turn to a heap sort. The model keeps what all of these share. A *cut* is
a set of candidates each of which is less than each candidate outside
(`Cut`); across a cut no comparison is ambiguous. Every step of the library keeps
the elements of a cut before the others, once they are: an insertion stops at the
first element that is not greater; a partition about a pivot of the cut puts every
element from outside to its right, and one about a pivot from outside puts all of
the cut to its left; and the elements "equal" to a pivot in `partitionEqual` lie on its side of
the cut; `siftDown` always takes an outside child before one of the cut, so the
root of a heap is from outside as long as any element is; reversing and breaking
patterns happen before a part is sorted. So the first candidate lies in every cut,
`Firsts` is the set of the candidates that do, and `BestMatch` may return any of
them, for any number of cities. This is more than the library returns in a given
order of the map, so what holds of all of `Firsts` holds of the program.

dataset.go:234 says "sort by error ascending, prefer more matches on tie"; what
holds of the answer is `NoGapBelowMatch`: a city with a smaller error by more
than the tie may be passed over, but only along a chain of ties (in the instance,
with an RTT of 2 from every probe, D may be answered though B is better by a full
tie). `CountBreaksTies` says that the number of matches decides when all tie.

`DatasetSource` starts with any configuration, and with any set of requests that
the platform is going to fail (`down`, by their number). A CSV file comes first;
then the RIPE Atlas measurements, one request each and one for the probes, any of
which may fail and send the server to the embedded table; the platform may know
any subset of the probes. Since `down` is known, `BestSource` can say which source
it must be in each case, not only that it is one of them: the platform's exactly
when no file is read, measurements are configured and no request fails. The
dataset then answers submissions:
`ExpectedIsCompared` relates the two ways in which the engine finds the city of
a probe, by its ID (`defaultProbeToCity`) and by its nearest place.

### Client

`FetchChallenge`, the pings and `SubmitMeasurement` take real time; the program
itself takes none. One goroutine per target appends to `rtts[t]`: the elapsed
time of a connect, or the marker 999999 of a failed one, which may come at any
time up to the two seconds of the dialler. The report is read after the wait for
all of them. Of the server `Client` keeps the deadline of the challenge and the
conversion of the report; either call may fail for good at any time, since the
client has no retry. `ECHOMAP_TIMEOUT_MS`, which README.md:189 documents, is read
by nobody: what bounds a run is the dialler, and `InTime` gives the condition
under which it is enough, TTL >= PingCount * 2 s + two messages (the defaults
are 3 * 2 s against 10 s).

What a connect costs beyond light is `HandshakeCost` or more, and nothing relates
it to the 10 ms (`TcpOverhead`) that the server takes off an RTT. geo.go:15 to 18
gives the reason for these: the overhead is "~5-15ms", and 10 ms are taken
as "conservative". They are so on the other side: where the connect
cost 5 ms (README.md:153 shows one of 5.0 ms in all), the circle ends
500 km short of an honest client, unless the whole RTT is below 10 ms, when nothing
is taken off. So "An RTT gives an absolute maximum distance from a probe"
(README.md:7) does not hold: in the instance, an RTT of 3 at a distance of 2 gives a
circle of radius 1. What does hold is
`HonestIsBelieved`. A report is `Undercut` when more than half of its connects
took less than light and the overhead together, and at least one of these more than the
overhead. An honest client is in the circle of every other report, and beyond the circle of
an undercut one by no more than `Shortfall`, the overhead less the cost; without
an undercut report no test for contradictions fails, and the client's place is
excluded only if at least half of the reports are undercut.

## 3. Runs

| Run | Instance | What it shows |
|---|---|---|
| `challenge` | 2 clients, 3 challenges, 2 goroutines, life time 2 ticks = 1 s, 4 ticks | every property of the manager, the refinement included |
| `limiter` | 2 keys, maximum 2, window 2, 5 ticks | bursts, refusals and the invariant of the windows |
| `geo` | 33 places, 3 probes, 8 kinds of RTT list, 3 reports | the tests of the engine agree |
| `selection` | 6 probes, 3 regions, 4 distances, counts 1..7 | completeness, diversity, optimality |
| `server_clients` | 2 challenges, 2 clients, 2 goroutines, 2 kinds of report, 1 failed write, 1 crash | rows belong to their clients; the server uses the manager as `ChallengeManager` says |
| `server_store` | 1 challenge, 2 goroutines, 5 kinds of report, 1 failed write, 1 crash, fairness | store and replies agree; calls return, a stop completes |
| `storage` | 2 clients, 2 goroutines, 3 records, 4 ticks, the clock goes back at tick 2 | histories and windows up to the shift |
| `dataset` | 4 cities, 3 probes, 2 files, 2 measurements, every set of failing requests, 221 submissions | choice of the source, and what `BestMatch` answers |
| `client` | 2 probes, 3 places, no ping or 3 pings, connects that cost less than the overhead, TTLs on both sides of the bound, fairness | an honest client ends, in time, completely, and believed as far as its connects allow |

Why the bounds are enough. In the manager a race is between two goroutines and
one challenge; the third challenge lets the others be mixed up, and four ticks
reach past the deadline and past the second the client was told. The limiter
needs two and a half windows, since its invariant speaks of a window and the one
before. In the engine every test compares two reports, and the confidence
changes with the third. In the server a race is again between two goroutines; a
life time of one tick and a clock of two let a token expire in the middle of a
call, and a second challenge lets a client present the token of another one, or
an ID before it is drawn. Failures and crashes are bounded by one each: the
invariants relate one challenge at a time. For the store, three rows are a list
that a limit can cut on either side of the repeated hour. For the dataset, three
probes give the chain of ties that makes the comparison no order, and the files
have a pair of every kind: repeated, of a city with itself, without a value, of
an unknown place. For the client, the TTLs 8 and 14 lie on either side of
3 * 4 + 2 * 1, the second exactly at the bound; two probes are as many as a ratio
compares, and three pings have a median that is neither of the others. A cost of
1 under an overhead of 2 and a probe at distance 2 are the smallest numbers with
which a report is undercut (an RTT of 3); the marker, 4, is then the least that
stands for every distance, and the timeout is 4, so that an answer slower than
the marker is left to the proofs. The invariants of all these runs are also proved,
so there the bounds matter for liveness and the refinement's instance only.

Symmetry (of goroutines, challenges and clients) is used only in runs without
liveness. Deadlock is checked but in `geo`, `selection`, `storage` and `client`:
the first two are computations that end, the client ends, and in `storage` the
bounds on clock and records end the run.

### Runs that are expected to fail

Each states what a comment, a document or a test says, and TLC shows what the
code does instead.

| Run | Said | Done |
|---|---|---|
| `geo_zero_region` | `fallback_test.go`: never (0,0) | without a common sample point the region is (0,0) |
| `geo_rejected` | `integration_test.go`: rejected results are marked suspicious | the stored flag leaves the indicator of a rejection out |
| `dataset_ripe` | `ripeatlas.go:150`: "suitable for the geolocation engine" | the adapter's names are no names of cities: with the best RIPE data no report matches, and the embedded table is not loaded |

Five more disagreements of this kind are known from modelling and need no run:
README and comments call the limiter's fixed windows sliding (up to twice the
budget less one falls into one window length, which `BurstBound` states); the grid of
`IntersectCircles` may miss a narrow overlap that "No overlap -- physically
impossible" denies; README.md:7's "absolute maximum distance" is no such thing for
a connect that costs less than the 10 ms taken off it (see *Client*); ERD.md's "added latency only makes circles bigger" fails
at 10 ms, where the overhead is suddenly subtracted; and `ECHOMAP_PROBE_COUNT`,
"Number of probes per challenge" with a default of 6 (README.md:187), is parsed
and then read by nobody: server.go:49 asks `SelectProbes` for 16.

## 4. Fairness

`Server` and `Client` have liveness properties. `Server!FairSpec` assumes weak fairness of every
handler that is in a call, and of `Close` once nothing is in flight. Go runs
every goroutine that can run; the manager's mutex is held for a map operation
only and no handler holds it while it waits; a write to SQLite returns, with an
error if need be; and `GracefulStop` returns when the last handler has. Nothing
is assumed of clients, of the clock, of store failures, stops or crashes.

`Client!FairSpec` assumes that time passes, that the program goes on when it can,
that a connect ends at its timeout (`net.DialTimeout` guarantees it) and that the
server handles a call that has reached it. It assumes no probe that answers, and
the calls may break at any time.

## 5. Proofs

All theorems are for every value of the constants that satisfies the named
assumptions of the module (`ClockAssumption`, `SentinelAssumption`,
`LimiterAssumption`, `TableAssumption`, `QueryAssumption`, `OffsetAssumption`,
`MetricAssumption`, `SamplingAssumption`, `ServerAssumption`, `ReportAssumption`,
`ClientAssumption`, `DatasetAssumption`, `SourceAssumption`): constants are numbers,
marker values differ from real ones, offsets differ by at most `Shift`, distance is
symmetric and obeys the triangle inequality, the table of probes repeats none,
files and measurements have rows of the declared fields, there are finitely many
names of cities, and light crosses every distance in less than the marker less the
overhead (999999 microseconds stand for 98999 km). Nothing is assumed of how many cities there are, of the
sort, or of what a connect costs.

Totals and tables are folds: recursive functions over the sets of
what is done so far. The provers cannot take an operator as the parameter of an
induction, so a claim is given to `SubsetInduction` as the set of those sets for
which it holds, and a recursion to `RecursionExists` as functions; both rest on
the least counterexample in a set of naturals (`SmallestMember`). These lemmas
stand in `ProbeSelectionProofs`, and `DatasetSourceProofs` takes them from there.

* `ChallengeManagerProofs`. The inductive invariant is `TypeOK /\ OnePlace /\
  SingleUse`. `OnePlace` is the reason why tokens are single-use: an entry is
  in the map, or in the locals of exactly one goroutine, or nowhere and then
  for good. Without the part about locals (`FrameBound`, `Alone`) the step of
  `CheckEntry` cannot be shown to be the first acceptance. From it follow
  `SingleUse`, `AcceptanceIsEarned`, and, one lemma per action, that every step
  is a step of `TokenLifecycle` or a stutter.
* `RateLimiterProofs`. `BurstBound` is not inductive: it speaks of two calls,
  and the limiter remembers a window. `WindowIsTail` says where in the history
  the running window opened and where the one before it did; with it,
  `BurstBound` and `RefusalEarned` are preserved by each of the three ways
  through `Allow`.
* `ProbeSelectionProofs`. The invariant `InProgress` says that the selection has the
  probes of the regions in the order of the regions, and others after them. So
  the probe of the region whose turn it is cannot be there yet, which gives
  `NoDuplicates`, and a selection that has reached the number of regions has one
  of each, which gives `AskedIsGiven`. The nearest probe is a `CHOOSE`; it exists
  because a set of naturals has a smallest member. `NearestOfAll` is the optimality
  of the two greedy loops. It needs `Nearest` in the invariant (no probe of its
  region is nearer than the one picked for it, none that is left is nearer than
  one of the others) and an exchange: a rival, of the same size and with every
  region, that is not the selection can give up one probe for another of the
  selection's, losing no region and not becoming farther (`Exchange`), first for
  the probes of the regions and then for the others. Each exchange brings it
  nearer to the selection, so a rival that is better and closest to it cannot
  exist. That a total may be split at any probe (`TotalOfRest`) is proved of the
  fold.
* `GeoEngineProofs`. `medianInt` is a `CHOOSE`; that a
  median exists is proved by counting (no induction over data is needed: a
  bounded set of naturals has a largest member). The triangle inequality gives
  `CirclesMeet`: circles with a common place pass the ratio check. Hence what
  fails it has no sample point in common, in any sampling, and is REJECTED;
  hence a SUSPICIOUS verdict never rests on the one indicator that the stored
  flag leaves out, and which of several equally close probes the sort puts first
  never decides the verdict. It may decide the stored flag and the
  RATIO_INCONSISTENT anomaly, and `TiesDecideNothing` says that this is so only
  beside a verdict of REJECTED. `ConfirmationIsEvidence` holds for every bonus of a
  dataset: what more than one report confirms has a place that satisfies all of
  them, and without the bonus it takes three reports. With it, one or two
  reports may reach the 0.85 of CONFIRMED.
* `ServerProofs`. `ChallengeManagerProofs` is instantiated: as long as every step
  of the server is one of the manager or none (`ManagerStep`, which is the
  theorem `ServerUsesManager`), the manager's invariant carries over. On top come
  where a call stands in both (`Coherent`) and `Claims`: the client that
  `GetClientID` found is that of the challenge *if the presented token is the one
  of the entry*. The condition is the heart of it: a call may name an ID that
  is drawn only between its two turns at the mutex, and then it holds the empty
  client; but no token of that ID was out when the call came in, so it fails
  the check. From `Claims` and `Earned` (no row, reply or anomaly before the
  acceptance) follow `RowsAreEarned` and `KeyIsFree`.
  What is proved of the manager alone is then said of the server:
  `TokensAreSingleUse`, and `ServerImplementsLifecycle`, the refinement of
  `TokenLifecycle` by the composed server, each step of which is a step of the
  manager's refinement or a stutter.
* The second part of `ServerProofs` is about the store. `StoreIInv` adds what a call that logs anomalies knows
  (`Logged`: its row is stored or known to be lost, what is due was not logged
  before, and a suspicious verdict has an anomaly that is due, stored or lost),
  and `Drained`: no call is at work once the store is closed. `Drained` is where
  the order of `GracefulStop` and `Close` enters: a write to a closed store is
  the one loss nobody notices. `AnomaliesMatchRow` and `AnsweredIsRecorded`
  follow, for any number of failed writes and crashes.
* `StorageProofs`. A text that is not smaller belongs to a time at most `Shift`
  earlier (`TextOrder`). An order of finitely many rows lists all of them, by the
  pigeonhole principle; so what a limit cuts off is not newer by more than
  `Shift` than what it leaves, which is `HistoryIsNewest`. `WindowIsCounted`
  compares the number of counted rows with that of two sets, one inside and one
  around it. Both hold for every offset of the local clock that differs by at most
  `Shift` over the run, and for every order in which handlers come to the store.
* `ClientProofs`. The invariant says that an answer takes at least light's time and
  the handshake (`AllHonest`), that each target is on schedule: pings done and
  the one under way fit into the time since the start (`OnSchedule`, `InTime`),
  and that the report is what was measured (`Reported`). Honest RTTs have an
  honest median, by `MedianMember`, which also says that more than half of a list
  is no larger than its median: so a median that is too small for the overhead
  makes its report an undercut one, and of all others the circle is around the client
  (`HonestTime`, `InCircle`). Circles that have the client in common pass every
  test, and the circles that leave it out are those of undercut reports
  (`LeftOut`), at least half of the list where its place is excluded. `HonestVerdict`
  joins this with the engine, which is instantiated on the client's report with its
  constants left open (its three numeric bounds are natural numbers, by hypothesis).
  REJECTED can only mean that a report is undercut, or that the 101 x 101 grid hit none of
  the region common to the circles, or a single point ("No overlap", geo.go:141,
  is wrong in either case: the first is the overhead of geo.go:79, and the second is
  inherent in the sampling, so that no statement about `Grid` would justify
  excluding it); SUSPICIOUS can only come from `CheckJitter` or `DetectVPN`.
* `DatasetSourceProofs`. The dataset is a table of names, numbers and places, by
  induction over its rows (`TableType`, which also says that no pair is lost), and
  scores are non-negative fractions with a positive denominator. `NoGap` has to do
  without the laws of an order, since `Less` is none, and uses only that the answer
  lies in every cut. If a city had a smaller error and no tie with anything
  below it in the gap, then the candidates with errors up to that city's, of which the answer is
  none, would be a cut (`NoGapBelow`). Where all tie, the candidates with the most
  matches are a cut (`MostMatchesFirst`, `LargestMatched`). The inductive
  invariant has a part for each stage:
  `Fetching` (what is configured is either still to do or among the results),
  `Asking` and `Chosen` (which requests have been answered, and which source is
  taken when), `Loaded` (the dataset is what that source gives, a finished list of
  results if it is the platform) and `Computed` (a reply is what `Locate` made of this
  dataset, for some candidate the sort may put first). `BestSource` needs all but the last,
  `ExpectedIsCompared` the last: the key of a pair has no direction, so the lookup
  by place finds the entry that the match compared with. The theorems hold for any
  distance function, however many measurements there are.

Model-checked only: liveness (`Drains`, `CallsReturn`, `Finishes`), which is out of
the prover's reach, and the expected violations.

## 6. Not modelled

* The Globalping adapter: nothing in the program calls it.
* Reverse geocoding and the nearest probe in a reply: wording for the reader,
  which decides nothing.
* The client's display of its result, which comes after the verdict.
* Configuration: its values are the constants of the models.
* The generated protocol code, HTTP and JSON of the adapters: conversions without
  state; that a request may fail is modelled.
* `GetResult` (one row by its key) and `CitiesInRegion`: reads without a hazard of
  their own.
* An unset store, as in unit tests, a failing random source and an empty client
  ID leave all state unchanged.
* Floating point, but where it decides something (the zero radius above).
* The steps of `sort.Slice`: only what every one of them keeps (see *Dataset and
  DatasetSource*). Which of the candidates in all cuts it puts first is left open.
* Maps that only grow (challenges never presented, windows of keys that never
  come back): the code has no bound to check, and no document promises one.

## 7. Plan

Done, in this order: `TokenLifecycle` and `ChallengeManager`; `RateLimiter`;
`GeoEngine`; `Server`; `ProbeSelection`; `Storage`; `Dataset` and
`DatasetSource`; `Client`; then the proofs of every invariant. Left, by
weight:

1. The limiter composed with connections: which budget a client without a client
   ID really has behind one address.
2. The client retrying by hand against `Server`: a run that lost its reply,
   followed by another with a new challenge.
