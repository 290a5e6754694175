--------------------------- MODULE DatasetSource ---------------------------
(***************************************************************************)
(* Where the server gets its dataset when it starts (provideEngine of      *)
(* cmd/echomap and the RIPE Atlas adapter), and layer 2 of the answers it  *)
(* then gives (Locate).  The files and the platform are the environment:   *)
(* every one of them may fail, and the platform may know only some probes. *)
(***************************************************************************)
EXTENDS Dataset

CONSTANTS
  NoFile, Unreadable,  \* no ECHOMAP_DATASET_PATH; a file that does not parse
  Files,         \* the rows of the CSV files that may be configured
  Embedded,      \* the rows of the CSV that ships with the binary
  RipeProbe,     \* probes of the platform, as the names the adapter gives them
  Address,       \* destinations of the platform's pings
  RipeAt(_),     \* the geometry of a probe, Origin when it has none
  RipeResults,   \* the results of each measurement of the platform
  IDs,           \* the lists of measurements that may be configured
  Submissions,   \* the measurement lists that clients may submit
  NoReply        \* no submission is answered

VARIABLES
  config,    \* the CSV file and the list of measurement IDs
  down,      \* the requests to the platform that fail, by their number
  stage,     \* of provideEngine: "csv", "ripe", and then "serving"
  todo,      \* measurements still to fetch
  results,   \* allResults of BuildDataset
  known,     \* the probes that the platform knew (history)
  source,    \* which of the three datasets was taken
  dataset,   \* the dataset of the engine
  reply      \* a submission and layer 2 of its answer

vars == <<config, down, stage, todo, results, known, source, dataset, reply>>
served == <<config, down, stage, todo, results, known, source, dataset>>

Record == [src : Name, dst : Name, srcAt : Place, dstAt : Place, avg : Int]
PingResult == [probe : RipeProbe, dst : Address, avg : Int]
Report == [probe : Probe, rtt : Int]

\* "probe-<ID>-<country>" and an address are no names of cities.
ASSUME SourceAssumption ==
  /\ Files \subseteq Seq(Record) /\ Embedded \in Seq(Record)
  /\ IDs \subseteq Seq(DOMAIN RipeResults)
  /\ \A id \in DOMAIN RipeResults : RipeResults[id] \in Seq(PingResult)
  /\ Submissions \subseteq Seq(Report)
  /\ RipeProbe \union Address \subseteq Name
  /\ RipeProbe \intersect Address = {}
  /\ \A p \in DOMAIN ProbeToCity : ProbeToCity[p] \notin RipeProbe \union Address
  /\ \A p \in RipeProbe : RipeAt(p) \in Place

-----------------------------------------------------------------------------
(* Faults the code does not have, each of which breaks a property below. *)

\* The dataset is loaded and never handed to the engine.
Serve_NotTaken(from, ds) == stage' = "serving" /\ UNCHANGED <<source, dataset>>

\* A measurement that cannot be fetched is skipped.
FetchFails_Skips ==
  /\ todo' = SubSeq(todo, 2, Len(todo))
  /\ UNCHANGED <<config, down, stage, results, known, source, dataset, reply>>

\* The platform is not asked.
FallBack_Unasked ==
  /\ stage = "ripe"
  /\ stage' = "serving"
  /\ source' = "embedded"
  /\ dataset' = LoadCSVFromReader(Embedded)
  /\ UNCHANGED <<config, down, todo, results, known, reply>>

-----------------------------------------------------------------------------

Init ==
  /\ config \in [file : {NoFile, Unreadable} \union Files, ids : IDs]
  /\ down \in SUBSET (1..(Len(config.ids) + 1))
  /\ stage = "csv"
  /\ todo = config.ids
  /\ results = <<>>
  /\ known = {}
  /\ source = "none"
  /\ dataset = Empty
  /\ reply = NoReply

Serve(from, ds) ==
  /\ stage' = "serving"
  /\ source' = from
  /\ dataset' = ds

\* Priority 1: the file, even if it has no row but the header.
LoadCSV ==
  /\ stage = "csv"
  /\ IF config.file \in Files THEN Serve("csv", LoadCSVFromReader(config.file))
     ELSE stage' = "ripe" /\ UNCHANGED <<source, dataset>>
  /\ UNCHANGED <<config, down, todo, results, known, reply>>

\* The number of the next request: one for each measurement, and one more.
Request == Len(config.ids) + 1 - Len(todo)

\* Priority 2: one request per measurement, in the order of the list ...
FetchPingResults ==
  /\ stage = "ripe" /\ todo # <<>> /\ Request \notin down
  /\ results' = results \o RipeResults[Head(todo)]
  /\ todo' = Tail(todo)
  /\ UNCHANGED <<config, down, stage, known, source, dataset, reply>>

\* ... and one for all their probes; results of the others are dropped, and no
\* place is known for a destination.
Entry(r) ==
  [src |-> r.probe, dst |-> r.dst, srcAt |-> RipeAt(r.probe), dstAt |-> Origin,
   avg |-> r.avg]

BuildDataset(all, probes) ==
  Table([i \in DOMAIN all |->
           IF all[i].probe \in probes THEN EntryRow(Entry(all[i])) ELSE Empty])

FetchProbes ==
  /\ stage = "ripe" /\ todo = <<>> /\ config.ids # <<>> /\ Request \notin down
  /\ known' \in SUBSET {results[i].probe : i \in DOMAIN results}
  /\ Serve("ripe", BuildDataset(results, known'))
  /\ UNCHANGED <<config, down, todo, results, reply>>

\* Priority 3: no measurements, or one request that failed.
LoadEmbedded ==
  /\ Serve("embedded", LoadCSVFromReader(Embedded))
  /\ UNCHANGED <<config, down, todo, results, known, reply>>

\* BuildDataset returns at the first error.
FetchFails == Request \in down /\ LoadEmbedded

FallBack ==
  /\ stage = "ripe"
  /\ IF config.ids = <<>> THEN LoadEmbedded ELSE FetchFails

-----------------------------------------------------------------------------

\* What the table may have for the place of a report's probe.
Expected(report, match) ==
  IF match.city = NoCity THEN {0}
  ELSE LookupByProbeCoords(dataset, At(report.probe), match.city)

\* Layer 2 of Locate: the match, and for each report the value that the table
\* has for its probe's place.
Locate ==
  /\ stage = "serving" /\ reply = NoReply
  /\ \E reports \in Submissions :
       \E match \in BestMatch(Candidates(dataset, reports)) :
         \E expected \in [DOMAIN reports -> {0} \union Range(dataset.entries)] :
           /\ \A i \in DOMAIN reports : expected[i] \in Expected(reports[i], match)
           /\ reply' = [reports |-> reports, match |-> match, expected |-> expected]
  /\ UNCHANGED served

\* The handler returns; the dataset is only ever read.
Return ==
  /\ reply # NoReply
  /\ reply' = NoReply
  /\ UNCHANGED served

Next ==
  \/ LoadCSV \/ FetchPingResults \/ FetchProbes \/ FallBack
  \/ Locate \/ Return

Spec == Init /\ [][Next]_vars

-----------------------------------------------------------------------------

Answered == reply # NoReply

Rivals == Candidates(dataset, reply.reports)

\* Stages, names and places stay what they are, and the answer is the score of
\* a city of the dataset.
TypeOK ==
  /\ stage \in {"csv", "ripe", "serving"}
  /\ source \in {"none", "csv", "ripe", "embedded"}
  /\ (stage = "serving") = (source # "none")
  /\ \A key \in DOMAIN dataset.entries : dataset.entries[key] \in Int
  /\ \A c \in DOMAIN dataset.cities : c \in Name /\ dataset.cities[c] \in Place
  /\ Answered =>
       /\ reply.reports \in Submissions
       /\ IF Rivals = {} THEN reply.match.city = NoCity ELSE reply.match \in Rivals

\* A city with a smaller error than the answer (dataset.go:234) is passed over
\* only for a tie: between the two errors there is no gap of Tie or more that
\* no other city's error lies in.
NoGapBelowMatch ==
  Answered => \A d \in Rivals : Gap(d, reply.match) < 0 =>
    \E e \in Rivals : Gap(d, e) < 0 /\ Tied(d, e)

\* dataset.go:234 "prefer more matches on tie": where all cities tie, the
\* answer is one with the most matches, in whatever order the map yields them.
CountBreaksTies ==
  Answered /\ (\A d, e \in Rivals : Tied(d, e)) =>
    \A d \in Rivals : d.matched <= reply.match.matched

\* main.go:52 to 98: the file if it could be had, else the platform if it has
\* measurements to ask for and every request was answered, else what is
\* embedded; and the dataset is all of that source: of the platform every
\* configured measurement of a known probe, not of those that answered first.
BestSource ==
  stage = "serving" =>
    /\ source = IF config.file \in Files THEN "csv"
                ELSE IF config.ids # <<>> /\ down = {} THEN "ripe" ELSE "embedded"
    /\ source = "csv" => dataset = LoadCSVFromReader(config.file)
    /\ source = "embedded" => dataset = LoadCSVFromReader(Embedded)
    /\ source = "ripe" =>
         \A i \in DOMAIN config.ids : \A r \in ToSet(RipeResults[config.ids[i]]) :
           r.probe \in known => pairKey(r.probe, r.dst) \in DOMAIN dataset.entries

\* Every known probe stands where the dataset has the city it is mapped to.
Aligned ==
  \A p \in Probe :
    /\ p \in DOMAIN ProbeToCity
    /\ NearestCities(dataset, At(p)) = {ProbeToCity[p]}

\* BestMatch finds a probe's city by its ID, Locate by its place (engine.go:128
\* and 140): the value shown as expected is the one the match compared with,
\* except for a probe in the matched city itself.
ExpectedIsCompared ==
  Answered /\ Aligned =>
    \A i \in DOMAIN reply.reports :
      ProbeToCity[reply.reports[i].probe] # reply.match.city /\ reply.match.city # NoCity =>
        reply.expected[i] = Known(dataset, reply.match.city, reply.reports[i])

\* ripeatlas.go:150 "builds a dataset.Dataset suitable for the geolocation
\* engine": with RIPE results from the place of every known probe, a report
\* with at least one measurement is matched with some city.
RipeIsSuitable ==
  Answered /\ source = "ripe" /\ reply.reports # <<>>
    /\ (\A p \in Probe : \E i \in DOMAIN results :
          /\ results[i].probe \in known
          /\ RipeAt(results[i].probe) = At(p) /\ results[i].avg > 0)
  => reply.match.city # NoCity
=============================================================================
