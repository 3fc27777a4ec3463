------------------------------ MODULE Detectors ------------------------------
(***************************************************************************)
(* The detector differ (internal/synth/detector.go): cumulative counters   *)
(* turned into counts per interval, with a memory of its own for the time  *)
(* of the last sample beside the engine's previous facet.  The controller  *)
(* counts vehicles in counters that wrap and that a restart resets, and    *)
(* may answer for some channels only.  The adapter (vendors/ntcip/asc.go)  *)
(* stamps a snapshot before it reads the table of counters in many round   *)
(* trips, so vehicles pass between the stamp and the read of a counter.    *)
(***************************************************************************)
EXTENDS Integers

CONSTANTS
  Channels,    \* detector channels
  Modulus,     \* the counters' range: 2^32 in the code
  NoSample,    \* no facet, no sample time, no report
  MaxPolls,    \* bound: Reads
  MaxVehicles  \* bound: vehicles over one channel

ASSUME DetectorsAssumption ==
  /\ Modulus \in Nat \ {0}
  /\ MaxPolls \in Nat /\ MaxVehicles \in Nat
  /\ NoSample \notin Int
  /\ \A S \in SUBSET Channels : NoSample \notin [S -> 0 .. Modulus - 1]

VARIABLES
  count,       \* the controller's counters
  now,         \* the time, in Reads
  stamp,       \* SampledAt of the Read under way, or NoSample
  got,         \* the counters that Read has so far
  prevSample,  \* e.prev[device]["detector-samples"]
  last,        \* d.last[device]
  report,      \* what Apply returned for the last Read, once it has
  passed,      \* history: vehicles over each channel
  begun,       \* history: what passed was at the stamp of the Read under way
  then,        \* history: of each sample time the differ may go back to, what
               \* passed was at the stamp and when the Read ended
  upset,       \* history: channels reset or wrapped since the differ's sample
               \* of them and before they were read again
  later,       \* history: those reset or wrapped since, in the Read under way
  told         \* history: the sum of the deltas reported of each channel

engine   == <<prevSample, last>>
underway == <<stamp, got, begun, later>>
dvars    == <<count, now, underway, engine, report, passed, then, upset, told>>

Counter == 0 .. Modulus - 1

Samples == UNION {[S -> Counter] : S \in SUBSET Channels}

-----------------------------------------------------------------------------
\* The differ.

\* Fault: a counter that went backwards has wrapped.
DeltaWrapping(p, c) == (c - p) % Modulus

\* A counter that went backwards was reset: it is the count since then.
Delta(p, c) == IF c >= p THEN c - p ELSE c

\* The channels with a previous sample to count from.
Readings(p, c) ==
  [ch \in DOMAIN p \cap DOMAIN c |-> Delta(p[ch], c[ch])]

\* A report needs a sample time and a facet to start from, and a reading.
Report(start, p, c, end) ==
  IF start = NoSample \/ p = NoSample THEN NoSample
  ELSE IF DOMAIN Readings(p, c) = {} THEN NoSample
  ELSE [start |-> start, end |-> end, readings |-> Readings(p, c)]

\* Fault: the time of a sample is kept when it is reported.
LastReported(end, r) == IF last # NoSample /\ r = NoSample THEN last ELSE end

\* d.last[device] after a sample, reported or not.
Last(end, r) == end

-----------------------------------------------------------------------------
Nothing == [x \in {} |-> 0]
Zero    == [ch \in Channels |-> 0]

DetectorInit ==
  /\ count = Zero
  /\ now = 0
  /\ stamp = NoSample /\ got = Nothing /\ begun = Zero /\ later = {}
  /\ prevSample = NoSample /\ last = NoSample /\ report = NoSample
  /\ passed = Zero
  /\ then = Nothing
  /\ upset = {}
  /\ told = Zero

\* The controller.  What befalls a channel the Read under way has read counts
\* for the next one.

Vehicle(ch) ==
  LET wraps == IF count[ch] = Modulus - 1 THEN {ch} ELSE {}
  IN  /\ passed[ch] < MaxVehicles
      /\ passed' = [passed EXCEPT ![ch] = @ + 1]
      /\ count' = [count EXCEPT ![ch] = (@ + 1) % Modulus]
      /\ upset' = upset \cup (wraps \ DOMAIN got)
      /\ later' = later \cup (wraps \cap DOMAIN got)
      /\ UNCHANGED <<now, stamp, got, begun, engine, report, then, told>>

ControllerReset ==
  /\ count' = Zero
  /\ upset' = upset \cup (Channels \ DOMAIN got)
  /\ later' = DOMAIN got
  /\ UNCHANGED <<now, stamp, got, begun, engine, report, passed, then, told>>

\* The adapter.

\* The scalars have been read: the snapshot is stamped.
StartRead ==
  /\ stamp = NoSample
  /\ now < MaxPolls
  /\ now' = now + 1
  /\ stamp' = now + 1
  /\ begun' = passed
  /\ report' = NoSample
  /\ UNCHANGED <<count, got, later, engine, passed, then, upset, told>>

\* The counter of one channel is read.  One that is never read before the Read
\* ends was not answered.
ReadChannel(ch) ==
  /\ stamp # NoSample
  /\ ch \notin DOMAIN got
  /\ got' = [k \in DOMAIN got \cup {ch} |-> IF k = ch THEN count[ch] ELSE got[k]]
  /\ UNCHANGED <<count, now, stamp, begun, later, engine, report, passed, then, upset, told>>

EndOfRead == stamp' = NoSample /\ got' = Nothing /\ begun' = Zero /\ later' = {}

\* The Read returns and the differ is given its facet.  It records the stamp and
\* takes the last one under its own lock, whatever it goes on to report.
ApplySample ==
  LET r == Report(last, prevSample, got, stamp)
  IN  /\ stamp # NoSample
      /\ report' = r
      /\ last' = Last(stamp, r)
      /\ prevSample' = got
      /\ then' = [t \in {stamp} \cup (DOMAIN then \cap {last'}) |->
                    IF t = stamp THEN [begun |-> begun, ended |-> passed] ELSE then[t]]
      /\ upset' = later
      /\ told' = IF r = NoSample THEN told
                 ELSE [ch \in Channels |->
                         IF ch \in DOMAIN r.readings
                           THEN told[ch] + r.readings[ch] ELSE told[ch]]
      /\ EndOfRead
      /\ UNCHANGED <<count, now, passed>>

\* The table is not readable, or the Read is abandoned: it never reaches the
\* differ.
SampleFailed ==
  /\ stamp # NoSample
  /\ upset' = upset \cup later
  /\ EndOfRead
  /\ UNCHANGED <<count, now, engine, report, passed, then, told>>

\* The facet is volatile: no boot remembers it.
ForgetSample ==
  /\ prevSample' = NoSample /\ last' = NoSample /\ report' = NoSample
  /\ then' = Nothing
  /\ upset' = {}
  /\ EndOfRead
  /\ UNCHANGED <<count, now, passed, told>>

DetectorNext ==
  \/ \E ch \in Channels : Vehicle(ch)
  \/ ControllerReset
  \/ StartRead
  \/ \E ch \in Channels : ReadChannel(ch)
  \/ ApplySample
  \/ SampleFailed
  \/ ForgetSample

DetectorSpec == DetectorInit /\ [][DetectorNext]_dvars

-----------------------------------------------------------------------------
\* Everything has its type.
DetectorTypeOK ==
  /\ count \in [Channels -> Counter]
  /\ now \in Nat
  /\ stamp \in (1 .. now) \cup {NoSample}
  /\ got \in Samples
  /\ prevSample \in Samples \cup {NoSample}
  /\ last \in DOMAIN then \cup {NoSample}
  /\ passed \in [Channels -> Nat] /\ begun \in [Channels -> Nat]
  /\ DOMAIN then \subseteq 0 .. now
  /\ \A t \in DOMAIN then : then[t] \in [begun : [Channels -> Nat], ended : [Channels -> Nat]]
  /\ upset \subseteq Channels /\ later \subseteq Channels
  /\ told \in [Channels -> Int]

\* Over any number of polls, failed polls, partial answers, wraps, controller
\* resets and restarts of the collector, no vehicle is reported twice and none
\* is made up (detector.go:42-43 tells of the spike on every restart).
NeverOvercounts == \A ch \in Channels : told[ch] <= passed[ch]

\* A report's counts are about its own interval, whatever polls failed, were
\* partial or forgotten in between, but for the vehicles that pass while the two
\* Reads that bound it are under way (a snapshot is stamped at asc.go:93, the
\* counters are read at :99 and :170): a reading is at most the vehicles from the
\* first stamp to the end of the last Read and, unless the counter was reset or
\* wrapped in between, at least those from the end of the first to the last stamp.
CountedInInterval ==
  [][(report' # NoSample /\ report' # report) =>
       LET from == then[report'.start]
           to   == then'[report'.end]
       IN  \A ch \in DOMAIN report'.readings :
             /\ report'.readings[ch] <= to.ended[ch] - from.begun[ch]
             /\ ch \notin upset => report'.readings[ch] >= to.begun[ch] - from.ended[ch]]_dvars
=============================================================================
