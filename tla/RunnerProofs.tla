---------------------------- MODULE RunnerProofs ----------------------------
(***************************************************************************)
(* Theorems about Runner, for any number of polls: an adapter is never     *)
(* read concurrently, only the newest Read reaches the engine, and what is *)
(* told of a device agrees with what its polls brought.                    *)
(***************************************************************************)
EXTENDS Runner, FiniteSetTheorems, TLAPS

\* Where the loop is, and which Read is whose.
Control ==
  /\ loop = "await" <=> awaited # 0
  /\ awaited # 0 => pending = 0 /\ awaited = newest
  /\ loop \notin {"jitter", "done"} => polls > 0
  /\ outcome.got = "snapshot" => outcome.no = newest /\ outcome.no # 0

\* A Read that runs is awaited or kept, and has left nothing in its channel.
Running ==
  \A n \in reading : n \in {awaited, pending} /\ ~Arrived(n)

\* A poll that has not started its Read has left no trace.
Unstarted ==
  \A n \in 1..MaxPolls :
    n > polls \/ (n = polls /\ loop = "poll") => n \notin reading /\ ~Arrived(n)

\* Only the collector's shutdown cuts a Read short.
CutByShutdown ==
  outcome.got = "cut" \/ (\E n \in 1..MaxPolls : answer[n] = "cut") => cancelled

Inv ==
  /\ TypeOK /\ Control /\ Running /\ Unstarted /\ CutByShutdown /\ HealthAgrees

-----------------------------------------------------------------------------
\* A loop that has not begun satisfies the invariant.
LEMMA InvInit == Init => Inv
<1> USE RunnerAssumption DEF RunnerAssumption
<1> SUFFICES ASSUME Init PROVE Inv
  OBVIOUS
<1>1. TypeOK
  <2>1. outcome \in [no : 0..MaxPolls, got : Results \cup Failures \cup {"none"}]
    BY DEF Init, NoOutcome
  <2>2. loop = "report" <=> outcome.got # "none"
    BY DEF Init, NoOutcome
  <2>3. answer \in [1..MaxPolls -> Results \cup {"none"}] /\ reading \subseteq 1..MaxPolls
    BY DEF Init
  <2>4. /\ loop \in {"jitter", "poll", "await", "report", "wait", "done"}
        /\ cancelled \in BOOLEAN /\ expired \in BOOLEAN /\ tick \in BOOLEAN
        /\ everPolled \in BOOLEAN
        /\ told \in {"none", "up", "down"} /\ closing \in {"no", "running", "closed"}
    BY DEF Init
  <2>5. /\ polls \in 0..MaxPolls /\ awaited \in 0..MaxPolls /\ pending \in 0..MaxPolls
        /\ applied \in 0..MaxPolls /\ newest \in 0..MaxPolls
        /\ failures \in Nat /\ tracked \in Nat /\ panics \in Nat
    BY DEF Init
  <2> QED BY <2>1, <2>2, <2>3, <2>4, <2>5 DEF TypeOK
<1>2. Control /\ Running /\ HealthAgrees
  BY DEF Init, Control, Running, HealthAgrees, NoOutcome
<1>3. Unstarted /\ CutByShutdown
  BY DEF Init, Unstarted, CutByShutdown, Arrived, NoOutcome
<1> QED BY <1>1, <1>2, <1>3 DEF Inv

\* The steps of the loop's timers and of the application keep the invariant:
\* they touch neither Reads nor health.
LEMMA QuietStep ==
  ASSUME Inv,
         JitterElapse \/ Tick \/ NextPoll \/ Stop \/ Deadline \/ Cancel
           \/ CloseStart \/ CloseReturn
  PROVE  Inv'
<1> USE RunnerAssumption DEF RunnerAssumption
<1>1. UNCHANGED <<reads, outcome, health>> /\ (cancelled => cancelled')
  BY DEF Inv, TypeOK, JitterElapse, Tick, NextPoll, Stop, Deadline, Cancel, CloseStart,
         CloseReturn, reads, health, timers
<1>2. TypeOK'
  <2>1. /\ loop' \in {"jitter", "poll", "await", "report", "wait", "done"}
        /\ loop' = "report" <=> loop = "report"
        /\ polls' \in 0..MaxPolls
        /\ closing' \in {"no", "running", "closed"}
    BY DEF Inv, TypeOK, JitterElapse, Tick, NextPoll, Stop, Deadline, Cancel, CloseStart,
           CloseReturn, timers
  <2>2. cancelled' \in BOOLEAN /\ expired' \in BOOLEAN /\ tick' \in BOOLEAN
    BY DEF Inv, TypeOK, JitterElapse, Tick, NextPoll, Stop, Deadline, Cancel, CloseStart,
           CloseReturn, timers
  <2>3. everPolled' \in BOOLEAN
    BY <1>1 DEF Inv, TypeOK, health
  <2> QED BY <1>1, <2>1, <2>2, <2>3 DEF Inv, TypeOK, reads, health
<1>3. Control'
  BY <1>1 DEF Inv, TypeOK, Control, JitterElapse, Tick, NextPoll, Stop, Deadline, Cancel,
              CloseStart, CloseReturn, reads, health
<1>4. Running' /\ CutByShutdown' /\ HealthAgrees'
  BY <1>1 DEF Inv, Running, CutByShutdown, HealthAgrees, Arrived, reads, health
<1>5. Unstarted'
  BY <1>1 DEF Inv, TypeOK, Unstarted, Arrived, JitterElapse, Tick, NextPoll, Stop, Deadline,
              Cancel, CloseStart, CloseReturn, reads
<1> QED BY <1>2, <1>3, <1>4, <1>5 DEF Inv

\* The steps of read() keep the invariant: a Read starts only when none runs.
LEMMA ReadStep ==
  ASSUME Inv,
         PollBusy \/ PollStart \/ Receive \/ Abandon \/ \E n \in 1..MaxPolls : ReadReturns(n)
  PROVE  Inv'
<1> USE RunnerAssumption DEF RunnerAssumption
<1>1. CASE PollBusy
  <2>1. TypeOK'
    BY <1>1 DEF Inv, TypeOK, Control, PollBusy, Results, Failures, reads, health, timers
  <2>2. Control' /\ Running' /\ Unstarted' /\ HealthAgrees' /\ CutByShutdown'
    BY <1>1 DEF Inv, TypeOK, Control, Running, Unstarted, HealthAgrees, CutByShutdown, Arrived,
                PollBusy, reads, health
  <2> QED BY <2>1, <2>2 DEF Inv
<1>2. CASE PollStart
  <2> USE <1>2 DEF PollStart
  <2>1. polls \in 1..MaxPolls /\ reading = {}
    BY DEF Inv, TypeOK, Control, Running, Arrived
  <2>2. TypeOK' /\ reading' = {polls}
    <3>1. reading' = {polls} /\ reading' \subseteq 1..MaxPolls
      BY <2>1
    <3>2. /\ cancelled' \in BOOLEAN /\ expired' \in BOOLEAN /\ tick' \in BOOLEAN
          /\ everPolled' \in BOOLEAN
      BY DEF Inv, TypeOK, health
    <3>3. loop' = "await" /\ loop = "poll" /\ outcome' = outcome
      OBVIOUS
    <3>4. /\ polls' \in 0..MaxPolls /\ awaited' \in 0..MaxPolls /\ pending' \in 0..MaxPolls
          /\ newest' \in 0..MaxPolls
      BY <2>1 DEF Inv, TypeOK
    <3>5. UNCHANGED <<answer, failures, tracked, told, panics, applied, closing>>
      BY DEF health
    <3> QED BY <3>1, <3>2, <3>3, <3>4, <3>5 DEF Inv, TypeOK
  <2>3. Control'
    BY <2>1 DEF Inv, TypeOK, Control
  <2>4. Running' /\ Unstarted'
    BY <2>1, <2>2 DEF Inv, TypeOK, Running, Unstarted, Arrived
  <2>5. HealthAgrees' /\ CutByShutdown'
    BY DEF Inv, HealthAgrees, CutByShutdown, health
  <2> QED BY <2>2, <2>3, <2>4, <2>5 DEF Inv
<1>3. CASE Receive
  <2> USE <1>3 DEF Receive
  <2>1. /\ awaited \in 1..MaxPolls /\ Arrived(awaited)
        /\ outcome' = [no |-> awaited, got |-> answer[awaited]]
        /\ answer' = [answer EXCEPT ![awaited] = "none"]
    BY DEF Inv, TypeOK, Control, Receivable
  <2>2. TypeOK'
    BY <2>1 DEF Inv, TypeOK, Results, Failures, Arrived, timers, health
  <2>3. Control' /\ HealthAgrees' /\ CutByShutdown'
    BY <2>1 DEF Inv, TypeOK, Control, HealthAgrees, CutByShutdown, health
  <2>4. Running' /\ Unstarted'
    BY <2>1 DEF Inv, TypeOK, Control, Running, Unstarted, Arrived
  <2> QED BY <2>2, <2>3, <2>4 DEF Inv
<1>4. CASE Abandon
  <2> USE <1>4 DEF Abandon, Keep, Over
  <2>1. TypeOK' /\ Control'
    BY DEF Inv, TypeOK, Control, Results, Failures, timers, health
  <2>2. Running' /\ Unstarted'
    BY DEF Inv, TypeOK, Control, Running, Unstarted, Arrived
  <2>3. HealthAgrees' /\ CutByShutdown'
    BY DEF Inv, HealthAgrees, CutByShutdown, health
  <2> QED BY <2>1, <2>2, <2>3 DEF Inv
<1>5. CASE \E n \in 1..MaxPolls : ReadReturns(n)
  <2>1. PICK n \in reading : ReadReturns(n)
    BY <1>5 DEF ReadReturns
  <2>2. PICK r \in Results :
          /\ r = "cut" => cancelled
          /\ answer' = [answer EXCEPT ![n] = r]
    BY <2>1 DEF ReadReturns
  <2> USE <2>1, <2>2 DEF ReadReturns
  <2>3. TypeOK'
    BY DEF Inv, TypeOK, Results, timers, health
  <2>4. Control' /\ HealthAgrees'
    BY DEF Inv, Control, HealthAgrees, health
  <2>5. Running' /\ Unstarted'
    BY DEF Inv, TypeOK, Running, Unstarted, Arrived
  <2>6. CutByShutdown'
    BY DEF Inv, TypeOK, CutByShutdown
  <2> QED BY <2>3, <2>4, <2>5, <2>6 DEF Inv
<1> QED BY <1>1, <1>2, <1>3, <1>4, <1>5

\* The steps that report an outcome keep the invariant: what is told of the
\* device follows the count of its failures.
LEMMA ReportStep ==
  ASSUME Inv, Report
  PROVE  Inv'
<1> USE RunnerAssumption DEF RunnerAssumption
<1>1. /\ loop = "report" /\ loop' = "wait" /\ outcome' = NoOutcome
      /\ UNCHANGED <<cancelled, timers, polls, reads, closing>>
  BY DEF Report, ReportFault, ReportExcused, ReportFailure, ReportOk, health
<1>2. TypeOK'
  <2>1. outcome.no \in 0..MaxPolls
    BY DEF Inv, TypeOK
  <2>2. /\ failures' \in Nat /\ tracked' \in Nat /\ panics' \in Nat
        /\ told' \in {"none", "up", "down"}
        /\ applied' \in 0..MaxPolls
    BY <2>1 DEF Inv, TypeOK, Report, ReportFault, ReportExcused, ReportFailure, ReportOk, health,
                Recovered
  <2>3. everPolled' \in BOOLEAN
    BY DEF Inv, TypeOK, Report, ReportFault, ReportExcused, ReportFailure, ReportOk, health
  <2>4. NoOutcome \in [no : 0..MaxPolls, got : Results \cup Failures \cup {"none"}]
    BY DEF NoOutcome
  <2> QED BY <1>1, <2>2, <2>3, <2>4 DEF Inv, TypeOK, NoOutcome, reads, timers
<1>3. Control' /\ Running' /\ Unstarted' /\ CutByShutdown'
  BY <1>1 DEF Inv, TypeOK, Control, Running, Unstarted, CutByShutdown, Arrived, NoOutcome, reads
<1>4. HealthAgrees'
  BY DEF Inv, TypeOK, Control, HealthAgrees, Report, ReportFault, ReportExcused, ReportFailure,
         ReportOk, Recovered, health
<1> QED BY <1>2, <1>3, <1>4 DEF Inv

\* Every step keeps the invariant.
LEMMA InvStep == Inv /\ [Next]_vars => Inv'
<1>1. Inv /\ Next => Inv'
  BY QuietStep, ReadStep, ReportStep DEF Next, Run, Clock, App
<1>2. Inv /\ UNCHANGED vars => Inv'
  BY DEF Inv, TypeOK, Control, Running, Unstarted, CutByShutdown, HealthAgrees, Arrived, vars,
         reads, health, timers
<1> QED BY <1>1, <1>2

\* The inductive invariant: which Read is whose, and what has been told.
THEOREM Invariance == Spec => []Inv
  BY InvInit, InvStep, PTL DEF Spec

\* Every reachable state is well typed, and the loop reports exactly when
\* read() has returned.
THEOREM TypeCorrect == Spec => []TypeOK
<1>1. Inv => TypeOK
  BY DEF Inv
<1> QED BY <1>1, Invariance, PTL

\* Of one adapter no two Reads ever run at the same time (runner.go:39-42).
THEOREM NeverReadConcurrently == Spec => []OneReadAtATime
<1>1. Inv => OneReadAtATime
  <2> SUFFICES ASSUME Inv PROVE Cardinality(reading) <= 1
    BY DEF OneReadAtATime
  <2> DEFINE x == IF awaited # 0 THEN awaited ELSE pending
  <2>1. \A n \in reading : n = x
    <3>1. \A n \in reading : n # 0 /\ n \in {awaited, pending}
      BY DEF Inv, TypeOK, Running
    <3>2. awaited # 0 => pending = 0
      BY DEF Inv, Control
    <3> QED BY <3>1, <3>2
  <2> HIDE DEF x
  <2>2. reading = {} \/ reading = {x}
    BY <2>1
  <2>3. Cardinality({}) = 0 /\ Cardinality({x}) = 1
    BY FS_EmptySet, FS_Singleton
  <2> QED BY <2>2, <2>3
<1> QED BY <1>1, Invariance, PTL

\* What the engine is handed is the newest Read's (runner.go:187-189).
THEOREM NewestOnly == Spec => OnlyTheNewest
<1>1. Inv /\ [Next]_vars => [applied' # applied => applied' = newest]_vars
  BY DEF Inv, Control, Next, Run, Clock, App, Report, JitterElapse, NextPoll, Stop, PollBusy,
         PollStart, Receive, Abandon, ReportFault, ReportExcused, ReportFailure, ReportOk, Tick,
         Deadline, ReadReturns, Cancel, CloseStart, CloseReturn, health
<1> QED BY <1>1, Invariance, PTL DEF Spec, OnlyTheNewest

\* Tracker, health events and loop agree on the device (runner.go:143-181).
THEOREM HealthAlwaysAgrees == Spec => []HealthAgrees
<1>1. Inv => HealthAgrees
  BY DEF Inv
<1> QED BY <1>1, Invariance, PTL

\* Neither shutdown nor an adapter's panic makes a device look down
\* (runner.go:143-159).
THEOREM NeverSlandered == Spec => NoSlander
<1> DEFINE Down == told # "down" /\ told' = "down"
<1>1. Inv /\ [Next]_vars => [Down => outcome.got \notin {"cut", "fault", "snapshot"}]_vars
  BY DEF Inv, CutByShutdown, Failures, Excused, Next, Run, Clock, App, Report, JitterElapse,
         NextPoll, Stop, PollBusy, PollStart, Receive, Abandon, ReportFault, ReportExcused,
         ReportFailure, ReportOk, Tick, Deadline, ReadReturns, Cancel, CloseStart, CloseReturn,
         health
<1> QED BY <1>1, Invariance, PTL DEF Spec, NoSlander
=============================================================================
