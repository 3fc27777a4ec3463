------------------------------- MODULE Runner -------------------------------
(***************************************************************************)
(* One device's poll loop (internal/runner/runner.go): the loop, the       *)
(* goroutine of each Read it starts, and what the loop tells the device    *)
(* tracker (internal/stats/devices.go), the sink and the engine.  The      *)
(* adapter is external: a Read may return late or never, fail, panic, or   *)
(* return nothing at all; only some adapters heed their context.           *)
(***************************************************************************)
EXTENDS Naturals, FiniteSets

CONSTANT MaxPolls   \* bound: how many polls the loop makes

ASSUME RunnerAssumption == MaxPolls \in Nat

VARIABLES
  loop,       \* where Run is
  cancelled,  \* whether the collector's context is
  expired,    \* whether the poll's own timeout is over
  tick,       \* whether the ticker's channel holds its one tick
  polls,      \* polls begun; a Read has the number of its poll
  reading,    \* the Reads that are running, each on a goroutine of its own
  answer,     \* what a Read has left in its channel
  awaited,    \* the Read whose channel read() waits on
  pending,    \* r.pending: the Read whose channel it is, 0 for nil
  outcome,    \* what read() has returned, of which Read
  failures,   \* r.consecutiveFailures
  tracked,    \* the tracker's ConsecutiveFailures
  everPolled, \* the tracker's everPolled: the collector is ready
  told,       \* the reachability that the last health event stated
  panics,     \* counters.AdapterPanics
  applied,    \* the Read whose snapshot the engine was handed last
  newest,     \* history: the last Read that was started
  closing     \* where the application is in closing the adapter

reads  == <<reading, answer, awaited, pending, newest>>
health == <<failures, tracked, everPolled, told, panics, applied>>
timers == <<expired, tick>>
vars   == <<loop, cancelled, timers, polls, reads, outcome, health, closing>>

\* "cut": an error because the collector's context was cancelled.
Results == {"snapshot", "error", "fault", "cut"}
Failures == {"error", "cut", "timeout", "busy"}
NoOutcome == [no |-> 0, got |-> "none"]

Init ==
  /\ loop = "jitter" /\ cancelled = FALSE /\ expired = FALSE /\ tick = FALSE
  /\ polls = 0
  /\ reading = {} /\ answer = [n \in 1..MaxPolls |-> "none"]
  /\ awaited = 0 /\ pending = 0 /\ outcome = NoOutcome
  /\ failures = 0 /\ tracked = 0 /\ everPolled = FALSE
  /\ told = "none" /\ panics = 0 /\ applied = 0
  /\ newest = 0 /\ closing = "no"

-----------------------------------------------------------------------------
(* Run.                                                                    *)

JitterElapse ==
  /\ loop = "jitter"
  /\ polls < MaxPolls
  /\ loop' = "poll" /\ polls' = polls + 1
  /\ UNCHANGED <<cancelled, timers, reads, outcome, health, closing>>

Tick ==
  /\ loop \notin {"jitter", "done"}
  /\ tick' = TRUE
  /\ UNCHANGED <<loop, cancelled, expired, polls, reads, outcome, health, closing>>

NextPoll ==
  /\ loop = "wait" /\ tick
  /\ polls < MaxPolls
  /\ tick' = FALSE
  /\ loop' = "poll" /\ polls' = polls + 1
  /\ UNCHANGED <<cancelled, expired, reads, outcome, health, closing>>

Stop ==
  /\ loop \in {"jitter", "wait"}
  /\ cancelled
  /\ loop' = "done"
  /\ UNCHANGED <<cancelled, timers, polls, reads, outcome, health, closing>>

-----------------------------------------------------------------------------
(* read: one Read, bounded by the poll's context.                          *)

Arrived(n) == answer[n] # "none"

\* The Read abandoned by an earlier poll still runs: fail at once.
PollBusy ==
  /\ loop = "poll"
  /\ pending # 0 /\ ~Arrived(pending)
  /\ outcome' = [no |-> polls, got |-> "busy"]
  /\ loop' = "report"
  /\ UNCHANGED <<cancelled, timers, polls, reads, health, closing>>

\* Its late result is discarded: it stays in a channel nobody reads any more.
PollStart ==
  /\ loop = "poll"
  /\ pending # 0 => Arrived(pending)
  /\ pending' = 0
  /\ reading' = reading \cup {polls}
  /\ awaited' = polls /\ newest' = polls
  /\ expired' = FALSE
  /\ loop' = "await"
  /\ UNCHANGED <<cancelled, tick, polls, answer, outcome, health, closing>>

\* A Read returns, panics (recovered) or breaks its contract; an error may
\* come of the cancelled context.  Nobody may be waiting for it any more.
ReadReturns(n) ==
  /\ n \in reading
  /\ reading' = reading \ {n}
  /\ \E r \in Results :
       /\ r = "cut" => cancelled
       /\ answer' = [answer EXCEPT ![n] = r]
  /\ UNCHANGED <<loop, cancelled, timers, polls, awaited, pending, newest, outcome, health,
                 closing>>

Deadline ==
  /\ loop = "await"
  /\ expired' = TRUE
  /\ UNCHANGED <<loop, cancelled, tick, polls, reads, outcome, health, closing>>

\* Fault: any result that is there will do, a stale one too.
ReceivableStale == {n \in 1..polls : answer[n] # "none"}

Receivable == {n \in {awaited} : Arrived(n)}

Receive ==
  /\ loop = "await"
  /\ \E n \in Receivable :
       /\ outcome' = [no |-> n, got |-> answer[n]]
       /\ answer' = [answer EXCEPT ![n] = "none"]
  /\ awaited' = 0
  /\ loop' = "report"
  /\ UNCHANGED <<cancelled, timers, polls, reading, pending, newest, health, closing>>

\* Fault: the abandoned Read is forgotten.
KeepForgotten == pending' = 0

Keep == pending' = awaited

\* Fault: only the poll's timeout ends the wait, and it is not enforced.
OverNever == FALSE

\* The poll's context is done: its timeout is over, or the collector stops.
Over == expired \/ cancelled

\* The Read is abandoned, even if its result has just come.
Abandon ==
  /\ loop = "await"
  /\ Over
  /\ Keep
  /\ outcome' = [no |-> awaited, got |-> IF expired THEN "timeout" ELSE "cut"]
  /\ awaited' = 0
  /\ loop' = "report"
  /\ UNCHANGED <<cancelled, timers, polls, reading, answer, newest, health, closing>>

-----------------------------------------------------------------------------
(* pollOnce: what the outcome means.                                       *)

\* An adapter fault is not the device's: counted, and nothing else.
ReportFault ==
  /\ loop = "report" /\ outcome.got = "fault"
  /\ panics' = panics + 1
  /\ outcome' = NoOutcome /\ loop' = "wait"
  /\ UNCHANGED <<cancelled, timers, polls, reads, failures, tracked, everPolled, told, applied,
                 closing>>

\* Fault: every failed poll is the device's.
ExcusedNever == FALSE

\* A poll that shutdown may have cut short says nothing.
Excused == cancelled

ReportExcused ==
  /\ loop = "report" /\ outcome.got \in Failures
  /\ Excused
  /\ outcome' = NoOutcome /\ loop' = "wait"
  /\ UNCHANGED <<cancelled, timers, polls, reads, health, closing>>

ReportFailure ==
  /\ loop = "report" /\ outcome.got \in Failures
  /\ ~Excused
  /\ tracked' = tracked + 1
  /\ failures' = failures + 1
  /\ told' = IF failures = 0 THEN "down" ELSE told
  /\ outcome' = NoOutcome /\ loop' = "wait"
  /\ UNCHANGED <<cancelled, timers, polls, reads, everPolled, panics, applied, closing>>

\* Fault: the recovery event does not reset the count.
RecoveredKeeping == failures

Recovered == 0

\* Success: track it, tell a recovery, and hand the snapshot to the engine.
ReportOk ==
  /\ loop = "report" /\ outcome.got = "snapshot"
  /\ tracked' = 0 /\ everPolled' = TRUE
  /\ told' = IF failures > 0 THEN "up" ELSE told
  /\ failures' = Recovered
  /\ applied' = outcome.no
  /\ outcome' = NoOutcome /\ loop' = "wait"
  /\ UNCHANGED <<cancelled, timers, polls, reads, panics, closing>>

-----------------------------------------------------------------------------
(* The application: cancel, then, when Run has returned, close the adapter. *)

Cancel ==
  /\ ~cancelled
  /\ cancelled' = TRUE
  /\ UNCHANGED <<loop, timers, polls, reads, outcome, health, closing>>

CloseStart ==
  /\ loop = "done" /\ closing = "no"
  /\ closing' = "running"
  /\ UNCHANGED <<loop, cancelled, timers, polls, reads, outcome, health>>

CloseReturn ==
  /\ closing = "running"
  /\ closing' = "closed"
  /\ UNCHANGED <<loop, cancelled, timers, polls, reads, outcome, health>>

-----------------------------------------------------------------------------
Report == ReportFault \/ ReportExcused \/ ReportFailure \/ ReportOk

Run ==
  \/ JitterElapse \/ NextPoll \/ Stop
  \/ PollBusy \/ PollStart \/ Receive \/ Abandon
  \/ Report

Clock == Tick \/ Deadline

App == Cancel \/ CloseStart \/ CloseReturn

Next == Run \/ Clock \/ (\E n \in 1..MaxPolls : ReadReturns(n)) \/ App

Spec == Init /\ [][Next]_vars

(* The loop's goroutine runs when it can, and its timers fire: the jitter, *)
(* the ticker and the poll's timeout.  No fairness is assumed of the       *)
(* adapter, whose Read may hang for ever, or of the application.           *)
Fairness == WF_vars(Run) /\ WF_vars(Tick) /\ WF_vars(Deadline)

FairSpec == Spec /\ Fairness
-----------------------------------------------------------------------------
\* Types, and that read() returns with an outcome.
TypeOK ==
  /\ loop \in {"jitter", "poll", "await", "report", "wait", "done"}
  /\ cancelled \in BOOLEAN /\ expired \in BOOLEAN /\ tick \in BOOLEAN /\ everPolled \in BOOLEAN
  /\ polls \in 0..MaxPolls
  /\ reading \subseteq 1..MaxPolls
  /\ answer \in [1..MaxPolls -> Results \cup {"none"}]
  /\ awaited \in 0..MaxPolls /\ pending \in 0..MaxPolls
  /\ outcome \in [no : 0..MaxPolls, got : Results \cup Failures \cup {"none"}]
  /\ loop = "report" <=> outcome.got # "none"
  /\ failures \in Nat /\ tracked \in Nat
  /\ told \in {"none", "up", "down"}
  /\ panics \in Nat
  /\ applied \in 0..MaxPolls /\ newest \in 0..MaxPolls
  /\ closing \in {"no", "running", "closed"}

\* An adapter is never read concurrently, however its Reads hang, return late
\* or race the timeout (runner.go:39-42).
OneReadAtATime == Cardinality(reading) <= 1

\* The engine is handed the snapshot of the newest Read only: what an
\* abandoned Read brings late never overwrites what came after it
\* (runner.go:187-189).
OnlyTheNewest == [][applied' # applied => applied' = newest]_vars

\* What the health events say, what the tracker shows and what the loop goes
\* by are the same: down and up alternate, adapter faults and polls cut short
\* in between change neither, and the collector is ready as soon as one
\* snapshot came (runner.go:143-181, stats/devices.go:41-64).
HealthAgrees ==
  /\ told = "down" <=> failures > 0
  /\ tracked = failures
  /\ everPolled <=> applied > 0

\* A device is declared down for what it did: never because the collector's
\* own shutdown cut a poll short, nor because the adapter panicked
\* (runner.go:143-159).
NoSlander ==
  [][told # "down" /\ told' = "down" => outcome.got \notin {"cut", "fault", "snapshot"}]_vars

\* Run returns after shutdown began, whatever its adapter does: a hung Read
\* is not waited for (runner.go:184-189).
RunReturns == cancelled ~> loop = "done"

\* A Read that never returns is told as a device that is down, unless the
\* collector stops (runner.go:186-187).
HungIsTold ==
  \A n \in 1..MaxPolls : <>[](n \in reading) => <>(told = "down" \/ cancelled)

=============================================================================
