------------------------------- MODULE Instance -------------------------------
(***************************************************************************)
(* One run of the collector (Run, internal/app/app.go): adapters are built *)
(* and the rest is started, or boot fails; runners, the heartbeat and the  *)
(* log shipper run until the context is done; then the queue is closed and *)
(* the adapters are.  What happens within the publisher, the state writer  *)
(* and a runner is in the modules of their own: here they are what they    *)
(* promise, that runners, Flush and Drain return.                          *)
(***************************************************************************)
EXTENDS LogShip

CONSTANTS
  Devices,           \* in the order of the configuration: 1 .. Devices
  MaxTime, MaxLogs, MaxEvents

VARIABLES
  stage,      \* where Run is
  cancelled,  \* ctx is done
  failed,     \* Run returns an error
  readers,    \* the adapters in the list that closeAll is given
  adapters,   \* "none", "open", "closing", "closed", or "refused": not built
  closes,     \* history: how often each adapter's Close was called
  runners,    \* "off", "running", "done"
  shipper,    \* "off", "running", "done"
  accepting,  \* the publisher takes events
  queued      \* kinds of the events that were queued, in order

avars == <<stage, cancelled, failed, readers, adapters, closes, runners, shipper, accepting,
           queued>>

vars == <<hvars, lvars, avars>>

D == 1 .. Devices

InstanceInit ==
  /\ HeartbeatInit /\ LogShipInit
  /\ stage = "build" /\ cancelled = FALSE /\ failed = FALSE
  /\ readers = {} /\ adapters = [d \in D |-> "none"] /\ closes = [d \in D |-> 0]
  /\ runners = [d \in D |-> "off"] /\ shipper = "off"
  /\ accepting = FALSE /\ queued = <<>>

\* sink: an event is queued unless the publisher is draining.
Sink(event) == queued' = IF accepting THEN Append(queued, event) ELSE queued

-----------------------------------------------------------------------------
\* Boot.

\* The loop over the devices is at d.
NextDevice(d) == adapters[d] = "none" /\ \A c \in 1 .. d - 1 : adapters[c] # "none"

\* closeAll is called: each adapter of the list gets its Close, all at once and
\* whatever became of it before.
CloseAll(as) == [d \in D |-> IF d \in readers THEN "closing" ELSE as[d]]

Closing(as) ==
  /\ adapters' = CloseAll(as)
  /\ closes' = [d \in D |-> IF d \in readers THEN closes[d] + 1 ELSE closes[d]]

\* Fault: the adapters that were built are left open.
FailOpen(as) == stage' = "close" /\ failed' = TRUE /\ adapters' = as /\ UNCHANGED closes

Fail(as) == stage' = "close" /\ failed' = TRUE /\ Closing(as)

BuildReader(d) ==
  /\ stage = "build" /\ NextDevice(d)
  /\ adapters' = [adapters EXCEPT ![d] = "open"]
  /\ readers' = readers \cup {d}
  /\ UNCHANGED <<hvars, lvars, stage, cancelled, failed, closes, runners, shipper,
                 accepting, queued>>

\* The device's adapter cannot be built.
BuildFails(d) ==
  /\ stage = "build" /\ NextDevice(d)
  /\ Fail([adapters EXCEPT ![d] = "refused"])
  /\ UNCHANGED <<hvars, lvars, cancelled, readers, runners, shipper, accepting, queued>>

\* It is built, and cannot be read: it is closed without coming into the list.
\* Run waits for that as long as it takes.
Unreadable(d) ==
  /\ stage = "build" /\ NextDevice(d)
  /\ stage' = "reject"
  /\ adapters' = [adapters EXCEPT ![d] = "closing"]
  /\ closes' = [closes EXCEPT ![d] = @ + 1]
  /\ UNCHANGED <<hvars, lvars, cancelled, failed, readers, runners, shipper, accepting,
                 queued>>

Rejected ==
  /\ stage = "reject" /\ \A d \in D : adapters[d] # "closing"
  /\ Fail(adapters)
  /\ UNCHANGED <<hvars, lvars, cancelled, readers, runners, shipper, accepting, queued>>

\* What is checked before an adapter is built, or the publisher or management
\* surface that is started after.
StartFails ==
  /\ stage = "build"
  /\ \E state \in {"none", "open"} : \A d \in D : adapters[d] = state
  /\ Fail(adapters)
  /\ UNCHANGED <<hvars, lvars, cancelled, readers, runners, shipper, accepting, queued>>

\* The publisher takes events, and the first is that the collector started.
Announce ==
  /\ stage = "build" /\ \A d \in D : adapters[d] = "open"
  /\ stage' = "start" /\ accepting' = TRUE
  /\ queued' = Append(queued, "started")
  /\ UNCHANGED <<hvars, lvars, cancelled, failed, readers, adapters, closes, runners,
                 shipper>>

\* Goroutines are started one after the other, and run as soon as they are.
StartRunner(d) ==
  /\ stage = "start" /\ runners[d] = "off" /\ \A c \in 1 .. d - 1 : runners[c] # "off"
  /\ runners' = [runners EXCEPT ![d] = "running"]
  /\ UNCHANGED <<hvars, lvars, stage, cancelled, failed, readers, adapters, closes,
                 shipper, accepting, queued>>

StartHeartbeat ==
  /\ stage = "start" /\ \A d \in D : runners[d] # "off"
  /\ StartHeart
  /\ UNCHANGED <<lvars, avars>>

StartShipper ==
  /\ stage = "start" /\ heart # "off"
  /\ shipper' = "running" /\ stage' = "run"
  /\ UNCHANGED <<hvars, lvars, cancelled, failed, readers, adapters, closes, runners,
                 accepting, queued>>

-----------------------------------------------------------------------------
\* While it runs.

Cancel ==
  /\ ~cancelled /\ cancelled' = TRUE
  /\ UNCHANGED <<hvars, lvars, stage, failed, readers, adapters, closes, runners,
                 shipper, accepting, queued>>

\* A runner tells what it has read, a last time maybe when ctx is done.
RunnerTells(d) ==
  /\ runners[d] = "running" /\ Len(queued) < MaxEvents
  /\ Sink("device")
  /\ UNCHANGED <<hvars, lvars, stage, cancelled, failed, readers, adapters, closes,
                 runners, shipper, accepting>>

RunnerEnds(d) ==
  /\ cancelled /\ runners[d] = "running"
  /\ runners' = [runners EXCEPT ![d] = "done"]
  /\ UNCHANGED <<hvars, lvars, stage, cancelled, failed, readers, adapters, closes,
                 shipper, accepting, queued>>

HeartBeats ==
  /\ Beat /\ Sink("heartbeat")
  /\ UNCHANGED <<lvars, stage, cancelled, failed, readers, adapters, closes, runners,
                 shipper, accepting>>

HeartEnds ==
  /\ cancelled /\ StopHeart
  /\ UNCHANGED <<lvars, avars>>

\* When both are ready the shipper takes a record or sees that ctx is done.
Ships ==
  /\ shipper = "running" /\ ShipRecord /\ Sink("log")
  /\ UNCHANGED <<hvars, stage, cancelled, failed, readers, adapters, closes, runners,
                 shipper, accepting>>

ShipperEnds ==
  /\ cancelled /\ shipper = "running" /\ shipper' = "done"
  /\ UNCHANGED <<hvars, lvars, stage, cancelled, failed, readers, adapters, closes,
                 runners, accepting, queued>>

\* Whatever runs may log, the drain included.
Logs ==
  /\ stage # "returned" /\ logged < MaxLogs
  /\ LogRecord
  /\ UNCHANGED <<hvars, avars>>

Puts == PutRecord /\ UNCHANGED <<hvars, avars>>

TimePasses ==
  /\ now < MaxTime /\ stage = "run"
  /\ Tick
  /\ UNCHANGED <<lvars, avars>>

ClockIsSet ==
  /\ stage = "run" /\ \E o \in Offsets : SetClock(o)
  /\ UNCHANGED <<lvars, avars>>

-----------------------------------------------------------------------------
\* Shutdown.

\* Fault: the shipper is not waited for.
AllEndedButShipper == heart = "done" /\ \A d \in D : runners[d] = "done"

AllEnded == heart = "done" /\ shipper = "done" /\ \A d \in D : runners[d] = "done"

\* Queued ahead of the drain.
TellStopping ==
  /\ stage = "run" /\ cancelled /\ AllEnded
  /\ stage' = "flush"
  /\ Sink("stopping")
  /\ UNCHANGED <<hvars, lvars, cancelled, failed, readers, adapters, closes, runners,
                 shipper, accepting>>

Flush ==
  /\ stage = "flush" /\ stage' = "drain"
  /\ UNCHANGED <<hvars, lvars, cancelled, failed, readers, adapters, closes, runners,
                 shipper, accepting, queued>>

\* Drain closes the queue; when it returns Run does, and closes the adapters.
Drain ==
  /\ stage = "drain" /\ stage' = "close"
  /\ accepting' = FALSE
  /\ Closing(adapters)
  /\ UNCHANGED <<hvars, lvars, cancelled, failed, readers, runners, shipper, queued>>

\* An adapter's Close may never return.
Closed(d) ==
  /\ adapters[d] = "closing"
  /\ adapters' = [adapters EXCEPT ![d] = "closed"]
  /\ UNCHANGED <<hvars, lvars, stage, cancelled, failed, readers, closes, runners,
                 shipper, accepting, queued>>

\* Fault: Run waits for each Close.
ReturnWhenClosed ==
  /\ stage = "close" /\ \A d \in D : adapters[d] # "closing"
  /\ stage' = "returned"
  /\ UNCHANGED <<hvars, lvars, cancelled, failed, readers, adapters, closes, runners,
                 shipper, accepting, queued>>

\* Each is closed, or closeTimeout has passed.
Return ==
  /\ stage = "close"
  /\ stage' = "returned"
  /\ UNCHANGED <<hvars, lvars, cancelled, failed, readers, adapters, closes, runners,
                 shipper, accepting, queued>>

Boot == \/ \E d \in D : BuildReader(d) \/ BuildFails(d) \/ Unreadable(d) \/ StartRunner(d)
        \/ Rejected \/ StartFails \/ Announce \/ StartHeartbeat \/ StartShipper

Shutdown == TellStopping \/ Flush \/ Drain \/ Return

InstanceNext ==
  \/ Boot \/ Cancel \/ Shutdown
  \/ \E d \in D : RunnerTells(d) \/ RunnerEnds(d) \/ Closed(d)
  \/ HeartBeats \/ HeartEnds \/ Ships \/ ShipperEnds
  \/ Logs \/ Puts \/ TimePasses \/ ClockIsSet

\* The code runs: boot goes on, goroutines see that ctx is done, Flush, Drain
\* and closeAll are bounded by their timeouts.  A Close need not return.
Fairness ==
  /\ WF_vars(Boot) /\ WF_vars(Shutdown)
  /\ \A d \in D : WF_vars(RunnerEnds(d))
  /\ WF_vars(HeartEnds) /\ WF_vars(ShipperEnds)

InstanceSpec == InstanceInit /\ [][InstanceNext]_vars /\ Fairness

-----------------------------------------------------------------------------
\* Nobody takes records out of the channel any more.
ShippingOver == shipper = "done" \/ failed

\* The log records that were queued as events.
Published == {k \in DOMAIN queued : queued[k] = "log"}

\* A log record at or above the floor is published, counted as suppressed, or
\* still with its logger, whichever loggers are between being admitted and
\* sending (logship.go:116-136), and as long as the publisher takes events; what
\* is missing is in the channel, which is bounded.  It is lost, and not counted
\* anywhere, only by a collector that is stopping or failed to boot: its shipper
\* leaves at once what the channel holds, and what comes into it later
\* (app.go:230-251).
LogsAccounted ==
  LET missing == logged - (Cardinality(Published) + suppressed + inHand)
  IN  /\ missing = channel /\ missing <= Backlog * Limit
      /\ missing # 0 /\ ShippingOver => cancelled \/ failed

\* The first event of a run is that the collector started, and the last one
\* that it stops: no runner, heartbeat or log record comes behind it, and none
\* is queued by a boot that fails (app.go:142-150, 187-192, 248-255).
Announced ==
  /\ \A k \in DOMAIN queued : /\ queued[k] = "started" <=> k = 1
                              /\ queued[k] = "stopping" => k = Len(queued)
  /\ stage = "returned" =>
       IF failed THEN queued = <<>> ELSE queued[Len(queued)] = "stopping"

\* An adapter that was built is closed once, though there are four ways to come
\* to closeAll and one past it, when the collector stops or boot fails behind it,
\* and not while its runner runs (app.go:142-151, 278-320).
ClosedOnce ==
  \A d \in D :
    /\ closes[d] = (IF adapters[d] \in {"closing", "closed"} THEN 1 ELSE 0)
    /\ adapters[d] \in {"closing", "closed"} => runners[d] # "running"
    /\ stage = "returned" => adapters[d] # "open"

\* Run returns once ctx is done, or boot has failed, though an adapter's Close
\* hangs; only the Close of an adapter that cannot be read is waited for
\* without a limit (app.go:285-292, 301-320).
ProcessEnds == cancelled \/ failed ~> stage \in {"returned", "reject"}
=============================================================================
