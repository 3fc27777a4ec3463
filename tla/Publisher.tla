----------------------------- MODULE Publisher -----------------------------
(***************************************************************************)
(* The publisher of internal/publish/publish.go: a bounded queue between   *)
(* the goroutines that produce events and the one goroutine that publishes *)
(* them, the capacity-one channel that wakes it, the retry loop, and the   *)
(* shutdown drain.  The broker (JetStream) is external: it answers in      *)
(* time, answers when it can, or is gone; it may lose its store; it        *)
(* deduplicates by message id for a while.                                 *)
(*                                                                         *)
(* An event is the number of its Enqueue among the accepted ones, so that  *)
(* "in order" is arithmetic.  What the broker will make of an event        *)
(* (publish it, find it too large, refuse it) is fixed by the constants    *)
(* Oversized and Rejected, its stream by StreamOf.                         *)
(***************************************************************************)
EXTENDS Naturals, Sequences

CONSTANTS
  Producers,    \* goroutines that call Enqueue
  Capacity,     \* tuning.capacity
  BackoffMin,   \* tuning.backoffMin, in units of itself
  BackoffMax,   \* tuning.backoffMax, in the same units
  Bindings,     \* one stream per ce-type namespace
  MaxEvents,    \* bound: how many events are ever accepted
  StreamOf,     \* the binding whose stream captures an event
  Oversized,    \* events the client library refuses (ErrMaxPayload, ErrBadSubject)
  Rejected      \* events the broker answers with any other error, every time

ASSUME PublisherAssumption ==
  /\ Capacity \in Nat \ {0}
  /\ BackoffMin \in Nat \ {0}
  /\ BackoffMax \in Nat /\ BackoffMin <= BackoffMax
  /\ MaxEvents \in Nat
  /\ StreamOf \in [1..MaxEvents -> Bindings]

VARIABLES
  queue,          \* p.queue, oldest first
  closed,         \* p.closed
  wake,           \* whether p.wake holds its one token
  stopped,        \* whether p.stop has cancelled the drainer's context
  producer,       \* where each producer is in Enqueue
  drainCall,      \* where the caller of Drain is
  drainer,        \* where the drain goroutine is
  provisioned,    \* drain's local of that name
  backoff,        \* drain's local of that name
  inflight,       \* drain's local of that name
  accepted,       \* how many Enqueue calls appended their event
  published,      \* counters.EventsPublished
  droppedFull,    \* counters.DroppedQueueFull
  unpublishable,  \* counters.DroppedUnpublishable
  droppedAtShutdown, \* counters.DroppedAtShutdown
  broker,         \* how the broker answers right now
  streams,        \* the bindings whose stream exists
  stored,         \* the messages of the streams, in the order of their storing
  recent,         \* the message ids inside the duplicate window
  lapsed          \* events whose id has left the window

shared     == <<queue, closed, wake, stopped>>
callers    == <<producer, drainCall>>
counters   == <<accepted, published, droppedFull, unpublishable, droppedAtShutdown>>
jetstream  == <<streams, stored, recent, lapsed>>
loop       == <<drainer, provisioned, backoff, inflight>>
vars       == <<shared, callers, counters, loop, broker, jetstream>>

None == 0
Events == 1..MaxEvents

\* Minimum of two numbers: the built-in min of publish.go:344.
Lesser(a, b) == IF a < b THEN a ELSE b

Init ==
  /\ queue = << >> /\ closed = FALSE /\ wake = FALSE /\ stopped = FALSE
  /\ producer = [p \in Producers |-> "idle"]
  /\ drainCall = "idle"
  /\ drainer = "top" /\ provisioned = FALSE /\ backoff = BackoffMin /\ inflight = None
  /\ accepted = 0
  /\ published = 0 /\ droppedFull = 0 /\ unpublishable = 0 /\ droppedAtShutdown = 0
  /\ broker \in {"healthy", "faltering", "gone"}
  /\ streams = {} /\ stored = << >> /\ recent = {} /\ lapsed = {}

-----------------------------------------------------------------------------
(* Enqueue.  The locked section is one step; the non-blocking send on wake *)
(* follows it, outside the lock.  A refused call (subject that does not    *)
(* render, publisher draining) returns an error and changes nothing.       *)

Full == Len(queue) >= Capacity

\* The queue with room for one more: the oldest event makes way.
Room == IF Full THEN Tail(queue) ELSE queue

\* The non-blocking send on wake.
Poke == wake' = TRUE

Enqueue(p) ==
  /\ producer[p] = "idle"
  /\ ~closed
  /\ accepted < MaxEvents
  /\ accepted' = accepted + 1
  /\ queue' = Append(Room, accepted + 1)
  /\ droppedFull' = IF Full THEN droppedFull + 1 ELSE droppedFull
  /\ producer' = [producer EXCEPT ![p] = "signal"]
  /\ UNCHANGED <<closed, wake, stopped, drainCall, loop, published, unpublishable,
                 droppedAtShutdown, broker, jetstream>>

Signal(p) ==
  /\ producer[p] = "signal"
  /\ producer' = [producer EXCEPT ![p] = "idle"]
  /\ Poke
  /\ UNCHANGED <<queue, closed, stopped, drainCall, loop, counters, broker, jetstream>>

-----------------------------------------------------------------------------
(* Drain, called once by the application's shutdown.                       *)

DrainClose ==
  /\ drainCall = "idle"
  /\ closed' = TRUE
  /\ drainCall' = "poke"
  /\ UNCHANGED <<queue, wake, stopped, producer, loop, counters, broker, jetstream>>

DrainPoke ==
  /\ drainCall = "poke"
  /\ Poke
  /\ drainCall' = "wait"
  /\ UNCHANGED <<queue, closed, stopped, producer, loop, counters, broker, jetstream>>

\* The drain window ends before the drainer does: hard stop.
DrainExpire ==
  /\ drainCall = "wait"
  /\ stopped' = TRUE
  /\ drainCall' = "stopping"
  /\ UNCHANGED <<queue, closed, wake, producer, loop, counters, broker, jetstream>>

\* Fault: after stopping the drainer, do not wait for it.
DoneNotAwaited == drainer = "done" \/ stopped

\* The drainer's done channel is closed.
Done == drainer = "done"

\* The drainer is done: count and discard what is left, close the connection.
DrainCollect ==
  /\ drainCall \in {"wait", "stopping"}
  /\ Done
  /\ stopped' = TRUE
  /\ droppedAtShutdown' = droppedAtShutdown + Len(queue)
  /\ queue' = << >>
  /\ drainCall' = "returned"
  /\ UNCHANGED <<closed, wake, producer, loop, accepted, published, droppedFull,
                 unpublishable, broker, jetstream>>

-----------------------------------------------------------------------------
(* The drain goroutine.                                                    *)

\* Fault: no deferred count.
DeferredForgotten == 0

Deferred == IF inflight # None THEN 1 ELSE 0

\* Every return of the goroutine runs its deferred count, then closes done.
Exit ==
  /\ drainer' = "done"
  /\ droppedAtShutdown' = droppedAtShutdown + Deferred
  /\ inflight' = None
  /\ UNCHANGED <<shared, callers, provisioned, backoff, accepted, published, droppedFull,
                 unpublishable, broker, jetstream>>

\* drainedEmpty, and no event in flight.
NothingToDo == inflight = None /\ closed /\ queue = << >>

ExitDrained ==
  /\ drainer = "top"
  /\ NothingToDo
  /\ Exit

BeginProvision ==
  /\ drainer = "top"
  /\ ~NothingToDo
  /\ drainer' = "provision"
  /\ UNCHANGED <<shared, callers, provisioned, backoff, inflight, counters, broker, jetstream>>

\* Where the loop goes when the streams are there.
AfterProvision == IF inflight = None THEN "next" ELSE "publish"

ProvisionOk ==
  /\ drainer = "provision"
  /\ broker # "gone"
  /\ streams' = Bindings
  /\ provisioned' = TRUE
  /\ backoff' = BackoffMin
  /\ drainer' = AfterProvision
  /\ UNCHANGED <<shared, callers, inflight, counters, broker, stored, recent, lapsed>>

\* One of the streams could not be ensured; those before it were, and a
\* request whose answer is lost may still have been carried out.
ProvisionFail ==
  /\ drainer = "provision"
  /\ broker # "healthy" \/ stopped
  /\ \E made \in SUBSET (Bindings \ streams) :
       /\ broker = "gone" => made = {}
       /\ streams' = streams \cup made
  /\ drainer' = "sleep"
  /\ UNCHANGED <<shared, callers, provisioned, backoff, inflight, counters, broker, stored,
                 recent, lapsed>>

\* Fault: sleep the backoff out, whatever happens.
InterruptedNever == FALSE

\* The hard stop ends a backoff at once.
Interrupted == stopped

\* fail: wait out the backoff and double it ...
SleepElapse ==
  /\ drainer = "sleep"
  /\ ~Interrupted
  /\ backoff' = Lesser(backoff * 2, BackoffMax)
  /\ drainer' = IF provisioned THEN AfterProvision ELSE "top"
  /\ UNCHANGED <<shared, callers, provisioned, inflight, counters, broker, jetstream>>

\* ... unless the hard stop ends the wait.
SleepStopped ==
  /\ drainer = "sleep"
  /\ Interrupted
  /\ Exit

\* next: the head of the queue, under the lock.
Take ==
  /\ drainer = "next"
  /\ queue # << >>
  /\ inflight' = Head(queue)
  /\ queue' = Tail(queue)
  /\ drainer' = "publish"
  /\ UNCHANGED <<closed, wake, stopped, callers, provisioned, backoff, counters, broker,
                 jetstream>>

NextDrained ==
  /\ drainer = "next"
  /\ queue = << >>
  /\ closed
  /\ Exit

NextWait ==
  /\ drainer = "next"
  /\ queue = << >>
  /\ ~closed
  /\ drainer' = "wait"
  /\ UNCHANGED <<shared, callers, provisioned, backoff, inflight, counters, broker, jetstream>>

Woken ==
  /\ drainer = "wait"
  /\ wake
  /\ wake' = FALSE
  /\ drainer' = "next"
  /\ UNCHANGED <<queue, closed, stopped, callers, provisioned, backoff, inflight, counters,
                 broker, jetstream>>

WaitStopped ==
  /\ drainer = "wait"
  /\ stopped
  /\ Exit

(* One PublishMsg, from the request to the answer or the timeout.          *)

\* The broker can store the event in flight.
Storable ==
  /\ broker # "gone"
  /\ inflight \notin Rejected
  /\ StreamOf[inflight] \in streams

\* Fault: a fresh id for every attempt.
DuplicateUnknown(e) == FALSE

\* A retry carries the same Nats-Msg-Id: the stream knows it for a while.
Duplicate(e) == e \in recent

Store(e) ==
  /\ stored' = IF Duplicate(e) THEN stored ELSE Append(stored, e)
  /\ recent' = recent \cup {e}

PublishOk ==
  /\ drainer = "publish"
  /\ inflight \notin Oversized
  /\ Storable
  /\ Store(inflight)
  /\ published' = published + 1
  /\ inflight' = None
  /\ backoff' = BackoffMin
  /\ drainer' = "next"
  /\ UNCHANGED <<shared, callers, provisioned, accepted, droppedFull, unpublishable,
                 droppedAtShutdown, broker, streams, lapsed>>

PublishPermanent ==
  /\ drainer = "publish"
  /\ inflight \in Oversized
  /\ unpublishable' = unpublishable + 1
  /\ inflight' = None
  /\ drainer' = "next"
  /\ UNCHANGED <<shared, callers, provisioned, backoff, accepted, published, droppedFull,
                 droppedAtShutdown, broker, jetstream>>

\* Fault: a failed event queues again.
RetryBehindQueue == inflight' = None /\ queue' = Append(queue, inflight)

\* The failed event stays in flight, ahead of everything queued.
Retry == inflight' = inflight /\ queue' = queue

\* Fault: take the streams for granted.
ReprovisionForgotten == provisioned' = provisioned

\* The stream may be gone: ensure it before the next attempt.
Reprovision == provisioned' = FALSE

\* The error is not one of the two permanent ones: keep the event, provision
\* again, back off.  The event may be in the stream all the same, when only
\* the acknowledgement was late or lost.
PublishFail ==
  /\ drainer = "publish"
  /\ inflight \notin Oversized
  /\ \/ /\ broker # "healthy" \/ stopped \/ ~Storable
        /\ UNCHANGED <<stored, recent>>
     \/ /\ broker = "faltering" \/ stopped
        /\ Storable
        /\ Store(inflight)
  /\ Retry
  /\ Reprovision
  /\ drainer' = "sleep"
  /\ UNCHANGED <<closed, wake, stopped, callers, backoff, counters, broker, streams, lapsed>>

-----------------------------------------------------------------------------
(* The broker and time.                                                    *)

BrokerChange ==
  /\ broker' \in {"healthy", "faltering", "gone"} \ {broker}
  /\ UNCHANGED <<shared, callers, loop, counters, jetstream>>

\* The broker restarts with a wiped store.
BrokerWipe ==
  /\ broker = "gone"
  /\ streams # {}
  /\ streams' = {} /\ stored' = << >> /\ recent' = {}
  /\ UNCHANGED <<shared, callers, loop, counters, broker, lapsed>>

\* Two minutes pass since e was stored; at most once for each event (bound).
WindowLapse(e) ==
  /\ e \in recent \ lapsed
  /\ recent' = recent \ {e}
  /\ lapsed' = lapsed \cup {e}
  /\ UNCHANGED <<shared, callers, loop, counters, broker, streams, stored>>

-----------------------------------------------------------------------------
Drainer ==
  \/ ExitDrained \/ BeginProvision \/ ProvisionOk \/ ProvisionFail
  \/ SleepElapse \/ SleepStopped
  \/ Take \/ NextDrained \/ NextWait \/ Woken \/ WaitStopped
  \/ PublishOk \/ PublishPermanent \/ PublishFail

DrainCaller == DrainClose \/ DrainPoke \/ DrainExpire \/ DrainCollect

Broker == BrokerChange \/ BrokerWipe \/ \E e \in Events : WindowLapse(e)

Next ==
  \/ \E p \in Producers : Enqueue(p) \/ Signal(p)
  \/ DrainCaller
  \/ Drainer
  \/ Broker

Spec == Init /\ [][Next]_vars

(* The Go scheduler runs every goroutine that can run, and every wait in   *)
(* them ends: a publish or a provision within publishTimeout, a backoff    *)
(* when its timer fires, the shutdown drain when its window closes.  No    *)
(* fairness is assumed of the producers' calls, of the decision to shut    *)
(* down, or of the broker.                                                 *)
Fairness ==
  /\ WF_vars(Drainer)
  /\ \A p \in Producers : WF_vars(Signal(p))
  /\ WF_vars(DrainPoke)
  /\ WF_vars(DrainExpire \/ DrainCollect)

FairSpec == Spec /\ Fairness

-----------------------------------------------------------------------------
(* Types and bounds.  The queue never exceeds its capacity (publish.go:243) *)
(* and the backoff stays inside its two limits (publish.go:344).            *)
TypeOK ==
  /\ queue \in Seq(Events) /\ Len(queue) <= Capacity
  /\ closed \in BOOLEAN /\ wake \in BOOLEAN /\ stopped \in BOOLEAN
  /\ producer \in [Producers -> {"idle", "signal"}]
  /\ drainCall \in {"idle", "poke", "wait", "stopping", "returned"}
  /\ drainer \in {"top", "provision", "sleep", "next", "wait", "publish", "done"}
  /\ provisioned \in BOOLEAN
  /\ backoff \in BackoffMin..BackoffMax
  /\ inflight \in Events \cup {None}
  /\ accepted \in 0..MaxEvents
  /\ published \in Nat /\ droppedFull \in Nat
  /\ unpublishable \in Nat /\ droppedAtShutdown \in Nat
  /\ broker \in {"healthy", "faltering", "gone"}
  /\ streams \subseteq Bindings
  /\ stored \in Seq(Events)
  /\ recent \subseteq Events /\ lapsed \subseteq Events

\* 1 while an event is in flight.
InFlight == IF inflight = None THEN 0 ELSE 1

\* Every accepted event is published, counted as one of the three losses,
\* in flight or queued: no interleaving of Enqueue, the drainer and Drain
\* loses one uncounted or counts one twice (publish.go:5-8).
Accounted ==
  accepted = published + droppedFull + unpublishable + droppedAtShutdown
             + Len(queue) + InFlight

\* Events reach the broker in the order of their Enqueue (ADR 0020: one
\* FIFO, one drainer): what is stored is older than the event in flight (or
\* is that event, after a lost acknowledgement), which is older than the
\* queue, whatever was evicted, retried or provisioned again in between.
InOrder ==
  /\ \A i, j \in 1..Len(stored) : i <= j => stored[i] <= stored[j]
  /\ \A i, j \in 1..Len(queue) : i < j => queue[i] < queue[j]
  /\ \A i \in 1..Len(stored) : inflight # None => stored[i] <= inflight
  /\ \A j \in 1..Len(queue) : inflight < queue[j]
  /\ \A i \in 1..Len(stored), j \in 1..Len(queue) : stored[i] < queue[j]

\* The drainer never sleeps on wake for ever with work in the queue or a
\* shutdown to notice: the token is there, or somebody is about to put it
\* there (publish.go:251-254 sends after the unlock, :430 receives after it).
NoLostWakeup ==
  drainer = "wait" /\ (queue # << >> \/ closed) =>
    \/ wake
    \/ \E p \in Producers : producer[p] = "signal"
    \/ drainCall = "poke"

\* An event is twice in its stream only if its first copy had left the
\* duplicate window when it was sent again: the retries are safe
\* (publish.go:206-208) as long as an outage is shorter than that window.
DuplicateOnlyAfterWindow ==
  \A i, j \in 1..Len(stored) :
    i # j /\ stored[i] = stored[j] => stored[i] \in lapsed

\* The drainer leaves of its own accord only when it has nothing left to do:
\* until the drain window closes, no event is given up (publish.go:280-281).
NothingGivenUpEarly ==
  drainer = "done" /\ ~stopped =>
    closed /\ queue = << >> /\ droppedAtShutdown = 0

\* When Drain returns everything is settled, and nothing is published or
\* counted any more: its caller may read the final counts.
SettledAtReturn ==
  drainCall = "returned" =>
    /\ drainer = "done" /\ queue = << >> /\ inflight = None
    /\ accepted = published + droppedFull + unpublishable + droppedAtShutdown

\* Drain returns, whatever the broker does (publish.go:282-308).
DrainReturns == drainCall = "poke" ~> drainCall = "returned"

\* If the broker is one day back for good, everything accepted before or
\* during its absence is settled, wiped store or not (publish.go:3-6).
BackForGood == <>[](broker = "healthy")
OutageEnds == BackForGood => []<>(queue = << >> /\ inflight = None)

\* The publisher implements the counted queue: oldest first, the event in
\* flight never evicted, every loss counted, settled after closing.
Promise == INSTANCE CountedQueue WITH
  open <- ~closed, waiting <- queue, held <- inflight,
  lost <- droppedFull + unpublishable + droppedAtShutdown
KeepsPromise == Promise!Spec

\* ADR 0020, clause 3: "a permanent failure (a stream that cannot exist, a
\* rejected message) is dropped at once rather than retried".
RejectedMessageIsDropped ==
  [][drainer = "publish" /\ drainer' # "publish" /\ broker = "healthy"
       /\ inflight \in Rejected /\ StreamOf[inflight] \in streams
     => inflight' = None]_vars
=============================================================================
