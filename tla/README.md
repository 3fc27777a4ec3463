# A verification development of the vikasa collector

The collector (`src/`, Go) runs in a roadside cabinet. It polls a handful of
devices, turns the differences between polls into events, and publishes them to
a JetStream broker on the same box. Most of it is straight-line code. What is
not straight-line is what this project is about: the bounded queue between the
pollers and a broker that may be away, the change-detection state that must
survive restarts, the poll loop around adapters that may hang or panic, what
long sequences of partial answers make of the differs, and whether an event that
was made reaches the queue once, whole, and in the right stream.

Every definition here is translated from the source at the lines that
`PROJECT.json` ("map") names; where a doc and the code disagree, the modules say
what the code does and a separate run shows the disagreement.

## 1. Inventory

### The pipeline

    device --transport--> adapter --snapshot--> runner --> synth engine --events-->
        emitters --CloudEvent--> publisher queue --> JetStream
                                     |
               synth engine --change hook--> durable --> key-value bucket

The collector is one process. Its goroutines:

| goroutine | code | shares |
|---|---|---|
| one poll loop per device | `internal/runner` `Run` | the engine (mutex), the counters, the publisher's queue |
| one per `Read` | `internal/runner` `read` | a channel of capacity one with its loop |
| the drainer | `internal/publish` `drain` | the queue (mutex), `wake` (capacity one), `done`, its context |
| the state writer | `internal/durable` `run` | `pending`/`written`/`closed` (mutex), `wake`, `done`, the engine |
| heartbeat, log shipper | `internal/app` | the publisher's queue |
| the management surface | `internal/manage` | reads counters, device table, queue depth |
| main | `internal/app` `Run` | starts them, then on shutdown waits, flushes and drains |

### Components

**publish** (`internal/publish/publish.go`). *State*: queue, `closed`, the
`wake` token, the drainer's locals (`inflight`, `provisioned`, `backoff`), four
counters. *Operations*: `Enqueue` (never blocks; a full queue evicts its oldest
event), the drainer (provision, take, publish, retry for ever with backoff, drop
what can never be published), `Drain` (close, wait for the drainer or the end of
the window, count what is left). *Hard*: the wake-up is sent outside the lock; a
publish may succeed without its answer arriving; the broker may come back with a
wiped store; shutdown races everything. *Correct when*: each accepted event is
published or counted as exactly one loss; events reach the broker in order, and
twice only when the duplicate window is over; a sleeping drainer is always woken;
nothing is given up before the drain window closes; `Drain` always returns, and
after it nothing changes any more; an outage that ends leaves nothing behind.

**durable + synth engine** (`internal/durable/durable.go`,
`internal/synth/synth.go`). *State*: the engine's `prev` and `seeded`; the
writer's `pending`, `written`, `closed`, `wake`; the batch being put; the bucket,
which outlives the process. *Operations*: hold, load, seed (releases one device
at a time); `Apply` (diff, remember, call the hook); `record` (note the latest
encoding unless it is already there); take, put, roll back and requeue; `Flush`.
*Hard*: `record` runs between any two steps of the writer; a `Put` may be stored
without an answer; a crash may fall anywhere; two critical sections read what one
decision needs. *Correct when*: what the engine remembers is in the bucket or on
its way; across restarts and crashes the events say what the engine goes by,
unless the last value was lost with a process or a store; writes track changes,
not polls; a flush that warns of nothing has saved everything.

**runner + device table** (`internal/runner/runner.go`,
`internal/stats/devices.go`). *State*: the Read in flight, the Read abandoned
earlier, consecutive failures; the table's copy and the readiness latch.
*Operations*: jittered start, tick, one bounded Read, abandon, report. *Hard*: a
Read that hangs, returns after its poll gave up, panics, or is cut by shutdown.
*Correct when*: an adapter is never read concurrently; the engine sees only the
newest Read; down and up alternate and follow the device, not the collector; the
loop returns on shutdown and tells a hung device as down.

**synth differs** (`internal/synth/{fault,signal,dms,...}.go`). Nine pure
functions of the previous and the current facet, one (detectors) with memory of
its own. *Hard*: long sequences of polls of which some fail, answer in part, or
follow a boot that remembered nothing. *Correct when*: a consumer that replays the
events holds what the polls saw; a first observation is an event only for sets of
standing conditions and finished intervals; no event repeats or contradicts an
earlier one; no vehicle is counted twice.

**NTCIP adapters + SNMP client** (`internal/vendors/ntcip`,
`sdk/transport/snmp`). A poll asks for objects, keeps those that were answered with
a value of the wanted type, and fills facets. *Hard*: an agent may leave out any
object at any poll, and a Go map gives zero for it. *Correct when*: no event rests
on what the device did not say.

**subject** (`internal/subject/subject.go`). Parses a template, renders a subject
per event type and device, derives one stream binding per namespace. *Correct
when*: every subject the boot check admits is captured by the binding of its
namespace, and by no other's.

**wire emitters** (`internal/wire/openits`, `internal/wire/health`). A routing
table from (event, device kind) to event type, an encoder per event, one sequence
counter per device. *Hard*: runners share the counters; some events have no honest
encoding and are declined, others fail to marshal after their number was drawn; some
leaves have no value for what is not known. *Correct when*: sequence numbers increase
along a device's messages and a gap means a loss; changes of mode chain; whoever follows
the messages has what the engine has.

**cloudevents** (`internal/cloudevents`). The source URN and the deterministic
event id. *Correct when*: the id tells apart all the broker must not drop.

**app** (`internal/app/app.go`). Boot order and its failures, the sink, shutdown
order: runners, heartbeat and shipper end; `stopping` is queued; state is flushed
before the drain closes the connection both use; adapters are closed last.
*Correct when*: `started` is first and `stopping` last, an adapter is closed
exactly once and after its runner, the process ends.

**heartbeat** (`internal/app/heartbeat.go`). A timer on the monotonic clock for
the next slot of the wall clock, which may be set. *Correct when*: the next beat is
due within an interval, later than the last, and on a slot.

**logship** (`internal/logship/logship.go`). Rate limit per window, channel of
bounded size, suppressed count. *Hard*: admitting and sending are apart; the shipper
leaves on shutdown, while loggers do not. *Correct when*: each record is published or
counted, but for those that a stopping collector leaves in the channel, and suppressed
only for a cause.

**manage, config, adapter registry, SDK models, publish security, commands**:
read-only surface, validation of configuration, tables, boot checks, command line.
No concurrency of their own.

## 2. Modules

| module | what it is |
|---|---|
| `Publisher` | the publisher with its producers, the caller of `Drain`, and the broker |
| `CountedQueue` | what the publisher promises: an abstract queue that counts its losses |
| `SynthState` | the engine, the durable layer and the bucket, over process lifetimes |
| `Runner` | one device's poll loop, its Reads, and what it tells the others |
| `StandingConditions` | the fault and incident differs, with a consumer that replays their events |
| `Transitions` | the signal, sign and camera differs, with a consumer that follows each axis |
| `Ntcip` | the adapters in front of `Transitions`: from what an agent answers |
| `Detectors` | the detector differ over counters that wrap, are reset, and count on while they are read |
| `Intervals` | the differs of sensors that bin by themselves |
| `Engine` | the four families of differs under one engine |
| `Subjects` | templates, rendering, bindings, the boot check (operators) |
| `Wire` | what the emitters make of an event: type, leaves, identity (operators) |
| `Emission` | configuration, boot check, runners that encode and queue, restarts |
| `Heartbeat` | the beats' slots, the two clocks, the timer |
| `LogShip` | the limiter and the channel, on the heartbeat's clock |
| `Instance` | one run of the collector: boot, its goroutines, shutdown |
| `MCPublisher`, `MCSynthState`, `MCEmission`, `MCInstance` | the instances TLC checks; the other modules take their constants from the `.cfg` |
| `PublisherProofs`, `SynthStateProofs`, `RunnerProofs`, `TransitionsProofs`, `DiffersProofs`, `SubjectsProofs`, `EmissionProofs`, `InstanceProofs` | theorems for all values of the constants |

How they are composed: `Ntcip` extends `Transitions`; `Engine` extends it,
`StandingConditions`, `Detectors` and `Intervals`, and chooses one family in its
initial state, since differs share nothing. `Emission` extends `Subjects` and
`Wire`. `Instance` extends `LogShip`, which extends `Heartbeat`. `Emission` and
`Instance` see the publisher, the state writer and the runners by what the other
modules show of them: an event is queued, `Flush` and `Drain` return, a runner ends
once its context does.

### Publisher

An event is the number of its `Enqueue`, which makes order arithmetic. One action
is one critical section, one channel operation or one broker call; so `Enqueue`
(the locked section) and `Signal` (the send on `wake`) are apart, as in
`publish.go:238-254`, and the drainer's place is the variable `drainer`:

    top -> provision -> next -> publish -> next ...
               \-> sleep <-/        \-> sleep -> top     every return -> done

`shared`, `callers`, `loop`, `counters` and `jetstream` group the variables by who
owns them. The broker answers in time (`healthy`), may answer too late
(`faltering`: a publish is stored or not, and the drainer sees a timeout either
way) or not at all (`gone`); only a broker that is gone may come back wiped. The
duplicate window is the set `recent`, which time (`WindowLapse`) empties. What
the broker makes of an event is fixed by constants: `Oversized` events are the
client library's two permanent errors, `Rejected` ones get any other error, each
time.

Left out: rendering the subject and the headers (`Enqueue` fails without a
state change when the subject does not render), URLs, credentials, log texts,
`Stats`. The drainer's `failing` flag only decides what is logged.

### CountedQueue

`accept`, `hold`, `publish`, `lose`, `close`, `abandon`, with the promise that a
closed queue settles. `Publisher` implements it with `waiting <- queue`,
`held <- inflight`, `lost <-` the sum of the three loss counters, `open <- ~closed`.
A drained publisher that still holds an event loses it when its goroutine exits
(`publish.go:322-326`), which is `Lose`; what is still queued when `Drain`
collects is `Abandon`.

### SynthState

A key is a (device, facet kind) pair and a value is a facet as far as its differ
can tell facets apart. `FromEmpty` are the kinds whose differ treats the absence
of a previous facet as the empty set (faults); `Volatile` kinds never reach the
bucket. `Junk` is a stored entry this build cannot decode. `written`, `pending`
and `batch` are the code's maps; an absent key has `NoValue`.

The place of the writer goroutine is `writer`:

    load <-> hold      load -> seed -> take <-> write -> sleep -> take
                                        \-> check -> wait -> take      -> done

`take` and `check` are two critical sections because they are two in the code
(`durable.go:199` and `:201-203`). `Apply` is one facet: the engine's lock keeps
several facets of one snapshot together, but the writer does not take that lock,
so it may run between them. While a goroutine is in the hook's `poke` it still
holds the engine's lock, hence the guard that all pollers are idle. The process
may `Exit` after `Flush`, `Crash` anywhere and `Boot` again; memory is then that
of a fresh process and the bucket is what it was.

`said`, `repeated` and `forgotten` are history variables: what the events so far
have said of each key, the keys of which something was said that had been said
already, and the keys whose last value was unwritten when a process ended (or
lost with a wiped store), of which ADR 0017 promises nothing.

Left out: which differ makes which event (the four modules of differs), JSON, base64 keys,
entries of devices no longer configured, the rejection of wrong-typed facets
(no state change), failed facets (no state change).

### Runner

A Read has the number of its poll. `reading` is the set of Reads that run,
`answer[n]` what Read `n` left in its channel, `awaited` the Read `read()` waits
for, and `pending` the code's `r.pending`. A Read ends with a snapshot, an error,
an adapter fault (panic, or nil without error) or, after shutdown began, an error
because of it. `newest` is history. `pollOnce` is `PollBusy` or
`PollStart`, then `Receive` or `Abandon`, then one of four reports. The
application appears as `Cancel`, `CloseStart`, `CloseReturn`.

Left out: times and error texts, the contents of snapshots.

### The differs: StandingConditions, Transitions, Detectors, Intervals

All four are one facet of one device under `Engine.Apply`: `prev` (`prevSet`,
`prevSample`, `prevInterval`) is what the engine remembers, an apply action a
snapshot with a facet, `failed` (and `typed`) whether the snapshot makes it evidence
(`synth.go:168-176`) - a facet that is none may hold anything - and the seed actions
are boots that find the last facet or nothing. A boot that finds an *older* facet is
`forgotten` in `SynthState`: the differs' modules leave it to that one.

In `StandingConditions` a facet maps ids to what is said of them, as `index` and
`byIncidentID` make of a list; a poll's events are the functions `began` and
`updated` and the set `cleared`, and the consumer's map is their replay. In
`Transitions` a facet maps axes to values; a poll's events are its `report` (signal
status only), its `moves` and, of a sign, its `failure`; `missed` are the axes that
may have moved where the code, on purpose, says nothing: behind a boot that forgot,
or while a tour was not in the camera's table. In `Intervals` a facet is its start and
whether it has rows.

`Detectors` has a facet that is not "any": it is what the controller's counters, which
wrap and are reset, held when they were read. A Read is three steps or more, as it is
in the adapter: `StartRead` stamps the snapshot (`asc.go:93`), `ReadChannel` reads the
counter of one channel (the table is read in batches, `asc.go:170`), and the differ gets
the facet in `ApplySample`, or the Read comes to nothing in `SampleFailed`. Vehicles and
resets come between any two of them. `last` is the differ's sample time beside the
engine's sample; history is what had passed of each channel at the stamp and at the end
of each Read that a report may refer to (`begun`, `then`), and which channels were reset
or wrapped since they were read (`upset`, and `later` for those read already in the Read
under way). A vehicle that passes between the stamp and the read of its counter is
reported in an interval that ended before it: `CountedInInterval` says that this is all
that an interval's counts are off by.

The order of the events within a poll, fixed by sorting, is left out: they concern
different ids or axes. So are values that are copied (occupancies, speeds).

### Ntcip

An answer gives each object a value or `Unanswered`, which is also what the client
makes of a value of the wrong type (`client.go`). `IntOf` is a Go map's `vals[oid]`:
zero for what is not there. `SignalFacet` and `DMSFacet` are `readSignalStatus` and
`readStatus` with their decodings; when they are not `Readable` the facet fails and
nothing is diffed. `answered` is history: the axes of the remembered facet that rest
on answers. A camera has no adapter in the repository: its facets are any.

Left out: fault bits, humidity and environment readings. A fault set is any in
`StandingConditions`; how the detector table is read is in `Detectors`.

### Subjects, Wire, Emission

A text is the sequence of its dot-separated parts, so that joining subjects is
concatenation and a device id with a dot is a text of two parts. Characters within a
part are left out, but for what makes one illegal. `New`, `Render`, `BindingFor`,
`ValidateBindable` and `ValidateCETypes` are the functions of those names.

`Wire` has, for each (event, device kind), the type that `CETypeFor` gives, the
leaves of the payload that have a closed set of values (identities, enumerations,
ids, texts), and `Declined`: events the emitter refuses because a mandatory leaf has
no value for them. `BadText` is a text protobuf cannot hold. The digest of the event
id is taken to be injective: `EventID` is the tuple of what is hashed.

`Emission` reads a configuration, refuses it or runs it, with one goroutine for each
device that polls, encodes and queues (three steps, as other runners run between
them), the collector's own reports, and restarts. What a reading can hold is given
by `Readings`; `EventsOfPoll` is what the differs make of two readings, in one fixed
order. A runner without an event in hand is `Idle`. The counters `seq` are in memory
and start again; a device that the code's map does not have yet counts from zero.
`Encode` draws the number before the payload is marshalled, so a failed encoding
leaves a gap (`spoilt`), which the counter of encode errors tells. `untold` is history:
the things of a device whose latest event was declined, had no source, failed to encode
or could not be rendered. `ConsumerKnows` says that nothing else makes what the messages
say differ from what the engine remembers; `About` and `Agrees` are what a consumer
makes of the messages. `Restart` is a stop that wrote all the engine remembers: one
whose `Flush` failed (`app.go:256-258`), like a crash, is in `SynthState`, whose
`EventsAgree` excepts what was `forgotten`.

### Heartbeat, LogShip, Instance

`now` is the monotonic clock and `offset` what the wall clock adds to it; `SetClock`
changes only the latter. `Rem` is Go's remainder, with the sign of the dividend.
The phase is a hash of the collector's id: any number below the interval.

`LogRecord` is `admit` under the mutex, `PutRecord` the send on the channel outside
it, so records of other goroutines may come between. Time there is monotonic
(`Sub`), so the wall clock does not enter.

`Instance` is `Run`. `BuildReader`, `BuildFails`, `Unreadable`, `Rejected` are
`buildReaders`, whose error paths close what was built; `StartFails` stands for every
other error of boot, before or after the adapters are built. Goroutines are started
one by one and run at once. `TellStopping`, `Flush`, `Drain` and `Return` are the
order of shutdown; `Return` is either end of the wait in `closeAll`. `readers` is the
list that `closeAll` is given, all of which it closes whatever became of them, so a second
call would show in `closes`. Anything that runs may log, at any time until the process
ends: what is in the channel when the shipper returns, or comes into it later, stays
there.

## 3. Runs

| run | instance | states | shows |
|---|---|---|---|
| `Publisher` | 2 producers, capacity 2, 4 events, 2 streams, one oversized event | 526,356 | events are accounted for, in order, duplicated only after the window; `Drain` returns and settles; outages end; the counted queue is implemented |
| `PublisherRejected` | one rejected event | | violation: see findings |
| `SynthState` | 2 devices, 3 keys (faults, message, volatile counts), 2 values, 2 changes, 2 boots, 1 wipe | 763,617 | what is remembered is written or on its way; events agree across boots; `Flush` returns; everything is written at last |
| `SynthStateWiped`, `SynthStateFlush` | one boot | | violations: see findings |
| `RunnerChecks` | 4 polls | 222,037 | the properties of the loop |
| `Engine` | 3 controller and 4 sign object domains, any of them unanswered; 2 ids, texts, identities, assessments; 2 tours; 2 channels, counters modulo 3, 3 polls, 3 vehicles each; 3 intervals | 6,098,263 | all that is said of the differs, over what devices answer |
| `StandingRelabelled`, `EngineUnanswered` | the same constants | | violations: see findings |
| `Emission` | 16 configurations, 9 of them accepted, up to 2 devices, 3 polls (4 for one device), 2 lifetimes | 546,610 | every event is counted, captured by one stream, numbered without gaps, and has an id of its own; changes of mode chain; the messages say what the engine remembers |
| `EmissionTours` | the same | | violation: see findings |
| `Instance` | 2 devices, interval and window 2, limit 1, channel 1, 3 ticks, 3 records, 2 offsets of the wall clock | 769,216 | `started` first, `stopping` last; adapters closed once; beats on time; log records published or counted, or left in the channel of a collector that stops; the process ends |

**Why these bounds are enough.** `Publisher`: with capacity 2 and 4 events, a
queue can be full while an event is in flight, evict twice, and evict while a
retry sleeps; two producers can both stand between append and signal; two streams
can be provisioned one without the other; a backoff of 1 to 3 doubles, and is cut
at its maximum. `WindowLapse` happens at most once for each event, which bounds
duplicates. `SynthState`: a value can be replaced while it is queued and again
while it is being put, and return to its first value (2 changes, 2 values, one of them stored); one
process can leave state behind for another (2 boots) and a store can be lost under
either (1 wipe). Applying an unchanged value costs no change. `Runner`: 4 polls
let a Read be abandoned, be found busy, return late, and be followed by a fresh
one and its report; the failure count reaches 4. The differs look at one id, axis
or channel at a time and at two facets, so two of each, with two values, show every
case and whether one disturbs another; the standing conditions, the transitions and
their adapters have no bound on the number of polls. In `Detectors` a counter can
wrap, be reset, and pass the value it had before the reset, before and after it is read
in a Read under way; 3 polls hold two reports in a row, or one with a failed or partial
poll, or a boot, in between. `Emission`: the configurations are one for
each way in which boot refuses one, the default template, templates without a
namespace or a device id and a literal one, and the device kinds in pairs, two of one
kind included; the readings of a kind make every one of its events, among them those
that are declined, cannot be marshalled or have no source; 3 polls of two devices let
a mode be told, declined and told again, or one device be polled between the encoding
and the queueing of another's events, before or after a restart. `Instance`: an
interval of 2 has every phase and a time between slots, an offset of -1 makes the
wall clock step in both directions and start before the phase; 3 ticks see a window
begin, end, and end again; a limit and a channel of 1 are full with one record while
another is admitted in the next window.

Deadlock is checked in `Publisher`, `SynthState` and `Engine`, where the environment
always has a step. `Runner` and `Instance` really end, and `Emission` does when its
bounds are used up (`CHECK_DEADLOCK FALSE`).

**Fairness, and why the code justifies it.** Weak fairness of a goroutine's
actions stands for the Go scheduler, and for the fact that each of its waits ends:
publishes and provisioning end at `publishTimeout` (`publish.go:360`, `:379`),
bucket operations at `opTimeout` (`durable.go:227`, `:303`), backoffs when their
timer fires, and the two shutdown windows at `drainTimeout` and
`stateFlushTimeout` (`app.go:255-261`). In `Instance` boot goes on, runners,
heartbeat and shipper see that the context is done (each selects on it), and shutdown
goes on, since its waits end: those are shown in `Runner`, `SynthState` and
`Publisher`, and `closeAll` has a timeout. An adapter's `Close` has no fairness.
`SeedDevice` has strong fairness: it waits
for the engine's mutex, which polls take again and again, and a Go mutex hands
itself over to a waiter that has starved for a millisecond. A Read has no fairness:
an adapter may hang for ever. Neither polls, shutdown, crashes, boots nor the
broker's recovery are fair; a property that needs the broker back says so
(`BackForGood`, `StaysUp`), and one that needs its store kept says that (`StoreKept`).

## 4. Proofs

TLAPS proves, for all values of the constants that satisfy the named assumptions
(`PublisherAssumption`, `SynthStateAssumption`, `RunnerAssumption`, `NoneIsNoFacet`,
`TransitionsAssumption`, `NtcipAssumption`, `DetectorsAssumption`,
`IntervalsAssumption`, `HeartbeatAssumption`, `LogShipAssumption`, `WordsAssumption`,
`EmissionAssumption`):

* `PublisherProofs`: type correctness, the safety properties of `Publisher`'s run,
  that no wake-up is lost (`NoLostWakeup`), that nothing is given up before the
  hard stop (`NothingGivenUpEarly`), and that every step of the publisher is a step
  of `CountedQueue` or none. The inductive invariant `Inv` joins the properties to
  `Control` (where the drainer and `Drain` can be, given the rest: without it an exit
  could leave an event in flight) and `NoneFromTheFuture` (no event is newer than the
  last accepted: without it an append could break the order). That a duplicate needs
  a lapsed window (`RetriesAreSafe`) rests on `KnownOrLapsed`: each stored event is one
  whose id the broker knows or has known. The property is about pairs of places in the
  store and says nothing of an event stored once, which is what the next store meets.
* `SynthStateProofs`: type correctness, the three safety properties of `SynthState`'s
  run, no lost wake-up, and that a flush which warns of nothing has saved everything
  (`SilentFlushSaved`). `Inv` adds, for each key, `Queued` (what is being put counts
  as written), `WrittenIsStored` (`written` is true of a key neither queued nor being
  put), and `Wakeup`, which is `NoLostWakeup` made inductive by including the place
  before the wait. Only together do they show that the shortcut in `record` never
  drops the last value.
* `RunnerProofs`: type correctness and all safety properties of `RunnerChecks`. `Inv`
  says which Read is whose: a Read that runs is the awaited or the kept one and its
  channel is empty, so finding the kept one's channel full means that nothing runs.
* `TransitionsProofs`: type correctness, `Followed`, `Chained`, `FailureToldOnce`, and
  that status reports heal a boot that forgot (`ReportsHeal`). A lemma gives the three
  differs one shape (`DiffShape`); `IInv` says of every axis, those out of sight too,
  what the consumer may have been told, and that a sign which can fail was seen
  without an error.
  Of `Ntcip`: that each of its behaviours is one of `Transitions`
  (`ImplementsTransitions`): each decoded facet has the type the differs' theorems
  assume, so they hold of the devices' answers; and `NothingFabricated`, by the
  invariant that whatever the engine remembers of a sign rests on answers, and of a
  controller its mode does.
* `DiffersProofs`, of `StandingConditions`: type correctness and all three properties.
  `StandingInv` adds `Anchored`: what the engine goes by, if anything, is what the last
  good read saw. Of `Detectors`: type correctness and both properties, for counters of
  any width. `DetectorInv` ties the differ's two memories to one sample (`InStep`) and
  bounds the next delta by the vehicles since then, or since the stamp of the Read that read
  them (`Covered`; `Since` for the Read under way), and from below for a channel that nothing
  upset (`Unbroken`). Of `Intervals`: both properties. `OnceInv` adds that what was
  told of the sensor's interval is remembered unless a boot forgot it
  (`ToldIsRemembered`), and that the memory is of an interval that was, measured or
  empty as it says (`Behind`).
* `SubjectsProofs`, for every template that `New` does not refuse: a subject has at each
  place what the template has there (`RenderedTokenwise`), lies in the binding of its
  namespace (`RenderedIsBound`), and in no other filter (`BoundOnce`); the two namespaces'
  filters are one or their streams have different names (`StreamNamesApart`), which needs
  one of the namespaces to have more words. What the boot check finds is therefore
  exactly whether each device's id can be rendered (`BootCheckIsRenderable`). Rendering
  concatenates, so this rests on what `FlattenSeq` makes of sequences of one part.
* `EmissionProofs`, for any configuration, any number of devices, any readings and any
  number of polls and lifetimes: all six properties of `Emission`'s run. `Core` is
  common to them: types, what boot has decided while anything is under way (`Booted`),
  and what a batch, the message in hand and the queue can hold (`InBatch`, `InHand`,
  `InQueue`). With it `OneStreamEach` follows from the theorems on subjects. The others
  need a part each.
  `GapMeansLoss` speaks of the last message; `Numbers` accounts for every number drawn
  in this lifetime, which is spoilt, sent or in hand, because the drawing is done before
  the event is known to fail and the sending after others have drawn.
  `NothingSwallowed` compares ids: `Keys` keeps what one poll made apart while it is
  spread over batch, hand and queue, and `OwnTimes` what the collector says of itself,
  whose times are not a poll's; that different keys give different identities is shown
  over the tables of `Wire` (`IdsApart`). `EveryEventCounted` is inductive but for the
  sum over the batches (`Batches`). `PriorsChain` relates two messages between which
  others were made, declined or in hand: `Chain` says, for each device and mode, that
  what was told last is what the engine remembers, or is what the one change under way
  starts from, unless that has no identity; a message is then compared with what is
  current, never with the queue. `ConsumerKnows` speaks of devices whose poll has been
  worked off; `Informed` says the same while events are under way: an event with the runner
  tells of what is known now, and of each thing one is with the runner, or the latest was
  lost, or what was said last is what is known.
* `InstanceProofs`, of `Heartbeat`: type correctness and `BeatsOnTime`, for every
  interval, phase and set of offsets. `NextSlot` is the arithmetic, on either side of
  the phase, where the remainder is negative; from it the property is inductive, since
  setting the clock changes neither timer nor the bound on it. `InstanceBeats` shows
  that each behaviour of `InstanceSpec` is one of `HeartbeatSpec`, so that it holds of
  a run. Of `LogShip` in the run: `LogsAccounted`, in which what is published is what the
  queue has, since the publisher takes events until the shipper has ended (`Delivered`), and
  `SuppressedForCause`, both for any limit, window and backlog; `LogWindow` says that the records counted in the window are the
  last admitted and came no earlier than it began. Of `Instance`: `Announced` and
  `ClosedOnce`, for any number of devices, which need what each stage of `Run` implies: nothing runs until
  all adapters are built (`BootFirst`), the publisher takes events and the adapters
  are open from then to the drain (`Up`), and whoever queues has ended when the
  stopping event is queued (`LastWord`); that `closeAll` gets the adapters that are open, and
  before it is called no other, is `Listed`.

`InvInit`, one step lemma per part or group of actions, `InvStep`, then the
temporal step by PTL: the modules have this shape. Each `Inv` was checked by TLC
on the instances above before it was proved. The type invariants and the four
properties named above that no run lists are stated by these theorems only.

What is assumed of constants is what the code has. `EmissionAssumption`: templates,
variables and ids are texts, a facet is one that a differ compares, and the two marks
for "no identity" and "not UTF-8" are neither a kind of entity nor a mode's identity
(they stand for a Go zero value and an error of the protobuf library; identities are
constants of the code). `WordsAssumption`: the two namespaces, constants of the code,
differ in their number of words. TLC evaluates each assumption on the runs' instances.

Recursive functions, such as the one that concatenates, are met by induction in the
form of a statement on sets: a set of numbers that has zero and with each number its
successor has them all (`NatInd`, from the least element of its complement).

Every safety property that a run expects to hold is stated by a theorem. Only
model-checked: liveness (`DrainReturns`, `OutageEnds`, `FlushReturns`, `WrittenAtLast`,
`RunReturns`, `ProcessEnds`: the provers do not do `ENABLED`), and the fairness part of
the refinement `KeepsPromise`, whose initial states and steps are proved. The six runs
that expect a violation are TLC's: what they refute is not a theorem.

## 5. Findings

1. **A rejected message is not dropped at once.** ADR 0020 (lines 63-65) says a
   permanent failure is "dropped at once rather than retried" and names "a stream
   that cannot exist, a rejected message". The code drops two client-side errors
   (`publish.go:456-458`); every other error is retried for ever, ahead of
   everything queued. `PublisherRejected`.
2. **A wiped store ends write-through until the next restart.** `durable.go:6-8`:
   "every change it remembers afterwards is written through". The bucket is created
   by `load` only; the publisher re-provisions its streams for this very case
   (`publish.go:393-398`), the state writer does not. `SynthStateWiped`.
3. **`Flush` may leave a change unwritten though it has time.** `durable.go:97-98`
   promises to write "until it is all written or ctx ends". The writer finds
   nothing pending in one critical section and reads `closed` in another
   (`durable.go:199-206`); a last record and `Flush` in between make it return with
   something pending. (The application calls `Flush` after the runners returned,
   but the writer may stand between the two sections at that moment.) It is logged,
   and the next boot may repeat the transition. `SynthStateFlush`.
4. **An incident that became another one is reported as updated.**
   `sdk/model/events.go:220-222` says an update does not fire for changes of
   identity, because "an incident whose zone or object class changed is a different
   incident, and reporting it as an update would hide that". `assessmentChanged`
   compares the assessment only, so a changed zone is silent by itself but comes out
   as an update when the severity, speed or confidence moves in the same poll
   (`perception.go:51-60`). `StandingRelabelled`.
5. **A controller's silence is a change of plan or preemption.** The adapter says
   "absence of evidence is never a state change" (`asc.go:106-107`) of the operation
   status, whose missing answer fails the facet, but takes the pattern and the
   preempt state from the map whether they were answered or not (`asc.go:113-118`).
   An agent that leaves one out for one poll makes `PlanChanged` to plan 0 and back,
   or `PreemptionCleared` and `PreemptionActivated`. `docs/reference/invariants.md:116`
   makes the sentence an invariant. (A controller that has no such object answers
   neither poll, and nothing changes.) `EngineUnanswered`.
6. **A tour of unknown state was "stopped" before.** `emitter.go:350-353`: an unknown
   prior state encodes as STOPPED, "only reachable if a differ emitted a transition
   from an unknown state, which this one does not". It does: the differ is silent for
   tours that are *new* in the table, not for those listed with an unknown state
   (`cctv.go:42-57`). `EmissionTours`.

Smaller observations that were met on the way and have no run:

* A panicking Read does not become "an ordinary failed-poll error"
  (`docs/explanation/architecture.md:148-149`): the code leaves the device's
  reachability as it was, on purpose (`runner.go:143-151`); the panic of an abandoned
  Read is recovered but not among what "AdapterPanics counts" (`stats.go:35`).
* An interval whose first answer has no lanes is not reported when they come with the
  next (`trafficsensor.go:27-46`), though lines 9-10 promise a report for each new
  interval - which is the exception in `MeasuredIsTold`.
* `docs/explanation/architecture.md:154` says an adapter "is never asked to do two
  things at once"; at shutdown `closeAll` may call `Close` while an abandoned Read
  runs (`app.go:301-320`).
* The `Close` of an adapter that cannot be read is waited for without a limit
  (`app.go:291`): the `"reject"` in `ProcessEnds`.
* A detector report's interval is rounded to whole seconds (`emitter.go:330-333`),
  zero for polls less than half a second apart, where `sdk/model/events.go:115-117`
  asks for one at least.
* A stream's name joins words with dashes, so a region or agency with a dash can make
  two collectors' filters share a name; within one collector none do
  (`OneStreamEach`).
* Log records that are in the channel when the shipper sees that the context is done,
  those that come into it while the collector stops, and those of a boot that fails are
  neither published nor counted as suppressed (`app.go:230-251`). `LogsAccounted` says that
  they are no more than the channel holds, and that nothing else is lost so.
* A detector report counts vehicles that passed after its interval's end, while the
  table was being read (`asc.go:93`, `:170`).
* A negative volume becomes a number near 2^32 and one garbage report
  (`asc.go:188-192`); `Detectors` has counters only.
* Some leaves have no value for what is not known, and say something else for it: the
  severity of an incident that did not report one is MINOR (`identities.go:346-356`, where
  the code says that this is a positive claim), and the readings a sign's status leaves out
  are zero or false (`emitter.go:569-573`). `Wire` has the former; no property says
  that a message claims nothing from silence, since these do.
* An event that is declined, has no source or cannot be marshalled is not told again: what
  the engine remembers has changed by then, so a consumer is wrong about that thing until it
  changes again (the `untold` of `ConsumerKnows`). A text that cannot be marshalled also
  loses the next change, whose prior text it is.
* A device that was told down before a restart is not told up when it answers after it:
  reachability is known since boot only, which is why `About` looks no further back.
* The log limit counts from the record that opened the window, so any interval of a
  window's length may hold up to twice the limit.

## 6. Not modelled, and the plan

Not modelled, because it is input and output without state of its own: the
management surface's HTTP, command-line parsing and developer tooling, the checks of
credential files, log formats, protobuf and JSON encodings beyond the leaves in
`Wire`, sockets and retries of SNMP.

Partly modelled: of the NTCIP adapters the fault bits, humidity and environment readings
are left out, which have no memory, and negative volumes; of the configuration the parsing
and the defaults. What `Wire` leaves out of payloads are measurements.

Not covered: a transition whose new state is stored while its event is lost with the
queue in a crash (`durable.go:308`). ADR 0017 (line 112) accepts the loss of
transitions across a restart; a composition of `SynthState` and `Publisher` would show
what the design concedes. The held engine's dropping of snapshots
(`synth.go:150-152`) is the guard of `Apply`; ADR 0020 line 54 describes keeping the
latest one instead, which needs a history of polls to state.

Worth proving next: that `Runner` hands a device's snapshots to the engine in the order
of its polls, and that `Instance` refines an abstract life of the collector (boot,
serve, stop) of which `Announced` and `ClosedOnce` are two consequences; the invariants
behind the liveness properties, as far as they are safety (`NoLostWakeup` is one).
