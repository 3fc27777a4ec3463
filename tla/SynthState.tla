----------------------------- MODULE SynthState -----------------------------
(***************************************************************************)
(* The change-detection engine (internal/synth/synth.go) and the layer     *)
(* that keeps its previous state across restarts                           *)
(* (internal/durable/durable.go), over process lifetimes: the engine is    *)
(* held until the key-value bucket is loaded and every device is seeded,   *)
(* each change it remembers is written through by one goroutine, shutdown  *)
(* flushes, and the process may crash anywhere.  The bucket and its broker *)
(* are external.                                                           *)
(*                                                                         *)
(* A key is a (device, facet kind) pair, a value what its differ compares. *)
(* An Apply of several facets is one Apply step for each: the engine's     *)
(* lock keeps them together, but the writer may run between them.          *)
(***************************************************************************)
EXTENDS Naturals

CONSTANTS
  Devices,      \* the configured devices, each polled by a goroutine
  Keys,         \* (device, facet kind) pairs
  DeviceOf,     \* the device of a key
  Values,       \* facets, as far as a differ tells them apart
  Quiet,        \* the facet that a kind of FromEmpty starts from: no fault
  FromEmpty,    \* keys whose differ takes no previous state for Quiet (faults)
  Volatile,     \* keys whose differ is volatile (detector counters)
  NoValue,      \* no facet, no entry
  Junk,         \* a stored entry this build cannot decode
  MaxChanges,   \* bound: changes of facets the engine applies
  MaxBoots,     \* bound: lifetimes of the process
  MaxWipes      \* bound: times the broker comes back with a wiped store

ASSUME SynthStateAssumption ==
  /\ DeviceOf \in [Keys -> Devices]
  /\ Quiet \in Values
  /\ NoValue \notin Values /\ Junk \notin Values /\ Junk # NoValue
  /\ FromEmpty \subseteq Keys /\ Volatile \subseteq Keys
  /\ MaxChanges \in Nat /\ MaxBoots \in Nat /\ MaxWipes \in Nat

VARIABLES
  up,         \* whether the process runs
  seeded,     \* e.seeded
  prev,       \* e.prev
  pending,    \* s.pending
  written,    \* s.written
  closed,     \* s.closed
  wake,       \* whether s.wake holds its one token
  stopped,    \* whether s.stop has cancelled the writer's context
  writer,     \* where the goroutine run is
  batch,      \* what write has not put yet
  before,     \* batchEntry.before of those
  failed,     \* whether write has seen an error
  poller,     \* where each device's goroutine is in the change hook
  flush,      \* where the caller of Flush is
  broker,     \* how the broker answers right now
  exists,     \* whether the bucket exists
  bucket,     \* its entries
  said,       \* history: what the events emitted so far say of a key
  repeated,   \* history: keys of which an event said what was said already
  forgotten,  \* history: keys whose last value no boot may count on
  changes, boots, wipes  \* for the bounds

engine   == <<seeded, prev>>
shared   == <<pending, written, closed, wake, stopped>>
loop     == <<writer, batch, before, failed>>
callers  == <<poller, flush>>
store    == <<exists, bucket>>
history  == <<said, repeated, forgotten>>
counts   == <<changes, boots, wipes>>
memory   == <<engine, shared, loop, callers>>
vars     == <<up, memory, broker, store, history, counts>>

Stored == Values \cup {NoValue}
Nothing == [k \in Keys |-> NoValue]

\* What an entry is worth to this build (DecodeFacet).
Usable(v) == IF v = Junk THEN NoValue ELSE v

\* What a differ starts from, when v is what the engine remembers of k.
Known(k, v) == IF k \in FromEmpty /\ v = NoValue THEN Quiet ELSE v

Init ==
  /\ up = TRUE /\ seeded = {} /\ prev = Nothing
  /\ pending = Nothing /\ written = Nothing
  /\ closed = FALSE /\ wake = FALSE /\ stopped = FALSE
  /\ writer = "load" /\ batch = Nothing /\ before = Nothing /\ failed = FALSE
  /\ poller = [d \in Devices |-> "idle"] /\ flush = "idle"
  /\ broker \in {"healthy", "faltering", "gone"}
  /\ bucket \in [Keys -> Stored \cup {Junk}]
  /\ \A k \in Volatile : bucket[k] = NoValue
  /\ exists \in BOOLEAN /\ (~exists => bucket = Nothing)
  /\ said = [k \in Keys |-> Known(k, Usable(bucket[k]))]
  /\ repeated = {}
  /\ forgotten = {k \in Keys : k \in Volatile \/ bucket[k] = Junk}
  /\ changes = 0 /\ boots = 1 /\ wipes = 0

-----------------------------------------------------------------------------
(* The engine's Apply, called by a device's goroutine, and the change hook *)
(* record, which it calls under its lock.                                  *)

\* Whether the differ of k makes an event of now after was.
Differs(k, was, now) == Known(k, was) \notin {NoValue, now}

\* Fault: a queued value is not looked at.
WrittenIgnoringQueue(k, v) == written[k] = v

\* record: the bucket holds v, or is about to.
AlreadyWritten(k, v) == pending[k] = NoValue /\ written[k] = v

Record(k, v) ==
  IF k \in Volatile \/ AlreadyWritten(k, v)
  THEN UNCHANGED <<pending, poller>>
  ELSE /\ pending' = [pending EXCEPT ![k] = v]
       /\ poller' = [poller EXCEPT ![DeviceOf[k]] = "poke"]

\* A facet of a seeded device.  A held one is dropped (no step).  While the
\* goroutine is in the hook it holds the engine's lock, so it is alone there.
Apply(k, v) ==
  /\ up /\ flush = "idle"
  /\ \A d \in Devices : poller[d] = "idle"
  /\ DeviceOf[k] \in seeded
  /\ changes' = IF v = prev[k] THEN changes ELSE changes + 1
  /\ changes' <= MaxChanges
  /\ prev' = [prev EXCEPT ![k] = v]
  /\ Record(k, v)
  /\ IF Differs(k, prev[k], v)
     THEN /\ said' = [said EXCEPT ![k] = v]
          /\ repeated' = IF said[k] = v THEN repeated \cup {k} ELSE repeated
     ELSE UNCHANGED <<said, repeated>>
  /\ UNCHANGED <<up, seeded, written, closed, wake, stopped, loop, flush, broker, store,
                 forgotten, boots, wipes>>

\* Fault: a channel without a buffer: nobody keeps the token.
PokeUnbuffered == wake' = (wake \/ writer = "wait")

\* The non-blocking send on wake.
Poke == wake' = TRUE

RecordPoke(d) ==
  /\ up /\ poller[d] = "poke"
  /\ poller' = [poller EXCEPT ![d] = "idle"]
  /\ Poke
  /\ UNCHANGED <<up, engine, pending, written, closed, stopped, loop, flush, broker, store,
                 history, counts>>

-----------------------------------------------------------------------------
(* Flush, called once, when every device's goroutine has returned.         *)

FlushClose ==
  /\ up /\ flush = "idle"
  /\ \A d \in Devices : poller[d] = "idle"
  /\ closed' = TRUE
  /\ flush' = "poke"
  /\ UNCHANGED <<up, engine, pending, written, wake, stopped, loop, poller, broker, store,
                 history, counts>>

FlushPoke ==
  /\ up /\ flush = "poke"
  /\ Poke
  /\ flush' = "wait"
  /\ UNCHANGED <<up, engine, pending, written, closed, stopped, loop, poller, broker, store,
                 history, counts>>

\* Its time is over before the writer is done.
FlushExpire ==
  /\ up /\ flush = "wait"
  /\ stopped' = TRUE
  /\ flush' = "stopping"
  /\ UNCHANGED <<up, engine, pending, written, closed, wake, loop, poller, broker, store,
                 history, counts>>

\* The writer is done: stop, and warn of what is still pending.
FlushReturn ==
  /\ up /\ flush \in {"wait", "stopping"}
  /\ writer = "done"
  /\ stopped' = TRUE
  /\ flush' = "returned"
  /\ UNCHANGED <<up, engine, pending, written, closed, wake, loop, poller, broker, store,
                 history, counts>>

-----------------------------------------------------------------------------
(* The goroutine run: load until it succeeds, then write through.          *)

LoadNoting == written' = [k \in Keys |-> Usable(bucket[k])]

LoadOk ==
  /\ up /\ writer = "load"
  /\ broker # "gone"
  /\ exists' = TRUE
  /\ LoadNoting
  /\ writer' = "seed"
  /\ UNCHANGED <<up, engine, pending, closed, wake, stopped, batch, before, failed, callers,
                 broker, bucket, history, counts>>

\* The bucket may have been created before the operation that failed.
LoadFail ==
  /\ up /\ writer = "load"
  /\ broker # "healthy" \/ stopped
  /\ exists' \in {exists, exists \/ broker # "gone"}
  /\ writer' = "hold"
  /\ UNCHANGED <<up, engine, shared, batch, before, failed, callers, broker, bucket, history,
                 counts>>

\* Fault: a device is released without its state.
SeedEmpty(d) == prev

\* Seed replaces what the engine remembers of d.  Nothing has changed written
\* since the load, so it still is what the load has read.
Seed(d) == [k \in Keys |-> IF DeviceOf[k] = d THEN written[k] ELSE prev[k]]

SeedDevice(d) ==
  /\ up /\ writer = "seed"
  /\ d \notin seeded
  /\ \A e \in Devices : poller[e] = "idle"
  /\ prev' = Seed(d)
  /\ seeded' = seeded \cup {d}
  /\ UNCHANGED <<up, shared, loop, callers, broker, store, history, counts>>

Released ==
  /\ up /\ writer = "seed"
  /\ seeded = Devices
  /\ writer' = "take"
  /\ UNCHANGED <<up, engine, shared, batch, before, failed, callers, broker, store, history,
                 counts>>

\* Fault: sleep the backoff out, whatever happens.
InterruptedNever == FALSE

\* The end of Flush's time ends a backoff at once.
Interrupted == stopped

\* wait: the backoff is over ...
BackoffElapse ==
  /\ up /\ writer \in {"hold", "sleep"}
  /\ ~Interrupted
  /\ writer' = IF writer = "hold" THEN "load" ELSE "take"
  /\ UNCHANGED <<up, engine, shared, batch, before, failed, callers, broker, store, history,
                 counts>>

\* ... or the writer is stopped.
BackoffStopped ==
  /\ up /\ writer \in {"hold", "sleep"}
  /\ Interrupted
  /\ writer' = "done"
  /\ UNCHANGED <<up, engine, shared, batch, before, failed, callers, broker, store, history,
                 counts>>

\* Fault: written is not marked before the Put.
MarkLater == written

\* The entries taken count as written at once.
Mark == [k \in Keys |-> IF pending[k] # NoValue THEN pending[k] ELSE written[k]]

TakePending ==
  /\ up /\ writer = "take"
  /\ pending # Nothing
  /\ batch' = pending
  /\ before' = [k \in Keys |-> IF pending[k] # NoValue THEN written[k] ELSE NoValue]
  /\ written' = Mark
  /\ pending' = Nothing
  /\ writer' = "write"
  /\ UNCHANGED <<up, engine, closed, wake, stopped, failed, callers, broker, store, history,
                 counts>>

\* Nothing to take; closed is read later, under the lock again.
TakeNothing ==
  /\ up /\ writer = "take"
  /\ pending = Nothing
  /\ writer' = "check"
  /\ UNCHANGED <<up, engine, shared, batch, before, failed, callers, broker, store, history,
                 counts>>

CheckClosed ==
  /\ up /\ writer = "check"
  /\ writer' = IF closed THEN "done" ELSE "wait"
  /\ UNCHANGED <<up, engine, shared, batch, before, failed, callers, broker, store, history,
                 counts>>

Woken ==
  /\ up /\ writer = "wait"
  /\ wake
  /\ wake' = FALSE
  /\ writer' = "take"
  /\ UNCHANGED <<up, engine, pending, written, closed, stopped, batch, before, failed, callers,
                 broker, store, history, counts>>

WaitStopped ==
  /\ up /\ writer = "wait"
  /\ stopped
  /\ writer' = "done"
  /\ UNCHANGED <<up, engine, shared, batch, before, failed, callers, broker, store, history,
                 counts>>

(* write: the entries of the batch, in any order, each one Put.            *)

\* write is through with an entry of its batch.
Drop(k) ==
  /\ batch' = [batch EXCEPT ![k] = NoValue]
  /\ before' = [before EXCEPT ![k] = NoValue]

PutOk(k) ==
  /\ up /\ writer = "write"
  /\ batch[k] # NoValue
  /\ broker # "gone" /\ exists
  /\ bucket' = [bucket EXCEPT ![k] = batch[k]]
  /\ Drop(k)
  /\ UNCHANGED <<up, engine, shared, writer, failed, callers, broker, exists, history, counts>>

\* A failed entry is queued again unless a newer value is.
Requeue(k) == IF pending[k] = NoValue THEN [pending EXCEPT ![k] = batch[k]] ELSE pending

\* written goes back to what the bucket held.
Rollback(k) == IF written[k] = batch[k] THEN [written EXCEPT ![k] = before[k]] ELSE written

\* An error or no answer in time: the entry may have been stored all the same.
PutFail(k) ==
  /\ up /\ writer = "write"
  /\ batch[k] # NoValue
  /\ \/ /\ broker # "healthy" \/ stopped \/ ~exists
        /\ UNCHANGED bucket
     \/ /\ exists /\ (broker = "faltering" \/ stopped)
        /\ bucket' = [bucket EXCEPT ![k] = batch[k]]
  /\ written' = Rollback(k)
  /\ pending' = Requeue(k)
  /\ Drop(k)
  /\ failed' = TRUE
  /\ UNCHANGED <<up, engine, closed, wake, stopped, writer, callers, broker, exists, history,
                 counts>>

WriteDone ==
  /\ up /\ writer = "write"
  /\ batch = Nothing
  /\ writer' = IF failed THEN "sleep" ELSE "take"
  /\ failed' = FALSE
  /\ UNCHANGED <<up, engine, shared, batch, before, callers, broker, store, history, counts>>

-----------------------------------------------------------------------------
(* The process and the broker.                                             *)

\* Keys whose last value is not, or not surely, in the bucket.
Unsaved == {k \in Keys : pending[k] # NoValue \/ batch[k] # NoValue}

\* The process ends, and its memory with it.
End ==
  /\ up' = FALSE /\ seeded' = {} /\ prev' = Nothing
  /\ pending' = Nothing /\ written' = Nothing
  /\ closed' = FALSE /\ wake' = FALSE /\ stopped' = FALSE
  /\ writer' = "load" /\ batch' = Nothing /\ before' = Nothing /\ failed' = FALSE
  /\ poller' = [d \in Devices |-> "idle"] /\ flush' = "idle"
  /\ forgotten' = forgotten \cup Unsaved
  /\ UNCHANGED <<broker, store, said, repeated, counts>>

Exit == up /\ flush = "returned" /\ End

Crash == up /\ End

Boot ==
  /\ ~up /\ boots < MaxBoots
  /\ up' = TRUE
  /\ boots' = boots + 1
  /\ UNCHANGED <<memory, broker, store, history, changes, wipes>>

BrokerChange ==
  /\ broker' \in {"healthy", "faltering", "gone"} \ {broker}
  /\ UNCHANGED <<up, memory, store, history, counts>>

\* The broker restarts with a wiped store.
BrokerWipe ==
  /\ broker = "gone" /\ exists
  /\ wipes < MaxWipes
  /\ wipes' = wipes + 1
  /\ exists' = FALSE
  /\ bucket' = Nothing
  /\ forgotten' = Keys
  /\ UNCHANGED <<up, memory, broker, said, repeated, changes, boots>>

-----------------------------------------------------------------------------
Runner == \E k \in Keys, v \in Values : Apply(k, v)

Writer ==
  \/ LoadOk \/ LoadFail
  \/ \E d \in Devices : SeedDevice(d)
  \/ Released \/ BackoffElapse \/ BackoffStopped
  \/ TakePending \/ TakeNothing \/ CheckClosed \/ Woken \/ WaitStopped
  \/ \E k \in Keys : PutOk(k) \/ PutFail(k)
  \/ WriteDone

Flush == FlushClose \/ FlushPoke \/ FlushExpire \/ FlushReturn

Process == Exit \/ Crash \/ Boot

Broker == BrokerChange \/ BrokerWipe

Next ==
  \/ Runner
  \/ \E d \in Devices : RecordPoke(d)
  \/ Writer \/ Flush \/ Process \/ Broker

Spec == Init /\ [][Next]_vars

(* The Go scheduler runs every goroutine that can run; every operation on  *)
(* the bucket ends within opTimeout, every backoff when its timer fires,   *)
(* and Flush's context when its time is over.  Seed waits for the engine's *)
(* lock, which polls take again and again: a sync.Mutex does not let a     *)
(* waiter starve, hence strong fairness.  No fairness is assumed of polls, *)
(* shutdown, crashes, boots or the broker.                                 *)
Fairness ==
  /\ WF_vars(Writer)
  /\ SF_vars(\E d \in Devices : SeedDevice(d))
  /\ \A d \in Devices : WF_vars(RecordPoke(d))
  /\ WF_vars(FlushPoke)
  /\ WF_vars(FlushExpire \/ FlushReturn)

FairSpec == Spec /\ Fairness
-----------------------------------------------------------------------------
(* Types.  In particular the engine never remembers, and the writer never  *)
(* takes for written, an entry that this build cannot decode               *)
(* (durable.go:254-260).                                                   *)
TypeOK ==
  /\ up \in BOOLEAN /\ closed \in BOOLEAN /\ wake \in BOOLEAN /\ stopped \in BOOLEAN
  /\ failed \in BOOLEAN /\ exists \in BOOLEAN
  /\ seeded \subseteq Devices
  /\ prev \in [Keys -> Stored] /\ pending \in [Keys -> Stored]
  /\ written \in [Keys -> Stored] /\ batch \in [Keys -> Stored] /\ before \in [Keys -> Stored]
  /\ writer \in {"load", "hold", "seed", "take", "check", "wait", "write", "sleep", "done"}
  /\ poller \in [Devices -> {"idle", "poke"}]
  /\ flush \in {"idle", "poke", "wait", "stopping", "returned"}
  /\ broker \in {"healthy", "faltering", "gone"}
  /\ bucket \in [Keys -> Stored \cup {Junk}]
  /\ said \in [Keys -> Stored] /\ repeated \subseteq Keys /\ forgotten \subseteq Keys
  /\ changes \in 0..MaxChanges /\ boots \in Nat /\ wipes \in 0..MaxWipes

\* The value of k that is in the bucket, or on its way there.
Latest(k) ==
  IF pending[k] # NoValue THEN pending[k]
  ELSE IF batch[k] # NoValue THEN batch[k] ELSE bucket[k]

\* What the engine remembers is in the bucket or on its way: neither a value
\* that comes back while another is queued or being put, nor a failed Put,
\* nor one that was stored without an answer, makes the writer skip it or an
\* older value win (durable.go:149-154, 276-296, 310-315).
WrittenThrough ==
  exists => \A k \in Keys \ Volatile :
    DeviceOf[k] \in seeded => prev[k] = Usable(Latest(k))

\* The writer never sleeps on wake for ever with something to write or a
\* Flush to notice (durable.go:156, 104, 207-209).
NoLostWakeup ==
  writer = "wait" /\ (pending # Nothing \/ closed) =>
    \/ wake
    \/ \E d \in Devices : poller[d] = "poke"
    \/ flush = "poke"

\* If Flush has nothing to warn of, the next boot starts where this one
\* ended: the bucket holds what the engine remembered (durable.go:97-117).
SilentFlushSaved ==
  flush = "returned" /\ pending = Nothing /\ exists =>
    \A k \in Keys \ Volatile :
      DeviceOf[k] \in seeded => Usable(bucket[k]) = prev[k]

\* What the events said of k fits v, what the engine goes by: a differ that
\* makes no event of a first observation may have said nothing yet.
Agrees(k, v) == said[k] = Known(k, v) \/ (k \notin FromEmpty /\ said[k] = NoValue)

\* Across restarts and crashes, what the events have said of a key is what
\* the engine goes by, unless the key's last value was unwritten when a
\* process ended, or its entry was lost: nothing else makes a boot say a
\* standing fault again or swallow what changed while the process was down
\* (ADR 0017).
EventsAgree ==
  /\ repeated \subseteq forgotten
  /\ \A k \in Keys \ forgotten :
       Agrees(k, IF DeviceOf[k] \in seeded THEN prev[k] ELSE Usable(bucket[k]))

\* A poll queues a write only of a value that is neither in the bucket nor on
\* its way there: flash writes track transitions (durable.go:10-12, 280-282).
WritesTrackChanges ==
  [][\A k \in Keys :
       exists /\ pending[k] = NoValue /\ pending'[k] # NoValue /\ batch' = batch =>
         pending'[k] # Latest(k)]_vars

\* Flush returns, or the process crashes first, whatever the broker does.
FlushReturns == flush = "poke" ~> (flush = "returned" \/ ~up)

\* The process keeps running and the broker is one day there for good.
StaysUp == <>[](up /\ flush = "idle" /\ broker = "healthy")

\* No store is lost behind a writer that has loaded it.
StoreKept == <>[](exists \/ writer \in {"load", "hold"})

\* Then the engine is released and everything it remembers gets written,
\* whatever failed before.
AllWritten == seeded = Devices /\ pending = Nothing /\ batch = Nothing
WrittenAtLast == (StaysUp /\ StoreKept) => []<>AllWritten

\* What durable.go:6-8 says has no such exception: "every change it remembers
\* afterwards is written through".
EveryChangeWritten == StaysUp => []<>AllWritten

\* durable.go:97-98: "Flush writes what is pending until it is all written or
\* ctx ends, then stops."
FlushWritesAll == writer = "done" /\ ~stopped => pending = Nothing
=============================================================================
