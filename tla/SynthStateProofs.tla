-------------------------- MODULE SynthStateProofs --------------------------
(***************************************************************************)
(* Proofs about SynthState, for any devices, keys, values and bounds: what *)
(* the engine remembers is written through, events agree with it across    *)
(* restarts and crashes, and only changes are queued for writing.          *)
(***************************************************************************)
EXTENDS SynthState, TLAPS

\* What the writer's place says of the rest.
Control ==
  /\ writer \in {"load", "hold"} => seeded = {} /\ pending = Nothing
  /\ writer # "write" => batch = Nothing
  /\ flush = "returned" => writer = "done"
  /\ ~up => writer = "load"
  /\ Volatile \subseteq forgotten
  /\ ~exists /\ (seeded # {} \/ writer = "seed") => forgotten = Keys

\* Only keys that take part are queued, and what is being put counts as
\* written.
Queued(k) ==
  /\ pending[k] # NoValue => DeviceOf[k] \in seeded /\ k \notin Volatile
  /\ batch[k] # NoValue =>
       DeviceOf[k] \in seeded /\ k \notin Volatile /\ written[k] = batch[k]

\* s.written says the truth about a key that is neither queued nor being put.
WrittenIsStored(k) ==
  exists /\ (DeviceOf[k] \in seeded \/ writer = "seed") /\ pending[k] = NoValue
    /\ batch[k] = NoValue => written[k] = Usable(bucket[k])

\* The engine's value of k is the latest that is stored or on its way.
Remembered(k) ==
  exists /\ k \notin Volatile /\ DeviceOf[k] \in seeded => prev[k] = Usable(Latest(k))

\* The events agree with the engine about k.
InAgreement(k) ==
  k \notin forgotten =>
    /\ k \notin repeated
    /\ Agrees(k, IF DeviceOf[k] \in seeded THEN prev[k] ELSE Usable(bucket[k]))

\* With something queued, the writer that has seen nothing to take is about
\* to be woken; so is the one that waits when Flush has closed.
Wakeup ==
  /\ writer \in {"check", "wait"} /\ pending # Nothing =>
       wake \/ \E d \in Devices : poller[d] = "poke"
  /\ writer = "wait" /\ closed => wake \/ flush = "poke"

Inv ==
  /\ TypeOK
  /\ Control
  /\ Wakeup
  /\ \A k \in Keys : Queued(k) /\ WrittenIsStored(k) /\ Remembered(k) /\ InAgreement(k)

-----------------------------------------------------------------------------
\* The parts hold initially: nothing is queued, and what the events have said
\* is what the bucket holds.
LEMMA InvInit == Init => Inv
<1> SUFFICES ASSUME Init PROVE Inv
  OBVIOUS
<1> USE SynthStateAssumption DEF SynthStateAssumption
<1>1. TypeOK
  <2>1. said \in [Keys -> Stored]
    BY DEF Init, Known, Usable, Stored
  <2>2. Nothing \in [Keys -> Stored]
    BY DEF Nothing, Stored
  <2>3. forgotten \subseteq Keys
    BY DEF Init
  <2>4. bucket \in [Keys -> Stored \cup {Junk}]
    BY DEF Init
  <2>5. /\ changes \in 0..MaxChanges /\ boots \in Nat /\ wipes \in 0..MaxWipes
        /\ poller \in [Devices -> {"idle", "poke"}]
    BY DEF Init
  <2>6. exists \in BOOLEAN
    BY DEF Init
  <2> QED
    BY <2>1, <2>2, <2>3, <2>4, <2>5, <2>6 DEF Init, TypeOK
<1>2. Control
  BY DEF Init, Control
<1>3. Wakeup
  BY DEF Init, Wakeup
<1>4. ASSUME NEW k \in Keys
      PROVE  Queued(k) /\ WrittenIsStored(k) /\ Remembered(k) /\ InAgreement(k)
  <2>1. Queued(k) /\ WrittenIsStored(k) /\ Remembered(k)
    BY DEF Init, Queued, WrittenIsStored, Remembered, Nothing
  <2>2. InAgreement(k)
    BY DEF Init, InAgreement, Agrees
  <2> QED
    BY <2>1, <2>2
<1> QED
  BY <1>1, <1>2, <1>3, <1>4 DEF Inv

-----------------------------------------------------------------------------
\* A step of the engine's callers, of the writer, of Flush or of the world
\* keeps every variable in its type.
LEMMA TypeStep ==
  ASSUME TypeOK, [Next]_vars
  PROVE  TypeOK'
<1> USE SynthStateAssumption DEF SynthStateAssumption, TypeOK, Stored
<1> USE DEF engine, shared, loop, callers, store, history, counts, memory
<1> Nothing \in [Keys -> Stored] /\ Nothing \in [Keys -> Stored \cup {Junk}]
  BY DEF Nothing
<1>1. ASSUME NEW j \in Keys, NEW v \in Values, Apply(j, v) PROVE TypeOK'
  <2>1. prev' \in [Keys -> Stored] /\ said' \in [Keys -> Stored] /\ repeated' \subseteq Keys
    BY <1>1 DEF Apply
  <2>2. pending' \in [Keys -> Stored] /\ poller' \in [Devices -> {"idle", "poke"}]
    BY <1>1 DEF Apply, Record
  <2>3. changes' \in 0..MaxChanges
    BY <1>1 DEF Apply
  <2> QED
    BY <1>1, <2>1, <2>2, <2>3 DEF Apply
<1>2. ASSUME NEW d \in Devices, RecordPoke(d) PROVE TypeOK'
  BY <1>2 DEF RecordPoke, Poke
<1>3. CASE Flush
  <2>1. CASE FlushClose
    BY <2>1 DEF FlushClose
  <2>2. CASE FlushPoke
    BY <2>2 DEF FlushPoke, Poke
  <2>3. CASE FlushExpire
    BY <2>3 DEF FlushExpire
  <2>4. CASE FlushReturn
    BY <2>4 DEF FlushReturn
  <2> QED
    BY <1>3, <2>1, <2>2, <2>3, <2>4 DEF Flush
<1>4. CASE LoadOk
  BY <1>4 DEF LoadOk, LoadNoting, Usable
<1>5. CASE LoadFail
  BY <1>5 DEF LoadFail
<1>6. ASSUME NEW d \in Devices, SeedDevice(d) PROVE TypeOK'
  BY <1>6 DEF SeedDevice, Seed
<1>7. CASE Released \/ BackoffElapse \/ BackoffStopped
  <2>1. CASE Released
    BY <2>1 DEF Released
  <2>2. CASE BackoffElapse
    BY <2>2 DEF BackoffElapse
  <2>3. CASE BackoffStopped
    BY <2>3 DEF BackoffStopped
  <2> QED
    BY <1>7, <2>1, <2>2, <2>3
<1>8. CASE TakePending
  BY <1>8 DEF TakePending, Mark
<1>9. CASE TakeNothing \/ CheckClosed \/ Woken \/ WaitStopped
  <2>1. CASE TakeNothing
    BY <2>1 DEF TakeNothing
  <2>2. CASE CheckClosed
    BY <2>2 DEF CheckClosed
  <2>3. CASE Woken
    BY <2>3 DEF Woken
  <2>4. CASE WaitStopped
    BY <2>4 DEF WaitStopped
  <2> QED
    BY <1>9, <2>1, <2>2, <2>3, <2>4
<1>10. ASSUME NEW j \in Keys, PutOk(j) PROVE TypeOK'
  BY <1>10 DEF PutOk, Drop
<1>11. ASSUME NEW j \in Keys, PutFail(j) PROVE TypeOK'
  <2>1. bucket' \in [Keys -> Stored \cup {Junk}]
    BY <1>11 DEF PutFail
  <2>2. written' \in [Keys -> Stored] /\ pending' \in [Keys -> Stored]
    BY <1>11 DEF PutFail, Rollback, Requeue
  <2> QED
    BY <1>11, <2>1, <2>2 DEF PutFail, Drop
<1>12. CASE WriteDone
  BY <1>12 DEF WriteDone
<1>13. CASE Exit \/ Crash
  <2>1. End
    BY <1>13 DEF Exit, Crash
  <2>2. forgotten' \subseteq Keys
    BY <2>1 DEF End, Unsaved
  <2> QED
    BY <2>1, <2>2 DEF End
<1>14. CASE Boot
  BY <1>14 DEF Boot
<1>15. CASE Broker
  <2>1. CASE BrokerChange
    BY <2>1 DEF BrokerChange
  <2>2. CASE BrokerWipe
    <3>1. wipes' \in 0..MaxWipes
      BY <2>2 DEF BrokerWipe
    <3>2. exists' \in BOOLEAN /\ bucket' \in [Keys -> Stored \cup {Junk}]
          /\ forgotten' \subseteq Keys
      BY <2>2 DEF BrokerWipe
    <3> QED
      BY <2>2, <3>1, <3>2 DEF BrokerWipe
  <2> QED
    BY <1>15, <2>1, <2>2 DEF Broker
<1>16. CASE UNCHANGED vars
  BY <1>16 DEF vars
<1> QED
  BY <1>1, <1>2, <1>3, <1>4, <1>5, <1>6, <1>7, <1>8, <1>9, <1>10, <1>11, <1>12, <1>13, <1>14,
     <1>15, <1>16 DEF Next, Runner, Writer, Process

-----------------------------------------------------------------------------
\* The writer's place keeps saying what it says of the rest.
LEMMA ControlStep ==
  ASSUME TypeOK, Control, [Next]_vars
  PROVE  Control'
<1> USE DEF Control, engine, shared, loop, callers, store, history, counts, memory
<1>1. ASSUME NEW j \in Keys, NEW v \in Values, Apply(j, v) PROVE Control'
  BY <1>1 DEF Apply
<1>2. ASSUME NEW d \in Devices, RecordPoke(d) PROVE Control'
  BY <1>2 DEF RecordPoke
<1>3. CASE Flush
  BY <1>3 DEF Flush, FlushClose, FlushPoke, FlushExpire, FlushReturn
<1>4. CASE LoadOk \/ LoadFail
  BY <1>4 DEF LoadOk, LoadFail
<1>5. ASSUME NEW d \in Devices, SeedDevice(d) PROVE Control'
  BY <1>5 DEF SeedDevice
<1>6. CASE Released \/ BackoffElapse \/ BackoffStopped
  BY <1>6 DEF Released, BackoffElapse, BackoffStopped
<1>7. CASE TakePending
  BY <1>7 DEF TakePending
<1>8. CASE TakeNothing \/ CheckClosed \/ Woken \/ WaitStopped
  BY <1>8 DEF TakeNothing, CheckClosed, Woken, WaitStopped
<1>9. ASSUME NEW j \in Keys, PutOk(j) \/ PutFail(j) PROVE Control'
  BY <1>9 DEF PutOk, PutFail
<1>10. CASE WriteDone
  BY <1>10 DEF WriteDone
<1>11. CASE Exit \/ Crash
  BY <1>11 DEF Exit, Crash, End
<1>12. CASE Boot
  BY <1>12 DEF Boot
<1>13. CASE Broker
  BY <1>13, SynthStateAssumption DEF Broker, BrokerChange, BrokerWipe, SynthStateAssumption
<1>14. CASE UNCHANGED vars
  BY <1>14 DEF vars
<1> QED
  BY <1>1, <1>2, <1>3, <1>4, <1>5, <1>6, <1>7, <1>8, <1>9, <1>10, <1>11, <1>12, <1>13, <1>14
     DEF Next, Runner, Writer, Process

\* The writer keeps being woken.
LEMMA WakeupStep ==
  ASSUME TypeOK, Control, Wakeup, [Next]_vars
  PROVE  Wakeup'
<1> USE SynthStateAssumption DEF SynthStateAssumption
<1> USE DEF Wakeup, engine, shared, loop, callers, store, history, counts, memory
<1>1. ASSUME NEW j \in Keys, NEW v \in Values, Apply(j, v) PROVE Wakeup'
  <2>1. CASE UNCHANGED <<pending, poller>>
    BY <1>1, <2>1 DEF Apply
  <2>2. CASE poller' = [poller EXCEPT ![DeviceOf[j]] = "poke"]
    <3>1. DeviceOf[j] \in Devices /\ poller'[DeviceOf[j]] = "poke"
      BY <2>2 DEF TypeOK
    <3> QED
      BY <1>1, <3>1 DEF Apply
  <2> QED
    BY <1>1, <2>1, <2>2 DEF Apply, Record
<1>2. ASSUME NEW d \in Devices, RecordPoke(d) PROVE Wakeup'
  BY <1>2 DEF RecordPoke, Poke
<1>3. CASE Flush
  BY <1>3 DEF Flush, FlushClose, FlushPoke, FlushExpire, FlushReturn, Poke
<1>4. CASE LoadOk \/ LoadFail
  BY <1>4 DEF LoadOk, LoadFail
<1>5. ASSUME NEW d \in Devices, SeedDevice(d) PROVE Wakeup'
  BY <1>5 DEF SeedDevice
<1>6. CASE Released \/ BackoffElapse \/ BackoffStopped
  BY <1>6 DEF Released, BackoffElapse, BackoffStopped
<1>7. CASE TakePending
  BY <1>7 DEF TakePending
<1>8. CASE TakeNothing \/ CheckClosed \/ Woken \/ WaitStopped
  BY <1>8 DEF TakeNothing, CheckClosed, Woken, WaitStopped
<1>9. ASSUME NEW j \in Keys, PutOk(j) \/ PutFail(j) PROVE Wakeup'
  BY <1>9 DEF PutOk, PutFail
<1>10. CASE WriteDone
  BY <1>10 DEF WriteDone
<1>11. CASE Exit \/ Crash
  BY <1>11 DEF Exit, Crash, End
<1>12. CASE Boot
  BY <1>12 DEF Boot
<1>13. CASE Broker
  BY <1>13 DEF Broker, BrokerChange, BrokerWipe
<1>14. CASE UNCHANGED vars
  BY <1>14 DEF vars
<1> QED
  BY <1>1, <1>2, <1>3, <1>4, <1>5, <1>6, <1>7, <1>8, <1>9, <1>10, <1>11, <1>12, <1>13, <1>14
     DEF Next, Runner, Writer, Process

-----------------------------------------------------------------------------
(* What holds of each key on its own.                                      *)

\* Only keys of seeded devices are queued or put, and what is being put
\* counts as written.
LEMMA QueuedStep ==
  ASSUME TypeOK, Control, [Next]_vars,
         NEW k \in Keys, Queued(k)
  PROVE  Queued(k)'
<1> USE SynthStateAssumption DEF SynthStateAssumption
<1> USE DEF Queued, engine, shared, loop, callers, store, history, counts, memory, Nothing
<1> /\ DeviceOf[k] \in Devices
    /\ prev \in [Keys -> Stored] /\ pending \in [Keys -> Stored] /\ written \in [Keys -> Stored]
    /\ batch \in [Keys -> Stored] /\ bucket \in [Keys -> Stored \cup {Junk}]
    /\ said \in [Keys -> Stored]
  BY DEF TypeOK
<1>1. ASSUME NEW j \in Keys, NEW v \in Values, Apply(j, v) PROVE Queued(k)'
  <2>1. CASE UNCHANGED <<pending, poller>>
    BY <1>1, <2>1 DEF Apply
  <2>2. CASE j \notin Volatile /\ pending' = [pending EXCEPT ![j] = v]
    <3>1. k # j => pending'[k] = pending[k]
      BY <2>2 DEF TypeOK
    <3> QED
      BY <1>1, <2>2, <3>1 DEF Apply
  <2> QED
    BY <1>1, <2>1, <2>2 DEF Apply, Record
<1>2. ASSUME NEW d \in Devices, RecordPoke(d) PROVE Queued(k)'
  BY <1>2 DEF RecordPoke
<1>3. CASE Flush
  BY <1>3 DEF Flush, FlushClose, FlushPoke, FlushExpire, FlushReturn
<1>4. CASE LoadOk
  BY <1>4 DEF Control, LoadOk, LoadNoting
<1>5. CASE LoadFail
  BY <1>5 DEF LoadFail
<1>6. ASSUME NEW d \in Devices, SeedDevice(d) PROVE Queued(k)'
  BY <1>6 DEF SeedDevice, Seed
<1>7. CASE Released \/ BackoffElapse \/ BackoffStopped
  BY <1>7 DEF Released, BackoffElapse, BackoffStopped
<1>8. CASE TakePending
  BY <1>8 DEF TakePending, Mark
<1>9. CASE TakeNothing \/ CheckClosed \/ Woken \/ WaitStopped
  BY <1>9 DEF TakeNothing, CheckClosed, Woken, WaitStopped
<1>10. ASSUME NEW j \in Keys, PutOk(j) PROVE Queued(k)'
  BY <1>10 DEF PutOk, Drop
<1>11. ASSUME NEW j \in Keys, PutFail(j) PROVE Queued(k)'
  BY <1>11 DEF PutFail, Drop, Rollback, Requeue
<1>12. CASE WriteDone
  BY <1>12 DEF WriteDone
<1>13. CASE Exit \/ Crash
  BY <1>13 DEF Exit, Crash, End
<1>14. CASE Boot
  BY <1>14 DEF Boot
<1>15. CASE Broker
  BY <1>15 DEF Broker, BrokerChange, BrokerWipe
<1>16. CASE UNCHANGED vars
  BY <1>16 DEF vars
<1> QED
  BY <1>1, <1>2, <1>3, <1>4, <1>5, <1>6, <1>7, <1>8, <1>9,
     <1>10, <1>11, <1>12, <1>13, <1>14, <1>15, <1>16
     DEF Next, Runner, Writer, Process

\* s.written keeps saying the truth.
LEMMA StoredStep ==
  ASSUME TypeOK, Control, [Next]_vars,
         NEW k \in Keys, Queued(k), WrittenIsStored(k)
  PROVE  WrittenIsStored(k)'
<1> USE SynthStateAssumption DEF SynthStateAssumption
<1> USE DEF Queued, WrittenIsStored, engine, shared, loop, callers, store, history, counts,
           memory, Nothing
<1> /\ DeviceOf[k] \in Devices
    /\ prev \in [Keys -> Stored] /\ pending \in [Keys -> Stored] /\ written \in [Keys -> Stored]
    /\ batch \in [Keys -> Stored] /\ bucket \in [Keys -> Stored \cup {Junk}]
    /\ said \in [Keys -> Stored]
  BY DEF TypeOK
<1>1. ASSUME NEW j \in Keys, NEW v \in Values, Apply(j, v) PROVE WrittenIsStored(k)'
  <2>1. pending'[k] = NoValue => pending[k] = NoValue
    BY <1>1 DEF Apply, Record, TypeOK, Stored
  <2> QED
    BY <1>1, <2>1 DEF Apply
<1>2. ASSUME NEW d \in Devices, RecordPoke(d) PROVE WrittenIsStored(k)'
  BY <1>2 DEF RecordPoke
<1>3. CASE Flush
  BY <1>3 DEF Flush, FlushClose, FlushPoke, FlushExpire, FlushReturn
<1>4. CASE LoadOk
  BY <1>4 DEF LoadOk, LoadNoting
<1>5. CASE LoadFail
  BY <1>5 DEF Control, LoadFail
<1>6. ASSUME NEW d \in Devices, SeedDevice(d) PROVE WrittenIsStored(k)'
  BY <1>6 DEF SeedDevice, Seed
<1>7. CASE Released \/ BackoffElapse \/ BackoffStopped
  BY <1>7 DEF Released, BackoffElapse, BackoffStopped
<1>8. CASE TakePending
  BY <1>8 DEF Control, TakePending, Mark
<1>9. CASE TakeNothing \/ CheckClosed \/ Woken \/ WaitStopped
  BY <1>9 DEF TakeNothing, CheckClosed, Woken, WaitStopped
<1>10. ASSUME NEW j \in Keys, PutOk(j) PROVE WrittenIsStored(k)'
  <2>1. CASE k = j
    BY <1>10, <2>1 DEF PutOk, Drop, Usable, Stored
  <2>2. CASE k # j
    BY <1>10, <2>2 DEF PutOk, Drop
  <2> QED
    BY <2>1, <2>2
<1>11. ASSUME NEW j \in Keys, PutFail(j) PROVE WrittenIsStored(k)'
  BY <1>11 DEF PutFail, Drop, Rollback, Requeue
<1>12. CASE WriteDone
  BY <1>12 DEF WriteDone
<1>13. CASE Exit \/ Crash
  BY <1>13 DEF Exit, Crash, End
<1>14. CASE Boot
  BY <1>14 DEF Boot
<1>15. CASE Broker
  BY <1>15 DEF Broker, BrokerChange, BrokerWipe
<1>16. CASE UNCHANGED vars
  BY <1>16 DEF vars
<1> QED
  BY <1>1, <1>2, <1>3, <1>4, <1>5, <1>6, <1>7, <1>8, <1>9,
     <1>10, <1>11, <1>12, <1>13, <1>14, <1>15, <1>16
     DEF Next, Runner, Writer, Process

\* The engine's value stays the latest that is stored or on its way.
LEMMA RememberedStep ==
  ASSUME TypeOK, Control, [Next]_vars,
         NEW k \in Keys, Queued(k), WrittenIsStored(k), Remembered(k)
  PROVE  Remembered(k)'
<1> USE SynthStateAssumption DEF SynthStateAssumption
<1> USE DEF Queued, WrittenIsStored, Remembered, Latest, Usable, engine, shared, loop, callers,
           store, history, counts, memory, Nothing
<1> /\ DeviceOf[k] \in Devices
    /\ prev \in [Keys -> Stored] /\ pending \in [Keys -> Stored] /\ written \in [Keys -> Stored]
    /\ batch \in [Keys -> Stored] /\ bucket \in [Keys -> Stored \cup {Junk}]
    /\ said \in [Keys -> Stored]
  BY DEF TypeOK
<1>1. ASSUME NEW j \in Keys, NEW v \in Values, Apply(j, v) PROVE Remembered(k)'
  <2>1. CASE k # j
    <3>1. prev'[k] = prev[k] /\ pending'[k] = pending[k]
      BY <1>1, <2>1 DEF Apply, Record
    <3> QED
      BY <1>1, <3>1 DEF Apply
  <2>2. CASE k = j /\ AlreadyWritten(j, v)
    BY <1>1, <2>2 DEF Apply, Record, AlreadyWritten
  <2>3. CASE k = j /\ ~AlreadyWritten(j, v)
    BY <1>1, <2>3 DEF Apply, Record
  <2> QED
    BY <2>1, <2>2, <2>3
<1>2. ASSUME NEW d \in Devices, RecordPoke(d) PROVE Remembered(k)'
  BY <1>2 DEF RecordPoke
<1>3. CASE Flush
  BY <1>3 DEF Flush, FlushClose, FlushPoke, FlushExpire, FlushReturn
<1>4. CASE LoadOk
  BY <1>4 DEF Control, LoadOk, LoadNoting
<1>5. CASE LoadFail
  BY <1>5 DEF Control, LoadFail
<1>6. ASSUME NEW d \in Devices, SeedDevice(d) PROVE Remembered(k)'
  BY <1>6 DEF SeedDevice, Seed
<1>7. CASE Released \/ BackoffElapse \/ BackoffStopped
  BY <1>7 DEF Released, BackoffElapse, BackoffStopped
<1>8. CASE TakePending
  BY <1>8 DEF Control, TakePending
<1>9. CASE TakeNothing \/ CheckClosed \/ Woken \/ WaitStopped
  BY <1>9 DEF TakeNothing, CheckClosed, Woken, WaitStopped
<1>10. ASSUME NEW j \in Keys, PutOk(j) PROVE Remembered(k)'
  BY <1>10 DEF PutOk, Drop
<1>11. ASSUME NEW j \in Keys, PutFail(j) PROVE Remembered(k)'
  BY <1>11 DEF PutFail, Drop, Rollback, Requeue
<1>12. CASE WriteDone
  BY <1>12 DEF WriteDone
<1>13. CASE Exit \/ Crash
  BY <1>13 DEF Exit, Crash, End
<1>14. CASE Boot
  BY <1>14 DEF Boot
<1>15. CASE Broker
  BY <1>15 DEF Broker, BrokerChange, BrokerWipe
<1>16. CASE UNCHANGED vars
  BY <1>16 DEF vars
<1> QED
  BY <1>1, <1>2, <1>3, <1>4, <1>5, <1>6, <1>7, <1>8, <1>9,
     <1>10, <1>11, <1>12, <1>13, <1>14, <1>15, <1>16
     DEF Next, Runner, Writer, Process

\* The events keep agreeing with the engine.
LEMMA AgreementStep ==
  ASSUME TypeOK, Control, [Next]_vars,
         NEW k \in Keys, Queued(k), WrittenIsStored(k), Remembered(k), InAgreement(k)
  PROVE  InAgreement(k)'
<1> USE SynthStateAssumption DEF SynthStateAssumption
<1> USE DEF Queued, InAgreement, Agrees, engine, shared, loop, callers, store, history, counts,
           memory, Nothing
<1> /\ DeviceOf[k] \in Devices
    /\ prev \in [Keys -> Stored] /\ pending \in [Keys -> Stored] /\ written \in [Keys -> Stored]
    /\ batch \in [Keys -> Stored] /\ bucket \in [Keys -> Stored \cup {Junk}]
    /\ said \in [Keys -> Stored]
  BY DEF TypeOK
<1>1. ASSUME NEW j \in Keys, NEW v \in Values, Apply(j, v) PROVE InAgreement(k)'
  <2>1. CASE k # j
    <3>1. prev'[k] = prev[k] /\ said'[k] = said[k] /\ (k \in repeated' => k \in repeated)
      BY <1>1, <2>1 DEF Apply
    <3> QED
      BY <1>1, <3>1 DEF Apply
  <2>2. CASE k = j /\ Differs(k, prev[k], v)
    BY <1>1, <2>2 DEF Apply, Differs, Known
  <2>3. CASE k = j /\ ~Differs(k, prev[k], v)
    BY <1>1, <2>3 DEF Apply, Differs, Known
  <2> QED
    BY <2>1, <2>2, <2>3
<1>2. ASSUME NEW d \in Devices, RecordPoke(d) PROVE InAgreement(k)'
  BY <1>2 DEF RecordPoke
<1>3. CASE Flush
  BY <1>3 DEF Flush, FlushClose, FlushPoke, FlushExpire, FlushReturn
<1>4. CASE LoadOk
  BY <1>4 DEF LoadOk, LoadNoting
<1>5. CASE LoadFail
  BY <1>5 DEF LoadFail
<1>6. ASSUME NEW d \in Devices, SeedDevice(d) PROVE InAgreement(k)'
  <2>1. CASE DeviceOf[k] = d /\ k \notin forgotten
    <3>1. exists /\ pending[k] = NoValue /\ batch[k] = NoValue
      BY <1>6, <2>1 DEF Control, SeedDevice
    <3>2. prev'[k] = Usable(bucket[k])
      BY <1>6, <2>1, <3>1 DEF SeedDevice, Seed, WrittenIsStored
    <3> QED
      BY <1>6, <2>1, <3>2 DEF SeedDevice
  <2>2. CASE DeviceOf[k] # d
    BY <1>6, <2>2 DEF SeedDevice, Seed
  <2> QED
    BY <1>6, <2>1, <2>2 DEF SeedDevice
<1>7. CASE Released \/ BackoffElapse \/ BackoffStopped
  BY <1>7 DEF Released, BackoffElapse, BackoffStopped
<1>8. CASE TakePending
  BY <1>8 DEF TakePending, Mark
<1>9. CASE TakeNothing \/ CheckClosed \/ Woken \/ WaitStopped
  BY <1>9 DEF TakeNothing, CheckClosed, Woken, WaitStopped
<1>10. ASSUME NEW j \in Keys, PutOk(j) PROVE InAgreement(k)'
  BY <1>10 DEF PutOk, Drop
<1>11. ASSUME NEW j \in Keys, PutFail(j) PROVE InAgreement(k)'
  BY <1>11 DEF PutFail, Drop, Rollback, Requeue
<1>12. CASE WriteDone
  BY <1>12 DEF WriteDone
<1>13. CASE Exit \/ Crash
  <2>1. CASE DeviceOf[k] \in seeded /\ k \notin forgotten'
    <3>1. k \notin forgotten /\ k \notin Volatile /\ exists
      BY <1>13, <2>1 DEF Control, Exit, Crash, End
    <3>2. pending[k] = NoValue /\ batch[k] = NoValue
      BY <1>13, <2>1 DEF Exit, Crash, End, Unsaved
    <3>3. prev[k] = Usable(bucket[k])
      BY <2>1, <3>1, <3>2 DEF Remembered, Latest
    <3> QED
      BY <1>13, <2>1, <3>1, <3>3 DEF Exit, Crash, End
  <2>2. CASE DeviceOf[k] \notin seeded
    BY <1>13, <2>2 DEF Exit, Crash, End
  <2> QED
    BY <1>13, <2>1, <2>2 DEF Exit, Crash, End
<1>14. CASE Boot
  BY <1>14 DEF Boot
<1>15. CASE Broker
  BY <1>15 DEF Broker, BrokerChange, BrokerWipe
<1>16. CASE UNCHANGED vars
  BY <1>16 DEF vars
<1> QED
  BY <1>1, <1>2, <1>3, <1>4, <1>5, <1>6, <1>7, <1>8, <1>9,
     <1>10, <1>11, <1>12, <1>13, <1>14, <1>15, <1>16
     DEF Next, Runner, Writer, Process

-----------------------------------------------------------------------------
\* Every step keeps the invariant.
LEMMA InvStep == Inv /\ [Next]_vars => Inv'
<1> SUFFICES ASSUME Inv, [Next]_vars PROVE Inv'
  OBVIOUS
<1>1. TypeOK' /\ Control' /\ Wakeup'
  BY TypeStep, ControlStep, WakeupStep DEF Inv
<1>2. ASSUME NEW k \in Keys
      PROVE  (Queued(k) /\ WrittenIsStored(k) /\ Remembered(k) /\ InAgreement(k))'
  BY QueuedStep, StoredStep, RememberedStep, AgreementStep DEF Inv
<1> QED
  BY <1>1, <1>2 DEF Inv

\* The invariant of SynthState, from which the theorems below follow.
THEOREM Invariance == Spec => []Inv
BY InvInit, InvStep, PTL DEF Spec

\* No variable leaves its type; in particular an undecodable entry is never
\* remembered nor taken for written.
THEOREM TypeCorrect == Spec => []TypeOK
<1>1. Inv => TypeOK
  BY DEF Inv
<1> QED
  BY <1>1, Invariance, PTL

\* What the engine remembers is in the bucket or on its way there.
THEOREM ChangesWrittenThrough == Spec => []WrittenThrough
<1>1. Inv => WrittenThrough
  BY DEF Inv, Remembered, WrittenThrough
<1> QED
  BY <1>1, Invariance, PTL

\* The writer never sleeps with something to write or a Flush to notice.
THEOREM WakeupNeverLost == Spec => []NoLostWakeup
<1>1. Inv => NoLostWakeup
  BY DEF Inv, Wakeup, NoLostWakeup
<1> QED
  BY <1>1, Invariance, PTL

\* A Flush with nothing to warn of has saved what the engine remembered.
THEOREM SilentFlushSaves == Spec => []SilentFlushSaved
<1>1. Inv => SilentFlushSaved
  <2> SUFFICES ASSUME Inv, flush = "returned", pending = Nothing, exists,
                      NEW k \in Keys \ Volatile, DeviceOf[k] \in seeded
               PROVE  Usable(bucket[k]) = prev[k]
    BY DEF SilentFlushSaved
  <2>1. batch = Nothing
    BY DEF Inv, Control
  <2>2. Latest(k) = bucket[k]
    BY <2>1 DEF Latest, Nothing
  <2> QED
    BY <2>2 DEF Inv, Remembered
<1> QED
  BY <1>1, Invariance, PTL

\* Across restarts and crashes the events agree with what the engine goes by.
THEOREM EventsAlwaysAgree == Spec => []EventsAgree
<1>1. Inv => EventsAgree
  BY DEF Inv, TypeOK, InAgreement, EventsAgree
<1> QED
  BY <1>1, Invariance, PTL

\* A poll queues a write only of a value that is not stored or on its way.
LEMMA QueuesOnlyChanges ==
  ASSUME Inv, [Next]_vars, NEW k \in Keys, exists,
         pending[k] = NoValue, pending'[k] # NoValue, batch' = batch
  PROVE  pending'[k] # Latest(k)
<1> USE DEF engine, shared, loop, callers, store, history, counts, memory
<1> TypeOK /\ Control /\ Queued(k) /\ WrittenIsStored(k)
  BY DEF Inv
<1>1. PICK j \in Keys, v \in Values : Apply(j, v)
  <2>1. pending' # pending
    OBVIOUS
  <2>2. ~ \E j \in Keys : PutFail(j)
    BY DEF PutFail, Drop, TypeOK
  <2>3. pending' # Nothing
    BY DEF Nothing
  <2> QED
    BY <2>1, <2>2, <2>3 DEF Next, Runner, Writer, Flush, Process, Broker, vars, RecordPoke,
       LoadOk, LoadFail, SeedDevice, Released, BackoffElapse, BackoffStopped, TakePending,
       TakeNothing, CheckClosed, Woken, WaitStopped, PutOk, WriteDone, FlushClose, FlushPoke,
       FlushExpire, FlushReturn, Exit, Crash, End, Boot, BrokerChange, BrokerWipe
<1>2. j = k /\ pending'[k] = v /\ ~AlreadyWritten(k, v)
  BY <1>1 DEF Apply, Record, TypeOK
<1>3. written[k] # v /\ v # Junk /\ DeviceOf[k] \in seeded
  BY <1>1, <1>2, SynthStateAssumption DEF AlreadyWritten, Apply, SynthStateAssumption
<1> QED
  BY <1>2, <1>3 DEF Queued, WrittenIsStored, Latest, Usable

\* Writes track changes: what a poll queues is news to the bucket.
THEOREM OnlyChangesWritten == Spec => WritesTrackChanges
<1>1. Inv /\ [Next]_vars =>
        [\A k \in Keys :
           exists /\ pending[k] = NoValue /\ pending'[k] # NoValue /\ batch' = batch =>
             pending'[k] # Latest(k)]_vars
  BY QueuesOnlyChanges
<1> QED
  BY <1>1, Invariance, PTL DEF Spec, WritesTrackChanges
=============================================================================
