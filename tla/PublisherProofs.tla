--------------------------- MODULE PublisherProofs ---------------------------
(***************************************************************************)
(* Theorems about Publisher, for every number of producers, every          *)
(* capacity and every number of events.                                    *)
(***************************************************************************)
EXTENDS Publisher, TLAPS

\* Where the drainer and the caller of Drain can be, given the rest.
Control ==
  /\ drainer = "publish" <=> inflight # None /\ provisioned
  /\ drainer \in {"next", "wait", "done"} => inflight = None
  /\ drainer \in {"next", "wait"} => provisioned
  /\ drainer \in {"top", "provision", "sleep"} => ~provisioned
  /\ closed <=> drainCall # "idle"
  /\ stopped <=> drainCall \in {"stopping", "returned"}
  /\ drainCall = "returned" => drainer = "done" /\ queue = << >>
  /\ drainer = "done" => closed
  /\ drainer # "done" => droppedAtShutdown = 0

\* No event is newer than the last one accepted.
NoneFromTheFuture ==
  /\ \A j \in 1..Len(queue) : queue[j] <= accepted
  /\ inflight <= accepted
  /\ \A i \in 1..Len(stored) : stored[i] <= accepted

Inv ==
  TypeOK /\ Control /\ NoneFromTheFuture /\ Accounted /\ InOrder
  /\ NoLostWakeup /\ NothingGivenUpEarly

-----------------------------------------------------------------------------
\* What the queue operations do to a sequence of events.
LEMMA AppendEvents ==
  ASSUME NEW s \in Seq(Events), NEW e \in Events
  PROVE  /\ Append(s, e) \in Seq(Events)
         /\ Len(Append(s, e)) = Len(s) + 1
         /\ \A i \in 1..Len(s) : Append(s, e)[i] = s[i]
         /\ Append(s, e)[Len(s) + 1] = e
  OBVIOUS

\* The tail of a queue of events is one, in the same order.
LEMMA TailEvents ==
  ASSUME NEW s \in Seq(Events), s # << >>
  PROVE  /\ Head(s) \in Events /\ Head(s) = s[1]
         /\ Tail(s) \in Seq(Events)
         /\ Len(s) \in Nat \ {0}
         /\ Len(Tail(s)) = Len(s) - 1
         /\ \A i \in 1..Len(Tail(s)) : Tail(s)[i] = s[i + 1]
  OBVIOUS

-----------------------------------------------------------------------------
\* There is room for an arriving event.
LEMMA EnqueueRoom ==
  ASSUME TypeOK, accepted < MaxEvents
  PROVE  /\ Room \in Seq(Events)
         /\ Len(Room) < Capacity
         /\ Len(Room) = IF Full THEN Len(queue) - 1 ELSE Len(queue)
         /\ accepted + 1 \in Events
         /\ Append(Room, accepted + 1) \in Seq(Events)
         /\ Len(Append(Room, accepted + 1)) = Len(Room) + 1
<1> USE PublisherAssumption DEF PublisherAssumption, TypeOK
<1>1. accepted + 1 \in Events
  BY DEF Events
<1>2. CASE Full
  <2>1. queue # << >>
    BY <1>2 DEF Full
  <2> QED
    BY <1>1, <1>2, <2>1, TailEvents, AppendEvents DEF Full, Room
<1>3. CASE ~Full
  BY <1>1, <1>3, AppendEvents DEF Full, Room
<1> QED BY <1>2, <1>3

\* The streams only ever grow by the event in flight.
LEMMA StoreTyped ==
  ASSUME TypeOK, inflight # None, Store(inflight)
  PROVE  stored' \in Seq(Events) /\ recent' \subseteq Events
<1>1. inflight \in Events
  BY DEF TypeOK
<1>2. Append(stored, inflight) \in Seq(Events)
  BY <1>1, AppendEvents DEF TypeOK
<1> QED BY <1>1, <1>2 DEF Store, TypeOK

\* Every step keeps the types and the control state.
LEMMA TypeControlStep ==
  ASSUME TypeOK, Control, [Next]_vars
  PROVE  TypeOK' /\ Control'
<1> USE PublisherAssumption DEF PublisherAssumption, TypeOK, Control, None
<1> USE DEF shared, callers, counters, jetstream, loop, Poke, Done, Deferred,
        NothingToDo, Interrupted, Duplicate, Retry, Reprovision
<1>1. ASSUME NEW p \in Producers, Enqueue(p) PROVE TypeOK' /\ Control'
  <2>1. accepted < MaxEvents /\ queue' = Append(Room, accepted + 1)
    BY <1>1 DEF Enqueue
  <2>2. queue' \in Seq(Events) /\ Len(queue') <= Capacity /\ accepted + 1 \in 0..MaxEvents
    <3>1. Len(Room) < Capacity /\ Len(Append(Room, accepted + 1)) = Len(Room) + 1
          /\ Append(Room, accepted + 1) \in Seq(Events) /\ Room \in Seq(Events)
      BY <2>1, EnqueueRoom
    <3> QED BY <2>1, <3>1
  <2>3. UNCHANGED <<closed, wake, stopped, drainCall, loop, published, unpublishable,
                    droppedAtShutdown, broker, jetstream>>
    BY <1>1 DEF Enqueue
  <2>4. accepted' \in 0..MaxEvents /\ droppedFull' \in Nat
        /\ producer' \in [Producers -> {"idle", "signal"}]
    BY <1>1, <2>2 DEF Enqueue
  <2>5. drainCall # "returned"
    BY <1>1 DEF Enqueue
  <2> QED BY <2>2, <2>3, <2>4, <2>5
<1>2. ASSUME NEW p \in Producers, Signal(p) PROVE TypeOK' /\ Control'
  BY <1>2 DEF Signal
<1>3. ASSUME DrainClose PROVE TypeOK' /\ Control'
  BY <1>3 DEF DrainClose
<1>4. ASSUME DrainPoke PROVE TypeOK' /\ Control'
  BY <1>4 DEF DrainPoke
<1>5. ASSUME DrainExpire PROVE TypeOK' /\ Control'
  BY <1>5 DEF DrainExpire
<1>6. ASSUME DrainCollect PROVE TypeOK' /\ Control'
  BY <1>6 DEF DrainCollect
<1>7. ASSUME ExitDrained PROVE TypeOK' /\ Control'
  BY <1>7 DEF ExitDrained, Exit
<1>8. ASSUME BeginProvision PROVE TypeOK' /\ Control'
  BY <1>8 DEF BeginProvision
<1>9. ASSUME ProvisionOk PROVE TypeOK' /\ Control'
  BY <1>9 DEF ProvisionOk, AfterProvision
<1>10. ASSUME ProvisionFail PROVE TypeOK' /\ Control'
  <2>1. streams' \subseteq Bindings
    BY <1>10 DEF ProvisionFail
  <2> QED BY <1>10, <2>1 DEF ProvisionFail
<1>11. ASSUME SleepElapse PROVE TypeOK' /\ Control'
  BY <1>11 DEF SleepElapse, AfterProvision, Lesser
<1>12. ASSUME SleepStopped PROVE TypeOK' /\ Control'
  BY <1>12 DEF SleepStopped, Exit
<1>13. ASSUME Take PROVE TypeOK' /\ Control'
  <2>1. queue # << >> /\ inflight' = Head(queue) /\ queue' = Tail(queue)
    BY <1>13 DEF Take
  <2>2. Head(queue) \in Events /\ Tail(queue) \in Seq(Events) /\ Len(Tail(queue)) <= Capacity
    BY <2>1, TailEvents
  <2>3. inflight' # 0 /\ inflight' \in Events
    BY <2>1, <2>2 DEF Events
  <2>4. drainCall # "returned"
    BY <1>13 DEF Take
  <2> QED BY <1>13, <2>1, <2>2, <2>3, <2>4 DEF Take
<1>14. ASSUME NextDrained PROVE TypeOK' /\ Control'
  BY <1>14 DEF NextDrained, Exit
<1>15. ASSUME NextWait PROVE TypeOK' /\ Control'
  BY <1>15 DEF NextWait
<1>16. ASSUME Woken PROVE TypeOK' /\ Control'
  BY <1>16 DEF Woken
<1>17. ASSUME WaitStopped PROVE TypeOK' /\ Control'
  BY <1>17 DEF WaitStopped, Exit
<1>18. ASSUME PublishOk PROVE TypeOK' /\ Control'
  <2>1. inflight # None /\ Store(inflight)
    BY <1>18 DEF PublishOk
  <2>2. stored' \in Seq(Events) /\ recent' \subseteq Events
    BY <2>1, StoreTyped
  <2> QED BY <1>18, <2>2 DEF PublishOk
<1>19. ASSUME PublishPermanent PROVE TypeOK' /\ Control'
  BY <1>19 DEF PublishPermanent
<1>20. ASSUME PublishFail PROVE TypeOK' /\ Control'
  <2>1. inflight # None
    BY <1>20 DEF PublishFail
  <2>2. stored' \in Seq(Events) /\ recent' \subseteq Events
    BY <1>20, <2>1, StoreTyped DEF PublishFail
  <2> QED BY <1>20, <2>2 DEF PublishFail
<1>21. ASSUME BrokerChange PROVE TypeOK' /\ Control'
  BY <1>21 DEF BrokerChange
<1>22. ASSUME BrokerWipe PROVE TypeOK' /\ Control'
  BY <1>22 DEF BrokerWipe
<1>23. ASSUME NEW e \in Events, WindowLapse(e) PROVE TypeOK' /\ Control'
  BY <1>23 DEF WindowLapse
<1>24. CASE UNCHANGED vars
  BY <1>24 DEF vars
<1> QED
  BY <1>1, <1>2, <1>3, <1>4, <1>5, <1>6, <1>7, <1>8, <1>9, <1>10, <1>11, <1>12, <1>13, <1>14, <1>15, <1>16, <1>17, <1>18, <1>19, <1>20, <1>21, <1>22, <1>23, <1>24 DEF Next, DrainCaller, Drainer, Broker

\* No step loses an accepted event uncounted or counts it twice.
LEMMA AccountedStep ==
  ASSUME TypeOK, Control, Accounted, [Next]_vars
  PROVE  Accounted'
<1> USE DEF TypeOK, Control, Accounted, InFlight, None
<1> USE DEF shared, callers, counters, jetstream, loop, Poke, Done, Deferred,
        NothingToDo, Interrupted, Duplicate, Retry, Reprovision
<1>1. ASSUME NEW p \in Producers, Enqueue(p) PROVE Accounted'
  <2>1. accepted < MaxEvents /\ queue' = Append(Room, accepted + 1)
    BY <1>1 DEF Enqueue
  <2>2. Len(queue') = (IF Full THEN Len(queue) - 1 ELSE Len(queue)) + 1
    BY <2>1, EnqueueRoom
  <2>3. droppedFull' = IF Full THEN droppedFull + 1 ELSE droppedFull
    BY <1>1 DEF Enqueue
  <2>4. UNCHANGED <<published, unpublishable, droppedAtShutdown, inflight>>
    BY <1>1 DEF Enqueue
  <2>5. Len(queue) \in Nat /\ accepted' = accepted + 1
    BY <1>1 DEF Enqueue
  <2>6. CASE Full
    BY <2>2, <2>3, <2>4, <2>5, <2>6
  <2>7. CASE ~Full
    BY <2>2, <2>3, <2>4, <2>5, <2>7
  <2> QED BY <2>6, <2>7
<1>2. ASSUME NEW p \in Producers, Signal(p) PROVE Accounted'
  BY <1>2 DEF Signal
<1>3. ASSUME DrainClose PROVE Accounted'
  BY <1>3 DEF DrainClose
<1>4. ASSUME DrainPoke PROVE Accounted'
  BY <1>4 DEF DrainPoke
<1>5. ASSUME DrainExpire PROVE Accounted'
  BY <1>5 DEF DrainExpire
<1>6. ASSUME DrainCollect PROVE Accounted'
  BY <1>6 DEF DrainCollect
<1>7. ASSUME ExitDrained PROVE Accounted'
  BY <1>7 DEF ExitDrained, Exit
<1>8. ASSUME BeginProvision PROVE Accounted'
  BY <1>8 DEF BeginProvision
<1>9. ASSUME ProvisionOk PROVE Accounted'
  BY <1>9 DEF ProvisionOk, AfterProvision
<1>10. ASSUME ProvisionFail PROVE Accounted'
  BY <1>10 DEF ProvisionFail
<1>11. ASSUME SleepElapse PROVE Accounted'
  BY <1>11 DEF SleepElapse, AfterProvision, Lesser
<1>12. ASSUME SleepStopped PROVE Accounted'
  BY <1>12 DEF SleepStopped, Exit
<1>13. ASSUME Take PROVE Accounted'
  <2>1. queue # << >> /\ inflight = 0 /\ inflight' = Head(queue) /\ queue' = Tail(queue)
    BY <1>13 DEF Take
  <2>2. Head(queue) \in Events /\ Len(Tail(queue)) = Len(queue) - 1 /\ Len(queue) \in Nat
    BY <2>1, TailEvents
  <2>3. inflight' # 0
    BY <2>1, <2>2 DEF Events
  <2>4. UNCHANGED <<accepted, published, droppedFull, unpublishable, droppedAtShutdown>>
    BY <1>13 DEF Take
  <2> QED BY <2>1, <2>2, <2>3, <2>4
<1>14. ASSUME NextDrained PROVE Accounted'
  BY <1>14 DEF NextDrained, Exit
<1>15. ASSUME NextWait PROVE Accounted'
  BY <1>15 DEF NextWait
<1>16. ASSUME Woken PROVE Accounted'
  BY <1>16 DEF Woken
<1>17. ASSUME WaitStopped PROVE Accounted'
  BY <1>17 DEF WaitStopped, Exit
<1>18. ASSUME PublishOk PROVE Accounted'
  BY <1>18 DEF PublishOk, Storable, Store
<1>19. ASSUME PublishPermanent PROVE Accounted'
  BY <1>19 DEF PublishPermanent
<1>20. ASSUME PublishFail PROVE Accounted'
  BY <1>20 DEF PublishFail, Storable, Store
<1>21. ASSUME BrokerChange PROVE Accounted'
  BY <1>21 DEF BrokerChange
<1>22. ASSUME BrokerWipe PROVE Accounted'
  BY <1>22 DEF BrokerWipe
<1>23. ASSUME NEW e \in Events, WindowLapse(e) PROVE Accounted'
  BY <1>23 DEF WindowLapse
<1>24. CASE UNCHANGED vars
  BY <1>24 DEF vars
<1> QED
  BY <1>1, <1>2, <1>3, <1>4, <1>5, <1>6, <1>7, <1>8, <1>9, <1>10, <1>11, <1>12, <1>13, <1>14, <1>15, <1>16, <1>17, <1>18, <1>19, <1>20, <1>21, <1>22, <1>23, <1>24 DEF Next, DrainCaller, Drainer, Broker

\* A sleeping drainer that has something to do has been, or will be, woken.
LEMMA WakeupStep ==
  ASSUME TypeOK, Control, NoLostWakeup, [Next]_vars
  PROVE  NoLostWakeup'
<1> USE DEF TypeOK, Control, NoLostWakeup
<1> USE DEF shared, callers, counters, jetstream, loop, Poke, Done, Deferred,
        NothingToDo, Interrupted, Duplicate, Retry, Reprovision
<1>1. ASSUME NEW p \in Producers, Enqueue(p) PROVE NoLostWakeup'
  BY <1>1 DEF Enqueue, Full
<1>2. ASSUME NEW p \in Producers, Signal(p) PROVE NoLostWakeup'
  BY <1>2 DEF Signal
<1>3. ASSUME DrainClose PROVE NoLostWakeup'
  BY <1>3 DEF DrainClose
<1>4. ASSUME DrainPoke PROVE NoLostWakeup'
  BY <1>4 DEF DrainPoke
<1>5. ASSUME DrainExpire PROVE NoLostWakeup'
  BY <1>5 DEF DrainExpire
<1>6. ASSUME DrainCollect PROVE NoLostWakeup'
  BY <1>6 DEF DrainCollect
<1>7. ASSUME ExitDrained PROVE NoLostWakeup'
  BY <1>7 DEF ExitDrained, Exit
<1>8. ASSUME BeginProvision PROVE NoLostWakeup'
  BY <1>8 DEF BeginProvision
<1>9. ASSUME ProvisionOk PROVE NoLostWakeup'
  BY <1>9 DEF ProvisionOk, AfterProvision
<1>10. ASSUME ProvisionFail PROVE NoLostWakeup'
  BY <1>10 DEF ProvisionFail
<1>11. ASSUME SleepElapse PROVE NoLostWakeup'
  BY <1>11 DEF SleepElapse, AfterProvision, Lesser
<1>12. ASSUME SleepStopped PROVE NoLostWakeup'
  BY <1>12 DEF SleepStopped, Exit
<1>13. ASSUME Take PROVE NoLostWakeup'
  BY <1>13 DEF Take
<1>14. ASSUME NextDrained PROVE NoLostWakeup'
  BY <1>14 DEF NextDrained, Exit
<1>15. ASSUME NextWait PROVE NoLostWakeup'
  BY <1>15 DEF NextWait
<1>16. ASSUME Woken PROVE NoLostWakeup'
  BY <1>16 DEF Woken
<1>17. ASSUME WaitStopped PROVE NoLostWakeup'
  BY <1>17 DEF WaitStopped, Exit
<1>18. ASSUME PublishOk PROVE NoLostWakeup'
  BY <1>18 DEF PublishOk, Storable, Store
<1>19. ASSUME PublishPermanent PROVE NoLostWakeup'
  BY <1>19 DEF PublishPermanent
<1>20. ASSUME PublishFail PROVE NoLostWakeup'
  BY <1>20 DEF PublishFail, Storable, Store
<1>21. ASSUME BrokerChange PROVE NoLostWakeup'
  BY <1>21 DEF BrokerChange
<1>22. ASSUME BrokerWipe PROVE NoLostWakeup'
  BY <1>22 DEF BrokerWipe
<1>23. ASSUME NEW e \in Events, WindowLapse(e) PROVE NoLostWakeup'
  BY <1>23 DEF WindowLapse
<1>24. CASE UNCHANGED vars
  BY <1>24 DEF vars
<1> QED
  BY <1>1, <1>2, <1>3, <1>4, <1>5, <1>6, <1>7, <1>8, <1>9, <1>10, <1>11, <1>12, <1>13, <1>14, <1>15, <1>16, <1>17, <1>18, <1>19, <1>20, <1>21, <1>22, <1>23, <1>24 DEF Next, DrainCaller, Drainer, Broker

\* The drainer leaves early only when there is nothing left to do.
LEMMA GivenUpStep ==
  ASSUME TypeOK, Control, Accounted, NothingGivenUpEarly, [Next]_vars
  PROVE  NothingGivenUpEarly'
<1> USE DEF TypeOK, Control, NothingGivenUpEarly
<1> USE DEF shared, callers, counters, jetstream, loop, Poke, Done, Deferred,
        NothingToDo, Interrupted, Duplicate, Retry, Reprovision
<1>1. ASSUME NEW p \in Producers, Enqueue(p) PROVE NothingGivenUpEarly'
  BY <1>1 DEF Enqueue, Full
<1>2. ASSUME NEW p \in Producers, Signal(p) PROVE NothingGivenUpEarly'
  BY <1>2 DEF Signal
<1>3. ASSUME DrainClose PROVE NothingGivenUpEarly'
  BY <1>3 DEF DrainClose
<1>4. ASSUME DrainPoke PROVE NothingGivenUpEarly'
  BY <1>4 DEF DrainPoke
<1>5. ASSUME DrainExpire PROVE NothingGivenUpEarly'
  BY <1>5 DEF DrainExpire
<1>6. ASSUME DrainCollect PROVE NothingGivenUpEarly'
  BY <1>6 DEF DrainCollect
<1>7. ASSUME ExitDrained PROVE NothingGivenUpEarly'
  BY <1>7 DEF ExitDrained, Exit
<1>8. ASSUME BeginProvision PROVE NothingGivenUpEarly'
  BY <1>8 DEF BeginProvision
<1>9. ASSUME ProvisionOk PROVE NothingGivenUpEarly'
  BY <1>9 DEF ProvisionOk, AfterProvision
<1>10. ASSUME ProvisionFail PROVE NothingGivenUpEarly'
  BY <1>10 DEF ProvisionFail
<1>11. ASSUME SleepElapse PROVE NothingGivenUpEarly'
  BY <1>11 DEF SleepElapse, AfterProvision, Lesser
<1>12. ASSUME SleepStopped PROVE NothingGivenUpEarly'
  BY <1>12 DEF SleepStopped, Exit
<1>13. ASSUME Take PROVE NothingGivenUpEarly'
  BY <1>13 DEF Take
<1>14. ASSUME NextDrained PROVE NothingGivenUpEarly'
  BY <1>14 DEF NextDrained, Exit
<1>15. ASSUME NextWait PROVE NothingGivenUpEarly'
  BY <1>15 DEF NextWait
<1>16. ASSUME Woken PROVE NothingGivenUpEarly'
  BY <1>16 DEF Woken
<1>17. ASSUME WaitStopped PROVE NothingGivenUpEarly'
  BY <1>17 DEF WaitStopped, Exit
<1>18. ASSUME PublishOk PROVE NothingGivenUpEarly'
  BY <1>18 DEF PublishOk, Storable, Store
<1>19. ASSUME PublishPermanent PROVE NothingGivenUpEarly'
  BY <1>19 DEF PublishPermanent
<1>20. ASSUME PublishFail PROVE NothingGivenUpEarly'
  BY <1>20 DEF PublishFail, Storable, Store
<1>21. ASSUME BrokerChange PROVE NothingGivenUpEarly'
  BY <1>21 DEF BrokerChange
<1>22. ASSUME BrokerWipe PROVE NothingGivenUpEarly'
  BY <1>22 DEF BrokerWipe
<1>23. ASSUME NEW e \in Events, WindowLapse(e) PROVE NothingGivenUpEarly'
  BY <1>23 DEF WindowLapse
<1>24. CASE UNCHANGED vars
  BY <1>24 DEF vars
<1> QED
  BY <1>1, <1>2, <1>3, <1>4, <1>5, <1>6, <1>7, <1>8, <1>9, <1>10, <1>11, <1>12, <1>13, <1>14, <1>15, <1>16, <1>17, <1>18, <1>19, <1>20, <1>21, <1>22, <1>23, <1>24 DEF Next, DrainCaller, Drainer, Broker

\* Events are numbers.
LEMMA EventsAreNumbers ==
  ASSUME NEW s \in Seq(Events)
  PROVE  \A i \in 1..Len(s) : s[i] \in Nat
<1>1. \A i \in 1..Len(s) : s[i] \in Events
  OBVIOUS
<1> QED BY <1>1 DEF Events

\* Queued, stored and held events are numbers, so that order is arithmetic.
LEMMA Numbers ==
  ASSUME TypeOK
  PROVE  /\ accepted \in Nat /\ inflight \in Nat
         /\ Len(queue) \in Nat /\ Len(stored) \in Nat
         /\ \A j \in 1..Len(queue) : queue[j] \in Nat /\ 0 < queue[j]
         /\ \A i \in 1..Len(stored) : stored[i] \in Nat
<1>1. MaxEvents \in Nat
  BY PublisherAssumption DEF PublisherAssumption
<1>2. \A j \in 1..Len(queue) : queue[j] \in Events
  BY DEF TypeOK
<1>3. \A i \in 1..Len(stored) : stored[i] \in Events
  BY DEF TypeOK
<1> QED BY <1>1, <1>2, <1>3 DEF TypeOK, Events, None

\* What a full queue keeps is the tail of it.
LEMMA RoomEvents ==
  ASSUME TypeOK, accepted < MaxEvents
  PROVE  /\ Len(Room) \in Nat
         /\ \A j \in 1..Len(Room) :
              Room[j] = queue[IF Full THEN j + 1 ELSE j]
              /\ (IF Full THEN j + 1 ELSE j) \in 1..Len(queue)
<1>1. CASE Full
  <2>1. queue # << >>
    BY <1>1, PublisherAssumption DEF Full, TypeOK, PublisherAssumption
  <2>2. Room = Tail(queue) /\ Len(Room) = Len(queue) - 1 /\ Len(queue) \in Nat \ {0}
    BY <1>1, <2>1, TailEvents DEF TypeOK, Room
  <2>3. \A j \in 1..Len(Room) : Room[j] = queue[j + 1]
    BY <2>1, <2>2, TailEvents DEF TypeOK
  <2> QED BY <1>1, <2>2, <2>3
<1>2. CASE ~Full
  BY <1>2 DEF TypeOK, Room
<1> QED BY <1>1, <1>2

\* Storing the event in flight keeps the streams in order and behind the queue.
LEMMA StoreInOrder ==
  ASSUME TypeOK, inflight # None, NoneFromTheFuture, InOrder, Store(inflight)
  PROVE  /\ \A i, j \in 1..Len(stored') : i <= j => stored'[i] <= stored'[j]
         /\ \A i \in 1..Len(stored') : stored'[i] <= inflight
<1> USE DEF TypeOK, InOrder, NoneFromTheFuture, None, Events
<1>1. inflight \in Events
  OBVIOUS
<1>2. CASE inflight \in recent
  BY <1>2 DEF Store, Duplicate
<1>3. CASE inflight \notin recent
  <2>1. stored' = Append(stored, inflight)
    BY <1>3 DEF Store, Duplicate
  <2>2. /\ Len(stored') = Len(stored) + 1 /\ Len(stored) \in Nat
        /\ \A i \in 1..Len(stored) : stored'[i] = stored[i]
        /\ stored'[Len(stored) + 1] = inflight
    BY <1>1, <2>1, AppendEvents
  <2>3. \A i \in 1..Len(stored) : stored[i] <= inflight /\ stored[i] \in Nat
    BY Numbers
  <2>4. \A i \in 1..Len(stored') : stored'[i] <= inflight
    BY <1>1, <2>2, <2>3
  <2>5. ASSUME NEW i \in 1..Len(stored'), NEW j \in 1..Len(stored'), i <= j
        PROVE  stored'[i] <= stored'[j]
    <3>1. CASE j = Len(stored) + 1
      BY <2>2, <2>4, <3>1
    <3>2. CASE j # Len(stored) + 1
      <4>1. i \in 1..Len(stored) /\ j \in 1..Len(stored)
        BY <2>2, <2>5, <3>2
      <4> QED BY <2>2, <2>5, <4>1
    <3> QED BY <3>1, <3>2
  <2> QED BY <2>4, <2>5
<1> QED BY <1>2, <1>3

\* Every step keeps the events in the order of their acceptance.
LEMMA OrderStep ==
  ASSUME TypeOK, Control, NoneFromTheFuture, InOrder, [Next]_vars
  PROVE  NoneFromTheFuture' /\ InOrder'
<1> USE DEF TypeOK, Control, NoneFromTheFuture, InOrder, None
<1> USE DEF shared, callers, counters, jetstream, loop, Poke, Done, Deferred,
        NothingToDo, Interrupted, Duplicate, Retry, Reprovision
<1>1. ASSUME NEW p \in Producers, Enqueue(p) PROVE NoneFromTheFuture' /\ InOrder'
  <2>1. accepted < MaxEvents /\ queue' = Append(Room, accepted + 1)
    BY <1>1 DEF Enqueue
  <2>2. accepted' = accepted + 1 /\ UNCHANGED <<inflight, stored>>
    BY <1>1 DEF Enqueue
  <2>4. /\ Room \in Seq(Events) /\ accepted + 1 \in Events
        /\ Len(Room) \in Nat
        /\ \A j \in 1..Len(Room) :
             Room[j] = queue[IF Full THEN j + 1 ELSE j]
             /\ (IF Full THEN j + 1 ELSE j) \in 1..Len(queue)
    BY <2>1, EnqueueRoom, RoomEvents
  <2>5. /\ Len(queue') = Len(Room) + 1
        /\ \A j \in 1..Len(Room) : queue'[j] = Room[j]
        /\ queue'[Len(Room) + 1] = accepted + 1
    BY <2>1, <2>4, AppendEvents
  <2>6. \A j \in 1..Len(queue) : queue[j] \in Nat
    BY Numbers
  <2>7. \A j \in 1..Len(Room) :
          /\ Room[j] <= accepted /\ Room[j] \in Nat /\ inflight < Room[j]
          /\ \A i \in 1..Len(stored) : stored[i] < Room[j]
    BY <2>4, <2>6
  <2>8. ASSUME NEW i \in 1..Len(Room), NEW j \in 1..Len(Room), i < j
        PROVE  Room[i] < Room[j]
    <3>1. CASE Full
      BY <2>4, <2>8, <3>1
    <3>2. CASE ~Full
      BY <2>4, <2>8, <3>2
    <3> QED BY <3>1, <3>2
  <2>9. inflight \in Nat /\ accepted \in Nat /\ \A i \in 1..Len(stored) : stored[i] \in Nat
    BY Numbers
  <2>10. \A j \in 1..Len(queue') : j \in 1..Len(Room) \/ j = Len(Room) + 1
    BY <2>4, <2>5
  <2>11. NoneFromTheFuture'
    BY <2>2, <2>4, <2>5, <2>7, <2>9, <2>10
  <2>12. ASSUME NEW i \in 1..Len(queue'), NEW j \in 1..Len(queue'), i < j
         PROVE  queue'[i] < queue'[j]
    <3>1. i \in 1..Len(Room)
      BY <2>4, <2>5, <2>12
    <3>2. CASE j \in 1..Len(Room)
      BY <2>5, <2>8, <2>12, <3>1, <3>2
    <3>3. CASE j = Len(Room) + 1
      BY <2>5, <2>7, <2>9, <3>1, <3>3
    <3> QED BY <2>10, <3>2, <3>3
  <2>13. \A j \in 1..Len(queue') :
           inflight < queue'[j] /\ \A i \in 1..Len(stored) : stored[i] < queue'[j]
    <3> SUFFICES ASSUME NEW j \in 1..Len(queue')
                 PROVE  /\ inflight < queue'[j]
                        /\ \A i \in 1..Len(stored) : stored[i] < queue'[j]
      OBVIOUS
    <3>1. CASE j \in 1..Len(Room)
      BY <2>5, <2>7, <3>1
    <3>2. CASE j = Len(Room) + 1
      <4>1. inflight < accepted + 1 /\ \A i \in 1..Len(stored) : stored[i] < accepted + 1
        BY <2>9
      <4> QED BY <2>5, <3>2, <4>1
    <3> QED BY <2>10, <3>1, <3>2
  <2> QED BY <2>2, <2>11, <2>12, <2>13
<1>2. ASSUME NEW p \in Producers, Signal(p) PROVE NoneFromTheFuture' /\ InOrder'
  BY <1>2 DEF Signal
<1>3. ASSUME DrainClose PROVE NoneFromTheFuture' /\ InOrder'
  BY <1>3 DEF DrainClose
<1>4. ASSUME DrainPoke PROVE NoneFromTheFuture' /\ InOrder'
  BY <1>4 DEF DrainPoke
<1>5. ASSUME DrainExpire PROVE NoneFromTheFuture' /\ InOrder'
  BY <1>5 DEF DrainExpire
<1>6. ASSUME DrainCollect PROVE NoneFromTheFuture' /\ InOrder'
  <2>1. Len(queue') = 0 /\ UNCHANGED <<inflight, stored, accepted>>
    BY <1>6 DEF DrainCollect
  <2> QED BY <2>1
<1>7. ASSUME ExitDrained PROVE NoneFromTheFuture' /\ InOrder'
  <2>1. inflight' = 0 /\ UNCHANGED <<queue, stored, accepted>>
    BY <1>7 DEF ExitDrained, Exit
  <2>2. accepted \in Nat /\ \A j \in 1..Len(queue) : queue[j] \in Nat /\ 0 < queue[j]
    BY Numbers
  <2> QED BY <2>1, <2>2
<1>8. ASSUME BeginProvision PROVE NoneFromTheFuture' /\ InOrder'
  BY <1>8 DEF BeginProvision
<1>9. ASSUME ProvisionOk PROVE NoneFromTheFuture' /\ InOrder'
  BY <1>9 DEF ProvisionOk, AfterProvision
<1>10. ASSUME ProvisionFail PROVE NoneFromTheFuture' /\ InOrder'
  BY <1>10 DEF ProvisionFail
<1>11. ASSUME SleepElapse PROVE NoneFromTheFuture' /\ InOrder'
  BY <1>11 DEF SleepElapse, AfterProvision, Lesser
<1>12. ASSUME SleepStopped PROVE NoneFromTheFuture' /\ InOrder'
  <2>1. inflight' = 0 /\ UNCHANGED <<queue, stored, accepted>>
    BY <1>12 DEF SleepStopped, Exit
  <2>2. accepted \in Nat /\ \A j \in 1..Len(queue) : queue[j] \in Nat /\ 0 < queue[j]
    BY Numbers
  <2> QED BY <2>1, <2>2
<1>13. ASSUME Take PROVE NoneFromTheFuture' /\ InOrder'
  <2>1. /\ queue # << >> /\ inflight' = Head(queue) /\ queue' = Tail(queue)
        /\ accepted' = accepted /\ stored' = stored
    BY <1>13 DEF Take
  <2>2. /\ inflight' = queue[1] /\ 1 \in 1..Len(queue)
        /\ Len(queue') = Len(queue) - 1 /\ Len(queue) \in Nat
        /\ \A j \in 1..Len(queue') : queue'[j] = queue[j + 1] /\ j + 1 \in 1..Len(queue)
    <3>1. Head(queue) = queue[1] /\ Len(queue) \in Nat \ {0} /\ Len(Tail(queue)) = Len(queue) - 1
      BY <2>1, TailEvents
    <3>2. \A j \in 1..Len(Tail(queue)) : Tail(queue)[j] = queue[j + 1]
      BY <2>1, TailEvents
    <3> QED BY <2>1, <3>1, <3>2
  <2>3. /\ \A j \in 1..Len(queue) : queue[j] \in Nat
        /\ \A i \in 1..Len(stored) : stored[i] \in Nat
    BY Numbers
  <2>4. NoneFromTheFuture'
    BY <2>1, <2>2
  <2>5. ASSUME NEW i \in 1..Len(queue'), NEW j \in 1..Len(queue'), i < j
        PROVE  queue'[i] < queue'[j]
    <3>1. i + 1 < j + 1 /\ i + 1 \in 1..Len(queue) /\ j + 1 \in 1..Len(queue)
      BY <2>2, <2>5
    <3> QED BY <2>2, <3>1
  <2>6. \A j \in 1..Len(queue') : inflight' < queue'[j]
    BY <2>2
  <2>7. \A i \in 1..Len(stored) : stored[i] <= inflight'
    BY <2>2, <2>3
  <2>8. \A i \in 1..Len(stored), j \in 1..Len(queue') : stored[i] < queue'[j]
    BY <2>2
  <2> QED BY <2>1, <2>4, <2>5, <2>6, <2>7, <2>8
<1>14. ASSUME NextDrained PROVE NoneFromTheFuture' /\ InOrder'
  <2>1. inflight' = 0 /\ UNCHANGED <<queue, stored, accepted>>
    BY <1>14 DEF NextDrained, Exit
  <2>2. accepted \in Nat /\ \A j \in 1..Len(queue) : queue[j] \in Nat /\ 0 < queue[j]
    BY Numbers
  <2> QED BY <2>1, <2>2
<1>15. ASSUME NextWait PROVE NoneFromTheFuture' /\ InOrder'
  BY <1>15 DEF NextWait
<1>16. ASSUME Woken PROVE NoneFromTheFuture' /\ InOrder'
  BY <1>16 DEF Woken
<1>17. ASSUME WaitStopped PROVE NoneFromTheFuture' /\ InOrder'
  <2>1. inflight' = 0 /\ UNCHANGED <<queue, stored, accepted>>
    BY <1>17 DEF WaitStopped, Exit
  <2>2. accepted \in Nat /\ \A j \in 1..Len(queue) : queue[j] \in Nat /\ 0 < queue[j]
    BY Numbers
  <2> QED BY <2>1, <2>2
<1>18. ASSUME PublishOk PROVE NoneFromTheFuture' /\ InOrder'
  <2>1. inflight # 0 /\ Store(inflight)
    BY <1>18 DEF PublishOk
  <2>2. /\ \A i, j \in 1..Len(stored') : i <= j => stored'[i] <= stored'[j]
        /\ \A i \in 1..Len(stored') : stored'[i] <= inflight
    BY <2>1, StoreInOrder
  <2>3. inflight' = 0 /\ queue' = queue /\ accepted' = accepted
    BY <1>18 DEF PublishOk
  <2>4. \A i \in 1..Len(stored') : stored'[i] \in Nat
    <3>1. stored' \in Seq(Events)
      BY <2>1, StoreTyped
    <3> QED BY <3>1, EventsAreNumbers
  <2>5. \A j \in 1..Len(queue) : queue[j] \in Nat /\ inflight < queue[j]
    BY Numbers
  <2>6. inflight \in Nat /\ accepted \in Nat
    BY Numbers
  <2> QED BY <2>2, <2>3, <2>4, <2>5, <2>6
<1>19. ASSUME PublishPermanent PROVE NoneFromTheFuture' /\ InOrder'
  <2>1. inflight' = 0 /\ UNCHANGED <<queue, stored, accepted>>
    BY <1>19 DEF PublishPermanent
  <2>2. accepted \in Nat /\ \A j \in 1..Len(queue) : queue[j] \in Nat /\ 0 < queue[j]
    BY Numbers
  <2> QED BY <2>1, <2>2
<1>20. ASSUME PublishFail PROVE NoneFromTheFuture' /\ InOrder'
  <2>1. inflight # 0 /\ inflight' = inflight /\ queue' = queue /\ accepted' = accepted
    BY <1>20 DEF PublishFail
  <2>2. CASE UNCHANGED <<stored, recent>>
    BY <2>1, <2>2
  <2>3. CASE Store(inflight)
    <3>1. /\ \A i, j \in 1..Len(stored') : i <= j => stored'[i] <= stored'[j]
          /\ \A i \in 1..Len(stored') : stored'[i] <= inflight
      BY <2>1, <2>3, StoreInOrder
    <3>2. \A i \in 1..Len(stored') : stored'[i] \in Nat
      <4>1. stored' \in Seq(Events)
        BY <2>1, <2>3, StoreTyped
      <4> QED BY <4>1, EventsAreNumbers
    <3>3. \A j \in 1..Len(queue) : queue[j] \in Nat /\ inflight < queue[j]
      BY Numbers
    <3>4. inflight \in Nat /\ accepted \in Nat
      BY Numbers
    <3> QED BY <2>1, <3>1, <3>2, <3>3, <3>4
  <2> QED BY <1>20, <2>2, <2>3 DEF PublishFail
<1>21. ASSUME BrokerChange PROVE NoneFromTheFuture' /\ InOrder'
  BY <1>21 DEF BrokerChange
<1>22. ASSUME BrokerWipe PROVE NoneFromTheFuture' /\ InOrder'
  <2>1. Len(stored') = 0 /\ UNCHANGED <<inflight, queue, accepted>>
    BY <1>22 DEF BrokerWipe
  <2> QED BY <2>1
<1>23. ASSUME NEW e \in Events, WindowLapse(e) PROVE NoneFromTheFuture' /\ InOrder'
  BY <1>23 DEF WindowLapse
<1>24. CASE UNCHANGED vars
  BY <1>24 DEF vars
<1> QED
  BY <1>1, <1>2, <1>3, <1>4, <1>5, <1>6, <1>7, <1>8, <1>9, <1>10, <1>11, <1>12, <1>13, <1>14, <1>15, <1>16, <1>17, <1>18, <1>19, <1>20, <1>21, <1>22, <1>23, <1>24 DEF Next, DrainCaller, Drainer, Broker

-----------------------------------------------------------------------------
\* An empty publisher satisfies the invariant.
LEMMA InvInit == Init => Inv
<1> SUFFICES ASSUME Init PROVE Inv
  OBVIOUS
<1> USE PublisherAssumption DEF PublisherAssumption, None
<1>1. Len(<< >>) = 0 /\ << >> \in Seq(Events)
  OBVIOUS
<1>2. TypeOK
  <2>1. producer \in [Producers -> {"idle", "signal"}]
    BY DEF Init
  <2>2. queue \in Seq(Events) /\ Len(queue) <= Capacity /\ stored \in Seq(Events)
    BY <1>1 DEF Init
  <2>3. backoff \in BackoffMin..BackoffMax /\ accepted \in 0..MaxEvents
    BY DEF Init
  <2> QED BY <2>1, <2>2, <2>3 DEF Init, TypeOK
<1>3. Control /\ NoLostWakeup /\ NothingGivenUpEarly
  BY DEF Init, Control, NoLostWakeup, NothingGivenUpEarly
<1>4. NoneFromTheFuture /\ InOrder
  BY <1>1 DEF Init, NoneFromTheFuture, InOrder
<1>5. Accounted
  BY <1>1 DEF Init, Accounted, InFlight
<1> QED BY <1>2, <1>3, <1>4, <1>5 DEF Inv

\* Every step keeps the invariant.
LEMMA InvStep == Inv /\ [Next]_vars => Inv'
<1> SUFFICES ASSUME Inv, [Next]_vars PROVE Inv'
  OBVIOUS
<1>1. /\ TypeOK /\ Control /\ NoneFromTheFuture /\ Accounted
      /\ InOrder /\ NoLostWakeup /\ NothingGivenUpEarly
  BY DEF Inv
<1>2. TypeOK' /\ Control'
  BY <1>1, TypeControlStep
<1>3. NoneFromTheFuture' /\ InOrder'
  BY <1>1, OrderStep
<1>4. Accounted'
  BY <1>1, AccountedStep
<1>5. NoLostWakeup'
  BY <1>1, WakeupStep
<1>6. NothingGivenUpEarly'
  BY <1>1, GivenUpStep
<1> QED BY <1>2, <1>3, <1>4, <1>5, <1>6 DEF Inv

\* The inductive invariant: the properties below need the control state and
\* each other, so they are carried together.
THEOREM Invariance == Spec => []Inv
BY InvInit, InvStep, PTL DEF Spec

\* Every reachable state is well typed: the queue never exceeds its capacity
\* and the backoff stays between its limits (publish.go:243, :344).
THEOREM TypeCorrect == Spec => []TypeOK
<1>1. Inv => TypeOK
  BY DEF Inv
<1> QED BY <1>1, Invariance, PTL

\* Every accepted event is published, counted as lost, in flight or queued
\* (publish.go:5-8), with any number of producers and any outage.
THEOREM NothingUncounted == Spec => []Accounted
<1>1. Inv => Accounted
  BY DEF Inv
<1> QED BY <1>1, Invariance, PTL

\* Events reach the broker in the order they were accepted (ADR 0020).
THEOREM FirstInFirstOut == Spec => []InOrder
<1>1. Inv => InOrder
  BY DEF Inv
<1> QED BY <1>1, Invariance, PTL

\* The unlock-then-send of Enqueue and the check-then-receive of next never
\* leave the drainer asleep with work to do (publish.go:249-254, :415-435).
THEOREM WakeupNeverLost == Spec => []NoLostWakeup
<1>1. Inv => NoLostWakeup
  BY DEF Inv
<1> QED BY <1>1, Invariance, PTL

\* Before the drain window closes the drainer gives nothing up
\* (publish.go:355-376, :415-429).
THEOREM GivesNothingUpEarly == Spec => []NothingGivenUpEarly
<1>1. Inv => NothingGivenUpEarly
  BY DEF Inv
<1> QED BY <1>1, Invariance, PTL

\* When Drain returns, every accepted event is published or counted as lost
\* (publish.go:282-308).
THEOREM ReturnSettles == Spec => []SettledAtReturn
<1>1. Inv => SettledAtReturn
  <2> SUFFICES ASSUME Inv, drainCall = "returned" PROVE SettledAtReturn
    BY DEF SettledAtReturn
  <2>1. drainer = "done" /\ queue = << >> /\ inflight = None
    BY DEF Inv, Control
  <2>2. Len(queue) = 0 /\ InFlight = 0
    BY <2>1 DEF InFlight
  <2>3. accepted = published + droppedFull + unpublishable + droppedAtShutdown
    BY <2>2 DEF Inv, Accounted, TypeOK
  <2> QED BY <2>1, <2>3 DEF SettledAtReturn
<1> QED BY <1>1, Invariance, PTL

-----------------------------------------------------------------------------
(* The publisher implements the counted queue (its safety part; the        *)
(* fairness is checked by TLC).                                            *)

\* The drainer's exit loses what it holds, if anything.
LEMMA ExitRefines ==
  ASSUME TypeOK, Exit
  PROVE  [Promise!Next]_(Promise!vars)
<1> USE DEF Exit, Deferred, shared, callers, TypeOK
<1>1. CASE inflight = None
  BY <1>1 DEF Promise!vars
<1>2. CASE inflight # None
  <2>1. Promise!Lose
    BY <1>2 DEF Promise!Lose
  <2> QED BY <2>1 DEF Promise!Next, Promise!Settle
<1> QED BY <1>1, <1>2

\* Every step of the publisher is a step of the counted queue, or none.
LEMMA RefinementStep ==
  ASSUME Inv, [Next]_vars
  PROVE  [Promise!Next]_(Promise!vars)
<1> USE DEF shared, callers, counters, jetstream, loop, Poke, Done, Deferred,
        NothingToDo, Interrupted, Duplicate, Retry, Reprovision
<1>0. TypeOK /\ Control
  BY DEF Inv
<1>1. ASSUME NEW p \in Producers, Enqueue(p) PROVE [Promise!Next]_(Promise!vars)
  <2>1. CASE Full
    <3>1. queue # << >>
      BY <1>0, <2>1, PublisherAssumption DEF Full, TypeOK, PublisherAssumption
    <3>2. Promise!AcceptEvicting
      BY <1>0, <1>1, <2>1, <3>1 DEF Enqueue, Room, TypeOK, Promise!AcceptEvicting
    <3> QED BY <3>2 DEF Promise!Next
  <2>2. CASE ~Full
    <3>1. Promise!Accept
      BY <1>1, <2>2 DEF Enqueue, Room, Promise!Accept
    <3> QED BY <3>1 DEF Promise!Next
  <2> QED BY <2>1, <2>2
<1>2. ASSUME NEW p \in Producers, Signal(p) PROVE [Promise!Next]_(Promise!vars)
  BY <1>2 DEF Signal, Promise!vars
<1>3. ASSUME DrainClose PROVE [Promise!Next]_(Promise!vars)
  <2>1. Promise!Close
    BY <1>0, <1>3 DEF DrainClose, Control, TypeOK, Promise!Close
  <2> QED BY <2>1 DEF Promise!Next
<1>4. ASSUME DrainPoke PROVE [Promise!Next]_(Promise!vars)
  BY <1>4 DEF DrainPoke, Promise!vars
<1>5. ASSUME DrainExpire PROVE [Promise!Next]_(Promise!vars)
  BY <1>5 DEF DrainExpire, Promise!vars
<1>6. ASSUME DrainCollect PROVE [Promise!Next]_(Promise!vars)
  <2>1. CASE queue = << >>
    BY <1>0, <1>6, <2>1 DEF DrainCollect, TypeOK, Promise!vars
  <2>2. CASE queue # << >>
    <3>1. Promise!Abandon
      BY <1>0, <1>6, <2>2 DEF DrainCollect, Control, TypeOK, Promise!Abandon
    <3> QED BY <3>1 DEF Promise!Next, Promise!Settle
  <2> QED BY <2>1, <2>2
<1>7. ASSUME ExitDrained PROVE [Promise!Next]_(Promise!vars)
  BY <1>0, <1>7, ExitRefines DEF ExitDrained
<1>8. ASSUME BeginProvision PROVE [Promise!Next]_(Promise!vars)
  BY <1>8 DEF BeginProvision, Promise!vars
<1>9. ASSUME ProvisionOk PROVE [Promise!Next]_(Promise!vars)
  BY <1>9 DEF ProvisionOk, Promise!vars
<1>10. ASSUME ProvisionFail PROVE [Promise!Next]_(Promise!vars)
  BY <1>10 DEF ProvisionFail, Promise!vars
<1>11. ASSUME SleepElapse PROVE [Promise!Next]_(Promise!vars)
  BY <1>11 DEF SleepElapse, Promise!vars
<1>12. ASSUME SleepStopped PROVE [Promise!Next]_(Promise!vars)
  BY <1>0, <1>12, ExitRefines DEF SleepStopped
<1>13. ASSUME Take PROVE [Promise!Next]_(Promise!vars)
  <2>1. Promise!Hold
    BY <1>0, <1>13 DEF Take, Control, Promise!Hold
  <2> QED BY <2>1 DEF Promise!Next, Promise!Settle
<1>14. ASSUME NextDrained PROVE [Promise!Next]_(Promise!vars)
  BY <1>0, <1>14, ExitRefines DEF NextDrained
<1>15. ASSUME NextWait PROVE [Promise!Next]_(Promise!vars)
  BY <1>15 DEF NextWait, Promise!vars
<1>16. ASSUME Woken PROVE [Promise!Next]_(Promise!vars)
  BY <1>16 DEF Woken, Promise!vars
<1>17. ASSUME WaitStopped PROVE [Promise!Next]_(Promise!vars)
  BY <1>0, <1>17, ExitRefines DEF WaitStopped
<1>18. ASSUME PublishOk PROVE [Promise!Next]_(Promise!vars)
  <2>1. Promise!Publish
    BY <1>0, <1>18 DEF PublishOk, Control, Promise!Publish
  <2> QED BY <2>1 DEF Promise!Next, Promise!Settle
<1>19. ASSUME PublishPermanent PROVE [Promise!Next]_(Promise!vars)
  <2>1. Promise!Lose
    BY <1>0, <1>19 DEF PublishPermanent, Control, TypeOK, Promise!Lose
  <2> QED BY <2>1 DEF Promise!Next, Promise!Settle
<1>20. ASSUME PublishFail PROVE [Promise!Next]_(Promise!vars)
  BY <1>20 DEF PublishFail, Promise!vars
<1>21. ASSUME BrokerChange PROVE [Promise!Next]_(Promise!vars)
  BY <1>21 DEF BrokerChange, Promise!vars
<1>22. ASSUME BrokerWipe PROVE [Promise!Next]_(Promise!vars)
  BY <1>22 DEF BrokerWipe, Promise!vars
<1>23. ASSUME NEW e \in Events, WindowLapse(e) PROVE [Promise!Next]_(Promise!vars)
  BY <1>23 DEF WindowLapse, Promise!vars
<1>24. CASE UNCHANGED vars
  BY <1>24 DEF vars, Promise!vars
<1> QED
  BY <1>1, <1>2, <1>3, <1>4, <1>5, <1>6, <1>7, <1>8, <1>9, <1>10, <1>11, <1>12, <1>13, <1>14, <1>15, <1>16, <1>17, <1>18, <1>19, <1>20, <1>21, <1>22, <1>23, <1>24 DEF Next, DrainCaller, Drainer, Broker

\* The publisher is a first-in first-out queue that holds one event at a
\* time, never evicts the one it holds and loses none uncounted.
THEOREM ImplementsCountedQueue ==
  Spec => Promise!Init /\ [][Promise!Next]_(Promise!vars)
<1>1. Init => Promise!Init
  BY DEF Init, Promise!Init
<1>2. Inv /\ [Next]_vars => [Promise!Next]_(Promise!vars)
  BY RefinementStep
<1> QED BY <1>1, <1>2, Invariance, PTL DEF Spec
-----------------------------------------------------------------------------
\* What is stored is what the broker knows the id of, or has known it: the
\* property says of two places what this says of one, and without it a step
\* that stores an event could not be told to find the id it left.
KnownOrLapsed ==
  \A i \in 1..Len(stored) : stored[i] \in recent \cup lapsed

\* A step that stores nothing, and forgets no id but as time passes, keeps
\* both.
LEMMA StoreUntouched ==
  ASSUME KnownOrLapsed, DuplicateOnlyAfterWindow, stored' = stored,
         lapsed \subseteq lapsed', recent \cup lapsed \subseteq recent' \cup lapsed'
  PROVE  KnownOrLapsed' /\ DuplicateOnlyAfterWindow'
  BY DEF KnownOrLapsed, DuplicateOnlyAfterWindow

\* An event is stored again only if the broker does not know its id.
LEMMA StoreKnown ==
  ASSUME TypeOK, KnownOrLapsed, DuplicateOnlyAfterWindow, inflight \in Events,
         Store(inflight), lapsed' = lapsed
  PROVE  KnownOrLapsed' /\ DuplicateOnlyAfterWindow'
<1>1. CASE inflight \in recent
  <2>1. stored' = stored /\ recent' = recent
    BY <1>1 DEF Store, Duplicate
  <2> QED
    BY <2>1 DEF KnownOrLapsed, DuplicateOnlyAfterWindow
<1>2. CASE inflight \notin recent
  <2>1. stored' = Append(stored, inflight) /\ recent' = recent \cup {inflight}
    BY <1>2 DEF Store, Duplicate
  <2>2. /\ Len(stored') = Len(stored) + 1 /\ Len(stored) \in Nat
        /\ \A i \in 1..Len(stored) : stored'[i] = stored[i]
        /\ stored'[Len(stored) + 1] = inflight
    BY <2>1, AppendEvents DEF TypeOK
  <2>3. \A i \in 1..Len(stored') : i \in 1..Len(stored) \/ i = Len(stored) + 1
    BY <2>2
  <2>4. KnownOrLapsed'
    BY <2>1, <2>2, <2>3 DEF KnownOrLapsed
  <2>5. \A i \in 1..Len(stored) : stored[i] = inflight => stored[i] \in lapsed
    BY <1>2 DEF KnownOrLapsed
  <2>6. DuplicateOnlyAfterWindow'
    BY <2>2, <2>3, <2>5 DEF DuplicateOnlyAfterWindow
  <2> QED
    BY <2>4, <2>6
<1> QED
  BY <1>1, <1>2

\* So every step keeps both.
LEMMA WindowStep ==
  ASSUME Inv, KnownOrLapsed, DuplicateOnlyAfterWindow, [Next]_vars
  PROVE  KnownOrLapsed' /\ DuplicateOnlyAfterWindow'
<1>1. CASE UNCHANGED <<stored, recent, lapsed>>
  BY <1>1 DEF KnownOrLapsed, DuplicateOnlyAfterWindow
<1>2. CASE PublishOk \/ PublishFail
  <2>1. drainer = "publish" /\ lapsed' = lapsed
        /\ (Store(inflight) \/ UNCHANGED <<stored, recent>>)
    BY <1>2 DEF PublishOk, PublishFail
  <2>2. TypeOK /\ inflight \in Events
    BY <2>1 DEF Inv, Control, TypeOK
  <2>3. CASE Store(inflight)
    BY <2>1, <2>2, <2>3, StoreKnown
  <2>4. CASE UNCHANGED <<stored, recent>>
    BY <1>1, <2>1, <2>4
  <2> QED
    BY <2>1, <2>3, <2>4
<1>3. CASE BrokerWipe
  <2>1. stored' = << >>
    BY <1>3 DEF BrokerWipe
  <2>2. Len(stored') = 0
    BY <2>1
  <2> QED
    BY <2>2 DEF KnownOrLapsed, DuplicateOnlyAfterWindow
<1>4. ASSUME NEW e \in Events, WindowLapse(e)
      PROVE  KnownOrLapsed' /\ DuplicateOnlyAfterWindow'
  <2>1. /\ stored' = stored /\ recent' = recent \ {e} /\ lapsed' = lapsed \cup {e}
    BY <1>4 DEF WindowLapse
  <2> QED
    BY <2>1, StoreUntouched
<1>5. CASE \E p \in Producers : Enqueue(p) \/ Signal(p)
  BY <1>1, <1>5 DEF Enqueue, Signal, jetstream
<1>6. CASE DrainCaller
  BY <1>1, <1>6 DEF DrainCaller, DrainClose, DrainPoke, DrainExpire, DrainCollect, jetstream
<1>7. CASE \/ ExitDrained \/ BeginProvision \/ ProvisionOk \/ ProvisionFail
           \/ SleepElapse \/ SleepStopped
           \/ Take \/ NextDrained \/ NextWait \/ Woken \/ WaitStopped
           \/ PublishPermanent
  BY <1>1, <1>7 DEF ExitDrained, BeginProvision, ProvisionOk, ProvisionFail, SleepElapse,
     SleepStopped, Take, NextDrained, NextWait, Woken, WaitStopped, PublishPermanent, Exit,
     jetstream
<1>8. CASE BrokerChange
  BY <1>1, <1>8 DEF BrokerChange, jetstream
<1>9. CASE UNCHANGED vars
  BY <1>1, <1>9 DEF vars, jetstream
<1> QED
  BY <1>2, <1>3, <1>4, <1>5, <1>6, <1>7, <1>8, <1>9 DEF Next, Drainer, Broker

\* However often an event is retried, through lost acknowledgements, wiped
\* stores and streams that are made again, its stream has it twice only if
\* its first copy had left the duplicate window (publish.go:206-208,
\* 379-404).
THEOREM RetriesAreSafe == Spec => []DuplicateOnlyAfterWindow
<1>1. Init => KnownOrLapsed /\ DuplicateOnlyAfterWindow
  <2> SUFFICES ASSUME Init PROVE KnownOrLapsed /\ DuplicateOnlyAfterWindow
    OBVIOUS
  <2>1. Len(stored) = 0
    BY DEF Init
  <2> QED
    BY <2>1 DEF KnownOrLapsed, DuplicateOnlyAfterWindow
<1>2. Inv /\ (KnownOrLapsed /\ DuplicateOnlyAfterWindow) /\ [Next]_vars
        => (KnownOrLapsed /\ DuplicateOnlyAfterWindow)'
  BY WindowStep
<1> QED
  BY <1>1, <1>2, Invariance, PTL DEF Spec
=============================================================================
