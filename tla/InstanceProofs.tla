----------------------------- MODULE InstanceProofs -----------------------------
(***************************************************************************)
(* Theorems about one run of the collector, for any number of devices, any *)
(* intervals and limits, and any history of the wall clock.                *)
(*                                                                         *)
(* The heartbeat by itself: the timer is always armed for the next slot.   *)
(* The run as a whole: its heartbeat is that heartbeat, its log records    *)
(* are accounted for and none is silenced without cause, and what boot and *)
(* shutdown do is in order.                                                *)
(***************************************************************************)
EXTENDS Instance, FiniteSetTheorems, SequenceTheorems, TLAPS

-----------------------------------------------------------------------------
(* The heartbeat.                                                          *)

\* A remainder is below its divisor, and what it leaves is a multiple of it.
LEMMA Remainder ==
  ASSUME NEW a \in Nat, NEW b \in Nat \ {0}
  PROVE  /\ a % b \in 0 .. b - 1
         /\ a = b * (a \div b) + (a % b) /\ a \div b \in Int
  BY SMT

\* A multiple leaves no remainder.
LEMMA Multiple ==
  ASSUME NEW k \in Int, NEW b \in Nat \ {0}
  PROVE  (b * k) % b = 0
  BY SMT

\* The next beat is later than now, at most an interval later, and on a slot,
\* also before the phase of the first one (heartbeat.go:27-36).
LEMMA NextSlot ==
  ASSUME NEW wall \in Int, phase \in 0 .. Interval - 1
  PROVE  /\ NextBeat(wall) \in Int
         /\ wall < NextBeat(wall) /\ NextBeat(wall) <= wall + Interval
         /\ (NextBeat(wall) - phase) % Interval = 0
<1> DEFINE since == wall - phase
<1>1. Interval \in Nat \ {0} /\ phase \in Int /\ since \in Int
  BY HeartbeatAssumption
<1> HIDE DEF since
<1>2. CASE since >= 0
  <2> DEFINE r == since % Interval  q == since \div Interval
  <2>1. r \in 0 .. Interval - 1 /\ since = Interval * q + r /\ q \in Int
    BY <1>1, <1>2, Remainder
  <2>2. Rem(since, Interval) = r
    BY <1>2 DEF Rem
  <2> HIDE DEF r, q
  <2>3. Slot(wall) = wall - r /\ NextBeat(wall) = wall - r + Interval
    BY <1>1, <2>1, <2>2 DEF Slot, NextBeat, since
  <2>4. NextBeat(wall) - phase = Interval * (q + 1)
    BY <1>1, <2>1, <2>3 DEF since
  <2>5. (NextBeat(wall) - phase) % Interval = 0
    BY <1>1, <2>1, <2>4, Multiple
  <2> QED
    BY <1>1, <2>1, <2>3, <2>5
<1>3. CASE since < 0
  <2> DEFINE r == (-since) % Interval  q == (-since) \div Interval
  <2>1. r \in 0 .. Interval - 1 /\ -since = Interval * q + r /\ q \in Int
    BY <1>1, <1>3, Remainder
  <2>2. Rem(since, Interval) = -r
    BY <1>1, <1>3 DEF Rem
  <2> HIDE DEF r, q
  <2>3. Slot(wall) = wall + r
    BY <1>1, <2>1, <2>2 DEF Slot, since
  <2>4. CASE r > 0
    <3>1. NextBeat(wall) = wall + r
      BY <1>1, <2>1, <2>3, <2>4 DEF NextBeat
    <3>2. NextBeat(wall) - phase = Interval * (-q)
      BY <1>1, <2>1, <3>1 DEF since
    <3>3. (NextBeat(wall) - phase) % Interval = 0
      BY <1>1, <2>1, <3>2, Multiple
    <3> QED
      BY <1>1, <2>1, <2>4, <3>1, <3>3
  <2>5. CASE r = 0
    <3>1. NextBeat(wall) = wall + Interval
      BY <1>1, <2>3, <2>5 DEF NextBeat
    <3>2. NextBeat(wall) - phase = Interval * (1 - q)
      BY <1>1, <2>1, <2>5, <3>1 DEF since
    <3>3. (NextBeat(wall) - phase) % Interval = 0
      BY <1>1, <2>1, <3>2, Multiple
    <3> QED
      BY <1>1, <3>1, <3>3
  <2> QED
    BY <2>1, <2>4, <2>5
<1> QED
  BY <1>1, <1>2, <1>3

-----------------------------------------------------------------------------
\* Every state of the heartbeat is well typed (heartbeat.go:40-56).
THEOREM HeartbeatTypeCorrect == HeartbeatSpec => []HeartbeatTypeOK
<1>1. HeartbeatInit => HeartbeatTypeOK
  <2> SUFFICES ASSUME HeartbeatInit  PROVE HeartbeatTypeOK
    OBVIOUS
  <2>1. now \in Nat /\ due \in Int /\ lastBeat \in Nat
    BY SMT DEF HeartbeatInit
  <2>2. offset \in Int /\ adjusted \in BOOLEAN
    BY HeartbeatAssumption, Zenon DEF HeartbeatInit
  <2> QED
    BY <2>1, <2>2, Zenon DEF HeartbeatInit, HeartbeatTypeOK
<1>2. HeartbeatTypeOK /\ [HeartbeatNext]_hvars => HeartbeatTypeOK'
  <2> SUFFICES ASSUME HeartbeatTypeOK, [HeartbeatNext]_hvars  PROVE HeartbeatTypeOK'
    OBVIOUS
  <2>1. ASSUME Arm, UNCHANGED <<now, offset, phase>>, heart' = "waiting"
        PROVE  HeartbeatTypeOK'
    <3>1. Wall \in Int
      BY DEF HeartbeatTypeOK, Wall
    <3>2. NextBeat(Wall) \in Int
      BY <3>1, NextSlot DEF HeartbeatTypeOK
    <3>3. due' \in Int /\ lastBeat' \in Nat
      BY <2>1, <3>1, <3>2 DEF HeartbeatTypeOK, Arm
    <3>4. adjusted' \in BOOLEAN
      BY <2>1, Zenon DEF Arm
    <3> QED
      BY <2>1, <3>3, <3>4, Zenon DEF HeartbeatTypeOK
  <2>2. CASE StartHeart
    BY <2>1, <2>2 DEF StartHeart
  <2>3. CASE Beat
    BY <2>1, <2>3 DEF Beat
  <2>4. CASE StopHeart \/ Tick
    BY <2>4 DEF HeartbeatTypeOK, StopHeart, Tick
  <2>5. CASE \E o \in Offsets : SetClock(o)
    BY <2>5, HeartbeatAssumption DEF HeartbeatTypeOK, SetClock
  <2>6. CASE UNCHANGED hvars
    BY <2>6 DEF HeartbeatTypeOK, hvars
  <2> QED
    BY <2>2, <2>3, <2>4, <2>5, <2>6 DEF HeartbeatNext
<1> QED
  BY <1>1, <1>2, PTL DEF HeartbeatSpec

\* Beats are due on time, for every interval and every history of the wall
\* clock (heartbeat.go:25-56).
THEOREM AlwaysOnTime == HeartbeatSpec => []BeatsOnTime
<1>1. HeartbeatInit => BeatsOnTime
  BY DEF HeartbeatInit, BeatsOnTime
<1>2. HeartbeatTypeOK /\ BeatsOnTime /\ [HeartbeatNext]_hvars => BeatsOnTime'
  <2> SUFFICES ASSUME HeartbeatTypeOK, BeatsOnTime, [HeartbeatNext]_hvars
               PROVE  BeatsOnTime'
    OBVIOUS
  <2>1. ASSUME Arm, UNCHANGED <<now, offset, phase>>
        PROVE  BeatsOnTime'
    <3>1. Wall \in Int /\ Wall = now + offset /\ now \in Int /\ offset \in Int
      BY DEF HeartbeatTypeOK, Wall
    <3> DEFINE next == NextBeat(Wall)
    <3>2. /\ next \in Int /\ Wall < next /\ next <= Wall + Interval
          /\ (next - phase) % Interval = 0
      BY <3>1, NextSlot DEF HeartbeatTypeOK
    <3>3. due' = now + (next - Wall) /\ lastBeat' = now
      BY <2>1 DEF Arm
    <3> HIDE DEF next
    <3>4. lastBeat' < due' /\ due' <= lastBeat' + Interval
      BY <3>1, <3>2, <3>3, HeartbeatAssumption
    <3>5. due' + offset' - phase' = next - phase
      BY <2>1, <3>1, <3>2, <3>3 DEF HeartbeatTypeOK
    <3> QED
      BY <3>2, <3>4, <3>5 DEF BeatsOnTime
  <2>2. CASE StartHeart
    BY <2>1, <2>2 DEF StartHeart
  <2>3. CASE Beat
    BY <2>1, <2>3 DEF Beat
  <2>4. CASE StopHeart \/ Tick
    BY <2>4 DEF BeatsOnTime, StopHeart, Tick
  <2>5. CASE \E o \in Offsets : SetClock(o)
    BY <2>5 DEF BeatsOnTime, SetClock
  <2>6. CASE UNCHANGED hvars
    BY <2>6 DEF BeatsOnTime, hvars
  <2> QED
    BY <2>2, <2>3, <2>4, <2>5, <2>6 DEF HeartbeatNext
<1> QED
  BY <1>1, <1>2, HeartbeatTypeCorrect, PTL DEF HeartbeatSpec

-----------------------------------------------------------------------------
(* Its place in the run.                                                   *)

\* Whatever the run does is a step of the heartbeat or leaves it alone.
LEMMA HeartbeatStep == [InstanceNext]_vars => [HeartbeatNext]_hvars
<1> SUFFICES ASSUME [InstanceNext]_vars  PROVE [HeartbeatNext]_hvars
  OBVIOUS
<1>1. CASE Boot
  BY <1>1, Zenon DEF Boot, BuildReader, BuildFails, Unreadable, Rejected, StartFails, Announce,
     StartRunner, StartHeartbeat, StartShipper, HeartbeatNext
<1>2. CASE Shutdown
  BY <1>2, Zenon DEF Shutdown, TellStopping, Flush, Drain, Return
<1>3. CASE \E d \in D : RunnerTells(d) \/ RunnerEnds(d) \/ Closed(d)
  BY <1>3, Zenon DEF RunnerTells, RunnerEnds, Closed
<1>4. CASE HeartBeats \/ HeartEnds \/ TimePasses \/ ClockIsSet
  BY <1>4, Zenon DEF HeartBeats, HeartEnds, TimePasses, ClockIsSet, HeartbeatNext
<1>5. CASE Cancel \/ Ships \/ ShipperEnds \/ Logs \/ Puts
  BY <1>5, Zenon DEF Cancel, Ships, ShipperEnds, Logs, Puts
<1>6. CASE UNCHANGED vars
  BY <1>6, Zenon DEF vars
<1> QED
  BY <1>1, <1>2, <1>3, <1>4, <1>5, <1>6, Zenon DEF InstanceNext

\* A run's heartbeat is the heartbeat, so its beats are on time
\* (app.go:232, heartbeat.go:38-56).
THEOREM InstanceBeats == InstanceSpec => HeartbeatSpec
<1>1. InstanceInit => HeartbeatInit
  BY DEF InstanceInit
<1> QED
  BY <1>1, HeartbeatStep, PTL DEF InstanceSpec, HeartbeatSpec

-----------------------------------------------------------------------------
(* Log records.                                                            *)

LogCounts ==
  /\ inHand \in Nat /\ channel \in Nat /\ suppressed \in Nat /\ shipped \in Nat
  /\ logged \in Nat

\* Where the records are, whether somebody still takes them or not.
LogAccount ==
  /\ LogCounts
  /\ logged = shipped + channel + inHand + suppressed
  /\ channel <= Backlog * Limit

\* The channel has a limit.
LEMMA BacklogType == Limit \in Nat /\ Backlog * Limit \in Nat
<1>1. Limit \in Nat /\ Backlog \in Nat
  BY LogShipAssumption
<1> QED
  BY <1>1, SMT

\* The steps of the log shipper keep the account.
LEMMA LogStep ==
  ASSUME LogAccount, LogRecord \/ PutRecord \/ ShipRecord \/ UNCHANGED lvars
  PROVE  LogAccount'
<1>1. CASE LogRecord
  <2>1. \/ /\ suppressed' = suppressed + 1 /\ inHand' = inHand
        \/ /\ suppressed' = suppressed /\ inHand' = inHand + 1
    BY <1>1 DEF LogRecord
  <2>2. logged' = logged + 1 /\ channel' = channel /\ shipped' = shipped
    BY <1>1 DEF LogRecord
  <2> QED
    BY <2>1, <2>2 DEF LogCounts, LogAccount
<1>2. CASE PutRecord
  BY <1>2, BacklogType DEF PutRecord, Overflow, LogCounts, LogAccount
<1>3. CASE ShipRecord
  BY <1>3, BacklogType DEF ShipRecord, LogCounts, LogAccount
<1>4. CASE UNCHANGED lvars
  BY <1>4 DEF lvars, LogCounts, LogAccount
<1> QED
  BY <1>1, <1>2, <1>3, <1>4

\* Whatever the run does is a step of the log shipper or leaves it alone.
LEMMA LogShipStep ==
  [InstanceNext]_vars => LogRecord \/ PutRecord \/ ShipRecord \/ UNCHANGED lvars
<1> SUFFICES ASSUME [InstanceNext]_vars
             PROVE  LogRecord \/ PutRecord \/ ShipRecord \/ UNCHANGED lvars
  OBVIOUS
<1>1. CASE Boot
  BY <1>1, Zenon DEF Boot, BuildReader, BuildFails, Unreadable, Rejected, StartFails, Announce,
     StartRunner, StartHeartbeat, StartShipper
<1>2. CASE Shutdown
  BY <1>2, Zenon DEF Shutdown, TellStopping, Flush, Drain, Return
<1>3. CASE \E d \in D : RunnerTells(d) \/ RunnerEnds(d) \/ Closed(d)
  BY <1>3, Zenon DEF RunnerTells, RunnerEnds, Closed
<1>4. CASE HeartBeats \/ HeartEnds \/ TimePasses \/ ClockIsSet
  BY <1>4, Zenon DEF HeartBeats, HeartEnds, TimePasses, ClockIsSet
<1>5. CASE Cancel \/ Ships \/ ShipperEnds \/ Logs \/ Puts
  BY <1>5, Zenon DEF Cancel, Ships, ShipperEnds, Logs, Puts
<1>6. CASE UNCHANGED vars
  BY <1>6, Zenon DEF vars
<1> QED
  BY <1>1, <1>2, <1>3, <1>4, <1>5, <1>6, Zenon DEF InstanceNext

\* The shipper ends only when ctx is done, which it stays.
LEMMA ShipperStep ==
  (shipper = "done" => cancelled) /\ [InstanceNext]_vars => (shipper' = "done" => cancelled')
<1> SUFFICES ASSUME shipper = "done" => cancelled, [InstanceNext]_vars, shipper' = "done"
             PROVE  cancelled'
  OBVIOUS
<1>1. CASE Boot
  <2>1. cancelled' = cancelled
    BY <1>1, Zenon DEF Boot, BuildReader, BuildFails, Unreadable, Rejected, StartFails,
       Announce, StartRunner, StartHeartbeat, StartShipper, avars
  <2>2. shipper' = shipper \/ shipper' = "running"
    BY <1>1, Zenon DEF Boot, BuildReader, BuildFails, Unreadable, Rejected, StartFails,
       Announce, StartRunner, StartHeartbeat, StartShipper, avars
  <2> QED
    BY <2>1, <2>2
<1>2. CASE Shutdown
  BY <1>2 DEF Shutdown, TellStopping, Flush, Drain, Return
<1>3. CASE \E d \in D : RunnerTells(d) \/ RunnerEnds(d) \/ Closed(d)
  <2>1. cancelled' = cancelled /\ shipper' = shipper
    BY <1>3, Zenon DEF RunnerTells, RunnerEnds, Closed
  <2> QED
    BY <2>1
<1>4. CASE HeartBeats \/ HeartEnds \/ TimePasses \/ ClockIsSet
  BY <1>4, Zenon DEF HeartBeats, HeartEnds, TimePasses, ClockIsSet, avars
<1>5. CASE Cancel \/ Ships \/ ShipperEnds \/ Logs \/ Puts
  BY <1>5, Zenon DEF Cancel, Ships, ShipperEnds, Logs, Puts, avars
<1>6. CASE UNCHANGED vars
  BY <1>6, Zenon DEF vars, avars
<1> QED
  BY <1>1, <1>2, <1>3, <1>4, <1>5, <1>6, Zenon DEF InstanceNext

\* What stands between the limit and a logger: the records that were admitted
\* in the window, which are the last that were, came no earlier than it began.
LogWindow ==
  /\ LogCounts
  /\ channel <= Backlog * Limit
  /\ admissions \in Seq(Int) /\ sentInWindow \in 0 .. Len(admissions)
  /\ windowStart # NoWindow =>
       /\ windowStart \in Int /\ windowStart <= now
       /\ \A k \in Len(admissions) - sentInWindow + 1 .. Len(admissions) :
            admissions[k] >= windowStart

\* The monotonic clock does not go back.
LEMMA NowGrows ==
  ASSUME HeartbeatTypeOK, [InstanceNext]_vars
  PROVE  now \in Int /\ now' \in Int /\ now <= now'
<1>1. now' = now \/ now' = now + 1
  BY HeartbeatStep DEF HeartbeatNext, StartHeart, Beat, StopHeart, Tick, SetClock, hvars
<1> QED
  BY <1>1 DEF HeartbeatTypeOK

\* A record that is admitted is the last one, and in the window.
LEMMA AdmitStep ==
  ASSUME LogWindow, LogRecord, now \in Int, now' \in Int, now <= now',
         NEW sent \in 0 .. Len(admissions),
         sent = IF WindowOver THEN 0 ELSE sentInWindow
  PROVE  /\ admissions' \in Seq(Int) /\ sentInWindow' \in 0 .. Len(admissions')
         /\ windowStart' # NoWindow =>
              /\ windowStart' \in Int /\ windowStart' <= now'
              /\ \A k \in Len(admissions') - sentInWindow' + 1 .. Len(admissions') :
                   admissions'[k] >= windowStart'
<1>1. admissions \in Seq(Int) /\ Len(admissions) \in Nat
  BY DEF LogWindow
<1>2. windowStart' = IF WindowOver THEN now ELSE windowStart
  BY DEF LogRecord
<1>3. windowStart' # NoWindow => windowStart' \in Int /\ windowStart' <= now
  BY <1>2 DEF LogWindow
<1>4. windowStart' # NoWindow =>
        \A k \in Len(admissions) - sent + 1 .. Len(admissions) : admissions[k] >= windowStart'
  <2>1. CASE WindowOver
    BY <1>1, <2>1
  <2>2. CASE ~WindowOver
    BY <1>2, <2>2 DEF LogWindow
  <2> QED
    BY <2>1, <2>2
<1>5. CASE sent >= Limit
  <2>1. sentInWindow' = sent /\ admissions' = admissions
    BY <1>5 DEF LogRecord
  <2> QED
    BY <1>1, <1>3, <1>4, <2>1
<1>6. CASE ~(sent >= Limit)
  <2>1. sentInWindow' = sent + 1 /\ admissions' = Append(admissions, now)
    BY <1>6 DEF LogRecord
  <2>2. /\ admissions' \in Seq(Int) /\ Len(admissions') = Len(admissions) + 1
        /\ admissions'[Len(admissions')] = now
        /\ \A k \in 1 .. Len(admissions) : admissions'[k] = admissions[k]
    BY <1>1, <2>1
  <2>3. ASSUME NEW k \in Len(admissions') - sentInWindow' + 1 .. Len(admissions'),
               windowStart' # NoWindow
        PROVE  admissions'[k] >= windowStart'
    <3>1. CASE k = Len(admissions')
      BY <1>3, <2>2, <2>3, <3>1
    <3>2. CASE k # Len(admissions')
      <4>1. k \in Len(admissions) - sent + 1 .. Len(admissions) /\ k \in 1 .. Len(admissions)
        BY <1>1, <2>1, <2>2, <3>2
      <4> QED
        BY <1>4, <2>2, <2>3, <4>1
    <3> QED
      BY <3>1, <3>2
  <2>4. sentInWindow' \in 0 .. Len(admissions')
    BY <1>1, <2>1, <2>2
  <2> QED
    BY <1>3, <2>2, <2>3, <2>4
<1> QED
  BY <1>5, <1>6

\* The steps of the log shipper keep to the window and the channel.
LEMMA WindowStep ==
  ASSUME LogWindow, now \in Int, now' \in Int, now <= now',
         LogRecord \/ PutRecord \/ ShipRecord \/ UNCHANGED lvars
  PROVE  LogWindow'
<1>1. CASE LogRecord
  <2>1. \/ suppressed' = suppressed + 1 /\ inHand' = inHand
        \/ suppressed' = suppressed /\ inHand' = inHand + 1
    BY <1>1 DEF LogRecord
  <2>2. LogCounts' /\ channel' = channel
    BY <1>1, <2>1 DEF LogWindow, LogCounts, LogRecord
  <2> DEFINE sent == IF WindowOver THEN 0 ELSE sentInWindow
  <2>3. sent \in 0 .. Len(admissions)
    BY DEF LogWindow
  <2> QED
    BY <1>1, <2>2, <2>3, AdmitStep DEF LogWindow
<1>2. CASE PutRecord
  <2>1. LogCounts' /\ channel' <= Backlog * Limit
    BY <1>2, BacklogType DEF PutRecord, Overflow, LogWindow, LogCounts
  <2> QED
    BY <1>2, <2>1 DEF PutRecord, LogWindow
<1>3. CASE ShipRecord
  <2>1. LogCounts' /\ channel' <= Backlog * Limit
    BY <1>3, BacklogType DEF ShipRecord, LogWindow, LogCounts
  <2> QED
    BY <1>3, <2>1 DEF ShipRecord, LogWindow
<1>4. CASE UNCHANGED lvars
  BY <1>4 DEF lvars, LogWindow, LogCounts
<1> QED
  BY <1>1, <1>2, <1>3, <1>4

\* Records in the window are recent.
LEMMA LimitReached ==
  ASSUME LogWindow, now \in Int, ~WindowOver, sentInWindow >= Limit
  PROVE  Cardinality(Recent) >= Limit
<1> DEFINE Admitted == Len(admissions) - sentInWindow + 1 .. Len(admissions)
<1>1. Window \in Nat /\ Limit \in Nat
  BY LogShipAssumption
<1>2. Len(admissions) \in Nat /\ sentInWindow \in 0 .. Len(admissions)
  BY DEF LogWindow
<1>3. windowStart \in Int /\ now - windowStart < Window
  BY <1>1 DEF WindowOver, LogWindow
<1>4. Admitted \subseteq Recent
  <2> SUFFICES ASSUME NEW k \in Admitted  PROVE k \in Recent
    OBVIOUS
  <2>1. k \in DOMAIN admissions /\ admissions[k] \in Int
    BY <1>2 DEF LogWindow
  <2>2. admissions[k] >= windowStart
    BY DEF WindowOver, LogWindow
  <2> QED
    BY <1>1, <1>3, <2>1, <2>2 DEF Recent
<1>5. IsFiniteSet(Admitted) /\ Cardinality(Admitted) = sentInWindow
  BY <1>2, FS_Interval
<1>6. IsFiniteSet(Recent)
  <2>1. IsFiniteSet(1 .. Len(admissions))
    BY <1>2, FS_Interval
  <2>2. Recent \subseteq 1 .. Len(admissions)
    BY DEF Recent, LogWindow
  <2> QED
    BY <2>1, <2>2, FS_Subset
<1>7. Cardinality(Admitted) <= Cardinality(Recent)
  BY <1>4, <1>6, FS_Subset
<1>8. Cardinality(Recent) \in Nat
  BY <1>6, FS_CardinalityType
<1> QED
  BY <1>1, <1>2, <1>5, <1>7, <1>8

\* For any limit, window and backlog a record is suppressed only if as many as
\* the limit were admitted within a window's time before it, or the channel is
\* full (logship.go:131-151).
THEOREM SuppressionHasCause == InstanceSpec => SuppressedForCause
<1> DEFINE Cause == \/ logged' # logged /\ Cardinality(Recent) >= Limit
                    \/ channel = Backlog * Limit
<1>1. InstanceInit => LogWindow
  BY BacklogType DEF InstanceInit, LogShipInit, LogWindow, LogCounts
<1>2. HeartbeatTypeOK /\ LogWindow /\ [InstanceNext]_vars => LogWindow'
  BY NowGrows, LogShipStep, WindowStep
<1>3. ASSUME HeartbeatTypeOK, LogWindow, [InstanceNext]_vars, suppressed' # suppressed
      PROVE  Cause
  <2>1. now \in Int
    BY <1>3, NowGrows
  <2>2. CASE LogRecord
    <3>1. logged' # logged
      BY <1>3, <2>2 DEF LogRecord, LogWindow, LogCounts
    <3>2. (IF WindowOver THEN 0 ELSE sentInWindow) >= Limit
      BY <1>3, <2>2 DEF LogRecord
    <3>3. CASE ~WindowOver
      BY <1>3, <2>1, <3>1, <3>2, <3>3, LimitReached
    <3>4. CASE WindowOver
      <4>1. Limit = 0
        BY <3>2, <3>4, BacklogType
      <4>2. Cardinality(Recent) \in Nat
        <5>1. Len(admissions) \in Nat
          BY <1>3 DEF LogWindow
        <5>2. IsFiniteSet(1 .. Len(admissions))
          BY <5>1, FS_Interval
        <5>3. Recent \subseteq 1 .. Len(admissions)
          BY <1>3 DEF Recent, LogWindow
        <5> QED
          BY <5>2, <5>3, FS_Subset, FS_CardinalityType
      <4> QED
        BY <3>1, <4>1, <4>2
    <3> QED
      BY <3>3, <3>4
  <2>3. CASE PutRecord
    BY <1>3, <2>3, BacklogType DEF PutRecord, LogWindow, LogCounts
  <2>4. CASE ShipRecord \/ UNCHANGED lvars
    BY <1>3, <2>4 DEF ShipRecord, lvars
  <2> QED
    BY <1>3, <2>2, <2>3, <2>4, LogShipStep
<1>4. HeartbeatTypeOK /\ LogWindow /\ [InstanceNext]_vars =>
        [suppressed' # suppressed => Cause]_<<now, lvars>>
  BY <1>3
<1> QED
  BY <1>1, <1>2, <1>4, InstanceBeats, HeartbeatTypeCorrect, PTL
     DEF InstanceSpec, SuppressedForCause

-----------------------------------------------------------------------------
(* Boot and shutdown.                                                      *)

Kinds == {"started", "device", "heartbeat", "log", "stopping"}

InstanceTypeOK ==
  /\ stage \in {"build", "reject", "start", "run", "flush", "drain", "close", "returned"}
  /\ adapters \in [D -> {"none", "open", "closing", "closed", "refused"}]
  /\ closes \in [D -> Nat]
  /\ runners \in [D -> {"off", "running", "done"}]
  /\ queued \in Seq(Kinds)

\* Until all adapters are built nothing runs, and nothing is queued.
BootFirst ==
  stage \in {"build", "reject"} =>
    /\ heart = "off" /\ shipper = "off" /\ \A d \in D : runners[d] = "off"
    /\ ~accepting /\ ~failed /\ queued = <<>>
    /\ stage = "build" => \A d \in D : adapters[d] \in {"none", "open"}

\* While anything runs the adapters are open and the publisher takes events.
Up ==
  stage \in {"start", "run", "flush", "drain"} =>
    /\ accepting /\ ~failed /\ queued # <<>>
    /\ \A d \in D : adapters[d] = "open"

\* The last event comes when all who queue any have ended.
LastWord ==
  IF stage \in {"flush", "drain", "close", "returned"}
    THEN /\ heart # "waiting" /\ shipper # "running" /\ \A d \in D : runners[d] # "running"
         /\ IF failed THEN queued = <<>> ELSE queued # <<>> /\ queued[Len(queued)] = "stopping"
    ELSE \A k \in DOMAIN queued : queued[k] # "stopping"

\* Every adapter that was open is being closed, or was.
Shut == stage \in {"close", "returned"} => \A d \in D : adapters[d] # "open"

\* The list closeAll is given has the adapters that are open, and no other until
\* they are closed.
Listed ==
  /\ readers \subseteq D
  /\ \A d \in D : adapters[d] = "open" => d \in readers
  /\ stage \notin {"close", "returned"} => \A d \in readers : adapters[d] = "open"

FirstWord == \A k \in DOMAIN queued : queued[k] = "started" <=> k = 1

\* Only the last event says that the collector stops.
LastOnly == \A k \in DOMAIN queued : queued[k] = "stopping" => k = Len(queued)

IInv ==
  /\ InstanceTypeOK /\ BootFirst /\ Up /\ LastWord /\ Shut /\ Listed
  /\ FirstWord /\ LastOnly /\ ClosedOnce

LEMMA InvInit == InstanceInit => IInv
<1> SUFFICES ASSUME InstanceInit  PROVE IInv
  OBVIOUS
<1>1. InstanceTypeOK
  BY DEF InstanceInit, InstanceTypeOK
<1> QED
  BY <1>1 DEF InstanceInit, HeartbeatInit, IInv, BootFirst, Up, LastWord, Shut, Listed,
     FirstWord, LastOnly, ClosedOnce

\* An event behind the others, which says neither that the collector started
\* nor that it stops.
LEMMA Told ==
  ASSUME NEW q \in Seq(Kinds), q # <<>>,
         \A k \in DOMAIN q : q[k] = "started" <=> k = 1,
         \A k \in DOMAIN q : q[k] # "stopping",
         NEW e \in Kinds, e # "started"
  PROVE  /\ Append(q, e) \in Seq(Kinds) /\ Append(q, e) # <<>>
         /\ \A k \in DOMAIN Append(q, e) : Append(q, e)[k] = "started" <=> k = 1
         /\ \A k \in DOMAIN Append(q, e) :
              Append(q, e)[k] = "stopping" => k = Len(Append(q, e)) /\ e = "stopping"
         /\ Append(q, e)[Len(Append(q, e))] = e
  BY SMT

\* The first event.
LEMMA First ==
  ASSUME NEW p \in Seq(Kinds), p = <<>>, NEW q, q = Append(p, "started")
  PROVE  /\ q \in Seq(Kinds) /\ q # <<>>
         /\ \A k \in DOMAIN q : k = 1 /\ q[k] = "started"
         /\ 1 \in DOMAIN q
<1>1. Len(p) = 0
  BY EmptySeq, Zenon
<1>2. q \in Seq(Kinds) /\ Len(q) = 1 /\ q[1] = "started"
  <2>1. "started" \in Kinds
    BY DEF Kinds
  <2>2. q \in Seq(Kinds) /\ Len(q) = Len(p) + 1 /\ q[Len(p) + 1] = "started"
    BY <2>1, AppendProperties, Zenon
  <2> QED
    BY <1>1, <2>2
<1>3. DOMAIN q = 1 .. 1
  BY <1>2, SMT
<1> QED
  BY <1>2, <1>3, SMT

\* Steps of boot.
LEMMA BootStep == ASSUME IInv, Boot  PROVE IInv'
<1> USE DEF IInv, BootFirst, Up, LastWord, Shut, Listed, FirstWord, LastOnly,
        ClosedOnce, InstanceTypeOK
<1>1. ASSUME NEW d \in D, BuildReader(d)  PROVE IInv'
  <2>1. /\ adapters[d] = "none" /\ stage = "build" /\ stage' = stage
        /\ adapters' = [adapters EXCEPT ![d] = "open"]
        /\ readers' = readers \cup {d}
        /\ closes' = closes /\ runners' = runners /\ shipper' = shipper /\ heart' = heart
        /\ queued' = queued /\ accepting' = accepting /\ failed' = failed
    BY <1>1 DEF BuildReader, NextDevice, hvars
  <2>2. InstanceTypeOK' /\ BootFirst' /\ LastWord' /\ FirstWord' /\ LastOnly'
    BY <2>1
  <2>3. Up' /\ Shut' /\ Listed' /\ ClosedOnce'
    BY <2>1
  <2> QED
    BY <2>2, <2>3
<1>2. ASSUME NEW d \in D, BuildFails(d)  PROVE IInv'
  BY <1>2 DEF BuildFails, NextDevice, Fail, Closing, CloseAll, hvars
<1>3. ASSUME NEW d \in D, Unreadable(d)  PROVE IInv'
  <2>1. /\ adapters[d] = "none" /\ stage = "build" /\ stage' = "reject"
        /\ adapters' = [adapters EXCEPT ![d] = "closing"]
        /\ closes' = [closes EXCEPT ![d] = @ + 1]
        /\ readers' = readers /\ runners' = runners /\ shipper' = shipper /\ heart' = heart
        /\ queued' = queued /\ accepting' = accepting /\ failed' = failed
    BY <1>3 DEF Unreadable, NextDevice, hvars
  <2>2. InstanceTypeOK' /\ BootFirst' /\ LastWord' /\ FirstWord' /\ LastOnly'
    BY <2>1
  <2>3. Up' /\ Shut' /\ Listed' /\ ClosedOnce'
    BY <2>1
  <2> QED
    BY <2>2, <2>3
<1>4. CASE Rejected
  BY <1>4 DEF Rejected, Fail, Closing, CloseAll, hvars
<1>5. CASE StartFails
  BY <1>5 DEF StartFails, Fail, Closing, CloseAll, hvars
<1>6. CASE Announce
  <2>1. queued = <<>> /\ queued' = Append(queued, "started")
    BY <1>6 DEF Announce
  <2>2. /\ queued' \in Seq(Kinds) /\ queued' # <<>>
        /\ \A k \in DOMAIN queued' : k = 1 /\ queued'[k] = "started"
        /\ 1 \in DOMAIN queued'
    BY <2>1, First
  <2>3. /\ UNCHANGED <<readers, adapters, closes, runners, shipper>>
        /\ heart' = heart /\ stage' = "start"
        /\ \A d \in D : adapters[d] = "open"
    BY <1>6 DEF Announce, hvars
  <2>4. accepting' /\ ~failed'
    BY <1>6 DEF Announce
  <2>5. /\ InstanceTypeOK' /\ BootFirst' /\ LastWord' /\ Shut'
        /\ FirstWord' /\ LastOnly' /\ ClosedOnce'
    BY <1>6, <2>2, <2>3 DEF Announce
  <2>6. Up'
    BY <2>2, <2>3, <2>4
  <2>7. Listed'
    BY <1>6, <2>3 DEF Announce
  <2> QED
    BY <2>5, <2>6, <2>7
<1>7. ASSUME NEW d \in D, StartRunner(d)  PROVE IInv'
  BY <1>7 DEF StartRunner, hvars
<1>8. CASE StartHeartbeat
  BY <1>8 DEF StartHeartbeat, StartHeart, avars
<1>9. CASE StartShipper
  BY <1>9 DEF StartShipper, hvars
<1> QED
  BY <1>1, <1>2, <1>3, <1>4, <1>5, <1>6, <1>7, <1>8, <1>9 DEF Boot

\* Whoever runs queues an event behind the first one, and before the last.
LEMMA SinkStep ==
  ASSUME IInv, stage \in {"start", "run"}, NEW e \in Kinds \ {"started", "stopping"}, Sink(e),
         stage' = stage, UNCHANGED <<failed, readers, adapters, closes, runners, shipper, accepting>>,
         heart' = heart
  PROVE  IInv'
<1>1. queued' = Append(queued, e)
  BY DEF IInv, Up, Sink
<1>2. /\ queued' \in Seq(Kinds) /\ queued' # <<>>
      /\ \A k \in DOMAIN queued' : queued'[k] = "started" <=> k = 1
      /\ \A k \in DOMAIN queued' : queued'[k] # "stopping"
  <2>1. queued \in Seq(Kinds) /\ queued # <<>>
    BY DEF IInv, InstanceTypeOK, Up
  <2>2. /\ \A k \in DOMAIN queued : queued[k] = "started" <=> k = 1
        /\ \A k \in DOMAIN queued : queued[k] # "stopping"
    BY DEF IInv, LastWord, FirstWord
  <2>3. e \in Kinds /\ e # "started" /\ e # "stopping"
    OBVIOUS
  <2> QED
    BY <1>1, <2>1, <2>2, <2>3, Told
<1>3. InstanceTypeOK' /\ BootFirst' /\ Shut' /\ Listed' /\ ClosedOnce'
  BY <1>2 DEF IInv, InstanceTypeOK, BootFirst, Shut, Listed, ClosedOnce
<1>4. Up'
  <2>1. accepting' /\ ~failed'
    BY DEF IInv, Up
  <2> QED
    BY <1>2, <2>1 DEF IInv, Up
<1>5. LastWord' /\ FirstWord' /\ LastOnly'
  BY <1>2 DEF LastWord, FirstWord, LastOnly
<1> QED
  BY <1>3, <1>4, <1>5 DEF IInv

\* Steps of what runs.
LEMMA RunStep ==
  ASSUME IInv,
         \/ Cancel \/ HeartBeats \/ HeartEnds \/ Ships \/ ShipperEnds
         \/ Logs \/ Puts \/ TimePasses \/ ClockIsSet
         \/ \E d \in D : RunnerTells(d) \/ RunnerEnds(d) \/ Closed(d)
  PROVE  IInv'
<1>1. ASSUME NEW d \in D, RunnerTells(d)  PROVE IInv'
  <2>1. stage \in {"start", "run"}
    BY <1>1 DEF IInv, InstanceTypeOK, BootFirst, LastWord, RunnerTells
  <2> QED
    BY <1>1, <2>1, SinkStep DEF RunnerTells, Kinds, hvars
<1>2. CASE HeartBeats
  <2>1. stage \in {"start", "run"} /\ heart' = heart
    BY <1>2 DEF IInv, InstanceTypeOK, BootFirst, LastWord, HeartBeats, Beat
  <2> QED
    BY <1>2, <2>1, SinkStep DEF HeartBeats, Kinds
<1>3. CASE Ships
  <2>1. stage \in {"start", "run"}
    BY <1>3 DEF IInv, InstanceTypeOK, BootFirst, LastWord, Ships
  <2> QED
    BY <1>3, <2>1, SinkStep DEF Ships, Kinds, hvars
<1> USE DEF IInv, BootFirst, Up, LastWord, Shut, Listed, FirstWord, LastOnly, ClosedOnce,
        InstanceTypeOK
<1>4. CASE Cancel
  BY <1>4 DEF Cancel, hvars
<1>5. ASSUME NEW d \in D, RunnerEnds(d)  PROVE IInv'
  BY <1>5 DEF RunnerEnds, hvars
<1>6. CASE HeartEnds
  BY <1>6 DEF HeartEnds, StopHeart, avars
<1>7. CASE ShipperEnds
  BY <1>7 DEF ShipperEnds, hvars
<1>8. CASE Logs \/ Puts
  BY <1>8 DEF Logs, Puts, hvars, avars
<1>9. CASE TimePasses \/ ClockIsSet
  BY <1>9 DEF TimePasses, Tick, ClockIsSet, SetClock, avars
<1>10. ASSUME NEW d \in D, Closed(d)  PROVE IInv'
  BY <1>10 DEF Closed, hvars
<1> QED
  BY <1>1, <1>2, <1>3, <1>4, <1>5, <1>6, <1>7, <1>8, <1>9, <1>10

\* Steps of shutdown.
LEMMA ShutdownStep == ASSUME IInv, Shutdown  PROVE IInv'
<1>1. CASE TellStopping
  <2>1. /\ accepting /\ ~failed /\ queued' = Append(queued, "stopping")
        /\ stage' = "flush"
    BY <1>1 DEF TellStopping, Sink, IInv, Up
  <2>2. /\ queued' \in Seq(Kinds) /\ queued' # <<>>
        /\ \A k \in DOMAIN queued' : queued'[k] = "started" <=> k = 1
        /\ \A k \in DOMAIN queued' : queued'[k] = "stopping" => k = Len(queued')
        /\ queued'[Len(queued')] = "stopping"
    <3>1. /\ queued \in Seq(Kinds) /\ queued # <<>>
          /\ \A k \in DOMAIN queued : queued[k] = "started" <=> k = 1
          /\ \A k \in DOMAIN queued : queued[k] # "stopping"
      BY <1>1 DEF TellStopping, IInv, InstanceTypeOK, Up, LastWord, FirstWord
    <3>2. "stopping" \in Kinds /\ "stopping" # "started"
      BY DEF Kinds
    <3> QED
      BY <2>1, <3>1, <3>2, Told
  <2>3. accepting' /\ ~failed'
    BY <1>1, <2>1 DEF TellStopping
  <2>4. /\ UNCHANGED <<readers, adapters, closes, runners, shipper>> /\ heart' = heart
        /\ \A d \in D : adapters[d] = "open" /\ runners[d] = "done"
        /\ heart = "done" /\ shipper = "done"
    BY <1>1 DEF TellStopping, AllEnded, IInv, Up, hvars
  <2>5. /\ InstanceTypeOK' /\ BootFirst' /\ Shut' /\ Listed'
        /\ FirstWord' /\ LastOnly' /\ ClosedOnce'
    BY <2>1, <2>2, <2>4 DEF IInv, InstanceTypeOK, BootFirst, Shut, Listed, FirstWord, LastOnly,
       ClosedOnce
  <2>6. Up'
    BY <2>2, <2>3, <2>4 DEF Up
  <2>7. LastWord'
    BY <2>1, <2>2, <2>3, <2>4 DEF LastWord
  <2> QED
    BY <2>5, <2>6, <2>7 DEF IInv
<1> USE DEF IInv, BootFirst, Up, LastWord, Shut, Listed, FirstWord, LastOnly, ClosedOnce,
        InstanceTypeOK
<1>2. CASE Flush
  BY <1>2 DEF Flush, hvars
<1>3. CASE Drain
  BY <1>3 DEF Drain, Closing, CloseAll, hvars
<1>4. CASE Return
  BY <1>4 DEF Return, hvars
<1> QED
  BY <1>1, <1>2, <1>3, <1>4 DEF Shutdown

\* The state of what boot and shutdown do is as IInv says.
THEOREM Invariance == InstanceSpec => []IInv
<1>1. ASSUME IInv, [InstanceNext]_vars  PROVE IInv'
  <2>1. CASE UNCHANGED vars
    BY <1>1, <2>1 DEF vars, hvars, avars, IInv, BootFirst, Up, LastWord, Shut, Listed, FirstWord,
       LastOnly, ClosedOnce, InstanceTypeOK
  <2> QED
    BY <1>1, <2>1, BootStep, RunStep, ShutdownStep DEF InstanceNext
<1> QED
  BY InvInit, <1>1, PTL DEF InstanceSpec

\* An event behind the others is one more log record, or none.
LEMMA OneMore ==
  ASSUME NEW q \in Seq(Kinds), NEW e \in Kinds
  PROVE  LET of(s) == {k \in DOMAIN s : s[k] = "log"}
         IN  /\ Cardinality(of(q)) \in Nat
             /\ Cardinality(of(Append(q, e))) =
                  IF e = "log" THEN Cardinality(of(q)) + 1 ELSE Cardinality(of(q))
<1> DEFINE of(s) == {k \in DOMAIN s : s[k] = "log"}
           end == Len(q) + 1
<1>1. Len(q) \in Nat /\ DOMAIN q = 1 .. Len(q)
  BY LenProperties
<1>2. IsFiniteSet(of(q))
  <2>1. IsFiniteSet(1 .. Len(q))
    BY <1>1, FS_Interval
  <2>2. of(q) \subseteq 1 .. Len(q)
    BY <1>1
  <2> QED
    BY <2>1, <2>2, FS_Subset
<1>3. end \notin of(q)
  BY <1>1
<1>4. /\ DOMAIN Append(q, e) = DOMAIN q \cup {end} /\ Append(q, e)[end] = e
      /\ \A k \in DOMAIN q : Append(q, e)[k] = q[k]
  BY <1>1
<1>5. of(Append(q, e)) = IF e = "log" THEN of(q) \cup {end} ELSE of(q)
  BY <1>4
<1>6. Cardinality(of(q) \cup {end}) = Cardinality(of(q)) + 1
  BY <1>2, <1>3, FS_AddElement
<1> QED
  BY <1>2, <1>5, <1>6, FS_CardinalityType

\* What the shipper took is published: the publisher takes events until the
\* shipper has ended.
Delivered == shipped = Cardinality(Published)

LEMMA DeliveredStep ==
  ASSUME IInv, Delivered, [InstanceNext]_vars
  PROVE  Delivered'
<1> DEFINE Other == /\ shipped' = shipped
                    /\ \/ queued' = queued
                       \/ \E e \in Kinds \ {"log"} : queued' = Append(queued, e)
<1>1. queued \in Seq(Kinds)
  BY DEF IInv, InstanceTypeOK
<1>2. CASE Other
  <2>1. CASE queued' = queued
    BY <1>2, <2>1 DEF Delivered, Published
  <2>2. ASSUME NEW e \in Kinds \ {"log"}, queued' = Append(queued, e)  PROVE Delivered'
    BY <1>1, <1>2, <2>2, OneMore DEF Delivered, Published
  <2> QED
    BY <1>2, <2>1, <2>2
<1>3. CASE Ships
  <2>1. shipped' = shipped + 1
    BY <1>3 DEF Ships, ShipRecord
  <2>2. accepting
    BY <1>3 DEF IInv, InstanceTypeOK, BootFirst, LastWord, Up, Ships
  <2>3. queued' = Append(queued, "log")
    BY <1>3, <2>2 DEF Ships, Sink
  <2> QED
    BY <1>1, <2>1, <2>3, OneMore DEF Delivered, Published, Kinds
<1>4. CASE Boot
  BY <1>4, <1>2 DEF Boot, BuildReader, BuildFails, Unreadable, Rejected, StartFails, Announce,
     StartRunner, StartHeartbeat, StartShipper, avars, lvars, Kinds
<1>5. CASE Shutdown
  BY <1>5, <1>2 DEF Shutdown, TellStopping, Flush, Drain, Return, Sink, lvars, Kinds
<1>6. CASE \E d \in D : RunnerTells(d) \/ RunnerEnds(d) \/ Closed(d)
  BY <1>6, <1>2 DEF RunnerTells, RunnerEnds, Closed, Sink, lvars, Kinds
<1>7. CASE HeartBeats \/ HeartEnds \/ TimePasses \/ ClockIsSet
  BY <1>7, <1>2 DEF HeartBeats, HeartEnds, TimePasses, ClockIsSet, Sink, lvars, avars, Kinds
<1>8. CASE Cancel \/ ShipperEnds \/ Logs \/ Puts
  BY <1>8, <1>2 DEF Cancel, ShipperEnds, Logs, Puts, LogRecord, PutRecord, lvars, avars
<1>9. CASE UNCHANGED vars
  BY <1>9, <1>2 DEF vars, lvars, avars
<1> QED
  BY <1>3, <1>4, <1>5, <1>6, <1>7, <1>8, <1>9 DEF InstanceNext

\* However many loggers there are and whatever the limit, a log record is
\* published, counted or with its logger, or else in the channel, which is
\* bounded: uncounted it is lost only by a collector that is stopping or failed
\* to boot (logship.go:116-151, app.go:230-251).
THEOREM RecordsAccounted == InstanceSpec => []LogsAccounted
<1> DEFINE Ends == shipper = "done" => cancelled
<1>1. InstanceInit => LogAccount /\ Ends /\ Delivered
  <2> SUFFICES ASSUME InstanceInit  PROVE LogAccount /\ Ends /\ Delivered
    OBVIOUS
  <2>1. Published = {} /\ shipped = 0
    BY DEF InstanceInit, LogShipInit, Published
  <2> QED
    BY <2>1, BacklogType, FS_EmptySet DEF InstanceInit, LogShipInit, LogCounts, LogAccount, Delivered
<1>2. LogAccount /\ Ends /\ [InstanceNext]_vars => (LogAccount /\ Ends)'
  BY LogStep, LogShipStep, ShipperStep
<1>3. IInv /\ Delivered /\ [InstanceNext]_vars => Delivered'
  BY DeliveredStep
<1>4. LogAccount /\ Ends /\ Delivered => LogsAccounted
  <2> SUFFICES ASSUME LogAccount, Ends, Delivered  PROVE LogsAccounted
    OBVIOUS
  <2>1. /\ logged - (Cardinality(Published) + suppressed + inHand) = channel
        /\ channel <= Backlog * Limit
    BY DEF LogAccount, LogCounts, Delivered
  <2>2. ShippingOver => cancelled \/ failed
    BY DEF ShippingOver
  <2> QED
    BY <2>1, <2>2 DEF LogsAccounted
<1> QED
  BY <1>1, <1>2, <1>3, <1>4, Invariance, PTL DEF InstanceSpec

\* The first event of a run is that the collector started, the last one that it
\* stops, and a boot that fails queues none (app.go:142-150, 187-192, 248-255).
THEOREM AlwaysAnnounced == InstanceSpec => []Announced
<1>1. IInv => Announced
  BY DEF IInv, FirstWord, LastOnly, LastWord, Announced
<1> QED
  BY <1>1, Invariance, PTL

\* An adapter that was built is closed once, when Run returns or boot fails
\* behind it, and not while its runner runs (app.go:142-151, 278-320).
THEOREM AdaptersClosedOnce == InstanceSpec => []ClosedOnce
<1>1. IInv => ClosedOnce
  BY DEF IInv
<1> QED
  BY <1>1, Invariance, PTL
=============================================================================
