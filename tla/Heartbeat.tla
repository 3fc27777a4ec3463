------------------------------- MODULE Heartbeat -------------------------------
(***************************************************************************)
(* The collector's heartbeat (internal/app/heartbeat.go).  Beats are due   *)
(* at wall-clock slots, and a timer, which runs on the monotonic clock, is *)
(* armed for the next one after each beat.  The wall clock of a cabinet    *)
(* may be set while the timer runs, and may start at the epoch.            *)
(***************************************************************************)
EXTENDS Integers

CONSTANTS
  Interval,   \* between two slots, heartbeatInterval
  Offsets     \* what the wall clock may be ahead of the monotonic one

ASSUME HeartbeatAssumption == Interval \in Nat \ {0} /\ Offsets \subseteq Int

VARIABLES
  now,        \* the monotonic clock
  offset,     \* the wall clock, less the monotonic one
  phase,      \* the collector's own, from its id
  heart,      \* "off", "waiting", "done"
  due,        \* when the timer fires, on the monotonic clock
  lastBeat,   \* history: when it was armed, on the last beat or the start
  adjusted    \* history: whether the wall clock was set since then

hvars == <<now, offset, phase, heart, due, lastBeat, adjusted>>

Wall == now + offset

\* Of integers, as Go has it: the sign is that of the dividend.
Rem(a, b) == IF a >= 0 THEN a % b ELSE -((-a) % b)

Slot(wall) == wall - phase - Rem(wall - phase, Interval) + phase

\* Fault: a slot that is now is taken for the next one.
NextBeatFromNow(wall) ==
  IF Slot(wall) >= wall THEN Slot(wall) ELSE Slot(wall) + Interval

\* The slot is the one before a time after the phase, and the one after a time
\* before it.  So one round of the code's loop is enough.
NextBeat(wall) == IF Slot(wall) > wall THEN Slot(wall) ELSE Slot(wall) + Interval

\* The hash of the collector's id is any number.
HeartbeatInit ==
  /\ now = 0 /\ offset \in Offsets
  /\ phase \in 0 .. Interval - 1
  /\ heart = "off" /\ due = 0 /\ lastBeat = 0 /\ adjusted = FALSE

Arm == /\ due' = now + (NextBeat(Wall) - Wall)
       /\ lastBeat' = now /\ adjusted' = FALSE

StartHeart ==
  /\ heart = "off"
  /\ heart' = "waiting" /\ Arm
  /\ UNCHANGED <<now, offset, phase>>

\* The timer has fired, some time ago maybe, and is armed again.
Beat ==
  /\ heart = "waiting" /\ now >= due
  /\ Arm
  /\ UNCHANGED <<now, offset, phase, heart>>

StopHeart ==
  /\ heart = "waiting"
  /\ heart' = "done"
  /\ UNCHANGED <<now, offset, phase, due, lastBeat, adjusted>>

Tick ==
  /\ now' = now + 1
  /\ UNCHANGED <<offset, phase, heart, due, lastBeat, adjusted>>

SetClock(o) ==
  /\ o # offset
  /\ offset' = o /\ adjusted' = TRUE
  /\ UNCHANGED <<now, phase, heart, due, lastBeat>>

HeartbeatNext ==
  \/ StartHeart \/ Beat \/ StopHeart \/ Tick
  \/ \E o \in Offsets : SetClock(o)

HeartbeatSpec == HeartbeatInit /\ [][HeartbeatNext]_hvars

-----------------------------------------------------------------------------
HeartbeatTypeOK ==
  /\ now \in Nat /\ offset \in Int /\ phase \in 0 .. Interval - 1
  /\ heart \in {"off", "waiting", "done"}
  /\ due \in Int /\ lastBeat \in Nat /\ adjusted \in BOOLEAN

\* A beat is due later than the one before it was told and within an interval
\* of it, whatever is done to the wall clock, so that a hub's dead-man timer is
\* not fooled; and it is due on a slot unless the clock was set while the timer
\* ran (heartbeat.go:25-36, 38-56).
BeatsOnTime ==
  heart = "waiting" =>
    /\ lastBeat < due /\ due <= lastBeat + Interval
    /\ ~adjusted => (due + offset - phase) % Interval = 0
=============================================================================
