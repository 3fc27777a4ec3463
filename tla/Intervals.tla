------------------------------ MODULE Intervals ------------------------------
(***************************************************************************)
(* The differs of sensors that bin by themselves: traffic intervals        *)
(* (internal/synth/trafficsensor.go) and zone intervals (internal/synth/   *)
(* perception.go), under Engine.Apply (internal/synth/synth.go).  The      *)
(* sensor presents its latest interval to every poll until the next one is *)
(* complete; its lanes or zones may be missing from an answer.  No adapter *)
(* in the repository provides these facets yet; the sensor is what their   *)
(* types in sdk/model say of it.                                           *)
(***************************************************************************)
EXTENDS Naturals

CONSTANTS
  NoInterval,    \* no facet: prevInterval is nil
  MaxInterval    \* bound: intervals the sensor completes

ASSUME IntervalsAssumption ==
  /\ MaxInterval \in Nat \ {0}
  /\ NoInterval \notin [start : Nat, rows : BOOLEAN]

VARIABLES
  reportKind,     \* which of the two facet kinds this is about
  interval,       \* the start of the interval the sensor presents
  prevInterval,   \* e.prev[device][reportKind]
  toldIntervals,  \* history: events emitted, as <<type, interval>>
  again,          \* history: those emitted when they had been before
  measured,       \* history: intervals a good read saw with lanes or zones
  emptied,        \* history: intervals a good read saw without
  forgot          \* history: intervals during which a boot remembered nothing

ihistory == <<toldIntervals, again, measured, emptied, forgot>>
ivars    == <<reportKind, interval, prevInterval, ihistory>>

Starts == 1 .. MaxInterval

\* A facet: the start of its interval and whether it has any lane or zone.
Facets == [start : Starts, rows : BOOLEAN]

-----------------------------------------------------------------------------
\* The differs.

\* Fault: an answer without rows does not count as having seen the interval.
SameIntervalWithRows(p, c) == p # NoInterval /\ p.rows /\ p.start = c.start

\* Fault: the first interval is the one a counter would have no basis for.
SameIntervalOrFirst(p, c) == p = NoInterval \/ p.start = c.start

\* Whether a facet shows the interval the last one showed.
SameInterval(p, c) == p # NoInterval /\ p.start = c.start

New(p, c) == c.rows /\ ~SameInterval(p, c)

\* A traffic interval is one event, a zone interval two: crossings and
\* presence.
Types == IF reportKind = "traffic-intervals"
           THEN {"traffic-interval-report"}
           ELSE {"zone-interval-report", "zone-occupancy-interval-report"}

IntervalDiff(p, c) == IF New(p, c) THEN {<<type, c.start>> : type \in Types} ELSE {}

-----------------------------------------------------------------------------
IntervalInit ==
  /\ reportKind \in {"traffic-intervals", "zone-intervals"}
  /\ interval = 1
  /\ prevInterval = NoInterval
  /\ toldIntervals = {} /\ again = {}
  /\ measured = {} /\ emptied = {} /\ forgot = {}

\* The sensor completes its next interval.
NextInterval ==
  /\ interval < MaxInterval
  /\ interval' = interval + 1
  /\ UNCHANGED <<reportKind, prevInterval, ihistory>>

\* A read is good when the adapter does not report the kind as failed.
ApplyInterval(rows, failed) ==
  LET c == [start |-> interval, rows |-> rows]
      events == IF failed THEN {} ELSE IntervalDiff(prevInterval, c)
  IN  /\ prevInterval' = IF failed THEN prevInterval ELSE c
      /\ toldIntervals' = toldIntervals \cup events
      /\ again' = again \cup (toldIntervals \cap events)
      /\ IF failed
           THEN UNCHANGED <<measured, emptied>>
           ELSE IF rows
             THEN measured' = measured \cup {interval} /\ UNCHANGED emptied
             ELSE emptied' = emptied \cup {interval} /\ UNCHANGED measured
      /\ UNCHANGED <<reportKind, interval, forgot>>

\* A boot that remembers nothing; one that remembers changes nothing.
ForgetInterval ==
  /\ prevInterval' = NoInterval
  /\ forgot' = forgot \cup {interval}
  /\ UNCHANGED <<reportKind, interval, toldIntervals, again, measured, emptied>>

IntervalNext ==
  \/ NextInterval
  \/ \E rows, failed \in BOOLEAN : ApplyInterval(rows, failed)
  \/ ForgetInterval

IntervalSpec == IntervalInit /\ [][IntervalNext]_ivars

-----------------------------------------------------------------------------
\* Everything has its type.
IntervalTypeOK ==
  /\ reportKind \in {"traffic-intervals", "zone-intervals"}
  /\ interval \in Starts
  /\ prevInterval \in Facets \cup {NoInterval}
  /\ toldIntervals \subseteq Types \X Starts /\ again \subseteq toldIntervals
  /\ measured \subseteq Starts /\ emptied \subseteq Starts /\ forgot \subseteq Starts

\* However often it is polled, and with failed reads and answers without rows
\* in between, no interval is reported twice, so sums over the stream are
\* right (trafficsensor.go:34-37); twice takes a boot that remembered nothing.
NeverTwice == \A e \in again : e[2] \in forgot

\* An interval that was measured is reported, by each of its events, unless an
\* answer without rows came before.
MeasuredIsTold == Types \X (measured \ emptied) \subseteq toldIntervals
=============================================================================
