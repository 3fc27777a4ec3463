----------------------------- MODULE Transitions -----------------------------
(***************************************************************************)
(* The differs that report transitions: signal status (internal/synth/     *)
(* signal.go), message signs (dms.go) and cameras (cctv.go), under         *)
(* Engine.Apply (internal/synth/synth.go), with a consumer that follows    *)
(* the events axis by axis.                                                *)
(*                                                                         *)
(* A facet is a function from its axes to values; a camera has an axis for *)
(* each tour in its table.  The face of a sign (memory type, slot, CRC and *)
(* text) is one axis, a preemption that is activated or cleared moves one  *)
(* from FALSE to TRUE or back.  The events of a poll are on different      *)
(* axes, so their fixed order makes no difference to the consumer.         *)
(***************************************************************************)

CONSTANTS
  Modes, Plans,                       \* of a signal controller
  ControlModes, DisplayStates, Faces, \* of a sign
  Triggers,                           \* why a sign shows its message
  StatusUnknown, StatusError, StatusValid, \* MessageStatus
  Tours, TourStates,                  \* of a camera, which has ControlModes too
  None,                               \* no facet: prev is nil
  Untold                              \* nothing was said of an axis yet

SignalAxes == {"mode", "plan", "preemption"}
DMSAxes    == {"control", "display", "face"}
Axes       == SignalAxes \cup DMSAxes \cup Tours

SignalStatus == [mode : Modes, plan : Plans, preemption : BOOLEAN]

DMSStatus == [control : ControlModes, display : DisplayStates, face : Faces,
              trigger : Triggers,
              status : {StatusUnknown, StatusError, StatusValid}]

CCTVStatus ==
  UNION {{f \in [{"control"} \cup S -> ControlModes \cup TourStates] :
            f["control"] \in ControlModes /\ \A t \in S : f[t] \in TourStates}
         : S \in SUBSET Tours}

ASSUME TransitionsAssumption ==
  /\ Tours \cap (SignalAxes \cup DMSAxes \cup {"trigger", "status"}) = {}
  /\ None \notin SignalStatus \cup DMSStatus \cup CCTVStatus

FacetsOf(k) == CASE k = "signal-status" -> SignalStatus
                 [] k = "dms-status"    -> DMSStatus
                 [] k = "cctv-status"   -> CCTVStatus

VARIABLES
  kind,     \* which of the three facet kinds this is about
  prev,     \* e.prev[device][kind]
  events,   \* what the last Apply returned
  seen,     \* history: the facet of the last good read
  known,    \* history: what the consumer was told last of each axis
  missed,   \* history: axes that may have moved where no differ could see it
  healthy   \* history: whether the sign was seen without an error since its
            \* last failure event

vars == <<kind, prev, events, seen, known, missed, healthy>>

Empty == [a \in {} |-> Untold]

Silence == [report |-> Empty, moves |-> Empty, failure |-> FALSE]

-----------------------------------------------------------------------------
\* The differs.  A report restates axes whether they moved or not.

\* Fault: the ends of a transition are swapped.
MovesSwapped(axes, p, c) ==
  [a \in {b \in axes : p[b] # c[b]} |-> [from |-> c[a], to |-> p[a]]]

Moves(axes, p, c) ==
  [a \in {b \in axes : p[b] # c[b]} |-> [from |-> p[a], to |-> c[a]]]

StatusReport(p, c) == [a \in {"mode", "plan"} |-> c[a]]

SignalDiff(p, c) ==
  [report  |-> StatusReport(p, c),
   moves   |-> IF p = None THEN Empty ELSE Moves(SignalAxes, p, c),
   failure |-> FALSE]

\* Fault: leaving an unknown status for an error is a failure too.
FailsFromUnknown(p, c) == p.status # StatusError /\ c.status = StatusError

\* Only the transition into an error is a failure, and only from a status
\* that is understood.
Fails(p, c) ==
  /\ p.status \notin {StatusUnknown, StatusError}
  /\ c.status = StatusError

DMSDiff(p, c) ==
  IF p = None THEN Silence
  ELSE [report  |-> Empty,
        moves   |-> Moves(DMSAxes, p, c),
        failure |-> Fails(p, c)]

\* Tours that are in the table now and were in it before.
KnownTours(p, c) == (DOMAIN c \cap DOMAIN p) \ {"control"}

CCTVDiff(p, c) ==
  IF p = None THEN Silence
  ELSE [report  |-> Empty,
        moves   |-> Moves({"control"} \cup KnownTours(p, c), p, c),
        failure |-> FALSE]

Diff(p, c) == CASE kind = "signal-status" -> SignalDiff(p, c)
                [] kind = "dms-status"    -> DMSDiff(p, c)
                [] kind = "cctv-status"   -> CCTVDiff(p, c)

-----------------------------------------------------------------------------
\* The consumer.

Told(e) == DOMAIN e.moves \cup DOMAIN e.report

Follow(k, e) ==
  [a \in Axes |-> IF a \in DOMAIN e.moves THEN e.moves[a].to
                  ELSE IF a \in DOMAIN e.report THEN e.report[a]
                  ELSE k[a]]

-----------------------------------------------------------------------------
Init ==
  /\ kind \in {"signal-status", "dms-status", "cctv-status"}
  /\ prev = None /\ seen = None
  /\ events = Silence
  /\ known = [a \in Axes |-> Untold]
  /\ missed = {} /\ healthy = TRUE

Left(p, c) == IF p = None THEN {} ELSE DOMAIN p \ DOMAIN c

\* Fault: a facet that came with an error is diffed.
EvidenceAlways(failed) == TRUE

\* Whether a facet in a snapshot is evidence: not when the adapter reports
\* the kind as failed besides.
Evidence(failed) == ~failed

\* A snapshot with a facet of the kind.  One that is not evidence may hold
\* anything.
Apply(c, failed) ==
  /\ IF Evidence(failed)
       THEN events' = Diff(prev, c) /\ prev' = c
       ELSE events' = Silence /\ UNCHANGED prev
  /\ known' = Follow(known, events')
  /\ IF failed
       THEN UNCHANGED <<seen, missed, healthy>>
       ELSE /\ seen' = c
            /\ missed' = (missed \cup Left(prev, c)) \ Told(events')
            /\ healthy' = \/ healthy /\ ~events'.failure
                          \/ kind = "dms-status" /\ c.status = StatusValid
  /\ UNCHANGED kind

\* Boots: the device is seeded with what was known, or with nothing.
SeedKept ==
  /\ events' = Silence
  /\ UNCHANGED <<kind, prev, seen, known, missed, healthy>>

SeedEmpty ==
  /\ events' = Silence
  /\ prev' = None
  /\ missed' = Axes
  /\ UNCHANGED <<kind, seen, known, healthy>>

Next ==
  \/ \E c \in FacetsOf(kind), failed \in BOOLEAN : Apply(c, failed)
  \/ SeedKept
  \/ SeedEmpty

Spec == Init /\ [][Next]_vars

-----------------------------------------------------------------------------
\* Everything has its type.
TypeOK ==
  /\ kind \in {"signal-status", "dms-status", "cctv-status"}
  /\ prev \in FacetsOf(kind) \cup {None} /\ seen \in FacetsOf(kind) \cup {None}
  /\ DOMAIN known = Axes
  /\ missed \subseteq Axes
  /\ healthy \in BOOLEAN

\* What the consumer was told last of an axis is what the last good read saw,
\* over failed reads and boots, unless the axis may have moved where no
\* differ could see it: behind a boot that remembered nothing, or while its
\* tour was out of the camera's table.
Followed ==
  seen # None =>
    \A a \in (DOMAIN seen \cap Axes) \ missed : known[a] \in {Untold, seen[a]}

\* A status report says all that the mode and the plan are, so a signal's
\* consumer is right about both after any boot as soon as one read is good.
ReportsHeal ==
  (kind = "signal-status" /\ prev # None) =>
    /\ known["mode"] = seen["mode"] /\ known["plan"] = seen["plan"]

\* A transition starts where the last one of its axis ended, with the same
\* exceptions: no event has a From that contradicts what was said before.
Chained ==
  [][\A a \in DOMAIN events'.moves \ missed :
       known[a] \in {Untold, events'.moves[a].from}]_vars

\* A sign that stays in error, or reports now an error and now a status that
\* means nothing, has its failure told once (dms.go:61-62): between two
\* failure events it was seen without an error.
FailureToldOnce == [][events'.failure => healthy]_vars
=============================================================================
