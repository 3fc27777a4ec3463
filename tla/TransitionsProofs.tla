------------------------- MODULE TransitionsProofs -------------------------
(***************************************************************************)
(* Theorems about Transitions, for all modes, plans, faces, tours and so   *)
(* on.  The three differs have one shape, stated as a lemma; the rest is   *)
(* about that shape.  Then theorems about Ntcip, for every set of values   *)
(* an agent may answer: what the adapters feed the engine is what          *)
(* Transitions takes, so its theorems hold of the device's answers too,    *)
(* and what a sign does not answer makes no event.                         *)
(***************************************************************************)
EXTENDS Ntcip, TLAPS

Kinds == {"signal-status", "dms-status", "cctv-status"}

\* The axes a facet of each kind has.
LEMMA FacetAxes ==
  ASSUME NEW c
  PROVE  /\ c \in SignalStatus => DOMAIN c = SignalAxes
         /\ c \in DMSStatus => DOMAIN c = DMSAxes \cup {"trigger", "status"}
         /\ c \in CCTVStatus => /\ "control" \in DOMAIN c
                                /\ DOMAIN c \subseteq {"control"} \cup Tours
  <1>1. c \in SignalStatus => DOMAIN c = SignalAxes
    BY DEF SignalStatus, SignalAxes
  <1>2. c \in DMSStatus => DOMAIN c = DMSAxes \cup {"trigger", "status"}
    BY DEF DMSStatus, DMSAxes
  <1>3. ASSUME c \in CCTVStatus
        PROVE  "control" \in DOMAIN c /\ DOMAIN c \subseteq {"control"} \cup Tours
    <2>1. PICK S \in SUBSET Tours : c \in [{"control"} \cup S -> ControlModes \cup TourStates]
      BY <1>3 DEF CCTVStatus
    <2>2. QED
      BY <2>1
  <1>4. QED
    BY <1>1, <1>2, <1>3

\* What all three differs have in common.
Shape(d, p, c) ==
  /\ DOMAIN d.moves \subseteq DOMAIN c \cap Axes
  /\ \A a \in DOMAIN d.moves :
       p # None /\ d.moves[a].from = p[a] /\ d.moves[a].to = c[a] /\ a \in DOMAIN p
  /\ DOMAIN d.report \subseteq DOMAIN c \cap Axes
  /\ \A a \in DOMAIN d.report : d.report[a] = c[a]
  /\ p # None =>
       \A a \in (DOMAIN p \cap DOMAIN c \cap Axes) \ DOMAIN d.moves : p[a] = c[a]
  /\ d.failure => /\ kind = "dms-status" /\ p # None
                  /\ p.status = StatusValid

\* A diff that moves the axes both facets have is of that shape.
LEMMA ShapeOfMoves ==
  ASSUME NEW d, NEW p, NEW c, NEW axes,
         p # None,
         d.moves = Moves(axes, p, c),
         axes = DOMAIN p \cap DOMAIN c \cap Axes,
         DOMAIN d.report \subseteq DOMAIN c \cap Axes,
         \A a \in DOMAIN d.report : d.report[a] = c[a],
         d.failure => kind = "dms-status" /\ p.status = StatusValid
  PROVE  Shape(d, p, c)
  <1>1. DOMAIN d.moves = {a \in axes : p[a] # c[a]}
    BY DEF Moves
  <1>2. \A a \in DOMAIN d.moves : d.moves[a].from = p[a] /\ d.moves[a].to = c[a]
    BY DEF Moves
  <1>3. DOMAIN d.moves \subseteq DOMAIN c \cap Axes
    BY <1>1
  <1>4. \A a \in DOMAIN d.moves :
          p # None /\ d.moves[a].from = p[a] /\ d.moves[a].to = c[a] /\ a \in DOMAIN p
    BY <1>1, <1>2
  <1>5. \A a \in (DOMAIN p \cap DOMAIN c \cap Axes) \ DOMAIN d.moves : p[a] = c[a]
    BY <1>1
  <1>6. QED
    BY <1>3, <1>4, <1>5 DEF Shape

\* Axes are axes of tours, of signals or of signs.
LEMMA AxesApart ==
  /\ Tours \cap (SignalAxes \cup DMSAxes \cup {"trigger", "status"}) = {}
  /\ {"mode", "plan"} \subseteq SignalAxes
  BY TransitionsAssumption DEF TransitionsAssumption, SignalAxes

\* Every differ has that shape.
LEMMA DiffShape ==
  ASSUME kind \in Kinds, NEW p \in FacetsOf(kind) \cup {None}, NEW c \in FacetsOf(kind)
  PROVE  Shape(Diff(p, c), p, c)
  <1>1. CASE kind = "signal-status"
    <2>1. Diff(p, c) = SignalDiff(p, c) /\ c \in SignalStatus /\ p \in SignalStatus \cup {None}
      BY <1>1 DEF Diff, FacetsOf
    <2>2. DOMAIN c = SignalAxes /\ (p # None => DOMAIN p = SignalAxes)
      BY <2>1, FacetAxes
    <2>3. /\ DOMAIN SignalDiff(p, c).report = {"mode", "plan"}
          /\ \A a \in {"mode", "plan"} : SignalDiff(p, c).report[a] = c[a]
          /\ ~SignalDiff(p, c).failure
      BY DEF SignalDiff, StatusReport
    <2>4. CASE p = None
      <3>1. DOMAIN SignalDiff(p, c).moves = {}
        BY <2>4 DEF SignalDiff, Empty
      <3>2. QED
        BY <2>1, <2>2, <2>3, <2>4, <3>1, AxesApart DEF Shape, Axes
    <2>5. CASE p # None
      <3>1. SignalDiff(p, c).moves = Moves(SignalAxes, p, c)
        BY <2>5 DEF SignalDiff
      <3>2. SignalAxes = DOMAIN p \cap DOMAIN c \cap Axes
        BY <2>2, <2>5 DEF Axes
      <3>3. DOMAIN SignalDiff(p, c).report \subseteq DOMAIN c \cap Axes
        BY <2>2, <2>3, AxesApart DEF Axes
      <3>4. Shape(SignalDiff(p, c), p, c)
        BY <2>3, <2>5, <3>1, <3>2, <3>3, ShapeOfMoves
      <3>5. QED
        BY <2>1, <3>4
    <2>6. QED
      BY <2>4, <2>5
  <1>2. CASE kind = "dms-status"
    <2>1. Diff(p, c) = DMSDiff(p, c) /\ c \in DMSStatus /\ p \in DMSStatus \cup {None}
      BY <1>2 DEF Diff, FacetsOf
    <2>2. CASE p = None
      <3>1. DMSDiff(p, c) = Silence
        BY <2>2 DEF DMSDiff
      <3>2. QED
        BY <2>1, <2>2, <3>1 DEF Shape, Silence, Empty
    <2>3. CASE p # None
      <3>1. DMSDiff(p, c) = [report |-> Empty, moves |-> Moves(DMSAxes, p, c),
                             failure |-> Fails(p, c)]
        BY <2>3 DEF DMSDiff
      <3>2. /\ DOMAIN c = DMSAxes \cup {"trigger", "status"}
            /\ DOMAIN p = DMSAxes \cup {"trigger", "status"}
        BY <2>1, <2>3, FacetAxes
      <3>3. DMSAxes \subseteq Axes /\ DOMAIN c \cap Axes = DMSAxes
        BY <3>2, AxesApart DEF Axes, SignalAxes, DMSAxes
      <3>4. DOMAIN DMSDiff(p, c).report = {}
        BY <3>1 DEF Empty
      <3>5. DMSDiff(p, c).failure => p.status = StatusValid
        BY <2>1, <2>3, <3>1 DEF Fails, DMSStatus
      <3>6. DMSDiff(p, c).moves = Moves(DMSAxes, p, c)
        BY <3>1
      <3>7. DMSAxes = DOMAIN p \cap DOMAIN c \cap Axes
        BY <3>2, <3>3
      <3>8. Shape(DMSDiff(p, c), p, c)
        BY <1>2, <2>3, <3>4, <3>5, <3>6, <3>7, ShapeOfMoves
      <3>9. QED
        BY <2>1, <3>8
    <2>4. QED
      BY <2>2, <2>3
  <1>3. CASE kind = "cctv-status"
    <2>1. Diff(p, c) = CCTVDiff(p, c) /\ c \in CCTVStatus /\ p \in CCTVStatus \cup {None}
      BY <1>3 DEF Diff, FacetsOf
    <2>2. CASE p = None
      <3>1. CCTVDiff(p, c) = Silence
        BY <2>2 DEF CCTVDiff
      <3>2. QED
        BY <2>1, <2>2, <3>1 DEF Shape, Silence, Empty
    <2>3. CASE p # None
      <3>1. CCTVDiff(p, c) = [report |-> Empty,
                              moves |-> Moves({"control"} \cup KnownTours(p, c), p, c),
                              failure |-> FALSE]
        BY <2>3 DEF CCTVDiff
      <3>2. /\ "control" \in DOMAIN c /\ DOMAIN c \subseteq {"control"} \cup Tours
            /\ "control" \in DOMAIN p
        BY <2>1, <2>3, FacetAxes
      <3>3. {"control"} \cup KnownTours(p, c) = DOMAIN p \cap DOMAIN c
        BY <3>2 DEF KnownTours
      <3>4. DOMAIN c \subseteq Axes
        BY <3>2 DEF Axes, DMSAxes
      <3>5. DOMAIN CCTVDiff(p, c).report = {} /\ ~CCTVDiff(p, c).failure
        BY <3>1 DEF Empty
      <3>6. CCTVDiff(p, c).moves = Moves(DOMAIN p \cap DOMAIN c, p, c)
        BY <3>1, <3>3
      <3>7. DOMAIN p \cap DOMAIN c = DOMAIN p \cap DOMAIN c \cap Axes
        BY <3>4
      <3>8. Shape(CCTVDiff(p, c), p, c)
        BY <2>3, <3>5, <3>6, <3>7, ShapeOfMoves
      <3>9. QED
        BY <2>1, <3>8
    <2>4. QED
      BY <2>2, <2>3
  <1>4. QED
    BY <1>1, <1>2, <1>3 DEF Kinds

-----------------------------------------------------------------------------
\* What the engine goes by, and what the consumer was told of axes that the
\* last good read did not have.
Anchored ==
  /\ prev # None => prev = seen
  /\ prev = None => seen = None \/ missed = Axes
  /\ \A a \in Axes \ missed :
       (seen = None \/ a \notin DOMAIN seen) => known[a] = Untold

\* A sign that was valid at the last poll can fail.
CanFail == (prev # None /\ kind = "dms-status" /\ prev.status = StatusValid) => healthy

\* The inductive invariant.
IInv == TypeOK /\ Anchored /\ Followed /\ ReportsHeal /\ CanFail

\* Nothing seen, nothing told: the invariant holds.
LEMMA InvInit == Init => IInv
  BY DEF Init, IInv, TypeOK, Anchored, Followed, ReportsHeal, CanFail

\* A good read.
LEMMA InvGood ==
  ASSUME IInv, NEW c \in FacetsOf(kind), Apply(c, FALSE)
  PROVE  IInv'
  <1> DEFINE d == Diff(prev, c)
  <1>1. /\ kind' = kind /\ prev' = c /\ seen' = c /\ events' = d
        /\ known' = Follow(known, d)
        /\ missed' = (missed \cup Left(prev, c)) \ Told(d)
        /\ healthy' = (\/ healthy /\ ~d.failure
                       \/ kind = "dms-status" /\ c.status = StatusValid)
    BY DEF Apply, Evidence
  <1>2. kind \in Kinds /\ prev \in FacetsOf(kind) \cup {None}
    BY DEF IInv, TypeOK, Kinds
  <1>3. Shape(d, prev, c)
    BY <1>2, DiffShape
  <1>4. c # None
    BY <1>2, TransitionsAssumption DEF TransitionsAssumption, FacetsOf, Kinds
  <1>5. \A a \in Axes : known'[a] = IF a \in DOMAIN d.moves THEN d.moves[a].to
                                    ELSE IF a \in DOMAIN d.report THEN d.report[a]
                                    ELSE known[a]
    BY <1>1 DEF Follow
  <1>6. TypeOK'
    <2>1. DOMAIN known' = Axes
      BY <1>1 DEF Follow
    <2>2. missed' \subseteq Axes
      <3>1. Left(prev, c) \subseteq Axes
        <4>1. CASE kind = "signal-status"
          BY <1>2, <4>1, FacetAxes DEF Left, FacetsOf, Axes
        <4>2. CASE kind = "dms-status"
          BY <1>2, <4>2, FacetAxes DEF Left, FacetsOf
        <4>3. CASE kind = "cctv-status"
          BY <1>2, <4>3, FacetAxes DEF Left, FacetsOf, Axes, DMSAxes
        <4>4. QED
          BY <1>2, <4>1, <4>2, <4>3 DEF Kinds
      <3>2. QED
        BY <1>1, <3>1 DEF IInv, TypeOK
    <2>3. healthy' \in BOOLEAN
      BY <1>1
    <2>4. QED
      BY <1>1, <2>1, <2>2, <2>3 DEF IInv, TypeOK
  <1>7. ASSUME NEW a \in Axes \ missed', a \notin Told(d)
        PROVE  /\ a \notin missed /\ a \notin Left(prev, c)
               /\ known'[a] = known[a]
               /\ prev = None => seen = None
    <2>1. a \notin missed /\ a \notin Left(prev, c)
      BY <1>1, <1>7
    <2>2. known'[a] = known[a]
      BY <1>5, <1>7 DEF Told
    <2>3. prev = None => seen = None
      BY <2>1 DEF IInv, Anchored
    <2>4. QED
      BY <2>1, <2>2, <2>3
  <1>8. Followed'
    <2>1. SUFFICES ASSUME NEW a \in (DOMAIN c \cap Axes) \ missed'
                   PROVE  known'[a] \in {Untold, c[a]}
      BY <1>1 DEF Followed
    <2>2. CASE a \in Told(d)
      BY <1>3, <1>5, <2>1, <2>2 DEF Told, Shape
    <2>3. CASE a \notin Told(d)
      <3>1. CASE prev = None \/ a \notin DOMAIN prev
        <4>1. known[a] = Untold
          BY <1>7, <2>1, <2>3, <3>1 DEF IInv, Anchored
        <4>2. QED
          BY <1>7, <2>1, <2>3, <4>1
      <3>2. CASE prev # None /\ a \in DOMAIN prev
        <4>1. prev[a] = c[a]
          BY <1>3, <2>1, <2>3, <3>2 DEF Shape, Told
        <4>2. known[a] \in {Untold, prev[a]}
          BY <1>7, <2>1, <2>3, <3>2 DEF IInv, Anchored, Followed
        <4>3. QED
          BY <1>7, <2>1, <2>3, <4>1, <4>2
      <3>3. QED
        BY <3>1, <3>2
    <2>4. QED
      BY <2>2, <2>3
  <1>9. Anchored'
    <2>1. ASSUME NEW a \in Axes \ missed', a \notin DOMAIN c
          PROVE  known'[a] = Untold
      <3>1. a \notin Told(d)
        BY <1>3, <2>1 DEF Told, Shape
      <3>2. prev = None \/ a \notin DOMAIN prev
        BY <1>7, <2>1, <3>1 DEF Left
      <3>3. known[a] = Untold
        BY <1>7, <2>1, <3>1, <3>2 DEF IInv, Anchored
      <3>4. QED
        BY <1>7, <2>1, <3>1, <3>3
    <2>2. QED
      BY <1>1, <1>4, <2>1 DEF Anchored
  <1>10. ReportsHeal'
    <2>1. SUFFICES ASSUME kind = "signal-status"
                   PROVE  known'["mode"] = c["mode"] /\ known'["plan"] = c["plan"]
      BY <1>1 DEF ReportsHeal
    <2>2. DOMAIN d.report = {"mode", "plan"}
      BY <2>1 DEF Diff, SignalDiff, StatusReport
    <2>3. {"mode", "plan"} \subseteq Axes
      BY DEF Axes, SignalAxes
    <2>4. QED
      BY <1>3, <1>5, <2>2, <2>3 DEF Shape
  <1>11. CanFail'
    BY <1>1 DEF CanFail
  <1>12. QED
    BY <1>6, <1>8, <1>9, <1>10, <1>11 DEF IInv

\* Any step that leaves what the invariant speaks of as it is.
LEMMA InvSame ==
  ASSUME IInv, kind' = kind, prev' = prev, seen' = seen, missed' = missed,
         healthy' = healthy, DOMAIN known' = Axes,
         \A a \in Axes : known'[a] = known[a]
  PROVE  IInv'
  <1>1. TypeOK' /\ CanFail'
    BY DEF IInv, TypeOK, CanFail
  <1>2. Anchored' /\ Followed'
    BY DEF IInv, Anchored, Followed
  <1>3. ReportsHeal'
    BY DEF IInv, ReportsHeal, Axes, SignalAxes
  <1>4. QED
    BY <1>1, <1>2, <1>3 DEF IInv

\* A read that failed.
LEMMA InvFailed ==
  ASSUME IInv, NEW c, Apply(c, TRUE)
  PROVE  IInv' /\ events' = Silence
  <1>1. /\ kind' = kind /\ prev' = prev /\ seen' = seen /\ missed' = missed
        /\ healthy' = healthy /\ events' = Silence /\ known' = Follow(known, Silence)
    BY DEF Apply, Evidence
  <1>2. DOMAIN known' = Axes /\ (\A a \in Axes : known'[a] = known[a])
    BY <1>1 DEF Follow, Silence, Empty
  <1>3. QED
    BY <1>1, <1>2, InvSame

\* A boot that remembers nothing.
LEMMA InvSeedEmpty == ASSUME IInv, SeedEmpty PROVE IInv'
  <1>1. /\ kind' = kind /\ prev' = None /\ seen' = seen /\ missed' = Axes
        /\ healthy' = healthy /\ known' = known
    BY DEF SeedEmpty
  <1>2. QED
    BY <1>1 DEF IInv, TypeOK, Anchored, Followed, ReportsHeal, CanFail

\* The invariant is inductive.
LEMMA InvStep == IInv /\ [Next]_vars => IInv'
  <1> SUFFICES ASSUME IInv, [Next]_vars PROVE IInv'
    OBVIOUS
  <1>1. ASSUME NEW c \in FacetsOf(kind), NEW failed \in BOOLEAN, Apply(c, failed)
        PROVE  IInv'
    <2>1. CASE failed = FALSE
      BY <1>1, <2>1, InvGood
    <2>2. CASE failed = TRUE
      BY <1>1, <2>2, InvFailed
    <2>3. QED
      BY <2>1, <2>2
  <1>2. CASE SeedKept
    <2>1. /\ kind' = kind /\ prev' = prev /\ seen' = seen /\ missed' = missed
          /\ healthy' = healthy /\ known' = known
      BY <1>2 DEF SeedKept
    <2>2. QED
      BY <2>1, InvSame DEF IInv, TypeOK
  <1>3. CASE SeedEmpty
    BY <1>3, InvSeedEmpty
  <1>4. CASE UNCHANGED vars
    <2>1. /\ kind' = kind /\ prev' = prev /\ seen' = seen /\ missed' = missed
          /\ healthy' = healthy /\ known' = known
      BY <1>4 DEF vars
    <2>2. QED
      BY <2>1, InvSame DEF IInv, TypeOK
  <1>5. QED
    BY <1>1, <1>2, <1>3, <1>4 DEF Next

\* The invariant holds in every reachable state.
THEOREM Invariance == Spec => []IInv
  <1>1. QED
    BY InvInit, InvStep, PTL DEF Spec

\* Facets and what is remembered of them have their types.
THEOREM TypeCorrect == Spec => []TypeOK
  <1>1. IInv => TypeOK
    BY DEF IInv
  <1>2. QED
    BY <1>1, Invariance, PTL

\* The consumer is right about every axis no differ was blind to.
THEOREM ConsumerFollows == Spec => []Followed
  <1>1. IInv => Followed
    BY DEF IInv
  <1>2. QED
    BY <1>1, Invariance, PTL

\* A signal's consumer is right about mode and plan after any good read.
THEOREM StatusReportsHeal == Spec => []ReportsHeal
  <1>1. IInv => ReportsHeal
    BY DEF IInv
  <1>2. QED
    BY <1>1, Invariance, PTL

-----------------------------------------------------------------------------
\* What the events of one step may say.
LEMMA EventsStep ==
  ASSUME IInv, Next
  PROVE  /\ \A a \in DOMAIN events'.moves \ missed :
              known[a] \in {Untold, events'.moves[a].from}
         /\ events'.failure => healthy
  <1>1. ASSUME events' = Silence
        PROVE  DOMAIN events'.moves = {} /\ ~events'.failure
    BY <1>1 DEF Silence, Empty
  <1>2. ASSUME NEW c \in FacetsOf(kind), Apply(c, FALSE)
        PROVE  /\ \A a \in DOMAIN events'.moves \ missed :
                    known[a] \in {Untold, events'.moves[a].from}
               /\ events'.failure => healthy
    <2>1. events' = Diff(prev, c)
      BY <1>2 DEF Apply, Evidence
    <2>2. Shape(events', prev, c)
      BY <2>1, DiffShape DEF IInv, TypeOK, Kinds
    <2>3. ASSUME NEW a \in DOMAIN events'.moves \ missed
          PROVE  known[a] \in {Untold, events'.moves[a].from}
      <3>1. /\ a \in Axes /\ prev # None /\ a \in DOMAIN prev
            /\ events'.moves[a].from = prev[a]
        BY <2>2, <2>3 DEF Shape
      <3>2. prev = seen /\ seen # None
        BY <3>1 DEF IInv, Anchored
      <3>3. known[a] \in {Untold, seen[a]}
        BY <2>3, <3>1, <3>2 DEF IInv, Followed
      <3>4. QED
        BY <3>1, <3>2, <3>3
    <2>4. events'.failure => healthy
      BY <2>2 DEF Shape, IInv, CanFail
    <2>5. QED
      BY <2>3, <2>4
  <1>3. ASSUME NEW c \in FacetsOf(kind), Apply(c, TRUE)
        PROVE  events' = Silence
    BY <1>3, InvFailed
  <1>4. QED
    BY <1>1, <1>2, <1>3 DEF Next, SeedKept, SeedEmpty

\* Transitions of an axis form a chain.
THEOREM TransitionsChained == Spec => Chained
  <1>1. IInv /\ [Next]_vars =>
          [\A a \in DOMAIN events'.moves \ missed :
             known[a] \in {Untold, events'.moves[a].from}]_vars
    BY EventsStep
  <1>2. QED
    BY <1>1, Invariance, PTL DEF Spec, Chained

\* A failure is told once for each spell of errors.
THEOREM FailuresToldOnce == Spec => FailureToldOnce
  <1>1. IInv /\ [Next]_vars => [events'.failure => healthy]_vars
    BY EventsStep
  <1>2. QED
    BY <1>1, Invariance, PTL DEF Spec, FailureToldOnce

-----------------------------------------------------------------------------
(* Ntcip. *)

\* A controller's facet is one.
LEMMA SignalFacetType ==
  ASSUME NEW v \in SignalAnswers, SignalReadable(v)
  PROVE  SignalFacet(v) \in SignalStatus
  <1>1. v.operation \in Operations
    BY DEF SignalAnswers, SignalReadable, Answered, Integer
  <1>2. IntOf(v, "operation") = v.operation
    BY DEF SignalReadable, IntOf
  <1>3. IntOf(v, "pattern") \in Plans
    BY NtcipAssumption DEF NtcipAssumption, Answers, SignalAnswers, IntOf, Answered, Integer
  <1>4. ModeFromOperation(IntOf(v, "operation")) \in Modes
    BY <1>1, <1>2, NtcipAssumption DEF NtcipAssumption, Answers
  <1>5. (IntOf(v, "preempt") > 0) \in BOOLEAN
    OBVIOUS
  <1>6. QED
    BY <1>3, <1>4, <1>5 DEF SignalFacet, SignalStatus

\* A sign's facet is one.
LEMMA DMSFacetType ==
  ASSUME NEW v \in DMSAnswers, DMSReadable(v)
  PROVE  DMSFacet(v) \in DMSStatus
  <1>1. /\ v.control \in Controls /\ v.source \in MessageIDCodes
        /\ v.buffer \in Texts \cup {NoText}
        /\ v.sourceMode \in SourceModes \cup {Unanswered}
    BY DEF DMSAnswers, DMSReadable, Answered, Integer
  <1>2. ControlModeFromNTCIP(IntOf(v, "control")) \in ControlModes
    BY <1>1, NtcipAssumption DEF NtcipAssumption, Answers, IntOf, DMSReadable
  <1>3. CodeOf(v) = v.source /\ v.source.memory \in MemoryTypes /\ v.source.message \in Messages
    BY <1>1 DEF CodeOf, MessageIDCodes
  <1>4. DMSFacet(v).face \in Faces
    <2>1. /\ MemoryTypeFromNTCIP(CodeOf(v).memory) \in {MemoryTypeFromNTCIP(m) : m \in MemoryTypes}
          /\ CodeOf(v).message \in Messages
          /\ (IF Answered(v, "buffer") THEN v.buffer ELSE NoText) \in Texts \cup {NoText}
      BY <1>1, <1>3
    <2>2. DMSFacet(v).face \in
            [memory  : {MemoryTypeFromNTCIP(m) : m \in MemoryTypes},
             message : Messages, text : Texts \cup {NoText}]
      BY <2>1 DEF DMSFacet
    <2>3. QED
      BY <2>2, NtcipAssumption DEF NtcipAssumption, Answers
  <1>5. ActivationTriggerFromNTCIP(IntOf(v, "sourceMode")) \in Triggers
    BY <1>1, NtcipAssumption DEF NtcipAssumption, Answers, IntOf, Answered
  <1>6. DMSFacet(v).display \in DisplayStates
    BY NtcipAssumption DEF NtcipAssumption, Answers, DMSFacet
  <1>7. DMSFacet(v).status \in {StatusUnknown, StatusError, StatusValid}
    BY DEF DMSFacet
  <1>8. QED
    BY <1>2, <1>4, <1>5, <1>6, <1>7 DEF DMSFacet, DMSStatus

-----------------------------------------------------------------------------
\* A poll of the adapters is a poll of the engine, or one that tells it
\* nothing, which is what a boot that kept everything does.
LEMMA StepIsTransition ==
  ASSUME TypeOK, NNext
  PROVE  Next
  <1>1. ASSUME NEW v \in SignalAnswers, PollSignal(v)
        PROVE  Next
    <2>1. CASE SignalReadable(v)
      <3>1. Apply(SignalFacet(v), FALSE) /\ SignalFacet(v) \in FacetsOf(kind)
        BY <1>1, <2>1, SignalFacetType DEF PollSignal, Poll, FacetsOf
      <3>2. QED
        BY <3>1 DEF Next
    <2>2. CASE ~SignalReadable(v)
      BY <1>1, <2>2 DEF PollSignal, Poll, SeedKept, Next
    <2>3. QED
      BY <2>1, <2>2
  <1>2. ASSUME NEW v \in DMSAnswers, PollDMS(v)
        PROVE  Next
    <2>1. CASE DMSReadable(v)
      <3>1. Apply(DMSFacet(v), FALSE) /\ DMSFacet(v) \in FacetsOf(kind)
        BY <1>2, <2>1, DMSFacetType DEF PollDMS, Poll, FacetsOf
      <3>2. QED
        BY <3>1 DEF Next
    <2>2. CASE ~DMSReadable(v)
      BY <1>2, <2>2 DEF PollDMS, Poll, SeedKept, Next
    <2>3. QED
      BY <2>1, <2>2
  <1>3. ASSUME NEW c \in CCTVStatus, NEW failed \in BOOLEAN, PollCCTV(c, failed)
        PROVE  Next
    <2>1. Apply(c, failed) /\ c \in FacetsOf(kind)
      BY <1>3 DEF PollCCTV, FacetsOf
    <2>2. QED
      BY <2>1 DEF Next
  <1>4. QED
    BY <1>1, <1>2, <1>3 DEF NNext, NextBoot, Next

\* Whatever an agent answers, the adapters drive the engine as Transitions
\* has it: consumers follow, transitions chain and failures are told once.
THEOREM ImplementsTransitions == NSpec => Spec
  <1>1. NInit => Init
    BY DEF NInit
  <1>2. IInv /\ [NNext]_nvars => [Next]_vars
    BY StepIsTransition DEF nvars, vars, IInv
  <1>3. IInv /\ [NNext]_nvars => IInv'
    BY <1>2, InvStep
  <1>4. NInit => IInv
    BY <1>1, InvInit
  <1>5. QED
    BY <1>1, <1>2, <1>3, <1>4, PTL DEF NSpec, Spec

-----------------------------------------------------------------------------
\* What is remembered was answered: the inductive part of NothingFabricated.
AnsweredBefore ==
  prev # None =>
    /\ kind = "signal-status" => "mode" \in answered
    /\ kind = "dms-status" =>
         /\ DMSAxes \subseteq answered
         /\ prev.status # StatusUnknown => "status" \in answered
    /\ kind = "cctv-status" => Axes \subseteq answered

\* A readable controller answered for its mode.
LEMMA SignalAnswered ==
  ASSUME NEW v \in SignalAnswers, SignalReadable(v)
  PROVE  "mode" \in AnsweredAxes(v)
  <1>1. v.operation \in Operations /\ "operation" \in DOMAIN v
    BY DEF SignalAnswers, SignalReadable, Answered, Integer
  <1>2. v.operation \notin {Unanswered, Malformed}
    BY <1>1, NtcipAssumption DEF NtcipAssumption, Answers
  <1>3. "mode" \in DOMAIN ObjectsOf /\ ObjectsOf["mode"] = {"operation"}
    BY DEF ObjectsOf
  <1>4. QED
    BY <1>1, <1>2, <1>3 DEF AnsweredAxes

\* A readable sign answered for all its axes, and for its message status
\* when that is known.
LEMMA DMSAnswered ==
  ASSUME NEW v \in DMSAnswers, DMSReadable(v)
  PROVE  /\ DMSAxes \subseteq AnsweredAxes(v)
         /\ DMSFacet(v).status # StatusUnknown => "status" \in AnsweredAxes(v)
  <1>1. /\ v.control \in Controls /\ v.source \in MessageIDCodes
        /\ v.buffer \in Texts \cup {NoText}
        /\ v.activateError \in ActivateErrors \cup {Unanswered}
        /\ {"control", "source", "buffer", "activateError"} \subseteq DOMAIN v
    BY DEF DMSAnswers, DMSReadable, Answered, Integer
  <1>2. {v.control, v.source, v.buffer} \cap {Unanswered, Malformed} = {}
    BY <1>1, NtcipAssumption DEF NtcipAssumption, Answers
  <1>3. /\ DMSAxes \cup {"status"} \subseteq DOMAIN ObjectsOf
        /\ ObjectsOf["control"] = {"control"} /\ ObjectsOf["status"] = {"activateError"}
        /\ ObjectsOf["display"] = {"source", "buffer"}
        /\ ObjectsOf["face"] = {"source", "buffer"}
    BY DEF ObjectsOf, DMSAxes
  <1>4. DMSAxes \subseteq AnsweredAxes(v)
    <2>1. "control" \in AnsweredAxes(v)
      BY <1>1, <1>2, <1>3 DEF AnsweredAxes, DMSAxes
    <2>2. "display" \in AnsweredAxes(v) /\ "face" \in AnsweredAxes(v)
      BY <1>1, <1>2, <1>3 DEF AnsweredAxes, DMSAxes
    <2>3. QED
      BY <2>1, <2>2 DEF DMSAxes
  <1>5. ASSUME DMSFacet(v).status # StatusUnknown
        PROVE  "status" \in AnsweredAxes(v)
    <2>1. Answered(v, "activateError")
      BY <1>5 DEF DMSFacet
    <2>2. v.activateError \notin {Unanswered, Malformed}
      BY <1>1, <2>1, NtcipAssumption DEF NtcipAssumption, Answers, Answered
    <2>3. QED
      BY <1>1, <1>3, <2>2 DEF AnsweredAxes
  <1>6. QED
    BY <1>4, <1>5

\* What a step may do to the history of answers and by its events.
Backed ==
  /\ AnsweredBefore'
  /\ DOMAIN events'.moves \cap (DMSAxes \cup {"mode"}) \subseteq answered \cap answered'
  /\ events'.failure => "status" \in answered \cap answered'

\* A good read, whose transitions are between axes both facets have.
LEMMA GoodRead ==
  ASSUME IInv, NEW c \in FacetsOf(kind), Apply(c, FALSE)
  PROVE  /\ prev' = c /\ kind' = kind /\ kind \in Kinds
         /\ events' = Diff(prev, c) /\ Shape(Diff(prev, c), prev, c)
  BY DiffShape DEF IInv, TypeOK, Apply, Evidence, Kinds

\* A poll that tells nothing and leaves what is remembered, or forgets it.
LEMMA SilentBacked ==
  ASSUME AnsweredBefore, events' = Silence, UNCHANGED <<kind, answered>>,
         prev' \in {prev, None}
  PROVE  Backed
  <1>1. DOMAIN events'.moves = {} /\ ~events'.failure
    BY DEF Silence, Empty
  <1>2. AnsweredBefore'
    BY DEF AnsweredBefore
  <1>3. QED
    BY <1>1, <1>2 DEF Backed

LEMMA SignalBacked ==
  ASSUME IInv, AnsweredBefore, NEW v \in SignalAnswers, PollSignal(v)
  PROVE  Backed
  <1>1. CASE SignalReadable(v)
    <2> DEFINE c == SignalFacet(v)
    <2>1. /\ Apply(c, FALSE) /\ answered' = AnsweredAxes(v)
          /\ c \in SignalStatus /\ c \in FacetsOf(kind) /\ kind = "signal-status"
      BY <1>1, SignalFacetType DEF PollSignal, Poll, FacetsOf
    <2>2. /\ prev' = c /\ kind' = kind /\ events' = Diff(prev, c)
          /\ Shape(Diff(prev, c), prev, c)
      BY <2>1, GoodRead
    <2>3. "mode" \in answered'
      BY <1>1, <2>1, SignalAnswered
    <2>4. DOMAIN events'.moves \cap (DMSAxes \cup {"mode"}) \subseteq {"mode"}
      BY <2>1, <2>2, FacetAxes DEF Shape, SignalAxes, DMSAxes
    <2>5. DOMAIN events'.moves # {} => "mode" \in answered
      BY <2>1, <2>2 DEF Shape, AnsweredBefore
    <2>6. ~events'.failure
      BY <2>1, <2>2 DEF Shape
    <2>7. AnsweredBefore'
      BY <2>1, <2>2, <2>3 DEF AnsweredBefore
    <2>8. QED
      BY <2>3, <2>4, <2>5, <2>6, <2>7 DEF Backed
  <1>2. CASE ~SignalReadable(v)
    BY <1>2, SilentBacked DEF PollSignal, Poll
  <1>3. QED
    BY <1>1, <1>2

LEMMA DMSBacked ==
  ASSUME IInv, AnsweredBefore, NEW v \in DMSAnswers, PollDMS(v)
  PROVE  Backed
  <1>1. CASE DMSReadable(v)
    <2> DEFINE c == DMSFacet(v)
    <2>1. /\ Apply(c, FALSE) /\ answered' = AnsweredAxes(v)
          /\ c \in DMSStatus /\ c \in FacetsOf(kind) /\ kind = "dms-status"
      BY <1>1, DMSFacetType DEF PollDMS, Poll, FacetsOf
    <2>2. /\ prev' = c /\ kind' = kind /\ events' = Diff(prev, c)
          /\ Shape(Diff(prev, c), prev, c)
      BY <2>1, GoodRead
    <2>3. /\ DMSAxes \subseteq answered'
          /\ c.status # StatusUnknown => "status" \in answered'
      BY <1>1, <2>1, DMSAnswered
    <2>4. DOMAIN events'.moves \cap (DMSAxes \cup {"mode"}) \subseteq DMSAxes
      <3>1. "mode" \notin DOMAIN c
        BY <2>1, FacetAxes DEF DMSAxes
      <3>2. QED
        BY <3>1, <2>2 DEF Shape
    <2>5. DOMAIN events'.moves # {} => DMSAxes \subseteq answered
      BY <2>1, <2>2 DEF Shape, AnsweredBefore
    <2>6. events'.failure => "status" \in answered \cap answered'
      <3>1. SUFFICES ASSUME events'.failure
                     PROVE  "status" \in answered \cap answered'
        OBVIOUS
      <3>2. prev # None /\ prev.status = StatusValid
        BY <3>1, <2>2 DEF Shape
      <3>3. events' = DMSDiff(prev, c)
        BY <2>1, <2>2 DEF Diff
      <3>4. c.status = StatusError
        BY <3>1, <3>2, <3>3 DEF DMSDiff, Fails
      <3>5. QED
        BY <2>1, <2>3, <3>2, <3>4, NtcipAssumption DEF NtcipAssumption, Answers, AnsweredBefore
    <2>7. AnsweredBefore'
      BY <2>1, <2>2, <2>3 DEF AnsweredBefore
    <2>8. QED
      BY <2>3, <2>4, <2>5, <2>6, <2>7 DEF Backed
  <1>2. CASE ~DMSReadable(v)
    BY <1>2, SilentBacked DEF PollDMS, Poll
  <1>3. QED
    BY <1>1, <1>2

LEMMA CCTVBacked ==
  ASSUME IInv, AnsweredBefore, NEW c \in CCTVStatus, NEW failed \in BOOLEAN,
         PollCCTV(c, failed)
  PROVE  Backed
  <1>1. kind = "cctv-status" /\ c \in FacetsOf(kind) /\ Apply(c, failed)
    BY DEF PollCCTV, FacetsOf
  <1>2. CASE ~failed
    <2>1. Apply(c, FALSE) /\ answered' = Axes
      BY <1>1, <1>2 DEF PollCCTV
    <2>2. /\ prev' = c /\ kind' = kind /\ events' = Diff(prev, c)
          /\ Shape(Diff(prev, c), prev, c)
      BY <1>1, <2>1, GoodRead
    <2>3. DOMAIN events'.moves \subseteq Axes /\ ~events'.failure
      BY <1>1, <2>2 DEF Shape
    <2>4. DOMAIN events'.moves # {} => Axes \subseteq answered
      BY <1>1, <2>2 DEF Shape, AnsweredBefore
    <2>5. AnsweredBefore'
      BY <1>1, <2>1, <2>2 DEF AnsweredBefore
    <2>6. QED
      BY <2>1, <2>3, <2>4, <2>5 DEF Backed
  <1>3. CASE failed
    <2>1. Apply(c, TRUE) /\ answered' = answered
      BY <1>1, <1>3 DEF PollCCTV
    <2>2. prev' = prev /\ kind' = kind /\ events' = Silence
      BY <2>1, InvFailed DEF Apply, Evidence
    <2>3. QED
      BY <2>1, <2>2, SilentBacked
  <1>4. QED
    BY <1>2, <1>3

LEMMA StepBacked ==
  ASSUME IInv, AnsweredBefore, NNext
  PROVE  Backed
  <1>1. ASSUME NextBoot PROVE Backed
    BY <1>1, SilentBacked DEF NextBoot, SeedKept, SeedEmpty
  <1>2. QED
    BY <1>1, SignalBacked, DMSBacked, CCTVBacked DEF NNext

\* No transition of a sign, no activation failure and no change of a
\* controller's mode rests on an object the agent left out, over any number
\* of partial answers, failed reads and boots.
THEOREM NoFabrication == NSpec => NothingFabricated
  <1>1. NInit => IInv /\ AnsweredBefore
    BY InvInit DEF NInit, Init, AnsweredBefore
  <1>2. IInv /\ AnsweredBefore /\ [NNext]_nvars => IInv' /\ AnsweredBefore'
    <2>1. SUFFICES ASSUME IInv, AnsweredBefore, [NNext]_nvars
                   PROVE  IInv' /\ AnsweredBefore'
      OBVIOUS
    <2>2. CASE NNext
      BY <2>1, <2>2, StepIsTransition, InvStep, StepBacked DEF IInv, Backed
    <2>3. CASE UNCHANGED nvars
      <3>1. UNCHANGED vars /\ answered' = answered
        BY <2>3 DEF nvars
      <3>2. AnsweredBefore'
        BY <2>1, <3>1 DEF AnsweredBefore, vars
      <3>3. QED
        BY <2>1, <3>1, <3>2, InvStep
    <2>4. QED
      BY <2>1, <2>2, <2>3
  <1>3. IInv /\ AnsweredBefore /\ [NNext]_nvars =>
          [/\ DOMAIN events'.moves \cap (DMSAxes \cup {"mode"})
                \subseteq answered \cap answered'
           /\ events'.failure => "status" \in answered \cap answered']_nvars
    BY StepBacked DEF Backed
  <1>4. QED
    BY <1>1, <1>2, <1>3, PTL DEF NSpec, NothingFabricated
=============================================================================
