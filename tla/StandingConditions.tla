------------------------- MODULE StandingConditions -------------------------
(***************************************************************************)
(* The two differs whose facet is a set of standing conditions: faults     *)
(* (internal/synth/fault.go) and the incidents of a perception sensor      *)
(* (internal/synth/perception.go), under Engine.Apply                      *)
(* (internal/synth/synth.go), with a consumer that replays the events.     *)
(*                                                                         *)
(* A facet is a function from the ids that stand to what it says of each,  *)
(* as index and byIncidentID make of the list the adapter returns.  The    *)
(* events of one poll concern different ids, so their order, which the     *)
(* code fixes by sorting, makes no difference to a replay.                 *)
(*                                                                         *)
(* A boot finds what the engine knew last or nothing.  When it may find    *)
(* something older is the subject of SynthState.                           *)
(***************************************************************************)

CONSTANTS
  Ids,          \* Fault.ID, or ZoneIncident.IncidentID
  FaultTexts,   \* severity, category and description of a fault
  Identities,   \* zone, type, object class and track of an incident
  Assessments,  \* severity, speed and confidence of an incident
  NoSet         \* no facet: prev is nil

Incidents == [identity : Identities, assessment : Assessments]

ASSUME NoneIsNoFacet ==
  \A S \in SUBSET Ids : NoSet \notin [S -> FaultTexts] /\ NoSet \notin [S -> Incidents]

VARIABLES
  standingKind,  \* which of the two facet kinds this is about
  prevSet,       \* e.prev[device][kind]
  setEvents,     \* what the last Apply returned
  seenSet,       \* history: the facet of the last good read
  active,        \* history: what a consumer of the events holds active
  forgotSet      \* history: whether a boot found nothing of an earlier life

stvars == <<standingKind, prevSet, setEvents, seenSet, active, forgotSet>>

About == IF standingKind = "fault-set" THEN FaultTexts ELSE Incidents

\* The sets of conditions a device can show.
Sets == UNION {[S -> About] : S \in SUBSET Ids}

NoConditions == [i \in {} |-> NoSet]

NoNews == [began |-> NoConditions, updated |-> NoConditions, cleared |-> {}]

-----------------------------------------------------------------------------
\* The differs.

Standing(p) == IF p = NoSet THEN {} ELSE DOMAIN p

\* Fault: a condition that says something else is raised again.
NewOrDifferent(p, c) ==
  {i \in DOMAIN c : i \notin Standing(p) \/ p[i] # c[i]}

\* Fault: nothing that stands at the first poll is an event.
NewUnlessFirst(p, c) == IF p = NoSet THEN {} ELSE DOMAIN c \ DOMAIN p

NewOnes(p, c) == DOMAIN c \ Standing(p)

Gone(p, c) == Standing(p) \ DOMAIN c

FaultDiff(p, c) ==
  [began   |-> [i \in NewOnes(p, c) |-> c[i]],
   updated |-> NoConditions,
   cleared |-> Gone(p, c)]

AssessmentChanged(p, c) == p.assessment # c.assessment

IncidentDiff(p, c) ==
  LET moved == {i \in DOMAIN c \cap Standing(p) : AssessmentChanged(p[i], c[i])}
  IN  [began   |-> [i \in NewOnes(p, c) |-> c[i]],
       updated |-> [i \in moved |-> c[i].assessment],
       cleared |-> Gone(p, c)]

SetDiff(p, c) == IF standingKind = "fault-set" THEN FaultDiff(p, c) ELSE IncidentDiff(p, c)

-----------------------------------------------------------------------------
\* What a consumer makes of the events of a poll.

Replay(k, e) ==
  [i \in (DOMAIN k \cup DOMAIN e.began) \ e.cleared |->
     IF i \in DOMAIN e.began THEN e.began[i]
     ELSE IF i \in DOMAIN e.updated THEN [k[i] EXCEPT !.assessment = e.updated[i]]
     ELSE k[i]]

-----------------------------------------------------------------------------
StandingInit ==
  /\ standingKind \in {"fault-set", "zone-incidents"}
  /\ prevSet = NoSet /\ seenSet = NoSet
  /\ setEvents = NoNews /\ active = NoConditions
  /\ forgotSet = FALSE

\* Fault: a facet that came with an error is diffed.
SetEvidenceIfTyped(failed, typed) == typed

\* Whether a facet in a snapshot is evidence: not when the adapter reports
\* the kind as failed besides, nor when its type is not the differ's.
SetEvidence(failed, typed) == ~failed /\ typed

\* A snapshot with a facet of the kind.  One that is not evidence may hold
\* anything: a table read half way, say.
ApplySet(c, failed, typed) ==
  /\ seenSet' = IF ~failed /\ typed THEN c ELSE seenSet
  /\ IF SetEvidence(failed, typed)
       THEN setEvents' = SetDiff(prevSet, c) /\ prevSet' = c
       ELSE setEvents' = NoNews /\ UNCHANGED prevSet
  /\ active' = Replay(active, setEvents')
  /\ UNCHANGED <<standingKind, forgotSet>>

\* Boots: the device is seeded with what was known, or with nothing.
SetKept ==
  /\ setEvents' = NoNews
  /\ UNCHANGED <<standingKind, prevSet, seenSet, active, forgotSet>>

SetForgotten ==
  /\ prevSet' = NoSet /\ setEvents' = NoNews
  /\ forgotSet' = (forgotSet \/ prevSet # NoSet)
  /\ UNCHANGED <<standingKind, seenSet, active>>

StandingNext ==
  \/ \E c \in Sets, failed, typed \in BOOLEAN : ApplySet(c, failed, typed)
  \/ SetKept
  \/ SetForgotten

StandingSpec == StandingInit /\ [][StandingNext]_stvars

-----------------------------------------------------------------------------
\* Everything has its type.
StandingTypeOK ==
  /\ standingKind \in {"fault-set", "zone-incidents"}
  /\ prevSet \in Sets \cup {NoSet} /\ seenSet \in Sets \cup {NoSet}
  /\ active \in Sets
  /\ forgotSet \in BOOLEAN

\* A condition the last good read saw is one the consumer holds active, and
\* an incident with the assessment it has now - even after a boot that
\* remembered nothing, which is what the exception for the first poll is for
\* (perception.go:42-47).
NothingHidden ==
  seenSet # NoSet =>
    /\ DOMAIN seenSet \subseteq DOMAIN active
    /\ standingKind = "zone-incidents" =>
         \A i \in DOMAIN seenSet : active[i].assessment = seenSet[i].assessment

\* As long as no boot forgot, what the consumer holds active is what the last
\* good read saw: no read that failed, in part or not, ends a condition.
Rebuilt == (~forgotSet /\ seenSet # NoSet) => DOMAIN active = DOMAIN seenSet

\* No event repeats what the consumer knows.  A condition begins only when it
\* is not held active, unless a boot forgot; it ends, and its assessment
\* moves, only when it is - whatever was forgotten.
OnlyNews ==
  [][/\ forgotSet \/ DOMAIN setEvents'.began \cap DOMAIN active = {}
     /\ setEvents'.cleared \subseteq DOMAIN active
     /\ \A i \in DOMAIN setEvents'.updated :
          i \in DOMAIN active /\ active[i].assessment # setEvents'.updated[i]]_stvars

\* What sdk/model/events.go:219-222 says of an update: it is not sent for an
\* incident whose identity changed.
NeverRelabelled ==
  [][\A i \in DOMAIN setEvents'.updated : active[i].identity = seenSet'[i].identity]_stvars
=============================================================================
