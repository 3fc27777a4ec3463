----------------------------- MODULE DiffersProofs -----------------------------
(***************************************************************************)
(* Theorems about the differs whose facets are sets and measurements.      *)
(*                                                                         *)
(* StandingConditions, for all sets of ids, texts, identities and          *)
(* assessments: the invariant says that what the engine goes by, when it   *)
(* goes by anything, is what the last good read saw; what the consumer     *)
(* holds then follows from one poll to the next.                           *)
(*                                                                         *)
(* Detectors, for any channels, any width of the counters and any number   *)
(* of polls and vehicles: no vehicle is reported twice or made up.  What a *)
(* channel has passed since the sample the differ starts from bounds what  *)
(* the next delta may be, however often the counter was reset or wrapped   *)
(* since.                                                                  *)
(*                                                                         *)
(* Intervals, for any number of them: none is reported twice, and none     *)
(* that was measured first is missed.                                      *)
(***************************************************************************)
EXTENDS StandingConditions, Detectors, Intervals, TLAPS

-----------------------------------------------------------------------------
(* StandingConditions. *)

\* What the consumer may hold before the first good read, and what prev is.
Anchored ==
  /\ prevSet # NoSet => prevSet = seenSet
  /\ prevSet = NoSet => forgotSet \/ seenSet = NoSet
  /\ seenSet = NoSet => DOMAIN active = {}

\* The inductive invariant.
StandingInv == StandingTypeOK /\ Anchored /\ NothingHidden /\ Rebuilt

\* A facet is a function on some of the ids.
LEMMA FacetIsFunction ==
  ASSUME NEW f
  PROVE  f \in Sets <=>
           /\ f = [i \in DOMAIN f |-> f[i]]
           /\ DOMAIN f \subseteq Ids
           /\ \A i \in DOMAIN f : f[i] \in About
  <1>1. ASSUME f \in Sets
        PROVE  /\ f = [i \in DOMAIN f |-> f[i]]
               /\ DOMAIN f \subseteq Ids
               /\ \A i \in DOMAIN f : f[i] \in About
    <2>1. PICK S \in SUBSET Ids : f \in [S -> About]
      BY <1>1 DEF Sets
    <2>2. QED
      BY <2>1
  <1>2. ASSUME f = [i \in DOMAIN f |-> f[i]], DOMAIN f \subseteq Ids,
               \A i \in DOMAIN f : f[i] \in About
        PROVE  f \in Sets
    <2>1. f \in [DOMAIN f -> About]
      BY <1>2
    <2>2. QED
      BY <1>2, <2>1 DEF Sets
  <1>3. QED
    BY <1>1, <1>2

\* A facet is not the absence of one.
LEMMA NoneIsNone == NoSet \notin Sets
  <1>1. SUFFICES ASSUME NEW S \in SUBSET Ids, NoSet \in [S -> About] PROVE FALSE
    BY DEF Sets
  <1>2. CASE standingKind = "fault-set"
    BY <1>1, <1>2, NoneIsNoFacet DEF About
  <1>3. CASE standingKind # "fault-set"
    BY <1>1, <1>3, NoneIsNoFacet DEF About
  <1>4. QED
    BY <1>2, <1>3

\* What the events of a diff concern, whichever differ it is.
LEMMA DiffDomains ==
  ASSUME NEW p, NEW c
  PROVE  /\ DOMAIN SetDiff(p, c).began = NewOnes(p, c)
         /\ \A i \in NewOnes(p, c) : SetDiff(p, c).began[i] = c[i]
         /\ SetDiff(p, c).cleared = Gone(p, c)
         /\ DOMAIN SetDiff(p, c).updated \subseteq DOMAIN c \cap Standing(p)
  <1>1. CASE standingKind = "fault-set"
    BY <1>1 DEF SetDiff, FaultDiff, NoConditions
  <1>2. CASE standingKind # "fault-set"
    BY <1>2 DEF SetDiff, IncidentDiff
  <1>3. QED
    BY <1>1, <1>2

\* What a replay of those events leaves active.
LEMMA ReplayedIds ==
  ASSUME NEW p, NEW c, NEW k
  PROVE  DOMAIN Replay(k, SetDiff(p, c)) = (DOMAIN k \cup NewOnes(p, c)) \ Gone(p, c)
  <1>1. DOMAIN SetDiff(p, c).began = NewOnes(p, c) /\ SetDiff(p, c).cleared = Gone(p, c)
    BY DiffDomains
  <1>2. QED
    BY <1>1 DEF Replay

\* A replay of well-typed events is well-typed.
LEMMA ReplayType ==
  ASSUME StandingTypeOK, NEW p \in Sets \cup {NoSet}, NEW c \in Sets
  PROVE  Replay(active, SetDiff(p, c)) \in Sets
  <1> DEFINE e == SetDiff(p, c)
             r == Replay(active, e)
  <1>1. DOMAIN c \subseteq Ids /\ (\A i \in DOMAIN c : c[i] \in About)
    BY FacetIsFunction
  <1>2. DOMAIN active \subseteq Ids /\ (\A i \in DOMAIN active : active[i] \in About)
    BY FacetIsFunction DEF StandingTypeOK
  <1>3. r = [i \in DOMAIN r |-> r[i]]
    BY DEF Replay
  <1>4. DOMAIN r \subseteq Ids
    <2>1. DOMAIN r = (DOMAIN active \cup NewOnes(p, c)) \ Gone(p, c)
      BY ReplayedIds
    <2>2. QED
      BY <1>1, <1>2, <2>1 DEF NewOnes
  <1>5. ASSUME NEW i \in DOMAIN r PROVE r[i] \in About
    <2>1. CASE i \in DOMAIN e.began
      <3>1. i \in NewOnes(p, c) /\ e.began[i] = c[i]
        BY <2>1, DiffDomains
      <3>2. r[i] = c[i] /\ i \in DOMAIN c
        BY <1>5, <2>1, <3>1 DEF Replay, NewOnes
      <3>3. QED
        BY <3>2, <1>1
    <2>2. CASE i \notin DOMAIN e.began /\ i \in DOMAIN e.updated
      <3>1. i \in DOMAIN active
        BY <1>5, <2>2 DEF Replay
      <3>2. standingKind # "fault-set"
        BY <2>2 DEF SetDiff, FaultDiff, NoConditions
      <3>3. About = [identity : Identities, assessment : Assessments]
        BY <3>2 DEF About, Incidents
      <3>4. e.updated[i] = c[i].assessment /\ i \in DOMAIN c
        BY <3>2, <2>2 DEF SetDiff, IncidentDiff
      <3>5. e.updated[i] \in Assessments
        BY <3>3, <3>4, <1>1
      <3>6. r[i] = [active[i] EXCEPT !.assessment = e.updated[i]]
        BY <1>5, <2>2 DEF Replay
      <3>7. active[i] \in [identity : Identities, assessment : Assessments]
        BY <3>1, <3>3, <1>2
      <3>8. QED
        BY <3>3, <3>5, <3>6, <3>7
    <2>3. CASE i \notin DOMAIN e.began /\ i \notin DOMAIN e.updated
      <3>1. r[i] = active[i] /\ i \in DOMAIN active
        BY <1>5, <2>3 DEF Replay
      <3>2. QED
        BY <3>1, <1>2
    <2>4. QED
      BY <2>1, <2>2, <2>3
  <1>6. QED
    BY <1>3, <1>4, <1>5, FacetIsFunction

-----------------------------------------------------------------------------
\* Nothing seen, nothing known: the invariant holds.
LEMMA StandingInvInit == StandingInit => StandingInv
  <1> SUFFICES ASSUME StandingInit PROVE StandingInv
    OBVIOUS
  <1>1. NoConditions \in Sets /\ DOMAIN NoConditions = {}
    BY FacetIsFunction DEF NoConditions
  <1>2. QED
    BY <1>1 DEF StandingInit, StandingInv, StandingTypeOK, Anchored, NothingHidden, Rebuilt

\* A facet that is evidence: what the consumer holds of it is what it says.
LEMMA ReplayCoversFacet ==
  ASSUME StandingInv, NEW c \in Sets
  PROVE  LET k == Replay(active, SetDiff(prevSet, c)) IN
         /\ DOMAIN c \subseteq DOMAIN k
         /\ standingKind = "zone-incidents" =>
              \A i \in DOMAIN c : k[i].assessment = c[i].assessment
         /\ ~forgotSet => DOMAIN k = DOMAIN c
  <1> DEFINE e == SetDiff(prevSet, c)
             k == Replay(active, e)
  <1>1. Standing(prevSet) \subseteq DOMAIN active
    BY DEF StandingInv, Anchored, NothingHidden, Standing
  <1>2. ~forgotSet => Standing(prevSet) = DOMAIN active
    BY DEF StandingInv, Anchored, Rebuilt, Standing
  <1>3. DOMAIN k = (DOMAIN active \cup NewOnes(prevSet, c)) \ Gone(prevSet, c)
    BY ReplayedIds
  <1>4. DOMAIN c \subseteq DOMAIN k
    BY <1>1, <1>3 DEF NewOnes, Gone
  <1>5. ~forgotSet => DOMAIN k = DOMAIN c
    BY <1>2, <1>3 DEF NewOnes, Gone
  <1>6. ASSUME standingKind = "zone-incidents", NEW i \in DOMAIN c
        PROVE  k[i].assessment = c[i].assessment
    <2>1. i \in DOMAIN k
      BY <1>4
    <2>2. DOMAIN e.began = NewOnes(prevSet, c) /\ (\A j \in NewOnes(prevSet, c) : e.began[j] = c[j])
      BY DiffDomains
    <2>3. CASE i \in NewOnes(prevSet, c)
      <3>1. k[i] = e.began[i]
        BY <2>1, <2>2, <2>3 DEF Replay
      <3>2. QED
        BY <2>2, <2>3, <3>1
    <2>4. CASE i \notin NewOnes(prevSet, c) /\ AssessmentChanged(prevSet[i], c[i])
      <3>1. i \in DOMAIN c \cap Standing(prevSet)
        BY <2>4 DEF NewOnes
      <3>2. i \in DOMAIN e.updated /\ e.updated[i] = c[i].assessment
        BY <1>6, <2>4, <3>1 DEF SetDiff, IncidentDiff
      <3>3. k[i] = [active[i] EXCEPT !.assessment = e.updated[i]]
        BY <2>1, <2>2, <2>4, <3>2 DEF Replay
      <3>4. active[i] \in [identity : Identities, assessment : Assessments]
        BY <1>1, <1>6, <3>1, FacetIsFunction DEF StandingInv, StandingTypeOK, About, Incidents
      <3>5. QED
        BY <3>2, <3>3, <3>4
    <2>5. CASE i \notin NewOnes(prevSet, c) /\ ~AssessmentChanged(prevSet[i], c[i])
      <3>1. i \in Standing(prevSet) /\ prevSet = seenSet /\ seenSet # NoSet
        BY <2>5 DEF NewOnes, Standing, StandingInv, Anchored
      <3>2. i \notin DOMAIN e.updated
        BY <1>6, <2>5 DEF SetDiff, IncidentDiff
      <3>3. k[i] = active[i]
        BY <2>1, <2>2, <2>5, <3>2 DEF Replay
      <3>4. active[i].assessment = seenSet[i].assessment
        BY <1>6, <3>1 DEF StandingInv, NothingHidden, Standing
      <3>5. QED
        BY <2>5, <3>1, <3>3, <3>4 DEF AssessmentChanged
    <2>6. QED
      BY <2>3, <2>4, <2>5
  <1>7. QED
    BY <1>4, <1>5, <1>6

\* Replaying nothing leaves what was held.
LEMMA ReplaySilence == ASSUME StandingTypeOK PROVE Replay(active, NoNews) = active
  <1>1. active = [i \in DOMAIN active |-> active[i]]
    BY FacetIsFunction DEF StandingTypeOK
  <1>2. Replay(active, NoNews) = [i \in DOMAIN active |-> active[i]]
    BY DEF Replay, NoNews, NoConditions
  <1>3. QED
    BY <1>1, <1>2

\* The invariant is inductive.
LEMMA StandingInvStep == StandingInv /\ [StandingNext]_stvars => StandingInv'
  <1> SUFFICES ASSUME StandingInv, [StandingNext]_stvars PROVE StandingInv'
    OBVIOUS
  <1>1. ASSUME NEW c \in Sets, NEW failed \in BOOLEAN, NEW typed \in BOOLEAN,
               ApplySet(c, failed, typed)
        PROVE  StandingInv'
    <2>1. CASE SetEvidence(failed, typed)
      <3>1. /\ prevSet' = c /\ seenSet' = c /\ standingKind' = standingKind /\ forgotSet' = forgotSet
            /\ active' = Replay(active, SetDiff(prevSet, c))
        BY <1>1, <2>1 DEF ApplySet, SetEvidence
      <3>2. c # NoSet
        BY NoneIsNone
      <3>3. Sets' = Sets
        BY <3>1 DEF Sets, About
      <3>4. active' \in Sets
        BY <3>1, ReplayType DEF StandingInv, StandingTypeOK
      <3>5. StandingTypeOK'
        BY <3>1, <3>3, <3>4 DEF StandingInv, StandingTypeOK
      <3>6. NothingHidden' /\ Rebuilt'
        BY <3>1, ReplayCoversFacet DEF NothingHidden, Rebuilt
      <3>7. Anchored'
        BY <3>1, <3>2 DEF Anchored
      <3>8. QED
        BY <3>5, <3>6, <3>7 DEF StandingInv
    <2>2. CASE ~SetEvidence(failed, typed)
      <3>1. prevSet' = prevSet /\ seenSet' = seenSet /\ standingKind' = standingKind /\ forgotSet' = forgotSet
        BY <1>1, <2>2 DEF ApplySet, SetEvidence
      <3>2. active' = active
        BY <1>1, <2>2, ReplaySilence DEF ApplySet, StandingInv
      <3>3. Sets' = Sets
        BY <3>1 DEF Sets, About
      <3>4. QED
        BY <3>1, <3>2, <3>3 DEF StandingInv, StandingTypeOK, Anchored, NothingHidden, Rebuilt
    <2>3. QED
      BY <2>1, <2>2
  <1>2. CASE SetKept
    BY <1>2 DEF SetKept, StandingInv, StandingTypeOK, Anchored, NothingHidden, Rebuilt, Sets, About
  <1>3. CASE SetForgotten
    <2>1. prevSet' = NoSet /\ forgotSet' = (forgotSet \/ prevSet # NoSet)
          /\ standingKind' = standingKind /\ seenSet' = seenSet /\ active' = active
      BY <1>3 DEF SetForgotten
    <2>2. Sets' = Sets
      BY <2>1 DEF Sets, About
    <2>3. StandingTypeOK' /\ NothingHidden'
      BY <2>1, <2>2 DEF StandingInv, StandingTypeOK, NothingHidden
    <2>4. Anchored' /\ Rebuilt'
      BY <2>1 DEF StandingInv, StandingTypeOK, Anchored, Rebuilt
    <2>5. QED
      BY <2>3, <2>4 DEF StandingInv
  <1>4. CASE UNCHANGED stvars
    BY <1>4 DEF stvars, StandingInv, StandingTypeOK, Anchored, NothingHidden, Rebuilt, Sets, About
  <1>5. QED
    BY <1>1, <1>2, <1>3, <1>4 DEF StandingNext

\* The invariant holds in every reachable state.
THEOREM StandingInvariance == StandingSpec => []StandingInv
  <1>1. QED
    BY StandingInvInit, StandingInvStep, PTL DEF StandingSpec

\* Every facet and everything the consumer holds has its type.
THEOREM StandingTypeCorrect == StandingSpec => []StandingTypeOK
  <1>1. StandingInv => StandingTypeOK
    BY DEF StandingInv
  <1>2. QED
    BY <1>1, StandingInvariance, PTL

\* The consumer holds every standing condition active, forgetful boots or not.
THEOREM NothingIsHidden == StandingSpec => []NothingHidden
  <1>1. StandingInv => NothingHidden
    BY DEF StandingInv
  <1>2. QED
    BY <1>1, StandingInvariance, PTL

\* Without forgetful boots, it holds nothing else active.
THEOREM RebuiltFromEvents == StandingSpec => []Rebuilt
  <1>1. StandingInv => Rebuilt
    BY DEF StandingInv
  <1>2. QED
    BY <1>1, StandingInvariance, PTL

\* No event repeats what the consumer knows.
LEMMA NewsStep ==
  StandingInv /\ [StandingNext]_stvars =>
    [/\ forgotSet \/ DOMAIN setEvents'.began \cap DOMAIN active = {}
     /\ setEvents'.cleared \subseteq DOMAIN active
     /\ \A i \in DOMAIN setEvents'.updated :
          i \in DOMAIN active /\ active[i].assessment # setEvents'.updated[i]]_stvars
  <1> DEFINE Fresh ==
        /\ forgotSet \/ DOMAIN setEvents'.began \cap DOMAIN active = {}
        /\ setEvents'.cleared \subseteq DOMAIN active
        /\ \A i \in DOMAIN setEvents'.updated :
             i \in DOMAIN active /\ active[i].assessment # setEvents'.updated[i]
  <1> SUFFICES ASSUME StandingInv, StandingNext PROVE Fresh
    OBVIOUS
  <1>1. ASSUME setEvents' = NoNews PROVE Fresh
    BY <1>1 DEF NoNews, NoConditions
  <1>2. ASSUME NEW c \in Sets, setEvents' = SetDiff(prevSet, c) PROVE Fresh
    <2>1. Standing(prevSet) \subseteq DOMAIN active
      BY DEF StandingInv, Anchored, NothingHidden, Standing
    <2>2. ~forgotSet => Standing(prevSet) = DOMAIN active
      BY DEF StandingInv, Anchored, Rebuilt, Standing
    <2>3. /\ DOMAIN setEvents'.began = NewOnes(prevSet, c)
          /\ setEvents'.cleared = Gone(prevSet, c)
          /\ DOMAIN setEvents'.updated \subseteq DOMAIN c \cap Standing(prevSet)
      BY <1>2, DiffDomains
    <2>4. forgotSet \/ DOMAIN setEvents'.began \cap DOMAIN active = {}
      BY <2>2, <2>3 DEF NewOnes
    <2>5. setEvents'.cleared \subseteq DOMAIN active
      BY <2>1, <2>3 DEF Gone
    <2>6. ASSUME NEW i \in DOMAIN setEvents'.updated
          PROVE  i \in DOMAIN active /\ active[i].assessment # setEvents'.updated[i]
      <3>1. standingKind = "zone-incidents"
        BY <1>2, <2>6 DEF SetDiff, FaultDiff, NoConditions, StandingInv, StandingTypeOK
      <3>2. i \in Standing(prevSet) /\ i \in DOMAIN active
        BY <2>1, <2>3, <2>6
      <3>3. /\ AssessmentChanged(prevSet[i], c[i])
            /\ setEvents'.updated[i] = c[i].assessment
        BY <1>2, <2>6, <3>1 DEF SetDiff, IncidentDiff
      <3>4. prevSet = seenSet /\ seenSet # NoSet /\ i \in DOMAIN seenSet
        BY <3>2 DEF Standing, StandingInv, Anchored
      <3>5. active[i].assessment = prevSet[i].assessment
        BY <3>1, <3>4 DEF StandingInv, NothingHidden
      <3>6. QED
        BY <3>2, <3>3, <3>5 DEF AssessmentChanged
    <2>7. QED
      BY <2>4, <2>5, <2>6
  <1>3. QED
    BY <1>1, <1>2 DEF StandingNext, ApplySet, SetKept, SetForgotten

\* Every event is news, in every behaviour.
THEOREM EventsAreNews == StandingSpec => OnlyNews
  <1>1. QED
    BY StandingInvariance, NewsStep, PTL DEF StandingSpec, OnlyNews

-----------------------------------------------------------------------------
(* Detectors.                                                              *)

\* The differ's memory and the engine's are of the same sample; only a Read
\* under way has counters, and a channel is upset in it once it is read.
InStep ==
  /\ last = NoSample <=> prevSample = NoSample
  /\ stamp = NoSample => got = Nothing
  /\ later \subseteq DOMAIN got
  /\ stamp # NoSample => \A ch \in Channels : begun[ch] <= passed[ch]

\* What the report after next may say of a channel, once the Read under way is
\* the sample to start from.
Since ==
  \A ch \in DOMAIN got :
    /\ told[ch] + Delta(got[ch], count[ch]) <= passed[ch]
    /\ Delta(got[ch], count[ch]) <= passed[ch] - begun[ch]
    /\ ch \notin later => got[ch] <= count[ch]

\* What the next reports may say of a channel, read again already or not.
Owed(ch) ==
  IF ch \in DOMAIN got
    THEN Delta(prevSample[ch], got[ch]) + Delta(got[ch], count[ch])
    ELSE Delta(prevSample[ch], count[ch])

\* It is covered by vehicles not yet told, all of them since the last stamp.
Covered ==
  prevSample # NoSample =>
    \A ch \in DOMAIN prevSample :
      /\ told[ch] + Owed(ch) <= passed[ch]
      /\ Owed(ch) <= passed[ch] - then[last].begun[ch]

\* A counter that nothing upset has counted all that passed since the last Read
\* ended.
Unbroken ==
  prevSample # NoSample =>
    \A ch \in DOMAIN prevSample :
      /\ ch \notin upset \cup later =>
           /\ prevSample[ch] <= count[ch]
           /\ passed[ch] - then[last].ended[ch] <= count[ch] - prevSample[ch]
      /\ ch \in DOMAIN got \ upset =>
           /\ prevSample[ch] <= got[ch]
           /\ begun[ch] - then[last].ended[ch] <= got[ch] - prevSample[ch]

\* The inductive invariant.
DetectorInv ==
  DetectorTypeOK /\ InStep /\ NeverOvercounts /\ Since /\ Covered /\ Unbroken

\* What a sample is.
LEMMA SampleIs ==
  ASSUME NEW p
  PROVE  p \in Samples <=>
           /\ p = [ch \in DOMAIN p |-> p[ch]]
           /\ DOMAIN p \subseteq Channels
           /\ \A ch \in DOMAIN p : p[ch] \in Counter
  <1>1. ASSUME p \in Samples
        PROVE  /\ p = [ch \in DOMAIN p |-> p[ch]]
               /\ DOMAIN p \subseteq Channels
               /\ \A ch \in DOMAIN p : p[ch] \in Counter
    <2>1. PICK S \in SUBSET Channels : p \in [S -> Counter]
      BY <1>1 DEF Samples
    <2>2. QED
      BY <2>1
  <1>2. ASSUME p = [ch \in DOMAIN p |-> p[ch]], DOMAIN p \subseteq Channels,
               \A ch \in DOMAIN p : p[ch] \in Counter
        PROVE  p \in Samples
    <2>1. p \in [DOMAIN p -> Counter]
      BY <1>2
    <2>2. QED
      BY <1>2, <2>1 DEF Samples
  <1>3. QED
    BY <1>1, <1>2

\* A sample is not the absence of one, and a Read starts with none of it.
LEMMA NoneIsNoSample == NoSample \notin Samples /\ Nothing \in Samples
  <1>1. NoSample \notin Samples
    BY DetectorsAssumption DEF DetectorsAssumption, Samples, Counter
  <1>2. Nothing \in Samples
    BY SampleIs DEF Nothing
  <1>3. QED
    BY <1>1, <1>2

\* A delta is none of a counter that did not move or is back at zero.
LEMMA DeltaType ==
  ASSUME NEW p \in Counter, NEW c \in Counter
  PROVE  Delta(p, c) \in Nat /\ Delta(p, p) = 0 /\ Delta(p, 0) = 0
  BY DetectorsAssumption DEF DetectorsAssumption, Counter, Delta

\* A vehicle adds one to the delta, at most.
LEMMA DeltaVehicle ==
  ASSUME NEW p \in Counter, NEW c \in Counter
  PROVE  /\ (c + 1) % Modulus \in Counter
         /\ Delta(p, (c + 1) % Modulus) <= Delta(p, c) + 1
         /\ c # Modulus - 1 => (c + 1) % Modulus = c + 1
  <1> USE DetectorsAssumption DEF DetectorsAssumption, Counter, Delta
  <1>1. CASE c = Modulus - 1
    <2>1. (c + 1) % Modulus = 0
      BY <1>1
    <2>2. QED
      BY <1>1, <2>1
  <1>2. CASE c # Modulus - 1
    <2>1. (c + 1) % Modulus = c + 1
      BY <1>2
    <2>2. QED
      BY <1>2, <2>1
  <1>3. QED
    BY <1>1, <1>2

\* A read in between makes a delta no smaller.
LEMMA DeltaTriangle ==
  ASSUME NEW p \in Counter, NEW g \in Counter, NEW c \in Counter
  PROVE  Delta(p, c) <= Delta(p, g) + Delta(g, c)
  BY DetectorsAssumption DEF DetectorsAssumption, Counter, Delta

\* The values the invariant is about.
LEMMA DetectorValues ==
  ASSUME DetectorInv
  PROVE  /\ count \in [Channels -> Counter] /\ passed \in [Channels -> Nat]
         /\ begun \in [Channels -> Nat] /\ told \in [Channels -> Int]
         /\ DOMAIN got \subseteq Channels
         /\ \A ch \in DOMAIN got : got[ch] \in Counter
         /\ prevSample # NoSample =>
              /\ last \in DOMAIN then /\ last # NoSample
              /\ DOMAIN prevSample \subseteq Channels
              /\ \A ch \in DOMAIN prevSample :
                   /\ prevSample[ch] \in Counter
                   /\ then[last].begun[ch] \in Nat /\ then[last].ended[ch] \in Nat
  <1>1. /\ count \in [Channels -> Counter] /\ passed \in [Channels -> Nat]
        /\ begun \in [Channels -> Nat] /\ told \in [Channels -> Int]
    BY DEF DetectorInv, DetectorTypeOK
  <1>2. DOMAIN got \subseteq Channels /\ (\A ch \in DOMAIN got : got[ch] \in Counter)
    BY SampleIs DEF DetectorInv, DetectorTypeOK
  <1>3. ASSUME prevSample # NoSample
        PROVE  /\ last \in DOMAIN then /\ last # NoSample
               /\ DOMAIN prevSample \subseteq Channels
               /\ \A ch \in DOMAIN prevSample :
                    /\ prevSample[ch] \in Counter
                    /\ then[last].begun[ch] \in Nat /\ then[last].ended[ch] \in Nat
    <2>1. last \in DOMAIN then /\ last # NoSample
      BY <1>3 DEF DetectorInv, DetectorTypeOK, InStep
    <2>2. then[last] \in [begun : [Channels -> Nat], ended : [Channels -> Nat]]
      BY <2>1 DEF DetectorInv, DetectorTypeOK
    <2>3. DOMAIN prevSample \subseteq Channels /\ (\A ch \in DOMAIN prevSample : prevSample[ch] \in Counter)
      BY <1>3, SampleIs DEF DetectorInv, DetectorTypeOK
    <2>4. QED
      BY <2>1, <2>2, <2>3
  <1>4. QED
    BY <1>1, <1>2, <1>3

-----------------------------------------------------------------------------
\* No counts, no samples: the invariant holds.
LEMMA DetectorInvInit == DetectorInit => DetectorInv
  <1> SUFFICES ASSUME DetectorInit PROVE DetectorInv
    OBVIOUS
  <1> USE DetectorsAssumption DEF DetectorsAssumption
  <1>1. count \in [Channels -> Counter]
    BY DEF DetectorInit, Counter, Zero
  <1>2. DOMAIN then = {} /\ DOMAIN got = {}
    BY DEF DetectorInit, Nothing
  <1>3. DetectorTypeOK
    BY <1>1, <1>2, NoneIsNoSample DEF DetectorInit, DetectorTypeOK, Zero
  <1>4. InStep /\ NeverOvercounts /\ Since /\ Covered /\ Unbroken
    BY <1>2 DEF DetectorInit, InStep, NeverOvercounts, Since, Covered, Unbroken, Zero
  <1>5. QED
    BY <1>3, <1>4 DEF DetectorInv

\* A vehicle.
LEMMA InvVehicle == ASSUME DetectorInv, NEW v \in Channels, Vehicle(v) PROVE DetectorInv'
  <1>1. /\ count \in [Channels -> Counter] /\ passed \in [Channels -> Nat]
        /\ told \in [Channels -> Int] /\ begun \in [Channels -> Nat]
    BY DetectorValues
  <1>2. /\ prevSample' = prevSample /\ last' = last /\ then' = then /\ told' = told /\ now' = now
        /\ stamp' = stamp /\ got' = got /\ begun' = begun
        /\ count' = [count EXCEPT ![v] = (@ + 1) % Modulus]
        /\ passed' = [passed EXCEPT ![v] = @ + 1]
    BY DEF Vehicle, engine
  <1>3. /\ upset \subseteq upset' /\ later \subseteq later'
        /\ upset' \subseteq Channels /\ later' \subseteq DOMAIN got
        /\ count[v] = Modulus - 1 =>
             IF v \in DOMAIN got THEN v \in later' ELSE v \in upset'
    BY <1>2 DEF Vehicle, DetectorInv, DetectorTypeOK, InStep
  <1>4. count' \in [Channels -> Counter] /\ passed' \in [Channels -> Nat]
    <2>1. (count[v] + 1) % Modulus \in Counter
      BY <1>1, DeltaVehicle
    <2>2. QED
      BY <1>1, <1>2, <2>1
  \* What becomes of one channel.
  <1>5. ASSUME NEW ch \in Channels
        PROVE  /\ passed'[ch] >= passed[ch]
               /\ \A p \in Counter :
                    Delta(p, count'[ch]) - Delta(p, count[ch]) <= passed'[ch] - passed[ch]
               /\ \/ count'[ch] - count[ch] = passed'[ch] - passed[ch]
                  \/ IF ch \in DOMAIN got THEN ch \in later' ELSE ch \in upset'
    <2>1. count[ch] \in Counter /\ count'[ch] \in Counter /\ passed[ch] \in Nat
      BY <1>1, <1>4
    <2>2. CASE ch # v
      <3>1. count'[ch] = count[ch] /\ passed'[ch] = passed[ch]
        BY <1>1, <1>2, <2>2
      <3>2. \A p \in Counter : Delta(p, count[ch]) \in Nat
        BY <2>1, DeltaType
      <3>3. QED
        BY <2>1, <3>1, <3>2 DEF Counter
    <2>3. CASE ch = v
      <3>1. count'[ch] = (count[ch] + 1) % Modulus /\ passed'[ch] = passed[ch] + 1
        BY <1>1, <1>2, <2>3
      <3>2. ASSUME NEW p \in Counter
            PROVE  Delta(p, count'[ch]) - Delta(p, count[ch]) <= passed'[ch] - passed[ch]
        <4>1. Delta(p, count'[ch]) <= Delta(p, count[ch]) + 1
          BY <2>1, <3>1, DeltaVehicle
        <4>2. Delta(p, count'[ch]) \in Nat /\ Delta(p, count[ch]) \in Nat
          BY <2>1, DeltaType
        <4>3. QED
          BY <2>1, <3>1, <4>1, <4>2
      <3>3. CASE count[ch] = Modulus - 1
        BY <1>3, <2>1, <2>3, <3>1, <3>2, <3>3
      <3>4. CASE count[ch] # Modulus - 1
        <4>1. count'[ch] = count[ch] + 1
          BY <2>1, <3>1, <3>4, DeltaVehicle
        <4>2. QED
          BY <2>1, <3>1, <3>2, <4>1 DEF Counter
      <3>5. QED
        BY <3>3, <3>4
    <2>4. QED
      BY <2>2, <2>3
  <1>6. DetectorTypeOK'
    <2>1. later' \subseteq Channels
      BY <1>3, DetectorValues
    <2>2. QED
      BY <1>2, <1>3, <1>4, <2>1 DEF DetectorInv, DetectorTypeOK
  <1>7. InStep'
    <2>1. stamp # NoSample => \A ch \in Channels : begun[ch] <= passed'[ch]
      BY <1>1, <1>4, <1>5 DEF DetectorInv, InStep
    <2>2. QED
      BY <1>2, <1>3, <2>1 DEF DetectorInv, InStep
  <1>8. NeverOvercounts'
    BY <1>1, <1>2, <1>4, <1>5 DEF DetectorInv, NeverOvercounts
  <1>9. Since'
    <2>1. SUFFICES ASSUME NEW ch \in DOMAIN got
                   PROVE  /\ told[ch] + Delta(got[ch], count'[ch]) <= passed'[ch]
                          /\ Delta(got[ch], count'[ch]) <= passed'[ch] - begun[ch]
                          /\ ch \notin later' => got[ch] <= count'[ch]
      BY <1>2 DEF Since
    <2>2. /\ ch \in Channels /\ got[ch] \in Counter
          /\ count[ch] \in Counter /\ count'[ch] \in Counter
          /\ passed[ch] \in Nat /\ passed'[ch] \in Nat /\ told[ch] \in Int /\ begun[ch] \in Nat
      BY <1>1, <1>4, <2>1, DetectorValues
    <2>3. Delta(got[ch], count[ch]) \in Nat /\ Delta(got[ch], count'[ch]) \in Nat
      BY <2>2, DeltaType
    <2>4. Delta(got[ch], count'[ch]) - Delta(got[ch], count[ch]) <= passed'[ch] - passed[ch]
      BY <1>5, <2>2
    <2>5. /\ told[ch] + Delta(got[ch], count[ch]) <= passed[ch]
          /\ Delta(got[ch], count[ch]) <= passed[ch] - begun[ch]
          /\ ch \notin later => got[ch] <= count[ch]
      BY <2>1 DEF DetectorInv, Since
    <2>6. ch \notin later' => got[ch] <= count'[ch]
      <3>1. SUFFICES ASSUME ch \notin later' PROVE got[ch] <= count'[ch]
        OBVIOUS
      <3>2. count'[ch] - count[ch] = passed'[ch] - passed[ch] /\ passed'[ch] >= passed[ch]
        BY <1>5, <2>1, <2>2, <3>1
      <3>3. QED
        BY <1>3, <2>2, <2>5, <3>1, <3>2 DEF Counter
    <2>7. QED
      BY <2>2, <2>3, <2>4, <2>5, <2>6
  <1>10. Covered'
    <2>1. SUFFICES ASSUME prevSample # NoSample, NEW ch \in DOMAIN prevSample
                   PROVE  /\ told[ch] + Owed(ch)' <= passed'[ch]
                          /\ Owed(ch)' <= passed'[ch] - then[last].begun[ch]
      BY <1>2 DEF Covered
    <2>2. /\ ch \in Channels /\ prevSample[ch] \in Counter /\ then[last].begun[ch] \in Nat
          /\ count[ch] \in Counter /\ count'[ch] \in Counter
          /\ passed[ch] \in Nat /\ passed'[ch] \in Nat /\ told[ch] \in Int
          /\ ch \in DOMAIN got => got[ch] \in Counter
      BY <1>1, <1>4, <2>1, DetectorValues
    <2>3. /\ told[ch] + Owed(ch) <= passed[ch]
          /\ Owed(ch) <= passed[ch] - then[last].begun[ch]
      BY <2>1 DEF DetectorInv, Covered
    <2>4. /\ Owed(ch) \in Nat /\ Owed(ch)' \in Nat
          /\ Owed(ch)' - Owed(ch) <= passed'[ch] - passed[ch]
      <3>1. CASE ch \in DOMAIN got
        <4>1. /\ Owed(ch) = Delta(prevSample[ch], got[ch]) + Delta(got[ch], count[ch])
              /\ Owed(ch)' = Delta(prevSample[ch], got[ch]) + Delta(got[ch], count'[ch])
          BY <1>2, <3>1 DEF Owed, Delta
        <4>2. /\ Delta(prevSample[ch], got[ch]) \in Nat
              /\ Delta(got[ch], count[ch]) \in Nat /\ Delta(got[ch], count'[ch]) \in Nat
          BY <2>2, <3>1, DeltaType
        <4>3. Delta(got[ch], count'[ch]) - Delta(got[ch], count[ch]) <= passed'[ch] - passed[ch]
          BY <1>5, <2>2, <3>1
        <4>4. QED
          BY <2>2, <4>1, <4>2, <4>3
      <3>2. CASE ch \notin DOMAIN got
        <4>1. /\ Owed(ch) = Delta(prevSample[ch], count[ch])
              /\ Owed(ch)' = Delta(prevSample[ch], count'[ch])
          BY <1>2, <3>2 DEF Owed, Delta
        <4>2. QED
          BY <1>5, <2>2, <4>1, DeltaType
      <3>3. QED
        BY <3>1, <3>2
    <2>5. QED
      BY <2>2, <2>3, <2>4
  <1>11. Unbroken'
    <2>1. SUFFICES ASSUME prevSample # NoSample, NEW ch \in DOMAIN prevSample
                   PROVE  /\ ch \notin upset' \cup later' =>
                               /\ prevSample[ch] <= count'[ch]
                               /\ passed'[ch] - then[last].ended[ch] <= count'[ch] - prevSample[ch]
                          /\ ch \in DOMAIN got \ upset' =>
                               /\ prevSample[ch] <= got[ch]
                               /\ begun[ch] - then[last].ended[ch] <= got[ch] - prevSample[ch]
      BY <1>2 DEF Unbroken
    <2>2. /\ ch \in Channels /\ prevSample[ch] \in Counter /\ then[last].ended[ch] \in Nat
          /\ count[ch] \in Counter /\ count'[ch] \in Counter
          /\ passed[ch] \in Nat /\ passed'[ch] \in Nat
      BY <1>1, <1>4, <2>1, DetectorValues
    <2>3. ASSUME ch \notin upset' \cup later'
          PROVE  /\ prevSample[ch] <= count'[ch]
                 /\ passed'[ch] - then[last].ended[ch] <= count'[ch] - prevSample[ch]
      <3>1. count'[ch] - count[ch] = passed'[ch] - passed[ch] /\ passed'[ch] >= passed[ch]
        BY <1>5, <2>2, <2>3
      <3>2. /\ prevSample[ch] <= count[ch]
            /\ passed[ch] - then[last].ended[ch] <= count[ch] - prevSample[ch]
        BY <1>3, <2>1, <2>3 DEF DetectorInv, Unbroken
      <3>3. QED
        BY <2>2, <3>1, <3>2 DEF Counter
    <2>4. ch \in DOMAIN got \ upset' =>
            /\ prevSample[ch] <= got[ch]
            /\ begun[ch] - then[last].ended[ch] <= got[ch] - prevSample[ch]
      BY <1>3, <2>1 DEF DetectorInv, Unbroken
    <2>5. QED
      BY <2>3, <2>4
  <1>12. QED
    BY <1>6, <1>7, <1>8, <1>9, <1>10, <1>11 DEF DetectorInv

\* A reset of the controller.
LEMMA InvReset == ASSUME DetectorInv, ControllerReset PROVE DetectorInv'
  <1> USE DetectorsAssumption DEF DetectorsAssumption
  <1>1. /\ prevSample' = prevSample /\ last' = last /\ then' = then /\ told' = told /\ now' = now
        /\ stamp' = stamp /\ got' = got /\ begun' = begun /\ passed' = passed
        /\ upset' = upset \cup (Channels \ DOMAIN got) /\ later' = DOMAIN got
        /\ count' = [ch \in Channels |-> 0]
    BY DEF ControllerReset, engine, Zero
  <1>2. count' \in [Channels -> Counter]
    BY <1>1 DEF Counter
  <1>3. DetectorTypeOK' /\ InStep' /\ NeverOvercounts'
    BY <1>1, <1>2, DetectorValues DEF DetectorInv, DetectorTypeOK, InStep, NeverOvercounts
  \* A counter at zero adds nothing to what is owed.
  <1>4. ASSUME NEW ch \in Channels, NEW p \in Counter
        PROVE  Delta(p, count'[ch]) = 0 /\ Delta(p, count[ch]) \in Nat
    <2>1. count[ch] \in Counter /\ count'[ch] = 0
      BY <1>1, DetectorValues
    <2>2. QED
      BY <2>1, DeltaType
  <1>5. Since'
    <2>1. SUFFICES ASSUME NEW ch \in DOMAIN got
                   PROVE  /\ told[ch] + Delta(got[ch], count'[ch]) <= passed[ch]
                          /\ Delta(got[ch], count'[ch]) <= passed[ch] - begun[ch]
      BY <1>1 DEF Since
    <2>2. /\ ch \in Channels /\ got[ch] \in Counter
          /\ passed[ch] \in Nat /\ told[ch] \in Int /\ begun[ch] \in Nat
      BY <2>1, DetectorValues
    <2>3. Delta(got[ch], count'[ch]) = 0 /\ Delta(got[ch], count[ch]) \in Nat
      BY <1>4, <2>2
    <2>4. /\ told[ch] + Delta(got[ch], count[ch]) <= passed[ch]
          /\ Delta(got[ch], count[ch]) <= passed[ch] - begun[ch]
      BY <2>1 DEF DetectorInv, Since
    <2>5. QED
      BY <2>2, <2>3, <2>4
  <1>6. Covered'
    <2>1. SUFFICES ASSUME prevSample # NoSample, NEW ch \in DOMAIN prevSample
                   PROVE  /\ told[ch] + Owed(ch)' <= passed[ch]
                          /\ Owed(ch)' <= passed[ch] - then[last].begun[ch]
      BY <1>1 DEF Covered
    <2>2. /\ ch \in Channels /\ prevSample[ch] \in Counter /\ then[last].begun[ch] \in Nat
          /\ passed[ch] \in Nat /\ told[ch] \in Int
          /\ ch \in DOMAIN got => got[ch] \in Counter
      BY <2>1, DetectorValues
    <2>3. Owed(ch) \in Nat /\ Owed(ch)' \in Nat /\ Owed(ch)' <= Owed(ch)
      <3>1. CASE ch \in DOMAIN got
        <4>1. /\ Owed(ch) = Delta(prevSample[ch], got[ch]) + Delta(got[ch], count[ch])
              /\ Owed(ch)' = Delta(prevSample[ch], got[ch]) + Delta(got[ch], count'[ch])
          BY <1>1, <3>1 DEF Owed, Delta
        <4>2. Delta(prevSample[ch], got[ch]) \in Nat
          BY <2>2, <3>1, DeltaType
        <4>3. Delta(got[ch], count'[ch]) = 0 /\ Delta(got[ch], count[ch]) \in Nat
          BY <1>4, <2>2, <3>1
        <4>4. QED
          BY <4>1, <4>2, <4>3
      <3>2. CASE ch \notin DOMAIN got
        <4>1. /\ Owed(ch) = Delta(prevSample[ch], count[ch])
              /\ Owed(ch)' = Delta(prevSample[ch], count'[ch])
          BY <1>1, <3>2 DEF Owed, Delta
        <4>2. QED
          BY <1>4, <2>2, <4>1
      <3>3. QED
        BY <3>1, <3>2
    <2>4. /\ told[ch] + Owed(ch) <= passed[ch]
          /\ Owed(ch) <= passed[ch] - then[last].begun[ch]
      BY <2>1 DEF DetectorInv, Covered
    <2>5. QED
      BY <2>2, <2>3, <2>4
  <1>7. Unbroken'
    <2>1. prevSample # NoSample => DOMAIN prevSample \subseteq upset' \cup later'
      BY <1>1, DetectorValues
    <2>2. upset \subseteq upset'
      BY <1>1
    <2>3. QED
      BY <1>1, <2>1, <2>2 DEF DetectorInv, Unbroken
  <1>8. QED
    BY <1>3, <1>5, <1>6, <1>7 DEF DetectorInv

-----------------------------------------------------------------------------
\* A Read is started.
LEMMA InvStart == ASSUME DetectorInv, StartRead PROVE DetectorInv'
  <1>1. /\ prevSample' = prevSample /\ last' = last /\ then' = then /\ told' = told
        /\ count' = count /\ passed' = passed /\ upset' = upset
        /\ got' = got /\ later' = later
        /\ now' = now + 1 /\ stamp' = now + 1 /\ begun' = passed
        /\ stamp = NoSample
    BY DEF StartRead, engine
  <1>2. DOMAIN got = {} /\ later = {}
    BY <1>1 DEF DetectorInv, InStep, Nothing
  <1>3. now \in Nat /\ DOMAIN then \subseteq 0 .. now /\ passed \in [Channels -> Nat]
    BY DEF DetectorInv, DetectorTypeOK
  <1>4. stamp' \in 1 .. now' /\ DOMAIN then \subseteq 0 .. now' /\ now' \in Nat
    BY <1>1, <1>3
  <1>5. DetectorTypeOK'
    BY <1>1, <1>3, <1>4 DEF DetectorInv, DetectorTypeOK
  <1>6. InStep'
    <2>1. stamp' # NoSample /\ (\A ch \in Channels : passed[ch] <= passed[ch])
      BY <1>1, <1>3, DetectorsAssumption DEF DetectorsAssumption
    <2>2. QED
      BY <1>1, <2>1 DEF DetectorInv, InStep
  <1>7. NeverOvercounts' /\ Since'
    BY <1>1, <1>2 DEF DetectorInv, NeverOvercounts, Since
  <1>8. Covered' /\ Unbroken'
    <2>1. \A ch : Owed(ch)' = Owed(ch)
      BY <1>1 DEF Owed, Delta
    <2>2. QED
      BY <1>1, <1>2, <2>1 DEF DetectorInv, Covered, Unbroken
  <1>9. QED
    BY <1>5, <1>6, <1>7, <1>8 DEF DetectorInv

\* One counter is read.
LEMMA InvRead == ASSUME DetectorInv, NEW v \in Channels, ReadChannel(v) PROVE DetectorInv'
  <1>1. /\ prevSample' = prevSample /\ last' = last /\ then' = then /\ told' = told /\ now' = now
        /\ count' = count /\ passed' = passed /\ upset' = upset /\ later' = later
        /\ stamp' = stamp /\ begun' = begun
        /\ got' = [k \in DOMAIN got \cup {v} |-> IF k = v THEN count[v] ELSE got[k]]
        /\ stamp # NoSample /\ v \notin DOMAIN got
    BY DEF ReadChannel, engine
  <1>2. /\ DOMAIN got' = DOMAIN got \cup {v} /\ got'[v] = count[v]
        /\ \A k \in DOMAIN got : k # v /\ got'[k] = got[k]
    BY <1>1
  <1>3. /\ count[v] \in Counter /\ passed[v] \in Nat /\ begun[v] \in Nat /\ told[v] \in Int
        /\ Delta(count[v], count[v]) = 0
        /\ told[v] <= passed[v] /\ begun[v] <= passed[v]
        /\ v \notin later
    <2>1. count[v] \in Counter /\ passed[v] \in Nat /\ begun[v] \in Nat /\ told[v] \in Int
      BY DetectorValues
    <2>2. QED
      BY <1>1, <2>1, DeltaType DEF DetectorInv, InStep, NeverOvercounts
  <1>4. DetectorTypeOK'
    <2>1. DOMAIN got' \subseteq Channels /\ (\A k \in DOMAIN got' : got'[k] \in Counter)
      BY <1>2, <1>3, DetectorValues
    <2>2. got' = [k \in DOMAIN got' |-> got'[k]]
      BY <1>1
    <2>3. got' \in Samples
      BY <2>1, <2>2, SampleIs
    <2>4. QED
      BY <1>1, <2>3 DEF DetectorInv, DetectorTypeOK
  <1>5. InStep' /\ NeverOvercounts'
    BY <1>1, <1>2 DEF DetectorInv, InStep, NeverOvercounts
  <1>6. Since'
    <2>1. SUFFICES ASSUME NEW ch \in DOMAIN got'
                   PROVE  /\ told[ch] + Delta(got'[ch], count[ch]) <= passed[ch]
                          /\ Delta(got'[ch], count[ch]) <= passed[ch] - begun[ch]
                          /\ ch \notin later => got'[ch] <= count[ch]
      BY <1>1 DEF Since
    <2>2. CASE ch = v
      BY <1>2, <1>3, <2>2 DEF Counter
    <2>3. CASE ch # v
      <3>1. ch \in DOMAIN got /\ got'[ch] = got[ch]
        BY <1>2, <2>1, <2>3
      <3>2. QED
        BY <3>1 DEF DetectorInv, Since
    <2>4. QED
      BY <2>2, <2>3
  <1>7. ASSUME prevSample # NoSample, NEW ch \in DOMAIN prevSample
        PROVE  Owed(ch)' = Owed(ch)
    <2>1. CASE ch = v
      <3>1. Owed(ch)' = Delta(prevSample[v], count[v]) + Delta(count[v], count[v])
        BY <1>1, <1>2, <2>1 DEF Owed, Delta
      <3>2. Owed(ch) = Delta(prevSample[v], count[v])
        BY <1>1, <2>1 DEF Owed
      <3>3. Delta(prevSample[v], count[v]) \in Nat
        BY <1>3, <1>7, <2>1, DetectorValues, DeltaType
      <3>4. QED
        BY <1>3, <3>1, <3>2, <3>3
    <2>2. CASE ch # v
      BY <1>1, <1>2, <2>2 DEF Owed, Delta
    <2>3. QED
      BY <2>1, <2>2
  <1>8. Covered'
    BY <1>1, <1>7 DEF DetectorInv, Covered
  <1>9. Unbroken'
    <2>1. SUFFICES ASSUME prevSample # NoSample, NEW ch \in DOMAIN prevSample
                   PROVE  /\ ch \notin upset \cup later =>
                               /\ prevSample[ch] <= count[ch]
                               /\ passed[ch] - then[last].ended[ch] <= count[ch] - prevSample[ch]
                          /\ ch \in DOMAIN got' \ upset =>
                               /\ prevSample[ch] <= got'[ch]
                               /\ begun[ch] - then[last].ended[ch] <= got'[ch] - prevSample[ch]
      BY <1>1 DEF Unbroken
    <2>2. /\ ch \notin upset \cup later =>
               /\ prevSample[ch] <= count[ch]
               /\ passed[ch] - then[last].ended[ch] <= count[ch] - prevSample[ch]
          /\ ch \in DOMAIN got \ upset =>
               /\ prevSample[ch] <= got[ch]
               /\ begun[ch] - then[last].ended[ch] <= got[ch] - prevSample[ch]
      BY <2>1 DEF DetectorInv, Unbroken
    <2>3. CASE ch = v
      <3>1. prevSample[v] \in Counter /\ then[last].ended[v] \in Nat
        BY <2>1, <2>3, DetectorValues
      <3>2. QED
        BY <1>2, <1>3, <2>2, <2>3, <3>1 DEF Counter
    <2>4. CASE ch # v
      BY <1>2, <2>2, <2>4
    <2>5. QED
      BY <2>3, <2>4
  <1>10. QED
    BY <1>4, <1>5, <1>6, <1>8, <1>9 DEF DetectorInv

-----------------------------------------------------------------------------
\* What the differ makes of the sample.
Made == Report(last, prevSample, got, stamp)

\* A report has a sample to start from, and a delta for each channel both
\* samples have.
LEMMA ReportIs ==
  ASSUME Made # NoSample
  PROVE  /\ prevSample # NoSample /\ last # NoSample
         /\ Made.start = last /\ Made.end = stamp
         /\ DOMAIN Made.readings = DOMAIN prevSample \cap DOMAIN got
         /\ \A ch \in DOMAIN prevSample \cap DOMAIN got :
              Made.readings[ch] = Delta(prevSample[ch], got[ch])
  <1>1. prevSample # NoSample /\ last # NoSample
    BY DEF Made, Report
  <1>2. Made = [start |-> last, end |-> stamp, readings |-> Readings(prevSample, got)]
    BY DEF Made, Report
  <1>3. QED
    BY <1>1, <1>2 DEF Readings

\* The variables after a sample.
LEMMA ApplyIs ==
  ASSUME ApplySample
  PROVE  /\ stamp # NoSample /\ now' = now /\ last' = stamp /\ prevSample' = got
         /\ report' = Made
         /\ count' = count /\ passed' = passed /\ upset' = later
         /\ stamp' = NoSample /\ got' = Nothing /\ later' = {}
         /\ begun' = [ch \in Channels |-> 0]
         /\ then' = [t \in {stamp} |-> [begun |-> begun, ended |-> passed]]
         /\ told' = IF Made = NoSample THEN told
                    ELSE [ch \in Channels |->
                            IF ch \in DOMAIN Made.readings
                              THEN told[ch] + Made.readings[ch] ELSE told[ch]]
  <1>1. /\ stamp # NoSample /\ now' = now /\ last' = stamp /\ prevSample' = got
        /\ report' = Made
        /\ count' = count /\ passed' = passed /\ upset' = later
        /\ stamp' = NoSample /\ got' = Nothing /\ later' = {}
        /\ begun' = [ch \in Channels |-> 0]
    BY DEF ApplySample, EndOfRead, Zero, Made, Last
  <1>2. then' = [t \in {stamp} |-> [begun |-> begun, ended |-> passed]]
    <2>1. then' = [t \in {stamp} \cup (DOMAIN then \cap {last'}) |->
                     IF t = stamp THEN [begun |-> begun, ended |-> passed] ELSE then[t]]
      BY DEF ApplySample
    <2>2. {stamp} \cup (DOMAIN then \cap {last'}) = {stamp}
      BY <1>1
    <2>3. QED
      BY <2>1, <2>2
  <1>3. told' = IF Made = NoSample THEN told
                ELSE [ch \in Channels |->
                        IF ch \in DOMAIN Made.readings
                          THEN told[ch] + Made.readings[ch] ELSE told[ch]]
    BY DEF ApplySample, Made
  <1>4. QED
    BY <1>1, <1>2, <1>3

\* What is told after a sample, and the most the next one may add.
LEMMA ToldAfter ==
  ASSUME DetectorInv, ApplySample, NEW ch \in Channels
  PROVE  /\ told'[ch] \in Int /\ told'[ch] <= passed[ch]
         /\ ch \in DOMAIN got => told'[ch] + Delta(got[ch], count[ch]) <= passed[ch]
  <1>1. /\ told[ch] \in Int /\ passed[ch] \in Nat /\ told[ch] <= passed[ch]
        /\ count[ch] \in Counter
    BY DetectorValues DEF DetectorInv, NeverOvercounts
  <1>2. ASSUME ch \in DOMAIN got
        PROVE  /\ Delta(got[ch], count[ch]) \in Nat
               /\ told[ch] + Delta(got[ch], count[ch]) <= passed[ch]
    <2>1. got[ch] \in Counter
      BY <1>2, DetectorValues
    <2>2. QED
      BY <1>1, <1>2, <2>1, DeltaType DEF DetectorInv, Since
  <1>3. CASE told'[ch] = told[ch]
    BY <1>1, <1>2, <1>3
  <1>4. CASE Made # NoSample /\ ch \in DOMAIN Made.readings
    <2>1. /\ prevSample # NoSample /\ ch \in DOMAIN prevSample /\ ch \in DOMAIN got
          /\ Made.readings[ch] = Delta(prevSample[ch], got[ch])
      BY <1>4, ReportIs
    <2>2. told'[ch] = told[ch] + Delta(prevSample[ch], got[ch])
      BY <1>4, <2>1, ApplyIs
    <2>3. told[ch] + Owed(ch) <= passed[ch]
      BY <2>1 DEF DetectorInv, Covered
    <2>4. Owed(ch) = Delta(prevSample[ch], got[ch]) + Delta(got[ch], count[ch])
      BY <2>1 DEF Owed
    <2>5. Delta(prevSample[ch], got[ch]) \in Nat
      BY <2>1, DetectorValues, DeltaType
    <2>6. QED
      BY <1>1, <1>2, <2>1, <2>2, <2>3, <2>4, <2>5
  <1>5. QED
    BY <1>3, <1>4, ApplyIs

\* A sample.
LEMMA InvApply == ASSUME DetectorInv, ApplySample PROVE DetectorInv'
  <1>1. /\ count \in [Channels -> Counter] /\ passed \in [Channels -> Nat] /\ now \in Nat
        /\ told \in [Channels -> Int] /\ begun \in [Channels -> Nat]
        /\ got \in Samples /\ got # NoSample /\ DOMAIN got \subseteq Channels
        /\ stamp \in 1 .. now /\ stamp # NoSample
    BY ApplyIs, DetectorValues, NoneIsNoSample DEF DetectorInv, DetectorTypeOK
  <1>2. DOMAIN Nothing = {}
    BY DEF Nothing
  <1>3. told' \in [Channels -> Int] /\ (\A ch \in Channels : told'[ch] <= passed[ch])
    <2>1. told' = [ch \in Channels |-> told'[ch]]
      BY <1>1, ApplyIs
    <2>2. QED
      BY <2>1, ToldAfter
  <1>4. /\ DOMAIN then' = {stamp}
        /\ then'[stamp].begun = begun /\ then'[stamp].ended = passed
        /\ then'[stamp] \in [begun : [Channels -> Nat], ended : [Channels -> Nat]]
    BY <1>1, ApplyIs
  <1>5. DetectorTypeOK'
    <2>1. /\ DOMAIN then' \subseteq 0 .. now
          /\ \A t \in DOMAIN then' :
               then'[t] \in [begun : [Channels -> Nat], ended : [Channels -> Nat]]
      BY <1>1, <1>4
    <2>2. later \subseteq Channels /\ begun' \in [Channels -> Nat]
      BY ApplyIs DEF DetectorInv, DetectorTypeOK
    <2>3. QED
      BY <1>1, <1>3, <1>4, <2>1, <2>2, ApplyIs, NoneIsNoSample DEF DetectorTypeOK
  <1>6. InStep'
    BY <1>1, <1>2, ApplyIs DEF InStep
  <1>7. NeverOvercounts' /\ Since'
    BY <1>2, <1>3, ApplyIs DEF NeverOvercounts, Since
  <1>8. ASSUME NEW ch \in DOMAIN got
        PROVE  /\ Owed(ch)' = Delta(got[ch], count[ch])
               /\ told'[ch] + Delta(got[ch], count[ch]) <= passed[ch]
               /\ Delta(got[ch], count[ch]) <= passed[ch] - begun[ch]
               /\ ch \notin later => got[ch] <= count[ch]
    <2>1. Owed(ch)' = Delta(got[ch], count[ch])
      BY <1>2, ApplyIs DEF Owed, Delta
    <2>2. QED
      BY <1>1, <2>1, ToldAfter DEF DetectorInv, Since
  <1>9. Covered'
    BY <1>1, <1>4, <1>8, ApplyIs DEF Covered
  <1>10. Unbroken'
    <2>1. SUFFICES ASSUME NEW ch \in DOMAIN got, ch \notin later
                   PROVE  /\ got[ch] <= count[ch]
                          /\ passed[ch] - passed[ch] <= count[ch] - got[ch]
      BY <1>1, <1>2, <1>4, ApplyIs DEF Unbroken
    <2>2. ch \in Channels /\ got[ch] \in Counter /\ count[ch] \in Counter /\ passed[ch] \in Nat
      BY <1>1, DetectorValues
    <2>3. QED
      BY <1>8, <2>1, <2>2 DEF Counter
  <1>11. QED
    BY <1>5, <1>6, <1>7, <1>9, <1>10 DEF DetectorInv

\* A Read that ends without a sample.
LEMMA InvFailed == ASSUME DetectorInv, SampleFailed PROVE DetectorInv'
  <1>1. /\ prevSample' = prevSample /\ last' = last /\ then' = then /\ told' = told /\ now' = now
        /\ count' = count /\ passed' = passed /\ upset' = upset \cup later
        /\ stamp' = NoSample /\ got' = Nothing /\ later' = {}
        /\ begun' = [ch \in Channels |-> 0]
    BY DEF SampleFailed, EndOfRead, engine, Zero
  <1>2. DOMAIN Nothing = {} /\ begun' \in [Channels -> Nat]
    BY <1>1 DEF Nothing
  <1>3. DetectorTypeOK'
    BY <1>1, <1>2, NoneIsNoSample DEF DetectorInv, DetectorTypeOK
  <1>4. InStep' /\ NeverOvercounts' /\ Since'
    BY <1>1, <1>2 DEF DetectorInv, InStep, NeverOvercounts, Since
  <1>5. Covered'
    <2>1. SUFFICES ASSUME prevSample # NoSample, NEW ch \in DOMAIN prevSample
                   PROVE  /\ told[ch] + Owed(ch)' <= passed[ch]
                          /\ Owed(ch)' <= passed[ch] - then[last].begun[ch]
      BY <1>1 DEF Covered
    <2>2. /\ ch \in Channels /\ prevSample[ch] \in Counter /\ then[last].begun[ch] \in Nat
          /\ count[ch] \in Counter /\ passed[ch] \in Nat /\ told[ch] \in Int
          /\ ch \in DOMAIN got => got[ch] \in Counter
      BY <2>1, DetectorValues
    <2>3. Owed(ch)' = Delta(prevSample[ch], count[ch])
      BY <1>1, <1>2 DEF Owed, Delta
    <2>4. Owed(ch) \in Nat /\ Owed(ch)' \in Nat /\ Owed(ch)' <= Owed(ch)
      <3>1. CASE ch \in DOMAIN got
        <4>1. Owed(ch) = Delta(prevSample[ch], got[ch]) + Delta(got[ch], count[ch])
          BY <3>1 DEF Owed
        <4>2. QED
          BY <2>2, <2>3, <3>1, <4>1, DeltaType, DeltaTriangle
      <3>2. CASE ch \notin DOMAIN got
        <4>1. Owed(ch) = Delta(prevSample[ch], count[ch])
          BY <3>2 DEF Owed
        <4>2. QED
          BY <2>2, <2>3, <4>1, DeltaType
      <3>3. QED
        BY <3>1, <3>2
    <2>5. /\ told[ch] + Owed(ch) <= passed[ch]
          /\ Owed(ch) <= passed[ch] - then[last].begun[ch]
      BY <2>1 DEF DetectorInv, Covered
    <2>6. QED
      BY <2>2, <2>4, <2>5
  <1>6. Unbroken'
    BY <1>1, <1>2 DEF DetectorInv, Unbroken
  <1>7. QED
    BY <1>3, <1>4, <1>5, <1>6 DEF DetectorInv

\* A boot.
LEMMA InvForget == ASSUME DetectorInv, ForgetSample PROVE DetectorInv'
  <1>1. /\ prevSample' = NoSample /\ last' = NoSample /\ then' = Nothing /\ told' = told
        /\ now' = now /\ count' = count /\ passed' = passed /\ upset' = {}
        /\ stamp' = NoSample /\ got' = Nothing /\ later' = {}
        /\ begun' = [ch \in Channels |-> 0]
    BY DEF ForgetSample, EndOfRead, Zero
  <1>2. DOMAIN Nothing = {} /\ begun' \in [Channels -> Nat]
    BY <1>1 DEF Nothing
  <1>3. DetectorTypeOK'
    BY <1>1, <1>2, NoneIsNoSample DEF DetectorInv, DetectorTypeOK
  <1>4. InStep' /\ NeverOvercounts' /\ Since' /\ Covered' /\ Unbroken'
    BY <1>1, <1>2 DEF DetectorInv, InStep, NeverOvercounts, Since, Covered, Unbroken
  <1>5. QED
    BY <1>3, <1>4 DEF DetectorInv

\* The invariant is inductive.
LEMMA DetectorInvStep == DetectorInv /\ [DetectorNext]_dvars => DetectorInv'
  <1> SUFFICES ASSUME DetectorInv, [DetectorNext]_dvars PROVE DetectorInv'
    OBVIOUS
  <1>1. CASE UNCHANGED dvars
    <2>1. \A ch : Owed(ch)' = Owed(ch)
      BY <1>1 DEF dvars, engine, underway, Owed, Delta
    <2>2. QED
      BY <1>1, <2>1 DEF dvars, engine, underway, DetectorInv, DetectorTypeOK, InStep,
                        NeverOvercounts, Since, Covered, Unbroken
  <1>2. QED
    BY <1>1, InvVehicle, InvReset, InvStart, InvRead, InvApply, InvFailed, InvForget
    DEF DetectorNext

\* The invariant holds in every reachable state.
THEOREM DetectorInvariance == DetectorSpec => []DetectorInv
  <1>1. QED
    BY DetectorInvInit, DetectorInvStep, PTL DEF DetectorSpec

\* Counters, samples and counts have their types.
THEOREM DetectorTypeCorrect == DetectorSpec => []DetectorTypeOK
  <1>1. DetectorInv => DetectorTypeOK
    BY DEF DetectorInv
  <1>2. QED
    BY <1>1, DetectorInvariance, PTL

\* No vehicle is reported twice and none is made up.
THEOREM NothingOvercounted == DetectorSpec => []NeverOvercounts
  <1>1. DetectorInv => NeverOvercounts
    BY DEF DetectorInv
  <1>2. QED
    BY <1>1, DetectorInvariance, PTL

\* A reading is about the vehicles of its interval, but for those that pass
\* while a Read is under way.
LEMMA CountedStep ==
  DetectorInv /\ [DetectorNext]_dvars =>
    [(report' # NoSample /\ report' # report) =>
       LET from == then[report'.start]
           to   == then'[report'.end]
       IN  \A ch \in DOMAIN report'.readings :
             /\ report'.readings[ch] <= to.ended[ch] - from.begun[ch]
             /\ ch \notin upset => report'.readings[ch] >= to.begun[ch] - from.ended[ch]]_dvars
  <1> SUFFICES ASSUME DetectorInv, DetectorNext, report' # NoSample, report' # report,
                      NEW ch \in DOMAIN report'.readings
               PROVE  /\ report'.readings[ch]
                           <= then'[report'.end].ended[ch] - then[report'.start].begun[ch]
                      /\ ch \notin upset =>
                           report'.readings[ch]
                             >= then'[report'.end].begun[ch] - then[report'.start].ended[ch]
    OBVIOUS
  <1>1. ApplySample
    BY DEF DetectorNext, Vehicle, ControllerReset, StartRead, ReadChannel, SampleFailed,
           ForgetSample
  <1>2. /\ prevSample # NoSample /\ ch \in DOMAIN prevSample /\ ch \in DOMAIN got
        /\ report'.start = last /\ report'.end = stamp
        /\ report'.readings[ch] = Delta(prevSample[ch], got[ch])
    BY <1>1, ApplyIs, ReportIs
  <1>3. then'[report'.end].begun = begun /\ then'[report'.end].ended = passed
    BY <1>1, <1>2, ApplyIs
  <1>4. /\ ch \in Channels /\ prevSample[ch] \in Counter /\ got[ch] \in Counter
        /\ count[ch] \in Counter /\ passed[ch] \in Nat /\ begun[ch] \in Nat
        /\ then[last].begun[ch] \in Nat /\ then[last].ended[ch] \in Nat
    BY <1>2, DetectorValues
  <1>5. Delta(prevSample[ch], got[ch]) <= passed[ch] - then[last].begun[ch]
    <2>1. Owed(ch) <= passed[ch] - then[last].begun[ch]
      BY <1>2 DEF DetectorInv, Covered
    <2>2. Owed(ch) = Delta(prevSample[ch], got[ch]) + Delta(got[ch], count[ch])
      BY <1>2 DEF Owed
    <2>3. Delta(prevSample[ch], got[ch]) \in Nat /\ Delta(got[ch], count[ch]) \in Nat
      BY <1>4, DeltaType
    <2>4. QED
      BY <1>4, <2>1, <2>2, <2>3
  <1>6. ASSUME ch \notin upset
        PROVE  Delta(prevSample[ch], got[ch]) >= begun[ch] - then[last].ended[ch]
    <2>1. /\ prevSample[ch] <= got[ch]
          /\ begun[ch] - then[last].ended[ch] <= got[ch] - prevSample[ch]
      BY <1>2, <1>6 DEF DetectorInv, Unbroken
    <2>2. QED
      BY <1>4, <2>1 DEF Delta, Counter
  <1>7. QED
    BY <1>2, <1>3, <1>5, <1>6

\* Every report counts the vehicles of its own interval.
THEOREM IntervalsCounted == DetectorSpec => CountedInInterval
  <1>1. QED
    BY DetectorInvariance, CountedStep, PTL DEF DetectorSpec, CountedInInterval

-----------------------------------------------------------------------------
(* Intervals.                                                              *)

\* The engine's interval is not ahead of the sensor's, and was measured or
\* empty as it says.
Behind ==
  prevInterval # NoInterval =>
    /\ prevInterval.start <= interval
    /\ prevInterval.start \in (IF prevInterval.rows THEN measured ELSE emptied)

\* Of the sensor's interval something was told only if the engine remembers
\* it, or a boot has made it forget; of later ones nothing was.
ToldIsRemembered ==
  \A e \in toldIntervals :
    /\ e[2] <= interval
    /\ e[2] = interval /\ interval \notin forgot =>
         prevInterval # NoInterval /\ prevInterval.start = interval

OnceInv ==
  IntervalTypeOK /\ Behind /\ ToldIsRemembered /\ NeverTwice /\ MeasuredIsTold

LEMMA OnceInit == IntervalInit => OnceInv
  <1> SUFFICES ASSUME IntervalInit PROVE OnceInv
    OBVIOUS
  <1>1. 1 \in Starts
    BY IntervalsAssumption DEF Starts
  <1>2. QED
    BY <1>1 DEF IntervalInit, OnceInv, IntervalTypeOK, Behind, ToldIsRemembered,
                NeverTwice, MeasuredIsTold

\* A poll that is evidence keeps it.
LEMMA OnceApply ==
  ASSUME OnceInv, NEW rows \in BOOLEAN, ApplyInterval(rows, FALSE)
  PROVE  OnceInv'
  <1> DEFINE c == [start |-> interval, rows |-> rows]
             events == IntervalDiff(prevInterval, c)
  <1>1. /\ interval \in Starts /\ interval \in Nat
        /\ prevInterval \in Facets \cup {NoInterval}
        /\ c \in Facets /\ c # NoInterval /\ c.start = interval /\ c.rows = rows
    BY IntervalsAssumption DEF OnceInv, IntervalTypeOK, Facets, Starts
  <1>2. /\ prevInterval' = c
        /\ toldIntervals' = toldIntervals \cup events
        /\ again' = again \cup (toldIntervals \cap events)
        /\ measured' = (IF rows THEN measured \cup {interval} ELSE measured)
        /\ emptied' = (IF rows THEN emptied ELSE emptied \cup {interval})
        /\ UNCHANGED <<reportKind, interval, forgot>>
    BY DEF ApplyInterval
  <1>3. events = IF rows /\ ~SameInterval(prevInterval, c)
                   THEN Types \X {interval} ELSE {}
    BY <1>1 DEF IntervalDiff, New
  <1>4. /\ events \subseteq Types \X {interval}
        /\ \A e \in events : e[2] = interval
    BY <1>3
  <1> HIDE DEF c, events
  <1>5. IntervalTypeOK'
    <2>1. /\ toldIntervals' \subseteq Types \X Starts /\ again' \subseteq toldIntervals'
      BY <1>1, <1>2, <1>4 DEF OnceInv, IntervalTypeOK
    <2>2. Types' = Types
      BY <1>2 DEF Types
    <2>3. QED
      BY <1>1, <1>2, <2>1, <2>2 DEF OnceInv, IntervalTypeOK
  <1>6. Behind'
    BY <1>1, <1>2 DEF Behind
  <1>7. ToldIsRemembered'
    BY <1>1, <1>2, <1>4 DEF OnceInv, ToldIsRemembered
  <1>8. NeverTwice'
    <2>1. ASSUME NEW e \in toldIntervals \cap events PROVE e[2] \in forgot
      BY <1>1, <1>3, <1>4, <2>1 DEF OnceInv, ToldIsRemembered, SameInterval
    <2>2. QED
      BY <1>2, <2>1 DEF OnceInv, NeverTwice
  <1>9. MeasuredIsTold'
    <2>1. Types' = Types
      BY <1>2 DEF Types
    <2>2. ASSUME NEW i \in measured' \ emptied'
          PROVE  Types \X {i} \subseteq toldIntervals'
      <3>1. CASE i \in measured
        BY <1>2, <2>2, <3>1 DEF OnceInv, MeasuredIsTold
      <3>2. CASE i \notin measured
        <4>1. rows /\ i = interval /\ i \notin emptied
          BY <1>2, <2>2, <3>2
        <4>2. ~SameInterval(prevInterval, c)
          BY <1>1, <3>2, <4>1 DEF OnceInv, Behind, SameInterval
        <4>3. QED
          BY <1>2, <1>3, <4>1, <4>2
      <3>3. QED
        BY <3>1, <3>2
    <2>3. QED
      BY <2>1, <2>2 DEF MeasuredIsTold
  <1>10. QED
    BY <1>5, <1>6, <1>7, <1>8, <1>9 DEF OnceInv

\* The invariant is inductive.
LEMMA OnceStep == OnceInv /\ [IntervalNext]_ivars => OnceInv'
  <1> SUFFICES ASSUME OnceInv, [IntervalNext]_ivars PROVE OnceInv'
    OBVIOUS
  <1> USE DEF OnceInv, IntervalTypeOK, Behind, ToldIsRemembered, NeverTwice,
              MeasuredIsTold, ihistory, Types
  <1>1. CASE NextInterval
    <2>1. interval' = interval + 1 /\ interval \in Nat /\ interval' \in Starts
      BY <1>1, IntervalsAssumption DEF NextInterval, Starts
    <2>2. \A e \in toldIntervals : e[2] \in Nat
      BY DEF Starts
    <2>3. prevInterval # NoInterval => prevInterval.start \in Nat
      BY DEF Facets, Starts
    <2>4. QED
      BY <1>1, <2>1, <2>2, <2>3 DEF NextInterval
  <1>2. ASSUME NEW rows \in BOOLEAN, NEW failed \in BOOLEAN, ApplyInterval(rows, failed)
        PROVE  OnceInv'
    <2>1. CASE failed
      BY <1>2, <2>1 DEF ApplyInterval
    <2>2. CASE ~failed
      BY <1>2, <2>2, OnceApply
    <2>3. QED
      BY <2>1, <2>2
  <1>3. CASE ForgetInterval
    BY <1>3 DEF ForgetInterval
  <1>4. CASE UNCHANGED ivars
    BY <1>4 DEF ivars
  <1>5. QED
    BY <1>1, <1>2, <1>3, <1>4 DEF IntervalNext

\* However the sensor is polled, the invariant holds.
THEOREM IntervalInvariance == IntervalSpec => []OnceInv
  <1>1. QED
    BY OnceInit, OnceStep, PTL DEF IntervalSpec

\* No interval is reported twice unless a boot remembered nothing during it
\* (trafficsensor.go:34-37).
THEOREM ReportedOnce == IntervalSpec => []NeverTwice
  <1>1. OnceInv => NeverTwice
    BY DEF OnceInv
  <1>2. QED
    BY <1>1, IntervalInvariance, PTL

\* An interval that was measured when it was first read is reported
\* (trafficsensor.go:27-46, perception.go:123-150).
THEOREM MeasuredIsReported == IntervalSpec => []MeasuredIsTold
  <1>1. OnceInv => MeasuredIsTold
    BY DEF OnceInv
  <1>2. QED
    BY <1>1, IntervalInvariance, PTL
================================================================================
