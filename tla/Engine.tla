-------------------------------- MODULE Engine --------------------------------
(***************************************************************************)
(* One facet kind of one device, whichever it is, from what the adapter    *)
(* reads to what a consumer makes of the events.  The engine               *)
(* (internal/synth/synth.go) keeps its previous facets apart by device and *)
(* kind and gives each differ those of its kind only, so a behaviour is    *)
(* about one family of kinds, which is chosen at the start.                *)
(***************************************************************************)
EXTENDS Ntcip, StandingConditions, Detectors, Intervals

VARIABLE family   \* of the differs: what the facet is about

evars == <<nvars, stvars, dvars, ivars, family>>

EngineInit ==
  /\ NInit /\ StandingInit /\ DetectorInit /\ IntervalInit
  /\ family \in {"transitions", "conditions", "counters", "intervals"}
  \* The kinds of the other families make no difference.
  /\ family # "transitions" => kind = "signal-status"
  /\ family # "conditions" => standingKind = "fault-set"
  /\ family # "intervals" => reportKind = "traffic-intervals"

EngineNext ==
  /\ \/ family = "transitions" /\ NNext /\ UNCHANGED <<stvars, dvars, ivars>>
     \/ family = "conditions" /\ StandingNext /\ UNCHANGED <<nvars, dvars, ivars>>
     \/ family = "counters" /\ DetectorNext /\ UNCHANGED <<nvars, stvars, ivars>>
     \/ family = "intervals" /\ IntervalNext /\ UNCHANGED <<nvars, stvars, dvars>>
  /\ UNCHANGED family

EngineSpec == EngineInit /\ [][EngineNext]_evars

-----------------------------------------------------------------------------
\* The faces a sign's answers make, for TLC.
AllFaces == [memory  : {MemoryTypeFromNTCIP(m) : m \in MemoryTypes},
             message : Messages, text : Texts \cup {NoText}]
=============================================================================
