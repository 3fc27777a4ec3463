--------------------------------- MODULE Wire ---------------------------------
(***************************************************************************)
(* What the emitters make of a domain event: the catalog emitter           *)
(* (internal/wire/openits/emitter.go, identities.go), the one for the      *)
(* collector's own schema (internal/wire/health), and the identity of an   *)
(* event (internal/cloudevents).                                           *)
(*                                                                         *)
(* A domain event names its kind, its device and the device's kind, its    *)
(* time, what of the device it is about, and the values from which and to  *)
(* which that went; of a report, from is not used.  Measurements, which    *)
(* are copied, are left out: the leaves that are modelled are those with   *)
(* a closed set of values, ids and texts.                                  *)
(***************************************************************************)
CONSTANTS
  Unnamed,   \* an optional leaf that is left out
  BadText    \* a text that is not UTF-8, which no payload can hold

CEType(namespace, service, event) ==
  [namespace |-> namespace, service |-> service, event |-> event, version |-> "v1"]

NoCEType == CEType("", "", "")

\* The event kinds that the catalog has for each device kind, whose names have
\* dashes in the code.
Served ==
  [asc |-> {"mode-changed", "device-status-changed", "fault-raised", "fault-cleared",
            "plan-changed", "operational-status-report", "preemption-activated",
            "preemption-cleared", "detector-report"},
   dms |-> {"fault-raised", "fault-cleared", "control-mode-changed",
            "display-state-changed", "message-activation-failed",
            "message-changed", "sign-status-report"},
   cctv |-> {"fault-raised", "fault-cleared", "cctv-control-mode-changed",
             "cctv-tour-state-changed"},
   traffic_sensor |-> {"fault-raised", "fault-cleared", "traffic-interval-report"},
   perception |-> {"fault-raised", "fault-cleared", "zone-incident-detected",
                   "zone-incident-updated", "zone-incident-cleared",
                   "zone-interval-report", "zone-occupancy-interval-report"}]

\* Both modes of a sign share one ce-type.
WireEvent(event) ==
  CASE event \in {"control-mode-changed", "display-state-changed",
                  "cctv-control-mode-changed"} -> "mode-changed"
    [] event = "cctv-tour-state-changed"       -> "tour-state-changed"
    [] event = "plan-changed"                  -> "plan-applied"
    [] event = "device-status-changed"         -> "comm-health-event"
    [] OTHER                                   -> event

ServiceOf(event, kind) ==
  CASE event = "zone-occupancy-interval-report" -> "zone-occupancy"
    [] kind = "asc" -> "signal-control"
    [] OTHER        -> kind

CETypeFor(event, kind) ==
  IF kind \in DOMAIN Served /\ event \in Served[kind]
    THEN CEType("openits", ServiceOf(event, kind), WireEvent(event))
    ELSE NoCEType

CatalogCETypes ==
  UNION {{CETypeFor(e, k) : e \in Served[k]} : k \in DOMAIN Served}

HealthCEType(event) ==
  CASE event = "device-status-changed" ->
         CEType("openits-collector", "health", "device-status-changed")
    [] event \in {"started", "stopping", "heartbeat", "log"} ->
         CEType("openits-collector", "instance", event)
    [] OTHER -> NoCEType

HealthCETypes ==
  {HealthCEType(e) : e \in {"device-status-changed", "started", "stopping",
                            "heartbeat", "log"}}

-----------------------------------------------------------------------------
\* Identities and enumerations of the catalog.  A pair is an identity of a
\* module.

ControllerModeIdentity(m) ==
  CASE m = "normal" -> <<"signal-control", "mode-free">>
    [] m = "flash"  -> <<"signal-control", "mode-flash">>
    [] m = "off"    -> <<"signal-control", "mode-off">>
    [] OTHER        -> Unnamed

DMSControlModeIdentity(m) ==
  IF m \in {"local", "external", "central", "central-override", "simulation", "other"}
    THEN <<"dms", "control", m>> ELSE Unnamed

DMSDisplayStateIdentity(s) == <<"dms", "mode", s>>

CCTVControlModeIdentity(m) ==
  IF m \in {"central", "local", "central-override", "other"}
    THEN <<"cctv", "control", m>> ELSE Unnamed

ModeIdentity(event, v) ==
  CASE event = "mode-changed"              -> ControllerModeIdentity(v)
    [] event = "control-mode-changed"      -> DMSControlModeIdentity(v)
    [] event = "display-state-changed"     -> DMSDisplayStateIdentity(v)
    [] event = "cctv-control-mode-changed" -> CCTVControlModeIdentity(v)

\* The categories that have an identity in each service.
FaultKinds ==
  [asc |-> {"conflict", "cabinet", "power", "communication", "detector", "lamp"},
   dms |-> {"lamp", "pixel", "controller", "environment", "power", "communication"},
   cctv |-> {"communication", "environment"},
   traffic_sensor |-> {"power", "communication", "environment"},
   perception |-> {"power", "communication", "environment"}]

\* A category without one is a fault of the service all the same.
FaultKindIdentity(category, kind) ==
  IF category \in FaultKinds[kind] THEN <<kind, category>> ELSE <<kind, "fault">>

SeverityFor(s) == IF s \in {"warning", "minor", "major", "critical"} THEN s ELSE "info"

ActivationTriggerIdentity(t) ==
  CASE t \in {"schedule", "comm-loss"} -> <<"openits", t>>
    [] t = "command" -> <<"openits", "operator">>
    [] t \in {"power-recovery", "power-loss", "end-of-duration"} -> <<"dms", t>>
    [] OTHER -> Unnamed

\* The enumeration of run states has no unknown: its zero is STOPPED.
TourRunStateFor(s) ==
  IF s \in {"stopped", "running", "paused"} THEN s ELSE "stopped"

TourRunStateKnown(s) == s \in {"stopped", "running", "paused"}

IncidentTypeIdentity(t) ==
  IF t \in {"stopped-vehicle", "wrong-way-vehicle", "pedestrian-in-roadway",
            "debris-in-roadway", "queue-spillback", "near-miss", "congestion",
            "slowed-traffic"}
    THEN <<"perception", t>> ELSE Unnamed

ObjectClassIdentity(c) ==
  IF c \in {"passenger-vehicle", "truck", "bus", "motorcycle", "bicycle",
            "pedestrian", "animal", "debris"}
    THEN <<"openits", c>> ELSE <<"openits", "unknown">>

\* Understates what was not reported, as the enumeration's zero does.
IncidentSeverityFor(s) == IF s \in {"intermediate", "major"} THEN s ELSE "minor"

DataQualityFor(q) == IF q \in {"valid", "invalid"} THEN q ELSE "suspect"

MemoryTypeFor(m) ==
  IF m \in {"permanent", "changeable", "volatile", "schedule", "blank"}
    THEN m ELSE "unspecified"

ErrorTypeFor(e) ==
  IF e \in {"syntax", "unsupported-tag", "font-not-found", "graphic-not-found",
            "too-long", "hardware"}
    THEN e ELSE "other"

-----------------------------------------------------------------------------
\* The payload of the catalog for an event, without the header: device, time,
\* observer and sequence.

ModeEvents == {"mode-changed", "control-mode-changed", "display-state-changed",
               "cctv-control-mode-changed"}

\* Shared by the mode changes of all services.
ModeChangedBody(ev) ==
  [prior |-> ModeIdentity(ev.event, ev.from), current |-> ModeIdentity(ev.event, ev.to)]

CommHealthBody(ev) == [kind |-> IF ev.to THEN "comm-restored" ELSE "comm-lost"]

FaultRaisedBody(ev) ==
  [kind |-> FaultKindIdentity(ev.to.category, ev.kind), fault_id |-> ev.of,
   severity |-> SeverityFor(ev.to.severity), description |-> ev.to.text]

\* A clear has no category.
FaultClearedBody(ev) ==
  [kind |-> FaultKindIdentity("unknown", ev.kind), fault_id |-> ev.of]

\* The plan that was in force before is left out.
PlanAppliedBody(ev) == [plan_id |-> ev.to]

OperationalStatusBody(ev) == [mode |-> ControllerModeIdentity(ev.to)]

PreemptionBody(ev) == [kind |-> "preemption"]

DetectorReportBody(ev) == [detector |-> ev.to]

TourBody(ev) ==
  [tour_id |-> ev.of, previous_state |-> TourRunStateFor(ev.from),
   current_state |-> TourRunStateFor(ev.to)]

IncidentDetectedBody(ev) ==
  [incident_id |-> ev.of, zone_id |-> ev.to.zone, type |-> IncidentTypeIdentity(ev.to.type),
   severity |-> IncidentSeverityFor(ev.to.severity),
   object_class |-> ObjectClassIdentity(ev.to.class)]

IncidentUpdatedBody(ev) ==
  [incident_id |-> ev.of, zone_id |-> ev.to.zone,
   severity |-> IncidentSeverityFor(ev.to.severity)]

IncidentClearedBody(ev) == [incident_id |-> ev.of, zone_id |-> ev.from.zone]

\* One interval, as what crossed the zones and as what was in them.
ZoneIntervalBody(ev) == [crossed |-> ObjectClassIdentity(ev.to.class)]

ZoneOccupancyBody(ev) == [observed |-> ObjectClassIdentity(ev.to.class)]

TrafficIntervalBody(ev) == [data_quality |-> DataQualityFor(ev.to.quality)]

ActivationFailedBody(ev) ==
  [attempted_memory_type |-> MemoryTypeFor(ev.to.memory),
   error_type |-> ErrorTypeFor(ev.to.error)]

MessageChangedBody(ev) ==
  [memory_type |-> MemoryTypeFor(ev.to.memory), multi_string |-> ev.to.text,
   prior_memory_type |-> MemoryTypeFor(ev.from.memory),
   prior_multi_string |-> ev.from.text,
   activation_trigger |-> ActivationTriggerIdentity(ev.to.trigger)]

SignStatusBody(ev) == [readings |-> ev.to]

Body(ev) ==
  CASE ev.event \in ModeEvents                          -> ModeChangedBody(ev)
    [] ev.event = "device-status-changed"               -> CommHealthBody(ev)
    [] ev.event = "fault-raised"                        -> FaultRaisedBody(ev)
    [] ev.event = "fault-cleared"                       -> FaultClearedBody(ev)
    [] ev.event = "plan-changed"                        -> PlanAppliedBody(ev)
    [] ev.event = "operational-status-report"           -> OperationalStatusBody(ev)
    [] ev.event \in {"preemption-activated", "preemption-cleared"} -> PreemptionBody(ev)
    [] ev.event = "detector-report"                     -> DetectorReportBody(ev)
    [] ev.event = "cctv-tour-state-changed"             -> TourBody(ev)
    [] ev.event = "zone-incident-detected"              -> IncidentDetectedBody(ev)
    [] ev.event = "zone-incident-updated"               -> IncidentUpdatedBody(ev)
    [] ev.event = "zone-incident-cleared"               -> IncidentClearedBody(ev)
    [] ev.event = "zone-interval-report"                -> ZoneIntervalBody(ev)
    [] ev.event = "zone-occupancy-interval-report"      -> ZoneOccupancyBody(ev)
    [] ev.event = "traffic-interval-report"             -> TrafficIntervalBody(ev)
    [] ev.event = "message-activation-failed"           -> ActivationFailedBody(ev)
    [] ev.event = "message-changed"                     -> MessageChangedBody(ev)
    [] ev.event = "sign-status-report"                  -> SignStatusBody(ev)

\* Fault: it is the value before that has to have an identity.
DeclinedByPrior(ev) ==
  \/ ev.event \in ModeEvents /\ ModeIdentity(ev.event, ev.from) = Unnamed
  \/ ev.event = "operational-status-report" /\ ControllerModeIdentity(ev.to) = Unnamed
  \/ ev.event = "cctv-tour-state-changed" /\ ~TourRunStateKnown(ev.to)

\* Events that have no honest payload, because a leaf that is mandatory has
\* no value for what the device is now, are not claimed.
Declined(ev) ==
  \/ ev.event \in ModeEvents /\ ModeIdentity(ev.event, ev.to) = Unnamed
  \/ ev.event = "operational-status-report" /\ ControllerModeIdentity(ev.to) = Unnamed
  \/ ev.event = "cctv-tour-state-changed" /\ ~TourRunStateKnown(ev.to)

Claimed(ev) == CETypeFor(ev.event, ev.kind) # NoCEType /\ ~Declined(ev)

Marshals(body) == \A leaf \in DOMAIN body : body[leaf] # BadText

HealthBody(ev) == [reported |-> ev.to]

-----------------------------------------------------------------------------
EntityKindFor(kind) ==
  CASE kind = "asc" -> "controller"
    [] kind = "dms" -> "sign"
    [] kind \in {"cctv", "traffic_sensor", "perception"} -> kind
    [] kind = "" -> "collector"
    [] OTHER -> Unnamed

\* The tenant, which is the same in all sources of a collector, is left out.
SourceFor(kind, device, site) ==
  <<EntityKindFor(kind), IF device = <<>> THEN site ELSE device>>

\* Fault: the ids of faults and tours are cleared as well.
IdentityBytesWithoutIds(body) ==
  [leaf \in DOMAIN body \ {"fault_id", "tour_id"} |-> body[leaf]]

\* The payload without its sequence and observer, which the header has.
IdentityBytes(body) == body

\* The digest and the time, taken to tell apart whatever differs.
EventID(source, ceType, at, identity) == <<source, ceType, at, identity>>
=============================================================================
