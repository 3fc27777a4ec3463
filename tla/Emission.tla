------------------------------- MODULE Emission -------------------------------
(***************************************************************************)
(* From the events of the differs to the publisher's queue                 *)
(* (encodeAndEnqueue, internal/app/app.go), for every configuration that   *)
(* boot accepts (internal/config/config.go, Run).  Each device has a       *)
(* goroutine, its runner, which encodes and queues the events of a poll    *)
(* one after the other; the emitter with its counters, and the queue, are  *)
(* shared.  What becomes of a queued message is Publisher's matter, and    *)
(* what a crash loses before it is queued is SynthState's: here the        *)
(* collector stops cleanly, with no batch under way.                       *)
(***************************************************************************)
EXTENDS Subjects, Wire, Naturals, Sequences, FiniteSets, FiniteSetsExt, SequencesExt

CONSTANTS
  Configs,      \* configuration files: [template, vars, devices]
  Identity,     \* region, agency, agency_unit and site, as texts
  KnownKinds,   \* device kinds that some adapter is registered for
  Readings,     \* what the adapters of each kind may read
  Absent,       \* no such fault or incident
  MaxPolls,     \* of all devices together, by how many they are
  MaxReports, MaxLives

VARIABLES
  config,     \* the configuration file
  status,     \* "off", "running", "refused"
  tmpl,       \* the subject template
  streams,    \* the filters of the streams that are provisioned
  prev,       \* what is known of each device: e.prev, and whether it answers
  polls,      \* how often each device was polled: its clock
  batch,      \* events of the device's poll that are not yet encoded
  encoded,    \* the message that its runner has encoded and not queued, or Idle
  seq,        \* the emitter's counters, by device id
  sent,       \* messages queued, in order
  dropped,    \* counts of events that were not: noEmitter, noSource, encodeErrors
  made,       \* history: how many events were made
  spoilt,     \* history: <<life, device id, sequence>> of failed encodings
  untold,     \* history: <<runner, thing>> whose latest event was not queued
  reports,    \* how many reports the collector made of itself
  lives       \* how often it booted

vars == <<config, status, tmpl, streams, prev, polls, batch, encoded, seq, sent,
          dropped, made, spoilt, untold, reports, lives>>

Runners == DOMAIN config.devices

Idle == [is |-> "idle"]   \* no event encoded

DeviceIds(c) == {c.devices[i].id : i \in DOMAIN c.devices}

\* A counter that is not in the map reads as zero.
Unnumbered == [d \in DeviceIds(config) |-> 0]

-----------------------------------------------------------------------------
\* Boot.

\* The tenant's tokens are stricter than a subject's and are taken to be so.
ValidConfig(c) ==
  /\ c.devices # <<>>
  /\ \A i \in DOMAIN c.devices :
       /\ c.devices[i].id # NoDevice
       /\ c.devices[i].kind \in KnownKinds
       /\ \A j \in DOMAIN c.devices : c.devices[i].id = c.devices[j].id => i = j

CETypes == CatalogCETypes \cup HealthCETypes

Accepted(c) ==
  /\ ValidConfig(c)
  /\ New(c.template, c.vars, Identity) # Refused
  /\ ValidateBindable(New(c.template, c.vars, Identity))
  /\ ValidateCETypes(New(c.template, c.vars, Identity), CETypes, DeviceIds(c))

AcceptedConfigs == {c \in Configs : Accepted(c)}

\* The message that a claimed event makes.  What else it holds follows from
\* these fields and the template.
Message(ev, ceType, sequence) ==
  [ev |-> ev, ceType |-> ceType, sequence |-> sequence, life |-> lives]

BodyOf(m) == IF m.ceType.namespace = "openits" THEN Body(m.ev) ELSE HealthBody(m.ev)

SourceOf(m) == SourceFor(m.ev.kind, m.ev.device, Identity["site"])

CEId(m) == EventID(SourceOf(m), m.ceType, m.ev.at, IdentityBytes(BodyOf(m)))

SubjectOf(m) == Render(tmpl, m.ceType, m.ev.device)

\* What the collector says of itself.
SelfMessage(event, n) ==
  LET ev == [event |-> event, device |-> NoDevice, kind |-> "", at |-> n, of |-> "",
             from |-> "", to |-> n]
  IN  Message(ev, HealthCEType(event), 0)

Boot ==
  /\ status = "off"
  /\ IF config \in AcceptedConfigs
       THEN /\ status' = "running"
            /\ tmpl' = New(config.template, config.vars, Identity)
            /\ streams' = Bindings(tmpl', CETypes)
            /\ sent' = Append(sent, SelfMessage("started", reports))
            /\ made' = made + 1
       ELSE status' = "refused" /\ UNCHANGED <<tmpl, streams, sent, made>>
  /\ UNCHANGED <<config, prev, polls, batch, encoded, seq, dropped, spoilt, untold,
                 reports, lives>>

-----------------------------------------------------------------------------
\* Polls.  A reading is a function from the things that the differs compare to
\* their values; that of a device which does not answer has only that it does
\* not.  A device that was never read is taken to answer, and to have had no
\* fault and no incident.

Standing == {"fault1", "fault2", "incident"}

Was(p, c, thing) == IF thing \in DOMAIN p THEN p[thing]
                    ELSE CASE thing \in Standing   -> Absent
                           [] thing = "reachable" -> TRUE
                           [] OTHER               -> c[thing]

\* Fault: what a partial read leaves out is forgotten.
RememberedOnlyRead(p, c) == c

Remembered(p, c) ==
  [t \in DOMAIN c \cup DOMAIN p |-> IF t \in DOMAIN c THEN c[t] ELSE p[t]]

ChangeOf(thing, from, to) ==
  CASE thing = "reachable"   -> "device-status-changed"
    [] thing = "mode"        -> "mode-changed"
    [] thing = "plan"        -> "plan-changed"
    [] thing = "preemption"  -> IF to THEN "preemption-activated" ELSE "preemption-cleared"
    [] thing = "control"     -> "control-mode-changed"
    [] thing = "display"     -> "display-state-changed"
    [] thing = "face"        -> "message-changed"
    [] thing = "failure"     -> "message-activation-failed"
    [] thing = "cctvControl" -> "cctv-control-mode-changed"
    [] thing \in {"tour1", "tour2"}   -> "cctv-tour-state-changed"
    [] thing \in {"fault1", "fault2"} -> IF to = Absent THEN "fault-cleared" ELSE "fault-raised"
    [] thing = "incident" -> IF from = Absent THEN "zone-incident-detected"
                             ELSE IF to = Absent THEN "zone-incident-cleared"
                             ELSE "zone-incident-updated"

\* Things that are reported at each poll, changed or not.
ReportsOf(thing) ==
  CASE thing = "mode"        -> <<"operational-status-report">>
    [] thing = "detectors"   -> <<"detector-report">>
    [] thing = "environment" -> <<"sign-status-report">>
    [] thing = "lanes"       -> <<"traffic-interval-report">>
    [] thing = "zones"       -> <<"zone-interval-report", "zone-occupancy-interval-report">>
    [] OTHER                 -> <<>>

OnlyReported == {"detectors", "environment", "lanes", "zones"}

Order == <<"reachable", "mode", "plan", "preemption", "detectors", "control", "display",
           "face", "failure", "environment", "cctvControl", "tour1", "tour2", "lanes",
           "incident", "zones", "fault1", "fault2">>

\* A sign that stays in error, or leaves it, says nothing of it.
Telling(thing, from, to) ==
  thing \notin OnlyReported /\ from # to /\ ~(thing = "failure" /\ to = Absent)

EventsOf(i, thing, from, to) ==
  LET Event(e) == [event |-> e, device |-> config.devices[i].id,
                   kind |-> config.devices[i].kind, at |-> polls[i] + 1,
                   of |-> thing, from |-> from, to |-> to]
  IN  [j \in DOMAIN ReportsOf(thing) |-> Event(ReportsOf(thing)[j])]
      \o (IF Telling(thing, from, to) THEN <<Event(ChangeOf(thing, from, to))>> ELSE <<>>)

EventsOfPoll(i, c) ==
  FlattenSeq([j \in DOMAIN Order |->
    IF Order[j] \in DOMAIN c
      THEN EventsOf(i, Order[j], Was(prev[i], c, Order[j]), c[Order[j]])
      ELSE <<>>])

\* What is taken of the constants: texts are made of parts, what adapters read
\* are things that a differ compares, no kind of entity is the absence of one,
\* and no identity of a mode is a text that cannot be marshalled.
Modes == {"mode", "control", "display", "cctvControl"}

ModeOf(thing, v) == ModeIdentity(ChangeOf(thing, v, v), v)

ASSUME EmissionAssumption ==
  /\ \A c \in Configs :
       /\ c.template \in Seq(RawTokens)
       /\ c.vars \in [DOMAIN c.vars -> Seq(Parts)]
       /\ c.devices \in Seq([id : Seq(Parts), kind : STRING])
  /\ Identity \in [IdentityNames -> Seq(Parts)]
  /\ \A k \in KnownKinds : \A c \in Readings[k] :
       /\ c = [t \in DOMAIN c |-> c[t]]
       /\ DOMAIN c \subseteq Range(Order)
       /\ \A t \in DOMAIN c \cap Modes : ModeOf(t, c[t]) # BadText
  /\ \A k \in DOMAIN Served : EntityKindFor(k) # Unnamed

\* The polls of all devices together.
PollBound == MaxPolls[Len(config.devices)]

Polled == {p \in Runners \X (1 .. PollBound) : p[2] <= polls[p[1]]}

Poll(i, c) ==
  /\ status = "running" /\ batch[i] = <<>> /\ encoded[i] = Idle
  /\ Cardinality(Polled) < PollBound
  /\ batch' = [batch EXCEPT ![i] = EventsOfPoll(i, c)]
  /\ made' = made + Len(batch'[i])
  /\ prev' = [prev EXCEPT ![i] = Remembered(@, c)]
  /\ polls' = [polls EXCEPT ![i] = @ + 1]
  /\ UNCHANGED <<config, status, tmpl, streams, encoded, seq, sent, dropped, spoilt,
                 untold, reports, lives>>

-----------------------------------------------------------------------------
\* encodeAndEnqueue.

NextSequence(ev) == seq[ev.device] + 1

\* Fault: a number is drawn before the event is declined.
DrawsAlways(ev) == CETypeFor(ev.event, ev.kind) # NoCEType

\* A number is drawn for what the catalog claims, and for nothing else.
Draws(ev) == Claimed(ev)

Draw(ev) ==
  seq' = IF Draws(ev) THEN [seq EXCEPT ![ev.device] = NextSequence(ev)] ELSE seq

Drop(reason) == dropped' = [dropped EXCEPT ![reason] = @ + 1]

\* An event that has a payload may still have no source.
Route(i, m) ==
  IF EntityKindFor(m.ev.kind) = Unnamed
    THEN Drop("noSource") /\ UNCHANGED encoded
    ELSE encoded' = [encoded EXCEPT ![i] = m] /\ UNCHANGED dropped

\* The emitters are asked in turn, and the first that claims the event has it.
\* A payload that cannot be marshalled has its number already.
Encode(i) ==
  /\ batch[i] # <<>> /\ encoded[i] = Idle
  /\ LET ev == Head(batch[i])
     IN  /\ batch' = [batch EXCEPT ![i] = Tail(@)]
         /\ Draw(ev)
         /\ IF Claimed(ev) /\ ~Marshals(Body(ev))
              THEN /\ Drop("encodeErrors")
                   /\ spoilt' = spoilt \cup {<<lives, ev.device, NextSequence(ev)>>}
                   /\ UNCHANGED encoded
              ELSE /\ UNCHANGED spoilt
                   /\ IF Claimed(ev)
                        THEN Route(i, Message(ev, CETypeFor(ev.event, ev.kind), NextSequence(ev)))
                      ELSE IF HealthCEType(ev.event) # NoCEType
                        THEN Route(i, Message(ev, HealthCEType(ev.event), 0))
                      ELSE Drop("noEmitter") /\ UNCHANGED encoded
         /\ untold' = IF encoded'[i] = Idle THEN untold \cup {<<i, ev.of>>}
                                            ELSE untold \ {<<i, ev.of>>}
  /\ UNCHANGED <<config, status, tmpl, streams, prev, polls, sent, made, reports, lives>>

\* A subject that cannot be rendered loses its event, which nothing counts.
Enqueue(i) ==
  /\ encoded[i] # Idle
  /\ sent' = IF Renderable(tmpl, encoded[i].ev.device)
               THEN Append(sent, encoded[i]) ELSE sent
  /\ untold' = IF Renderable(tmpl, encoded[i].ev.device)
                 THEN untold ELSE untold \cup {<<i, encoded[i].ev.of>>}
  /\ encoded' = [encoded EXCEPT ![i] = Idle]
  /\ UNCHANGED <<config, status, tmpl, streams, prev, polls, batch, seq, dropped, made,
                 spoilt, reports, lives>>

\* A heartbeat, or a record of the collector's own log.
SelfReport(event) ==
  /\ status = "running" /\ reports < MaxReports
  /\ sent' = Append(sent, SelfMessage(event, reports + 1))
  /\ reports' = reports + 1 /\ made' = made + 1
  /\ UNCHANGED <<config, status, tmpl, streams, prev, polls, batch, encoded, seq, dropped,
                 spoilt, untold, lives>>

\* The collector stops and is started again.  The counters are in memory, and
\* so is whether a device answers.  What the engine knew is taken to have been
\* written: a stop whose flush failed (app.go:256-258) is SynthState's matter.
Restart ==
  /\ status = "running" /\ lives < MaxLives
  /\ \A i \in Runners : batch[i] = <<>> /\ encoded[i] = Idle
  /\ status' = "off" /\ lives' = lives + 1
  /\ seq' = Unnumbered
  /\ sent' = Append(sent, SelfMessage("stopping", reports))
  /\ made' = made + 1 /\ reports' = reports + 1
  /\ prev' = [i \in Runners |-> Restrict(prev[i], DOMAIN prev[i] \ {"reachable"})]
  /\ UNCHANGED <<config, tmpl, streams, polls, batch, encoded, dropped, spoilt, untold>>

Init ==
  /\ config \in Configs
  /\ status = "off" /\ tmpl = Refused /\ streams = {}
  /\ prev = [i \in Runners |-> <<>>]
  /\ polls = [i \in Runners |-> 0]
  /\ batch = [i \in Runners |-> <<>>]
  /\ encoded = [i \in Runners |-> Idle]
  /\ seq = Unnumbered /\ sent = <<>>
  /\ dropped = [noEmitter |-> 0, noSource |-> 0, encodeErrors |-> 0]
  /\ made = 0 /\ spoilt = {} /\ untold = {} /\ reports = 0 /\ lives = 1

Next ==
  \/ Boot
  \/ \E i \in Runners : \E c \in Readings[config.devices[i].kind] : Poll(i, c)
  \/ \E i \in Runners : Encode(i)
  \/ \E i \in Runners : Enqueue(i)
  \/ \E event \in {"heartbeat", "log"} : SelfReport(event)
  \/ Restart

Spec == Init /\ [][Next]_vars

-----------------------------------------------------------------------------
\* Every event is queued, counted as dropped for its reason, or still with
\* its runner: none is lost to a subject that boot should have refused
\* (app.go:125-140, 322-368).
EveryEventCounted ==
  made = Len(sent) + dropped.noEmitter + dropped.noSource + dropped.encodeErrors
         + Len(FlattenSeq(batch)) + Cardinality({i \in Runners : encoded[i] # Idle})

\* The properties below are of the message that was queued last, which each
\* message was once.
Newest == Last(sent)

Earlier == 1 .. Len(sent) - 1

Captures(m) == LET subject == SubjectOf(m)
               IN  {b \in streams : WithinBinding(subject, b)}

\* A message is captured by exactly one stream, which no other filter shares
\* its name with, and each token of its subject is what the template has at
\* that place, so that a subscriber may filter by position (subject.go:
\* 216-224, publish.go:440-452).
OneStreamEach ==
  sent # <<>> =>
    /\ Cardinality(Captures(Newest)) = 1
    /\ Cardinality({StreamNameForBinding(b) : b \in streams}) = Cardinality(streams)
    /\ Len(SubjectOf(Newest)) = Len(tmpl.tokens)

\* A device's messages of one lifetime are queued in the order of their
\* numbers, which start at 1 and skip only those of failed encodings, however
\* the runners interleave and whatever is declined: to a consumer a gap means
\* a loss (emitter.go:49-61).
GapMeansLoss ==
  sent # <<>> =>
    \A k \in 1 .. Newest.sequence - 1 :
       \/ <<Newest.life, Newest.ev.device, k>> \in spoilt
       \/ \E m \in Earlier : /\ sent[m].life = Newest.life
                            /\ sent[m].ev.device = Newest.ev.device
                            /\ sent[m].sequence = k

\* No two events have the same id, so the broker, which drops a message whose
\* id it has seen, swallows no event for another: not those of one poll,
\* which share their time, nor those of devices polled at the same time.
NothingSwallowed ==
  sent # <<>> =>
    \A m \in Earlier : sent[m].ceType = Newest.ceType => CEId(sent[m]) # CEId(Newest)

\* A change of mode starts from what its consumer was told last, or does not
\* say from where, though modes without an identity are never told
\* (emitter.go:175-204, 337-344).
PriorsChain ==
  sent # <<>> /\ Newest.ev.event \in ModeEvents /\ BodyOf(Newest).prior # Unnamed =>
    LET told == {m \in Earlier : /\ sent[m].ev.device = Newest.ev.device
                                /\ sent[m].ev.event = Newest.ev.event}
    IN  told # {} => BodyOf(sent[Max(told)]).current = BodyOf(Newest).prior

\* What the wire calls a tour's previous state is a state that the tour was
\* in: an unknown one does not occur, as emitter.go:350-353 says.
PreviousTourStateSeen ==
  sent # <<>> /\ Newest.ev.event = "cctv-tour-state-changed" =>
    TourRunStateKnown(Newest.ev.from)

\* What was said of a thing of a device; of whether it answers, since the
\* collector booted, which is as long as it knows.
About(i, thing) ==
  {m \in DOMAIN sent : /\ sent[m].ev.device = config.devices[i].id
                       /\ sent[m].ev.of = thing
                       /\ thing = "reachable" => sent[m].life = lives}

\* A consumer that knows only the messages has what the engine has: what was
\* said last of a thing is what is known of it, and of what nothing was said
\* there is nothing to know, or it was so from the start.
Agrees(i, thing) ==
  IF About(i, thing) # {}
    THEN sent[Max(About(i, thing))].ev.to = prev[i][thing]
    ELSE /\ thing \in Standing => prev[i][thing] = Absent
         /\ thing = "reachable" => prev[i][thing] = TRUE

\* So it is with each device whose poll has been worked off, for all but the
\* things whose latest event was not queued, however reads fail and leave
\* things out, whatever is declined, and over restarts (app.go:322-368).  That
\* a sign left its error is no event, and so is not told.
ConsumerKnows ==
  \A i \in Runners : batch[i] = <<>> /\ encoded[i] = Idle =>
    \A thing \in DOMAIN prev[i] :
       \/ <<i, thing>> \in untold
       \/ thing = "failure" /\ prev[i][thing] = Absent
       \/ Agrees(i, thing)
=============================================================================
