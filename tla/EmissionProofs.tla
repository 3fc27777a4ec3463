--------------------------- MODULE EmissionProofs ---------------------------
(***************************************************************************)
(* What Emission checks of small configurations, proved for all that boot  *)
(* accepts: any devices of any kinds, any readings, any template.          *)
(*                                                                         *)
(* Core says what is in the batches, in hand and in the queue.  The other  *)
(* parts of the invariant are each for one property: Keys and OwnTimes for *)
(* ids, Numbers for gaps, Batches for the count, Chain for modes, and      *)
(* Informed for what consumers know.                                       *)
(***************************************************************************)
EXTENDS Emission, SubjectsProofs, FiniteSetTheorems, TLAPS

-----------------------------------------------------------------------------
(* Sequences of whatever they hold.                                        *)

\* A sequence of what it holds, whatever that is: events and messages have no
\* type of their own.
Sequence(s) == s \in Seq(Range(s))

\* A sequence has a length, its domain, and is empty if it has none.
LEMMA SequenceIs ==
  ASSUME NEW S, NEW s \in Seq(S)
  PROVE  /\ Sequence(s) /\ Len(s) \in Nat /\ DOMAIN s = 1 .. Len(s)
         /\ s = <<>> <=> Len(s) = 0
<1>1. Len(s) \in Nat /\ DOMAIN s = 1 .. Len(s) /\ s \in [1 .. Len(s) -> S]
  BY LenProperties
<1>2. s \in [1 .. Len(s) -> Range(s)]
  BY <1>1 DEF Range
<1>3. Sequence(s)
  BY <1>1, <1>2, FunctionIsSeq DEF Sequence
<1>4. s = <<>> <=> Len(s) = 0
  BY EmptySeq
<1> QED
  BY <1>1, <1>3, <1>4

\* What Append leaves as it was, and what it adds.
LEMMA AppendIs ==
  ASSUME NEW s, Sequence(s), NEW x
  PROVE  /\ Sequence(Append(s, x)) /\ Len(Append(s, x)) = Len(s) + 1 /\ Len(s) \in Nat
         /\ \A k \in 1 .. Len(s) : Append(s, x)[k] = s[k]
         /\ Append(s, x)[Len(s) + 1] = x
         /\ Append(s, x) # <<>> /\ Last(Append(s, x)) = x
<1> DEFINE S == Range(s) \cup {x}
<1>1. s \in Seq(S)
  <2>1. Range(s) \subseteq S
    OBVIOUS
  <2> HIDE DEF S
  <2> QED
    BY <2>1 DEF Sequence
<1>2. x \in S
  OBVIOUS
<1> HIDE DEF S
<1>3. /\ Append(s, x) \in Seq(S) /\ Len(Append(s, x)) = Len(s) + 1
      /\ \A k \in 1 .. Len(s) : Append(s, x)[k] = s[k]
      /\ Append(s, x)[Len(s) + 1] = x
  BY <1>1, <1>2, AppendProperties
<1>4. Len(s) \in Nat
  BY <1>1, SequenceIs
<1>5. Sequence(Append(s, x)) /\ Append(s, x) # <<>>
  <2>1. Sequence(Append(s, x))
    BY <1>3, SequenceIs
  <2>2. Append(s, x) # <<>>
    BY <1>1, <1>2, AppendProperties
  <2> QED
    BY <2>1, <2>2
<1>6. Last(Append(s, x)) = x
  BY <1>3 DEF Last
<1> QED
  BY <1>3, <1>4, <1>5, <1>6

\* What Tail takes away, and where it moves the rest.
LEMMA TailIs ==
  ASSUME NEW s, Sequence(s), s # <<>>
  PROVE  /\ Sequence(Tail(s)) /\ Len(Tail(s)) = Len(s) - 1 /\ Len(s) \in Nat \ {0}
         /\ \A k \in 1 .. Len(s) - 1 : Tail(s)[k] = s[k + 1]
         /\ Head(s) = s[1]
<1>1. s \in Seq(Range(s))
  BY DEF Sequence
<1>2. Len(s) \in Nat \ {0}
  BY <1>1, SequenceIs
<1>3. /\ Tail(s) \in Seq(Range(s)) /\ Len(Tail(s)) = Len(s) - 1 /\ Head(s) = s[1]
      /\ \A k \in 1 .. Len(s) - 1 : Tail(s)[k] = s[k + 1]
  BY <1>1, HeadTailProperties
<1> QED
  BY <1>2, <1>3, SequenceIs

-----------------------------------------------------------------------------
(* The invariant.                                                          *)

\* Types.  A batch and the queue are sequences, a counter is kept for each
\* device of the configuration, and nothing else.
Types ==
  /\ config \in Configs
  /\ DOMAIN prev = Runners
  /\ polls \in [Runners -> Nat]
  /\ DOMAIN batch = Runners /\ \A i \in Runners : Sequence(batch[i])
  /\ DOMAIN encoded = Runners
  /\ seq \in [DeviceIds(config) -> Nat]
  /\ Sequence(sent)
  /\ dropped \in [noEmitter : Nat, noSource : Nat, encodeErrors : Nat]
  /\ made \in Nat /\ reports \in Nat /\ lives \in Nat

\* Boot comes before everything, and nothing changes what it set up.
Provisioned ==
  /\ config \in AcceptedConfigs
  /\ tmpl = New(config.template, config.vars, Identity)
  /\ streams = Bindings(tmpl, CETypes)

\* Nothing is polled, encoded or queued but by a collector that runs, and
\* none runs but one whose boot accepted the configuration.
Booted ==
  /\ status = "running" \/ sent # <<>> => Provisioned
  /\ \A i \in Runners : batch[i] # <<>> \/ encoded[i] # Idle => status = "running"

\* The id of the device of a runner.
IdOfRunner(i) == config.devices[i].id

\* Its kind.
KindOf(i) == config.devices[i].kind

\* An event that a poll of a device, d of the configuration, made.
Arisen(d, ev) ==
  /\ ev.device = d.id /\ ev.kind = d.kind
  /\ ev.of \in Range(Order)
  /\ \/ \E j \in DOMAIN ReportsOf(ev.of) : ev.event = ReportsOf(ev.of)[j]
     \/ /\ Telling(ev.of, ev.from, ev.to)
        /\ ev.event = ChangeOf(ev.of, ev.from, ev.to)

\* A message of a device, from an emitter that claims the event, or of the
\* collector itself.
ByCatalog(m) ==
  /\ Claimed(m.ev) /\ Marshals(Body(m.ev))
  /\ m.ceType = CETypeFor(m.ev.event, m.ev.kind)

\* The same in the collector's own schema, where messages have no numbers.
ByHealth(m) ==
  /\ m.ceType = HealthCEType(m.ev.event) /\ m.ceType # NoCEType
  /\ m.sequence = 0

\* A message of device d that was polled n times.
DeviceMessage(d, n, m) ==
  Arisen(d, m.ev) /\ m.ev.at \in 1 .. n /\ (ByCatalog(m) \/ ByHealth(m))

\* What the collector says of itself.
SelfEvents == {"started", "stopping", "heartbeat", "log"}

\* A message of the collector itself.
OwnMessage(m) ==
  /\ m.ev.device = NoDevice /\ m.ev.event \in SelfEvents /\ m.ev.kind = ""
  /\ m.ceType = HealthCEType(m.ev.event) /\ m.sequence = 0

\* A batch is of the latest poll of its device.
InBatch ==
  \A i \in Runners : \A k \in 1 .. Len(batch[i]) :
     Arisen(config.devices[i], batch[i][k]) /\ batch[i][k].at = polls[i] /\ polls[i] > 0

\* So is the message in hand, and its number is one that was drawn in this
\* life.
InHand ==
  \A i \in Runners : encoded[i] # Idle =>
     /\ DeviceMessage(config.devices[i], polls[i], encoded[i])
     /\ encoded[i].ev.at = polls[i]
     /\ encoded[i].sequence \in Nat /\ encoded[i].life = lives
     /\ encoded[i].sequence <= seq[config.devices[i].id]

\* The queue has messages of devices and of the collector, and nothing else.
InQueue ==
  \A k \in 1 .. Len(sent) :
     /\ sent[k].sequence \in Nat
     /\ \/ OwnMessage(sent[k])
        \/ \E i \in Runners : DeviceMessage(config.devices[i], polls[i], sent[k])

\* What distinguishes the events of one poll.
Key(ev) == <<ev.of, ev.event>>

\* The events of a batch, and the one in hand, are told apart by their keys.
Apart(b, e) ==
  /\ \A k \in 1 .. Len(b) : \A h \in 1 .. k - 1 : Key(b[h]) # Key(b[k])
  /\ e # Idle => \A k \in 1 .. Len(b) : Key(e.ev) # Key(b[k])

\* No event of the batch, and not the one in hand, has the key of message m.
Fresh(b, e, m) ==
  /\ \A k \in 1 .. Len(b) : Key(m.ev) # Key(b[k])
  /\ e # Idle => Key(m.ev) # Key(e.ev)

\* So are the events of the poll that a runner is at, wherever they are.
Keys ==
  \A i \in Runners :
    /\ Apart(batch[i], encoded[i])
    /\ \A n \in 1 .. Len(sent) :
         sent[n].ev.device = config.devices[i].id /\ sent[n].ev.at = polls[i] =>
           Fresh(batch[i], encoded[i], sent[n])

\* What the collector says of itself is numbered by the reports it made.
OwnTimes ==
  \A n \in 1 .. Len(sent) : sent[n].ev.device = NoDevice =>
    /\ sent[n].ev.at \in Nat /\ sent[n].ev.at <= reports
    /\ sent[n].ev.event = "stopping" => sent[n].ev.at < reports
    /\ sent[n].ev.event = "started" /\ status = "off" => sent[n].ev.at < reports

\* Each number that was drawn in this life is that of a failed encoding, of a
\* message, or of the one in hand.
Numbers ==
  \A i \in Runners : \A k \in 1 .. seq[config.devices[i].id] :
    \/ <<lives, config.devices[i].id, k>> \in spoilt
    \/ \E n \in 1 .. Len(sent) : /\ sent[n].life = lives
                                 /\ sent[n].ev.device = config.devices[i].id
                                 /\ sent[n].sequence = k
    \/ encoded[i] # Idle /\ encoded[i].sequence = k

\* The core of the invariant, which the others need.
Core == Types /\ Booted /\ InBatch /\ InHand /\ InQueue

-----------------------------------------------------------------------------
(* What the invariant says of the configuration and of events.             *)

\* A runner for each device, which has an id that can be a token.
LEMMA RunnersAre ==
  ASSUME config \in Configs
  PROVE  /\ Len(config.devices) \in Nat /\ Runners = 1 .. Len(config.devices)
         /\ \A i \in Runners : IdOfRunner(i) \in Seq(Parts)
<1>1. config.devices \in Seq([id : Seq(Parts), kind : STRING])
  BY EmissionAssumption
<1>2. /\ Len(config.devices) \in Nat /\ DOMAIN config.devices = 1 .. Len(config.devices)
      /\ \A i \in 1 .. Len(config.devices) : config.devices[i] \in [id : Seq(Parts), kind : STRING]
  BY <1>1, LenProperties
<1> QED
  BY <1>2 DEF Runners, IdOfRunner

\* Boot has accepted the configuration: the devices have ids of their own,
\* under each of which a subject can be rendered.
LEMMA AcceptedIs ==
  ASSUME config \in Configs, Provisioned
  PROVE  /\ \A i \in Runners : /\ IdOfRunner(i) # NoDevice /\ KindOf(i) \in KnownKinds
                               /\ Renderable(tmpl, IdOfRunner(i))
         /\ \A i, j \in Runners : IdOfRunner(i) = IdOfRunner(j) => i = j
         /\ Template(tmpl) /\ Renderable(tmpl, NoDevice)
         /\ \A c \in CETypes : c.namespace \in {"openits", "openits-collector"}
<1>1. Accepted(config)
  BY DEF Provisioned, AcceptedConfigs
<1>2. /\ ValidConfig(config) /\ tmpl # Refused
      /\ ValidateCETypes(tmpl, CETypes, DeviceIds(config))
  BY <1>1 DEF Accepted, Provisioned
<1>3. Template(tmpl)
  BY <1>2, EmissionAssumption, NewIsTemplate DEF Provisioned
<1>4. HealthCEType("log") \in CETypes
  BY DEF CETypes, HealthCETypes
<1>5. \A d \in DeviceIds(config) \cup {NoDevice} : Renderable(tmpl, d)
  BY <1>2, <1>4 DEF ValidateCETypes
<1>6. \A i \in Runners : IdOfRunner(i) \in DeviceIds(config)
  BY DEF Runners, IdOfRunner, DeviceIds
<1>7. ASSUME NEW c \in CETypes  PROVE c.namespace \in {"openits", "openits-collector"}
  <2>1. CASE c \in HealthCETypes
    <3>1. \A e \in {"device-status-changed", "started", "stopping", "heartbeat", "log"} :
            HealthCEType(e).namespace = "openits-collector"
      BY DEF HealthCEType, CEType
    <3> QED
      BY <2>1, <3>1 DEF HealthCETypes
  <2>2. CASE c \in CatalogCETypes
    <3>1. PICK k \in DOMAIN Served : \E e \in Served[k] : c = CETypeFor(e, k)
      BY <2>2 DEF CatalogCETypes
    <3>2. PICK e \in Served[k] : c = CETypeFor(e, k)
      BY <3>1
    <3>3. c = CEType("openits", ServiceOf(e, k), WireEvent(e))
      BY <3>1, <3>2 DEF CETypeFor
    <3> QED
      BY <3>3 DEF CEType
  <2> QED
    BY <2>1, <2>2 DEF CETypes
<1>8. \A i, j \in Runners : IdOfRunner(i) = IdOfRunner(j) => i = j
  BY <1>2 DEF ValidConfig, Runners, IdOfRunner
<1>9. \A i \in Runners : IdOfRunner(i) # NoDevice /\ KindOf(i) \in KnownKinds
  BY <1>2 DEF ValidConfig, Runners, IdOfRunner, KindOf
<1> QED
  BY <1>3, <1>5, <1>6, <1>7, <1>8, <1>9

\* The catalog's ce-types are in its namespace, and the collector's own in
\* another.
LEMMA CatalogIs ==
  ASSUME NEW event, NEW kind, CETypeFor(event, kind) # NoCEType
  PROVE  /\ kind \in DOMAIN Served /\ event \in Served[kind]
         /\ CETypeFor(event, kind) = CEType("openits", ServiceOf(event, kind), WireEvent(event))
         /\ CETypeFor(event, kind).namespace = "openits"
         /\ CETypeFor(event, kind).event = WireEvent(event)
         /\ CETypeFor(event, kind) \in CETypes
<1>1. kind \in DOMAIN Served /\ event \in Served[kind]
  BY DEF CETypeFor
<1>2. CETypeFor(event, kind) = CEType("openits", ServiceOf(event, kind), WireEvent(event))
  BY <1>1 DEF CETypeFor
<1>3. CETypeFor(event, kind) \in CatalogCETypes
  BY <1>1 DEF CatalogCETypes
<1> QED
  BY <1>1, <1>2, <1>3 DEF CEType, CETypes

\* The same of the collector's own schema.
LEMMA HealthIs ==
  ASSUME NEW event, HealthCEType(event) # NoCEType
  PROVE  /\ event \in SelfEvents \cup {"device-status-changed"}
         /\ HealthCEType(event).namespace = "openits-collector"
         /\ HealthCEType(event).event = event
         /\ HealthCEType(event) \in CETypes
<1>1. event \in SelfEvents \cup {"device-status-changed"}
  BY DEF HealthCEType, SelfEvents
<1>2. CASE event = "device-status-changed"
  BY <1>2 DEF HealthCEType, CEType, CETypes, HealthCETypes
<1>3. CASE event \in SelfEvents
  BY <1>3 DEF HealthCEType, CEType, CETypes, HealthCETypes, SelfEvents
<1> QED
  BY <1>1, <1>2, <1>3

\* The collector has a ce-type for each event of its own.
LEMMA SelfIs ==
  ASSUME NEW event \in SelfEvents
  PROVE  HealthCEType(event) # NoCEType
  BY DEF SelfEvents, HealthCEType, CEType, NoCEType

\* A number is drawn for a claimed event, and none for another.
LEMMA DrawIs ==
  ASSUME config \in Configs, seq \in [DeviceIds(config) -> Nat], NEW i \in Runners,
         NEW ev, ev.device = IdOfRunner(i), Draw(ev)
  PROVE  /\ seq' \in [DeviceIds(config) -> Nat]
         /\ NextSequence(ev) = seq[IdOfRunner(i)] + 1
         /\ \A j \in Runners :
              /\ seq[IdOfRunner(j)] \in Nat
              /\ seq'[IdOfRunner(j)] =
                   IF Claimed(ev) /\ IdOfRunner(j) = IdOfRunner(i) THEN seq[IdOfRunner(j)] + 1
                   ELSE seq[IdOfRunner(j)]
<1>1. \A j \in Runners : IdOfRunner(j) \in DeviceIds(config)
  BY DEF Runners, IdOfRunner, DeviceIds
<1>2. CASE ~ Claimed(ev)
  BY <1>1, <1>2 DEF Draw, Draws, NextSequence
<1>3. CASE Claimed(ev)
  <2>1. seq' = [seq EXCEPT ![ev.device] = seq[ev.device] + 1]
    BY <1>3 DEF Draw, Draws, NextSequence
  <2> QED
    BY <1>1, <1>3, <2>1 DEF NextSequence
<1> QED
  BY <1>2, <1>3

\* The reports of a poll are of things without changes, but for the mode.
LEMMA ReportsAre ==
  ASSUME NEW thing
  PROVE  \/ ReportsOf(thing) = <<>>
         \/ thing = "mode" /\ ReportsOf(thing) = <<"operational-status-report">>
         \/ thing \in OnlyReported /\ \E x : ReportsOf(thing) = <<x>>
         \/ /\ thing \in OnlyReported
            /\ ReportsOf(thing) = <<"zone-interval-report", "zone-occupancy-interval-report">>
<1>1. CASE thing = "mode"
  BY <1>1 DEF ReportsOf
<1>2. CASE thing = "detectors"
  BY <1>2 DEF ReportsOf, OnlyReported
<1>3. CASE thing = "environment"
  BY <1>3 DEF ReportsOf, OnlyReported
<1>4. CASE thing = "lanes"
  BY <1>4 DEF ReportsOf, OnlyReported
<1>5. CASE thing = "zones"
  BY <1>5 DEF ReportsOf, OnlyReported
<1>6. CASE thing \notin {"mode", "detectors", "environment", "lanes", "zones"}
  BY <1>6 DEF ReportsOf
<1> QED
  BY <1>1, <1>2, <1>3, <1>4, <1>5, <1>6

\* The mode is changed by one event, and reported by another.
LEMMA ModeChange ==
  ASSUME NEW v, NEW w
  PROVE  ChangeOf("mode", v, w) = "mode-changed"
  BY DEF ChangeOf

\* Where each thing is in the order.
LEMMA OrderIs ==
  /\ DOMAIN Order = 1 .. 18 /\ Len(Order) = 18
  /\ Order \in Seq(Range(Order))
  /\ \A j, k \in 1 .. 18 : Order[j] = Order[k] => j = k
<1>1. DOMAIN Order = 1 .. 18 /\ Len(Order) = 18
  BY DEF Order
<1>2. Order \in Seq(Range(Order))
  <2>1. Order \in [1 .. 18 -> Range(Order)]
    BY <1>1 DEF Range, Order
  <2> QED
    BY <2>1, FunctionIsSeq
<1>3. ASSUME NEW j \in 1 .. 18, NEW k \in 1 .. 18, Order[j] = Order[k]  PROVE j = k
  BY <1>3 DEF Order
<1> QED
  BY <1>1, <1>2, <1>3

\* The events of one thing: one of each kind, all of the same change.
Told(d, n, thing, from, to, ev) ==
  /\ Arisen(d, ev) /\ ev.at = n
  /\ ev.of = thing /\ ev.from = from /\ ev.to = to

\* Two sequences of one element, one after the other.
LEMMA ConcatOnes ==
  ASSUME NEW S, NEW s \in Seq(S), NEW t \in Seq(S), Len(s) = 1, Len(t) = 1,
         NEW u \in Seq(S), Len(u) = 2, u[1] = s[1], u[2] = t[1]
  PROVE  s \o t = u
<1>1. /\ s \o t \in Seq(S) /\ Len(s \o t) = Len(s) + Len(t)
      /\ \A i \in 1 .. Len(s) + Len(t) :
           (s \o t)[i] = IF i <= Len(s) THEN s[i] ELSE t[i - Len(s)]
  BY ConcatProperties
<1> DEFINE c == s \o t
<1> HIDE DEF c
<1>2. c[1] = s[1] /\ c[2] = t[1] /\ Len(c) = 2 /\ c \in Seq(S)
  BY <1>1 DEF c
<1>3. \A i \in 1 .. 2 : c[i] = u[i]
  <2>1. \A i \in 1 .. 2 : i = 1 \/ i = 2
    OBVIOUS
  <2> QED
    BY <1>2, <2>1
<1>4. c = u
  BY <1>2, <1>3, SeqEqual
<1> QED
  BY <1>4 DEF c

\* The same of sequences that are written out.
LEMMA PairIs ==
  ASSUME NEW a, NEW b
  PROVE  <<a>> \o <<b>> = <<a, b>> /\ Len(<<a, b>>) = 2
<1>1. <<a>> \in Seq({a, b}) /\ <<b>> \in Seq({a, b}) /\ <<a, b>> \in Seq({a, b})
  OBVIOUS
<1>2. /\ Len(<<a>>) = 1 /\ Len(<<b>>) = 1 /\ Len(<<a, b>>) = 2
      /\ <<a>>[1] = <<a, b>>[1] /\ <<b>>[1] = <<a, b>>[2]
  OBVIOUS
<1> QED
  BY <1>1, <1>2, ConcatOnes

\* What is only reported is reported always.
LEMMA ReportedIs ==
  ASSUME NEW thing \in OnlyReported
  PROVE  ReportsOf(thing) # <<>>
<1>1. \A x, y : <<x>> # <<>> /\ <<x, y>> # <<>>
  OBVIOUS
<1> QED
  BY <1>1 DEF OnlyReported, ReportsOf

\* The events of one thing: all tell of the same change of it, no two are of
\* one kind, and a change that is to be told is.
Telltale(d, n, thing, from, to, s) ==
  /\ Sequence(s)
  /\ \A k \in 1 .. Len(s) : /\ Told(d, n, thing, from, to, s[k])
                            /\ \A h \in 1 .. k - 1 : s[h].event # s[k].event
  /\ Telling(thing, from, to) => \E k \in 1 .. Len(s) : s[k].event = ChangeOf(thing, from, to)
  /\ thing \in OnlyReported => Len(s) # 0

\* So are those that a poll makes.
LEMMA EventsOfIs ==
  ASSUME NEW i, NEW thing \in Range(Order), NEW from, NEW to,
         NEW s, s = EventsOf(i, thing, from, to)
  PROVE  Telltale(config.devices[i], polls[i] + 1, thing, from, to, s)
<1> DEFINE Event(e) == [event |-> e, device |-> IdOfRunner(i), kind |-> KindOf(i),
                        at |-> polls[i] + 1, of |-> thing, from |-> from, to |-> to]
           change == ChangeOf(thing, from, to)
           r == ReportsOf(thing)
           told == Telling(thing, from, to)
           TellsIt(ev) == Told(config.devices[i], polls[i] + 1, thing, from, to, ev)
<1>1. s = [j \in DOMAIN r |-> Event(r[j])] \o (IF told THEN <<Event(change)>> ELSE <<>>)
  BY DEF EventsOf, IdOfRunner, KindOf
<1>2. \A e : /\ Event(e).event = e /\ Event(e).at = polls[i] + 1 /\ Event(e).of = thing
             /\ Event(e).from = from /\ Event(e).to = to
             /\ Event(e).device = IdOfRunner(i) /\ Event(e).kind = KindOf(i)
  OBVIOUS
<1>3. ASSUME NEW e, (\E j \in DOMAIN r : e = r[j]) \/ (told /\ e = change)
      PROVE  TellsIt(Event(e)) /\ Event(e).event = e
  <2> HIDE DEF Event
  <2>1. Arisen(config.devices[i], Event(e))
    BY <1>2, <1>3 DEF Arisen, IdOfRunner, KindOf
  <2> QED
    BY <1>2, <2>1 DEF Told
<1>4. \/ r = <<>>
      \/ thing = "mode" /\ r = <<"operational-status-report">>
      \/ thing \in OnlyReported /\ \E x : r = <<x>>
      \/ /\ thing \in OnlyReported
         /\ r = <<"zone-interval-report", "zone-occupancy-interval-report">>
  BY ReportsAre
<1>5. thing \in OnlyReported => ~ told
  BY DEF Telling
<1>r. thing \in OnlyReported => r # <<>>
  BY ReportedIs
<1>6. thing = "mode" => change = "mode-changed"
  BY ModeChange
<1> DEFINE Shape(u, v) == \/ s = <<>>
                          \/ s = <<Event(u)>>
                          \/ s = <<Event(u), Event(v)>> /\ u # v
           Ends(u, v) == /\ told => \/ Len(s) = 1 /\ change = u
                                    \/ Len(s) = 2 /\ change = v
                         /\ thing \in OnlyReported => Len(s) \in {1, 2}
           Of(e) == (\E j \in DOMAIN r : e = r[j]) \/ (told /\ e = change)
<1>7. \E u, v : /\ Shape(u, v) /\ Ends(u, v)
                 /\ (s # <<>> => Of(u)) /\ (Len(s) = 2 => Of(v))
  <2> HIDE DEF Event, change, told
  <2>1. CASE r = <<>> /\ ~ told
    <3>1. s = <<>> \o <<>>
      BY <1>1, <2>1
    <3>2. s = <<>> /\ Len(s) = 0
      BY <3>1
    <3> HIDE DEF r
    <3> QED
      BY <1>r, <2>1, <3>2
  <2>2. CASE r = <<>> /\ told
    <3>1. s = <<>> \o <<Event(change)>>
      BY <1>1, <2>2
    <3>2. s = <<Event(change)>> /\ Len(s) = 1
      BY <3>1
    <3>3. Of(change)
      BY <2>2
    <3> HIDE DEF r, Of
    <3> QED
      BY <2>2, <3>2, <3>3
  <2>3. CASE thing = "mode" /\ r = <<"operational-status-report">> /\ ~ told
    <3> DEFINE x == "operational-status-report"
    <3>1. s = <<Event(x)>> \o <<>>
      BY <1>1, <2>3
    <3>2. s = <<Event(x)>> /\ Len(s) = 1
      BY <3>1
    <3>3. Of(x)
      BY <2>3
    <3> HIDE DEF r, Of, x
    <3> QED
      BY <2>3, <3>2, <3>3
  <2>4. CASE thing = "mode" /\ r = <<"operational-status-report">> /\ told
    <3> DEFINE x == "operational-status-report"
    <3>a. [j \in DOMAIN r |-> Event(r[j])] = <<Event(x)>>
      BY <2>4
    <3>1. s = <<Event(x)>> \o <<Event(change)>>
      <4> HIDE DEF r
      <4> QED
        BY <1>1, <2>4, <3>a
    <3>2. s = <<Event(x), Event(change)>> /\ Len(s) = 2
      <4> HIDE DEF r
      <4> QED
        BY <3>1, PairIs
    <3>3. Of(x) /\ Of(change)
      BY <2>4
    <3>4. x # change
      BY <1>6, <2>4
    <3> HIDE DEF r, Of, x
    <3> QED
      BY <2>4, <3>2, <3>3, <3>4
  <2>5. CASE thing \in OnlyReported /\ \E x : r = <<x>>
    <3>1. PICK x : r = <<x>>
      BY <2>5
    <3>2. s = <<Event(x)>> \o <<>>
      BY <1>1, <1>5, <2>5, <3>1
    <3>3. s = <<Event(x)>> /\ Len(s) = 1
      BY <3>2
    <3>4. Of(x)
      BY <3>1
    <3> HIDE DEF r, Of
    <3> QED
      BY <1>5, <2>5, <3>3, <3>4
  <2>6. CASE /\ thing \in OnlyReported
             /\ r = <<"zone-interval-report", "zone-occupancy-interval-report">>
    <3> DEFINE x == "zone-interval-report"  y == "zone-occupancy-interval-report"
    <3>1. s = <<Event(x), Event(y)>> \o <<>>
      BY <1>1, <1>5, <2>6
    <3>2. s = <<Event(x), Event(y)>> /\ Len(s) = 2
      BY <3>1
    <3>3. Of(x) /\ Of(y)
      BY <2>6
    <3>4. x # y
      OBVIOUS
    <3> HIDE DEF r, Of, x, y
    <3> QED
      BY <1>5, <2>6, <3>2, <3>3, <3>4
  <2> QED
    BY <1>4, <2>1, <2>2, <2>3, <2>4, <2>5, <2>6
<1> HIDE DEF r, change, told, Event
<1>8. PICK u, v : /\ Shape(u, v) /\ Ends(u, v)
                 /\ (s # <<>> => Of(u)) /\ (Len(s) = 2 => Of(v))
  BY <1>7
<1>9. CASE s = <<>>
  <2>1. Len(s) = 0 /\ Sequence(s)
    BY <1>9, EmptySeq DEF Sequence
  <2>2. ~ told /\ thing \notin OnlyReported
    BY <1>8, <2>1
  <2> QED
    BY <2>1, <2>2 DEF told, Telltale
<1>10. CASE s = <<Event(u)>>
  <2>1. TellsIt(Event(u)) /\ Event(u).event = u
    BY <1>3, <1>8, <1>10
  <2>2. Len(s) = 1 /\ s[1] = Event(u) /\ DOMAIN s = 1 .. 1
    BY <1>10
  <2>3. Sequence(s)
    BY <1>10, <2>2 DEF Sequence, Range
  <2>4. told => s[1].event = change
    BY <1>8, <2>1, <2>2
  <2>5. \A k \in 1 .. 1 : k = 1 /\ 1 .. k - 1 = {}
    OBVIOUS
  <2>6. \A k \in 1 .. Len(s) : TellsIt(s[k]) /\ \A h \in 1 .. k - 1 : s[h].event # s[k].event
    <3> HIDE DEF TellsIt
    <3> QED
      BY <2>1, <2>2, <2>5
  <2>7. told => \E k \in 1 .. Len(s) : s[k].event = change
    BY <2>2, <2>4
  <2> QED
    BY <2>2, <2>3, <2>6, <2>7 DEF told, change, Telltale
<1>11. CASE s = <<Event(u), Event(v)>> /\ u # v
  <2>1. Len(s) = 2 /\ s[1] = Event(u) /\ s[2] = Event(v) /\ DOMAIN s = 1 .. 2
    BY <1>11
  <2>2. /\ TellsIt(Event(u)) /\ Event(u).event = u
        /\ TellsIt(Event(v)) /\ Event(v).event = v
    BY <1>3, <1>8, <1>11, <2>1
  <2>3. Sequence(s)
    BY <1>11, <2>1 DEF Sequence, Range
  <2>4. told => s[2].event = change
    BY <1>8, <2>1, <2>2
  <2>5. \A k \in 1 .. 2 : k = 1 \/ k = 2
    OBVIOUS
  <2>6. \A k \in 1 .. 2 : \A h \in 1 .. k - 1 : h = 1 /\ k = 2
    OBVIOUS
  <2>7. \A k \in 1 .. Len(s) : TellsIt(s[k]) /\ \A h \in 1 .. k - 1 : s[h].event # s[k].event
    <3> HIDE DEF TellsIt
    <3> QED
      BY <1>11, <2>1, <2>2, <2>5, <2>6
  <2>8. told => \E k \in 1 .. Len(s) : s[k].event = change
    BY <2>1, <2>4
  <2> QED
    BY <2>1, <2>3, <2>7, <2>8 DEF told, change, Telltale
<1> QED
  BY <1>8, <1>9, <1>10, <1>11 DEF Telltale

\* Each element of each part is in the flat sequence.
FlatHas(s, x) == \E k \in 1 .. Len(FlattenSeq(s)) : FlattenSeq(s)[k] = x

\* Nothing is left out of a flat sequence.
LEMMA FlattenAll ==
  ASSUME NEW S, NEW s \in Seq(Seq(S))
  PROVE  \A j \in 1 .. Len(s) : \A p \in 1 .. Len(s[j]) : FlatHas(s, s[j][p])
<1> SUFFICES ASSUME NEW j \in 1 .. Len(s), NEW p \in 1 .. Len(s[j])
             PROVE  \E k \in 1 .. Len(FlattenSeq(s)) : FlattenSeq(s)[k] = s[j][p]
  BY DEF FlatHas
<1> DEFINE m == Len(s)
<1>1. m \in Nat /\ \A i \in 1 .. m : s[i] \in Seq(S) /\ Len(s[i]) \in Nat
  OBVIOUS
<1>2. PICK F \in [0 .. m -> Seq(S)] : /\ F[0] = <<>> /\ FlattenSeq(s) = F[m]
                                      /\ \A i \in 1 .. m : F[i] = F[i - 1] \o s[i]
  BY Flattened
<1>3. j \in 1 .. m /\ j \in Nat
  OBVIOUS
<1> HIDE DEF m
<1> DEFINE T == {n \in Nat : n <= m /\ j <= n =>
                               \E k \in 1 .. Len(F[n]) : F[n][k] = s[j][p]}
<1>4. 0 \in T
  BY <1>3
<1>5. ASSUME NEW n \in Nat, n \in T  PROVE n + 1 \in T
  <2> SUFFICES ASSUME n + 1 <= m, j <= n + 1
               PROVE  \E k \in 1 .. Len(F[n + 1]) : F[n + 1][k] = s[j][p]
    OBVIOUS
  <2> DEFINE f == F[n]  t == s[n + 1]
  <2>1. f \in Seq(S) /\ t \in Seq(S) /\ F[n + 1] = f \o t
    <3>1. n + 1 \in 1 .. m /\ (n + 1) - 1 = n /\ n \in 0 .. m
      BY <1>1
    <3> QED
      BY <1>1, <1>2, <3>1
  <2>f. j <= n => \E k \in 1 .. Len(f) : f[k] = s[j][p]
    <3>1. n <= m
      BY <1>1
    <3> QED
      BY <1>5, <3>1
  <2>g. j = n + 1 => p \in 1 .. Len(t) /\ t[p] = s[j][p]
    OBVIOUS
  <2> HIDE DEF f, t
  <2>2. /\ Len(f \o t) = Len(f) + Len(t) /\ Len(f) \in Nat /\ Len(t) \in Nat
        /\ \A k \in 1 .. Len(f) + Len(t) :
             (f \o t)[k] = IF k <= Len(f) THEN f[k] ELSE t[k - Len(f)]
    BY <2>1, ConcatProperties, LenProperties
  <2>3. CASE j <= n
    <3>1. PICK k \in 1 .. Len(f) : f[k] = s[j][p]
      BY <2>3, <2>f
    <3>2. k \in 1 .. Len(f) + Len(t) /\ (f \o t)[k] = f[k]
      BY <2>2
    <3> QED
      BY <2>1, <2>2, <3>1, <3>2
  <2>4. CASE j = n + 1
    <3>1. /\ Len(f) + p \in 1 .. Len(f) + Len(t) /\ (Len(f) + p) - Len(f) = p
          /\ ~ (Len(f) + p <= Len(f))
      BY <2>2, <2>4, <2>g
    <3>2. (f \o t)[Len(f) + p] = t[p]
      BY <2>2, <3>1
    <3> QED
      BY <2>1, <2>2, <2>4, <2>g, <3>1, <3>2
  <2> QED
    BY <1>3, <2>3, <2>4
<1>6. m \in T
  <2> HIDE DEF T
  <2> QED
    BY <1>1, <1>4, <1>5, NatInd
<1> QED
  BY <1>2, <1>3, <1>6

\* What an event of a poll of runner i, which reads c, tells of.
Tells(i, c, ev) ==
  /\ ev.of \in DOMAIN c
  /\ Told(config.devices[i], polls[i] + 1, ev.of, Was(prev[i], c, ev.of), c[ev.of], ev)

\* The events of a poll: each tells of a thing that was read, what it was and
\* what it is, no two of one thing are of the same kind, and each change that
\* is to be told is told, as is what is only reported.
LEMMA EventsOfPollIs ==
  ASSUME NEW i, NEW c, NEW s, s = EventsOfPoll(i, c)
  PROVE  /\ Sequence(s)
         /\ \A k \in 1 .. Len(s) : Tells(i, c, s[k])
         /\ \A k \in 1 .. Len(s) : \A h \in 1 .. k - 1 :
              s[h].of # s[k].of \/ s[h].event # s[k].event
         /\ \A t \in DOMAIN c \cap Range(Order) :
              Telling(t, Was(prev[i], c, t), c[t]) =>
                \E k \in 1 .. Len(s) :
                   s[k].of = t /\ s[k].event = ChangeOf(t, Was(prev[i], c, t), c[t])
         /\ \A t \in DOMAIN c \cap OnlyReported : \E k \in 1 .. Len(s) : s[k].of = t
<1> DEFINE d == config.devices[i]  n == polls[i] + 1
           Of(j) == EventsOf(i, Order[j], Was(prev[i], c, Order[j]), c[Order[j]])
           all == [j \in 1 .. 18 |-> IF Order[j] \in DOMAIN c THEN Of(j) ELSE <<>>]
           S == UNION {Range(all[j]) : j \in 1 .. 18}
           Tell(t, ev) == Told(d, n, t, Was(prev[i], c, t), c[t], ev)
<1>1. s = FlattenSeq(all)
  BY OrderIs DEF EventsOfPoll
<1>2. ASSUME NEW j \in 1 .. 18, Order[j] \in DOMAIN c
      PROVE  /\ Sequence(all[j])
             /\ \A k \in 1 .. Len(all[j]) :
                  /\ Tell(Order[j], all[j][k])
                  /\ \A h \in 1 .. k - 1 : all[j][h].event # all[j][k].event
             /\ Telling(Order[j], Was(prev[i], c, Order[j]), c[Order[j]]) =>
                  \E k \in 1 .. Len(all[j]) :
                     all[j][k].event = ChangeOf(Order[j], Was(prev[i], c, Order[j]), c[Order[j]])
             /\ Order[j] \in OnlyReported => Len(all[j]) # 0
  <2>1. all[j] = Of(j)
    BY <1>2
  <2>2. Order[j] \in Range(Order)
    BY OrderIs DEF Range
  <2> DEFINE thing == Order[j]  from == Was(prev[i], c, Order[j])  to == c[Order[j]]
             u == all[j]
  <2>3. u = EventsOf(i, thing, from, to) /\ thing \in Range(Order)
    BY <2>1, <2>2
  <2> HIDE DEF thing, from, to, u, d, n
  <2>t. Telltale(config.devices[i], polls[i] + 1, thing, from, to, u)
    BY <2>3, EventsOfIs
  <2>4. /\ Sequence(u)
        /\ \A k \in 1 .. Len(u) :
             /\ Told(config.devices[i], polls[i] + 1, thing, from, to, u[k])
             /\ \A h \in 1 .. k - 1 : u[h].event # u[k].event
        /\ Telling(thing, from, to) =>
             \E k \in 1 .. Len(u) : u[k].event = ChangeOf(thing, from, to)
        /\ thing \in OnlyReported => Len(u) # 0
    BY <2>t DEF Telltale
  <2> HIDE DEF all
  <2> QED
    BY <2>4 DEF thing, from, to, u, d, n
<1>3. ASSUME NEW j \in 1 .. 18, Order[j] \notin DOMAIN c
      PROVE  all[j] = <<>> /\ Len(all[j]) = 0
  BY <1>3
<1> HIDE DEF Tell
<1>4. all \in Seq(Seq(S)) /\ Len(all) = 18
  <2>1. ASSUME NEW j \in 1 .. 18  PROVE all[j] \in Seq(S)
    <3>1. Range(all[j]) \subseteq S
      OBVIOUS
    <3>2. CASE Order[j] \in DOMAIN c
      <4>1. all[j] \in Seq(Range(all[j]))
        BY <1>2, <3>2 DEF Sequence
      <4> HIDE DEF all, S
      <4> QED
        BY <3>1, <4>1
    <3>3. CASE Order[j] \notin DOMAIN c
      <4>1. all[j] = <<>>
        BY <1>3, <3>3
      <4> HIDE DEF all, S
      <4> QED
        BY <4>1
    <3> QED
      BY <3>2, <3>3
  <2>2. DOMAIN all = 1 .. 18 /\ all = [j \in 1 .. 18 |-> all[j]]
    OBVIOUS
  <2> HIDE DEF all, S
  <2>3. all \in [1 .. 18 -> Seq(S)]
    BY <2>1, <2>2
  <2> QED
    BY <2>3, FunctionIsSeq
<1> HIDE DEF all, S
<1>4b. \A j \in 1 .. Len(all) : \A p \in 1 .. Len(all[j]) : FlatHas(all, all[j][p])
  BY <1>4, FlattenAll
<1>5. /\ FlattenSeq(all) \in Seq(S)
      /\ \E J, P : \A k \in 1 .. Len(FlattenSeq(all)) :
           /\ J[k] \in 1 .. Len(all)
           /\ P[k] \in 1 .. Len(all[J[k]]) /\ FlattenSeq(all)[k] = all[J[k]][P[k]]
           /\ \A h \in 1 .. k - 1 : J[h] < J[k] \/ (J[h] = J[k] /\ P[h] < P[k])
  BY <1>4, FlattenPlaces
<1>6. PICK J, P :
        \A k \in 1 .. Len(FlattenSeq(all)) :
           /\ J[k] \in 1 .. Len(all)
           /\ P[k] \in 1 .. Len(all[J[k]]) /\ FlattenSeq(all)[k] = all[J[k]][P[k]]
           /\ \A h \in 1 .. k - 1 : J[h] < J[k] \/ (J[h] = J[k] /\ P[h] < P[k])
  BY <1>5
<1>7. ASSUME NEW k \in 1 .. Len(s)
      PROVE  /\ J[k] \in 1 .. 18 /\ Order[J[k]] \in DOMAIN c
             /\ s[k].of = Order[J[k]]
             /\ Tell(Order[J[k]], s[k])
             /\ P[k] \in 1 .. Len(all[J[k]]) /\ s[k] = all[J[k]][P[k]]
             /\ \A h \in 1 .. P[k] - 1 : all[J[k]][h].event # all[J[k]][P[k]].event
  <2>1. /\ J[k] \in 1 .. 18
        /\ P[k] \in 1 .. Len(all[J[k]]) /\ s[k] = all[J[k]][P[k]]
    BY <1>1, <1>4, <1>6
  <2>2. Order[J[k]] \in DOMAIN c
    <3>1. ASSUME Order[J[k]] \notin DOMAIN c  PROVE FALSE
      <4>1. Len(all[J[k]]) = 0
        BY <1>3, <2>1, <3>1
      <4> QED
        BY <2>1, <4>1
    <3> QED
      BY <3>1
  <2>3. /\ Tell(Order[J[k]], s[k])
        /\ \A h \in 1 .. P[k] - 1 : all[J[k]][h].event # all[J[k]][P[k]].event
    BY <1>2, <2>1, <2>2
  <2> QED
    BY <2>1, <2>2, <2>3 DEF Tell, Told
<1>8. Sequence(s)
  BY <1>1, <1>5, SequenceIs
<1>9. ASSUME NEW k \in 1 .. Len(s)  PROVE Tells(i, c, s[k])
  BY <1>7 DEF Tell, Tells
<1>10. ASSUME NEW k \in 1 .. Len(s), NEW h \in 1 .. k - 1
       PROVE  s[h].of # s[k].of \/ s[h].event # s[k].event
  <2>1. h \in 1 .. Len(s)
    BY <1>8, SequenceIs
  <2>2. J[h] < J[k] \/ (J[h] = J[k] /\ P[h] < P[k])
    BY <1>1, <1>6
  <2>3. CASE J[h] < J[k]
    <3>1. J[h] \in 1 .. 18 /\ J[k] \in 1 .. 18 /\ J[h] # J[k]
      <4>1. J[h] \in 1 .. 18 /\ J[k] \in 1 .. 18
        BY <1>7, <2>1
      <4> QED
        BY <2>3, <4>1
    <3>2. Order[J[h]] # Order[J[k]]
      BY <3>1, OrderIs
    <3> QED
      BY <1>7, <2>1, <3>2
  <2>4. CASE J[h] = J[k] /\ P[h] < P[k]
    <3>1. P[h] \in 1 .. P[k] - 1
      BY <1>7, <2>1, <2>4
    <3>2. all[J[k]][P[h]].event # all[J[k]][P[k]].event
      BY <1>7, <3>1
    <3>3. s[h] = all[J[k]][P[h]]
      BY <1>7, <2>1, <2>4
    <3> QED
      BY <1>7, <3>2, <3>3
  <2> QED
    BY <2>2, <2>3, <2>4
<1>11. ASSUME NEW t \in DOMAIN c \cap Range(Order),
              Telling(t, Was(prev[i], c, t), c[t])
       PROVE  \E k \in 1 .. Len(s) :
                s[k].of = t /\ s[k].event = ChangeOf(t, Was(prev[i], c, t), c[t])
  <2>1. PICK j \in 1 .. 18 : Order[j] = t
    BY OrderIs DEF Range
  <2>2. PICK p \in 1 .. Len(all[j]) :
          all[j][p].event = ChangeOf(t, Was(prev[i], c, t), c[t])
    BY <1>2, <1>11, <2>1
  <2>3. all[j][p].of = t
    BY <1>2, <2>1 DEF Tell, Told
  <2>3b. j \in 1 .. Len(all)
    BY <1>4
  <2>4. PICK k \in 1 .. Len(FlattenSeq(all)) : FlattenSeq(all)[k] = all[j][p]
    BY <1>4b, <2>2, <2>3b DEF FlatHas
  <2> QED
    BY <1>1, <2>2, <2>3, <2>4
<1>12. ASSUME NEW t \in DOMAIN c \cap OnlyReported
       PROVE  \E k \in 1 .. Len(s) : s[k].of = t
  <2>1. PICK j \in 1 .. 18 : Order[j] = t
    <3>1. Order[5] = "detectors" /\ Order[10] = "environment" /\ Order[14] = "lanes"
          /\ Order[16] = "zones"
      BY DEF Order
    <3> QED
      BY <3>1 DEF OnlyReported
  <2>2. Sequence(all[j]) /\ Len(all[j]) # 0
    BY <1>2, <2>1
  <2>3. 1 \in 1 .. Len(all[j])
    <3>1. Len(all[j]) \in Nat
      BY <2>2, SequenceIs DEF Sequence
    <3> QED
      BY <2>2, <3>1
  <2>4. all[j][1].of = t
    BY <1>2, <2>1, <2>3 DEF Tell, Told
  <2>5. j \in 1 .. Len(all)
    BY <1>4
  <2>6. PICK k \in 1 .. Len(FlattenSeq(all)) : FlattenSeq(all)[k] = all[j][1]
    BY <1>4b, <2>3, <2>5 DEF FlatHas
  <2> QED
    BY <1>1, <2>4, <2>6
<1> QED
  BY <1>8, <1>9, <1>10, <1>11, <1>12

-----------------------------------------------------------------------------
(* What the actions do.                                                    *)

\* What a message holds, and that it is one.
LEMMA MessageIs ==
  ASSUME NEW ev, NEW c, NEW n
  PROVE  /\ Message(ev, c, n).ev = ev /\ Message(ev, c, n).ceType = c
         /\ Message(ev, c, n).sequence = n /\ Message(ev, c, n).life = lives
         /\ Message(ev, c, n) # Idle
<1>1. "ev" \in DOMAIN Message(ev, c, n) /\ "ev" \notin DOMAIN Idle
  BY DEF Message, Idle
<1> QED
  BY <1>1 DEF Message

\* The same of what the collector says of itself.
LEMMA SelfMessageIs ==
  ASSUME NEW event \in SelfEvents, NEW n
  PROVE  /\ OwnMessage(SelfMessage(event, n))
         /\ SelfMessage(event, n).ev.event = event
         /\ SelfMessage(event, n).ev.at = n
         /\ SelfMessage(event, n).ceType = HealthCEType(event)
         /\ SelfMessage(event, n).sequence = 0 /\ 0 \in Nat
         /\ SelfMessage(event, n).life = lives
<1> DEFINE ev == [event |-> event, device |-> NoDevice, kind |-> "", at |-> n, of |-> "",
                  from |-> "", to |-> n]
<1>1. SelfMessage(event, n) = Message(ev, HealthCEType(event), 0)
  BY DEF SelfMessage
<1>2. /\ ev.event = event /\ ev.device = NoDevice /\ ev.kind = "" /\ ev.at = n
  OBVIOUS
<1> HIDE DEF ev
<1>3. /\ SelfMessage(event, n).ev = ev /\ SelfMessage(event, n).ceType = HealthCEType(event)
      /\ SelfMessage(event, n).sequence = 0 /\ SelfMessage(event, n).life = lives
  BY <1>1, MessageIs
<1> QED
  BY <1>2, <1>3 DEF OwnMessage

\* The queue grows by a good message.
LEMMA QueueGrows ==
  ASSUME Types, InQueue, UNCHANGED <<config, polls>>,
         NEW m, sent' = Append(sent, m), m.sequence \in Nat,
         OwnMessage(m) \/ \E i \in Runners : DeviceMessage(config.devices[i], polls[i], m)
  PROVE  InQueue' /\ Sequence(sent')
<1>1. /\ Sequence(sent') /\ Len(sent') = Len(sent) + 1 /\ Len(sent) \in Nat
      /\ \A k \in 1 .. Len(sent) : sent'[k] = sent[k]
      /\ sent'[Len(sent) + 1] = m
  BY AppendIs DEF Types
<1>2. Runners' = Runners
  BY DEF Runners
<1>3. ASSUME NEW k \in 1 .. Len(sent')
      PROVE  /\ sent'[k].sequence \in Nat
             /\ \/ OwnMessage(sent'[k])
                \/ \E i \in Runners : DeviceMessage(config.devices[i], polls[i], sent'[k])
  <2>1. CASE k \in 1 .. Len(sent)
    BY <1>1, <2>1 DEF InQueue
  <2>2. CASE k = Len(sent) + 1
    BY <1>1, <2>2
  <2> QED
    BY <1>1, <2>1, <2>2
<1>4. InQueue'
  BY <1>2, <1>3 DEF InQueue
<1> QED
  BY <1>1, <1>4

\* What is queued stays as it is.
LEMMA QueueStays ==
  ASSUME InQueue, UNCHANGED <<config, sent>>, polls \in [Runners -> Nat],
         polls' \in [Runners -> Nat], \A i \in Runners : polls[i] <= polls'[i]
  PROVE  InQueue'
<1>1. Runners' = Runners
  BY DEF Runners
<1>2. ASSUME NEW i \in Runners, NEW m, DeviceMessage(config.devices[i], polls[i], m)
      PROVE  DeviceMessage(config.devices[i], polls'[i], m)
  <2>1. m.ev.at \in 1 .. polls'[i]
    BY <1>2 DEF DeviceMessage
  <2> QED
    BY <1>2, <2>1 DEF DeviceMessage
<1> QED
  BY <1>1, <1>2 DEF InQueue

\* Boot accepts, or refuses and leaves all but the status as it was.
LEMMA BootIs ==
  ASSUME Boot
  PROVE  /\ UNCHANGED <<config, prev, polls, batch, encoded, seq, dropped, spoilt, untold,
                        reports, lives>>
         /\ status = "off"
         /\ \/ /\ status' = "running" /\ Provisioned' /\ made' = made + 1
               /\ sent' = Append(sent, SelfMessage("started", reports))
            \/ status' = "refused" /\ UNCHANGED <<tmpl, streams, sent, made>>
<1>1. CASE config \in AcceptedConfigs
  <2>1. Provisioned'
    BY <1>1 DEF Boot, Provisioned, AcceptedConfigs
  <2> QED
    BY <1>1, <2>1 DEF Boot
<1>2. CASE config \notin AcceptedConfigs
  BY <1>2 DEF Boot
<1> QED
  BY <1>1, <1>2

\* A poll, of a runner that has nothing left to do of the one before.
LEMMA PollIs ==
  ASSUME Types, NEW i \in Runners, NEW c, Poll(i, c)
  PROVE  /\ UNCHANGED <<config, status, tmpl, streams, encoded, seq, sent, dropped, spoilt,
                        untold, reports, lives>>
         /\ status = "running" /\ batch[i] = <<>> /\ encoded[i] = Idle
         /\ DOMAIN batch' = Runners /\ batch'[i] = EventsOfPoll(i, c)
         /\ polls' \in [Runners -> Nat] /\ polls'[i] = polls[i] + 1
         /\ DOMAIN prev' = Runners /\ prev'[i] = Remembered(prev[i], c)
         /\ made' = made + Len(batch'[i])
         /\ \A j \in Runners \ {i} :
              batch'[j] = batch[j] /\ polls'[j] = polls[j] /\ prev'[j] = prev[j]
<1>1. /\ batch' = [batch EXCEPT ![i] = EventsOfPoll(i, c)]
      /\ prev' = [prev EXCEPT ![i] = Remembered(prev[i], c)]
      /\ polls' = [polls EXCEPT ![i] = polls[i] + 1]
  BY DEF Poll
<1>2. /\ DOMAIN batch = Runners /\ DOMAIN prev = Runners /\ polls \in [Runners -> Nat]
  BY DEF Types
<1>3. /\ UNCHANGED <<config, status, tmpl, streams, encoded, seq, sent, dropped, spoilt,
                     untold, reports, lives>>
      /\ status = "running" /\ batch[i] = <<>> /\ encoded[i] = Idle
      /\ made' = made + Len(batch'[i])
  BY DEF Poll
<1> QED
  BY <1>1, <1>2, <1>3

\* The event that is encoded is one of the batch.  It fails, or there is a
\* message for it, or it is dropped.
Failed(i, ev) ==
  /\ Claimed(ev) /\ ~ Marshals(Body(ev)) /\ encoded'[i] = Idle
  /\ spoilt' = spoilt \cup {<<lives, config.devices[i].id, seq[config.devices[i].id] + 1>>}
  /\ dropped' = [dropped EXCEPT !["encodeErrors"] = @ + 1]

\* The catalog has a payload for it.
ForCatalog(i, ev) ==
  /\ Claimed(ev) /\ Marshals(Body(ev)) /\ UNCHANGED <<spoilt, dropped>>
  /\ encoded'[i] = Message(ev, CETypeFor(ev.event, ev.kind), seq[config.devices[i].id] + 1)

\* The collector's own schema has one.
ForHealth(i, ev) ==
  /\ ~ Claimed(ev) /\ HealthCEType(ev.event) # NoCEType /\ UNCHANGED <<spoilt, dropped>>
  /\ encoded'[i] = Message(ev, HealthCEType(ev.event), 0)

\* Neither has, or the event has no source.
Dropped(i, ev) ==
  /\ ~ Claimed(ev) /\ encoded'[i] = Idle /\ UNCHANGED spoilt
  /\ \/ dropped' = [dropped EXCEPT !["noEmitter"] = @ + 1]
     \/ dropped' = [dropped EXCEPT !["noSource"] = @ + 1]

\* What encodeAndEnqueue does with the next event of a batch.
LEMMA EncodeIs ==
  ASSUME Types, InBatch, NEW i \in Runners, Encode(i), NEW ev, ev = batch[i][1]
  PROVE  /\ UNCHANGED <<config, status, tmpl, streams, prev, polls, sent, made, reports,
                        lives>>
         /\ batch[i] # <<>> /\ encoded[i] = Idle
         /\ Len(batch[i]) \in Nat \ {0} /\ Head(batch[i]) = ev
         /\ DOMAIN batch' = Runners /\ batch'[i] = Tail(batch[i])
         /\ DOMAIN encoded' = Runners
         /\ \A j \in Runners \ {i} : batch'[j] = batch[j] /\ encoded'[j] = encoded[j]
         /\ Draw(ev) /\ ev.device = IdOfRunner(i) /\ ev.kind = KindOf(i)
         /\ Failed(i, ev) \/ ForCatalog(i, ev) \/ ForHealth(i, ev) \/ Dropped(i, ev)
         /\ untold' = IF encoded'[i] = Idle THEN untold \cup {<<i, ev.of>>}
                                            ELSE untold \ {<<i, ev.of>>}
<1>1. batch[i] # <<>> /\ encoded[i] = Idle /\ Sequence(batch[i])
  BY DEF Encode, Types
<1>2. Len(batch[i]) \in Nat \ {0} /\ Head(batch[i]) = ev
  BY <1>1, TailIs
<1>3. ev.device = IdOfRunner(i) /\ ev.kind = KindOf(i)
  BY <1>2 DEF InBatch, Arisen, IdOfRunner, KindOf
<1>4. /\ UNCHANGED <<config, status, tmpl, streams, prev, polls, sent, made, reports, lives>>
      /\ batch' = [batch EXCEPT ![i] = Tail(batch[i])]
      /\ Draw(ev)
      /\ untold' = IF encoded'[i] = Idle THEN untold \cup {<<i, ev.of>>}
                                         ELSE untold \ {<<i, ev.of>>}
  BY <1>2 DEF Encode
<1>5. DOMAIN batch' = Runners /\ batch'[i] = Tail(batch[i])
      /\ \A j \in Runners \ {i} : batch'[j] = batch[j]
  BY <1>4 DEF Types
<1>6. NextSequence(ev) = seq[config.devices[i].id] + 1 /\ ev.device = config.devices[i].id
  BY <1>3 DEF NextSequence, IdOfRunner
<1>7. /\ IF Claimed(ev) /\ ~Marshals(Body(ev))
           THEN /\ Drop("encodeErrors")
                /\ spoilt' = spoilt \cup {<<lives, ev.device, NextSequence(ev)>>}
                /\ UNCHANGED encoded
           ELSE /\ UNCHANGED spoilt
                /\ IF Claimed(ev)
                     THEN Route(i, Message(ev, CETypeFor(ev.event, ev.kind), NextSequence(ev)))
                   ELSE IF HealthCEType(ev.event) # NoCEType
                     THEN Route(i, Message(ev, HealthCEType(ev.event), 0))
                   ELSE Drop("noEmitter") /\ UNCHANGED encoded
  BY <1>2 DEF Encode
<1>8. ASSUME NEW m, Route(i, m), m.ev = ev
      PROVE  \/ EntityKindFor(ev.kind) = Unnamed /\ Drop("noSource") /\ UNCHANGED encoded
             \/ encoded' = [encoded EXCEPT ![i] = m] /\ UNCHANGED dropped
  BY <1>8 DEF Route
<1>9. /\ DOMAIN encoded' = Runners /\ \A j \in Runners \ {i} : encoded'[j] = encoded[j]
      /\ Failed(i, ev) \/ ForCatalog(i, ev) \/ ForHealth(i, ev) \/ Dropped(i, ev)
  <2>d. DOMAIN encoded = Runners
    BY DEF Types
  <2>1. CASE Claimed(ev) /\ ~Marshals(Body(ev))
    <3>1. /\ Drop("encodeErrors") /\ UNCHANGED encoded
          /\ spoilt' = spoilt \cup {<<lives, ev.device, NextSequence(ev)>>}
      BY <1>7, <2>1
    <3>2. Failed(i, ev)
      BY <1>1, <1>6, <2>1, <3>1 DEF Failed, Drop
    <3> QED
      BY <2>d, <3>1, <3>2
  <2>2. CASE Claimed(ev) /\ Marshals(Body(ev))
    <3> DEFINE m == Message(ev, CETypeFor(ev.event, ev.kind), NextSequence(ev))
    <3>1. UNCHANGED spoilt /\ Route(i, m)
      BY <1>7, <2>2
    <3>2. m.ev = ev
      BY MessageIs
    <3>3. m = Message(ev, CETypeFor(ev.event, ev.kind), seq[config.devices[i].id] + 1)
      BY <1>6
    <3> HIDE DEF m
    <3>4. EntityKindFor(ev.kind) # Unnamed
      BY <2>2, CatalogIs, EmissionAssumption DEF Claimed
    <3>5. encoded' = [encoded EXCEPT ![i] = m] /\ UNCHANGED dropped
      BY <1>8, <3>1, <3>2, <3>4
    <3>6. ForCatalog(i, ev)
      BY <2>2, <2>d, <3>1, <3>3, <3>5 DEF ForCatalog
    <3> QED
      BY <2>d, <3>5, <3>6
  <2>3. CASE ~ Claimed(ev) /\ HealthCEType(ev.event) # NoCEType
    <3> DEFINE m == Message(ev, HealthCEType(ev.event), 0)
    <3>1. UNCHANGED spoilt /\ Route(i, m)
      BY <1>7, <2>3
    <3>2. m.ev = ev
      BY MessageIs
    <3>3. m = Message(ev, HealthCEType(ev.event), 0)
      OBVIOUS
    <3> HIDE DEF m
    <3>4. CASE encoded' = [encoded EXCEPT ![i] = m] /\ UNCHANGED dropped
      <4>1. ForHealth(i, ev)
        BY <2>3, <2>d, <3>1, <3>3, <3>4 DEF ForHealth
      <4> QED
        BY <2>d, <3>4, <4>1
    <3>5. CASE Drop("noSource") /\ UNCHANGED encoded
      <4>1. Dropped(i, ev)
        BY <1>1, <2>3, <3>1, <3>5 DEF Dropped, Drop
      <4> QED
        BY <2>d, <3>5, <4>1
    <3> QED
      BY <1>8, <3>1, <3>2, <3>4, <3>5
  <2>4. CASE ~ Claimed(ev) /\ HealthCEType(ev.event) = NoCEType
    <3>1. UNCHANGED spoilt /\ Drop("noEmitter") /\ UNCHANGED encoded
      BY <1>7, <2>4
    <3>2. Dropped(i, ev)
      BY <1>1, <2>4, <3>1 DEF Dropped, Drop
    <3> QED
      BY <2>d, <3>1, <3>2
  <2> QED
    BY <2>1, <2>2, <2>3, <2>4
<1> QED
  BY <1>1, <1>2, <1>3, <1>4, <1>5, <1>9

\* What is in hand is queued, as its subject is one that boot has rendered.
LEMMA EnqueueIs ==
  ASSUME Core, NEW i \in Runners, Enqueue(i)
  PROVE  /\ UNCHANGED <<config, status, tmpl, streams, prev, polls, batch, seq, dropped, made,
                        spoilt, untold, reports, lives>>
         /\ encoded[i] # Idle /\ sent' = Append(sent, encoded[i])
         /\ DOMAIN encoded' = Runners /\ encoded'[i] = Idle
         /\ \A j \in Runners \ {i} : encoded'[j] = encoded[j]
         /\ status = "running" /\ Provisioned
<1>1. /\ UNCHANGED <<config, status, tmpl, streams, prev, polls, batch, seq, dropped, made,
                     spoilt, reports, lives>>
      /\ encoded[i] # Idle /\ encoded' = [encoded EXCEPT ![i] = Idle]
      /\ sent' = IF Renderable(tmpl, encoded[i].ev.device)
                   THEN Append(sent, encoded[i]) ELSE sent
      /\ Renderable(tmpl, encoded[i].ev.device) => untold' = untold
  BY DEF Enqueue
<1>2. status = "running" /\ Provisioned /\ config \in Configs
  BY <1>1 DEF Core, Booted, Types
<1>3. encoded[i].ev.device = IdOfRunner(i)
  BY <1>1 DEF Core, InHand, DeviceMessage, Arisen, IdOfRunner
<1>4. Renderable(tmpl, encoded[i].ev.device)
  BY <1>2, <1>3, AcceptedIs
<1> QED
  BY <1>1, <1>2, <1>4 DEF Core, Types

\* A restart, with no batch under way: the counters and whether devices
\* answer are forgotten, and what the engine knew is not.
LEMMA RestartIs ==
  ASSUME Types, Restart
  PROVE  /\ UNCHANGED <<config, tmpl, streams, polls, batch, encoded, dropped, spoilt, untold>>
         /\ status = "running" /\ status' = "off"
         /\ \A i \in Runners : batch[i] = <<>> /\ encoded[i] = Idle
         /\ lives' = lives + 1 /\ reports' = reports + 1 /\ made' = made + 1
         /\ sent' = Append(sent, SelfMessage("stopping", reports))
         /\ seq' \in [DeviceIds(config) -> Nat]
         /\ \A i \in Runners : seq'[config.devices[i].id] = 0
         /\ DOMAIN prev' = Runners
         /\ \A i \in Runners : /\ DOMAIN prev'[i] = DOMAIN prev[i] \ {"reachable"}
                               /\ \A t \in DOMAIN prev'[i] : prev'[i][t] = prev[i][t]
<1>1. seq' = [d \in DeviceIds(config) |-> 0]
  BY DEF Restart, Unnumbered
<1>2. \A i \in Runners : config.devices[i].id \in DeviceIds(config)
  BY DEF Runners, DeviceIds
<1>3. prev' = [i \in Runners |-> Restrict(prev[i], DOMAIN prev[i] \ {"reachable"})]
  BY DEF Restart
<1>4. ASSUME NEW i \in Runners
      PROVE  /\ DOMAIN prev'[i] = DOMAIN prev[i] \ {"reachable"}
             /\ \A t \in DOMAIN prev'[i] : prev'[i][t] = prev[i][t]
  BY <1>3 DEF Restrict
<1>5. /\ UNCHANGED <<config, tmpl, streams, polls, batch, encoded, dropped, spoilt, untold>>
      /\ status = "running" /\ status' = "off"
      /\ \A i \in Runners : batch[i] = <<>> /\ encoded[i] = Idle
      /\ lives' = lives + 1 /\ reports' = reports + 1 /\ made' = made + 1
      /\ sent' = Append(sent, SelfMessage("stopping", reports))
  BY DEF Restart
<1>6. seq' \in [DeviceIds(config) -> Nat] /\ \A i \in Runners : seq'[config.devices[i].id] = 0
  BY <1>1, <1>2
<1> QED
  BY <1>3, <1>4, <1>5, <1>6

-----------------------------------------------------------------------------
(* The core of the invariant.                                              *)

\* The core holds at first.
LEMMA CoreInit == Init => Core
<1> SUFFICES ASSUME Init  PROVE Core
  OBVIOUS
<1>1. config \in Configs
  BY DEF Init
<1>2. Sequence(<<>>) /\ Len(<<>>) = 0
  BY EmptySeq DEF Sequence
<1>3. Unnumbered \in [DeviceIds(config) -> Nat]
  BY DEF Unnumbered
<1>4. Types
  BY <1>1, <1>2, <1>3 DEF Init, Types
<1>5. Booted
  BY DEF Init, Booted
<1>6. InBatch /\ InHand /\ InQueue
  BY <1>2 DEF Init, InBatch, InHand, InQueue
<1> QED
  BY <1>4, <1>5, <1>6 DEF Core

\* Boot keeps it.
LEMMA BootCore == Core /\ Boot => Core'
<1> SUFFICES ASSUME Core, Boot  PROVE Core'
  OBVIOUS
<1>s. "started" \in SelfEvents
  BY DEF SelfEvents
<1>1. /\ UNCHANGED <<config, prev, polls, batch, encoded, seq, dropped, spoilt, reports, lives>>
      /\ status = "off"
      /\ \/ /\ status' = "running" /\ Provisioned' /\ made' = made + 1
            /\ sent' = Append(sent, SelfMessage("started", reports))
         \/ status' = "refused" /\ UNCHANGED <<tmpl, streams, sent, made>>
  BY BootIs
<1>2. Runners' = Runners /\ DeviceIds(config)' = DeviceIds(config)
  BY <1>1 DEF Runners
<1>3. \A i \in Runners : batch[i] = <<>> /\ encoded[i] = Idle
  BY <1>1 DEF Core, Booted
<1>4. Len(<<>>) = 0
  BY EmptySeq
<1>5. InBatch' /\ InHand'
  BY <1>1, <1>2, <1>3, <1>4 DEF InBatch, InHand
<1>6. CASE /\ status' = "running" /\ Provisioned' /\ made' = made + 1
           /\ sent' = Append(sent, SelfMessage("started", reports))
  <2> DEFINE m == SelfMessage("started", reports)
  <2>1. OwnMessage(m) /\ m.sequence \in Nat
    BY <1>s, SelfMessageIs
  <2>2. sent' = Append(sent, m)
    BY <1>6
  <2> HIDE DEF m
  <2>3. InQueue' /\ Sequence(sent')
    BY <1>1, <2>1, <2>2, QueueGrows DEF Core
  <2>4. Types'
    BY <1>1, <1>2, <1>6, <2>3 DEF Core, Types
  <2>5. Booted'
    BY <1>1, <1>2, <1>3, <1>6 DEF Booted
  <2> QED
    BY <1>5, <2>3, <2>4, <2>5 DEF Core
<1>7. CASE status' = "refused" /\ UNCHANGED <<tmpl, streams, sent, made>>
  <2>1. Types'
    BY <1>1, <1>2, <1>7 DEF Core, Types
  <2>2. InQueue'
    BY <1>1, <1>2, <1>7 DEF Core, InQueue
  <2>3. Booted'
    BY <1>1, <1>2, <1>3, <1>7 DEF Core, Booted, Provisioned
  <2> QED
    BY <1>5, <2>1, <2>2, <2>3 DEF Core
<1> QED
  BY <1>1, <1>6, <1>7

\* A poll keeps it.
LEMMA PollCore ==
  ASSUME Core, NEW i \in Runners, NEW c, Poll(i, c)
  PROVE  Core'
<1>t. Types
  BY DEF Core
<1>1. /\ UNCHANGED <<config, status, tmpl, streams, encoded, seq, sent, dropped, spoilt,
                     reports, lives>>
      /\ status = "running" /\ batch[i] = <<>> /\ encoded[i] = Idle
      /\ DOMAIN batch' = Runners /\ batch'[i] = EventsOfPoll(i, c)
      /\ polls' \in [Runners -> Nat] /\ polls'[i] = polls[i] + 1
      /\ DOMAIN prev' = Runners
      /\ made' = made + Len(batch'[i])
      /\ \A j \in Runners \ {i} : batch'[j] = batch[j] /\ polls'[j] = polls[j]
  BY <1>t, PollIs
<1>2. Runners' = Runners /\ DeviceIds(config)' = DeviceIds(config)
  BY <1>1 DEF Runners
<1>3. /\ Sequence(batch'[i])
      /\ \A k \in 1 .. Len(batch'[i]) : Tells(i, c, batch'[i][k])
  BY <1>1, EventsOfPollIs
<1>p. polls[i] \in Nat /\ \A j \in Runners : polls[j] <= polls'[j]
  BY <1>t, <1>1 DEF Types
<1>4. \A k \in 1 .. Len(batch'[i]) : /\ Arisen(config.devices[i], batch'[i][k])
                                     /\ batch'[i][k].at = polls'[i]
  BY <1>1, <1>3 DEF Tells, Told
<1>5. Types'
  <2>1. Len(batch'[i]) \in Nat
    BY <1>3, SequenceIs DEF Sequence
  <2>2. \A j \in Runners : Sequence(batch'[j])
    BY <1>1, <1>3, <1>t DEF Types
  <2>3. made' \in Nat
    BY <1>1, <1>t, <2>1 DEF Types
  <2> QED
    BY <1>1, <1>2, <1>t, <2>2, <2>3 DEF Types
<1>6. Booted'
  BY <1>1, <1>2 DEF Core, Booted, Provisioned
<1>7. InBatch'
  <2> SUFFICES ASSUME NEW j \in Runners, NEW k \in 1 .. Len(batch'[j])
               PROVE  /\ Arisen(config.devices[j], batch'[j][k])
                      /\ batch'[j][k].at = polls'[j] /\ polls'[j] > 0
    BY <1>1, <1>2 DEF InBatch
  <2>1. CASE j = i
    BY <1>1, <1>p, <1>4, <2>1
  <2>2. CASE j # i
    BY <1>1, <2>2 DEF Core, InBatch
  <2> QED
    BY <2>1, <2>2
<1>8. InHand'
  <2> SUFFICES ASSUME NEW j \in Runners, encoded[j] # Idle
               PROVE  /\ DeviceMessage(config.devices[j], polls'[j], encoded[j])
                      /\ encoded[j].ev.at = polls'[j]
                      /\ encoded[j].sequence \in Nat /\ encoded[j].life = lives
                      /\ encoded[j].sequence <= seq[config.devices[j].id]
    BY <1>1, <1>2 DEF InHand
  <2>1. j # i
    BY <1>1
  <2> QED
    BY <1>1, <2>1 DEF Core, InHand
<1>9. InQueue'
  BY <1>1, <1>t, <1>p, QueueStays DEF Core, Types
<1> QED
  BY <1>5, <1>6, <1>7, <1>8, <1>9 DEF Core

\* Encoding keeps it.
LEMMA EncodeCore ==
  ASSUME Core, NEW i \in Runners, Encode(i)
  PROVE  Core'
<1> DEFINE ev == batch[i][1]
<1>t. Types /\ InBatch /\ config \in Configs
  BY DEF Core, Types
<1>1. /\ UNCHANGED <<config, status, tmpl, streams, prev, polls, sent, made, reports, lives>>
      /\ batch[i] # <<>> /\ encoded[i] = Idle
      /\ Len(batch[i]) \in Nat \ {0} /\ Head(batch[i]) = ev
      /\ DOMAIN batch' = Runners /\ batch'[i] = Tail(batch[i])
      /\ DOMAIN encoded' = Runners
      /\ \A j \in Runners \ {i} : batch'[j] = batch[j] /\ encoded'[j] = encoded[j]
      /\ Draw(ev) /\ ev.device = IdOfRunner(i) /\ ev.kind = KindOf(i)
      /\ Failed(i, ev) \/ ForCatalog(i, ev) \/ ForHealth(i, ev) \/ Dropped(i, ev)
  BY <1>t, EncodeIs
<1>e. /\ Arisen(config.devices[i], ev) /\ ev.at = polls[i] /\ polls[i] > 0 /\ polls[i] \in Nat
  BY <1>1, <1>t DEF InBatch, Types
<1> HIDE DEF ev
<1>2. Runners' = Runners /\ DeviceIds(config)' = DeviceIds(config)
  BY <1>1 DEF Runners
<1>3. /\ seq' \in [DeviceIds(config) -> Nat]
      /\ \A j \in Runners :
           /\ seq[config.devices[j].id] \in Nat
           /\ seq'[config.devices[j].id] =
                IF Claimed(ev) /\ config.devices[j].id = config.devices[i].id
                THEN seq[config.devices[j].id] + 1 ELSE seq[config.devices[j].id]
  BY <1>1, <1>t, DrawIs DEF Types, IdOfRunner
<1>4. /\ Sequence(batch'[i]) /\ Len(batch'[i]) = Len(batch[i]) - 1
      /\ \A k \in 1 .. Len(batch[i]) - 1 : batch'[i][k] = batch[i][k + 1]
  BY <1>1, <1>t, TailIs DEF Types
<1>5. dropped' \in [noEmitter : Nat, noSource : Nat, encodeErrors : Nat]
  <2>1. dropped \in [noEmitter : Nat, noSource : Nat, encodeErrors : Nat]
    BY <1>t DEF Types
  <2>2. CASE Failed(i, ev)
    BY <2>1, <2>2 DEF Failed
  <2>3. CASE ForCatalog(i, ev) \/ ForHealth(i, ev)
    BY <2>1, <2>3 DEF ForCatalog, ForHealth
  <2>4. CASE Dropped(i, ev)
    BY <2>1, <2>4 DEF Dropped
  <2> QED
    BY <1>1, <2>2, <2>3, <2>4
<1>6. Types'
  <2>1. \A j \in Runners : Sequence(batch'[j])
    BY <1>1, <1>4, <1>t DEF Types
  <2> QED
    BY <1>1, <1>2, <1>3, <1>5, <1>t, <2>1 DEF Types
<1>7. Booted'
  <2>1. status = "running"
    BY <1>1 DEF Core, Booted
  <2> QED
    BY <1>1, <1>2, <2>1 DEF Core, Booted, Provisioned
<1>8. InBatch'
  <2> SUFFICES ASSUME NEW j \in Runners, NEW k \in 1 .. Len(batch'[j])
               PROVE  /\ Arisen(config.devices[j], batch'[j][k])
                      /\ batch'[j][k].at = polls[j] /\ polls[j] > 0
    BY <1>1, <1>2 DEF InBatch
  <2>1. CASE j = i
    <3>1. k \in 1 .. Len(batch[i]) - 1 /\ k + 1 \in 1 .. Len(batch[i])
      BY <1>1, <1>4, <2>1
    <3>2. batch'[i][k] = batch[i][k + 1]
      BY <1>4, <3>1
    <3> QED
      BY <1>t, <2>1, <3>1, <3>2 DEF InBatch
  <2>2. CASE j # i
    BY <1>1, <2>2, <1>t DEF InBatch
  <2> QED
    BY <2>1, <2>2
<1>9. InHand'
  <2> SUFFICES ASSUME NEW j \in Runners, encoded'[j] # Idle
               PROVE  /\ DeviceMessage(config.devices[j], polls[j], encoded'[j])
                      /\ encoded'[j].ev.at = polls[j]
                      /\ encoded'[j].sequence \in Nat /\ encoded'[j].life = lives
                      /\ encoded'[j].sequence <= seq'[config.devices[j].id]
    BY <1>1, <1>2 DEF InHand
  <2>1. CASE j # i
    <3>1. seq[config.devices[j].id] <= seq'[config.devices[j].id]
      BY <1>3
    <3> QED
      BY <1>1, <1>3, <2>1, <3>1 DEF Core, InHand
  <2>2. CASE j = i /\ ForCatalog(i, ev)
    <3> DEFINE m == encoded'[i]  n == seq[config.devices[i].id] + 1
    <3>1. /\ m.ev = ev /\ m.ceType = CETypeFor(ev.event, ev.kind) /\ m.sequence = n
          /\ m.life = lives
      BY <2>2, MessageIs DEF ForCatalog
    <3>2. n \in Nat /\ n = seq'[config.devices[i].id]
      BY <1>3, <2>2 DEF ForCatalog
    <3> HIDE DEF m, n
    <3>3. ByCatalog(m)
      BY <2>2, <3>1 DEF ByCatalog, ForCatalog
    <3>4. DeviceMessage(config.devices[i], polls[i], m)
      BY <1>e, <3>1, <3>3 DEF DeviceMessage
    <3> QED
      BY <1>e, <2>2, <3>1, <3>2, <3>4 DEF m
  <2>3. CASE j = i /\ ForHealth(i, ev)
    <3> DEFINE m == encoded'[i]
    <3>1. /\ m.ev = ev /\ m.ceType = HealthCEType(ev.event) /\ m.sequence = 0
          /\ m.life = lives
      BY <2>3, MessageIs DEF ForHealth
    <3>2. seq'[config.devices[i].id] \in Nat
      BY <1>3
    <3> HIDE DEF m
    <3>3. ByHealth(m)
      BY <2>3, <3>1 DEF ByHealth, ForHealth
    <3>4. DeviceMessage(config.devices[i], polls[i], m)
      BY <1>e, <3>1, <3>3 DEF DeviceMessage
    <3> QED
      BY <1>e, <2>3, <3>1, <3>2, <3>4 DEF m
  <2> QED
    BY <1>1, <2>1, <2>2, <2>3 DEF Failed, Dropped
<1>10. InQueue'
  BY <1>1, <1>2 DEF Core, InQueue
<1> QED
  BY <1>6, <1>7, <1>8, <1>9, <1>10 DEF Core

\* Queueing keeps it.
LEMMA EnqueueCore ==
  ASSUME Core, NEW i \in Runners, Enqueue(i)
  PROVE  Core'
<1>t. Types
  BY DEF Core
<1>1. /\ UNCHANGED <<config, status, tmpl, streams, prev, polls, batch, seq, dropped, made,
                     spoilt, reports, lives>>
      /\ encoded[i] # Idle /\ sent' = Append(sent, encoded[i])
      /\ DOMAIN encoded' = Runners /\ encoded'[i] = Idle
      /\ \A j \in Runners \ {i} : encoded'[j] = encoded[j]
      /\ status = "running" /\ Provisioned
  BY EnqueueIs
<1>2. Runners' = Runners /\ DeviceIds(config)' = DeviceIds(config)
  BY <1>1 DEF Runners
<1>3. /\ DeviceMessage(config.devices[i], polls[i], encoded[i])
      /\ encoded[i].sequence \in Nat
  BY <1>1 DEF Core, InHand
<1> DEFINE m == encoded[i]
<1>4. sent' = Append(sent, m) /\ m.sequence \in Nat
      /\ \E j \in Runners : DeviceMessage(config.devices[j], polls[j], m)
  BY <1>1, <1>3
<1> HIDE DEF m
<1>5. InQueue' /\ Sequence(sent')
  BY <1>1, <1>t, <1>4, QueueGrows DEF Core
<1>6. Types'
  BY <1>1, <1>2, <1>5, <1>t DEF Types
<1>7. Booted'
  BY <1>1, <1>2 DEF Core, Booted, Provisioned
<1>8. InBatch'
  BY <1>1, <1>2 DEF Core, InBatch
<1>9. InHand'
  <2> SUFFICES ASSUME NEW j \in Runners, encoded'[j] # Idle
               PROVE  /\ DeviceMessage(config.devices[j], polls[j], encoded'[j])
                      /\ encoded'[j].ev.at = polls[j]
                      /\ encoded'[j].sequence \in Nat /\ encoded'[j].life = lives
                      /\ encoded'[j].sequence <= seq[config.devices[j].id]
    BY <1>1, <1>2 DEF InHand
  <2> QED
    BY <1>1 DEF Core, InHand
<1> QED
  BY <1>5, <1>6, <1>7, <1>8, <1>9 DEF Core

\* A heartbeat or a log record keeps it.
LEMMA SelfReportCore ==
  ASSUME Core, NEW event \in {"heartbeat", "log"}, SelfReport(event)
  PROVE  Core'
<1>s. event \in SelfEvents
  BY DEF SelfEvents
<1>1. /\ UNCHANGED <<config, status, tmpl, streams, prev, polls, batch, encoded, seq, dropped,
                     spoilt, lives>>
      /\ sent' = Append(sent, SelfMessage(event, reports + 1))
      /\ reports' = reports + 1 /\ made' = made + 1 /\ status = "running"
  BY DEF SelfReport
<1>2. Runners' = Runners /\ DeviceIds(config)' = DeviceIds(config)
  BY <1>1 DEF Runners
<1> DEFINE m == SelfMessage(event, reports + 1)
<1>3. OwnMessage(m) /\ m.sequence \in Nat
  BY <1>s, SelfMessageIs
<1>4. sent' = Append(sent, m)
  BY <1>1
<1> HIDE DEF m
<1>5. InQueue' /\ Sequence(sent')
  BY <1>1, <1>3, <1>4, QueueGrows DEF Core
<1>6. Types'
  BY <1>1, <1>2, <1>5 DEF Core, Types
<1>7. Booted'
  BY <1>1, <1>2 DEF Core, Booted, Provisioned
<1>8. InBatch'
  BY <1>1, <1>2 DEF Core, InBatch
<1>9. InHand'
  BY <1>1, <1>2 DEF Core, InHand
<1> QED
  BY <1>5, <1>6, <1>7, <1>8, <1>9 DEF Core

\* A restart keeps it.
LEMMA RestartCore == Core /\ Restart => Core'
<1> SUFFICES ASSUME Core, Restart  PROVE Core'
  OBVIOUS
<1>s. "stopping" \in SelfEvents
  BY DEF SelfEvents
<1>1. /\ UNCHANGED <<config, tmpl, streams, polls, batch, encoded, dropped, spoilt>>
      /\ status = "running" /\ status' = "off"
      /\ \A i \in Runners : batch[i] = <<>> /\ encoded[i] = Idle
      /\ lives' = lives + 1 /\ reports' = reports + 1 /\ made' = made + 1
      /\ sent' = Append(sent, SelfMessage("stopping", reports))
      /\ seq' \in [DeviceIds(config) -> Nat]
      /\ DOMAIN prev' = Runners
  BY RestartIs DEF Core
<1>2. Runners' = Runners /\ DeviceIds(config)' = DeviceIds(config)
  BY <1>1 DEF Runners
<1> DEFINE m == SelfMessage("stopping", reports)
<1>3. OwnMessage(m) /\ m.sequence \in Nat
  BY <1>s, SelfMessageIs
<1>4. sent' = Append(sent, m)
  BY <1>1
<1> HIDE DEF m
<1>5. InQueue' /\ Sequence(sent')
  BY <1>1, <1>3, <1>4, QueueGrows DEF Core
<1>6. Types'
  BY <1>1, <1>2, <1>5 DEF Core, Types
<1>7. Booted'
  BY <1>1, <1>2 DEF Core, Booted, Provisioned
<1>8. InBatch' /\ InHand'
  <2>1. Len(<<>>) = 0
    BY EmptySeq
  <2> QED
    BY <1>1, <1>2, <2>1 DEF InBatch, InHand
<1> QED
  BY <1>5, <1>6, <1>7, <1>8 DEF Core

\* So every step does.
LEMMA CoreStep == Core /\ [Next]_vars => Core'
<1> SUFFICES ASSUME Core, [Next]_vars  PROVE Core'
  OBVIOUS
<1>1. CASE UNCHANGED vars
  BY <1>1 DEF vars, Core, Types, Booted, Provisioned, InBatch, InHand, InQueue, Runners,
              DeviceIds
<1>2. CASE Boot
  BY <1>2, BootCore
<1>3. CASE \E i \in Runners : \E c \in Readings[config.devices[i].kind] : Poll(i, c)
  BY <1>3, PollCore
<1>4. CASE \E i \in Runners : Encode(i)
  BY <1>4, EncodeCore
<1>5. CASE \E i \in Runners : Enqueue(i)
  BY <1>5, EnqueueCore
<1>6. CASE \E event \in {"heartbeat", "log"} : SelfReport(event)
  BY <1>6, SelfReportCore
<1>7. CASE Restart
  BY <1>7, RestartCore
<1> QED
  BY <1>1, <1>2, <1>3, <1>4, <1>5, <1>6, <1>7 DEF Next

\* Whatever the configuration, the devices and what they read: nothing is
\* polled before boot has accepted, every event that is with a runner or in
\* the queue is of a poll of its device, made as a differ would, and every
\* message has the ce-type and the number of the emitter that claimed it
\* (app.go:125-140, 322-368).
THEOREM CoreInvariance == Spec => []Core
<1> QED
  BY CoreInit, CoreStep, PTL DEF Spec

-----------------------------------------------------------------------------
(* What holds of the message that was queued last, because the invariant   *)
(* holds of each.                                                          *)

\* The message that was queued last is one of the queue's.
LEMMA NewestIs ==
  ASSUME Core, sent # <<>>
  PROVE  /\ Len(sent) \in Nat \ {0} /\ Newest = sent[Len(sent)] /\ Provisioned
         /\ config \in Configs /\ Newest.sequence \in Nat
         /\ OwnMessage(Newest)
            \/ \E i \in Runners : DeviceMessage(config.devices[i], polls[i], Newest)
<1>1. Len(sent) \in Nat \ {0}
  BY TailIs DEF Core, Types
<1>2. Newest = sent[Len(sent)]
  BY DEF Newest, Last
<1>3. Len(sent) \in 1 .. Len(sent)
  BY <1>1
<1> QED
  BY <1>1, <1>2, <1>3 DEF Core, Booted, InQueue, Types

\* What a message says is what its emitter made of its event.
LEMMA BodyIs ==
  ASSUME NEW m, ByCatalog(m)
  PROVE  /\ BodyOf(m) = Body(m.ev) /\ m.ceType.namespace = "openits"
         /\ CETypeFor(m.ev.event, m.ev.kind) # NoCEType /\ m.ceType \in CETypes
  BY CatalogIs DEF ByCatalog, Claimed, BodyOf

\* The same of a message in the collector's own schema.
LEMMA HealthBodyIs ==
  ASSUME NEW m, ByHealth(m) \/ OwnMessage(m)
  PROVE  /\ BodyOf(m) = HealthBody(m.ev) /\ m.ceType.namespace = "openits-collector"
         /\ m.ev.event \in SelfEvents \cup {"device-status-changed"}
         /\ m.ceType.event = m.ev.event /\ m.ceType \in CETypes
<1>1. m.ceType = HealthCEType(m.ev.event) /\ HealthCEType(m.ev.event) # NoCEType
  BY SelfIs DEF ByHealth, OwnMessage
<1> QED
  BY <1>1, HealthIs DEF BodyOf

\* What the payload of a tour is.
LEMMA TourBodyIs ==
  ASSUME NEW ev, ev.event = "cctv-tour-state-changed"
  PROVE  Body(ev) = TourBody(ev)
  BY DEF Body, ModeEvents

-----------------------------------------------------------------------------
(* One stream, one name, one place for each token.                         *)

\* How many a pair is.
LEMMA PairCount ==
  ASSUME NEW a, NEW b
  PROVE  Cardinality({a, b}) = IF a = b THEN 1 ELSE 2
<1>1. CASE a = b
  <2>1. {a, b} = {a}
    BY <1>1
  <2> QED
    BY <1>1, <2>1, FS_Singleton
<1>2. CASE a # b
  <2> DEFINE A == {a}
  <2>1. IsFiniteSet(A) /\ Cardinality(A) = 1 /\ b \notin A
    BY <1>2, FS_Singleton
  <2>2. {a, b} = A \cup {b}
    OBVIOUS
  <2> HIDE DEF A
  <2>3. Cardinality(A \cup {b}) = Cardinality(A) + 1
    BY <2>1, FS_AddElement
  <2> QED
    BY <1>2, <2>1, <2>2, <2>3
<1> QED
  BY <1>1, <1>2

\* The templates of Subjects, for the message that was queued last.
LEMMA OneStream == Core => OneStreamEach
<1> SUFFICES ASSUME Core, sent # <<>>
             PROVE  /\ Cardinality(Captures(Newest)) = 1
                    /\ Cardinality({StreamNameForBinding(b) : b \in streams})
                         = Cardinality(streams)
                    /\ Len(SubjectOf(Newest)) = Len(tmpl.tokens)
  BY DEF OneStreamEach
<1> DEFINE m == Newest  c == m.ceType  d == m.ev.device  ns == c["namespace"]
           subject == SubjectOf(m)
           B(n) == BindingFor(tmpl, n)
<1>1. Provisioned /\ config \in Configs /\ streams = Bindings(tmpl, CETypes)
  BY NewestIs DEF Provisioned
<1>2. Template(tmpl)
  BY <1>1, AcceptedIs
<1>3. c \in CETypes
  <2> HIDE DEF m
  <2>1. OwnMessage(m) \/ ByHealth(m) \/ ByCatalog(m)
    BY NewestIs DEF DeviceMessage, m
  <2> QED
    BY <2>1, HealthBodyIs, BodyIs
<1>4. d \in Seq(Parts) /\ Renderable(tmpl, d)
  <2>1. CASE OwnMessage(m)
    <3>1. d = NoDevice
      BY <2>1 DEF OwnMessage
    <3>2. NoDevice \in Seq(Parts)
      BY EmptySeq DEF NoDevice
    <3> HIDE DEF d
    <3> QED
      BY <1>1, <3>1, <3>2, AcceptedIs
  <2>2. CASE \E i \in Runners : DeviceMessage(config.devices[i], polls[i], m)
    <3>1. PICK i \in Runners : d = IdOfRunner(i)
      BY <2>2 DEF DeviceMessage, Arisen, IdOfRunner
    <3> HIDE DEF d
    <3> QED
      BY <1>1, <3>1, AcceptedIs, RunnersAre
  <2> QED
    BY <2>1, <2>2, NewestIs
<1>5. subject = Render(tmpl, c, d)
  BY DEF SubjectOf
<1>6. streams = {B("openits"), B("openits-collector")} /\ B(ns) \in streams
  <2>1. {e["namespace"] : e \in CETypes} = {"openits", "openits-collector"}
    <3>1. \A e \in CETypes : e["namespace"] \in {"openits", "openits-collector"}
      BY <1>1, AcceptedIs
    <3>2. CETypeFor("mode-changed", "asc") \in CETypes
          /\ CETypeFor("mode-changed", "asc")["namespace"] = "openits"
      <4>1. CETypeFor("mode-changed", "asc") = CEType("openits", "signal-control", "mode-changed")
        <5>1. "asc" \in DOMAIN Served /\ "mode-changed" \in Served["asc"]
          BY DEF Served
        <5>2. ServiceOf("mode-changed", "asc") = "signal-control"
          BY DEF ServiceOf
        <5>3. WireEvent("mode-changed") = "mode-changed"
          BY DEF WireEvent
        <5> QED
          BY <5>1, <5>2, <5>3 DEF CETypeFor
      <4>2. CETypeFor("mode-changed", "asc") # NoCEType
        <5>1. CETypeFor("mode-changed", "asc").namespace = "openits"
          BY <4>1 DEF CEType
        <5>2. NoCEType.namespace = ""
          BY DEF NoCEType, CEType
        <5> QED
          BY <5>1, <5>2
      <4> QED
        BY <4>2, CatalogIs
    <3>3. HealthCEType("log") \in CETypes /\ HealthCEType("log")["namespace"] = "openits-collector"
      BY SelfIs, HealthIs DEF SelfEvents
    <3> QED
      BY <3>1, <3>2, <3>3
  <2>2. streams = {B(n) : n \in {"openits", "openits-collector"}}
    BY <1>1, <2>1 DEF Bindings
  <2>3. ns \in {"openits", "openits-collector"}
    BY <1>3, <2>1
  <2> HIDE DEF B, ns
  <2> QED
    BY <2>2, <2>3
<1>7. subject \in Seq(EventParts(c)) /\ Len(subject) = Len(tmpl.tokens)
  <2> HIDE DEF c, d, subject
  <2> QED
    BY <1>2, <1>4, <1>5, RenderedTokenwise
<1>8. WithinBinding(subject, B(ns))
  <2> HIDE DEF c, d, subject
  <2> QED
    BY <1>2, <1>4, <1>5, RenderedIsBound
<1>9. ASSUME NEW b \in streams, WithinBinding(subject, b)  PROVE b = B(ns)
  <2>1. PICK n : b = B(n)
    BY <1>6
  <2> HIDE DEF c, subject, ns
  <2> QED
    BY <1>2, <1>7, <1>8, <1>9, <2>1, BoundOnce
<1>10. Captures(m) = {B(ns)}
  <2>1. Captures(m) = {b \in streams : WithinBinding(subject, b)}
    BY DEF Captures
  <2> HIDE DEF m, B, ns, subject
  <2> QED
    BY <1>6, <1>8, <1>9, <2>1
<1>11. Cardinality(Captures(Newest)) = 1
  BY <1>10, FS_Singleton
<1>12. Cardinality({StreamNameForBinding(b) : b \in streams}) = Cardinality(streams)
  <2> DEFINE x == B("openits")  y == B("openits-collector")
  <2>1. {StreamNameForBinding(b) : b \in {x, y}}
          = {StreamNameForBinding(x), StreamNameForBinding(y)}
    <3> HIDE DEF x, y
    <3> QED
      OBVIOUS
  <2>2. x = y <=> StreamNameForBinding(x) = StreamNameForBinding(y)
    BY <1>2, StreamNamesApart
  <2> DEFINE u == StreamNameForBinding(x)  v == StreamNameForBinding(y)
  <2>3. x = y <=> u = v
    BY <2>2
  <2> HIDE DEF x, y, u, v
  <2>4. /\ Cardinality({u, v}) = IF u = v THEN 1 ELSE 2
        /\ Cardinality({x, y}) = IF x = y THEN 1 ELSE 2
    BY PairCount
  <2> QED
    BY <1>6, <2>1, <2>3, <2>4 DEF x, y, u, v
<1> QED
  BY <1>7, <1>11, <1>12

\* Every message of every configuration that boot accepts is captured by one
\* stream, whose name is its own, under a subject with the template's tokens
\* in their places (subject.go:216-224, publish.go:440-452).
THEOREM OneStreamForEach == Spec => []OneStreamEach
<1> QED
  BY CoreInvariance, OneStream, PTL

-----------------------------------------------------------------------------
(* The events of a poll are told apart by their keys.                      *)

\* The head of a batch is taken in hand, or dropped.
LEMMA HeadApart ==
  ASSUME NEW b, Sequence(b), b # <<>>, Apart(b, Idle), NEW e, e = Idle \/ e.ev = b[1]
  PROVE  Apart(Tail(b), e) /\ \A m : Fresh(b, Idle, m) => Fresh(Tail(b), e, m)
<1>1. /\ Len(Tail(b)) = Len(b) - 1 /\ Len(b) \in Nat \ {0}
      /\ \A k \in 1 .. Len(b) - 1 : Tail(b)[k] = b[k + 1]
  BY TailIs
<1> DEFINE t == Tail(b)
<1> HIDE DEF t
<1>2. /\ Len(t) = Len(b) - 1 /\ Len(b) \in Nat \ {0}
      /\ \A k \in 1 .. Len(t) : t[k] = b[k + 1] /\ k + 1 \in 1 .. Len(b)
  BY <1>1 DEF t
<1>3. ASSUME NEW k \in 1 .. Len(t), NEW h \in 1 .. k - 1  PROVE Key(t[h]) # Key(t[k])
  <2>1. h \in 1 .. Len(t) /\ h + 1 \in 1 .. (k + 1) - 1
    BY <1>2
  <2>2. Key(b[h + 1]) # Key(b[k + 1])
    BY <1>2, <2>1 DEF Apart
  <2> QED
    BY <1>2, <2>1, <2>2
<1>4. ASSUME NEW k \in 1 .. Len(t)  PROVE Key(b[1]) # Key(t[k])
  <2>1. k + 1 \in 1 .. Len(b) /\ 1 \in 1 .. (k + 1) - 1
    BY <1>2
  <2>2. Key(b[1]) # Key(b[k + 1])
    BY <2>1 DEF Apart
  <2> QED
    BY <1>2, <2>2
<1>5. Apart(t, e)
  BY <1>3, <1>4 DEF Apart
<1>6. ASSUME NEW m, Fresh(b, Idle, m)  PROVE Fresh(t, e, m)
  <2>1. \A k \in 1 .. Len(t) : Key(m.ev) # Key(t[k])
    BY <1>2, <1>6 DEF Fresh
  <2>2. Key(m.ev) # Key(b[1])
    <3>1. 1 \in 1 .. Len(b)
      BY <1>2
    <3> QED
      BY <1>6, <3>1 DEF Fresh
  <2> QED
    BY <2>1, <2>2 DEF Fresh
<1> QED
  BY <1>5, <1>6 DEF t

\* The keys are apart at first.
LEMMA KeysInit == Init => Keys
<1> SUFFICES ASSUME Init  PROVE Keys
  OBVIOUS
<1>1. Len(<<>>) = 0
  BY EmptySeq
<1>2. \A i \in Runners : Len(batch[i]) = 0 /\ encoded[i] = Idle
  BY <1>1 DEF Init
<1> QED
  BY <1>2 DEF Keys, Apart, Fresh

\* A message in the queue is a device's, of a poll that was made, or the
\* collector's own.
LEMMA QueuedFor ==
  ASSUME Core, status = "running", NEW i \in Runners, NEW n \in 1 .. Len(sent),
         sent[n].ev.device = config.devices[i].id
  PROVE  DeviceMessage(config.devices[i], polls[i], sent[n])
<1>1. Provisioned /\ config \in Configs
  BY DEF Core, Booted, Types
<1>2. CASE OwnMessage(sent[n])
  <2>1. IdOfRunner(i) = NoDevice
    BY <1>2 DEF OwnMessage, IdOfRunner
  <2> QED
    BY <1>1, <2>1, AcceptedIs
<1>3. CASE \E j \in Runners : DeviceMessage(config.devices[j], polls[j], sent[n])
  <2>1. PICK j \in Runners : DeviceMessage(config.devices[j], polls[j], sent[n])
    BY <1>3
  <2>2. IdOfRunner(i) = IdOfRunner(j)
    BY <2>1 DEF DeviceMessage, Arisen, IdOfRunner
  <2>3. i = j
    BY <1>1, <2>2, AcceptedIs
  <2> QED
    BY <2>1, <2>3
<1> QED
  BY <1>2, <1>3 DEF Core, InQueue

\* The events of a poll are of different things or kinds, and those in the
\* queue are of earlier polls.
LEMMA PollKeys ==
  ASSUME Core, Keys, NEW i \in Runners, NEW c, Poll(i, c)
  PROVE  Keys'
<1>t. Types
  BY DEF Core
<1>1. /\ UNCHANGED <<config, encoded, sent>>
      /\ status = "running" /\ batch[i] = <<>> /\ encoded[i] = Idle
      /\ batch'[i] = EventsOfPoll(i, c) /\ polls'[i] = polls[i] + 1
      /\ \A j \in Runners \ {i} : batch'[j] = batch[j] /\ polls'[j] = polls[j]
  BY <1>t, PollIs
<1>2. Runners' = Runners
  BY <1>1 DEF Runners
<1>3. /\ Sequence(batch'[i])
      /\ \A k \in 1 .. Len(batch'[i]) : \A h \in 1 .. k - 1 :
           batch'[i][h].of # batch'[i][k].of \/ batch'[i][h].event # batch'[i][k].event
  BY <1>1, EventsOfPollIs
<1>4. Apart(batch'[i], encoded'[i])
  BY <1>1, <1>3 DEF Apart, Key
<1>5. ASSUME NEW n \in 1 .. Len(sent), sent[n].ev.device = config.devices[i].id
      PROVE  sent[n].ev.at # polls'[i]
  <2>1. DeviceMessage(config.devices[i], polls[i], sent[n])
    BY <1>1, <1>5, QueuedFor
  <2>2. polls[i] \in Nat /\ sent[n].ev.at \in 1 .. polls[i]
    BY <1>t, <2>1 DEF DeviceMessage, Types
  <2> QED
    BY <1>1, <2>2
<1>6. ASSUME NEW j \in Runners, j # i
      PROVE  /\ Apart(batch'[j], encoded'[j])
             /\ \A n \in 1 .. Len(sent) :
                  sent[n].ev.device = config.devices[j].id /\ sent[n].ev.at = polls'[j] =>
                    Fresh(batch'[j], encoded'[j], sent[n])
  BY <1>1, <1>6 DEF Keys
<1> QED
  BY <1>1, <1>2, <1>4, <1>5, <1>6 DEF Keys

\* An event that is encoded stays with its runner or goes.
LEMMA EncodeKeys ==
  ASSUME Core, Keys, NEW i \in Runners, Encode(i)
  PROVE  Keys'
<1> DEFINE ev == batch[i][1]
<1>t. Types /\ InBatch
  BY DEF Core
<1>1. /\ UNCHANGED <<config, polls, sent>>
      /\ batch[i] # <<>> /\ encoded[i] = Idle /\ batch'[i] = Tail(batch[i])
      /\ \A j \in Runners \ {i} : batch'[j] = batch[j] /\ encoded'[j] = encoded[j]
      /\ Failed(i, ev) \/ ForCatalog(i, ev) \/ ForHealth(i, ev) \/ Dropped(i, ev)
  BY <1>t, EncodeIs
<1>2. Runners' = Runners
  BY <1>1 DEF Runners
<1>3. encoded'[i] = Idle \/ encoded'[i].ev = ev
  <2> HIDE DEF ev
  <2> QED
    BY <1>1, MessageIs DEF Failed, ForCatalog, ForHealth, Dropped
<1>4. Sequence(batch[i]) /\ Apart(batch[i], Idle)
  BY <1>1, <1>t DEF Types, Keys
<1>5. /\ Apart(batch'[i], encoded'[i])
      /\ \A m : Fresh(batch[i], Idle, m) => Fresh(batch'[i], encoded'[i], m)
  <2> DEFINE b == batch[i]  e == encoded'[i]
  <2>1. Sequence(b) /\ b # <<>> /\ Apart(b, Idle) /\ (e = Idle \/ e.ev = b[1])
    BY <1>1, <1>3, <1>4
  <2> HIDE DEF b, e, ev
  <2>2. Apart(Tail(b), e) /\ \A m : Fresh(b, Idle, m) => Fresh(Tail(b), e, m)
    BY <2>1, HeadApart
  <2> QED
    BY <1>1, <2>2 DEF b, e
<1> HIDE DEF ev
<1>6. ASSUME NEW n \in 1 .. Len(sent),
             sent[n].ev.device = config.devices[i].id, sent[n].ev.at = polls[i]
      PROVE  Fresh(batch'[i], encoded'[i], sent[n])
  <2>1. Fresh(batch[i], Idle, sent[n])
    BY <1>1, <1>6 DEF Keys
  <2> QED
    BY <1>5, <2>1
<1>7. ASSUME NEW j \in Runners, j # i
      PROVE  /\ Apart(batch'[j], encoded'[j])
             /\ \A n \in 1 .. Len(sent) :
                  sent[n].ev.device = config.devices[j].id /\ sent[n].ev.at = polls[j] =>
                    Fresh(batch'[j], encoded'[j], sent[n])
  BY <1>1, <1>7 DEF Keys
<1> QED
  BY <1>1, <1>2, <1>5, <1>6, <1>7 DEF Keys

\* An event that is queued was in hand.
LEMMA EnqueueKeys ==
  ASSUME Core, Keys, NEW i \in Runners, Enqueue(i)
  PROVE  Keys'
<1>t. Types /\ Sequence(sent)
  BY DEF Core, Types
<1>1. /\ UNCHANGED <<config, polls, batch>>
      /\ encoded[i] # Idle /\ sent' = Append(sent, encoded[i]) /\ encoded'[i] = Idle
      /\ \A j \in Runners \ {i} : encoded'[j] = encoded[j]
      /\ status = "running" /\ Provisioned
  BY EnqueueIs
<1>2. Runners' = Runners
  BY <1>1 DEF Runners
<1>3. /\ Len(sent') = Len(sent) + 1 /\ Len(sent) \in Nat
      /\ \A k \in 1 .. Len(sent) : sent'[k] = sent[k]
      /\ sent'[Len(sent) + 1] = encoded[i]
  BY <1>1, <1>t, AppendIs
<1>4. \A j \in Runners : encoded'[j] = Idle \/ encoded'[j] = encoded[j]
  BY <1>1
<1>5. \A j \in Runners : Apart(batch[j], encoded'[j])
  BY <1>4 DEF Keys, Apart
<1>6. ASSUME NEW j \in Runners, NEW n \in 1 .. Len(sent'),
             sent'[n].ev.device = config.devices[j].id, sent'[n].ev.at = polls[j]
      PROVE  Fresh(batch[j], encoded'[j], sent'[n])
  <2>1. CASE n \in 1 .. Len(sent)
    <3>1. Fresh(batch[j], encoded[j], sent[n])
      BY <1>3, <1>6, <2>1 DEF Keys
    <3> QED
      BY <1>3, <1>4, <2>1, <3>1 DEF Fresh
  <2>2. CASE n = Len(sent) + 1
    <3>1. encoded[i].ev.device = IdOfRunner(i)
      BY <1>1 DEF Core, InHand, DeviceMessage, Arisen, IdOfRunner
    <3>2. IdOfRunner(j) = IdOfRunner(i) /\ config \in Configs
      BY <1>3, <1>6, <1>t, <2>2, <3>1 DEF IdOfRunner, Types
    <3>3. j = i
      BY <1>1, <3>2, AcceptedIs
    <3>4. Apart(batch[i], encoded[i])
      BY DEF Keys
    <3> QED
      BY <1>1, <1>3, <2>2, <3>3, <3>4 DEF Apart, Fresh
  <2> QED
    BY <1>3, <2>1, <2>2
<1> QED
  BY <1>1, <1>2, <1>5, <1>6 DEF Keys

\* What the collector says of itself has no device.
LEMMA SelfReportKeys ==
  ASSUME Core, Keys, NEW event \in {"heartbeat", "log"}, SelfReport(event)
  PROVE  Keys'
<1>1. /\ UNCHANGED <<config, polls, batch, encoded>> /\ status = "running"
      /\ sent' = Append(sent, SelfMessage(event, reports + 1))
  BY DEF SelfReport
<1>2. Runners' = Runners /\ Sequence(sent) /\ Provisioned /\ config \in Configs
  BY <1>1 DEF Runners, Core, Types, Booted
<1> DEFINE m == SelfMessage(event, reports + 1)
<1>3. m.ev.device = NoDevice /\ sent' = Append(sent, m)
  <2>1. event \in SelfEvents
    BY DEF SelfEvents
  <2> QED
    BY <1>1, <2>1, SelfMessageIs DEF OwnMessage
<1> HIDE DEF m
<1>4. /\ Len(sent') = Len(sent) + 1 /\ Len(sent) \in Nat
      /\ \A k \in 1 .. Len(sent) : sent'[k] = sent[k]
      /\ sent'[Len(sent) + 1].ev.device = NoDevice
  BY <1>2, <1>3, AppendIs
<1>5. \A j \in Runners : config.devices[j].id # NoDevice
  BY <1>2, AcceptedIs DEF IdOfRunner
<1>6. ASSUME NEW j \in Runners, NEW n \in 1 .. Len(sent'),
             sent'[n].ev.device = config.devices[j].id, sent'[n].ev.at = polls[j]
      PROVE  Fresh(batch[j], encoded[j], sent'[n])
  <2>1. n \in 1 .. Len(sent)
    BY <1>4, <1>5, <1>6
  <2> QED
    BY <1>4, <1>6, <2>1 DEF Keys
<1> QED
  BY <1>1, <1>2, <1>6 DEF Keys

\* So every step keeps the keys apart.
LEMMA KeysStep == Core /\ Keys /\ [Next]_vars => Keys'
<1> SUFFICES ASSUME Core, Keys, [Next]_vars  PROVE Keys'
  OBVIOUS
<1>1. CASE UNCHANGED vars
  BY <1>1 DEF vars, Keys, Runners
<1>2. CASE Boot \/ Restart
  <2>1. \A i \in Runners : batch[i] = <<>> /\ encoded[i] = Idle
    BY <1>2, BootIs, RestartIs DEF Core, Booted
  <2>2. UNCHANGED <<config, batch, encoded>>
    BY <1>2, BootIs, RestartIs DEF Core
  <2>3. \A i \in Runners' : batch'[i] = <<>> /\ encoded'[i] = Idle
    BY <2>1, <2>2 DEF Runners
  <2>4. \A i \in Runners' : Len(batch'[i]) = 0 /\ encoded'[i] = Idle
    BY <2>3, EmptySeq
  <2> QED
    BY <2>4 DEF Keys, Apart, Fresh
<1>3. CASE \E i \in Runners : \E c \in Readings[config.devices[i].kind] : Poll(i, c)
  BY <1>3, PollKeys
<1>4. CASE \E i \in Runners : Encode(i)
  BY <1>4, EncodeKeys
<1>5. CASE \E i \in Runners : Enqueue(i)
  BY <1>5, EnqueueKeys
<1>6. CASE \E event \in {"heartbeat", "log"} : SelfReport(event)
  BY <1>6, SelfReportKeys
<1> QED
  BY <1>1, <1>2, <1>3, <1>4, <1>5, <1>6 DEF Next

-----------------------------------------------------------------------------
(* The collector's own messages are told apart by their times.             *)

\* Nothing is said, and the collector does not stop.
LEMMA OwnTimesKept ==
  ASSUME Types, OwnTimes, NEW m, sent' = Append(sent, m), m.ev.device # NoDevice,
         UNCHANGED <<reports, status>>
  PROVE  OwnTimes'
<1>1. /\ Len(sent') = Len(sent) + 1 /\ Len(sent) \in Nat
      /\ \A k \in 1 .. Len(sent) : sent'[k] = sent[k]
      /\ sent'[Len(sent) + 1] = m
  BY AppendIs DEF Types
<1>2. \A n \in 1 .. Len(sent') : sent'[n].ev.device = NoDevice => n \in 1 .. Len(sent)
  BY <1>1
<1> QED
  BY <1>1, <1>2 DEF OwnTimes

\* The collector says something at a later time than it did before, or for
\* the first time in this life.
LEMMA OwnTimesGrow ==
  ASSUME Types, OwnTimes, NEW m, sent' = Append(sent, m), reports' \in Nat,
         reports <= reports', m.ev.at \in Nat, m.ev.at <= reports',
         m.ev.event = "stopping" => m.ev.at < reports',
         m.ev.event = "started" => status' # "off",
         status' = "off" => status = "off" \/ reports < reports'
  PROVE  OwnTimes'
<1>1. /\ Len(sent') = Len(sent) + 1 /\ Len(sent) \in Nat
      /\ \A k \in 1 .. Len(sent) : sent'[k] = sent[k]
      /\ sent'[Len(sent) + 1] = m
  BY AppendIs DEF Types
<1>2. reports \in Nat
  BY DEF Types
<1>3. ASSUME NEW n \in 1 .. Len(sent'), sent'[n].ev.device = NoDevice
      PROVE  /\ sent'[n].ev.at \in Nat /\ sent'[n].ev.at <= reports'
             /\ sent'[n].ev.event = "stopping" => sent'[n].ev.at < reports'
             /\ sent'[n].ev.event = "started" /\ status' = "off" => sent'[n].ev.at < reports'
  <2>1. CASE n \in 1 .. Len(sent)
    <3>1. /\ sent[n].ev.at \in Nat /\ sent[n].ev.at <= reports
          /\ sent[n].ev.event = "stopping" => sent[n].ev.at < reports
          /\ sent[n].ev.event = "started" /\ status = "off" => sent[n].ev.at < reports
      BY <1>1, <1>3, <2>1 DEF OwnTimes
    <3> DEFINE at == sent[n].ev.at
    <3>2. at \in Nat /\ at <= reports' /\ (at < reports => at < reports')
          /\ (reports < reports' => at < reports')
      <4> HIDE DEF at
      <4>1. at \in Nat /\ at <= reports
        BY <3>1 DEF at
      <4> QED
        BY <1>2, <4>1
    <3> QED
      BY <1>1, <2>1, <3>1, <3>2
  <2>2. CASE n = Len(sent) + 1
    BY <1>1, <2>2
  <2> QED
    BY <1>1, <2>1, <2>2
<1> QED
  BY <1>3 DEF OwnTimes

\* At first it has said nothing.
LEMMA OwnTimesInit == Init => OwnTimes
<1>1. Len(<<>>) = 0
  BY EmptySeq
<1> QED
  BY <1>1 DEF Init, OwnTimes

\* Every step keeps its times.
LEMMA OwnTimesStep == Core /\ OwnTimes /\ [Next]_vars => OwnTimes'
<1> SUFFICES ASSUME Core, OwnTimes, [Next]_vars  PROVE OwnTimes'
  OBVIOUS
<1>t. Types /\ reports \in Nat
  BY DEF Core, Types
<1>1. CASE UNCHANGED vars \/ \E i \in Runners : Encode(i)
  BY <1>1 DEF vars, OwnTimes, Encode
<1>2. CASE Boot
  <2>1. CASE sent' = Append(sent, SelfMessage("started", reports)) /\ status' = "running"
    <3> DEFINE m == SelfMessage("started", reports)
    <3>1. sent' = Append(sent, m) /\ m.ev.at = reports /\ m.ev.event = "started"
      BY <2>1, SelfMessageIs DEF SelfEvents
    <3>2. reports' = reports
      BY <1>2, BootIs
    <3> HIDE DEF m
    <3> QED
      BY <1>t, <2>1, <3>1, <3>2, OwnTimesGrow
  <2>2. CASE sent' = sent /\ status' = "refused"
    BY <1>2, <2>2, BootIs DEF OwnTimes
  <2> QED
    BY <1>2, <2>1, <2>2, BootIs
<1>3. CASE \E i \in Runners : \E c \in Readings[config.devices[i].kind] : Poll(i, c)
  BY <1>3 DEF OwnTimes, Poll
<1>4. CASE \E i \in Runners : Enqueue(i)
  <2>1. PICK i \in Runners : Enqueue(i)
    BY <1>4
  <2>2. /\ UNCHANGED <<reports, status>> /\ Provisioned
        /\ encoded[i] # Idle /\ sent' = Append(sent, encoded[i])
    BY <2>1, EnqueueIs
  <2>3. encoded[i].ev.device = IdOfRunner(i)
    BY <2>2 DEF Core, InHand, DeviceMessage, Arisen, IdOfRunner
  <2>4. encoded[i].ev.device # NoDevice
    BY <1>t, <2>2, <2>3, AcceptedIs DEF Types
  <2> DEFINE m == encoded[i]
  <2>5. sent' = Append(sent, m) /\ m.ev.device # NoDevice
    BY <2>2, <2>4
  <2> HIDE DEF m
  <2> QED
    BY <1>t, <2>2, <2>5, OwnTimesKept
<1>5. CASE \E event \in {"heartbeat", "log"} : SelfReport(event)
  <2>1. PICK event \in {"heartbeat", "log"} : SelfReport(event)
    BY <1>5
  <2> DEFINE m == SelfMessage(event, reports + 1)
  <2>2. /\ sent' = Append(sent, m) /\ reports' = reports + 1 /\ status = "running"
        /\ status' = "running"
    BY <2>1 DEF SelfReport
  <2>3. m.ev.at = reports + 1 /\ m.ev.event \in {"heartbeat", "log"}
    <3>1. event \in SelfEvents
      BY DEF SelfEvents
    <3> QED
      BY <3>1, SelfMessageIs
  <2>4. m.ev.event # "stopping" /\ m.ev.event # "started"
    BY <2>3
  <2> HIDE DEF m
  <2> QED
    BY <1>t, <2>2, <2>3, <2>4, OwnTimesGrow
<1>6. CASE Restart
  <2> DEFINE m == SelfMessage("stopping", reports)
  <2>1. sent' = Append(sent, m) /\ reports' = reports + 1
    BY <1>6, <1>t, RestartIs
  <2>2. m.ev.at = reports /\ m.ev.event = "stopping"
    BY SelfMessageIs DEF SelfEvents
  <2> HIDE DEF m
  <2> QED
    BY <1>t, <2>1, <2>2, OwnTimesGrow
<1> QED
  BY <1>1, <1>2, <1>3, <1>4, <1>5, <1>6 DEF Next

-----------------------------------------------------------------------------
(* Events and what they are of.                                            *)

\* What each event may be of.
AboutIs(of, event) ==
  \/ of = "reachable" /\ event = "device-status-changed"
  \/ of = "mode" /\ event \in {"mode-changed", "operational-status-report"}
  \/ of = "plan" /\ event = "plan-changed"
  \/ of = "preemption" /\ event \in {"preemption-activated", "preemption-cleared"}
  \/ of = "detectors" /\ event = "detector-report"
  \/ of = "control" /\ event = "control-mode-changed"
  \/ of = "display" /\ event = "display-state-changed"
  \/ of = "face" /\ event = "message-changed"
  \/ of = "failure" /\ event = "message-activation-failed"
  \/ of = "environment" /\ event = "sign-status-report"
  \/ of = "cctvControl" /\ event = "cctv-control-mode-changed"
  \/ of \in {"tour1", "tour2"} /\ event = "cctv-tour-state-changed"
  \/ of = "lanes" /\ event = "traffic-interval-report"
  \/ of = "incident" /\ event \in {"zone-incident-detected", "zone-incident-cleared",
                                   "zone-incident-updated"}
  \/ of = "zones" /\ event \in {"zone-interval-report", "zone-occupancy-interval-report"}
  \/ of \in {"fault1", "fault2"} /\ event \in {"fault-raised", "fault-cleared"}

\* The things of the order, as a set.
Things == {"reachable", "mode", "plan", "preemption", "detectors", "control", "display",
           "face", "failure", "environment", "cctvControl", "tour1", "tour2", "lanes",
           "incident", "zones", "fault1", "fault2"}

\* That they are.
LEMMA OrderHolds == Range(Order) = Things
<1>1. \A j \in 1 .. 18 : Order[j] \in Things
  BY DEF Order, Things
<1>2. \A t \in Things : \E j \in 1 .. 18 : Order[j] = t
  BY DEF Order, Things
<1> QED
  BY <1>1, <1>2, OrderIs DEF Range

\* A report is of the thing that it reports.
LEMMA ReportIs ==
  ASSUME NEW of, NEW j \in DOMAIN ReportsOf(of)
  PROVE  AboutIs(of, ReportsOf(of)[j])
<1>1. CASE of = "mode"
  BY <1>1 DEF ReportsOf, AboutIs
<1>2. CASE of = "detectors"
  BY <1>2 DEF ReportsOf, AboutIs
<1>3. CASE of = "environment"
  BY <1>3 DEF ReportsOf, AboutIs
<1>4. CASE of = "lanes"
  BY <1>4 DEF ReportsOf, AboutIs
<1>5. CASE of = "zones"
  <2>1. ReportsOf(of) = <<"zone-interval-report", "zone-occupancy-interval-report">>
    BY <1>5 DEF ReportsOf
  <2>2. j = 1 \/ j = 2
    BY <2>1
  <2> QED
    BY <1>5, <2>1, <2>2 DEF AboutIs
<1>6. CASE of \notin {"mode", "detectors", "environment", "lanes", "zones"}
  <2>1. ReportsOf(of) = <<>>
    BY <1>6 DEF ReportsOf
  <2> QED
    BY <2>1
<1> QED
  BY <1>1, <1>2, <1>3, <1>4, <1>5, <1>6

\* A change is of the thing that changed.
LEMMA ChangeIs ==
  ASSUME NEW of \in Things \ OnlyReported, NEW from, NEW to
  PROVE  AboutIs(of, ChangeOf(of, from, to))
<1>1. CASE of \in {"reachable", "mode", "plan"}
  BY <1>1 DEF ChangeOf, AboutIs
<1>2. CASE of = "preemption"
  BY <1>2 DEF ChangeOf, AboutIs
<1>3. CASE of \in {"control", "display", "face"}
  BY <1>3 DEF ChangeOf, AboutIs
<1>4. CASE of \in {"failure", "cctvControl", "tour1", "tour2"}
  BY <1>4 DEF ChangeOf, AboutIs
<1>5. CASE of \in {"fault1", "fault2"}
  BY <1>5 DEF ChangeOf, AboutIs
<1>6. CASE of = "incident"
  BY <1>6 DEF ChangeOf, AboutIs
<1> QED
  BY <1>1, <1>2, <1>3, <1>4, <1>5, <1>6 DEF Things, OnlyReported

\* So an event is of what its kind is about.
LEMMA ArisenIs ==
  ASSUME NEW d, NEW ev, Arisen(d, ev)
  PROVE  AboutIs(ev.of, ev.event) /\ ev.of \in Things
<1>1. ev.of \in Things
  BY OrderHolds DEF Arisen
<1>2. CASE \E j \in DOMAIN ReportsOf(ev.of) : ev.event = ReportsOf(ev.of)[j]
  BY <1>1, <1>2, ReportIs
<1>3. CASE Telling(ev.of, ev.from, ev.to) /\ ev.event = ChangeOf(ev.of, ev.from, ev.to)
  BY <1>1, <1>3, ChangeIs DEF Telling
<1> QED
  BY <1>1, <1>2, <1>3 DEF Arisen

\* Two events of one kind are of one thing, but for faults and tours.
LEMMA SameThing ==
  ASSUME NEW x, NEW y, NEW event, AboutIs(x, event), AboutIs(y, event), x # y
  PROVE  event \in {"fault-raised", "fault-cleared", "cctv-tour-state-changed"}
  BY DEF AboutIs

\* What the wire calls each kind of event.
LEMMA WireEventIs ==
  ASSUME NEW e
  PROVE  /\ e \in {"control-mode-changed", "display-state-changed", "cctv-control-mode-changed"}
              => WireEvent(e) = "mode-changed"
         /\ e = "cctv-tour-state-changed" => WireEvent(e) = "tour-state-changed"
         /\ e = "plan-changed" => WireEvent(e) = "plan-applied"
         /\ e = "device-status-changed" => WireEvent(e) = "comm-health-event"
         /\ e \notin {"control-mode-changed", "display-state-changed",
                      "cctv-control-mode-changed", "cctv-tour-state-changed",
                      "plan-changed", "device-status-changed"} => WireEvent(e) = e
  BY DEF WireEvent

\* Two kinds of event that a device kind has share a name on the wire only if
\* they are the modes of a sign.
LEMMA SameName ==
  ASSUME NEW x, NEW y, NEW of, NEW up, AboutIs(of, x), AboutIs(up, y), x # y,
         NEW kind \in DOMAIN Served, x \in Served[kind], y \in Served[kind],
         WireEvent(x) = WireEvent(y)
  PROVE  \/ x = "control-mode-changed" /\ y = "display-state-changed"
         \/ x = "display-state-changed" /\ y = "control-mode-changed"
<1> DEFINE modes == {"mode-changed", "control-mode-changed", "display-state-changed",
                     "cctv-control-mode-changed"}
<1>1. x \in modes /\ y \in modes
  BY WireEventIs DEF AboutIs
<1>2. kind \in {"asc", "dms", "cctv", "traffic_sensor", "perception"}
  BY DEF Served
<1>3. CASE kind = "asc"
  <2>1. Served["asc"] \cap modes = {"mode-changed"}
    BY DEF Served
  <2> QED
    BY <1>1, <1>3, <2>1
<1>4. CASE kind = "dms"
  <2>1. Served["dms"] \cap modes = {"control-mode-changed", "display-state-changed"}
    BY DEF Served
  <2> QED
    BY <1>1, <1>4, <2>1
<1>5. CASE kind = "cctv"
  <2>1. Served["cctv"] \cap modes = {"cctv-control-mode-changed"}
    BY DEF Served
  <2> QED
    BY <1>1, <1>5, <2>1
<1>6. CASE kind \in {"traffic_sensor", "perception"}
  <2>1. Served["traffic_sensor"] \cap modes = {} /\ Served["perception"] \cap modes = {}
    BY DEF Served
  <2> QED
    BY <1>1, <1>6, <2>1
<1> QED
  BY <1>2, <1>3, <1>4, <1>5, <1>6

\* The payload of a change of mode has both identities.
LEMMA ModeBody ==
  ASSUME NEW ev, ev.event \in ModeEvents
  PROVE  /\ Body(ev) = ModeChangedBody(ev)
         /\ Body(ev).prior = ModeIdentity(ev.event, ev.from)
         /\ Body(ev).current = ModeIdentity(ev.event, ev.to)
<1>1. Body(ev) = ModeChangedBody(ev)
  BY DEF Body, ModeEvents
<1> QED
  BY <1>1 DEF ModeChangedBody

\* The payload of a fault has its id.
LEMMA FaultBody ==
  ASSUME NEW ev, ev.event \in {"fault-raised", "fault-cleared"}
  PROVE  Body(ev).fault_id = ev.of
<1>1. CASE ev.event = "fault-raised"
  <2>1. Body(ev) = FaultRaisedBody(ev)
    BY <1>1 DEF Body, ModeEvents
  <2> QED
    BY <2>1 DEF FaultRaisedBody
<1>2. CASE ev.event = "fault-cleared"
  <2>1. Body(ev) = FaultClearedBody(ev)
    BY <1>2 DEF Body, ModeEvents
  <2> QED
    BY <2>1 DEF FaultClearedBody
<1> QED
  BY <1>1, <1>2

\* The two modes of a sign have identities of different kinds.
LEMMA SignModes ==
  ASSUME NEW v, NEW w, ModeIdentity("control-mode-changed", v) # Unnamed
  PROVE  ModeIdentity("control-mode-changed", v) # ModeIdentity("display-state-changed", w)
<1>1. ModeIdentity("control-mode-changed", v) = DMSControlModeIdentity(v)
  BY DEF ModeIdentity
<1>2. ModeIdentity("display-state-changed", w) = <<"dms", "mode", w>>
  BY DEF ModeIdentity, DMSDisplayStateIdentity
<1>3. DMSControlModeIdentity(v) = <<"dms", "control", v>>
  BY <1>1 DEF DMSControlModeIdentity
<1>4. <<"dms", "control", v>>[2] = "control" /\ <<"dms", "mode", w>>[2] = "mode"
  OBVIOUS
<1> QED
  BY <1>1, <1>2, <1>3, <1>4

-----------------------------------------------------------------------------
(* Ids.                                                                    *)

\* Messages of one ce-type and one id are of one device, one poll and one
\* event of it.
LEMMA IdsApart ==
  ASSUME config \in Configs, Provisioned, NEW i \in Runners, NEW j \in Runners,
         NEW m, NEW e, DeviceMessage(config.devices[i], polls[i], m),
         DeviceMessage(config.devices[j], polls[j], e),
         m.ceType = e.ceType, CEId(m) = CEId(e)
  PROVE  i = j /\ m.ev.at = e.ev.at /\ Key(m.ev) = Key(e.ev)
<1>1. SourceOf(m) = SourceOf(e) /\ m.ev.at = e.ev.at /\ BodyOf(m) = BodyOf(e)
  <2> DEFINE a == <<SourceOf(m), m.ceType, m.ev.at, BodyOf(m)>>
             b == <<SourceOf(e), e.ceType, e.ev.at, BodyOf(e)>>
  <2>1. a = b
    BY DEF CEId, EventID, IdentityBytes
  <2>2. a[1] = b[1] /\ a[3] = b[3] /\ a[4] = b[4]
    <3> HIDE DEF a, b
    <3> QED
      BY <2>1
  <2> QED
    BY <2>2
<1>2. /\ m.ev.device = IdOfRunner(i) /\ m.ev.kind = KindOf(i)
      /\ e.ev.device = IdOfRunner(j) /\ e.ev.kind = KindOf(j)
      /\ AboutIs(m.ev.of, m.ev.event) /\ AboutIs(e.ev.of, e.ev.event)
  BY ArisenIs DEF DeviceMessage, Arisen, IdOfRunner, KindOf
<1>3. IdOfRunner(i) # <<>> /\ IdOfRunner(j) # <<>>
  BY AcceptedIs DEF NoDevice
<1>4. SourceOf(m)[2] = IdOfRunner(i) /\ SourceOf(e)[2] = IdOfRunner(j)
  BY <1>2, <1>3 DEF SourceOf, SourceFor
<1>5. i = j
  BY <1>1, <1>4, AcceptedIs
<1>6. CASE ByHealth(m) /\ ByHealth(e)
  <2>1. m.ev.event = e.ev.event /\ m.ev.event \in SelfEvents \cup {"device-status-changed"}
    BY <1>6, HealthBodyIs
  <2>2. m.ev.of = e.ev.of
    BY <1>2, <2>1, SameThing DEF SelfEvents
  <2> QED
    BY <1>1, <1>5, <2>1, <2>2 DEF Key
<1>7. CASE ByCatalog(m) /\ ByCatalog(e)
  <2>1. /\ Claimed(m.ev) /\ Claimed(e.ev)
        /\ Body(m.ev) = Body(e.ev)
        /\ m.ev.kind \in DOMAIN Served /\ m.ev.event \in Served[m.ev.kind]
        /\ e.ev.event \in Served[m.ev.kind]
        /\ WireEvent(m.ev.event) = WireEvent(e.ev.event)
    <3>1. /\ Claimed(m.ev) /\ Claimed(e.ev) /\ Body(m.ev) = Body(e.ev)
          /\ m.ceType = CETypeFor(m.ev.event, m.ev.kind)
          /\ e.ceType = CETypeFor(e.ev.event, e.ev.kind)
          /\ m.ev.kind = e.ev.kind
      BY <1>1, <1>2, <1>5, <1>7, BodyIs DEF ByCatalog
    <3>2. /\ CETypeFor(m.ev.event, m.ev.kind) # NoCEType
          /\ CETypeFor(e.ev.event, e.ev.kind) # NoCEType
      BY <3>1 DEF Claimed
    <3>3. /\ m.ev.kind \in DOMAIN Served /\ m.ev.event \in Served[m.ev.kind]
          /\ m.ceType.event = WireEvent(m.ev.event)
      BY <3>1, <3>2, CatalogIs
    <3>4. /\ e.ev.event \in Served[e.ev.kind]
          /\ e.ceType.event = WireEvent(e.ev.event)
      BY <3>1, <3>2, CatalogIs
    <3> QED
      BY <3>1, <3>3, <3>4
  <2>2. m.ev.event = e.ev.event
    <3> SUFFICES ASSUME m.ev.event # e.ev.event  PROVE FALSE
      OBVIOUS
    <3>1. \/ m.ev.event = "control-mode-changed" /\ e.ev.event = "display-state-changed"
          \/ m.ev.event = "display-state-changed" /\ e.ev.event = "control-mode-changed"
      BY <1>2, <2>1, SameName
    <3>2. m.ev.event \in ModeEvents /\ e.ev.event \in ModeEvents
      BY <3>1 DEF ModeEvents
    <3>3. ModeIdentity(m.ev.event, m.ev.to) = ModeIdentity(e.ev.event, e.ev.to)
      BY <2>1, <3>2, ModeBody
    <3>4. /\ ModeIdentity(m.ev.event, m.ev.to) # Unnamed
          /\ ModeIdentity(e.ev.event, e.ev.to) # Unnamed
      BY <2>1, <3>2 DEF Claimed, Declined
    <3>5. CASE m.ev.event = "control-mode-changed" /\ e.ev.event = "display-state-changed"
      BY <3>3, <3>4, <3>5, SignModes
    <3>6. CASE m.ev.event = "display-state-changed" /\ e.ev.event = "control-mode-changed"
      BY <3>3, <3>4, <3>6, SignModes
    <3> QED
      BY <3>1, <3>5, <3>6
  <2>3. m.ev.of = e.ev.of
    <3> SUFFICES ASSUME m.ev.of # e.ev.of  PROVE FALSE
      OBVIOUS
    <3>1. m.ev.event \in {"fault-raised", "fault-cleared", "cctv-tour-state-changed"}
      BY <1>2, <2>2, SameThing
    <3>2. CASE m.ev.event \in {"fault-raised", "fault-cleared"}
      BY <2>1, <2>2, <3>2, FaultBody
    <3>3. CASE m.ev.event = "cctv-tour-state-changed"
      <4>1. Body(m.ev) = TourBody(m.ev) /\ Body(e.ev) = TourBody(e.ev)
        BY <2>2, <3>3, TourBodyIs
      <4>2. TourBody(m.ev).tour_id = m.ev.of /\ TourBody(e.ev).tour_id = e.ev.of
        BY DEF TourBody
      <4> QED
        BY <2>1, <4>1, <4>2
    <3> QED
      BY <3>1, <3>2, <3>3
  <2> QED
    BY <1>1, <1>5, <2>2, <2>3 DEF Key
<1>8. CASE (ByHealth(m) /\ ByCatalog(e)) \/ (ByCatalog(m) /\ ByHealth(e))
  BY <1>8, BodyIs, HealthBodyIs
<1> QED
  BY <1>6, <1>7, <1>8 DEF DeviceMessage

\* An id has the time of its event.
LEMMA IdAt ==
  ASSUME NEW m, NEW e, CEId(m) = CEId(e)
  PROVE  m.ev.at = e.ev.at
<1> DEFINE a == <<SourceOf(m), m.ceType, m.ev.at, IdentityBytes(BodyOf(m))>>
           b == <<SourceOf(e), e.ceType, e.ev.at, IdentityBytes(BodyOf(e))>>
<1>1. a = b
  BY DEF CEId, EventID
<1>2. a[3] = b[3]
  <2> HIDE DEF a, b
  <2> QED
    BY <1>1
<1> QED
  BY <1>2

\* The collector's own messages share no ce-type with those of a device.
LEMMA OwnApart ==
  ASSUME NEW m, NEW e, NEW d, NEW n, OwnMessage(m), DeviceMessage(d, n, e)
  PROVE  m.ceType # e.ceType
<1>1. /\ m.ev.event \in SelfEvents /\ m.ceType.event = m.ev.event
      /\ m.ceType.namespace = "openits-collector"
  BY HealthBodyIs DEF OwnMessage
<1>2. CASE ByHealth(e)
  <2>1. AboutIs(e.ev.of, e.ev.event) /\ e.ceType.event = e.ev.event
    BY <1>2, ArisenIs, HealthBodyIs DEF DeviceMessage
  <2>2. e.ev.event \notin SelfEvents
    BY <2>1 DEF AboutIs, SelfEvents
  <2> QED
    BY <1>1, <2>1, <2>2
<1>3. CASE ByCatalog(e)
  BY <1>1, <1>3, BodyIs
<1> QED
  BY <1>2, <1>3 DEF DeviceMessage

\* The queue grows by a message with an id of its own.
LEMMA SwallowGrows ==
  ASSUME Types, NEW e, sent' = Append(sent, e),
         \A n \in 1 .. Len(sent) : sent[n].ceType = e.ceType => CEId(sent[n]) # CEId(e)
  PROVE  NothingSwallowed'
<1>1. /\ Len(sent') = Len(sent) + 1 /\ Len(sent) \in Nat
      /\ \A k \in 1 .. Len(sent) : sent'[k] = sent[k]
      /\ sent'[Len(sent) + 1] = e /\ Last(sent') = e
  BY AppendIs DEF Types
<1>2. 1 .. Len(sent') - 1 = 1 .. Len(sent)
  BY <1>1
<1> QED
  BY <1>1, <1>2 DEF NothingSwallowed, Newest, Earlier

\* What the collector says of itself has one, if it says it at a new time.
LEMMA SwallowOwn ==
  ASSUME Core, OwnTimes, NEW e, OwnMessage(e), sent' = Append(sent, e),
         \A n \in 1 .. Len(sent) :
            sent[n].ev.device = NoDevice /\ sent[n].ev.event = e.ev.event =>
              sent[n].ev.at # e.ev.at
  PROVE  NothingSwallowed'
<1>1. ASSUME NEW n \in 1 .. Len(sent), sent[n].ceType = e.ceType, CEId(sent[n]) = CEId(e)
      PROVE  FALSE
  <2>1. CASE OwnMessage(sent[n])
    <3>1. sent[n].ev.event = e.ev.event
      BY <1>1, <2>1, HealthBodyIs
    <3>2. sent[n].ev.at # e.ev.at
      BY <2>1, <3>1 DEF OwnMessage
    <3> QED
      BY <1>1, <3>2, IdAt
  <2>2. CASE \E i \in Runners : DeviceMessage(config.devices[i], polls[i], sent[n])
    BY <1>1, <2>2, OwnApart
  <2> QED
    BY <2>1, <2>2 DEF Core, InQueue
<1> QED
  BY <1>1, SwallowGrows DEF Core

\* At first there is no message.
LEMMA SwallowInit == Init => NothingSwallowed
  BY DEF Init, NothingSwallowed

\* No step queues a message with the id of another.
LEMMA SwallowStep == Core /\ Keys /\ OwnTimes /\ NothingSwallowed /\ [Next]_vars
                       => NothingSwallowed'
<1> SUFFICES ASSUME Core, Keys, OwnTimes, NothingSwallowed, [Next]_vars
             PROVE  NothingSwallowed'
  OBVIOUS
<1>t. Types /\ reports \in Nat
  BY DEF Core, Types
<1>1. CASE sent' = sent
  BY <1>1 DEF NothingSwallowed, Newest, Earlier
<1>2. CASE Boot
  <2> DEFINE e == SelfMessage("started", reports)
  <2>1. CASE sent' = Append(sent, e)
    <3>1. OwnMessage(e) /\ e.ev.at = reports /\ e.ev.event = "started"
      BY SelfMessageIs DEF SelfEvents
    <3>2. status = "off"
      BY <1>2, BootIs
    <3> HIDE DEF e
    <3>3. ASSUME NEW n \in 1 .. Len(sent), sent[n].ev.device = NoDevice,
                 sent[n].ev.event = e.ev.event
          PROVE  sent[n].ev.at # e.ev.at
      <4>1. sent[n].ev.at \in Nat /\ sent[n].ev.at < reports
        BY <3>1, <3>2, <3>3 DEF OwnTimes
      <4> QED
        BY <1>t, <3>1, <4>1
    <3> QED
      BY <2>1, <3>1, <3>3, SwallowOwn
  <2> QED
    BY <1>1, <1>2, <2>1, BootIs
<1>3. CASE \E i \in Runners : Enqueue(i)
  <2>1. PICK i \in Runners : Enqueue(i)
    BY <1>3
  <2> DEFINE e == encoded[i]
  <2>2. e # Idle /\ sent' = Append(sent, e) /\ status = "running" /\ Provisioned
    BY <2>1, EnqueueIs
  <2>3. DeviceMessage(config.devices[i], polls[i], e) /\ e.ev.at = polls[i]
    BY <2>2 DEF Core, InHand
  <2>4. \A n \in 1 .. Len(sent) :
          sent[n].ev.device = config.devices[i].id /\ sent[n].ev.at = polls[i] =>
            Key(sent[n].ev) # Key(e.ev)
    BY <2>2 DEF Keys, Fresh
  <2> HIDE DEF e
  <2>5. ASSUME NEW n \in 1 .. Len(sent), sent[n].ceType = e.ceType, CEId(sent[n]) = CEId(e)
        PROVE  FALSE
    <3>1. CASE OwnMessage(sent[n])
      BY <2>3, <2>5, <3>1, OwnApart
    <3>2. CASE \E j \in Runners : DeviceMessage(config.devices[j], polls[j], sent[n])
      <4>1. PICK j \in Runners : DeviceMessage(config.devices[j], polls[j], sent[n])
        BY <3>2
      <4> DEFINE m == sent[n]
      <4>2. DeviceMessage(config.devices[j], polls[j], m) /\ m.ceType = e.ceType
            /\ CEId(m) = CEId(e) /\ config \in Configs
        BY <1>t, <2>5, <4>1 DEF Types
      <4> HIDE DEF m
      <4>3. j = i /\ m.ev.at = e.ev.at /\ Key(m.ev) = Key(e.ev)
        BY <2>2, <2>3, <4>2, IdsApart
      <4>4. m.ev.device = config.devices[i].id
        BY <4>2, <4>3 DEF DeviceMessage, Arisen
      <4> QED
        BY <2>3, <2>4, <4>3, <4>4 DEF m
    <3> QED
      BY <3>1, <3>2 DEF Core, InQueue
  <2> QED
    BY <1>t, <2>2, <2>5, SwallowGrows
<1>4. CASE \E event \in {"heartbeat", "log"} : SelfReport(event)
  <2>1. PICK event \in {"heartbeat", "log"} : SelfReport(event)
    BY <1>4
  <2> DEFINE e == SelfMessage(event, reports + 1)
  <2>2. sent' = Append(sent, e)
    BY <2>1 DEF SelfReport
  <2>3. OwnMessage(e) /\ e.ev.at = reports + 1
    <3>1. event \in SelfEvents
      BY DEF SelfEvents
    <3> QED
      BY <3>1, SelfMessageIs
  <2> HIDE DEF e
  <2>4. ASSUME NEW n \in 1 .. Len(sent), sent[n].ev.device = NoDevice
        PROVE  sent[n].ev.at # e.ev.at
    <3>1. sent[n].ev.at \in Nat /\ sent[n].ev.at <= reports
      BY <2>4 DEF OwnTimes
    <3> QED
      BY <1>t, <2>3, <3>1
  <2> QED
    BY <2>2, <2>3, <2>4, SwallowOwn
<1>5. CASE Restart
  <2> DEFINE e == SelfMessage("stopping", reports)
  <2>1. sent' = Append(sent, e)
    BY <1>5, <1>t, RestartIs
  <2>2. OwnMessage(e) /\ e.ev.at = reports /\ e.ev.event = "stopping"
    BY SelfMessageIs DEF SelfEvents
  <2> HIDE DEF e
  <2>3. ASSUME NEW n \in 1 .. Len(sent), sent[n].ev.device = NoDevice,
               sent[n].ev.event = e.ev.event
        PROVE  sent[n].ev.at # e.ev.at
    <3>1. sent[n].ev.at \in Nat /\ sent[n].ev.at < reports
      BY <2>2, <2>3 DEF OwnTimes
    <3> QED
      BY <1>t, <2>2, <3>1
  <2> QED
    BY <2>1, <2>2, <2>3, SwallowOwn
<1> QED
  BY <1>1, <1>2, <1>3, <1>4, <1>5 DEF Next, Poll, Encode, vars

\* The broker swallows no message for another, as no two of one stream have
\* an id in common: not the reports of one poll, not the devices polled at
\* one time, not the two lives of a collector, whose numbers start again
\* (internal/cloudevents, emitter.go:49-61).
THEOREM SwallowedNever == Spec => []NothingSwallowed
<1>1. Init => Keys /\ OwnTimes /\ NothingSwallowed
  BY KeysInit, OwnTimesInit, SwallowInit
<1>2. Core /\ (Keys /\ OwnTimes /\ NothingSwallowed) /\ [Next]_vars
        => (Keys /\ OwnTimes /\ NothingSwallowed)'
  BY KeysStep, OwnTimesStep, SwallowStep
<1> QED
  BY <1>1, <1>2, CoreInvariance, PTL DEF Spec

-----------------------------------------------------------------------------
(* Numbers.                                                                *)

\* What became of number k of a device in this life.
Accounted(i, k) ==
  \/ <<lives, config.devices[i].id, k>> \in spoilt
  \/ \E n \in 1 .. Len(sent) : /\ sent[n].life = lives
                               /\ sent[n].ev.device = config.devices[i].id
                               /\ sent[n].sequence = k
  \/ encoded[i] # Idle /\ encoded[i].sequence = k

\* No number is drawn at first.
LEMMA NumbersInit == Init => Numbers
<1> SUFFICES ASSUME Init  PROVE Numbers
  OBVIOUS
<1>1. \A i \in Runners : seq[config.devices[i].id] = 0
  BY DEF Init, Unnumbered, Runners, DeviceIds
<1> QED
  BY <1>1 DEF Numbers

\* The queue grows, and what is in hand may go there.
LEMMA NumbersGrow ==
  ASSUME Core, Numbers, UNCHANGED <<config, seq, spoilt, lives>>,
         NEW m, sent' = Append(sent, m),
         \A i \in Runners : \/ encoded'[i] = encoded[i]
                            \/ encoded[i] = m /\ encoded[i].ev.device = config.devices[i].id
                               /\ encoded[i].life = lives
  PROVE  Numbers'
<1>1. /\ Len(sent') = Len(sent) + 1 /\ Len(sent) \in Nat
      /\ \A k \in 1 .. Len(sent) : sent'[k] = sent[k] /\ k \in 1 .. Len(sent')
      /\ sent'[Len(sent) + 1] = m /\ Len(sent) + 1 \in 1 .. Len(sent')
  BY AppendIs DEF Core, Types
<1>2. Runners' = Runners
  BY DEF Runners
<1>3. ASSUME NEW i \in Runners, NEW k \in 1 .. seq[config.devices[i].id]
      PROVE  Accounted(i, k)'
  <2>1. CASE <<lives, config.devices[i].id, k>> \in spoilt
    BY <2>1 DEF Accounted
  <2>2. CASE \E n \in 1 .. Len(sent) : /\ sent[n].life = lives
                                       /\ sent[n].ev.device = config.devices[i].id
                                       /\ sent[n].sequence = k
    BY <1>1, <2>2 DEF Accounted
  <2>3. CASE encoded[i] # Idle /\ encoded[i].sequence = k
    <3>1. CASE encoded'[i] = encoded[i]
      BY <2>3, <3>1 DEF Accounted
    <3>2. CASE encoded[i] = m /\ encoded[i].ev.device = config.devices[i].id
               /\ encoded[i].life = lives
      BY <1>1, <2>3, <3>2 DEF Accounted
    <3> QED
      BY <3>1, <3>2
  <2> QED
    BY <2>1, <2>2, <2>3 DEF Numbers
<1> QED
  BY <1>2, <1>3 DEF Numbers, Accounted

\* The number that is drawn is that of a failed encoding, or in hand.
LEMMA EncodeNumbers ==
  ASSUME Core, Numbers, NEW i \in Runners, Encode(i)
  PROVE  Numbers'
<1> DEFINE ev == batch[i][1]
<1>t. Types /\ InBatch /\ config \in Configs
  BY DEF Core, Types
<1>1. /\ UNCHANGED <<config, sent, lives>> /\ encoded[i] = Idle
      /\ \A j \in Runners \ {i} : encoded'[j] = encoded[j]
      /\ Draw(ev) /\ ev.device = IdOfRunner(i)
      /\ Failed(i, ev) \/ ForCatalog(i, ev) \/ ForHealth(i, ev) \/ Dropped(i, ev)
  BY <1>t, EncodeIs
<1>p. Provisioned
  BY <1>t DEF Core, Booted, Encode
<1> HIDE DEF ev
<1>2. Runners' = Runners /\ spoilt \subseteq spoilt'
  BY <1>1 DEF Runners, Failed, ForCatalog, ForHealth, Dropped
<1>3. \A j \in Runners :
        /\ seq[config.devices[j].id] \in Nat
        /\ seq'[config.devices[j].id] =
             IF Claimed(ev) /\ config.devices[j].id = config.devices[i].id
             THEN seq[config.devices[j].id] + 1 ELSE seq[config.devices[j].id]
  BY <1>1, <1>t, DrawIs DEF Types, IdOfRunner
<1>4. ASSUME NEW j \in Runners, NEW k \in 1 .. seq[config.devices[j].id]
      PROVE  Accounted(j, k)'
  <2>1. encoded[j] # Idle => encoded'[j] = encoded[j]
    BY <1>1
  <2> QED
    BY <1>1, <1>2, <2>1 DEF Numbers, Accounted
<1>5. ASSUME NEW j \in Runners, NEW k \in 1 .. seq'[config.devices[j].id],
             k \notin 1 .. seq[config.devices[j].id]
      PROVE  Accounted(j, k)'
  <2>1. /\ Claimed(ev) /\ config.devices[j].id = config.devices[i].id
        /\ k = seq[config.devices[j].id] + 1
    BY <1>3, <1>5
  <2>2. j = i
    BY <1>p, <1>t, <2>1, AcceptedIs DEF IdOfRunner
  <2>3. CASE Failed(i, ev)
    <3>1. <<lives, config.devices[i].id, k>> \in spoilt'
      BY <2>1, <2>2, <2>3 DEF Failed
    <3> QED
      BY <1>1, <2>2, <3>1 DEF Accounted
  <2>4. CASE ForCatalog(i, ev)
    <3>1. encoded'[i] # Idle /\ encoded'[i].sequence = k
      BY <2>1, <2>2, <2>4, MessageIs DEF ForCatalog
    <3> QED
      BY <2>2, <3>1 DEF Accounted
  <2> QED
    BY <1>1, <2>1, <2>3, <2>4 DEF ForHealth, Dropped
<1>6. \A j \in Runners : \A k \in 1 .. seq'[config.devices[j].id] : Accounted(j, k)'
  BY <1>4, <1>5
<1> QED
  BY <1>1, <1>2, <1>6 DEF Numbers, Accounted

\* So every step accounts for the numbers.
LEMMA NumbersStep == Core /\ Numbers /\ [Next]_vars => Numbers'
<1> SUFFICES ASSUME Core, Numbers, [Next]_vars  PROVE Numbers'
  OBVIOUS
<1>t. Types
  BY DEF Core
<1>1. CASE UNCHANGED <<config, seq, spoilt, lives, sent, encoded>>
  BY <1>1 DEF Numbers, Runners
<1>2. CASE Boot
  <2>1. CASE sent' = Append(sent, SelfMessage("started", reports))
    <3> DEFINE m == SelfMessage("started", reports)
    <3>1. sent' = Append(sent, m)
      BY <2>1
    <3>2. UNCHANGED <<config, seq, spoilt, lives, encoded>>
      BY <1>2, BootIs
    <3> HIDE DEF m
    <3> QED
      BY <3>1, <3>2, NumbersGrow
  <2> QED
    BY <1>1, <1>2, <2>1, BootIs
<1>3. CASE \E i \in Runners : \E c \in Readings[config.devices[i].kind] : Poll(i, c)
  BY <1>1, <1>3 DEF Poll
<1>4. CASE \E i \in Runners : Encode(i)
  BY <1>4, EncodeNumbers
<1>5. CASE \E i \in Runners : Enqueue(i)
  <2>1. PICK i \in Runners : Enqueue(i)
    BY <1>5
  <2> DEFINE m == encoded[i]
  <2>2. /\ UNCHANGED <<config, seq, spoilt, lives>>
        /\ m # Idle /\ sent' = Append(sent, m)
        /\ \A j \in Runners \ {i} : encoded'[j] = encoded[j]
    BY <2>1, EnqueueIs
  <2>3. m.ev.device = config.devices[i].id /\ m.life = lives
    BY <2>2 DEF Core, InHand, DeviceMessage, Arisen
  <2>4. \A j \in Runners : \/ encoded'[j] = encoded[j]
                           \/ encoded[j] = m /\ encoded[j].ev.device = config.devices[j].id
                              /\ encoded[j].life = lives
    BY <2>2, <2>3
  <2> HIDE DEF m
  <2> QED
    BY <2>2, <2>4, NumbersGrow
<1>6. CASE \E event \in {"heartbeat", "log"} : SelfReport(event)
  <2>1. PICK event \in {"heartbeat", "log"} : SelfReport(event)
    BY <1>6
  <2> DEFINE m == SelfMessage(event, reports + 1)
  <2>2. sent' = Append(sent, m) /\ UNCHANGED <<config, seq, spoilt, lives, encoded>>
    BY <2>1 DEF SelfReport
  <2> HIDE DEF m
  <2> QED
    BY <2>2, NumbersGrow
<1>7. CASE Restart
  <2>1. UNCHANGED config /\ \A i \in Runners : seq'[config.devices[i].id] = 0
    BY <1>7, <1>t, RestartIs
  <2>2. \A i \in Runners' : seq'[config'.devices[i].id] = 0
    BY <2>1 DEF Runners
  <2> QED
    BY <2>2 DEF Numbers
<1> QED
  BY <1>1, <1>2, <1>3, <1>4, <1>5, <1>6, <1>7 DEF Next, vars

\* At first there is no message.
LEMMA GapInit == Init => GapMeansLoss
  BY DEF Init, GapMeansLoss

\* What the collector says of itself has no number.
LEMMA GapOwn ==
  ASSUME Types, NEW m, sent' = Append(sent, m), m.sequence = 0
  PROVE  GapMeansLoss'
<1>1. Last(sent') = m
  BY AppendIs DEF Types
<1>2. 1 .. Last(sent').sequence - 1 = {}
  BY <1>1
<1> QED
  BY <1>2 DEF GapMeansLoss, Newest

\* A message that is queued has one, and all before it are accounted for: they
\* are not in hand, as it is.
LEMMA GapStep == Core /\ Numbers /\ GapMeansLoss /\ [Next]_vars => GapMeansLoss'
<1> SUFFICES ASSUME Core, Numbers, GapMeansLoss, [Next]_vars  PROVE GapMeansLoss'
  OBVIOUS
<1>t. Types
  BY DEF Core
<1>1. CASE sent' = sent /\ spoilt \subseteq spoilt'
  BY <1>1 DEF GapMeansLoss, Newest, Earlier
<1>2. CASE \E event \in SelfEvents : \E n : sent' = Append(sent, SelfMessage(event, n))
  <2>1. PICK event \in SelfEvents : \E n : sent' = Append(sent, SelfMessage(event, n))
    BY <1>2
  <2>p. PICK n : sent' = Append(sent, SelfMessage(event, n))
    BY <2>1
  <2> DEFINE m == SelfMessage(event, n)
  <2>2. sent' = Append(sent, m) /\ m.sequence = 0
    BY <2>p, SelfMessageIs
  <2> HIDE DEF m
  <2> QED
    BY <1>t, <2>2, GapOwn
<1>3. CASE \E i \in Runners : Enqueue(i)
  <2>1. PICK i \in Runners : Enqueue(i)
    BY <1>3
  <2> DEFINE m == encoded[i]
  <2>2. UNCHANGED spoilt /\ m # Idle /\ sent' = Append(sent, m)
    BY <2>1, EnqueueIs
  <2>3. /\ m.ev.device = config.devices[i].id /\ m.life = lives
        /\ m.sequence \in Nat /\ m.sequence <= seq[config.devices[i].id]
    BY <2>2 DEF Core, InHand, DeviceMessage, Arisen
  <2>4. seq[config.devices[i].id] \in Nat
    BY <1>t DEF Types, Runners, DeviceIds
  <2>5. ASSUME NEW k \in 1 .. m.sequence - 1
        PROVE  \/ <<lives, config.devices[i].id, k>> \in spoilt
               \/ \E n \in 1 .. Len(sent) : /\ sent[n].life = lives
                                            /\ sent[n].ev.device = config.devices[i].id
                                            /\ sent[n].sequence = k
    <3>1. k \in 1 .. seq[config.devices[i].id] /\ m.sequence # k
      <4> HIDE DEF m
      <4> QED
        BY <2>3, <2>4
    <3> QED
      BY <3>1 DEF Numbers
  <2> HIDE DEF m
  <2>6. /\ Len(sent') = Len(sent) + 1 /\ Len(sent) \in Nat
        /\ \A k \in 1 .. Len(sent) : sent'[k] = sent[k]
        /\ Last(sent') = m
    BY <1>t, <2>2, AppendIs DEF Types
  <2>7. 1 .. Len(sent') - 1 = 1 .. Len(sent)
    BY <2>6
  <2> QED
    BY <2>2, <2>3, <2>5, <2>6, <2>7 DEF GapMeansLoss, Newest, Earlier
<1>4. CASE \E i \in Runners : Encode(i)
  <2>1. sent' = sent /\ spoilt \subseteq spoilt'
    BY <1>4 DEF Encode
  <2> QED
    BY <1>1, <2>1
<1>5. CASE Boot
  BY <1>1, <1>2, <1>5, BootIs DEF SelfEvents
<1>6. CASE \E event \in {"heartbeat", "log"} : SelfReport(event)
  BY <1>2, <1>6 DEF SelfReport, SelfEvents
<1>7. CASE Restart
  BY <1>2, <1>7 DEF Restart, SelfEvents
<1> QED
  BY <1>1, <1>3, <1>4, <1>5, <1>6, <1>7 DEF Next, Poll, vars

\* A gap in the numbers of a device means a loss to its consumer: a number
\* that is not in the queue before is that of an encoding that failed, and
\* nothing that an emitter declined has one (emitter.go:49-61).
THEOREM GapIsLoss == Spec => []GapMeansLoss
<1>1. Init => Numbers /\ GapMeansLoss
  BY NumbersInit, GapInit
<1>2. Core /\ (Numbers /\ GapMeansLoss) /\ [Next]_vars => (Numbers /\ GapMeansLoss)'
  BY NumbersStep, GapStep
<1> QED
  BY <1>1, <1>2, CoreInvariance, PTL DEF Spec

-----------------------------------------------------------------------------
(* Every event is counted.                                                 *)

\* The batches are a function of the runners, and so a sequence.
Batches == batch = [i \in Runners |-> batch[i]]

\* They stay one.
LEMMA BatchesStep == Core /\ Batches /\ [Next]_vars => Batches'
<1> SUFFICES ASSUME Core, Batches, [Next]_vars  PROVE Batches'
  OBVIOUS
<1>1. CASE UNCHANGED <<config, batch>>
  BY <1>1 DEF Batches, Runners
<1>2. ASSUME UNCHANGED config, NEW i, NEW b, batch' = [batch EXCEPT ![i] = b]
      PROVE  Batches'
  <2>1. DOMAIN batch = Runners
    BY DEF Core, Types
  <2> QED
    BY <1>2, <2>1 DEF Batches, Runners
<1>3. CASE \E i \in Runners : \E c \in Readings[config.devices[i].kind] : Poll(i, c)
  BY <1>2, <1>3 DEF Poll
<1>4. CASE \E i \in Runners : Encode(i)
  <2>1. PICK i \in Runners : Encode(i)
    BY <1>4
  <2>2. UNCHANGED config /\ batch' = [batch EXCEPT ![i] = Tail(batch[i])]
    BY <2>1 DEF Encode
  <2> QED
    BY <1>2, <2>2
<1> QED
  BY <1>1, <1>3, <1>4 DEF Next, Boot, Enqueue, SelfReport, Restart, vars

\* The events that are with the runners, by the batches and in hand.
Held == Len(FlattenSeq(batch))

\* The runners that have a message in hand.
Hands == {i \in Runners : encoded[i] # Idle}

\* What is counted as lost, by reason.
Counts == [noEmitter : Nat, noSource : Nat, encodeErrors : Nat]

\* All of it.
Lost(counts) == counts.noEmitter + counts.noSource + counts.encodeErrors

\* What a total is the sum of.
Adds(total, queued, counts, held, hands) ==
  total = queued + counts.noEmitter + counts.noSource + counts.encodeErrors + held + hands

\* Sums of naturals.
LEMMA AddsIs ==
  ASSUME NEW total, NEW queued \in Nat, NEW counts \in Counts, NEW held \in Nat,
         NEW hands \in Nat
  PROVE  /\ Lost(counts) \in Nat
         /\ Adds(total, queued, counts, held, hands) <=>
              total = queued + Lost(counts) + held + hands
<1> DEFINE a == counts.noEmitter  b == counts.noSource  c == counts.encodeErrors
<1>1. a \in Nat /\ b \in Nat /\ c \in Nat
  BY DEF Counts
<1>2. Lost(counts) = a + b + c
  BY DEF Lost
<1>3. Adds(total, queued, counts, held, hands) <=> total = queued + a + b + c + held + hands
  BY DEF Adds
<1> HIDE DEF a, b, c
<1> QED
  BY <1>1, <1>2, <1>3

\* One more is lost, for one reason.
LEMMA LostMore ==
  ASSUME NEW counts \in Counts, NEW reason \in {"noEmitter", "noSource", "encodeErrors"},
         NEW new, new = [counts EXCEPT ![reason] = @ + 1]
  PROVE  new \in Counts /\ Lost(new) = Lost(counts) + 1
<1> DEFINE a == counts.noEmitter  b == counts.noSource  c == counts.encodeErrors
           d == new.noEmitter  e == new.noSource  f == new.encodeErrors
<1>1. a \in Nat /\ b \in Nat /\ c \in Nat /\ new \in Counts
  BY DEF Counts
<1>2. \/ d = a + 1 /\ e = b /\ f = c
      \/ d = a /\ e = b + 1 /\ f = c
      \/ d = a /\ e = b /\ f = c + 1
  BY DEF Counts
<1>3. Lost(counts) = a + b + c /\ Lost(new) = d + e + f
  BY DEF Lost
<1> HIDE DEF a, b, c, d, e, f
<1> QED
  BY <1>1, <1>2, <1>3

\* The property, in these terms.
LEMMA CountIs ==
  /\ EveryEventCounted <=> Adds(made, Len(sent), dropped, Held, Cardinality(Hands))
  /\ EveryEventCounted' <=> Adds(made', Len(sent'), dropped', Held', Cardinality(Hands'))
  BY DEF EveryEventCounted, Adds, Held, Hands

\* There are finitely many runners.
LEMMA HandsFinite ==
  ASSUME config \in Configs
  PROVE  IsFiniteSet(Runners) /\ \A S \in SUBSET Runners : IsFiniteSet(S) /\ Cardinality(S) \in Nat
<1>1. Runners = 1 .. Len(config.devices) /\ Len(config.devices) \in Nat
  BY RunnersAre
<1>2. IsFiniteSet(Runners)
  BY <1>1, FS_Interval
<1> QED
  BY <1>2, FS_Subset, FS_CardinalityType

\* The batches of all runners are a sequence of sequences.
LEMMA BatchesAre ==
  ASSUME config \in Configs, NEW b, b = [i \in Runners |-> b[i]],
         \A i \in Runners : Sequence(b[i]), NEW S, \A i \in Runners : Range(b[i]) \subseteq S
  PROVE  b \in Seq(Seq(S)) /\ Len(b) = Len(config.devices)
<1>1. Runners = 1 .. Len(config.devices) /\ Len(config.devices) \in Nat
  BY RunnersAre
<1>2. ASSUME NEW i \in Runners  PROVE b[i] \in Seq(S)
  <2> DEFINE t == b[i]
  <2>1. t \in Seq(Range(t)) /\ Range(t) \subseteq S
    BY DEF Sequence
  <2> HIDE DEF t
  <2>2. t \in Seq(S)
    BY <2>1
  <2> QED
    BY <2>2 DEF t
<1>3. b \in [1 .. Len(config.devices) -> Seq(S)]
  BY <1>1, <1>2
<1> QED
  BY <1>1, <1>3, FunctionIsSeq

\* A batch changes.
LEMMA HeldChange ==
  ASSUME Core, Batches, Batches', UNCHANGED config, NEW i \in Runners,
         \A j \in Runners : Sequence(batch'[j]),
         \A j \in Runners \ {i} : batch'[j] = batch[j]
  PROVE  /\ Held \in Nat /\ Held' \in Nat
         /\ Held' - Held = Len(batch'[i]) - Len(batch[i])
<1> DEFINE b == batch  c == batch'
           B == UNION {Range(b[j]) : j \in Runners}
           C == UNION {Range(c[j]) : j \in Runners}
           S == B \cup C
<1>1. /\ \A j \in Runners : Range(b[j]) \subseteq S
      /\ \A j \in Runners : Range(c[j]) \subseteq S
  <2> HIDE DEF b, c
  <2>1. \A j \in Runners : Range(b[j]) \subseteq B
    OBVIOUS
  <2>2. \A j \in Runners : Range(c[j]) \subseteq C
    OBVIOUS
  <2> HIDE DEF B, C
  <2> QED
    BY <2>1, <2>2
<1>2. /\ b = [j \in Runners |-> b[j]] /\ c = [j \in Runners |-> c[j]]
      /\ \A j \in Runners : Sequence(b[j]) /\ config \in Configs
      /\ \A j \in Runners : Sequence(c[j])
      /\ \A j \in Runners \ {i} : c[j] = b[j]
  BY DEF Core, Types, Batches, Runners
<1>3. Held = Len(FlattenSeq(b)) /\ Held' = Len(FlattenSeq(c))
  BY DEF Held
<1> HIDE DEF S, b, c
<1>4. b \in Seq(Seq(S)) /\ Len(b) = Len(config.devices)
  BY <1>1, <1>2, BatchesAre
<1>5. c \in Seq(Seq(S)) /\ Len(c) = Len(config.devices)
  BY <1>1, <1>2, BatchesAre
<1>6. i \in 1 .. Len(b) /\ \A j \in 1 .. Len(b) : j # i => Len(b[j]) = Len(c[j])
  BY <1>2, <1>4, RunnersAre
<1>7. /\ Len(FlattenSeq(b)) \in Nat /\ Len(FlattenSeq(c)) \in Nat
      /\ Len(FlattenSeq(c)) - Len(FlattenSeq(b)) = Len(c[i]) - Len(b[i])
  BY <1>4, <1>5, <1>6, FlattenLength
<1> QED
  BY <1>3, <1>7 DEF b, c

\* How many events the batches hold.
LEMMA HeldIs ==
  ASSUME Core, Batches
  PROVE  Held \in Nat
<1> DEFINE S == UNION {Range(batch[j]) : j \in Runners}
           b == batch
<1>1. \A j \in Runners : Range(b[j]) \subseteq S
  OBVIOUS
<1>2. b = [j \in Runners |-> b[j]] /\ \A j \in Runners : Sequence(b[j])
      /\ config \in Configs
  BY DEF Core, Types, Batches
<1>3. Held = Len(FlattenSeq(b))
  BY DEF Held
<1> HIDE DEF S, b
<1>4. b \in Seq(Seq(S))
  BY <1>1, <1>2, BatchesAre
<1>5. FlattenSeq(b) \in Seq(S)
  BY <1>4, FlattenPlaces
<1> QED
  BY <1>3, <1>5

\* At first there is nothing to count.
LEMMA CountInit == Init => Batches /\ EveryEventCounted
<1> SUFFICES ASSUME Init  PROVE Batches /\ EveryEventCounted
  OBVIOUS
<1>1. Batches
  BY DEF Init, Batches
<1>2. Core
  BY CoreInit
<1>3. Held = 0
  <2> DEFINE b == batch  S == {}
  <2>1. /\ b = [j \in Runners |-> b[j]] /\ \A j \in Runners : Sequence(b[j])
        /\ \A j \in Runners : b[j] = <<>>
        /\ config \in Configs
    BY <1>1, <1>2 DEF Core, Types, Batches, Init
  <2>2. \A j \in Runners : Range(b[j]) \subseteq S
    BY <2>1 DEF Range
  <2>3. Held = Len(FlattenSeq(b))
    BY DEF Held
  <2> HIDE DEF b, S
  <2>4. b \in Seq(Seq(S)) /\ Len(b) = Len(config.devices)
    BY <2>1, <2>2, BatchesAre
  <2>5. \A j \in 1 .. Len(b) : b[j] = <<>>
    BY <2>1, <2>4, RunnersAre
  <2>6. Len(FlattenSeq(b)) = 0
    BY <2>4, <2>5, FlattenEmpty
  <2> QED
    BY <2>3, <2>6
<1>4. Cardinality(Hands) = 0
  <2>1. Hands = {}
    BY DEF Init, Hands
  <2> QED
    BY <2>1, FS_EmptySet
<1>5. /\ made = 0 /\ Len(sent) = 0
      /\ dropped.noEmitter = 0 /\ dropped.noSource = 0 /\ dropped.encodeErrors = 0
  BY EmptySeq DEF Init
<1>6. EveryEventCounted
  BY <1>3, <1>4, <1>5, CountIs DEF Adds
<1> QED
  BY <1>1, <1>6

\* The queue has one more, and nothing else changes.
LEMMA CountOwn ==
  ASSUME Core, Batches, EveryEventCounted, NEW m, sent' = Append(sent, m), made' = made + 1,
         UNCHANGED <<config, batch, encoded, dropped>>
  PROVE  EveryEventCounted'
<1>1. Len(sent') = Len(sent) + 1 /\ Len(sent) \in Nat
  BY AppendIs DEF Core, Types
<1>2. Held' = Held /\ Hands' = Hands
  BY DEF Held, Hands, Runners
<1>3. Held \in Nat /\ Cardinality(Hands) \in Nat /\ made \in Nat
      /\ dropped \in Counts
  BY HandsFinite, HeldIs DEF Core, Types, Counts, Hands
<1> QED
  BY <1>1, <1>2, <1>3, CountIs, AddsIs

\* A poll adds what it makes to the batches.
LEMMA PollCount ==
  ASSUME Core, Batches, Batches', EveryEventCounted, NEW i \in Runners, NEW c, Poll(i, c)
  PROVE  EveryEventCounted'
<1>1. /\ UNCHANGED <<config, encoded, sent, dropped>> /\ batch[i] = <<>>
      /\ made' = made + Len(batch'[i])
      /\ \A j \in Runners \ {i} : batch'[j] = batch[j]
  BY PollIs DEF Core
<1>2. \A j \in Runners : Sequence(batch'[j])
  BY <1>1, PollCore DEF Core, Types, Runners
<1>3. /\ Held \in Nat /\ Held' \in Nat
      /\ Held' - Held = Len(batch'[i]) - Len(batch[i])
  BY <1>1, <1>2, HeldChange
<1>4. Len(batch[i]) = 0 /\ Len(batch'[i]) \in Nat
  BY <1>1, <1>2, EmptySeq, SequenceIs DEF Sequence
<1>5. Hands' = Hands
  BY <1>1 DEF Hands, Runners
<1>6. Cardinality(Hands) \in Nat /\ made \in Nat /\ Len(sent) \in Nat
      /\ dropped \in Counts
  BY HandsFinite, SequenceIs DEF Core, Types, Counts, Hands, Sequence
<1>7. made = Len(sent) + Lost(dropped) + Held + Cardinality(Hands) /\ Lost(dropped) \in Nat
  BY <1>3, <1>6, CountIs, AddsIs
<1>8. made' = Len(sent) + Lost(dropped) + Held' + Cardinality(Hands)
  BY <1>1, <1>3, <1>4, <1>6, <1>7
<1>9. Adds(made', Len(sent), dropped, Held', Cardinality(Hands))
  BY <1>3, <1>6, <1>8, AddsIs
<1> QED
  BY <1>1, <1>5, <1>9, CountIs

\* An event of a batch is taken in hand, or counted as lost.
LEMMA EncodeCount ==
  ASSUME Core, Batches, Batches', EveryEventCounted, NEW i \in Runners, Encode(i)
  PROVE  EveryEventCounted'
<1> DEFINE ev == batch[i][1]
<1>t. Types /\ InBatch /\ config \in Configs
  BY DEF Core, Types
<1>1. /\ UNCHANGED <<config, sent, made>> /\ batch[i] # <<>> /\ encoded[i] = Idle
      /\ batch'[i] = Tail(batch[i])
      /\ \A j \in Runners \ {i} : batch'[j] = batch[j] /\ encoded'[j] = encoded[j]
      /\ Failed(i, ev) \/ ForCatalog(i, ev) \/ ForHealth(i, ev) \/ Dropped(i, ev)
  BY <1>t, EncodeIs
<1> HIDE DEF ev
<1>2. \A j \in Runners : Sequence(batch'[j])
  BY <1>1, EncodeCore DEF Core, Types, Runners
<1>3. /\ Held \in Nat /\ Held' \in Nat
      /\ Held' - Held = Len(batch'[i]) - Len(batch[i])
  BY <1>1, <1>2, HeldChange
<1>4. Len(batch'[i]) = Len(batch[i]) - 1 /\ Len(batch[i]) \in Nat
  BY <1>1, <1>t, TailIs DEF Types
<1>5. Held' = Held - 1
  BY <1>3, <1>4
<1>6. Cardinality(Hands) \in Nat /\ made \in Nat /\ Len(sent) \in Nat
      /\ dropped \in Counts
  BY HandsFinite, SequenceIs DEF Core, Types, Counts, Hands, Sequence
<1>7. CASE Failed(i, ev) \/ Dropped(i, ev)
  <2>1. Hands' = Hands
    BY <1>1, <1>7 DEF Hands, Runners, Failed, Dropped
  <2>2. PICK reason \in {"noEmitter", "noSource", "encodeErrors"} :
          dropped' = [dropped EXCEPT ![reason] = @ + 1]
    BY <1>7 DEF Failed, Dropped
  <2>3. dropped' \in Counts /\ Lost(dropped') = Lost(dropped) + 1
    BY <1>6, <2>2, LostMore
  <2> QED
    BY <1>1, <1>3, <1>5, <1>6, <2>1, <2>3, CountIs, AddsIs
<1>8. CASE ForCatalog(i, ev) \/ ForHealth(i, ev)
  <2>1. encoded'[i] # Idle /\ UNCHANGED dropped
    BY <1>8, MessageIs DEF ForCatalog, ForHealth
  <2>2. Hands' = Hands \cup {i} /\ i \notin Hands
    BY <1>1, <2>1 DEF Hands, Runners
  <2>3. IsFiniteSet(Hands)
    BY <1>t, HandsFinite DEF Hands
  <2>4. Cardinality(Hands') = Cardinality(Hands) + 1
    BY <2>2, <2>3, FS_AddElement
  <2> QED
    BY <1>1, <1>3, <1>5, <1>6, <2>1, <2>4, CountIs, AddsIs
<1> QED
  BY <1>1, <1>7, <1>8

\* What was in hand is queued: the subject that it needs is one that boot has
\* rendered, so the branch of Enqueue that counts nothing is never taken.
LEMMA EnqueueCount ==
  ASSUME Core, Batches, EveryEventCounted, NEW i \in Runners, Enqueue(i)
  PROVE  EveryEventCounted'
<1>t. Types /\ config \in Configs
  BY DEF Core, Types
<1>1. /\ UNCHANGED <<config, batch, dropped, made>>
      /\ encoded[i] # Idle /\ sent' = Append(sent, encoded[i]) /\ encoded'[i] = Idle
      /\ \A j \in Runners \ {i} : encoded'[j] = encoded[j]
  BY EnqueueIs
<1>2. Len(sent') = Len(sent) + 1 /\ Len(sent) \in Nat
  BY <1>1, <1>t, AppendIs DEF Types
<1>3. Hands' = Hands \ {i} /\ i \in Hands
  BY <1>1 DEF Hands, Runners
<1>4. IsFiniteSet(Hands) /\ Cardinality(Hands) \in Nat
  BY <1>t, HandsFinite DEF Hands
<1>5. Cardinality(Hands') = Cardinality(Hands) - 1 /\ Cardinality(Hands') \in Nat
  BY <1>3, <1>4, FS_RemoveElement, FS_CardinalityType
<1>6. Held' = Held /\ Held \in Nat
  BY <1>1, HeldIs DEF Held
<1>7. made \in Nat /\ dropped \in Counts
  BY <1>t DEF Types, Counts
<1> QED
  BY <1>1, <1>2, <1>4, <1>5, <1>6, <1>7, CountIs, AddsIs

\* So every step keeps the count.
LEMMA CountStep ==
  Core /\ Batches /\ Batches' /\ EveryEventCounted /\ [Next]_vars => EveryEventCounted'
<1> SUFFICES ASSUME Core, Batches, Batches', EveryEventCounted, [Next]_vars
             PROVE  EveryEventCounted'
  OBVIOUS
<1>1. CASE UNCHANGED <<config, batch, encoded, dropped, made, sent>>
  BY <1>1 DEF EveryEventCounted, Runners
<1>2. CASE /\ UNCHANGED <<config, batch, encoded, dropped>> /\ made' = made + 1
           /\ \E m : sent' = Append(sent, m)
  BY <1>2, CountOwn
<1>3. CASE Boot
  BY <1>1, <1>2, <1>3, BootIs
<1>4. CASE \E i \in Runners : \E c \in Readings[config.devices[i].kind] : Poll(i, c)
  BY <1>4, PollCount
<1>5. CASE \E i \in Runners : Encode(i)
  BY <1>5, EncodeCount
<1>6. CASE \E i \in Runners : Enqueue(i)
  BY <1>6, EnqueueCount
<1>7. CASE \E event \in {"heartbeat", "log"} : SelfReport(event)
  BY <1>2, <1>7 DEF SelfReport
<1>8. CASE Restart
  BY <1>2, <1>8 DEF Restart
<1> QED
  BY <1>1, <1>3, <1>4, <1>5, <1>6, <1>7, <1>8 DEF Next, vars

\* Every event is queued, counted as lost or still with its runner, however
\* many devices there are: what encodeAndEnqueue drops without counting, a
\* subject that cannot be rendered, is what boot refuses
\* (app.go:125-140, 322-368).
THEOREM EveryEventIsCounted == Spec => []EveryEventCounted
<1>1. Core /\ (Batches /\ EveryEventCounted) /\ [Next]_vars => (Batches /\ EveryEventCounted)'
  BY BatchesStep, CountStep
<1> QED
  BY <1>1, CountInit, CoreInvariance, PTL DEF Spec

-----------------------------------------------------------------------------
(* Modes: each change starts from what was told last.                      *)

\* The event that tells of a change of the mode t.
ModeEvent(t) ==
  CASE t = "mode"    -> "mode-changed"
    [] t = "control" -> "control-mode-changed"
    [] t = "display" -> "display-state-changed"
    [] OTHER         -> "cctv-control-mode-changed"

\* What the wire calls a mode.
IdentityOf(t, v) == ModeIdentity(ModeEvent(t), v)

\* Events of a runner that were made and are not yet queued.
Pending(b, e) == {b[k] : k \in 1 .. Len(b)} \cup (IF e = Idle THEN {} ELSE {e.ev})

\* Those of them that tell of a change of mode t.
Changes(b, e, t) == {ev \in Pending(b, e) : ev.event = ModeEvent(t)}

\* Where a queue has what it tells last of a mode of device d.
LastTold(q, d, t, n) ==
  /\ q[n].ev.device = d /\ q[n].ev.event = ModeEvent(t)
  /\ \A h \in n + 1 .. Len(q) : ~ (q[h].ev.device = d /\ q[h].ev.event = ModeEvent(t))

\* The one place, if there is one, as a set.
LastPlaces(q, d, t) == {n \in 1 .. Len(q) : LastTold(q, d, t, n)}

\* What was told last, if anything was.
LastValues(q, d, t) == {IdentityOf(t, q[n].ev.to) : n \in LastPlaces(q, d, t)}

\* What was told last is what the mode is, or was before the change that is
\* still to be told, unless that cannot be named.
Link(p, t, changes, told) ==
  /\ t \in DOMAIN p => IdentityOf(t, p[t]) # BadText
  /\ \A ev \in changes : /\ t \in DOMAIN p /\ ev.to = p[t]
                         /\ IdentityOf(t, ev.from) # BadText
  /\ \A v \in told : /\ t \in DOMAIN p
                     /\ changes = {} => IdentityOf(t, p[t]) \in {Unnamed, v}
                     /\ \A ev \in changes : IdentityOf(t, ev.from) \in {Unnamed, v}

\* The invariant of modes.
Chain ==
  \A i \in Runners : \A t \in Modes :
    Link(prev[i], t, Changes(batch[i], encoded[i], t), LastValues(sent, config.devices[i].id, t))

\* What the tables of Emission and Wire say of modes.
LEMMA ModeEventIs ==
  ASSUME NEW t \in Modes
  PROVE  /\ \A v, w : ChangeOf(t, v, w) = ModeEvent(t)
         /\ ModeEvent(t) \in ModeEvents /\ HealthCEType(ModeEvent(t)) = NoCEType
         /\ ModeEvent(t) \notin SelfEvents
         /\ t \in Things \ OnlyReported
         /\ \A u : AboutIs(u, ModeEvent(t)) => u = t
         /\ \A j \in DOMAIN ReportsOf(t) : ReportsOf(t)[j] # ModeEvent(t)
         /\ \A v, w : v # w => Telling(t, v, w)
<1>1. CASE t = "mode"
  <2>1. ModeEvent(t) = "mode-changed"
    BY <1>1 DEF ModeEvent
  <2>2. ReportsOf(t) = <<"operational-status-report">>
    BY <1>1 DEF ReportsOf
  <2>3. \A v, w : ChangeOf(t, v, w) = "mode-changed"
    BY <1>1 DEF ChangeOf
  <2>4. HealthCEType("mode-changed") = NoCEType
    BY DEF HealthCEType
  <2> QED
    BY <1>1, <2>1, <2>2, <2>3, <2>4
    DEF ModeEvents, SelfEvents, Things, OnlyReported, AboutIs, Telling
<1>2. CASE t = "control"
  <2>1. ModeEvent(t) = "control-mode-changed"
    BY <1>2 DEF ModeEvent
  <2>2. ReportsOf(t) = <<>>
    BY <1>2 DEF ReportsOf
  <2>3. \A v, w : ChangeOf(t, v, w) = "control-mode-changed"
    BY <1>2 DEF ChangeOf
  <2>4. HealthCEType("control-mode-changed") = NoCEType
    BY DEF HealthCEType
  <2> QED
    BY <1>2, <2>1, <2>2, <2>3, <2>4
    DEF ModeEvents, SelfEvents, Things, OnlyReported, AboutIs, Telling
<1>3. CASE t = "display"
  <2>1. ModeEvent(t) = "display-state-changed"
    BY <1>3 DEF ModeEvent
  <2>2. ReportsOf(t) = <<>>
    BY <1>3 DEF ReportsOf
  <2>3. \A v, w : ChangeOf(t, v, w) = "display-state-changed"
    BY <1>3 DEF ChangeOf
  <2>4. HealthCEType("display-state-changed") = NoCEType
    BY DEF HealthCEType
  <2> QED
    BY <1>3, <2>1, <2>2, <2>3, <2>4
    DEF ModeEvents, SelfEvents, Things, OnlyReported, AboutIs, Telling
<1>4. CASE t = "cctvControl"
  <2>1. ModeEvent(t) = "cctv-control-mode-changed"
    BY <1>4 DEF ModeEvent
  <2>2. ReportsOf(t) = <<>>
    BY <1>4 DEF ReportsOf
  <2>3. \A v, w : ChangeOf(t, v, w) = "cctv-control-mode-changed"
    BY <1>4 DEF ChangeOf
  <2>4. HealthCEType("cctv-control-mode-changed") = NoCEType
    BY DEF HealthCEType
  <2> QED
    BY <1>4, <2>1, <2>2, <2>3, <2>4
    DEF ModeEvents, SelfEvents, Things, OnlyReported, AboutIs, Telling
<1> QED
  BY <1>1, <1>2, <1>3, <1>4 DEF Modes

\* Each event of that kind is of a mode.
LEMMA ModeOfEvent ==
  ASSUME NEW event \in ModeEvents
  PROVE  \E t \in Modes : event = ModeEvent(t)
<1>1. /\ ModeEvent("mode") = "mode-changed" /\ ModeEvent("control") = "control-mode-changed"
      /\ ModeEvent("display") = "display-state-changed"
      /\ ModeEvent("cctvControl") = "cctv-control-mode-changed"
  BY DEF ModeEvent
<1> QED
  BY <1>1 DEF Modes, ModeEvents

\* A change of mode that a device's poll made.
LEMMA ModeArisen ==
  ASSUME NEW d, NEW ev, Arisen(d, ev), NEW t \in Modes, ev.event = ModeEvent(t)
  PROVE  ev.of = t /\ Telling(t, ev.from, ev.to) /\ ev.kind = d.kind /\ ev.device = d.id
<1>1. ev.of = t
  BY ArisenIs, ModeEventIs
<1> QED
  BY <1>1, ModeEventIs DEF Arisen

\* A message that tells of one is its emitter's, and has the identity of the
\* mode that the event has.
LEMMA ModeMessage ==
  ASSUME NEW d, NEW n, NEW m, DeviceMessage(d, n, m), NEW t \in Modes,
         m.ev.event = ModeEvent(t)
  PROVE  /\ CETypeFor(ModeEvent(t), d.kind) # NoCEType
         /\ BodyOf(m).prior = IdentityOf(t, m.ev.from)
         /\ BodyOf(m).current = IdentityOf(t, m.ev.to)
<1>1. m.ev.kind = d.kind
  BY DEF DeviceMessage, Arisen
<1>2. ByCatalog(m)
  BY ModeEventIs DEF DeviceMessage, ByHealth
<1>3. BodyOf(m) = Body(m.ev) /\ CETypeFor(m.ev.event, m.ev.kind) # NoCEType
  BY <1>2, BodyIs
<1>4. m.ev.event \in ModeEvents
  BY ModeEventIs
<1> QED
  BY <1>1, <1>3, <1>4, ModeBody DEF IdentityOf

\* Fewer changes are still to be told, of a mode that nothing was told of or
\* that is now one that cannot be named.
LEMMA LinkLess ==
  ASSUME NEW p, NEW t, NEW C, NEW V, Link(p, t, C, V), NEW B \in SUBSET C,
         V = {} \/ (t \in DOMAIN p => IdentityOf(t, p[t]) = Unnamed)
  PROVE  Link(p, t, B, V)
  BY DEF Link

\* The change that is told is the only one.
LEMMA LinkTold ==
  ASSUME NEW p, NEW t, NEW C, NEW V, Link(p, t, C, V), NEW ev \in C
  PROVE  Link(p, t, {}, {IdentityOf(t, ev.to)})
  BY DEF Link

\* What else is queued does not change what was told last.
LEMMA LastStays ==
  ASSUME NEW q, Sequence(q), NEW m, NEW d, NEW t,
         ~ (m.ev.device = d /\ m.ev.event = ModeEvent(t))
  PROVE  LastValues(Append(q, m), d, t) = LastValues(q, d, t)
<1> DEFINE r == Append(q, m)
<1>1. /\ Len(r) = Len(q) + 1 /\ Len(q) \in Nat
      /\ \A k \in 1 .. Len(q) : r[k] = q[k]
      /\ r[Len(q) + 1] = m
  BY AppendIs
<1> HIDE DEF r
<1>2. ASSUME NEW n \in 1 .. Len(q)  PROVE LastTold(r, d, t, n) <=> LastTold(q, d, t, n)
  <2>1. n + 1 .. Len(r) = (n + 1 .. Len(q)) \cup {Len(q) + 1}
    BY <1>1
  <2>2. \A h \in n + 1 .. Len(q) : h \in 1 .. Len(q)
    BY <1>1
  <2> QED
    BY <1>1, <2>1, <2>2 DEF LastTold
<1>3. ~ LastTold(r, d, t, Len(q) + 1)
  BY <1>1 DEF LastTold
<1>4. LastPlaces(r, d, t) = LastPlaces(q, d, t)
  <2>1. 1 .. Len(r) = (1 .. Len(q)) \cup {Len(q) + 1}
    BY <1>1
  <2> QED
    BY <1>2, <1>3, <2>1 DEF LastPlaces
<1>5. \A n \in LastPlaces(q, d, t) : r[n] = q[n]
  BY <1>1 DEF LastPlaces
<1>6. LastValues(r, d, t) = LastValues(q, d, t)
  BY <1>4, <1>5 DEF LastValues
<1> QED
  BY <1>6 DEF r

\* What is told is what was told last.
LEMMA LastGrows ==
  ASSUME NEW q, Sequence(q), NEW m, NEW d, NEW t,
         m.ev.device = d, m.ev.event = ModeEvent(t)
  PROVE  LastValues(Append(q, m), d, t) = {IdentityOf(t, m.ev.to)}
<1> DEFINE r == Append(q, m)
<1>1. /\ Len(r) = Len(q) + 1 /\ Len(q) \in Nat /\ r[Len(q) + 1] = m
  BY AppendIs
<1> HIDE DEF r
<1>2. ASSUME NEW n \in 1 .. Len(q)  PROVE ~ LastTold(r, d, t, n)
  <2>1. Len(q) + 1 \in n + 1 .. Len(r)
    BY <1>1
  <2> QED
    BY <1>1, <2>1 DEF LastTold
<1>3. LastTold(r, d, t, Len(q) + 1)
  <2>1. (Len(q) + 1) + 1 .. Len(r) = {}
    BY <1>1
  <2> QED
    BY <1>1, <2>1 DEF LastTold
<1>4. LastPlaces(r, d, t) = {Len(q) + 1}
  <2>1. 1 .. Len(r) = (1 .. Len(q)) \cup {Len(q) + 1}
    BY <1>1
  <2> QED
    BY <1>2, <1>3, <2>1 DEF LastPlaces
<1>5. LastValues(r, d, t) = {IdentityOf(t, m.ev.to)}
  BY <1>1, <1>4 DEF LastValues
<1> QED
  BY <1>5 DEF r

\* At first nothing was told.
LEMMA ChainInit == Init => Chain
<1> SUFFICES ASSUME Init, NEW i \in Runners, NEW t \in Modes
             PROVE  Link(prev[i], t, Changes(batch[i], encoded[i], t),
                         LastValues(sent, config.devices[i].id, t))
  BY DEF Chain
<1>1. Len(<<>>) = 0
  BY EmptySeq
<1>2. Changes(batch[i], encoded[i], t) = {}
  BY <1>1 DEF Init, Changes, Pending
<1>3. LastValues(sent, config.devices[i].id, t) = {}
  BY <1>1 DEF Init, LastValues, LastPlaces
<1>4. t \notin DOMAIN prev[i]
  BY EmptySeq DEF Init
<1> QED
  BY <1>2, <1>3, <1>4 DEF Link

\* The collector speaks of itself.
LEMMA OwnChain ==
  ASSUME Core, Chain, config \in AcceptedConfigs, UNCHANGED <<config, batch, encoded>>,
         NEW m, m.ev.device = NoDevice, sent' = Append(sent, m),
         \A i \in Runners : /\ DOMAIN prev'[i] \ {"reachable"} = DOMAIN prev[i] \ {"reachable"}
                            /\ \A t \in DOMAIN prev'[i] : prev'[i][t] = prev[i][t]
  PROVE  Chain'
<1> SUFFICES ASSUME NEW i \in Runners, NEW t \in Modes
             PROVE  Link(prev'[i], t, Changes(batch[i], encoded[i], t),
                         LastValues(sent', config.devices[i].id, t))
  BY DEF Chain, Runners
<1>1. config.devices[i].id # NoDevice
  BY DEF AcceptedConfigs, Accepted, ValidConfig, Runners
<1>2. LastValues(sent', config.devices[i].id, t) = LastValues(sent, config.devices[i].id, t)
  BY <1>1, LastStays DEF Core, Types
<1>3. t # "reachable"
  BY DEF Modes
<1>4. /\ t \in DOMAIN prev'[i] <=> t \in DOMAIN prev[i]
      /\ t \in DOMAIN prev[i] => prev'[i][t] = prev[i][t]
  BY <1>3
<1>5. Link(prev[i], t, Changes(batch[i], encoded[i], t), LastValues(sent, config.devices[i].id, t))
  BY DEF Chain
<1> QED
  BY <1>2, <1>4, <1>5 DEF Link

\* A poll that finds the mode changed makes the one event that tells of it.
LEMMA PollChain ==
  ASSUME Core, Chain, NEW i \in Runners, NEW c \in Readings[config.devices[i].kind],
         Poll(i, c)
  PROVE  Chain'
<1>t. Types
  BY DEF Core
<1>1. /\ UNCHANGED <<config, encoded, sent>>
      /\ status = "running" /\ batch[i] = <<>> /\ encoded[i] = Idle
      /\ batch'[i] = EventsOfPoll(i, c) /\ prev'[i] = Remembered(prev[i], c)
      /\ \A j \in Runners \ {i} : batch'[j] = batch[j] /\ prev'[j] = prev[j]
  BY <1>t, PollIs
<1>2. Runners' = Runners /\ Provisioned /\ config \in Configs
  BY <1>1 DEF Runners, Core, Booted, Types
<1>3. config.devices[i].kind \in KnownKinds
  BY <1>2, AcceptedIs DEF KindOf
<1>4. /\ DOMAIN c \subseteq Range(Order)
      /\ \A t \in DOMAIN c \cap Modes : ModeOf(t, c[t]) # BadText
  BY <1>3, EmissionAssumption
<1> SUFFICES ASSUME NEW j \in Runners, NEW t \in Modes
             PROVE  Link(prev'[j], t, Changes(batch'[j], encoded[j], t),
                         LastValues(sent, config.devices[j].id, t))
  BY <1>1, <1>2 DEF Chain
<1>5. Link(prev[j], t, Changes(batch[j], encoded[j], t), LastValues(sent, config.devices[j].id, t))
  BY DEF Chain
<1>6. CASE j # i
  BY <1>1, <1>5, <1>6
<1>7. CASE j = i
  <2> DEFINE p == prev[i]  b == batch'[i]  V == LastValues(sent, config.devices[i].id, t)
             C == Changes(b, Idle, t)  was == Was(p, c, t)
  <2>1. Link(p, t, {}, V)
    <3>1. Changes(batch[i], encoded[i], t) = {}
      BY <1>1, EmptySeq DEF Changes, Pending
    <3> QED
      BY <1>5, <1>7, <3>1
  <2>2. /\ Sequence(b)
        /\ \A k \in 1 .. Len(b) : Tells(i, c, b[k])
        /\ t \in DOMAIN c => (Telling(t, was, c[t]) =>
             \E k \in 1 .. Len(b) : b[k].of = t /\ b[k].event = ChangeOf(t, was, c[t]))
    BY <1>1, <1>4, EventsOfPollIs
  <2>3. was = IF t \in DOMAIN p THEN p[t] ELSE c[t]
    BY DEF Was, Modes, Standing
  <2>4. prev'[i] = Remembered(p, c)
    BY <1>1
  <2>5. C = {ev \in {b[k] : k \in 1 .. Len(b)} : ev.event = ModeEvent(t)}
    BY DEF Changes, Pending
  <2> HIDE DEF p, b, V, C, was
  <2>6. ASSUME NEW ev \in C
        PROVE  t \in DOMAIN c /\ ev.from = was /\ ev.to = c[t] /\ was # c[t]
    <3>1. PICK k \in 1 .. Len(b) : ev = b[k] /\ ev.event = ModeEvent(t)
      BY <2>5
    <3>2. Tells(i, c, ev)
      BY <2>2, <3>1
    <3>3. Arisen(config.devices[i], ev)
      BY <3>2 DEF Tells, Told
    <3>4. ev.of = t /\ Telling(t, ev.from, ev.to)
      BY <3>1, <3>3, ModeArisen
    <3>5. t \in DOMAIN c /\ ev.from = was /\ ev.to = c[t]
      BY <3>2, <3>4 DEF Tells, Told, was, p
    <3> QED
      BY <3>4, <3>5 DEF Telling
  <2>7. CASE t \notin DOMAIN c
    <3>1. C = {}
      BY <2>6, <2>7
    <3>2. /\ t \in DOMAIN prev'[i] <=> t \in DOMAIN p
          /\ t \in DOMAIN p => prev'[i][t] = p[t]
      BY <2>4, <2>7 DEF Remembered
    <3> QED
      BY <1>1, <1>7, <2>1, <3>1, <3>2 DEF Link, C, V, b
  <2>8. CASE t \in DOMAIN c
    <3>1. t \in DOMAIN prev'[i] /\ prev'[i][t] = c[t]
      BY <2>4, <2>8 DEF Remembered
    <3>2. IdentityOf(t, c[t]) # BadText
      BY <1>4, <2>8, ModeEventIs DEF ModeOf, IdentityOf
    <3>3. IdentityOf(t, was) # BadText
      BY <2>1, <2>3, <3>2 DEF Link
    <3>4. \A v \in V : IdentityOf(t, was) \in {Unnamed, v}
      BY <2>1, <2>3 DEF Link
    <3>5. C = {} => was = c[t]
      <4> SUFFICES ASSUME was # c[t]  PROVE C # {}
        OBVIOUS
      <4>1. PICK k \in 1 .. Len(b) : b[k].event = ChangeOf(t, was, c[t])
        BY <2>2, <2>8, ModeEventIs
      <4>2. b[k].event = ModeEvent(t)
        BY <4>1, ModeEventIs
      <4> QED
        BY <2>5, <4>2
    <3>6. Link(prev'[i], t, C, V)
      BY <2>6, <3>1, <3>2, <3>3, <3>4, <3>5 DEF Link
    <3> QED
      BY <1>1, <1>7, <3>6 DEF C, V, b
  <2> QED
    BY <2>7, <2>8
<1> QED
  BY <1>6, <1>7

\* A change of mode that no one is told is of a device none of whose modes are
\* told, or leaves a mode that cannot be named.
LEMMA EncodeChain ==
  ASSUME Core, Chain, NEW i \in Runners, Encode(i)
  PROVE  Chain'
<1> DEFINE ev == batch[i][1]
<1>t. Types /\ InBatch /\ config \in Configs
  BY DEF Core, Types
<1>1. /\ UNCHANGED <<config, prev, sent, polls>>
      /\ batch[i] # <<>> /\ encoded[i] = Idle
      /\ Len(batch[i]) \in Nat \ {0} /\ Head(batch[i]) = ev
      /\ batch'[i] = Tail(batch[i])
      /\ \A j \in Runners \ {i} : batch'[j] = batch[j] /\ encoded'[j] = encoded[j]
      /\ Failed(i, ev) \/ ForCatalog(i, ev) \/ ForHealth(i, ev) \/ Dropped(i, ev)
  BY <1>t, EncodeIs
<1>2. Arisen(config.devices[i], ev)
  BY <1>1, <1>t DEF InBatch
<1> HIDE DEF ev
<1>3. Runners' = Runners /\ status = "running"
  BY <1>1 DEF Runners, Core, Booted
<1> SUFFICES ASSUME NEW j \in Runners, NEW t \in Modes
             PROVE  Link(prev[j], t, Changes(batch'[j], encoded'[j], t),
                         LastValues(sent, config.devices[j].id, t))
  BY <1>1, <1>3 DEF Chain
<1>4. Link(prev[j], t, Changes(batch[j], encoded[j], t), LastValues(sent, config.devices[j].id, t))
  BY DEF Chain
<1>5. CASE j # i
  BY <1>1, <1>4, <1>5
<1>6. CASE j = i
  <2> DEFINE b == batch[i]  e == encoded'[i]  p == prev[i]
             V == LastValues(sent, config.devices[i].id, t)
             A == Changes(b, Idle, t)  B == Changes(Tail(b), e, t)
  <2>1. Link(p, t, A, V)
    BY <1>1, <1>4, <1>6
  <2>2. Sequence(b) /\ b # <<>> /\ b[1] = ev
    BY <1>1, <1>t DEF Types, ev
  <2>3. e = Idle \/ e.ev = ev
    BY <1>1, MessageIs DEF Failed, ForCatalog, ForHealth, Dropped
  <2>4. A = {x \in {b[k] : k \in 1 .. Len(b)} : x.event = ModeEvent(t)}
    BY DEF Changes, Pending
  <2>5. B = {x \in {Tail(b)[k] : k \in 1 .. Len(Tail(b))} \cup (IF e = Idle THEN {} ELSE {e.ev}) :
               x.event = ModeEvent(t)}
    BY DEF Changes, Pending
  <2>m. encoded'[i] = e /\ batch'[i] = Tail(b)
    BY <1>1
  <2> HIDE DEF b, A, B, e
  <2>6. /\ Len(Tail(b)) = Len(b) - 1 /\ Len(b) \in Nat \ {0}
        /\ \A k \in 1 .. Len(b) - 1 : Tail(b)[k] = b[k + 1]
    BY <2>2, TailIs
  <2>7. B \subseteq A
    <3>1. \A k \in 1 .. Len(Tail(b)) : \E h \in 1 .. Len(b) : Tail(b)[k] = b[h]
      <4> SUFFICES ASSUME NEW k \in 1 .. Len(Tail(b))
                   PROVE  \E h \in 1 .. Len(b) : Tail(b)[k] = b[h]
        OBVIOUS
      <4>1. k + 1 \in 1 .. Len(b) /\ Tail(b)[k] = b[k + 1]
        BY <2>6
      <4> QED
        BY <4>1
    <3>2. \E h \in 1 .. Len(b) : ev = b[h]
      BY <2>2, <2>6
    <3> QED
      BY <2>3, <2>4, <2>5, <3>1, <3>2
  <2>8. A \subseteq B \cup {ev}
    <3> SUFFICES ASSUME NEW k \in 1 .. Len(b), b[k].event = ModeEvent(t)
                 PROVE  b[k] = ev \/ b[k] \in B
      BY <2>4
    <3>1. CASE k = 1
      BY <2>2, <3>1
    <3>2. CASE k # 1
      <4>1. k - 1 \in 1 .. Len(Tail(b)) /\ Tail(b)[k - 1] = b[k]
        BY <2>6, <3>2
      <4> QED
        BY <2>5, <4>1
    <3> QED
      BY <3>1, <3>2
  <2>9. CASE ev.event # ModeEvent(t)
    <3>1. A = B
      BY <2>4, <2>7, <2>8, <2>9
    <3> QED
      BY <1>6, <2>1, <2>m, <3>1 DEF B
  <2>10. CASE ev.event = ModeEvent(t)
    <3>1. ev \in A
      BY <2>2, <2>4, <2>6, <2>10
    <3>2. ev.kind = config.devices[i].kind /\ ev.event \in ModeEvents
      BY <1>2, <2>10, ModeArisen, ModeEventIs
    <3>3. CASE ForCatalog(i, ev) \/ ForHealth(i, ev)
      <4>1. e # Idle /\ e.ev = ev
        BY <3>3, <2>m, MessageIs DEF ForCatalog, ForHealth
      <4>2. A = B
        BY <2>5, <2>7, <2>8, <2>10, <4>1
      <4> QED
        BY <1>6, <2>1, <2>m, <4>2 DEF B
    <3>4. CASE Failed(i, ev)
      <4>1. /\ Body(ev) = ModeChangedBody(ev)
            /\ Body(ev).prior = IdentityOf(t, ev.from) /\ Body(ev).current = IdentityOf(t, ev.to)
        BY <2>10, <3>2, ModeBody DEF IdentityOf
      <4>2. DOMAIN Body(ev) = {"prior", "current"}
        BY <4>1 DEF ModeChangedBody
      <4>3. Body(ev).prior # BadText /\ Body(ev).current # BadText
        BY <2>1, <3>1, <4>1 DEF Link
      <4>4. Marshals(Body(ev))
        BY <4>2, <4>3 DEF Marshals
      <4> QED
        BY <3>4, <4>4 DEF Failed
    <3>5. CASE Dropped(i, ev)
      <4>1. V = {} \/ (t \in DOMAIN p => IdentityOf(t, p[t]) = Unnamed)
        <5>1. CASE CETypeFor(ev.event, ev.kind) = NoCEType
          <6>1. ASSUME NEW n \in LastPlaces(sent, config.devices[i].id, t)  PROVE FALSE
            <7>1. /\ n \in 1 .. Len(sent) /\ sent[n].ev.device = config.devices[i].id
                  /\ sent[n].ev.event = ModeEvent(t)
              BY <6>1 DEF LastPlaces, LastTold
            <7>2. DeviceMessage(config.devices[i], polls[i], sent[n])
              BY <1>3, <7>1, QueuedFor
            <7> QED
              BY <2>10, <3>2, <5>1, <7>1, <7>2, ModeMessage
          <6> QED
            BY <6>1 DEF LastValues
        <5>2. CASE CETypeFor(ev.event, ev.kind) # NoCEType
          <6>1. Declined(ev)
            BY <3>5, <5>2 DEF Dropped, Claimed
          <6>2. ModeIdentity(ev.event, ev.to) = Unnamed
            BY <3>2, <6>1 DEF Declined, ModeEvents
          <6> QED
            BY <2>1, <2>10, <3>1, <6>2 DEF Link, IdentityOf
        <5> QED
          BY <5>1, <5>2
      <4>2. Link(p, t, B, V)
        BY <2>1, <2>7, <4>1, LinkLess
      <4> QED
        BY <1>6, <2>m, <4>2 DEF B
    <3> QED
      BY <1>1, <3>3, <3>4, <3>5
  <2> QED
    BY <2>9, <2>10
<1> QED
  BY <1>5, <1>6

\* The event that is told is the only change of its mode.
LEMMA EnqueueChain ==
  ASSUME Core, Keys, Chain, NEW i \in Runners, Enqueue(i)
  PROVE  Chain'
<1> DEFINE m == encoded[i]
<1>t. Types /\ config \in Configs /\ Sequence(sent)
  BY DEF Core, Types
<1>1. /\ UNCHANGED <<config, prev, batch>>
      /\ m # Idle /\ sent' = Append(sent, m) /\ encoded'[i] = Idle
      /\ \A j \in Runners \ {i} : encoded'[j] = encoded[j]
      /\ Provisioned
  BY EnqueueIs
<1>2. Runners' = Runners /\ Arisen(config.devices[i], m.ev)
  BY <1>1 DEF Runners, Core, InHand, DeviceMessage
<1>m. encoded[i] = m
  OBVIOUS
<1> HIDE DEF m
<1> SUFFICES ASSUME NEW j \in Runners, NEW t \in Modes
             PROVE  Link(prev[j], t, Changes(batch[j], encoded'[j], t),
                         LastValues(sent', config.devices[j].id, t))
  BY <1>1, <1>2 DEF Chain
<1>3. Link(prev[j], t, Changes(batch[j], encoded[j], t), LastValues(sent, config.devices[j].id, t))
  BY DEF Chain
<1>4. CASE j # i
  <2>1. m.ev.device # config.devices[j].id
    BY <1>1, <1>2, <1>4, <1>t, AcceptedIs DEF Arisen, IdOfRunner
  <2>2. LastValues(sent', config.devices[j].id, t) = LastValues(sent, config.devices[j].id, t)
    BY <1>1, <1>t, <2>1, LastStays
  <2> QED
    BY <1>1, <1>3, <1>4, <2>2
<1>5. CASE j = i /\ m.ev.event # ModeEvent(t)
  <2>1. LastValues(sent', config.devices[j].id, t) = LastValues(sent, config.devices[j].id, t)
    BY <1>1, <1>t, <1>5, LastStays
  <2>2. Changes(batch[j], encoded'[j], t) = Changes(batch[j], encoded[j], t)
    BY <1>1, <1>5, <1>m DEF Changes, Pending
  <2> QED
    BY <1>3, <2>1, <2>2
<1>6. CASE j = i /\ m.ev.event = ModeEvent(t)
  <2>1. m.ev.device = config.devices[i].id /\ m.ev.of = t
    BY <1>2, <1>6, ModeArisen
  <2>2. LastValues(sent', config.devices[i].id, t) = {IdentityOf(t, m.ev.to)}
    <3>1. LastValues(Append(sent, m), m.ev.device, t) = {IdentityOf(t, m.ev.to)}
      BY <1>t, <1>6, LastGrows
    <3> QED
      BY <1>1, <2>1, <3>1
  <2>3. m.ev \in Changes(batch[i], encoded[i], t)
    BY <1>1, <1>6, <1>m DEF Changes, Pending
  <2>4. Changes(batch[i], encoded'[i], t) = {}
    <3> SUFFICES ASSUME NEW k \in 1 .. Len(batch[i]), batch[i][k].event = ModeEvent(t)
                 PROVE  FALSE
      BY <1>1 DEF Changes, Pending
    <3>1. Arisen(config.devices[i], batch[i][k])
      BY DEF Core, InBatch
    <3>2. batch[i][k].of = t
      BY <3>1, ModeArisen
    <3>3. Key(m.ev) = Key(batch[i][k])
      BY <1>6, <2>1, <3>2 DEF Key
    <3> QED
      BY <1>1, <1>m, <3>3 DEF Keys, Apart
  <2> QED
    BY <1>3, <1>6, <2>2, <2>3, <2>4, LinkTold
<1> QED
  BY <1>4, <1>5, <1>6

\* So every step keeps the chain.
LEMMA ChainStep == Core /\ Keys /\ Chain /\ [Next]_vars => Chain'
<1> SUFFICES ASSUME Core, Keys, Chain, [Next]_vars  PROVE Chain'
  OBVIOUS
<1>1. CASE UNCHANGED <<config, prev, batch, encoded, sent>>
  BY <1>1 DEF Chain, Runners
<1>2. CASE Boot
  <2>1. /\ UNCHANGED <<config, prev, batch, encoded>>
        /\ \/ Provisioned' /\ sent' = Append(sent, SelfMessage("started", reports))
           \/ UNCHANGED sent
    BY <1>2, BootIs
  <2>2. CASE Provisioned' /\ sent' = Append(sent, SelfMessage("started", reports))
    <3>1. config \in AcceptedConfigs
      BY <2>1, <2>2 DEF Provisioned
    <3>2. SelfMessage("started", reports).ev.device = NoDevice
      BY SelfMessageIs DEF SelfEvents, OwnMessage
    <3> QED
      BY <2>1, <2>2, <3>1, <3>2, OwnChain
  <2> QED
    BY <1>1, <2>1, <2>2
<1>3. CASE \E i \in Runners : \E c \in Readings[config.devices[i].kind] : Poll(i, c)
  BY <1>3, PollChain
<1>4. CASE \E i \in Runners : Encode(i)
  BY <1>4, EncodeChain
<1>5. CASE \E i \in Runners : Enqueue(i)
  BY <1>5, EnqueueChain
<1>6. CASE \E event \in {"heartbeat", "log"} : SelfReport(event)
  <2>1. PICK event \in {"heartbeat", "log"} : SelfReport(event)
    BY <1>6
  <2>2. /\ UNCHANGED <<config, prev, batch, encoded>> /\ status = "running"
        /\ sent' = Append(sent, SelfMessage(event, reports + 1))
    BY <2>1 DEF SelfReport
  <2>3. config \in AcceptedConfigs
    BY <2>2 DEF Core, Booted, Provisioned
  <2>4. SelfMessage(event, reports + 1).ev.device = NoDevice
    <3>1. event \in SelfEvents
      BY DEF SelfEvents
    <3> QED
      BY <3>1, SelfMessageIs DEF OwnMessage
  <2> QED
    BY <2>2, <2>3, <2>4, OwnChain
<1>7. CASE Restart
  <2>1. /\ UNCHANGED <<config, batch, encoded>> /\ status = "running"
        /\ sent' = Append(sent, SelfMessage("stopping", reports))
        /\ \A i \in Runners : /\ DOMAIN prev'[i] = DOMAIN prev[i] \ {"reachable"}
                              /\ \A t \in DOMAIN prev'[i] : prev'[i][t] = prev[i][t]
    BY <1>7, RestartIs DEF Core
  <2>2. config \in AcceptedConfigs
    BY <2>1 DEF Core, Booted, Provisioned
  <2>3. SelfMessage("stopping", reports).ev.device = NoDevice
    BY SelfMessageIs DEF SelfEvents, OwnMessage
  <2> QED
    BY <2>1, <2>2, <2>3, OwnChain
<1> QED
  BY <1>1, <1>2, <1>3, <1>4, <1>5, <1>6, <1>7 DEF Next, vars

\* A set of places of a queue has a last one.
LEMMA LastPlace ==
  ASSUME NEW n \in Nat, NEW S \in SUBSET (1 .. n), S # {}
  PROVE  Max(S) \in S /\ \A y \in S : Max(S) >= y
<1> DEFINE Has(k) == \A A \in SUBSET (1 .. k) : A # {} => \E x \in A : \A y \in A : x >= y
           T == {k \in Nat : Has(k)}
<1>1. 0 \in T
  <2>1. 1 .. 0 = {}
    OBVIOUS
  <2> QED
    BY <2>1
<1>2. ASSUME NEW k \in Nat, k \in T  PROVE k + 1 \in T
  <2> SUFFICES ASSUME NEW A \in SUBSET (1 .. k + 1), A # {}
               PROVE  \E x \in A : \A y \in A : x >= y
    OBVIOUS
  <2>1. CASE k + 1 \in A
    <3>1. \A y \in A : k + 1 >= y
      OBVIOUS
    <3> QED
      BY <2>1, <3>1
  <2>2. CASE k + 1 \notin A
    <3>1. \A y \in A : y \in 1 .. k
      BY <2>2
    <3>2. A \in SUBSET (1 .. k)
      BY <3>1
    <3>3. Has(k)
      BY <1>2
    <3> HIDE DEF T
    <3> QED
      BY <3>2, <3>3
  <2> QED
    BY <2>1, <2>2
<1>3. n \in T
  <2> HIDE DEF T
  <2> QED
    BY <1>1, <1>2, NatInd
<1>4. \E x \in S : \A y \in S : x >= y
  BY <1>3
<1> QED
  BY <1>4 DEF Max

\* At first there is no message.
LEMMA PriorInit == Init => PriorsChain
  BY DEF Init, PriorsChain

\* What is queued now has a prior that was told last.
LEMMA EnqueuePrior ==
  ASSUME Core, Chain, NEW i \in Runners, Enqueue(i)
  PROVE  PriorsChain'
<1> DEFINE m == encoded[i]
<1>t. Types /\ config \in Configs /\ Sequence(sent)
  BY DEF Core, Types
<1>1. m # Idle /\ sent' = Append(sent, m) /\ status = "running"
  BY EnqueueIs
<1>2. DeviceMessage(config.devices[i], polls[i], m)
  BY <1>1 DEF Core, InHand
<1>m. encoded[i] = m
  OBVIOUS
<1> HIDE DEF m
<1>3. /\ Len(sent') = Len(sent) + 1 /\ Len(sent) \in Nat
      /\ \A k \in 1 .. Len(sent) : sent'[k] = sent[k]
      /\ Last(sent') = m
  BY <1>1, <1>t, AppendIs
<1>4. 1 .. Len(sent') - 1 = 1 .. Len(sent)
  BY <1>3
<1> DEFINE told == {n \in 1 .. Len(sent) : /\ sent[n].ev.device = m.ev.device
                                           /\ sent[n].ev.event = m.ev.event}
<1>5. told = {n \in 1 .. Len(sent) : /\ sent'[n].ev.device = m.ev.device
                                     /\ sent'[n].ev.event = m.ev.event}
  BY <1>3
<1> SUFFICES ASSUME m.ev.event \in ModeEvents, BodyOf(m).prior # Unnamed, told # {}
             PROVE  BodyOf(sent'[Max(told)]).current = BodyOf(m).prior
  BY <1>3, <1>4, <1>5 DEF PriorsChain, Newest, Earlier
<1>6. PICK t \in Modes : m.ev.event = ModeEvent(t)
  BY ModeOfEvent
<1>7. m.ev.device = config.devices[i].id
  BY <1>2 DEF DeviceMessage, Arisen
<1>8. Max(told) \in told /\ \A y \in told : Max(told) >= y
  BY <1>3, LastPlace
<1> DEFINE n == Max(told)
<1>9. n \in 1 .. Len(sent) /\ sent[n].ev.device = m.ev.device /\ sent[n].ev.event = m.ev.event
      /\ \A y \in told : n >= y
  BY <1>8
<1> HIDE DEF n
<1>10. n \in LastPlaces(sent, config.devices[i].id, t)
  <2> SUFFICES ASSUME NEW h \in n + 1 .. Len(sent),
                      sent[h].ev.device = m.ev.device, sent[h].ev.event = m.ev.event
               PROVE  FALSE
    BY <1>6, <1>7, <1>9 DEF LastPlaces, LastTold
  <2>1. h \in told /\ ~ (n >= h)
    BY <1>3, <1>9
  <2> QED
    BY <1>9, <2>1
<1>11. Link(prev[i], t, Changes(batch[i], encoded[i], t),
            LastValues(sent, config.devices[i].id, t))
  BY DEF Chain
<1>12. m.ev \in Changes(batch[i], encoded[i], t)
  BY <1>1, <1>6, <1>m DEF Changes, Pending
<1>13. IdentityOf(t, m.ev.from) \in {Unnamed, IdentityOf(t, sent[n].ev.to)}
  BY <1>10, <1>11, <1>12 DEF Link, LastValues
<1>14. DeviceMessage(config.devices[i], polls[i], sent[n])
  BY <1>1, <1>7, <1>9, QueuedFor
<1>15. BodyOf(m).prior = IdentityOf(t, m.ev.from)
  BY <1>2, <1>6, ModeMessage
<1>16. BodyOf(sent[n]).current = IdentityOf(t, sent[n].ev.to)
  BY <1>6, <1>9, <1>14, ModeMessage
<1> QED
  BY <1>3, <1>9, <1>13, <1>15, <1>16 DEF n

\* And every message that tells of a mode continues it.
LEMMA PriorStep == Core /\ Chain /\ PriorsChain /\ [Next]_vars => PriorsChain'
<1> SUFFICES ASSUME Core, Chain, PriorsChain, [Next]_vars  PROVE PriorsChain'
  OBVIOUS
<1>1. CASE UNCHANGED sent
  BY <1>1 DEF PriorsChain, Newest, Earlier
<1>2. ASSUME NEW event \in SelfEvents, NEW n, sent' = Append(sent, SelfMessage(event, n))
      PROVE  PriorsChain'
  <2>1. Last(sent') = SelfMessage(event, n)
    BY <1>2, AppendIs DEF Core, Types
  <2>2. SelfMessage(event, n).ev.event \notin ModeEvents
    BY SelfMessageIs DEF SelfEvents, ModeEvents
  <2> QED
    BY <2>1, <2>2 DEF PriorsChain, Newest
<1>3. CASE Boot
  BY <1>1, <1>2, <1>3, BootIs DEF SelfEvents
<1>4. CASE \E i \in Runners : Enqueue(i)
  BY <1>4, EnqueuePrior
<1>5. CASE \E event \in {"heartbeat", "log"} : SelfReport(event)
  BY <1>2, <1>5 DEF SelfReport, SelfEvents
<1>6. CASE Restart
  BY <1>2, <1>6 DEF Restart, SelfEvents
<1> QED
  BY <1>1, <1>3, <1>4, <1>5, <1>6 DEF Next, Poll, Encode, vars

\* A change of mode starts from what its consumer was told last of that mode,
\* or does not say from where, through declined modes, failed encodings and
\* restarts (emitter.go:175-204, 337-344).
THEOREM PriorsAreChained == Spec => []PriorsChain
<1>1. (Keys /\ Chain) /\ Core /\ [Next]_vars => (Keys /\ Chain)'
  BY KeysStep, ChainStep
<1>2. Core /\ Chain /\ PriorsChain /\ [Next]_vars => PriorsChain'
  BY PriorStep
<1> QED
  BY <1>1, <1>2, KeysInit, ChainInit, PriorInit, CoreInvariance, PTL DEF Spec

-----------------------------------------------------------------------------
(* What was said last of a thing is what is known of it.                   *)

\* What a queue has of thing t of device d, of this life if it is whether the
\* device answers.
Said(q, d, t, life) ==
  {m \in 1 .. Len(q) : /\ q[m].ev.device = d /\ q[m].ev.of = t
                       /\ t = "reachable" => q[m].life = life}

\* What a thing is that nothing was said of.
Unsaid(t, v) == (t \in Standing => v = Absent) /\ (t = "reachable" => v = TRUE)

\* The last of those that are said, S of queue q, says v, if there are any.
SaysLast(q, S, t, v) ==
  /\ \A m \in S : (\A n \in S : n <= m) => q[m].ev.to = v
  /\ S = {} => Unsaid(t, v)

\* Of a thing that is known of a device: an event is still with the runner, or
\* the latest was lost, or a sign is not in error, or what was said last is
\* what is known.
Knows(i, t) ==
  \/ \E ev \in Pending(batch[i], encoded[i]) : ev.of = t
  \/ <<i, t>> \in untold
  \/ t = "failure" /\ prev[i][t] = Absent
  \/ SaysLast(sent, Said(sent, IdOfRunner(i), t, lives), t, prev[i][t])

\* Events that are still with the runner tell of what is known, and nothing
\* was said of what is not.
Current(i) ==
  /\ \A ev \in Pending(batch[i], encoded[i]) :
       ev.of \in DOMAIN prev[i] /\ ev.to = prev[i][ev.of]
  /\ \A t \in DOMAIN prev[i] : Knows(i, t)
  /\ \A t \in Range(Order) \ DOMAIN prev[i] : Said(sent, IdOfRunner(i), t, lives) = {}

\* No message is of a life to come.
Lived == \A n \in 1 .. Len(sent) : sent[n].life \in 0 .. lives

\* The invariant of what consumers know.
Informed == Lived /\ \A i \in Runners : Current(i)

\* What is queued of something else changes nothing.
LEMMA SaidStays ==
  ASSUME NEW q, Sequence(q), NEW m, NEW d, NEW t, NEW life,
         ~ (m.ev.device = d /\ m.ev.of = t)
  PROVE  /\ Said(Append(q, m), d, t, life) = Said(q, d, t, life)
         /\ \A v : SaysLast(q, Said(q, d, t, life), t, v) =>
                     SaysLast(Append(q, m), Said(q, d, t, life), t, v)
<1> DEFINE r == Append(q, m)
<1>1. /\ Len(r) = Len(q) + 1 /\ Len(q) \in Nat
      /\ \A k \in 1 .. Len(q) : r[k] = q[k]
      /\ r[Len(q) + 1] = m
  BY AppendIs
<1> HIDE DEF r
<1>2. 1 .. Len(r) = (1 .. Len(q)) \cup {Len(q) + 1}
  BY <1>1
<1>3. Said(r, d, t, life) = Said(q, d, t, life)
  BY <1>1, <1>2 DEF Said
<1>4. \A n \in Said(q, d, t, life) : r[n] = q[n]
  BY <1>1 DEF Said
<1> DEFINE S == Said(q, d, t, life)
<1>5. \A v : SaysLast(q, S, t, v) => SaysLast(r, S, t, v)
  <2> HIDE DEF S
  <2>1. \A n \in S : r[n] = q[n]
    BY <1>4 DEF S
  <2> QED
    BY <2>1 DEF SaysLast
<1> QED
  BY <1>3, <1>5 DEF r

\* What is queued of the thing is said last.
LEMMA SaidGrows ==
  ASSUME NEW q, Sequence(q), NEW m, NEW t
  PROVE  SaysLast(Append(q, m), Said(Append(q, m), m.ev.device, t, m.life), t, m.ev.to)
         \/ m.ev.of # t
<1> SUFFICES ASSUME m.ev.of = t
             PROVE  SaysLast(Append(q, m), Said(Append(q, m), m.ev.device, t, m.life), t, m.ev.to)
  OBVIOUS
<1> DEFINE r == Append(q, m)  S == Said(r, m.ev.device, t, m.life)
<1>1. Len(r) = Len(q) + 1 /\ Len(q) \in Nat /\ r[Len(q) + 1] = m
  BY AppendIs
<1> HIDE DEF r
<1>2. Len(q) + 1 \in S
  BY <1>1 DEF Said
<1>3. \A n \in S : n \in 1 .. Len(q) + 1
  BY <1>1 DEF Said
<1> HIDE DEF S
<1>4. ASSUME NEW n \in S, \A h \in S : h <= n  PROVE r[n].ev.to = m.ev.to
  <2>1. Len(q) + 1 <= n /\ n \in 1 .. Len(q) + 1
    BY <1>2, <1>3, <1>4
  <2>2. n = Len(q) + 1
    BY <1>1, <2>1
  <2> QED
    BY <1>1, <2>2
<1> QED
  BY <1>2, <1>4 DEF SaysLast, S, r

\* At first nothing is known and nothing was said.
LEMMA InformedInit == Init => Informed
<1> SUFFICES ASSUME Init  PROVE Informed
  OBVIOUS
<1>1. Len(<<>>) = 0 /\ DOMAIN <<>> = {}
  BY EmptySeq
<1>2. \A i \in Runners : Pending(batch[i], encoded[i]) = {}
  BY <1>1 DEF Init, Pending
<1>3. \A i \in Runners : prev[i] = <<>>
  BY DEF Init
<1>4. \A d, t : Said(sent, d, t, lives) = {}
  BY <1>1 DEF Init, Said
<1>5. Lived
  BY <1>1 DEF Init, Lived
<1> QED
  BY <1>1, <1>2, <1>3, <1>4, <1>5 DEF Informed, Current

\* The collector speaks of itself.
LEMMA OwnInformed ==
  ASSUME Core, Informed, config \in AcceptedConfigs,
         UNCHANGED <<config, prev, batch, encoded, untold, lives>>,
         NEW m, m.ev.device = NoDevice, m.life = lives, sent' = Append(sent, m)
  PROVE  Informed'
<1>1. /\ Len(sent') = Len(sent) + 1 /\ Len(sent) \in Nat
      /\ \A k \in 1 .. Len(sent) : sent'[k] = sent[k]
      /\ sent'[Len(sent) + 1] = m /\ lives \in Nat
  BY AppendIs DEF Core, Types
<1>2. Lived'
  <2>1. 1 .. Len(sent') = (1 .. Len(sent)) \cup {Len(sent) + 1}
    BY <1>1
  <2> QED
    BY <1>1, <2>1 DEF Informed, Lived
<1> SUFFICES ASSUME NEW i \in Runners  PROVE Current(i)'
  BY <1>2 DEF Informed, Runners
<1>3. IdOfRunner(i) # NoDevice /\ IdOfRunner(i)' = IdOfRunner(i)
  BY DEF AcceptedConfigs, Accepted, ValidConfig, Runners, IdOfRunner
<1> DEFINE S(t) == Said(sent, IdOfRunner(i), t, lives)
<1>4. ASSUME NEW t
      PROVE  /\ Said(sent', IdOfRunner(i), t, lives) = S(t)
             /\ \A v : SaysLast(sent, S(t), t, v) => SaysLast(sent', S(t), t, v)
  BY <1>3, SaidStays DEF Core, Types
<1>5. Current(i)
  BY DEF Informed
<1>6. ASSUME NEW t \in DOMAIN prev[i]  PROVE Knows(i, t)'
  <2>1. Knows(i, t)
    BY <1>5 DEF Current
  <2> QED
    BY <1>3, <1>4, <2>1 DEF Knows
<1> QED
  BY <1>3, <1>4, <1>5, <1>6 DEF Current

\* A device that was polled: what was read is told of, or is as it was known,
\* or as it is taken to be of what was never read.
LEMMA PollInformed ==
  ASSUME Core, Informed, NEW i \in Runners, NEW c \in Readings[config.devices[i].kind],
         Poll(i, c)
  PROVE  Informed'
<1>t. Types
  BY DEF Core
<1>1. /\ UNCHANGED <<config, encoded, sent, untold, lives>>
      /\ status = "running" /\ batch[i] = <<>> /\ encoded[i] = Idle
      /\ batch'[i] = EventsOfPoll(i, c) /\ prev'[i] = Remembered(prev[i], c)
      /\ \A j \in Runners \ {i} : batch'[j] = batch[j] /\ prev'[j] = prev[j]
  BY <1>t, PollIs
<1>2. /\ Runners' = Runners /\ Provisioned /\ config \in Configs
      /\ \A j \in Runners : IdOfRunner(j)' = IdOfRunner(j)
  BY <1>1 DEF Runners, Core, Booted, Types, IdOfRunner
<1>3. DOMAIN c \subseteq Range(Order)
  <2>1. config.devices[i].kind \in KnownKinds
    BY <1>2, AcceptedIs DEF KindOf
  <2> QED
    BY <2>1, EmissionAssumption
<1>4. Lived'
  BY <1>1 DEF Informed, Lived
<1> SUFFICES ASSUME NEW j \in Runners  PROVE Current(j)'
  BY <1>2, <1>4 DEF Informed
<1>5. Current(j)
  BY DEF Informed
<1>6. CASE j # i
  BY <1>1, <1>2, <1>5, <1>6 DEF Current, Knows
<1>7. CASE j = i
  <2> DEFINE p == prev[i]  b == batch'[i]  d == IdOfRunner(i)
             S(t) == Said(sent, d, t, lives)
  <2>1. /\ \A k \in 1 .. Len(b) : Tells(i, c, b[k])
        /\ \A t \in DOMAIN c \cap Range(Order) : Telling(t, Was(p, c, t), c[t]) =>
             \E k \in 1 .. Len(b) : b[k].of = t
        /\ \A t \in DOMAIN c \cap OnlyReported : \E k \in 1 .. Len(b) : b[k].of = t
    BY <1>1, EventsOfPollIs
  <2>2. /\ DOMAIN prev'[i] = DOMAIN c \cup DOMAIN p
        /\ \A t \in DOMAIN c : prev'[i][t] = c[t]
        /\ \A t \in DOMAIN p \ DOMAIN c : prev'[i][t] = p[t]
    BY <1>1 DEF Remembered
  <2>3. Pending(batch'[i], encoded'[i]) = {b[k] : k \in 1 .. Len(b)}
    BY <1>1 DEF Pending
  <2>4. Pending(batch[i], encoded[i]) = {}
    BY <1>1, EmptySeq DEF Pending
  <2>5. \A t \in DOMAIN p : \/ <<i, t>> \in untold
                            \/ t = "failure" /\ p[t] = Absent
                            \/ SaysLast(sent, S(t), t, p[t])
    BY <1>5, <1>7, <2>4 DEF Current, Knows
  <2>6. \A t \in Range(Order) \ DOMAIN p : S(t) = {}
    BY <1>5, <1>7 DEF Current
  <2>7. d' = d /\ sent' = sent /\ lives' = lives /\ untold' = untold
    BY <1>1, <1>2
  <2> HIDE DEF p, b, d
  <2>8. ASSUME NEW ev \in {b[k] : k \in 1 .. Len(b)}
        PROVE  ev.of \in DOMAIN prev'[i] /\ ev.to = prev'[i][ev.of]
    BY <2>1, <2>2 DEF Tells, Told
  <2>9. ASSUME NEW t \in DOMAIN c, \A k \in 1 .. Len(b) : b[k].of # t
        PROVE  \/ <<i, t>> \in untold
               \/ t = "failure" /\ c[t] = Absent
               \/ SaysLast(sent, S(t), t, c[t])
    <3>1. ~ Telling(t, Was(p, c, t), c[t]) /\ t \notin OnlyReported /\ t \in Range(Order)
      BY <1>3, <2>1, <2>9
    <3>2. Was(p, c, t) = c[t] \/ (t = "failure" /\ c[t] = Absent)
      BY <3>1 DEF Telling
    <3>3. CASE t \in DOMAIN p /\ Was(p, c, t) = c[t]
      <4>1. p[t] = c[t]
        BY <3>3 DEF Was
      <4> QED
        BY <2>5, <3>3, <4>1
    <3>4. CASE t \notin DOMAIN p /\ Was(p, c, t) = c[t]
      <4>1. S(t) = {}
        BY <2>6, <3>1, <3>4
      <4>2. Unsaid(t, c[t])
        BY <3>4 DEF Was, Unsaid, Standing
      <4> QED
        BY <4>1, <4>2 DEF SaysLast
    <3> QED
      BY <3>2, <3>3, <3>4
  <2>10. ASSUME NEW t \in DOMAIN prev'[i]  PROVE Knows(i, t)'
    <3>1. CASE \E k \in 1 .. Len(b) : b[k].of = t
      <4>1. \E ev \in Pending(batch'[i], encoded'[i]) : ev.of = t
        BY <2>3, <3>1
      <4> QED
        BY <4>1 DEF Knows
    <3>2. CASE \A k \in 1 .. Len(b) : b[k].of # t
      <4>1. \/ <<i, t>> \in untold
            \/ t = "failure" /\ prev'[i][t] = Absent
            \/ SaysLast(sent, S(t), t, prev'[i][t])
        BY <2>2, <2>5, <2>9, <3>2
      <4> QED
        BY <2>7, <4>1 DEF Knows, d
    <3> QED
      BY <3>1, <3>2
  <2>11. \A t \in Range(Order) \ DOMAIN prev'[i] : Said(sent', d', t, lives') = {}
    BY <2>2, <2>6, <2>7
  <2> QED
    BY <1>7, <2>3, <2>8, <2>10, <2>11 DEF Current, d
<1> QED
  BY <1>6, <1>7

\* An event that is encoded is in hand, and one that is not is noted as lost.
LEMMA EncodeInformed ==
  ASSUME Core, Informed, NEW i \in Runners, Encode(i)
  PROVE  Informed'
<1> DEFINE ev == batch[i][1]
<1>t. Types /\ InBatch
  BY DEF Core, Types
<1>1. /\ UNCHANGED <<config, prev, sent, lives>>
      /\ batch[i] # <<>> /\ encoded[i] = Idle
      /\ Len(batch[i]) \in Nat \ {0} /\ Head(batch[i]) = ev
      /\ batch'[i] = Tail(batch[i])
      /\ \A j \in Runners \ {i} : batch'[j] = batch[j] /\ encoded'[j] = encoded[j]
      /\ Failed(i, ev) \/ ForCatalog(i, ev) \/ ForHealth(i, ev) \/ Dropped(i, ev)
      /\ untold' = IF encoded'[i] = Idle THEN untold \cup {<<i, ev.of>>}
                                         ELSE untold \ {<<i, ev.of>>}
  BY <1>t, EncodeIs
<1>2. /\ Runners' = Runners /\ \A j \in Runners : IdOfRunner(j)' = IdOfRunner(j)
      /\ Lived'
  BY <1>1 DEF Runners, IdOfRunner, Informed, Lived
<1>3. /\ \A k \in 1 .. Len(batch[i]) - 1 : Tail(batch[i])[k] = batch[i][k + 1]
      /\ Len(Tail(batch[i])) = Len(batch[i]) - 1
  BY <1>1, <1>t, TailIs DEF Types
<1>4. encoded'[i] = Idle \/ encoded'[i].ev = ev
  BY <1>1, MessageIs DEF Failed, ForCatalog, ForHealth, Dropped
<1> DEFINE A == Pending(batch[i], encoded[i])  B == Pending(batch'[i], encoded'[i])
<1>5. A = {batch[i][k] : k \in 1 .. Len(batch[i])}
  BY <1>1 DEF Pending
<1>6. B = {Tail(batch[i])[k] : k \in 1 .. Len(Tail(batch[i]))}
            \cup (IF encoded'[i] = Idle THEN {} ELSE {encoded'[i].ev})
  BY <1>1 DEF Pending
<1>7. B \subseteq A
  <2>1. \A k \in 1 .. Len(Tail(batch[i])) :
          k + 1 \in 1 .. Len(batch[i]) /\ Tail(batch[i])[k] = batch[i][k + 1]
    BY <1>1, <1>3
  <2>2. 1 \in 1 .. Len(batch[i])
    BY <1>1
  <2> HIDE DEF A, B
  <2> QED
    BY <1>4, <1>5, <1>6, <2>1, <2>2
<1>8. A \subseteq B \cup {ev}
  <2> SUFFICES ASSUME NEW k \in 1 .. Len(batch[i]), k # 1  PROVE batch[i][k] \in B
    BY <1>5
  <2>1. k - 1 \in 1 .. Len(Tail(batch[i])) /\ Tail(batch[i])[k - 1] = batch[i][k]
    BY <1>1, <1>3
  <2> HIDE DEF B
  <2> QED
    BY <1>6, <2>1
<1>9. encoded'[i] # Idle => ev \in B
  <2> HIDE DEF B, ev
  <2> QED
    BY <1>4, <1>6
<1> HIDE DEF ev
<1> SUFFICES ASSUME NEW j \in Runners  PROVE Current(j)'
  BY <1>2 DEF Informed
<1>10. Current(j)
  BY DEF Informed
<1>11. CASE j # i
  <2>1. \A t : <<j, t>> \in untold <=> <<j, t>> \in untold'
    BY <1>1, <1>11
  <2> QED
    BY <1>1, <1>2, <1>10, <1>11, <2>1 DEF Current, Knows
<1>12. CASE j = i
  <2>1. ASSUME NEW t \in DOMAIN prev[i]  PROVE Knows(i, t)'
    <3>1. Knows(i, t)
      BY <1>10, <1>12, <2>1 DEF Current
    <3>2. CASE \E x \in B : x.of = t
      BY <3>2 DEF Knows
    <3>3. CASE (\A x \in B : x.of # t) /\ ev.of = t
      <4>1. <<i, t>> \in untold'
        BY <1>1, <1>9, <3>3
      <4> QED
        BY <4>1 DEF Knows
    <3>4. CASE (\A x \in B : x.of # t) /\ ev.of # t
      <4>1. \A x \in A : x.of # t
        BY <1>8, <3>4
      <4>2. <<i, t>> \in untold => <<i, t>> \in untold'
        BY <1>1, <3>4
      <4> QED
        BY <1>1, <1>2, <3>1, <4>1, <4>2 DEF Knows
    <3> QED
      BY <3>2, <3>3, <3>4
  <2>2. \A x \in B : x.of \in DOMAIN prev[i] /\ x.to = prev[i][x.of]
    BY <1>7, <1>10, <1>12 DEF Current
  <2>3. \A t \in Range(Order) \ DOMAIN prev[i] : Said(sent, IdOfRunner(i), t, lives) = {}
    BY <1>10, <1>12 DEF Current
  <2> QED
    BY <1>1, <1>2, <1>12, <2>1, <2>2, <2>3 DEF Current
<1> QED
  BY <1>11, <1>12

\* What is queued says what is known.
LEMMA EnqueueInformed ==
  ASSUME Core, Informed, NEW i \in Runners, Enqueue(i)
  PROVE  Informed'
<1> DEFINE m == encoded[i]
<1>t. Types /\ config \in Configs /\ Sequence(sent)
  BY DEF Core, Types
<1>1. /\ UNCHANGED <<config, prev, batch, untold, lives>>
      /\ m # Idle /\ sent' = Append(sent, m) /\ encoded'[i] = Idle
      /\ \A j \in Runners \ {i} : encoded'[j] = encoded[j]
      /\ Provisioned
  BY EnqueueIs
<1>2. /\ Runners' = Runners /\ \A j \in Runners : IdOfRunner(j)' = IdOfRunner(j)
      /\ m.ev.device = IdOfRunner(i) /\ m.life = lives
  BY <1>1 DEF Runners, IdOfRunner, Core, InHand, DeviceMessage, Arisen
<1>m. encoded[i] = m
  OBVIOUS
<1> HIDE DEF m
<1>3. /\ Len(sent') = Len(sent) + 1 /\ Len(sent) \in Nat /\ lives \in Nat
      /\ \A k \in 1 .. Len(sent) : sent'[k] = sent[k]
      /\ sent'[Len(sent) + 1] = m
  BY <1>1, <1>t, AppendIs DEF Types
<1>4. Lived'
  <2>1. 1 .. Len(sent') = (1 .. Len(sent)) \cup {Len(sent) + 1}
    BY <1>3
  <2> QED
    BY <1>1, <1>2, <1>3, <2>1 DEF Informed, Lived
<1> SUFFICES ASSUME NEW j \in Runners  PROVE Current(j)'
  BY <1>2, <1>4 DEF Informed
<1>5. Current(j)
  BY DEF Informed
<1> DEFINE S(t) == Said(sent, IdOfRunner(j), t, lives)
<1>6. ASSUME NEW t, j # i \/ m.ev.of # t
      PROVE  /\ Said(sent', IdOfRunner(j), t, lives) = S(t)
             /\ \A v : SaysLast(sent, S(t), t, v) => SaysLast(sent', S(t), t, v)
  <2>1. ~ (m.ev.device = IdOfRunner(j) /\ m.ev.of = t)
    BY <1>1, <1>2, <1>6, <1>t, AcceptedIs
  <2> QED
    BY <1>1, <1>t, <2>1, SaidStays
<1>7. CASE j # i
  <2>1. ASSUME NEW t \in DOMAIN prev[j]  PROVE Knows(j, t)'
    <3>1. Knows(j, t)
      BY <1>5, <2>1 DEF Current
    <3> QED
      BY <1>1, <1>2, <1>6, <1>7, <3>1 DEF Knows
  <2> QED
    BY <1>1, <1>2, <1>5, <1>6, <1>7, <2>1 DEF Current
<1>8. CASE j = i
  <2> DEFINE A == Pending(batch[i], encoded[i])  B == Pending(batch'[i], encoded'[i])
  <2>1. A = B \cup {m.ev}
    BY <1>1, <1>m DEF Pending
  <2> HIDE DEF A, B
  <2>2. /\ \A x \in A : x.of \in DOMAIN prev[i] /\ x.to = prev[i][x.of]
        /\ \A t \in DOMAIN prev[i] : Knows(i, t)
        /\ \A t \in Range(Order) \ DOMAIN prev[i] : S(t) = {}
    BY <1>5, <1>8 DEF Current, A
  <2>3. m.ev.of \in DOMAIN prev[i] /\ m.ev.to = prev[i][m.ev.of]
    BY <2>1, <2>2
  <2>4. ASSUME NEW t \in DOMAIN prev[i]  PROVE Knows(i, t)'
    <3>1. CASE m.ev.of = t
      <4>1. SaysLast(sent', Said(sent', IdOfRunner(i), t, lives), t, m.ev.to)
        BY <1>1, <1>2, <1>t, <3>1, SaidGrows
      <4> QED
        BY <1>1, <1>2, <2>3, <3>1, <4>1 DEF Knows
    <3>2. CASE m.ev.of # t
      <4>1. \/ \E x \in A : x.of = t
            \/ <<i, t>> \in untold
            \/ t = "failure" /\ prev[i][t] = Absent
            \/ SaysLast(sent, S(t), t, prev[i][t])
        BY <1>8, <2>2, <2>4 DEF Knows, A
      <4>2. CASE \E x \in A : x.of = t
        <5>1. \E x \in B : x.of = t
          BY <2>1, <3>2, <4>2
        <5> QED
          BY <5>1 DEF Knows, B
      <4>3. CASE SaysLast(sent, S(t), t, prev[i][t])
        <5>1. SaysLast(sent', Said(sent', IdOfRunner(i), t, lives), t, prev[i][t])
          BY <1>6, <1>8, <3>2, <4>3
        <5> QED
          BY <1>1, <1>2, <5>1 DEF Knows
      <4>4. CASE <<i, t>> \in untold \/ (t = "failure" /\ prev[i][t] = Absent)
        BY <1>1, <4>4 DEF Knows
      <4> QED
        BY <4>1, <4>2, <4>3, <4>4
    <3> QED
      BY <3>1, <3>2
  <2>5. \A t \in Range(Order) \ DOMAIN prev[i] : Said(sent', IdOfRunner(i), t, lives) = {}
    <3> SUFFICES ASSUME NEW t \in Range(Order) \ DOMAIN prev[i]
                 PROVE  Said(sent', IdOfRunner(i), t, lives) = {}
      OBVIOUS
    <3>1. m.ev.of # t
      BY <2>3
    <3> QED
      BY <1>6, <1>8, <2>2, <3>1
  <2>6. \A x \in B : x.of \in DOMAIN prev[i] /\ x.to = prev[i][x.of]
    BY <2>1, <2>2
  <2> QED
    BY <1>1, <1>2, <1>8, <2>4, <2>5, <2>6 DEF Current, B
<1> QED
  BY <1>7, <1>8

\* After a restart nothing was said yet of whether devices answer, and nothing
\* is known of it.
LEMMA RestartInformed == Core /\ Informed /\ Restart => Informed'
<1> SUFFICES ASSUME Core, Informed, Restart  PROVE Informed'
  OBVIOUS
<1>t. Types /\ config \in Configs
  BY DEF Core, Types
<1> DEFINE m == SelfMessage("stopping", reports)
<1>1. /\ UNCHANGED <<config, batch, encoded, untold>> /\ status = "running"
      /\ lives' = lives + 1 /\ lives \in Nat /\ sent' = Append(sent, m)
      /\ \A i \in Runners : batch[i] = <<>> /\ encoded[i] = Idle
      /\ \A i \in Runners : /\ DOMAIN prev'[i] = DOMAIN prev[i] \ {"reachable"}
                            /\ \A t \in DOMAIN prev'[i] : prev'[i][t] = prev[i][t]
  BY <1>t, RestartIs DEF Types
<1>2. m.ev.device = NoDevice /\ m.life = lives
  BY SelfMessageIs DEF SelfEvents, OwnMessage
<1> HIDE DEF m
<1>3. /\ Len(sent') = Len(sent) + 1 /\ Len(sent) \in Nat
      /\ \A k \in 1 .. Len(sent) : sent'[k] = sent[k]
      /\ sent'[Len(sent) + 1] = m
      /\ 1 .. Len(sent') = (1 .. Len(sent)) \cup {Len(sent) + 1}
  BY <1>1, <1>t, AppendIs DEF Types
<1>4. Lived /\ Lived'
  BY <1>1, <1>2, <1>3 DEF Informed, Lived
<1>5. Runners' = Runners /\ Provisioned
  BY <1>1 DEF Runners, Core, Booted
<1> SUFFICES ASSUME NEW i \in Runners  PROVE Current(i)'
  BY <1>4, <1>5 DEF Informed
<1>6. IdOfRunner(i) # NoDevice /\ IdOfRunner(i)' = IdOfRunner(i)
  BY <1>1, <1>5, <1>t, AcceptedIs DEF IdOfRunner
<1>7. Current(i) /\ Pending(batch[i], encoded[i]) = {}
  BY <1>1, EmptySeq DEF Informed, Pending
<1>8. ASSUME NEW t, t # "reachable"
      PROVE  /\ Said(sent', IdOfRunner(i), t, lives') = Said(sent, IdOfRunner(i), t, lives)
             /\ \A v : SaysLast(sent, Said(sent, IdOfRunner(i), t, lives), t, v) =>
                         SaysLast(sent', Said(sent, IdOfRunner(i), t, lives), t, v)
  <2>1. Said(sent', IdOfRunner(i), t, lives') = Said(sent', IdOfRunner(i), t, lives)
    BY <1>8 DEF Said
  <2>2. ~ (m.ev.device = IdOfRunner(i) /\ m.ev.of = t) /\ Sequence(sent)
    BY <1>2, <1>6, <1>t DEF Types
  <2> QED
    BY <1>1, <2>1, <2>2, SaidStays
<1>9. Said(sent', IdOfRunner(i), "reachable", lives') = {}
  <2> SUFFICES ASSUME NEW n \in 1 .. Len(sent'), sent'[n].ev.device = IdOfRunner(i),
                      sent'[n].life = lives'
               PROVE  FALSE
    BY DEF Said
  <2>1. n # Len(sent) + 1
    BY <1>2, <1>3, <1>6
  <2>2. sent'[n].life \in 0 .. lives
    BY <1>3, <1>4, <2>1 DEF Lived
  <2> QED
    BY <1>1, <2>2
<1>10. ASSUME NEW t \in DOMAIN prev'[i]  PROVE Knows(i, t)'
  <2>1. t \in DOMAIN prev[i] /\ t # "reachable" /\ prev'[i][t] = prev[i][t]
    BY <1>1, <1>10
  <2>2. \/ <<i, t>> \in untold
        \/ t = "failure" /\ prev[i][t] = Absent
        \/ SaysLast(sent, Said(sent, IdOfRunner(i), t, lives), t, prev[i][t])
    BY <1>7, <2>1 DEF Current, Knows
  <2> QED
    BY <1>1, <1>6, <1>8, <2>1, <2>2 DEF Knows
<1>11. ASSUME NEW t \in Range(Order) \ DOMAIN prev'[i]
       PROVE  Said(sent', IdOfRunner(i), t, lives') = {}
  <2>1. CASE t = "reachable"
    BY <1>9, <2>1
  <2>2. CASE t # "reachable"
    <3>1. t \in Range(Order) \ DOMAIN prev[i]
      BY <1>1, <1>11, <2>2
    <3> QED
      BY <1>7, <1>8, <2>2, <3>1 DEF Current
  <2> QED
    BY <2>1, <2>2
<1> QED
  BY <1>1, <1>6, <1>7, <1>10, <1>11 DEF Current

\* So every step keeps what consumers know.
LEMMA InformedStep == Core /\ Informed /\ [Next]_vars => Informed'
<1> SUFFICES ASSUME Core, Informed, [Next]_vars  PROVE Informed'
  OBVIOUS
<1>1. CASE UNCHANGED <<config, prev, batch, encoded, sent, untold, lives>>
  BY <1>1 DEF Informed, Lived, Current, Knows, Runners, IdOfRunner
<1>2. CASE Boot
  <2>1. /\ UNCHANGED <<config, prev, batch, encoded, untold, lives>>
        /\ \/ Provisioned' /\ sent' = Append(sent, SelfMessage("started", reports))
           \/ UNCHANGED sent
    BY <1>2, BootIs
  <2>2. CASE Provisioned' /\ sent' = Append(sent, SelfMessage("started", reports))
    <3>1. config \in AcceptedConfigs
      BY <2>1, <2>2 DEF Provisioned
    <3>2. /\ SelfMessage("started", reports).ev.device = NoDevice
          /\ SelfMessage("started", reports).life = lives
      BY SelfMessageIs DEF SelfEvents, OwnMessage
    <3> QED
      BY <2>1, <2>2, <3>1, <3>2, OwnInformed
  <2> QED
    BY <1>1, <2>1, <2>2
<1>3. CASE \E i \in Runners : \E c \in Readings[config.devices[i].kind] : Poll(i, c)
  BY <1>3, PollInformed
<1>4. CASE \E i \in Runners : Encode(i)
  BY <1>4, EncodeInformed
<1>5. CASE \E i \in Runners : Enqueue(i)
  BY <1>5, EnqueueInformed
<1>6. CASE \E event \in {"heartbeat", "log"} : SelfReport(event)
  <2>1. PICK event \in {"heartbeat", "log"} : SelfReport(event)
    BY <1>6
  <2>2. /\ UNCHANGED <<config, prev, batch, encoded, untold, lives>> /\ status = "running"
        /\ sent' = Append(sent, SelfMessage(event, reports + 1))
    BY <2>1 DEF SelfReport
  <2>3. config \in AcceptedConfigs
    BY <2>2 DEF Core, Booted, Provisioned
  <2>4. /\ SelfMessage(event, reports + 1).ev.device = NoDevice
        /\ SelfMessage(event, reports + 1).life = lives
    <3>1. event \in SelfEvents
      BY DEF SelfEvents
    <3> QED
      BY <3>1, SelfMessageIs DEF OwnMessage
  <2> QED
    BY <2>2, <2>3, <2>4, OwnInformed
<1>7. CASE Restart
  BY <1>7, RestartInformed
<1> QED
  BY <1>1, <1>2, <1>3, <1>4, <1>5, <1>6, <1>7 DEF Next, vars

\* The last of what was said is what Max finds.
LEMMA InformedKnows == Core /\ Informed => ConsumerKnows
<1> SUFFICES ASSUME Core, Informed, NEW i \in Runners, batch[i] = <<>>, encoded[i] = Idle,
                    NEW t \in DOMAIN prev[i], <<i, t>> \notin untold,
                    ~ (t = "failure" /\ prev[i][t] = Absent)
             PROVE  Agrees(i, t)
  BY DEF ConsumerKnows
<1>1. Len(sent) \in Nat /\ DOMAIN sent = 1 .. Len(sent)
  BY SequenceIs DEF Core, Types, Sequence
<1> DEFINE S == Said(sent, IdOfRunner(i), t, lives)
<1>2. About(i, t) = S
  BY <1>1 DEF About, Said, IdOfRunner
<1>3. Pending(batch[i], encoded[i]) = {}
  BY EmptySeq DEF Pending
<1>4. SaysLast(sent, S, t, prev[i][t])
  BY <1>3 DEF Informed, Current, Knows
<1>5. S \subseteq 1 .. Len(sent)
  BY DEF Said
<1> HIDE DEF S
<1>6. CASE S # {}
  <2>1. Max(S) \in S /\ \A y \in S : Max(S) >= y
    BY <1>1, <1>5, <1>6, LastPlace
  <2>2. \A y \in S : y <= Max(S)
    BY <1>1, <1>5, <2>1
  <2>3. sent[Max(S)].ev.to = prev[i][t]
    BY <1>4, <2>1, <2>2 DEF SaysLast
  <2> QED
    BY <1>2, <1>6, <2>3 DEF Agrees
<1>7. CASE S = {}
  BY <1>2, <1>4, <1>7 DEF SaysLast, Unsaid, Agrees
<1> QED
  BY <1>6, <1>7

\* Whatever devices read, or fail to, and whatever of it is declined: once a
\* poll is worked off, what a consumer was told last of a thing is what is
\* known of it, and what it was never told of is as it was taken to be, unless
\* the latest event of the thing was not queued (app.go:322-368).
THEOREM ConsumersKnow == Spec => []ConsumerKnows
<1>1. Core /\ Informed /\ [Next]_vars => Informed'
  BY InformedStep
<1>2. Core /\ Informed => ConsumerKnows
  BY InformedKnows
<1> QED
  BY <1>1, <1>2, InformedInit, CoreInvariance, PTL DEF Spec
=============================================================================
