------------------------------ MODULE MCEmission ------------------------------
\* Emission for TLC: configurations that boot accepts and that it refuses, and
\* readings of each kind of device in which every event occurs.
EXTENDS Emission

MCIdentity == [region |-> <<"us-ga">>, agency |-> <<"metro">>, agency_unit |-> <<"d01">>,
               site |-> <<"cab1">>]

MCWordsOf == [p \in {"openits", "openits-collector", "us-ga", "metro", "d01", "cab1",
                     "cab2", "all", "events", "cam", "1", "s1", "g1", "c1", "p1",
                     "t1", "t2", "x1"} |->
                CASE p = "openits-collector" -> <<"OPENITS", "COLLECTOR">>
                  [] p = "us-ga"             -> <<"US", "GA">>
                  [] OTHER                   -> <<p>>]

Conf(raw, with, devices) == [template |-> raw, vars |-> with, devices |-> devices]

Device(id, kind) == [id |-> id, kind |-> kind]

NoVars == <<>>

Dotted == <<"cam", "1">>

\* No namespace and no device, so that all events share one stream.
Flat == <<Placeholder("prefix"), Placeholder("site"), Placeholder("event")>>

Configurations ==
  {Conf(<<>>, NoVars, <<Device(<<"s1">>, "asc"), Device(<<"g1">>, "dms")>>),
   Conf(<<>>, NoVars, <<Device(<<"c1">>, "cctv"), Device(<<"p1">>, "perception")>>),
   Conf(<<>>, NoVars, <<Device(<<"t1">>, "traffic_sensor"), Device(<<"x1">>, "acme")>>),
   Conf(<<>>, NoVars, <<Device(<<"t1">>, "traffic_sensor"), Device(<<"t2">>, "traffic_sensor")>>),
   Conf(<<>>, NoVars, <<Device(<<"t1">>, "traffic_sensor"), Device(<<"t1">>, "traffic_sensor")>>),
   Conf(<<>>, NoVars, <<Device(<<"s1">>, "asc")>>),
   Conf(<<>>, NoVars, <<Device(<<"g1">>, "dms")>>),
   Conf(<<>>, NoVars, <<Device(Dotted, "asc")>>),
   Conf(<<>>, NoVars, <<>>),
   Conf(Flat, NoVars, <<Device(Dotted, "cctv")>>),
   Conf(Flat, "site" :> <<"cab2">>, <<Device(<<"c1">>, "cctv")>>),
   Conf(Flat, "prefix" :> <<"all">>, <<Device(<<"x1">>, "acme")>>),
   Conf(<<Literal(<<"all">>), Literal(<<"events">>)>>, NoVars,
        <<Device(<<"p1">>, "perception")>>),
   Conf(<<Placeholder("service"), Placeholder("namespace")>>, NoVars,
        <<Device(<<"c1">>, "cctv")>>),
   Conf(<<Placeholder("site"), Placeholder("bridge")>>, NoVars, <<Device(<<"c1">>, "cctv")>>),
   Conf(<<Placeholder("site"), Malformed>>, NoVars, <<Device(<<"c1">>, "cctv")>>)}

MCMaxPolls == <<4, 3>>

Fault(category, text) == [category |-> category, severity |-> "major", text |-> text]

Unreachable == [reachable |-> FALSE]

ASC(mode, plan, preempted) ==
  [reachable |-> TRUE, mode |-> mode, plan |-> plan, preemption |-> preempted]

DMS(control, display, text, failure) ==
  [reachable |-> TRUE, control |-> control, display |-> display,
   face |-> [memory |-> "changeable", text |-> text, trigger |-> "unknown"],
   failure |-> failure]

CCTV(control, t1, t2) ==
  [reachable |-> TRUE, cctvControl |-> control, tour1 |-> t1, tour2 |-> t2]

Sensor(quality, f1) == [reachable |-> TRUE, lanes |-> [quality |-> quality], fault1 |-> f1]

Zone(incident, class) ==
  [reachable |-> TRUE, zones |-> [class |-> class], incident |-> incident]

Incident(severity) ==
  [zone |-> "z1", type |-> "unknown", severity |-> severity, class |-> "unknown"]

MCReadings ==
  [asc |-> {ASC("normal", 1, FALSE), ASC("standby", 2, TRUE), ASC("flash", 1, FALSE),
            [fault1 |-> Fault("pixel", "t"), fault2 |-> Fault("pixel", "t")],
            [fault1 |-> Absent, fault2 |-> Fault("conflict", BadText), detectors |-> "rows"]},
   dms |-> {DMS("central", "normal", "a", Absent),
            DMS("unknown", "blank", "a", [memory |-> "unknown", error |-> "none"]),
            DMS("local", "blank", BadText, Absent),
            [reachable |-> TRUE, fault1 |-> Fault("lamp", "t"), environment |-> "readings"]},
   cctv |-> {Unreachable,
             CCTV("central", "running", "running"), CCTV("unknown", "unknown", "unknown"),
             CCTV("local", "stopped", "stopped"), CCTV("central", "paused", "unknown")},
   perception |-> {Zone(Absent, "truck"), Zone(Incident("unreported"), "unknown"),
                   Zone(Incident("major"), "bus")},
   traffic_sensor |-> {Sensor("valid", Absent), Sensor("unknown", Fault("detector", "t"))},
   acme |-> {Unreachable, [reachable |-> TRUE, fault1 |-> Fault("power", "t")],
             [reachable |-> TRUE, fault1 |-> Absent]}]
=============================================================================
