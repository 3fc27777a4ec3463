------------------------------- MODULE Subjects -------------------------------
(***************************************************************************)
(* Subject templates (internal/subject/subject.go) and the streams that    *)
(* capture what they render (internal/publish/publish.go).                 *)
(*                                                                         *)
(* A text is the sequence of its dot-separated parts: a device id written  *)
(* "cam.1" is <<"cam", "1">>.  Joining texts with dots is concatenation.   *)
(* A token of a template as the operator wrote it is a literal text, a     *)
(* placeholder that is a token of its own, or anything else between two    *)
(* dots that has braces, which is malformed.                               *)
(***************************************************************************)
EXTENDS Naturals, Sequences, SequencesExt

CONSTANT WordsOf   \* the dash-separated words of each part, in capitals

Parts == DOMAIN WordsOf

\* Of the two namespaces, the collector's own has one word more.
ASSUME WordsAssumption ==
  /\ WordsOf \in [Parts -> Seq(STRING)]
  /\ {"openits", "openits-collector"} \subseteq Parts
  /\ Len(WordsOf["openits"]) < Len(WordsOf["openits-collector"])

Literal(t)     == [is |-> "literal", text |-> t]
Placeholder(n) == [is |-> "placeholder", name |-> n]
Malformed      == [is |-> "malformed"]

\* Tokens as the operator may have written them.
RawTokens == [is : {"literal"}, text : Seq(Parts)]
             \cup [is : {"placeholder"}, name : STRING] \cup {Malformed}

\* What is wrong with a configuration, in place of a template.
Refused == [is |-> "refused"]

PerEventNames == {"namespace", "service", "event", "version", "device_id"}

IdentityNames == {"region", "agency", "agency_unit", "site"}

ReservedNames == PerEventNames \cup IdentityNames

DefaultTemplate ==
  <<Placeholder("namespace"), Placeholder("region"), Placeholder("agency"),
    Placeholder("agency_unit"), Placeholder("service"), Placeholder("device_id"),
    Placeholder("event")>>

\* Fault: a dot is let through.
IsLegalTokenWithDots(t) ==
  t # <<>> /\ \A i \in DOMAIN t : t[i] \notin {"", "*", ">"}

\* One part, and no wildcard.  White space is as illegal as a wildcard is.
IsLegalToken(t) == Len(t) = 1 /\ t[1] \notin {"", "*", ">"}

\* The placeholders that are resolved at boot: the operator's vars and the
\* collector's identity, which no var may redefine.
Constants(vars, id) ==
  [n \in DOMAIN vars \cup {"prefix"} \cup IdentityNames |->
     IF n \in IdentityNames THEN id[n]
     ELSE IF n \in DOMAIN vars THEN vars[n] ELSE <<"openits">>]

\* Whether a token of a template can be resolved.
ParseableToken(p, names) ==
  \/ p.is = "literal" /\ IsLegalToken(p.text)
  \/ p.is = "placeholder" /\ p.name \in PerEventNames \cup names

\* The tokens of a template: a literal, or a placeholder that varies per event.
ParseTokens(raw, consts) ==
  [i \in DOMAIN raw |->
     IF raw[i].is = "placeholder" /\ raw[i].name \notin PerEventNames
       THEN Literal(consts[raw[i].name])
       ELSE raw[i]]

New(raw, vars, id) ==
  LET template == IF raw = <<>> THEN DefaultTemplate ELSE raw
      consts   == Constants(vars, id)
  IN  IF /\ \A n \in IdentityNames : IsLegalToken(id[n])
         /\ DOMAIN vars \cap ReservedNames = {}
         /\ \A n \in DOMAIN vars : IsLegalToken(vars[n])
         /\ \A i \in DOMAIN template : ParseableToken(template[i], DOMAIN consts)
        THEN [is |-> "template", tokens |-> ParseTokens(template, consts),
              site |-> id["site"]]
        ELSE Refused

-----------------------------------------------------------------------------
\* A ce-type is a record of its namespace, service, event and version, each
\* one part.  A device that is not there is the empty text.

NoDevice == <<>>

IdOf(t, device) == IF device = NoDevice THEN t.site ELSE device

HasDeviceId(t) == \E i \in DOMAIN t.tokens : t.tokens[i] = Placeholder("device_id")

Renderable(t, device) == HasDeviceId(t) => IsLegalToken(IdOf(t, device))

TokenText(t, token, ceType, device) ==
  IF token.is = "literal" THEN token.text
  ELSE IF token.name = "device_id" THEN IdOf(t, device)
  ELSE <<ceType[token.name]>>

Render(t, ceType, device) ==
  FlattenSeq([i \in DOMAIN t.tokens |-> TokenText(t, t.tokens[i], ceType, device)])

\* The first token that varies per event once the namespace is known, or the
\* end of the template.
Truncation(t) ==
  LET varies == {i \in DOMAIN t.tokens :
                   /\ t.tokens[i].is = "placeholder"
                   /\ t.tokens[i].name # "namespace"}
  IN  IF varies = {} THEN Len(t.tokens) + 1
      ELSE CHOOSE i \in varies : \A j \in varies : i <= j

ValidateBindable(t) == Truncation(t) # 1

\* The filter of one namespace: a prefix, and whether anything may follow it.
BindingFor(t, namespace) ==
  LET n == Truncation(t)
  IN  [prefix   |-> FlattenSeq([i \in 1 .. n - 1 |->
                      IF t.tokens[i].is = "literal" THEN t.tokens[i].text
                      ELSE <<namespace>>]),
       wildcard |-> n <= Len(t.tokens)]

Bindings(t, ceTypes) ==
  {BindingFor(t, namespace) : namespace \in {c.namespace : c \in ceTypes}}

WithinBinding(subject, b) ==
  IF b.wildcard
    THEN IsStrictPrefix(b.prefix, subject)
    ELSE subject = b.prefix

\* Fault: the devices are not tried.
ValidateCETypesOfSite(t, ceTypes, devices) ==
  \A c \in ceTypes :
     /\ Renderable(t, NoDevice)
     /\ WithinBinding(Render(t, c, NoDevice), BindingFor(t, c.namespace))

ValidateCETypes(t, ceTypes, devices) ==
  \A c \in ceTypes, d \in devices \cup {NoDevice} :
     /\ Renderable(t, d)
     /\ LET subject == Render(t, c, d)
        IN  /\ \A i \in DOMAIN subject : IsLegalToken(<<subject[i]>>)
            /\ WithinBinding(subject, BindingFor(t, c.namespace))

\* Dots become dashes, which are then no different from those within a part:
\* of the filter us-ga.metro.> and of us.ga-metro.> the name is the same.
StreamNameForBinding(b) == FlattenSeq([i \in DOMAIN b.prefix |-> WordsOf[b.prefix[i]]])
=============================================================================
