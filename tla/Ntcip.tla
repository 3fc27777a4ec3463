-------------------------------- MODULE Ntcip --------------------------------
(***************************************************************************)
(* The NTCIP adapters (internal/vendors/ntcip) over the SNMP client        *)
(* (sdk/transport/snmp), in front of the engine and its differs            *)
(* (Transitions): what a poll makes of the objects an agent answers.  An   *)
(* agent may answer any of them or none, and with values of no meaning.    *)
(* The repository has no camera adapter, so a camera's facets are any.     *)
(***************************************************************************)
EXTENDS Transitions, Integers

CONSTANTS
  Unanswered,   \* no value of the type that is wanted: the client leaves it out
  Operations, Patterns, Preempts,              \* objects of a controller
  Controls, SourceModes, ActivateErrors,       \* integer objects of a sign
  MemoryTypes, Messages,                       \* of its MessageIDCode
  Malformed,                                   \* a MessageIDCode that is too short
  Texts, NoText                                \* MULTI of its current buffer

Integer(S) == S \cup {Unanswered}

\* What an agent answers, object by object.  Answers of several requests are
\* one here: a request that fails fails the read or its facet as a whole.
SignalAnswers ==
  [operation : Integer(Operations), pattern : Integer(Patterns),
   preempt : Integer(Preempts)]

MessageIDCodes == [memory : MemoryTypes, message : Messages]

DMSAnswers ==
  [control : Integer(Controls),
   source : MessageIDCodes \cup {Malformed, Unanswered},
   buffer : Texts \cup {NoText, Unanswered},
   activateError : Integer(ActivateErrors), sourceMode : Integer(SourceModes)]

Answered(v, o) == v[o] # Unanswered

\* vals[oid] of a Go map: zero when the agent did not answer.
IntOf(v, o) == IF Answered(v, o) THEN v[o] ELSE 0

-----------------------------------------------------------------------------
\* The controller.

ModeFromOperation(v) == CASE v = 2 -> "normal"
                          [] v = 3 -> "standby"
                          [] v = 4 -> "flash"
                          [] OTHER -> "unknown"

SignalReadable(v) == Answered(v, "operation")

\* Patterns are far below the 32 bits a plan has.
SignalFacet(v) ==
  [mode |-> ModeFromOperation(IntOf(v, "operation")),
   plan |-> IntOf(v, "pattern"),
   preemption |-> IntOf(v, "preempt") > 0]

-----------------------------------------------------------------------------
\* The sign.

ControlModeFromNTCIP(v) ==
  CASE v = 1 -> "other"
    [] v = 2 -> "local"
    [] v = 3 -> "external"
    [] v = 4 -> "central"
    [] v = 5 -> "central-override"
    [] v = 6 -> "simulation"
    [] OTHER -> "unknown"

ActivationTriggerFromNTCIP(v) ==
  CASE v = 1         -> "other"
    [] v \in {2, 3, 8} -> "command"
    [] v = 9         -> "schedule"
    [] v = 10        -> "power-recovery"
    [] v = 11        -> "reset"
    [] v = 12        -> "comm-loss"
    [] v = 13        -> "power-loss"
    [] v = 14        -> "end-of-duration"
    [] OTHER         -> "unknown"

\* The working copy (5) is no bank of the library.
MemoryTypeFromNTCIP(v) == CASE v = 2 -> "permanent"
                            [] v = 3 -> "changeable"
                            [] v = 4 -> "volatile"
                            [] v = 6 -> "schedule"
                            [] v = 7 -> "blank"
                            [] OTHER -> "unknown"

\* Fault: the message objects are optional, as the sign's errors are.
DMSReadableByControl(v) == Answered(v, "control")

\* An object that is answered but malformed fails the facet too.
DMSReadable(v) ==
  /\ Answered(v, "control")
  /\ Answered(v, "source") /\ v.source # Malformed
  /\ Answered(v, "buffer")

\* A zero MessageIDCode, for a fault that reads one that is not there.
CodeOf(v) == IF v.source \in MessageIDCodes THEN v.source
             ELSE [memory |-> 0, message |-> 0]

\* A blank bank and an empty buffer both mean a blank face.
DMSFacet(v) ==
  [control |-> ControlModeFromNTCIP(IntOf(v, "control")),
   display |-> IF CodeOf(v).memory = 7 \/ v.buffer \in {NoText, Unanswered}
                 THEN "blank" ELSE "normal",
   face    |-> [memory  |-> MemoryTypeFromNTCIP(CodeOf(v).memory),
                message |-> CodeOf(v).message,
                text    |-> IF Answered(v, "buffer") THEN v.buffer ELSE NoText],
   trigger |-> ActivationTriggerFromNTCIP(IntOf(v, "sourceMode")),
   status  |-> IF ~Answered(v, "activateError") THEN StatusUnknown
               ELSE IF v.activateError = 2 THEN StatusValid ELSE StatusError]

Answers(S) == Unanswered \notin S /\ Malformed \notin S

\* The facets' sets hold what the adapters make.
ASSUME NtcipAssumption ==
  /\ Answers(Operations) /\ Answers(Patterns) /\ Answers(Preempts)
  /\ Answers(Controls) /\ Answers(SourceModes) /\ Answers(ActivateErrors)
  /\ Answers(Texts) /\ Answers({NoText}) /\ Answers(MessageIDCodes)
  /\ Unanswered # Malformed
  /\ StatusUnknown # StatusError /\ StatusUnknown # StatusValid
  /\ {ModeFromOperation(v) : v \in Operations} \subseteq Modes
  /\ Patterns \cup {0} \subseteq Plans
  /\ {ControlModeFromNTCIP(v) : v \in Controls} \subseteq ControlModes
  /\ {"normal", "blank"} \subseteq DisplayStates
  /\ [memory  : {MemoryTypeFromNTCIP(m) : m \in MemoryTypes},
      message : Messages, text : Texts \cup {NoText}] \subseteq Faces
  /\ {ActivationTriggerFromNTCIP(v) : v \in SourceModes \cup {0}} \subseteq Triggers

-----------------------------------------------------------------------------
VARIABLE answered   \* history: the axes of prev that the agent answered for

nvars == <<vars, answered>>

\* What an axis of a facet is read from, the sign's message status included.
ObjectsOf ==
  [mode |-> {"operation"}, plan |-> {"pattern"}, preemption |-> {"preempt"},
   control |-> {"control"}, display |-> {"source", "buffer"},
   face |-> {"source", "buffer"}, status |-> {"activateError"}]

AnsweredAxes(v) ==
  {a \in DOMAIN ObjectsOf :
     \A o \in ObjectsOf[a] : o \in DOMAIN v /\ v[o] \notin {Unanswered, Malformed}}

NInit == Init /\ answered = {}

\* A read whose facet is there, or is not: then the error for its kind is all
\* the engine sees, or nothing at all when the whole request failed.
Poll(readable, c, axes) ==
  IF readable
    THEN Apply(c, FALSE) /\ answered' = axes
    ELSE /\ events' = Silence
         /\ UNCHANGED <<kind, prev, seen, known, missed, healthy, answered>>

PollSignal(v) ==
  /\ kind = "signal-status"
  /\ Poll(SignalReadable(v), SignalFacet(v), AnsweredAxes(v))

PollDMS(v) ==
  /\ kind = "dms-status"
  /\ Poll(DMSReadable(v), DMSFacet(v), AnsweredAxes(v))

\* Any facet, which may come with an error.
PollCCTV(c, failed) ==
  /\ kind = "cctv-status"
  /\ Apply(c, failed)
  /\ answered' = IF failed THEN answered ELSE Axes

NextBoot == (SeedKept \/ SeedEmpty) /\ UNCHANGED answered

NNext ==
  \/ \E v \in SignalAnswers : PollSignal(v)
  \/ \E v \in DMSAnswers : PollDMS(v)
  \/ \E c \in CCTVStatus, failed \in BOOLEAN : PollCCTV(c, failed)
  \/ NextBoot

NSpec == NInit /\ [][NNext]_nvars

-----------------------------------------------------------------------------
\* A sign's transitions and failures, and a controller's changes of mode, rest
\* on what the device answered in both polls, whatever it left out in either
\* or in between (dms.go:154-155).
NothingFabricated ==
  [][/\ DOMAIN events'.moves \cap (DMSAxes \cup {"mode"}) \subseteq answered \cap answered'
     /\ events'.failure => "status" \in answered \cap answered']_nvars

\* What asc.go:106-107 says, "absence of evidence is never a state change", of
\* the plan and the preemption besides: no poll moves an axis whose object it
\* had no answer for.
NothingFabricatedBySignal ==
  [][DOMAIN events'.moves \cap SignalAxes \subseteq answered']_nvars
=============================================================================
