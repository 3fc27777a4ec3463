---------------------------- MODULE MCSynthState ----------------------------
(* Small instances of SynthState for TLC.                                  *)
EXTENDS SynthState

\* Two devices, one fault set and one kind that starts from an observation.
MCDeviceOf == [k \in Keys |-> IF k = "faults" THEN "controller" ELSE "sign"]
=============================================================================
