---------------------------- MODULE MCPublisher ----------------------------
(* Small instances of Publisher for TLC.                                   *)
EXTENDS Publisher, TLC

\* The first and the last event go to one stream, the others to another.
MCBindings == {"openits", "vikasa"}
MCStreamOf == [e \in 1..MaxEvents |-> IF e \in {1, 4} THEN "openits" ELSE "vikasa"]

MCSymmetry == Permutations(Producers)
=============================================================================
