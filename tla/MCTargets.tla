----------------------------- MODULE MCTargets -----------------------------
(* Instances of Targets for TLC.                                           *)
EXTENDS Targets

CONSTANTS i1, i2

\* Two invocations that share the first two targets; they have different kinds
\* of targets with the third label.
KindOfBuild == [i \in {i1, i2} |-> <<"library", "test", IF i = i1 THEN "library" ELSE "test">>]
=============================================================================
