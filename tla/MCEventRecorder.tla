-------------------------- MODULE MCEventRecorder --------------------------
(* Instances of EventRecorder for TLC.                                     *)
EXTENDS EventRecorder, TLC

\* A build of one target: its configuration, the target configured and
\* completed, and the end of the build.
BuildKind == <<"configuration", "targetConfigured", "targetCompleted", "invocation">>
BuildRequires == [s \in 1..4 |-> IF s = 3 THEN {2} ELSE {}]
BuildJoinsOn == [s \in 1..4 |-> IF s = 3 THEN {1} ELSE {}]

\* An event that updates the invocation, and one that can never be saved: a
\* target completed that was never configured.
PoisonKind == <<"notConfigured", "invocation", "targetCompleted">>
PoisonRequires == <<{}, {}, {1}>>

\* A single event that writes rows of its own.
OneKind == <<"detail">>

NoReferences == [s \in Seqs |-> {}]

RecorderSymmetry == Permutations(Recorders)
=============================================================================
