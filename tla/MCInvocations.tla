--------------------------- MODULE MCInvocations ---------------------------
(* Instances of Invocations for TLC.                                       *)
EXTENDS Invocations

CONSTANTS s1, s2, s3, a, b, u, n, k

\* Two invocations of one user and one build, and a third stream without a user
\* that has the identifier of the first invocation.
IdOfStream == [s \in {s1, s2, s3} |-> IF s = s2 THEN b ELSE a]
InstanceOfStream == [s \in {s1, s2, s3} |-> n]
UserOfStream == [s \in {s1, s2, s3} |-> IF s = s3 THEN NoUser ELSE u]
BuildOfStream == [s \in {s1, s2, s3} |-> k]
=============================================================================
