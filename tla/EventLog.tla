------------------------------ MODULE EventLog ------------------------------
(***************************************************************************)
(* What the recording side of the portal promises to a build tool about    *)
(* one invocation, with none of its machinery: a set of events that only   *)
(* grows, every recorded event applied to the stored rows exactly once,    *)
(* acknowledgements only for what is recorded (or is never recorded at     *)
(* all), and nothing recorded once the invocation is closed.  The detailed *)
(* specification EventRecorder implements it.                              *)
(***************************************************************************)
EXTENDS Naturals

CONSTANTS N,           \* events of the invocation, by sequence number 1..N
          Droppable    \* the events the service acknowledges without recording

VARIABLES recorded,    \* the sequence numbers recorded as handled
          applied,     \* how often the effect of each event was applied
          acked,       \* the build tool has the ACKs of events 1..acked
          closed       \* the invocation is locked for writing

logVars == <<recorded, applied, acked, closed>>

Init == /\ recorded = {}
        /\ applied = [s \in 1..N |-> 0]
        /\ acked = 0
        /\ closed = FALSE

\* A set of events becomes recorded and takes effect, in one atomic step.
Record(S) ==
  /\ ~closed
  /\ S \cap recorded = {}
  /\ recorded' = recorded \cup S
  /\ applied' = [s \in 1..N |-> IF s \in S THEN applied[s] + 1 ELSE applied[s]]
  /\ UNCHANGED <<acked, closed>>

\* The build tool may forget the events up to m.
Ack(m) ==
  /\ m > acked
  /\ 1..m \subseteq recorded \cup Droppable
  /\ acked' = m
  /\ UNCHANGED <<recorded, applied, closed>>

Close ==
  /\ ~closed
  /\ closed' = TRUE
  /\ UNCHANGED <<recorded, applied, acked>>

Next == \/ \E S \in SUBSET (1..N) : Record(S)
        \/ \E m \in 1..N : Ack(m)
        \/ Close

Spec == Init /\ [][Next]_logVars
=============================================================================
