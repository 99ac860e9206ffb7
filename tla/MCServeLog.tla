----------------------------- MODULE MCServeLog -----------------------------
(* Instances of ServeLog for TLC.                                          *)
EXTENDS ServeLog

\* A range from the second line, and an empty one.
SomeRanges == {<<1, 3>>, <<1, 1>>}

\* A line that was erased and written again, with one after it, and two whole lines.
SomeLogs == {<<Text, NL, Up, Text, NL, Text>>, <<NL, Text, NL>>}
=============================================================================
