------------------------------ MODULE MCFiles ------------------------------
(* Instances of Files for TLC.                                             *)
EXTENDS Files

CONSTANTS tests, action, other

\* A batch of test results, and an action that saves its files in another order.  A
\* third recorder has a file in common with each.
FilesOfBuild == [r \in {tests, action, other} |->
  IF r = tests THEN <<<<1, 1>>, <<2, 2>>>>
  ELSE IF r = action THEN <<<<2, 2>>, <<1, 1>>>>
  ELSE <<<<2, 2>>>>]
=============================================================================
