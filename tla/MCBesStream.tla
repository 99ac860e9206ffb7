---------------------------- MODULE MCBesStream ----------------------------
(* Instances of BesStream for TLC.  No symmetry of Arrays: a new array is   *)
(* picked with CHOOSE.                                                      *)
EXTENDS BesStream
=============================================================================
