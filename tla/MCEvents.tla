------------------------------ MODULE MCEvents ------------------------------
(* Instances of Events for TLC.                                              *)
EXTENDS Events, TLC

CONSTANTS a1, a2
=============================================================================
