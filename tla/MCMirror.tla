------------------------------ MODULE MCMirror ------------------------------
(* Instances of Mirror for TLC.                                              *)
EXTENDS Mirror, TLC

CONSTANTS w1, w2
=============================================================================
