---------------------------- MODULE MCSendLater ----------------------------
(* Instances of SendLater for TLC.                                          *)
EXTENDS SendLater, TLC

CONSTANTS p1, p2
=============================================================================
