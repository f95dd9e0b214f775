------------------------------- MODULE MCPop3 -------------------------------
(* Instances of Pop3 for TLC.                                                *)
EXTENDS Pop3, TLC

CONSTANTS m1, m2, m3

\* The server holds one message when the account is added.
OneBefore == <<[mail |-> m1, uidl |-> 1]>>
=============================================================================
