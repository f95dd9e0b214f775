------------------------------ MODULE Promise ------------------------------
(***************************************************************************)
(* What the outbox promises of each message, whatever tables, claims and   *)
(* tries it takes (src/sync/src/outbox.rs, module docs): the server sends  *)
(* it once at most, and it is reported as sent only when it was.           *)
(***************************************************************************)
EXTENDS Naturals

CONSTANT Mails

VARIABLES
    times,  \* how often the server has sent each mail
    told,   \* the mail is reported as sent
    owner   \* who answers for the mail: the person or the outbox

vars == <<times, told, owner>>

Init ==
    /\ times = [m \in Mails |-> 0]
    /\ told = [m \in Mails |-> FALSE]
    /\ owner \in [Mails -> {"person", "outbox"}]

\* The server sends a mail it has not sent before.
Deliver(m) ==
    /\ times[m] = 0
    /\ times' = [times EXCEPT ![m] = 1]
    /\ UNCHANGED <<told, owner>>

\* A mail that has gone is reported.
Report(m) ==
    /\ times[m] = 1
    /\ told' = [told EXCEPT ![m] = TRUE]
    /\ UNCHANGED <<times, owner>>

\* The outbox takes charge of a mail, or hands it back to the person.
Hand(m, who) ==
    /\ owner' = [owner EXCEPT ![m] = who]
    /\ UNCHANGED <<times, told>>

Next == \E m \in Mails :
    \/ Deliver(m)
    \/ Report(m)
    \/ Hand(m, "outbox") \/ Hand(m, "person")

Spec == Init /\ [][Next]_vars
=============================================================================
