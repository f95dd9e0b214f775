------------------------------ MODULE MCOutbox ------------------------------
(* Instances of Outbox for TLC: the tables an earlier run may have left.    *)
EXTENDS Outbox, TLC

CONSTANTS m1, m2

\* A Send Later row due at `at`, with its bytes here or in its draft.
Scheduled(i, m, at, draft) ==
    [id |-> i, mail |-> m, at |-> at, raw |-> draft = 0, draft |-> draft,
     attempts |-> 0, problem |-> FALSE]

Empty == [i \in Ids |-> NoRow]

\* One waiting row, from bytes or from a draft; the second mail is unwritten.
OneRow == {[Empty EXCEPT ![1] = Scheduled(1, m1, 1, d)] : d \in {0, 1}}

\* People are alike.
Alike == Permutations(People)
=============================================================================
