---------------------------- MODULE OutboxSafety ----------------------------
(***************************************************************************)
(* What holds of Outbox for every number of mails, callers, rows, tries    *)
(* and hours: its types, and why it loses, misreports and repeats no mail  *)
(* while people leave a row alone that is being sent, a caller finishes    *)
(* within its claim, and nothing overtakes Send Now (Careful): first who   *)
(* holds which row (Apart), then what has become of each mail (Faith).     *)
(* Last, with no such care, that a switch to JMAP holds every mail back.   *)
(***************************************************************************)
EXTENDS Outbox, TLAPS

----------------------------------------------------------------------------
(* The helpers.                                                            *)

\* A caller that has no message still carries a well-formed one.
LEMMA BlankTyped == Blank \in Queued
<1>1. PICK mail \in Mails : TRUE
  BY OutboxAssumption
<1>2. (CHOOSE m \in Mails : TRUE) \in Mails
  BY <1>1, Zenon
<1> QED
  BY <1>2, OutboxAssumption DEF Blank, Queued, Time

\* Every hour the outbox writes is one the clock can show.
LEMMA CapTyped == ASSUME NEW t PROVE Cap(t) \in Time
  BY OutboxAssumption DEF Cap, Time

\* A put writes under an id of the table.
LEMMA PutIdsTyped ==
  ASSUME NEW m \in Queued
  PROVE  PutIds(m) \subseteq Ids
  BY OutboxAssumption DEF PutIds, ByDraft, NextIds, Ids, Queued

\* A put leaves a table of rows, and claims that are times.
LEMMA PutTyped ==
  ASSUME TypeOK, NEW m \in Queued, Put(m)
  PROVE  /\ rows' \in [Ids -> Queued \cup {NoRow}]
         /\ claims' \in [Ids -> Time \cup {Free}]
<1>1. PICK i \in PutIds(m) :
        IF ByDraft(m) \subseteq {i}
        THEN /\ rows' = [rows EXCEPT ![i] = [m EXCEPT !.id = i]]
             /\ claims' = [claims EXCEPT ![i] = Free]
        ELSE UNCHANGED <<rows, claims>>
  BY DEF Put
<1>2. i \in Ids
  BY PutIdsTyped
<1>3. [m EXCEPT !.id = i] \in Queued
  BY <1>2 DEF Queued, Ids
<1> QED
  BY <1>1, <1>2, <1>3 DEF TypeOK

\* Counting one more try stays below MOST_TRIES.
LEMMA LeastTyped ==
  ASSUME NEW n \in Nat, NEW k \in 0..n
  PROVE  Least(k + 1, n) \in 0..n
  BY DEF Least

\* The row a failure writes is well formed.
LEMMA KeptTyped ==
  ASSUME NEW m \in Queued, NEW n \in 0..MostTries
  PROVE  Kept(m, n) \in Queued
<1>1. Cap(now + (IF GaveUp(n) THEN 0 ELSE RetryDelay(n))) \in Time
  BY CapTyped
<1> QED
  BY <1>1 DEF Kept, Queued

----------------------------------------------------------------------------
(* Type correctness.                                                       *)

LEMMA InitTyped == Init => TypeOK
<1> SUFFICES ASSUME Init PROVE TypeOK
  OBVIOUS
<1>1. rows \in [Ids -> Queued \cup {NoRow}]
  BY InitialRowsAssumption DEF Init
<1>2. now = 0 /\ began = 0 /\ faults = 0 /\ todo = {} /\ locked = FALSE /\ online = TRUE
  BY DEF Init
<1>3. 0 \in Time /\ 0 \in 0..MaxFaults /\ 0 \in 0..MaxDraft /\ 1 \in 0..MaxDraft
  BY OutboxAssumption DEF Time
<1>4. /\ claims \in [Ids -> Time \cup {Free}]
      /\ pc \in [Callers -> Labels]
      /\ msg \in [Callers -> Queued]
      /\ since \in [Callers -> Time]
  BY <1>3, BlankTyped DEF Init, Labels
<1>5. /\ delivered \in [Mails -> 0..2]
      /\ sent \in [Mails -> SUBSET (0..MaxDraft)]
      /\ drafts \in [Mails -> 0..MaxDraft]
      /\ moving \in [Mails -> SUBSET (1..(MaxDraft - 1))]
      /\ told \in [Mails -> BOOLEAN]
      /\ owner \in [Mails -> {"person", "outbox"}]
  BY <1>3 DEF Init
<1> QED
  BY <1>1, <1>2, <1>3, <1>4, <1>5 DEF TypeOK

\* A caller done with its message is typed again.
LEMMA DoneTyped ==
  ASSUME TypeOK, NEW c \in Callers, Done(c)
  PROVE  /\ pc' \in [Callers -> Labels]
         /\ msg' \in [Callers -> Queued]
         /\ since' \in [Callers -> Time]
  BY BlankTyped, OutboxAssumption DEF TypeOK, Done, Labels, Time

LEMMA PassTyped == TypeOK /\ PassStep => TypeOK'
<1> SUFFICES ASSUME TypeOK, PassStep PROVE TypeOK'
  OBVIOUS
<1> USE OutboxAssumption, BlankTyped DEF TypeOK, table, callers, server, history, world
<1>1. CASE PassStart
  BY <1>1 DEF PassStart, Goto, Labels, Callers
<1>2. ASSUME NEW i \in Ids, PassClaim(i) PROVE TypeOK'
  BY <1>2 DEF PassClaim, ClaimFor, Claimable, Take, Labels, Callers
<1>3. CASE PassGo
  <2>1. Pass \in Callers
    BY DEF Callers
  <2>2. CASE PassDue
    BY <1>3, <2>1, <2>2 DEF PassGo, Goto, Labels
  <2>3. CASE ~PassDue
    BY <1>3, <2>1, <2>3, DoneTyped DEF PassGo, Release
  <2> QED
    BY <2>2, <2>3
<1>4. CASE PassEnd
  BY <1>4 DEF PassEnd, Goto, Labels, Callers, Time
<1> QED
  BY <1>1, <1>2, <1>3, <1>4 DEF PassStep

LEMMA SpendTyped == TypeOK /\ Spend => faults' \in 0..MaxFaults
  BY OutboxAssumption DEF TypeOK, Spend

\* Removing rows, claiming one and releasing one leave typed tables.
LEMMA RemoveTyped ==
  ASSUME TypeOK, NEW S, Remove(S)
  PROVE  /\ rows' \in [Ids -> Queued \cup {NoRow}]
         /\ claims' \in [Ids -> Time \cup {Free}]
  BY DEF TypeOK, Remove

LEMMA ClaimTyped ==
  ASSUME TypeOK, NEW c \in Callers, NEW i \in Ids, ClaimFor(c, i)
  PROVE  /\ claims' \in [Ids -> Time \cup {Free}]
         /\ since' \in [Callers -> Time]
         /\ rows[i] \in Queued
  BY DEF TypeOK, ClaimFor, Claimable

\* Keeping a mail is a put of the row that says what went wrong.
LEMMA KeepTyped ==
  ASSUME TypeOK, NEW c \in Callers, NEW n \in 0..MostTries, Keep(c, n)
  PROVE  /\ rows' \in [Ids -> Queued \cup {NoRow}]
         /\ claims' \in [Ids -> Time \cup {Free}]
         /\ owner' \in [Mails -> {"person", "outbox"}]
         /\ told' = told
<1>1. msg[c] \in Queued
  BY DEF TypeOK
<1>2. Kept(msg[c], n) \in Queued
  BY <1>1, KeptTyped
<1> QED
  BY <1>2, PutTyped DEF Keep, TypeOK

\* A mail goes out under one of its Message-IDs.
LEMMA MessageIdTyped ==
  ASSUME NEW m \in Queued
  PROVE  MessageId(m) \in 0..MaxDraft
  BY OutboxAssumption DEF MessageId, Queued

LEMMA StepTyped ==
  ASSUME TypeOK, NEW c \in Callers, Step(c)
  PROVE  TypeOK'
<1>0. msg[c] \in Queued /\ msg[c].mail \in Mails /\ msg[c].id \in 0..MaxId
  BY DEF TypeOK, Queued
<1> USE OutboxAssumption, <1>0 DEF TypeOK, table, callers, server, history, world
<1>1. CASE PostClaim(c)
  BY <1>1, DoneTyped DEF PostClaim, ClaimFor, Claimable, Take, Labels
<1>2. CASE PostGo(c)
  BY <1>2, DoneTyped DEF PostGo, Goto, Release, Labels
<1>3. CASE AttemptOffline(c)
  BY <1>3, DoneTyped DEF AttemptOffline, Goto, Release, Labels
<1>4. CASE Attempt(c)
  <2>1. CASE CountTry(msg[c].id) /\ UNCHANGED faults
    <3>1. rows' \in [Ids -> Queued \cup {NoRow}]
      <4>1. CASE msg[c].id # 0 /\ rows[msg[c].id] # NoRow
        <5> DEFINE r == rows[msg[c].id]
        <5>1. msg[c].id \in Ids /\ r \in Queued
          BY <4>1 DEF Ids
        <5>2. r.attempts \in 0..MostTries /\ MostTries \in Nat
          BY <5>1 DEF Queued
        <5>3. Least(r.attempts + 1, MostTries) \in 0..MostTries
          BY <5>2, LeastTyped
        <5>4. [r EXCEPT !.attempts = Least(@ + 1, MostTries)] \in Queued
          BY <5>1, <5>3 DEF Queued
        <5> QED
          BY <2>1, <4>1, <5>1, <5>4 DEF CountTry
      <4> QED
        BY <2>1, <4>1 DEF CountTry
    <3> QED
      BY <1>4, <2>1, <3>1 DEF Attempt, Goto, Labels, Spend
  <2> QED
    BY <1>4, <2>1 DEF Attempt, Goto, Labels, Spend
<1>5. CASE LookSent(c)
  BY <1>5 DEF LookSent, DeleteDraft, Goto, Labels, Spend
<1>6. CASE Send(c)
  <2>1. Least(delivered[msg[c].mail] + 1, 2) \in 0..2
    BY LeastTyped
  <2>2. sent' \in [Mails -> SUBSET (0..MaxDraft)]
    BY <1>6, MessageIdTyped DEF Send
  <2> QED
    BY <1>6, <2>1, <2>2 DEF Send, DeleteDraft, Goto, Labels, Spend
<1>7. CASE SendGone(c)
  BY <1>7 DEF SendGone, DeleteDraft, Goto, Labels
<1>8. CASE SendFails(c)
  BY <1>8 DEF SendFails, Goto, Labels, Spend
<1>9. CASE FileSent(c)
  <2>1. sent' \in [Mails -> SUBSET (0..MaxDraft)]
    BY <1>9, MessageIdTyped DEF FileSent
  <2> QED
    BY <1>9, <2>1, SpendTyped DEF FileSent, Goto, Labels
<1>10. CASE ForgetSent(c)
  BY <1>10, DoneTyped DEF ForgetSent, Remove, Spend
<1>11. CASE KeepRetry(c)
  <2>1. Least(msg[c].attempts + 1, MostTries) \in 0..MostTries
    BY LeastTyped DEF Queued
  <2> QED
    BY <1>11, <2>1, DoneTyped, KeepTyped DEF KeepRetry
<1>12. CASE KeepRefused(c)
  BY <1>12, DoneTyped, KeepTyped DEF KeepRefused
<1>13. CASE CancelClaim(c)
  BY <1>13, DoneTyped DEF CancelClaim, ClaimFor, Claimable, Take, Labels
<1>14. CASE CancelSave(c)
  BY <1>14, SpendTyped DEF CancelSave, Goto, Labels
<1>15. CASE CancelEnd(c)
  BY <1>15, DoneTyped DEF CancelEnd, Remove
<1>16. CASE CancelReopened(c)
  BY <1>16, DoneTyped DEF CancelReopened, Remove
<1> QED
  BY <1>1, <1>2, <1>3, <1>4, <1>5, <1>6, <1>7, <1>8, <1>9, <1>10, <1>11, <1>12,
     <1>13, <1>14, <1>15, <1>16 DEF Step

LEMMA AskTyped == TypeOK /\ Ask => TypeOK'
<1> SUFFICES ASSUME TypeOK, Ask PROVE TypeOK'
  OBVIOUS
<1> USE OutboxAssumption DEF TypeOK, table, callers, server, history, world
<1>1. ASSUME NEW c \in People, NEW m \in Mails, PostNew(c, m) PROVE TypeOK'
  <2>1. [id |-> 0, mail |-> m, at |-> now, raw |-> TRUE, draft |-> drafts[m],
         attempts |-> 0, problem |-> FALSE] \in Queued
    BY DEF Queued
  <2> QED
    BY <1>1, <2>1 DEF PostNew, Take, Labels, Callers
<1>2. ASSUME NEW c \in People, NEW i \in Ids, SendOne(c, i) PROVE TypeOK'
  BY <1>2 DEF SendOne, Take, Labels, Callers
<1>3. ASSUME NEW c \in People, NEW i \in Ids, Cancel(c, i) PROVE TypeOK'
  BY <1>3 DEF Cancel, Take, Labels, Callers
<1>4. ASSUME NEW i \in Ids, DropOne(i) PROVE TypeOK'
  BY <1>4 DEF DropOne, MayAsk, Remove, Queued
<1>5. ASSUME NEW i \in Ids, DraftSave(i) PROVE TypeOK'
  <2>1. rows[i] \in Queued
    BY <1>5 DEF DraftSave, MayAsk
  <2>2. /\ rows[i].mail \in Mails
        /\ drafts[rows[i].mail] + 1 \in 0..MaxDraft /\ drafts[rows[i].mail] \in 1..(MaxDraft - 1)
    BY <1>5, <2>1 DEF DraftSave, Queued
  <2> QED
    BY <1>5, <2>2 DEF DraftSave
<1>6. ASSUME NEW i \in Ids, NEW at \in Time, Reschedule(i, at) PROVE TypeOK'
  <2>1. [rows[i] EXCEPT !.at = at] \in Queued
    BY <1>6, SMTT(30) DEF Reschedule, MayAsk, Queued
  <2> QED
    BY <1>6, <2>1, PutTyped DEF Reschedule
<1>7. CASE TryNow
  <2>1. \A i \in Ids : rows[i] # NoRow => [rows[i] EXCEPT !.at = now] \in Queued
    BY SMTT(30) DEF Queued
  <2> QED
    BY <1>7, <2>1 DEF TryNow
<1> QED
  BY <1>1, <1>2, <1>3, <1>4, <1>5, <1>6, <1>7 DEF Ask

\* The row a save moves is well formed, and is the same but for its draft.
LEMMA MovedRow ==
  ASSUME TypeOK, NEW m \in Mails, NEW d \in 1..(MaxDraft - 1), DraftMoved(m, d),
         NEW i \in Ids, rows[i] # NoRow, rows'[i] # rows[i]
  PROVE  /\ rows'[i] \in Queued /\ rows'[i] # NoRow
         /\ rows[i].mail = m /\ rows[i].draft = d
         /\ rows'[i].id = rows[i].id /\ rows'[i].mail = m
         /\ rows'[i].draft = d + 1 /\ rows'[i].raw = FALSE
         /\ rows'[i].attempts = rows[i].attempts
<1> USE OutboxAssumption DEF TypeOK
<1>1. rows'[i] = [rows[i] EXCEPT !.draft = d + 1, !.raw = FALSE]
  BY DEF DraftMoved
<1>2. rows[i].mail = m /\ rows[i].draft = d
  BY DEF DraftMoved, ByDraft
<1>3. rows'[i] \in Queued
  <2>1. rows[i] \in Queued /\ d + 1 \in 0..MaxDraft
    OBVIOUS
  <2> QED
    BY <1>1, <2>1 DEF Queued
<1> QED
  BY <1>1, <1>2, <1>3 DEF Queued

\* A save moves no row that is not there.
LEMMA NoneMoved ==
  ASSUME TypeOK, NEW m \in Mails, NEW d \in 1..(MaxDraft - 1), DraftMoved(m, d),
         NEW i \in Ids, rows[i] = NoRow
  PROVE  rows'[i] = NoRow
  BY DEF TypeOK, DraftMoved, ByDraft

LEMMA EnvironmentTyped == TypeOK /\ Environment => TypeOK'
<1> SUFFICES ASSUME TypeOK, Environment PROVE TypeOK'
  OBVIOUS
<1> USE OutboxAssumption DEF TypeOK, table, callers, server, history, world
<1>1. CASE Tick
  BY <1>1 DEF Tick, Time
<1>2. CASE Crash
  <2>1. /\ pc' \in [Callers -> Labels] /\ msg' \in [Callers -> Queued]
        /\ since' \in [Callers -> Time] /\ todo' \subseteq Ids /\ began' \in Time
    BY <1>2, BlankTyped DEF Crash, Labels, Time
  <2> QED
    BY <1>2, <2>1, SpendTyped DEF Crash
<1>3. CASE Disconnect
  BY <1>3, SpendTyped DEF Disconnect
<1>4. CASE Connect
  BY <1>4 DEF Connect
<1>5. CASE SwitchHolds
  BY <1>5, SpendTyped DEF SwitchHolds
<1>6. CASE SwitchEnds
  BY <1>6 DEF SwitchEnds
<1>7. ASSUME NEW c \in Callers, CallerDies(c) PROVE TypeOK'
  BY <1>7, DoneTyped, SpendTyped DEF CallerDies
<1> QED
  BY <1>1, <1>2, <1>3, <1>4, <1>5, <1>6, <1>7 DEF Environment

LEMMA SavedTyped == TypeOK /\ Saved => TypeOK'
<1> SUFFICES ASSUME TypeOK, NEW m \in Mails, NEW d \in 1..(MaxDraft - 1), DraftMoved(m, d)
             PROVE  TypeOK'
  BY DEF Saved
<1>1. rows' \in [Ids -> Queued \cup {NoRow}]
  <2>1. \A i \in Ids : rows'[i] \in Queued \cup {NoRow}
    BY MovedRow, NoneMoved DEF TypeOK
  <2> QED
    BY <2>1 DEF DraftMoved, TypeOK
<1>2. moving' \in [Mails -> SUBSET (1..(MaxDraft - 1))]
  BY DEF DraftMoved, TypeOK
<1>3. faults' \in 0..MaxFaults
  BY SpendTyped DEF DraftMoved, TypeOK
<1> QED
  BY <1>1, <1>2, <1>3 DEF DraftMoved, TypeOK, callers, history

LEMMA NextTyped == TypeOK /\ [Next]_vars => TypeOK'
<1> SUFFICES ASSUME TypeOK, [Next]_vars PROVE TypeOK'
  OBVIOUS
<1>1. CASE Next
  BY <1>1, PassTyped, StepTyped, AskTyped, SavedTyped, EnvironmentTyped DEF Next
<1>2. CASE UNCHANGED vars
  BY <1>2 DEF vars, TypeOK
<1> QED
  BY <1>1, <1>2

\* Every variable keeps its type, whatever people, servers and clocks do.
THEOREM TypeCorrect == Spec => []TypeOK
<1>1. Init => TypeOK
  BY InitTyped
<1>2. TypeOK /\ [Next]_vars => TypeOK'
  BY NextTyped
<1> QED
  BY <1>1, <1>2, PTL DEF Spec

----------------------------------------------------------------------------
(* Who holds what.                                                         *)

\* The row a caller works on is in the table.
LEMMA WorkingRow ==
  ASSUME Apart, NEW c \in Callers, Working(c)
  PROVE  /\ msg[c].id \in Ids /\ msg[c] \in Queued
         /\ rows[msg[c].id] # NoRow /\ rows[msg[c].id] \in Queued
<1>1. msg[c] \in Queued
  BY DEF Apart, Held, TypeOK
<1>2. msg[c].id \in Ids
  BY <1>1, OutboxAssumption DEF Queued, Ids, Working
<1>3. rows[msg[c].id] # NoRow
  BY DEF Apart, Held, ClaimsHeld
<1> QED
  BY <1>1, <1>2, <1>3 DEF Apart, Held, TypeOK

\* Two callers never work on one row: their rows carry different mails.
LEMMA IdsApart ==
  ASSUME Apart, NEW c \in Callers, NEW d \in Callers,
         Working(c), Working(d), c # d
  PROVE  msg[c].id # msg[d].id
  BY DEF Apart, Held, ClaimsHeld, CallersApart, Working

\* A caller that lets its row go disturbs nobody else's, when it has touched
\* no other row in use.
LEMMA OthersHold ==
  ASSUME Apart, TypeOK', NEW c \in Callers, ~Working(c)', now' = now,
         \A d \in Callers \ {c} :
            pc'[d] = pc[d] /\ msg'[d] = msg[d] /\ since'[d] = since[d],
         \A i \in Ids : (rows[i] # NoRow /\ (Working(c) => i # msg[c].id))
            => rows'[i] = rows[i] /\ claims'[i] = claims[i]
  PROVE  ClaimsHeld'
<1> SUFFICES ASSUME NEW d \in Callers, Working(d)'
             PROVE  (/\ rows[msg[d].id] # NoRow
                     /\ rows[msg[d].id].mail = msg[d].mail
                     /\ NoSaves => /\ rows[msg[d].id].raw = msg[d].raw
                                   /\ rows[msg[d].id].draft = msg[d].draft
                     /\ pc[d] \in Untold => rows[msg[d].id].attempts = msg[d].attempts
                     /\ pc[d] \in Tried \ {"retry"} => rows[msg[d].id].attempts > 0
                     /\ claims[msg[d].id] = since[d]
                     /\ now <= since[d] + ClaimLasts)'
  BY DEF ClaimsHeld
<1>1. d # c /\ pc'[d] = pc[d] /\ msg'[d] = msg[d] /\ since'[d] = since[d]
  OBVIOUS
<1>2. Working(d)
  BY <1>1 DEF Working, Active
<1>3. msg[d].id \in Ids /\ rows[msg[d].id] # NoRow
  BY <1>2, WorkingRow
<1>4. Working(c) => msg[d].id # msg[c].id
  BY <1>1, <1>2, IdsApart
<1>5. rows'[msg[d].id] = rows[msg[d].id] /\ claims'[msg[d].id] = claims[msg[d].id]
  BY <1>3, <1>4
<1> QED
  BY <1>1, <1>2, <1>5 DEF Apart, Held, ClaimsHeld

\* Keeping a mail writes its own row, or a new one when it has none.
LEMMA KeepWrites ==
  ASSUME Apart, NEW c \in Callers, Active(c), NEW n \in 0..MostTries, Keep(c, n)
  PROVE  \E i \in Ids, r \in Queued :
            /\ rows' = [rows EXCEPT ![i] = r]
            /\ claims' = [claims EXCEPT ![i] = Free]
            /\ IF msg[c].id = 0 THEN rows[i] = NoRow ELSE i = msg[c].id
            /\ r.id = i /\ r.mail = msg[c].mail /\ r.attempts = n
            /\ r.raw = msg[c].raw /\ r.draft = msg[c].draft
<1> DEFINE k == Kept(msg[c], n)
<1>1. msg[c] \in Queued /\ k \in Queued
  BY KeptTyped DEF Apart, Held, TypeOK
<1>2. /\ k.id = msg[c].id /\ k.mail = msg[c].mail /\ k.attempts = n
      /\ k.raw = msg[c].raw /\ k.draft = msg[c].draft
  BY <1>1 DEF Kept, Queued
<1>3. PICK i \in PutIds(k) :
        IF ByDraft(k) \subseteq {i}
        THEN /\ rows' = [rows EXCEPT ![i] = [k EXCEPT !.id = i]]
             /\ claims' = [claims EXCEPT ![i] = Free]
        ELSE UNCHANGED <<rows, claims>>
  BY DEF Keep, Put
<1>4. i \in Ids
  BY <1>1, PutIdsTyped
<1>5. ByDraft(k) \subseteq {i} /\ IF msg[c].id = 0 THEN rows[i] = NoRow ELSE i = msg[c].id
  <2>1. CASE msg[c].id # 0
    <3>1. rows[msg[c].id] # NoRow /\ rows[msg[c].id].mail = k.mail
      BY <1>2, <2>1 DEF Apart, Held, ClaimsHeld, Working
    <3>2. i = msg[c].id
      BY <1>2, <1>3, <2>1, <3>1 DEF PutIds
    <3> QED
      BY <1>4, <2>1, <3>1, <3>2 DEF ByDraft, Apart, Held, RowsApart
  <2>2. CASE msg[c].id = 0
    <3>1. ByDraft(k) = {}
      BY <1>2, <2>2 DEF ByDraft, Apart, Held, NewHasNoRow
    <3>2. i \in NextIds
      BY <1>2, <1>3, <2>2, <3>1 DEF PutIds
    <3> QED
      BY <1>4, <2>2, <3>1, <3>2 DEF NextIds, Ids
  <2> QED
    BY <2>1, <2>2
<1>6. [k EXCEPT !.id = i] \in Queued
  BY <1>1, <1>4 DEF Queued, Ids
<1>7. WITNESS i \in Ids, [k EXCEPT !.id = i] \in Queued
<1> QED
  BY <1>1, <1>2, <1>3, <1>4, <1>5 DEF Queued

\* Claiming a row in use: no working caller has it, so nobody has its mail.
LEMMA TakeApart ==
  ASSUME Apart, TypeOK', NEW c \in Callers, NEW i \in Ids,
         ~Active(c), NEW l \in {"claimed", "posted", "canceling"},
         ClaimFor(c, i), Take(c, rows[i], l), UNCHANGED <<rows, now>>
  PROVE  Held'
<1> USE OutboxAssumption DEF Apart, Held, TypeOK, Active, Working, Tried, Untold
<1>0. rows[i] # NoRow /\ rows[i] \in Queued /\ rows[i].id = i
  BY DEF ClaimFor, Claimable, RowsApart
<1>1. \A d \in Callers : Working(d) => msg[d].id # i /\ msg[d].id \in Ids
  <2> SUFFICES ASSUME NEW d \in Callers, Working(d) PROVE msg[d].id # i /\ msg[d].id \in Ids
    OBVIOUS
  <2>1. claims[msg[d].id] = since[d] /\ now <= since[d] + ClaimLasts /\ since[d] \in Time
    BY DEF ClaimsHeld
  <2>2. claims[i] = Free \/ claims[i] + ClaimLasts < now
    BY DEF ClaimFor, Claimable
  <2>3. msg[d].id # i
    BY <2>1, <2>2 DEF Time, Free
  <2> QED
    BY <2>3, WorkingRow
<1>2. \A d \in Callers : Active(d) => msg[d].mail # rows[i].mail
  <2> SUFFICES ASSUME NEW d \in Callers, Active(d) PROVE msg[d].mail # rows[i].mail
    OBVIOUS
  <2>1. CASE msg[d].id = 0
    BY <1>0, <2>1 DEF NewHasNoRow
  <2>2. CASE msg[d].id # 0
    <3>1. /\ msg[d].id \in Ids /\ msg[d].id # i /\ rows[msg[d].id] # NoRow
          /\ rows[msg[d].id].mail = msg[d].mail
      BY <1>1, <2>2 DEF ClaimsHeld
    <3> QED
      BY <1>0, <3>1 DEF RowsApart
  <2> QED
    BY <2>1, <2>2
<1>3. RowsApart'
  BY DEF RowsApart
<1>4. NewHasNoRow'
  BY <1>0 DEF NewHasNoRow, Take, Ids
<1>5. CallersApart'
  BY <1>2 DEF CallersApart, Take
<1>6. ClaimsHeld'
  <2>1. ASSUME NEW d \in Callers, d # c, Working(d)'
        PROVE  /\ Working(d) /\ claims'[msg[d].id] = claims[msg[d].id]
               /\ pc'[d] = pc[d] /\ msg'[d] = msg[d] /\ since'[d] = since[d]
    BY <1>1, <2>1 DEF Take, ClaimFor
  <2>2. claims'[i] = now /\ since'[c] = now /\ msg'[c] = rows[i]
    BY DEF Take, ClaimFor
  <2>3. now <= now + ClaimLasts
    BY DEF Time
  <2> QED
    BY <1>0, <2>1, <2>2, <2>3 DEF ClaimsHeld, Take
<1> QED
  BY <1>3, <1>4, <1>5, <1>6

\* A caller without a row lets nothing go.
LEMMA DoneApart ==
  ASSUME Apart, TypeOK', NEW c \in Callers, ~Active(c), Done(c), UNCHANGED <<table, now>>
  PROVE  Held'
<1> USE DEF Apart, Held, table, Active, Working
<1>1. RowsApart'
  BY DEF RowsApart
<1>2. ~Active(c)'
  BY DEF Done, TypeOK
<1>3. NewHasNoRow' /\ CallersApart'
  BY <1>2 DEF Done, NewHasNoRow, CallersApart
<1>4. ClaimsHeld'
  BY <1>2, OthersHold DEF Done
<1> QED
  BY <1>1, <1>3, <1>4

\* A try under way that goes on to its next label leaves everyone's rows alone.
LEMMA OnwardApart ==
  ASSUME Apart, TypeOK', NEW c \in Callers, NEW l \in Tried,
         pc[c] \in Tried \ {"retry"}, Goto(c, l), UNCHANGED <<table, now>>
  PROVE  Held'
<1>1. /\ pc' = [pc EXCEPT ![c] = l] /\ pc \in [Callers -> Labels]
      /\ msg' = msg /\ since' = since
      /\ rows' = rows /\ claims' = claims /\ now' = now
  BY DEF Goto, table, Apart, Held, TypeOK
<1>2. pc'[c] = l /\ \A d \in Callers \ {c} : pc'[d] = pc[d]
  BY <1>1
<1>3. \A d \in Callers : (Active(d) <=> Active(d)') /\ (Working(d) <=> Working(d)')
  BY <1>1, <1>2 DEF Active, Working, Tried
<1>4. RowsApart'
  BY <1>1 DEF Apart, Held, RowsApart
<1>5. NewHasNoRow'
  BY <1>1, <1>2, <1>3 DEF Apart, Held, NewHasNoRow, Tried
<1>6. CallersApart'
  BY <1>1, <1>3 DEF Apart, Held, CallersApart
<1>7. ClaimsHeld'
  <2>1. ASSUME NEW d \in Callers, pc'[d] \in Untold PROVE pc[d] \in Untold
    BY <1>2, <2>1 DEF Untold, Tried
  <2>2. ASSUME NEW d \in Callers, pc'[d] \in Tried \ {"retry"}
        PROVE  pc[d] \in Tried \ {"retry"}
    BY <1>2, <2>2
  <2> QED
    BY <1>1, <1>3, <2>1, <2>2 DEF Apart, Held, ClaimsHeld
<1> QED
  BY <1>4, <1>5, <1>6, <1>7 DEF Held

LEMMA StepApart ==
  ASSUME Careful, Apart, NEW c \in Callers, Step(c), TypeOK'
  PROVE  Held'
<1>0. msg[c] \in Queued /\ msg[c].mail \in Mails /\ msg[c].id \in 0..MaxId
  BY DEF Apart, Held, TypeOK, Queued
<1> USE OutboxAssumption, <1>0
    DEF Apart, Held, TypeOK, table, callers, server, history, world, Active, Working, Tried, Untold
<1>1. CASE PostClaim(c)
  <2>1. CASE /\ ClaimFor(c, msg[c].id) /\ Take(c, msg[c], "posted")
             /\ rows[msg[c].id] = msg[c]
    <3>1. msg[c].id \in Ids
      BY <2>1 DEF ClaimFor, Claimable
    <3> QED
      BY <1>1, <2>1, <3>1, TakeApart DEF PostClaim
  <2>2. CASE Done(c) /\ UNCHANGED claims
    BY <1>1, <2>2, DoneApart DEF PostClaim
  <2> QED
    BY <1>1, <2>1, <2>2 DEF PostClaim, Careful
<1>2. CASE PostGo(c)
  <2>1. CASE locked
    <3>1. RowsApart'
      BY <1>2, <2>1 DEF PostGo, Done, Release, RowsApart
    <3>2. NewHasNoRow'
      BY <1>2, <2>1 DEF PostGo, Done, Release, NewHasNoRow
    <3>3. CallersApart'
      BY <1>2, <2>1 DEF PostGo, Done, Release, CallersApart
    <3>4. ClaimsHeld'
      BY <1>2, <2>1, OthersHold DEF PostGo, Done, Release, NewHasNoRow
    <3> QED
      BY <3>1, <3>2, <3>3, <3>4
  <2>2. CASE ~(locked)
    <3>1. RowsApart' /\ NewHasNoRow' /\ CallersApart'
      BY <1>2, <2>2, SMTT(30) DEF PostGo, Goto, RowsApart, NewHasNoRow, CallersApart, ClaimsHeld
    <3>2. ClaimsHeld'
      BY <1>2, <2>2 DEF PostGo, Goto, RowsApart, NewHasNoRow, CallersApart, ClaimsHeld
    <3> QED
      BY <3>1, <3>2
  <2> QED
    BY <2>1, <2>2
<1>3. CASE AttemptOffline(c)
  <2>1. CASE msg[c].id # 0
    <3>1. RowsApart'
      BY <1>3, <2>1 DEF AttemptOffline, Done, Release, RowsApart
    <3>2. NewHasNoRow'
      BY <1>3, <2>1 DEF AttemptOffline, Done, Release, NewHasNoRow
    <3>3. CallersApart'
      BY <1>3, <2>1 DEF AttemptOffline, Done, Release, CallersApart
    <3>4. ClaimsHeld'
      BY <1>3, <2>1, OthersHold DEF AttemptOffline, Done, Release, NewHasNoRow
    <3> QED
      BY <3>1, <3>2, <3>3, <3>4
  <2>2. CASE ~(msg[c].id # 0)
    <3>1. RowsApart' /\ NewHasNoRow' /\ CallersApart'
      BY <1>3, <2>2, SMTT(30) DEF AttemptOffline, Goto, RowsApart, NewHasNoRow, CallersApart, ClaimsHeld
    <3>2. ClaimsHeld'
      BY <1>3, <2>2 DEF AttemptOffline, Goto, RowsApart, NewHasNoRow, CallersApart, ClaimsHeld
    <3> QED
      BY <3>1, <3>2
  <2> QED
    BY <2>1, <2>2
<1>4. CASE Attempt(c)
  <2> DEFINE i == msg[c].id
  <2>1. CASE rows' = rows /\ (i = 0 \/ pc' = [pc EXCEPT ![c] = "retry"])
    <3>1. RowsApart' /\ NewHasNoRow' /\ CallersApart'
      BY <1>4, <2>1, SMTT(30) DEF Attempt, Goto, RowsApart, NewHasNoRow, CallersApart
    <3> QED
      BY <1>4, <2>1, <3>1 DEF Attempt, Goto, ClaimsHeld
  <2>2. CASE i # 0 /\ CountTry(i)
    <3>1. Working(c) /\ i \in Ids /\ rows[i] \in Queued /\ rows[i] # NoRow
      BY <1>4, <2>2, WorkingRow DEF Attempt
    <3> DEFINE n == Least(rows[i].attempts + 1, MostTries)
    <3>2. n > 0
      BY <3>1 DEF Queued, Least
    <3>3. rows' = [rows EXCEPT ![i] = [rows[i] EXCEPT !.attempts = n]]
      BY <2>2, <3>1 DEF CountTry
    <3>4. /\ \A j \in Ids \ {i} : rows'[j] = rows[j]
          /\ rows'[i].mail = rows[i].mail
          /\ rows'[i].raw = rows[i].raw /\ rows'[i].draft = rows[i].draft
      BY <3>1, <3>3 DEF Queued
    <3>5. rows'[i] # NoRow
      <4>1. rows[i].attempts \in 0..MostTries
        BY <3>1 DEF Queued
      <4>2. n \in 0..MostTries
        BY <4>1, LeastTyped
      <4>3. rows'[i] \in Queued
        BY <3>1, <3>3, <4>2 DEF Queued
      <4> QED
        BY <4>3
    <3>6. rows'[i].attempts > 0
      BY <3>1, <3>2, <3>3 DEF Queued
    <3>7. RowsApart'
      BY <3>1, <3>3 DEF RowsApart, Queued
    <3>8. NewHasNoRow'
      <4>1. \A d \in Callers : (Active(d) /\ msg[d].id = 0)' => Active(d) /\ d # c
        BY <1>4, <2>2 DEF Attempt, Goto
      <4> QED
        BY <1>4, <3>1, <3>4, <4>1 DEF Attempt, Goto, NewHasNoRow
    <3>9. CallersApart'
      BY <1>4 DEF Attempt, Goto, CallersApart
    <3>10. \A d \in Callers \ {c} : Working(d) => msg[d].id # i /\ msg[d].id \in Ids
      BY <3>1, IdsApart, WorkingRow
    <3>11. ClaimsHeld'
      <4>1. CASE pc' = [pc EXCEPT ![c] = "lookSent"] \/ pc' = [pc EXCEPT ![c] = "send"]
        <5>1. ASSUME NEW d \in Callers, Working(d)', d # c
              PROVE  Working(d) /\ pc'[d] = pc[d] /\ rows'[msg[d].id] = rows[msg[d].id]
          BY <1>4, <3>4, <3>10, <4>1, <5>1 DEF Attempt, Goto
        <5>2. /\ rows'[i] # NoRow
              /\ rows'[i].mail = msg[c].mail
              /\ NoSaves => rows'[i].raw = msg[c].raw /\ rows'[i].draft = msg[c].draft
          BY <3>1, <3>4, <3>5 DEF ClaimsHeld
        <5>3. claims[i] = since[c] /\ now <= since[c] + ClaimLasts
          BY <3>1 DEF ClaimsHeld
        <5> QED
          BY <1>4, <3>6, <4>1, <5>1, <5>2, <5>3 DEF Attempt, Goto, ClaimsHeld
      <4> QED
        BY <1>4, <2>2, <3>1, <4>1 DEF Attempt, Goto, ClaimsHeld
    <3> QED
      BY <3>7, <3>8, <3>11, <3>9
  <2> QED
    BY <1>4, <2>1, <2>2 DEF Attempt, CountTry, Goto
<1>5. CASE LookSent(c)
  <2>1. PICK l \in Tried : Goto(c, l)
    BY <1>5 DEF LookSent
  <2>2. pc[c] \in Tried \ {"retry"} /\ UNCHANGED <<table, now>>
    BY <1>5 DEF LookSent
  <2> HIDE DEF TypeOK, Apart, Held, table, Tried
  <2> QED
    BY <2>1, <2>2, OnwardApart
<1>6. CASE Send(c)
  <2>1. PICK l \in Tried : Goto(c, l)
    BY <1>6 DEF Send
  <2>2. pc[c] \in Tried \ {"retry"} /\ UNCHANGED <<table, now>>
    BY <1>6 DEF Send
  <2> HIDE DEF TypeOK, Apart, Held, table, Tried
  <2> QED
    BY <2>1, <2>2, OnwardApart
<1>7. CASE SendGone(c)
  <2>1. PICK l \in Tried : Goto(c, l)
    BY <1>7 DEF SendGone
  <2>2. pc[c] \in Tried \ {"retry"} /\ UNCHANGED <<table, now>>
    BY <1>7 DEF SendGone
  <2> HIDE DEF TypeOK, Apart, Held, table, Tried
  <2> QED
    BY <2>1, <2>2, OnwardApart
<1>8. CASE SendFails(c)
  <2>1. PICK l \in Tried : Goto(c, l)
    BY <1>8 DEF SendFails
  <2>2. pc[c] \in Tried \ {"retry"} /\ UNCHANGED <<table, now>>
    BY <1>8 DEF SendFails
  <2> HIDE DEF TypeOK, Apart, Held, table, Tried
  <2> QED
    BY <2>1, <2>2, OnwardApart
<1>9. CASE FileSent(c)
  <2>1. PICK l \in Tried : Goto(c, l)
    BY <1>9 DEF FileSent
  <2>2. pc[c] \in Tried \ {"retry"} /\ UNCHANGED <<table, now>>
    BY <1>9 DEF FileSent
  <2> HIDE DEF TypeOK, Apart, Held, table, Tried
  <2> QED
    BY <2>1, <2>2, OnwardApart
<1>10. CASE ForgetSent(c)
  <2>1. RowsApart' /\ NewHasNoRow' /\ CallersApart'
    BY <1>10 DEF ForgetSent, Remove, ByDraft, Done, RowsApart, NewHasNoRow, CallersApart, ClaimsHeld
  <2>2. ClaimsHeld'
    BY <1>10, OthersHold, SMTT(30) DEF ForgetSent, Remove, ByDraft, Done, NewHasNoRow
  <2> QED
    BY <2>1, <2>2
<1>11. CASE KeepRetry(c)
  <2>1. Active(c) /\ Least(msg[c].attempts + 1, MostTries) \in 0..MostTries
    BY <1>11, LeastTyped DEF KeepRetry, Queued
  <2> DEFINE n == Least(msg[c].attempts + 1, MostTries)
  <2>2. PICK i \in Ids, r \in Queued :
          /\ rows' = [rows EXCEPT ![i] = r]
          /\ claims' = [claims EXCEPT ![i] = Free]
          /\ IF msg[c].id = 0 THEN rows[i] = NoRow ELSE i = msg[c].id
          /\ r.id = i /\ r.mail = msg[c].mail /\ r.attempts = n
          /\ r.raw = msg[c].raw /\ r.draft = msg[c].draft
    <3>1. n \in 0..MostTries /\ Keep(c, n)
      BY <1>11, <2>1 DEF KeepRetry
    <3> HIDE DEF n, TypeOK, Held, Apart, Active, Working
    <3> QED
      BY <2>1, <3>1, KeepWrites
  <2>3. RowsApart'
    BY <2>1, <2>2 DEF RowsApart, ClaimsHeld, NewHasNoRow
  <2>4. NewHasNoRow' /\ CallersApart'
    BY <1>11, <2>2 DEF KeepRetry, Done, NewHasNoRow, CallersApart
  <2>5. ClaimsHeld'
    BY <1>11, <2>2, OthersHold DEF KeepRetry, Done
  <2> QED
    BY <2>3, <2>4, <2>5
<1>12. CASE KeepRefused(c)
  <2>1. CASE msg[c].id = 0
    <3>1. RowsApart' /\ NewHasNoRow' /\ CallersApart'
      BY <1>12, <2>1 DEF KeepRefused, Done, RowsApart, NewHasNoRow, CallersApart
    <3> QED
      BY <1>12, <2>1, <3>1, OthersHold DEF KeepRefused, Done
  <2>2. CASE msg[c].id # 0
    <3>1. Active(c) /\ MostTries \in 0..MostTries
      BY <1>12 DEF KeepRefused, Queued
    <3>2. PICK i \in Ids, r \in Queued :
            /\ rows' = [rows EXCEPT ![i] = r]
            /\ claims' = [claims EXCEPT ![i] = Free]
            /\ IF msg[c].id = 0 THEN rows[i] = NoRow ELSE i = msg[c].id
            /\ r.id = i /\ r.mail = msg[c].mail /\ r.attempts = MostTries
            /\ r.raw = msg[c].raw /\ r.draft = msg[c].draft
      <4>1. Keep(c, MostTries)
        BY <1>12, <2>2 DEF KeepRefused
      <4> HIDE DEF TypeOK, Held, Apart, Active, Working
      <4> QED
        BY <3>1, <4>1, KeepWrites
    <3>3. RowsApart'
      BY <3>1, <3>2 DEF RowsApart, ClaimsHeld, NewHasNoRow
    <3>4. NewHasNoRow' /\ CallersApart'
      BY <1>12, <2>2, <3>2 DEF KeepRefused, Done, NewHasNoRow, CallersApart
    <3>5. ClaimsHeld'
      BY <1>12, <2>2, <3>2, OthersHold DEF KeepRefused, Done
    <3> QED
      BY <3>3, <3>4, <3>5
  <2> QED
    BY <2>1, <2>2
<1>13. CASE CancelClaim(c)
  <2>1. CASE ClaimFor(c, msg[c].id) /\ Take(c, rows[msg[c].id], "canceling")
    <3>1. msg[c].id \in Ids
      BY <2>1 DEF ClaimFor, Claimable
    <3> QED
      BY <1>13, <2>1, <3>1, TakeApart DEF CancelClaim
  <2>2. CASE Done(c) /\ UNCHANGED claims
    BY <1>13, <2>2, DoneApart DEF CancelClaim
  <2> QED
    BY <1>13, <2>1, <2>2 DEF CancelClaim
<1>14. CASE CancelSave(c)
  <2>1. Working(c) /\ \E l \in {"canceled", "unsaved"} : Goto(c, l)
    BY <1>14 DEF CancelSave, NewHasNoRow
  <2>2. PICK l \in {"canceled", "unsaved"} : Goto(c, l)
    BY <2>1
  <2>3. UNCHANGED <<rows, claims, now>>
    BY <1>14 DEF CancelSave
  <2>4. RowsApart' /\ CallersApart'
    BY <1>14, <2>2, <2>3 DEF CancelSave, Goto, RowsApart, CallersApart
  <2>5. NewHasNoRow'
    BY <2>1, <2>2, <2>3 DEF Goto, NewHasNoRow
  <2>6. ClaimsHeld'
    BY <1>14, <2>2, <2>3 DEF CancelSave, Goto, ClaimsHeld
  <2> QED
    BY <2>4, <2>5, <2>6
<1>15. CASE CancelEnd(c)
  <2>1. Working(c)
    BY <1>15 DEF CancelEnd, NewHasNoRow
  <2>2. RowsApart'
    BY <1>15 DEF CancelEnd, Remove, RowsApart
  <2>3. NewHasNoRow'
    BY <1>15 DEF CancelEnd, Remove, Done, NewHasNoRow
  <2>4. CallersApart'
    BY <1>15 DEF CancelEnd, Done, CallersApart
  <2>5. ClaimsHeld'
    BY <1>15, <2>1, OthersHold DEF CancelEnd, Remove, Done
  <2> QED
    BY <2>2, <2>3, <2>4, <2>5
<1>16. CASE CancelReopened(c)
  <2>1. RowsApart' /\ NewHasNoRow' /\ CallersApart'
    BY <1>16 DEF CancelReopened, Remove, Done, RowsApart, NewHasNoRow, CallersApart, ClaimsHeld
  <2>2. ClaimsHeld'
    BY <1>16, OthersHold DEF CancelReopened, Remove, Done, NewHasNoRow
  <2> QED
    BY <2>1, <2>2
<1> QED
  BY <1>1, <1>2, <1>3, <1>4, <1>5, <1>6, <1>7, <1>8, <1>9, <1>10, <1>11, <1>12, <1>13, <1>14, <1>15,
     <1>16 DEF Step

LEMMA PassApart ==
  ASSUME Careful, Apart, PassStep, TypeOK'
  PROVE  Held'
<1> USE OutboxAssumption
    DEF Apart, Held, TypeOK, table, callers, server, history, world, Active, Working, Tried, Untold
<1>0. Pass \in Callers
  BY DEF Callers
<1>1. CASE PassStart
  BY <1>1 DEF PassStart, Goto, RowsApart, ClaimsHeld, NewHasNoRow, CallersApart
<1>2. ASSUME NEW i \in Ids, PassClaim(i) PROVE Held'
  <2>1. CASE ClaimFor(Pass, i) /\ Take(Pass, rows[i], "claimed")
    BY <1>0, <1>2, <2>1, TakeApart DEF PassClaim
  <2>2. CASE UNCHANGED <<claims, since, msg, pc>>
    BY <1>2, <2>2 DEF PassClaim, RowsApart, ClaimsHeld, NewHasNoRow, CallersApart
  <2> QED
    BY <1>2, <2>1, <2>2 DEF PassClaim
<1>3. CASE PassGo
  <2>1. CASE PassDue
    <3>1. RowsApart' /\ CallersApart'
      BY <1>0, <1>3, <2>1 DEF PassGo, Goto, RowsApart, CallersApart
    <3>2. NewHasNoRow'
      BY <1>0, <1>3, <2>1 DEF PassGo, Goto, NewHasNoRow
    <3>3. ClaimsHeld'
      BY <1>0, <1>3, <2>1 DEF PassGo, Goto, ClaimsHeld
    <3> QED
      BY <3>1, <3>2, <3>3
  <2>2. CASE ~PassDue
    <3>1. Working(Pass)
      BY <1>0, <1>3 DEF PassGo, NewHasNoRow
    <3>2. RowsApart' /\ CallersApart'
      BY <1>0, <1>3, <2>2 DEF PassGo, Done, RowsApart, CallersApart
    <3>3. NewHasNoRow'
      BY <1>0, <1>3, <2>2 DEF PassGo, Done, NewHasNoRow
    <3>4. ClaimsHeld'
      BY <1>0, <1>3, <2>2, <3>1, OthersHold DEF PassGo, Done, Release
    <3> QED
      BY <3>2, <3>3, <3>4
  <2> QED
    BY <2>1, <2>2
<1>4. CASE PassEnd
  BY <1>4 DEF PassEnd, Goto, RowsApart, ClaimsHeld, NewHasNoRow, CallersApart
<1> QED
  BY <1>1, <1>2, <1>3, <1>4 DEF PassStep

\* What people do to a row nobody is sending disturbs no caller.
LEMMA FreeRowsApart ==
  ASSUME Apart, TypeOK', UNCHANGED <<pc, msg, since, now>>,
         \A i \in Ids : (rows'[i] # rows[i] \/ claims'[i] # claims[i]) =>
            /\ rows[i] # NoRow /\ claims[i] = Free
            /\ rows'[i] # NoRow => rows'[i].mail = rows[i].mail /\ rows'[i].id = i
  PROVE  Held'
<1> USE DEF Apart, Held, Active, Working
<1>1. RowsApart'
  BY DEF RowsApart
<1>2. NewHasNoRow' /\ CallersApart'
  BY DEF NewHasNoRow, CallersApart
<1>3. ClaimsHeld'
  <2>1. ASSUME NEW d \in Callers, Working(d)
        PROVE  rows'[msg[d].id] = rows[msg[d].id] /\ claims'[msg[d].id] = claims[msg[d].id]
    <3>1. msg[d].id \in Ids /\ claims[msg[d].id] = since[d] /\ since[d] \in Time
      BY <2>1, WorkingRow DEF ClaimsHeld, TypeOK
    <3>2. claims[msg[d].id] # Free
      BY <3>1, OutboxAssumption DEF Time, Free
    <3> QED
      BY <3>1, <3>2
  <2> QED
    BY <2>1 DEF ClaimsHeld
<1> QED
  BY <1>1, <1>2, <1>3

LEMMA AskApart ==
  ASSUME Careful, Apart, Ask, TypeOK'
  PROVE  Held'
<1> USE OutboxAssumption
    DEF Apart, Held, TypeOK, table, callers, server, history, world, Active, Working, Tried, Untold
<1>1. ASSUME NEW c \in People, NEW m \in Mails, PostNew(c, m) PROVE Held'
  <2>1. c \in Callers
    BY DEF Callers
  <2>2. RowsApart' /\ CallersApart'
    BY <1>1, <2>1 DEF PostNew, MayPost, Careful, Take, RowsApart, CallersApart
  <2>3. NewHasNoRow'
    BY <1>1, <2>1 DEF PostNew, MayPost, Careful, Take, NewHasNoRow
  <2>4. ~Working(c)' /\ ~Working(c)
    BY <1>1, <2>1 DEF PostNew, Take
  <2>5. ClaimsHeld'
    BY <1>1, <2>1, <2>4, OthersHold DEF PostNew, Take
  <2> QED
    BY <2>2, <2>3, <2>5
<1>2. ASSUME NEW c \in People, NEW i \in Ids, SendOne(c, i) \/ Cancel(c, i) PROVE Held'
  <2>1. c \in Callers /\ ~Active(c) /\ ~Active(c)'
    BY <1>2 DEF SendOne, Cancel, Callers, Take
  <2>2. RowsApart' /\ CallersApart' /\ NewHasNoRow'
    BY <1>2, <2>1 DEF SendOne, Cancel, Take, RowsApart, CallersApart, NewHasNoRow
  <2>3. ClaimsHeld'
    BY <1>2, <2>1, OthersHold DEF SendOne, Cancel, Take
  <2> QED
    BY <2>2, <2>3
<1>3. ASSUME NEW i \in Ids, DropOne(i) PROVE Held'
  BY <1>3, FreeRowsApart DEF DropOne, MayAsk, Remove, Careful
<1>4. ASSUME NEW i \in Ids, DraftSave(i) PROVE Held'
  BY <1>4 DEF DraftSave, RowsApart, ClaimsHeld, NewHasNoRow, CallersApart
<1>5. ASSUME NEW i \in Ids, NEW at \in Time, Reschedule(i, at) PROVE Held'
  <2>1. rows[i] \in Queued /\ rows[i].id = i /\ claims[i] = Free /\ rows[i] # NoRow
    BY <1>5 DEF Reschedule, MayAsk, Careful, RowsApart
  <2>2. PutIds([rows[i] EXCEPT !.at = at]) = {i}
    BY <2>1, SMTT(30) DEF PutIds, Queued, Ids
  <2>3. \/ rows' = [rows EXCEPT ![i] = [[rows[i] EXCEPT !.at = at] EXCEPT !.id = i]]
           /\ claims' = [claims EXCEPT ![i] = Free]
        \/ rows' = rows /\ claims' = claims
    BY <1>5, <2>2 DEF Reschedule, Put
  <2>4. /\ [[rows[i] EXCEPT !.at = at] EXCEPT !.id = i].mail = rows[i].mail
        /\ [[rows[i] EXCEPT !.at = at] EXCEPT !.id = i].id = i
    BY <2>1 DEF Queued
  <2>5. rows'[i] # rows[i] => rows'[i].mail = rows[i].mail /\ rows'[i].id = i
    BY <2>3, <2>4
  <2>6. \A j \in Ids \ {i} : rows'[j] = rows[j] /\ claims'[j] = claims[j]
    BY <2>3
  <2> QED
    BY <1>5, <2>1, <2>5, <2>6, FreeRowsApart DEF Reschedule
<1>6. CASE TryNow
  <2>1. ASSUME NEW i \in Ids
        PROVE  /\ rows'[i] # NoRow <=> rows[i] # NoRow
               /\ rows[i] # NoRow =>
                    /\ rows'[i].mail = rows[i].mail /\ rows'[i].id = rows[i].id
                    /\ rows'[i].raw = rows[i].raw /\ rows'[i].draft = rows[i].draft
                    /\ rows'[i].attempts = rows[i].attempts
    <3>1. CASE rows'[i] = rows[i]
      BY <3>1
    <3>2. CASE rows[i] # NoRow /\ rows'[i] = [rows[i] EXCEPT !.at = now]
      <4>1. rows[i] \in Queued /\ now \in Time
        BY <3>2
      <4>2. rows'[i] \in Queued
        BY <3>2, <4>1 DEF Queued
      <4>3. rows'[i] # NoRow
        BY <4>2
      <4> QED
        BY <3>2, <4>1, <4>3 DEF Queued
    <3> QED
      BY <1>6, <3>1, <3>2 DEF TryNow
  <2>2. RowsApart' /\ NewHasNoRow' /\ CallersApart'
    BY <1>6, <2>1 DEF TryNow, RowsApart, NewHasNoRow, CallersApart
  <2>3. ClaimsHeld'
    BY <1>6, <2>1, WorkingRow DEF TryNow, ClaimsHeld
  <2> QED
    BY <2>2, <2>3
<1> QED
  BY <1>1, <1>2, <1>3, <1>4, <1>5, <1>6 DEF Ask

LEMMA EnvironmentApart ==
  ASSUME Careful, Apart, Environment, TypeOK'
  PROVE  Held'
<1> USE OutboxAssumption
    DEF Apart, Held, TypeOK, table, callers, server, history, world, Active, Working, Tried, Untold
<1>1. CASE Tick
  <2>1. RowsApart' /\ NewHasNoRow' /\ CallersApart'
    BY <1>1 DEF Tick, RowsApart, NewHasNoRow, CallersApart
  <2> QED
    BY <1>1, <2>1 DEF Tick, ClaimsHeld, Careful
<1>2. CASE Crash
  BY <1>2 DEF Crash, RowsApart, ClaimsHeld, NewHasNoRow, CallersApart
<1>3. CASE Disconnect \/ Connect \/ SwitchHolds \/ SwitchEnds
  BY <1>3 DEF Disconnect, Connect, SwitchHolds, SwitchEnds,
              RowsApart, ClaimsHeld, NewHasNoRow, CallersApart
<1>4. ASSUME NEW c \in Callers, CallerDies(c) PROVE Held'
  <2>1. RowsApart' /\ NewHasNoRow' /\ CallersApart'
    BY <1>4 DEF CallerDies, Done, RowsApart, NewHasNoRow, CallersApart
  <2> QED
    BY <1>4, <2>1, OthersHold DEF CallerDies, Done
<1> QED
  BY <1>1, <1>2, <1>3, <1>4 DEF Environment

LEMMA InitApart == Init => Apart
<1> SUFFICES ASSUME Init PROVE Apart
  OBVIOUS
<1>0. DraftsStay
  <2>1. ASSUME NEW m \in Mails PROVE drafts[m] <= 1 /\ moving[m] = {}
    <3>1. drafts \in [Mails -> {0, 1}] /\ moving[m] = {}
      BY <2>1 DEF Init
    <3> QED
      BY <2>1, <3>1
  <2> QED
    BY <2>1, Zenon DEF DraftsStay
<1>1. TypeOK
  BY InitTyped
<1>2. RowsApart
  BY InitialRowsAssumption DEF Init, RowsApart
<1> QED
  BY <1>0, <1>1, <1>2 DEF Init, Apart, Held, ClaimsHeld, NewHasNoRow, CallersApart, Active, Working

\* The row that a save moves keeps its id, its mail and its tries.
LEMMA SavedApart ==
  ASSUME Apart, Saved, TypeOK'
  PROVE  Held'
<1> USE DEF Apart, Held, Active, Working, callers
<1>0. PICK m \in Mails, d \in 1..(MaxDraft - 1) : DraftMoved(m, d)
  BY DEF Saved
<1>1. ~NoSaves
  BY <1>0 DEF DraftMoved, DraftsStay
<1>2. UNCHANGED <<claims, pc, msg, since, now>>
  BY <1>0 DEF DraftMoved
<1>3. \A i \in Ids :
        /\ rows[i] = NoRow => rows'[i] = NoRow
        /\ rows[i] # NoRow =>
             /\ rows'[i] # NoRow /\ rows'[i].id = rows[i].id
             /\ rows'[i].mail = rows[i].mail /\ rows'[i].attempts = rows[i].attempts
  BY <1>0, MovedRow, NoneMoved
<1>4. RowsApart'
  BY <1>3 DEF RowsApart
<1>5. NewHasNoRow' /\ CallersApart'
  BY <1>2, <1>3 DEF NewHasNoRow, CallersApart
<1>6. ClaimsHeld'
  <2>1. \A c \in Callers : Working(c) => msg[c].id \in Ids
    BY WorkingRow
  <2> QED
    BY <1>1, <1>2, <1>3, <2>1 DEF ClaimsHeld
<1> QED
  BY <1>4, <1>5, <1>6

\* Only a save gives a mail a second draft.
LEMMA DraftsStayOn ==
  ASSUME Apart, Next
  PROVE  DraftsStay'
<1> SUFFICES ASSUME NoSaves
             PROVE  \A m \in Mails : drafts'[m] <= 1 /\ moving'[m] = {}
  BY DEF DraftsStay, NoSaves
<1> USE DEF Apart, Held, TypeOK, DraftsStay, table, server, callers, history, world
<1>1. \A m \in Mails : drafts[m] \in 0..MaxDraft /\ drafts[m] <= 1 /\ moving[m] = {}
  OBVIOUS
<1>2. ASSUME NEW c \in Callers, Step(c)
      PROVE  \A m \in Mails : drafts'[m] <= 1 /\ moving'[m] = {}
  <2>1. CASE UNCHANGED <<drafts, moving>>
    BY <1>1, <2>1
  <2>2. CASE DeleteDraft(msg[c]) /\ UNCHANGED moving
    BY <1>1, <2>2 DEF DeleteDraft
  <2>3. CASE CancelSave(c)
    BY <1>1, <2>3 DEF CancelSave
  <2>4. CASE \/ PostClaim(c) \/ PostGo(c) \/ AttemptOffline(c) \/ Attempt(c)
             \/ SendFails(c) \/ FileSent(c) \/ ForgetSent(c) \/ KeepRetry(c)
             \/ KeepRefused(c) \/ CancelClaim(c) \/ CancelEnd(c) \/ CancelReopened(c)
    BY <2>1, <2>4 DEF PostClaim, PostGo, AttemptOffline, Attempt, SendFails, FileSent,
       ForgetSent, KeepRetry, KeepRefused, CancelClaim, CancelEnd, CancelReopened
  <2>5. CASE LookSent(c) \/ Send(c) \/ SendGone(c)
    BY <2>1, <2>2, <2>5 DEF LookSent, Send, SendGone
  <2> QED
    BY <1>2, <2>3, <2>4, <2>5 DEF Step
<1>3. CASE PassStep
  BY <1>1, <1>3 DEF PassStep, PassStart, PassClaim, PassGo, PassEnd
<1>4. CASE Ask
  BY <1>1, <1>4 DEF Ask, PostNew, SendOne, Cancel, DropOne, DraftSave, MayAsk, NoSaves,
     Reschedule, TryNow
<1>5. CASE Saved
  BY <1>1, <1>5 DEF Saved, DraftMoved
<1>6. CASE Environment
  BY <1>1, <1>6 DEF Environment, Tick, Crash, Disconnect, Connect, SwitchHolds,
     SwitchEnds, CallerDies
<1> QED
  BY <1>2, <1>3, <1>4, <1>5, <1>6 DEF Next

LEMMA NextApart ==
  ASSUME Careful, Apart, [Next]_vars
  PROVE  Apart'
<1>1. TypeOK'
  BY NextTyped DEF Apart, Held
<1>2. CASE Next
  <2>1. Held'
    BY <1>1, <1>2, PassApart, StepApart, AskApart, SavedApart, EnvironmentApart DEF Next
  <2> QED
    BY <1>2, <2>1, DraftsStayOn DEF Apart
<1>3. CASE UNCHANGED vars
  BY <1>1, <1>3 DEF vars, Apart, Held, DraftsStay, RowsApart, ClaimsHeld, NewHasNoRow, CallersApart,
                    Active, Working
<1> QED
  BY <1>2, <1>3

\* A claim keeps a row to one caller, from the claim to its last write, while
\* callers finish within it and nobody writes under it.
THEOREM OneCallerAtATime == Careful => (Spec => []OneCallerPerRow)
<1> SUFFICES ASSUME Careful PROVE Spec => []OneCallerPerRow
  OBVIOUS
<1>1. Init => Apart
  BY InitApart
<1>2. Apart /\ [Next]_vars => Apart'
  BY NextApart
<1>3. Apart => OneCallerPerRow
  BY IdsApart DEF OneCallerPerRow
<1> QED
  BY <1>1, <1>2, <1>3, PTL DEF Spec

----------------------------------------------------------------------------
(* The account's lock. It needs no care of anyone.                         *)

\* A switch takes the lock when no caller is between being asked about it and
\* its last write, and none gets there while the lock is taken.
LockHeeded == TypeOK /\ (locked => \A c \in Callers : ~Sending(c))

\* A step of one caller from a label of a send, or to none.
LEMMA NoneComes ==
  ASSUME LockHeeded, NEW c \in Callers, NEW l, UNCHANGED locked,
         pc' = [pc EXCEPT ![c] = l], locked => l = pc[c] \/
           l \in {"idle", "pass", "claimed", "found", "posted", "named", "canceling",
                "canceled", "unsaved"}
  PROVE  locked' => \A d \in Callers : ~Sending(d)'
<1> SUFFICES ASSUME locked, NEW d \in Callers PROVE ~Sending(d)'
  OBVIOUS
<1>1. pc \in [Callers -> Labels] /\ ~Sending(c) /\ ~Sending(d)
  BY DEF LockHeeded, TypeOK
<1>2. CASE d = c
  BY <1>1, <1>2 DEF Sending
<1>3. CASE d # c
  BY <1>1, <1>3 DEF Sending
<1> QED
  BY <1>2, <1>3

LEMMA StepHeeds ==
  ASSUME LockHeeded, NEW c \in Callers, Step(c)
  PROVE  (locked' => \A d \in Callers : ~Sending(d)') /\ (locked => UNCHANGED delivered)
<1> USE DEF Goto, Done, Take
<1>1. locked => ~Sending(c)
  BY DEF LockHeeded
<1>2. CASE PostClaim(c)
  BY <1>2, NoneComes DEF PostClaim, server, world
<1>3. CASE PostGo(c)
  BY <1>3, NoneComes DEF PostGo, server, world
<1>4. CASE \/ AttemptOffline(c) \/ Attempt(c) \/ LookSent(c) \/ Send(c) \/ SendGone(c)
           \/ SendFails(c) \/ FileSent(c) \/ ForgetSent(c) \/ KeepRetry(c) \/ KeepRefused(c)
  <2>1. Sending(c) /\ UNCHANGED locked
    BY <1>4 DEF AttemptOffline, Attempt, LookSent, Send, SendGone, SendFails, FileSent,
                ForgetSent, KeepRetry, KeepRefused, Sending, world
  <2> QED
    BY <1>1, <2>1
<1>5. CASE CancelClaim(c) \/ CancelSave(c) \/ CancelEnd(c)
  BY <1>5, NoneComes DEF CancelClaim, CancelSave, CancelEnd, server, world
<1>6. CASE CancelReopened(c)
  BY <1>6, NoneComes DEF CancelReopened, server, world
<1> QED
  BY <1>2, <1>3, <1>4, <1>5, <1>6 DEF Step

LEMMA PassHeeds ==
  ASSUME LockHeeded, PassStep
  PROVE  (locked' => \A d \in Callers : ~Sending(d)') /\ (locked => UNCHANGED delivered)
<1> USE DEF Goto, Done, Take
<1>1. Pass \in Callers
  BY DEF Callers
<1>2. CASE PassStart
  BY <1>1, <1>2, NoneComes DEF PassStart, server, world
<1>3. ASSUME NEW i \in Ids, PassClaim(i)
      PROVE  (locked' => \A d \in Callers : ~Sending(d)') /\ (locked => UNCHANGED delivered)
  <2>1. UNCHANGED <<locked, delivered>>
    BY <1>3 DEF PassClaim, server, world
  <2>2. CASE UNCHANGED pc
    BY <2>1, <2>2 DEF LockHeeded, Sending
  <2>3. CASE pc' = [pc EXCEPT ![Pass] = "claimed"]
    BY <1>1, <2>1, <2>3, NoneComes
  <2> QED
    BY <1>3, <2>1, <2>2, <2>3 DEF PassClaim
<1>4. CASE PassGo
  BY <1>1, <1>4, NoneComes DEF PassGo, PassDue, server, world
<1>5. CASE PassEnd
  BY <1>1, <1>5, NoneComes DEF PassEnd, server, world
<1> QED
  BY <1>2, <1>3, <1>4, <1>5 DEF PassStep

LEMMA AskHeeds ==
  ASSUME LockHeeded, Ask
  PROVE  (locked' => \A d \in Callers : ~Sending(d)') /\ (locked => UNCHANGED delivered)
<1> USE DEF Take, server, world, callers
<1>1. ASSUME NEW c \in People, NEW m \in Mails, PostNew(c, m)
      PROVE  (locked' => \A d \in Callers : ~Sending(d)') /\ (locked => UNCHANGED delivered)
  BY <1>1 DEF PostNew, MayPost
<1>2. ASSUME NEW c \in People, NEW i \in Ids, SendOne(c, i) \/ Cancel(c, i)
      PROVE  (locked' => \A d \in Callers : ~Sending(d)') /\ (locked => UNCHANGED delivered)
  <2>1. c \in Callers
    BY DEF Callers
  <2> QED
    BY <1>2, <2>1, NoneComes DEF SendOne, Cancel
<1>3. CASE \/ \E i \in Ids : DropOne(i) \/ DraftSave(i)
           \/ \E i \in Ids, at \in Time : Reschedule(i, at)
           \/ TryNow
  <2>1. UNCHANGED <<pc, locked, delivered>>
    BY <1>3 DEF DropOne, DraftSave, Reschedule, TryNow
  <2> QED
    BY <2>1 DEF LockHeeded, Sending
<1> QED
  BY <1>1, <1>2, <1>3 DEF Ask

LEMMA SavedHeeds ==
  ASSUME LockHeeded, Saved
  PROVE  (locked' => \A d \in Callers : ~Sending(d)') /\ (locked => UNCHANGED delivered)
<1>1. UNCHANGED <<pc, locked, delivered>>
  BY DEF Saved, DraftMoved, callers
<1> QED
  BY <1>1 DEF LockHeeded, Sending

LEMMA EnvironmentHeeds ==
  ASSUME LockHeeded, Environment
  PROVE  (locked' => \A d \in Callers : ~Sending(d)') /\ (locked => UNCHANGED delivered)
<1> USE DEF server, callers
<1>1. CASE Tick \/ Disconnect \/ Connect \/ SwitchHolds \/ SwitchEnds
  BY <1>1 DEF Tick, Disconnect, Connect, SwitchHolds, SwitchEnds, LockHeeded, Sending
<1>2. CASE Crash
  BY <1>2 DEF Crash
<1>3. ASSUME NEW c \in Callers, CallerDies(c)
      PROVE  (locked' => \A d \in Callers : ~Sending(d)') /\ (locked => UNCHANGED delivered)
  BY <1>3, NoneComes DEF CallerDies, Done
<1> QED
  BY <1>1, <1>2, <1>3 DEF Environment

\* NothingSentWhileHeld: from the moment a switch to JMAP has an account's lock
\* until it lets go, the server sends nothing of that account: wait_out_hold and
\* the pass ask first, and the lock waits for whoever asked (Outbox::hold).
THEOREM NothingGoesWhileHeld == Spec => NothingSentWhileHeld
<1>1. Init => LockHeeded
  BY InitTyped DEF Init, LockHeeded
<1>2. LockHeeded /\ [Next]_vars => LockHeeded' /\ (locked => UNCHANGED delivered)
  <2> SUFFICES ASSUME LockHeeded, [Next]_vars
               PROVE  LockHeeded' /\ (locked => UNCHANGED delivered)
    OBVIOUS
  <2>1. TypeOK'
    BY NextTyped DEF LockHeeded
  <2>2. CASE UNCHANGED vars
    BY <2>1, <2>2 DEF vars, LockHeeded, Sending
  <2> QED
    BY <2>1, <2>2, PassHeeds, StepHeeds, AskHeeds, SavedHeeds,
       EnvironmentHeeds DEF Next, LockHeeded
<1>3. LockHeeded /\ [Next]_vars => [locked => UNCHANGED delivered]_vars
  BY <1>2
<1> QED
  BY <1>1, <1>2, <1>3, PTL DEF Spec, NothingSentWhileHeld
=============================================================================
