---------------------------- MODULE OutboxFaith ----------------------------
(***************************************************************************)
(* What becomes of each mail (Faith), given who holds which row (Apart):   *)
(* the outbox loses none, reports none as sent that is not, and sends none *)
(* twice where the server files what it sends.                             *)
(***************************************************************************)
EXTENDS OutboxSafety

\* A draft goes only once its mail has gone, or on its way out.
LEMMA DeletedIsGone ==
  ASSUME IInv, TypeOK', NEW c \in Callers, msg' = msg, rows' = rows, moving' = moving,
         \A d \in Callers : Active(d)' => Active(d),
         \A m \in Mails : delivered[m] > 0 => delivered'[m] > 0,
         drafts' = drafts \/ (DeleteDraft(msg[c]) /\ delivered'[msg[c].mail] > 0)
  PROVE  /\ DraftsKnown'
         /\ \A m \in Mails : GoneOrSaved(m) => GoneOrSaved(m)'
<1> USE DEF IInv, Faith, Apart, Held, TypeOK
<1>0. \A m \in Mails : drafts'[m] = drafts[m] \/ delivered'[m] > 0
  BY DEF DeleteDraft, Queued
<1>1. \A m \in Mails : \A d \in 0..MaxDraft : Known(m, d) => Known(m, d)'
  BY <1>0 DEF Known
<1>2. ASSUME NEW i \in Ids, rows[i] # NoRow, rows[i].draft # 0
      PROVE  Known(rows[i].mail, rows[i].draft)'
  BY <1>1, <1>2 DEF DraftsKnown, Queued
<1>3. ASSUME NEW d \in Callers, Active(d), msg[d].draft # 0
      PROVE  Known(msg[d].mail, msg[d].draft)'
  BY <1>1, <1>3 DEF DraftsKnown, Queued
<1>4. ASSUME NEW m \in Mails, NEW d \in moving[m]
      PROVE  Known(m, d + 1)'
  <2>1. d + 1 \in 0..MaxDraft
    BY OutboxAssumption
  <2> QED
    BY <1>1, <2>1 DEF DraftsKnown
<1>5. DraftsKnown'
  BY <1>2, <1>3, <1>4 DEF DraftsKnown
<1> QED
  BY <1>0, <1>5 DEF GoneOrSaved

\* A send that finds its draft gone tells that the mail has gone or that its
\* draft was saved again, and the one it erases is that of a mail that has gone.
LEMMA GoneTells ==
  ASSUME IInv, NEW c \in Callers, Active(c), msg[c].draft # 0, ~Sendable(c),
         UNCHANGED <<delivered, msg>>, DeleteDraft(msg[c])
  PROVE  /\ GoneOrSaved(msg[c].mail)'
         /\ \A m \in Mails : GoneOrSaved(m) => GoneOrSaved(m)'
<1> DEFINE n == msg[c].mail
           d == msg[c].draft
<1>1. /\ n \in Mails /\ d \in Nat \ {0} /\ msg[c].raw \in BOOLEAN
      /\ drafts \in [Mails -> Nat] /\ delivered \in [Mails -> Nat]
  <2>1. msg[c] \in Queued
    BY DEF IInv, Apart, Held, TypeOK
  <2>2. drafts \in [Mails -> Nat] /\ delivered \in [Mails -> Nat]
    BY OutboxAssumption DEF IInv, Apart, Held, TypeOK
  <2> QED
    BY <2>1, <2>2, OutboxAssumption DEF Queued
<1>2. drafts' = IF d = drafts[n] THEN [drafts EXCEPT ![n] = 0] ELSE drafts
  BY DEF DeleteDraft
<1>3. d <= drafts[n] \/ delivered[n] > 0
  BY DEF IInv, Faith, DraftsKnown, Known
<1>4. d = drafts[n] => delivered[n] > 0
  <2> SUFFICES ASSUME d = drafts[n] PROVE delivered[n] > 0
    OBVIOUS
  <2>1. sent[n] # {}
    BY <1>1 DEF Sendable
  <2> QED
    BY <1>1, <2>1 DEF IInv, Faith, SentIsGone
<1>5. delivered[n] > 0 \/ (drafts[n] > 1 /\ d # drafts[n])
  BY <1>1, <1>3, <1>4
<1>6. \A m \in Mails : GoneOrSaved(m) => delivered[m] > 0 \/ drafts'[m] > 1
  BY <1>1, <1>2, <1>4 DEF GoneOrSaved
<1> QED
  BY <1>1, <1>2, <1>5, <1>6 DEF GoneOrSaved

\* Two rows of the same mail, sent under the same Message-ID.
Alike(a, b) == a.mail = b.mail /\ a.raw = b.raw /\ a.draft = b.draft

\* What has gone stays found in Sent while rows and callers only take over each
\* other's mails.
LEMMA FiledStays ==
  ASSUME IInv, FiledOnce, UNCHANGED delivered,
         \A m \in Mails : sent[m] \subseteq sent'[m],
         \A i \in Ids : rows'[i] # NoRow =>
            \/ rows[i] # NoRow /\ Alike(rows'[i], rows[i])
            \/ \E d \in Callers : Active(d) /\ Alike(rows'[i], msg[d]),
         \A d \in Callers : Active(d)' => Active(d) /\ msg'[d] = msg[d],
         \A d \in Callers : (pc'[d] = "send" /\ msg[d].raw) =>
            pc[d] = "send" \/ delivered[msg[d].mail] = 0
  PROVE  FiledOnce'
<1> USE DEF IInv, Apart, Held, TypeOK, Active
<1>1. ASSUME NEW i \in Ids, rows'[i] # NoRow, delivered[rows'[i].mail] > 0
      PROVE  MessageId(rows'[i]) \in sent'[rows'[i].mail]
  <2>1. ASSUME rows[i] # NoRow, Alike(rows'[i], rows[i])
        PROVE  MessageId(rows'[i]) \in sent'[rows'[i].mail]
    <3>1. rows[i].mail \in Mails /\ MessageId(rows[i]) \in sent[rows[i].mail]
      BY <1>1, <2>1 DEF FiledOnce, Alike, Queued
    <3> QED
      BY <2>1, <3>1 DEF Alike, MessageId
  <2>2. ASSUME NEW d \in Callers, Active(d), Alike(rows'[i], msg[d])
        PROVE  MessageId(rows'[i]) \in sent'[rows'[i].mail]
    <3>1. msg[d].mail \in Mails /\ MessageId(msg[d]) \in sent[msg[d].mail]
      BY <1>1, <2>2 DEF FiledOnce, Alike, Queued
    <3> QED
      BY <2>2, <3>1 DEF Alike, MessageId
  <2> QED
    BY <1>1, <2>1, <2>2
<1>2. ASSUME NEW d \in Callers, Active(d)', delivered[msg'[d].mail] > 0
      PROVE  MessageId(msg'[d]) \in sent'[msg'[d].mail]
  <2>1. Active(d) /\ msg'[d] = msg[d] /\ msg[d].mail \in Mails
    BY <1>2 DEF Queued
  <2>2. MessageId(msg[d]) \in sent[msg[d].mail]
    BY <1>2, <2>1 DEF FiledOnce
  <2> QED
    BY <2>1, <2>2 DEF MessageId
<1>3. ASSUME NEW d \in Callers, pc'[d] = "send", msg'[d].raw
      PROVE  delivered[msg'[d].mail] = 0
  BY <1>3 DEF FiledOnce
<1>4. NoDoubleSend'
  BY DEF FiledOnce, NoDoubleSend
<1> QED
  BY <1>1, <1>2, <1>3, <1>4 DEF FiledOnce, MessageId

\* Labels keep faith when one caller moves to a label that does.
LEMMA LabelsStay ==
  ASSUME IInv, NEW c \in Callers,
         \A d \in Callers \ {c} : pc'[d] = pc[d] /\ msg'[d] = msg[d],
         \A m \in Mails : delivered[m] > 0 => delivered'[m] > 0,
         \A m \in Mails : GoneOrSaved(m) => GoneOrSaved(m)',
         \A d \in Callers \ {c} : pc[d] = "unsaved" =>
            owner'[msg[d].mail] = owner[msg[d].mail],
         pc'[c] = "file" => delivered'[msg'[c].mail] > 0,
         pc'[c] = "forget" => GoneOrSaved(msg[c].mail)' /\ msg'[c] = msg[c],
         pc'[c] = "unsaved" => owner'[msg'[c].mail] = "person"
  PROVE  LabelsKeepFaith'
<1> USE DEF IInv, Faith, Apart, Held, TypeOK
<1>1. ASSUME NEW d \in Callers \ {c}
      PROVE  /\ pc'[d] = "file" => delivered'[msg'[d].mail] > 0
             /\ pc'[d] = "forget" => GoneOrSaved(msg[d].mail)' /\ msg'[d] = msg[d]
             /\ pc'[d] = "unsaved" => owner'[msg'[d].mail] = "person"
  <2>1. msg[d].mail \in Mails /\ pc'[d] = pc[d] /\ msg'[d] = msg[d]
    BY <1>1 DEF Queued
  <2> QED
    BY <1>1, <2>1 DEF LabelsKeepFaith
<1> QED
  BY <1>1 DEF LabelsKeepFaith, GoneOrSaved

\* A caller that keeps its mail writes a row that has been tried, and keeps
\* faith with it: the mail is in the table.
LEMMA KeepFaith ==
  ASSUME Careful, IInv, TypeOK', Apart', NEW c \in Callers, Active(c), Done(c),
         NEW n \in 1..MostTries, Keep(c, n), UNCHANGED <<server, now>>
  PROVE  Faith'
<1> USE OutboxAssumption DEF IInv, Faith, Apart, Held, TypeOK, server, Active
<1>0. msg[c] \in Queued /\ msg[c].mail \in Mails /\ n \in 0..MostTries
  BY DEF Queued
<1>1. PICK i \in Ids, r \in Queued :
        /\ rows' = [rows EXCEPT ![i] = r]
        /\ IF msg[c].id = 0 THEN rows[i] = NoRow ELSE i = msg[c].id
        /\ r.id = i /\ r.mail = msg[c].mail /\ r.attempts = n
        /\ r.raw = msg[c].raw /\ r.draft = msg[c].draft
  BY <1>0, KeepWrites
<1>2. UntriedNotDelivered'
  BY <1>1 DEF UntriedNotDelivered, Done
<1>3. DraftsKnown'
  <2>1. r.draft # 0 => Known(r.mail, r.draft)
    BY <1>1 DEF DraftsKnown, Known
  <2> QED
    BY <1>1, <2>1 DEF DraftsKnown, Known, Done
<1>4. SentIsGone' /\ ToldIsGone'
  BY DEF Keep, SentIsGone, ToldIsGone, GoneOrSaved
<1>5. LabelsKeepFaith'
  <2>1. \A d \in Callers \ {c} : Active(d) => msg[d].mail # msg[c].mail
    BY DEF CallersApart
  <2>2. \A m \in Mails \ {msg[c].mail} : owner'[m] = owner[m]
    BY DEF Keep
  <2>3. ASSUME NEW d \in Callers, d # c
        PROVE  pc'[d] = pc[d] /\ msg'[d] = msg[d] /\ msg[d].mail \in Mails
    BY <2>3 DEF Done, Queued
  <2> QED
    BY <2>1, <2>2, <2>3 DEF LabelsKeepFaith, GoneOrSaved, Done
<1>6. NeverLost'
  <2>1. rows'[i] # NoRow /\ rows'[i].mail = msg[c].mail
    BY <1>1
  <2>2. ASSUME NEW m \in Mails, m # msg[c].mail, owner'[m] = "outbox"
        PROVE  \/ \E j \in Ids : rows'[j] # NoRow /\ rows'[j].mail = m
               \/ drafts[m] # 0
               \/ delivered[m] > 0
    <3>1. owner[m] = "outbox"
      BY <2>2 DEF Keep
    <3>2. rows[i] # NoRow => rows[i].mail = msg[c].mail
      BY <1>1 DEF ClaimsHeld, Working
    <3>3. ASSUME NEW j \in Ids, rows[j] # NoRow, rows[j].mail = m
          PROVE  rows'[j] # NoRow /\ rows'[j].mail = m
      BY <1>1, <2>2, <3>2, <3>3
    <3> QED
      BY <3>1, <3>3 DEF NeverLost
  <2> QED
    BY <2>1, <2>2 DEF NeverLost
<1>7. (FilesSent /\ NoSaves) => FiledOnce'
  <2>1. ASSUME NEW j \in Ids, rows'[j] # NoRow
        PROVE  \/ rows[j] # NoRow /\ Alike(rows'[j], rows[j])
               \/ \E d \in Callers : Active(d) /\ Alike(rows'[j], msg[d])
    <3>1. CASE j = i
      BY <1>1, <3>1 DEF Alike
    <3>2. CASE j # i
      BY <1>1, <2>1, <3>2 DEF Alike
    <3> QED
      BY <3>1, <3>2
  <2>2. \A d \in Callers : Active(d)' => Active(d) /\ msg'[d] = msg[d] /\ pc'[d] = pc[d]
    BY DEF Done
  <2>3. UNCHANGED <<delivered, sent>>
    OBVIOUS
  <2> QED
    BY <2>1, <2>2, <2>3, FiledStays
<1> QED
  BY <1>2, <1>3, <1>4, <1>5, <1>6, <1>7

\* Claiming a row takes no part in what becomes of its mail.
LEMMA TakeFaith ==
  ASSUME IInv, Apart', NEW c \in Callers, NEW i \in Ids, rows[i] # NoRow,
         NEW l \in {"claimed", "posted", "canceling"}, Take(c, rows[i], l),
         UNCHANGED <<rows, server, history>>
  PROVE  Faith'
<1> USE DEF IInv, Faith, Apart, Held, TypeOK, Take, Active, server, history
<1>1. rows[i] \in Queued /\ rows[i].id # 0
  BY DEF RowsApart, Ids
<1>2. UntriedNotDelivered'
  BY <1>1 DEF UntriedNotDelivered
<1>3. DraftsKnown'
  BY DEF DraftsKnown, Known
<1>4. SentIsGone' /\ NeverLost' /\ ToldIsGone'
  BY DEF SentIsGone, NeverLost, ToldIsGone, GoneOrSaved
<1>5. LabelsKeepFaith'
  BY DEF LabelsKeepFaith, GoneOrSaved
<1>6. (FilesSent /\ NoSaves) => FiledOnce'
  BY DEF FiledOnce, MessageId, NoDoubleSend
<1> QED
  BY <1>2, <1>3, <1>4, <1>5, <1>6

\* Nor does a caller without a row that leaves.
LEMMA DoneFaith ==
  ASSUME IInv, NEW c \in Callers, ~Active(c), Done(c),
         UNCHANGED <<table, server, history>>
  PROVE  Faith'
<1> USE DEF IInv, Faith, Apart, Held, TypeOK, Active, table, server, history
<1>1. UntriedNotDelivered' /\ LabelsKeepFaith'
  BY DEF Done, UntriedNotDelivered, LabelsKeepFaith, GoneOrSaved
<1>2. DraftsKnown'
  BY DEF Done, DraftsKnown, Known
<1>3. SentIsGone' /\ NeverLost' /\ ToldIsGone'
  BY DEF SentIsGone, NeverLost, ToldIsGone, GoneOrSaved
<1>4. (FilesSent /\ NoSaves) => FiledOnce'
  BY DEF Done, FiledOnce, MessageId, NoDoubleSend
<1> QED
  BY <1>1, <1>2, <1>3, <1>4

\* The drafts that are named stay known when nothing new is named.
LEMMA KnownStays ==
  ASSUME IInv, rows' = rows, moving' = moving,
         \A m \in Mails : \A d \in 0..MaxDraft : Known(m, d) => Known(m, d)',
         \A d \in Callers : Active(d)' => Active(d) /\ msg'[d] = msg[d] /\ msg[d] \in Queued
  PROVE  DraftsKnown'
<1> USE OutboxAssumption DEF IInv, Faith, Apart, Held, TypeOK
<1>1. ASSUME NEW i \in Ids, rows[i] # NoRow, rows[i].draft # 0
      PROVE  Known(rows[i].mail, rows[i].draft)'
  BY <1>1 DEF DraftsKnown, Queued
<1>2. ASSUME NEW d \in Callers, Active(d)', msg'[d].draft # 0
      PROVE  Known(msg[d].mail, msg[d].draft)'
  BY <1>2 DEF DraftsKnown, Queued
<1>3. ASSUME NEW m \in Mails, NEW d \in moving[m]
      PROVE  Known(m, d + 1)'
  <2>1. d + 1 \in 0..MaxDraft
    OBVIOUS
  <2> QED
    BY <1>3, <2>1 DEF DraftsKnown
<1> QED
  BY <1>1, <1>2, <1>3 DEF DraftsKnown

LEMMA StepFaith ==
  ASSUME Careful, IInv, NEW c \in Callers, Step(c), TypeOK', Apart'
  PROVE  Faith'
<1>0. msg[c] \in Queued /\ msg[c].mail \in Mails /\ msg[c].id \in 0..MaxId
  BY DEF IInv, Apart, Held, TypeOK, Queued
<1> USE OutboxAssumption, <1>0
    DEF IInv, Faith, Apart, Held, TypeOK, table, callers, server, history, world, Active,
       Working, Tried, Untold
<1>1. CASE PostClaim(c)
  <2>1. CASE Take(c, rows[msg[c].id], "posted") /\ ClaimFor(c, msg[c].id)
    BY <1>1, <2>1, TakeFaith DEF PostClaim, ClaimFor, Claimable
  <2>2. CASE Done(c) /\ UNCHANGED claims
    BY <1>1, <2>2, DoneFaith DEF PostClaim
  <2> QED
    BY <1>1, <2>1, <2>2 DEF PostClaim, Careful
<1>2. CASE PostGo(c)
  <2>1. UntriedNotDelivered'
    BY <1>2, SMTT(30) DEF PostGo, Goto, Done, Release, UntriedNotDelivered, ClaimsHeld,
       NewHasNoRow, CallersApart
  <2>2. DraftsKnown'
    BY <1>2 DEF PostGo, Goto, Done, Release, DraftsKnown, Known, ClaimsHeld, NewHasNoRow,
       CallersApart, SentIsGone
  <2>3. LabelsKeepFaith'
    BY <1>2 DEF PostGo, Goto, Done, Release, LabelsKeepFaith, GoneOrSaved, CallersApart, SentIsGone,
       DraftsKnown, Known
  <2>4. (FilesSent /\ NoSaves) => FiledOnce'
    <3>1. UNCHANGED delivered /\ \A m \in Mails : sent[m] \subseteq sent'[m]
      BY <1>2 DEF PostGo, Goto, Done
    <3>2. \A i \in Ids : rows'[i] # NoRow => rows[i] # NoRow /\ Alike(rows'[i], rows[i])
      BY <1>2 DEF PostGo, Goto, Done, Alike
    <3>3. \A d \in Callers : Active(d)' =>
            Active(d) /\ msg'[d] = msg[d] /\ (pc'[d] = "send" => pc[d] = "send")
      BY <1>2 DEF PostGo, Goto, Done
    <3> QED
      BY <3>1, <3>2, <3>3, FiledStays
  <2>5. SentIsGone' /\ NeverLost' /\ ToldIsGone'
    BY <1>2 DEF PostGo, SentIsGone, NeverLost, ToldIsGone, GoneOrSaved
  <2> QED
    BY <2>1, <2>2, <2>3, <2>4, <2>5
<1>3. CASE AttemptOffline(c)
  <2>1. UntriedNotDelivered'
    BY <1>3 DEF AttemptOffline, Goto, Done, Release, UntriedNotDelivered, ClaimsHeld,
       NewHasNoRow, CallersApart
  <2>2. DraftsKnown'
    BY <1>3 DEF AttemptOffline, Goto, Done, Release, DraftsKnown, Known, ClaimsHeld,
       NewHasNoRow, CallersApart, SentIsGone
  <2>3. LabelsKeepFaith'
    BY <1>3 DEF AttemptOffline, Goto, Done, Release, LabelsKeepFaith, GoneOrSaved, CallersApart,
       SentIsGone, DraftsKnown, Known
  <2>4. (FilesSent /\ NoSaves) => FiledOnce'
    <3>1. UNCHANGED delivered /\ \A m \in Mails : sent[m] \subseteq sent'[m]
      BY <1>3 DEF AttemptOffline, Goto, Done
    <3>2. \A i \in Ids : rows'[i] # NoRow => rows[i] # NoRow /\ Alike(rows'[i], rows[i])
      BY <1>3 DEF AttemptOffline, Goto, Done, Alike
    <3>3. \A d \in Callers : Active(d)' =>
            Active(d) /\ msg'[d] = msg[d] /\ (pc'[d] = "send" => pc[d] = "send")
      BY <1>3 DEF AttemptOffline, Goto, Done
    <3> QED
      BY <3>1, <3>2, <3>3, FiledStays
  <2>5. SentIsGone' /\ NeverLost' /\ ToldIsGone'
    BY <1>3 DEF AttemptOffline, SentIsGone, NeverLost, ToldIsGone, GoneOrSaved
  <2> QED
    BY <2>1, <2>2, <2>3, <2>4, <2>5
<1>4. CASE Attempt(c)
  <2>0. \A i \in Ids : /\ rows'[i] = NoRow <=> rows[i] = NoRow
                       /\ rows[i] # NoRow => Alike(rows'[i], rows[i])
    <3>1. ASSUME NEW i \in Ids, rows'[i] # rows[i]
          PROVE  /\ rows[i] # NoRow /\ rows[i] \in Queued
                 /\ rows'[i] = [rows[i] EXCEPT !.attempts = Least(@ + 1, MostTries)]
      BY <1>4, <3>1 DEF Attempt, CountTry
    <3>2. ASSUME NEW i \in Ids, rows'[i] # rows[i]
          PROVE  rows'[i] # NoRow /\ Alike(rows'[i], rows[i])
      <4>1. /\ rows'[i].mail = rows[i].mail /\ rows'[i].raw = rows[i].raw
            /\ rows'[i].draft = rows[i].draft
        BY <3>1, <3>2 DEF Queued
      <4>3. rows'[i] # NoRow
        <5>1. rows[i].attempts \in 0..MostTries /\ Least(rows[i].attempts + 1, MostTries) \in 0..MostTries
          BY <3>1, <3>2 DEF Queued, Least
        <5>2. rows'[i] \in Queued
          <6>1. rows'[i] = [rows[i] EXCEPT !.attempts = Least(rows[i].attempts + 1, MostTries)]
            BY <3>1, <3>2
          <6>2. rows[i] \in Queued
            BY <3>1, <3>2
          <6> HIDE <1>0 DEF IInv, Faith, Apart, Held, TypeOK
          <6> QED
            BY <5>1, <6>1, <6>2 DEF Queued
        <5> QED
          BY <5>2
      <4> QED
        BY <4>1, <4>3 DEF Alike
    <3> QED
      BY <3>1, <3>2 DEF Alike
  <2>1. UntriedNotDelivered'
    BY <1>4, SMTT(30) DEF Attempt, Goto, CountTry, UntriedNotDelivered, ClaimsHeld, NewHasNoRow,
       CallersApart
  <2>2. DraftsKnown'
    <3>1. UNCHANGED <<msg, moving, drafts, delivered>> /\ \A d \in Callers : Active(d)' => Active(d)
      BY <1>4 DEF Attempt, Goto
    <3> QED
      BY <2>0, <3>1 DEF DraftsKnown, Known, Alike
  <2>3. LabelsKeepFaith'
    BY <1>4 DEF Attempt, Goto, CountTry, LabelsKeepFaith, GoneOrSaved, CallersApart, SentIsGone,
       DraftsKnown, Known
  <2>4. NeverLost'
    BY <1>4, <2>0 DEF Attempt, NeverLost, Alike
  <2>5. (FilesSent /\ NoSaves) => FiledOnce'
    <3> SUFFICES ASSUME FilesSent, NoSaves PROVE FiledOnce'
      OBVIOUS
    <3>1. (pc'[c] = "send" /\ msg[c].raw) => delivered[msg[c].mail] = 0
      <4>1. CASE msg[c].id = 0
        BY <1>4, <4>1 DEF Attempt, UntriedNotDelivered
      <4>2. CASE msg[c].id # 0 /\ pc'[c] = "send" /\ msg[c].raw
        <5>1. msg[c].attempts = 0
          BY <1>4, <4>2 DEF Attempt, Goto, Queued
        <5>2. /\ msg[c].id \in Ids /\ rows[msg[c].id] # NoRow
              /\ rows[msg[c].id].attempts = 0 /\ rows[msg[c].id].raw
              /\ rows[msg[c].id].mail = msg[c].mail
          <6>1. Working(c) /\ pc[c] = "attempt"
            BY <1>4, <4>2 DEF Attempt
          <6>2. msg[c].id \in Ids /\ rows[msg[c].id] # NoRow
            BY <6>1, WorkingRow
          <6>3. /\ rows[msg[c].id].mail = msg[c].mail
                /\ NoSaves => rows[msg[c].id].raw = msg[c].raw
                /\ rows[msg[c].id].attempts = msg[c].attempts
            BY <6>1 DEF ClaimsHeld
          <6> QED
            BY <4>2, <5>1, <6>2, <6>3
        <5> QED
          BY <5>2 DEF UntriedNotDelivered
      <4> QED
        BY <4>1, <4>2
    <3> QED
      <4>1. UNCHANGED <<msg, delivered, sent>>
            /\ \A d \in Callers : /\ Active(d)' => Active(d)
                                  /\ d # c => pc'[d] = pc[d]
        BY <1>4 DEF Attempt, Goto
      <4> QED
        BY <2>0, <3>1, <4>1, FiledStays
  <2>6. SentIsGone' /\ ToldIsGone'
    BY <1>4 DEF Attempt, SentIsGone, ToldIsGone, GoneOrSaved
  <2> QED
    BY <2>1, <2>2, <2>3, <2>4, <2>5, <2>6
<1>5. CASE LookSent(c)
  <2>0. DraftsKnown' /\ \A m \in Mails : GoneOrSaved(m) => GoneOrSaved(m)'
    <3>1. MessageId(msg[c]) \in sent[msg[c].mail] => delivered[msg[c].mail] > 0
      BY DEF SentIsGone
    <3>2. UNCHANGED <<msg, rows, moving, delivered>>
      BY <1>5 DEF LookSent, Goto
    <3>3. \A d \in Callers : Active(d)' => Active(d)
      BY <1>5 DEF LookSent, Goto
    <3>4. drafts' = drafts \/ (DeleteDraft(msg[c]) /\ delivered'[msg[c].mail] > 0)
      BY <1>5, <3>1, <3>2 DEF LookSent
    <3> QED
      BY <3>2, <3>3, <3>4, DeletedIsGone
  <2>1. UntriedNotDelivered'
    BY <1>5 DEF LookSent, Goto, DeleteDraft, UntriedNotDelivered, ClaimsHeld,
       NewHasNoRow, CallersApart
  <2>2. DraftsKnown'
    BY <2>0
  <2>3. LabelsKeepFaith'
    <3>1. UNCHANGED <<msg, owner, delivered>>
          /\ \A d \in Callers : d # c => pc'[d] = pc[d]
      BY <1>5 DEF LookSent, Goto
    <3>2. pc'[c] \in {"forget", "send", "retry", "refused"}
      BY <1>5 DEF LookSent, Goto
    <3>3. pc'[c] = "forget" => sent[msg[c].mail] # {}
      BY <1>5 DEF LookSent, Goto
    <3>4. pc'[c] = "forget" => GoneOrSaved(msg[c].mail)'
      BY <3>1, <3>3 DEF SentIsGone, GoneOrSaved
    <3> QED
      BY <2>0, <3>1, <3>2, <3>4, LabelsStay
  <2>4. NeverLost'
    BY <1>5 DEF LookSent, Goto, DeleteDraft, NeverLost, ClaimsHeld, LabelsKeepFaith, GoneOrSaved,
       SentIsGone, DraftsKnown, Known, NewHasNoRow
  <2>5. (FilesSent /\ NoSaves) => FiledOnce'
    <3>1. UNCHANGED <<msg, rows, sent, delivered>>
      BY <1>5 DEF LookSent, Goto
    <3>2. \A d \in Callers : /\ Active(d)' => Active(d)
                             /\ d # c => pc'[d] = pc[d]
      BY <1>5 DEF LookSent, Goto
    <3>3. Active(c) /\ (pc'[c] = "send" => MessageId(msg[c]) \notin sent[msg[c].mail])
      BY <1>5 DEF LookSent, Goto
    <3>4. ASSUME FiledOnce, pc'[c] = "send" PROVE delivered[msg[c].mail] = 0
      BY <3>3, <3>4, SMTT(30) DEF FiledOnce
    <3> QED
      BY <3>1, <3>2, <3>4, FiledStays DEF Alike
  <2>6. SentIsGone'
    BY <1>5 DEF LookSent, SentIsGone
  <2>7. ToldIsGone'
    BY <1>5, <2>0 DEF LookSent, ToldIsGone
  <2> QED
    BY <2>1, <2>2, <2>3, <2>4, <2>5, <2>6, <2>7
<1>6. CASE Send(c)
  <2>1. UntriedNotDelivered'
    <3>1. \A m \in Mails \ {msg[c].mail} : delivered'[m] = delivered[m]
      BY <1>6 DEF Send
    <3>2. ASSUME NEW i \in Ids, rows[i] # NoRow, rows[i].raw, rows[i].attempts = 0
          PROVE  rows[i].mail \in Mails \ {msg[c].mail}
      <4>1. CASE msg[c].id = 0
        <5>1. rows[i].mail # msg[c].mail
          BY <1>6, <3>2, <4>1 DEF Send, NewHasNoRow
        <5> QED
          BY <3>2, <5>1 DEF Queued
      <4>2. CASE msg[c].id # 0
        <5>1. /\ msg[c].id \in Ids /\ rows[msg[c].id] # NoRow
              /\ rows[msg[c].id].mail = msg[c].mail /\ rows[msg[c].id].attempts > 0
          BY <1>6, <4>2, WorkingRow DEF Send, ClaimsHeld
        <5>2. rows[i].mail # msg[c].mail
          BY <3>2, <5>1 DEF RowsApart
        <5> QED
          BY <3>2, <5>2 DEF Queued
      <4> QED
        BY <4>1, <4>2
    <3>3. ASSUME NEW d \in Callers, pc'[d] = "attempt"
          PROVE  pc[d] = "attempt" /\ msg[d].mail \in Mails \ {msg[c].mail} /\ msg'[d] = msg[d]
      <4>1. d # c /\ pc[d] = "attempt" /\ msg'[d] = msg[d] /\ Active(c)
        BY <1>6, <3>3 DEF Send, Goto
      <4>2. msg[d].mail # msg[c].mail
        BY <4>1 DEF CallersApart
      <4> QED
        BY <4>1, <4>2 DEF Queued
    <3> QED
      BY <1>6, <3>1, <3>2, <3>3 DEF Send, Goto, UntriedNotDelivered
  <2>a. /\ UNCHANGED <<msg, rows, moving, owner, told>>
        /\ pc'[c] \in {"forget", "file", "retry"}
        /\ \A d \in Callers : d # c => pc'[d] = pc[d]
        /\ \A m \in Mails : delivered[m] > 0 => delivered'[m] > 0
        /\ delivered'[msg[c].mail] > 0
    BY <1>6 DEF Send, Goto, Least
  <2>b. DraftsKnown' /\ \A m \in Mails : GoneOrSaved(m) => GoneOrSaved(m)'
    <3>1. drafts' = drafts \/ DeleteDraft(msg[c])
      BY <1>6 DEF Send
    <3>2. \A d \in Callers : Active(d)' => Active(d)
      BY <1>6 DEF Send, Goto
    <3> QED
      BY <2>a, <3>1, <3>2, DeletedIsGone
  <2>2. DraftsKnown'
    BY <2>b
  <2>3. SentIsGone'
    BY <1>6 DEF Send, Goto, DeleteDraft, Sendable, Least, SentIsGone, LabelsKeepFaith
  <2>4. LabelsKeepFaith'
    <3>1. GoneOrSaved(msg[c].mail)'
      BY <2>a DEF GoneOrSaved
    <3> QED
      BY <2>a, <2>b, <3>1, LabelsStay
  <2>5. NeverLost'
    <3>1. \A m \in Mails : drafts'[m] = drafts[m] \/ delivered'[m] > 0
      BY <1>6, <2>a DEF Send, DeleteDraft
    <3> QED
      BY <2>a, <3>1 DEF NeverLost
  <2>6. ToldIsGone'
    BY <2>a, <2>b DEF ToldIsGone
  <2>7. (FilesSent /\ NoSaves) => FiledOnce'
    <3> SUFFICES ASSUME FilesSent, NoSaves PROVE FiledOnce'
      OBVIOUS
    <3>0. /\ delivered' = [delivered EXCEPT ![msg[c].mail] = Least(@ + 1, 2)]
          /\ sent' = [sent EXCEPT ![msg[c].mail] = @ \cup {MessageId(msg[c])}]
          /\ Active(c) /\ pc[c] = "send" /\ Sendable(c)
      BY <1>6 DEF Send
    <3>1. delivered[msg[c].mail] = 0
      <4>1. CASE msg[c].raw
        BY <3>0, <4>1 DEF FiledOnce
      <4>2. CASE ~msg[c].raw
        <5>1. MessageId(msg[c]) \notin sent[msg[c].mail]
          BY <3>0, <4>2 DEF Sendable
        <5>2. ~(delivered[msg[c].mail] > 0)
          BY <3>0, <5>1, Zenon DEF FiledOnce
        <5>3. delivered[msg[c].mail] \in 0..2
          OBVIOUS
        <5> QED
          BY <5>2, <5>3
      <4> QED
        BY <4>1, <4>2
    <3>2. ASSUME NEW i \in Ids, rows[i] # NoRow, delivered'[rows[i].mail] > 0
          PROVE  MessageId(rows[i]) \in sent'[rows[i].mail]
      <4>0. rows[i].mail \in Mails
        BY <3>2 DEF Queued
      <4>1. CASE rows[i].mail # msg[c].mail
        BY <3>0, <3>2, <4>0, <4>1 DEF FiledOnce
      <4>2. CASE rows[i].mail = msg[c].mail
        <5>1. Working(c)
          BY <3>0, <3>2, <4>2 DEF NewHasNoRow
        <5>2. msg[c].id \in Ids /\ rows[msg[c].id] # NoRow
          BY <5>1, WorkingRow
        <5>3. rows[msg[c].id].mail = msg[c].mail
          BY <5>1 DEF ClaimsHeld
        <5>4. i = msg[c].id
          BY <3>2, <4>2, <5>2, <5>3 DEF RowsApart
        <5>5. rows[i].raw = msg[c].raw /\ rows[i].draft = msg[c].draft
          BY <5>1, <5>4 DEF ClaimsHeld
        <5> QED
          BY <3>0, <4>2, <5>5 DEF MessageId
      <4> QED
        BY <4>1, <4>2
    <3>3. ASSUME NEW d \in Callers, Active(d), delivered'[msg[d].mail] > 0
          PROVE  MessageId(msg[d]) \in sent'[msg[d].mail]
      <4>0. msg[d].mail \in Mails
        BY DEF Queued
      <4>1. CASE d = c
        BY <3>0, <4>1
      <4>2. CASE d # c
        <5>1. msg[d].mail # msg[c].mail
          BY <3>0, <3>3, <4>2 DEF CallersApart
        <5> QED
          BY <3>0, <3>3, <4>0, <5>1 DEF FiledOnce
      <4> QED
        BY <4>1, <4>2
    <3>4. ASSUME NEW d \in Callers, pc'[d] = "send", msg[d].raw
          PROVE  delivered'[msg[d].mail] = 0
      <4>0. d # c /\ pc[d] = "send" /\ Active(d) /\ msg[d].mail \in Mails
        BY <2>a, <3>4 DEF Queued
      <4>1. msg[d].mail # msg[c].mail
        BY <3>0, <4>0 DEF CallersApart
      <4> QED
        BY <3>0, <3>4, <4>0, <4>1 DEF FiledOnce
    <3>5. NoDoubleSend'
      BY <3>0, <3>1 DEF NoDoubleSend, FiledOnce, Least
    <3>6. \A d \in Callers : Active(d)' => Active(d)
      BY <1>6 DEF Send, Goto
    <3> QED
      BY <2>a, <3>2, <3>3, <3>4, <3>5, <3>6 DEF FiledOnce, MessageId
  <2> QED
    BY <2>1, <2>2, <2>3, <2>4, <2>5, <2>6, <2>7
<1>7. CASE SendGone(c)
  <2>0. /\ GoneOrSaved(msg[c].mail)'
        /\ \A m \in Mails : GoneOrSaved(m) => GoneOrSaved(m)'
    BY <1>7, GoneTells DEF SendGone, Goto
  <2>1. UntriedNotDelivered'
    BY <1>7 DEF SendGone, Goto, DeleteDraft, Sendable, UntriedNotDelivered, ClaimsHeld,
       NewHasNoRow, CallersApart
  <2>2. DraftsKnown'
    BY <1>7 DEF SendGone, Goto, DeleteDraft, Sendable, DraftsKnown, Known, ClaimsHeld,
       NewHasNoRow, CallersApart, SentIsGone
  <2>3. LabelsKeepFaith'
    <3>1. /\ UNCHANGED <<msg, owner, delivered>>
          /\ pc'[c] = "forget" /\ \A d \in Callers : d # c => pc'[d] = pc[d]
      BY <1>7 DEF SendGone, Goto
    <3> QED
      BY <2>0, <3>1, LabelsStay
  <2>4. NeverLost'
    BY <1>7 DEF SendGone, Goto, DeleteDraft, Sendable, NeverLost, ClaimsHeld,
       LabelsKeepFaith, GoneOrSaved, SentIsGone, DraftsKnown, Known, NewHasNoRow
  <2>5. (FilesSent /\ NoSaves) => FiledOnce'
    BY <1>7 DEF SendGone, Goto, DeleteDraft, Sendable, FiledOnce, MessageId, CallersApart,
       UntriedNotDelivered, ClaimsHeld, NewHasNoRow, NoDoubleSend
  <2>6. SentIsGone' /\ ToldIsGone'
    BY <1>7, <2>0 DEF SendGone, SentIsGone, ToldIsGone
  <2> QED
    BY <2>1, <2>2, <2>3, <2>4, <2>5, <2>6
<1>8. CASE SendFails(c)
  <2>1. UntriedNotDelivered'
    BY <1>8 DEF SendFails, Goto, UntriedNotDelivered, ClaimsHeld, NewHasNoRow, CallersApart
  <2>2. DraftsKnown'
    BY <1>8 DEF SendFails, Goto, DraftsKnown, Known, ClaimsHeld, NewHasNoRow, CallersApart,
       SentIsGone
  <2>3. LabelsKeepFaith'
    BY <1>8 DEF SendFails, Goto, LabelsKeepFaith, GoneOrSaved, CallersApart, SentIsGone, DraftsKnown, Known
  <2>4. (FilesSent /\ NoSaves) => FiledOnce'
    <3>1. UNCHANGED delivered /\ \A m \in Mails : sent[m] \subseteq sent'[m]
      BY <1>8 DEF SendFails, Goto
    <3>2. \A i \in Ids : rows'[i] # NoRow => rows[i] # NoRow /\ Alike(rows'[i], rows[i])
      BY <1>8 DEF SendFails, Goto, Alike
    <3>3. \A d \in Callers : Active(d)' =>
            Active(d) /\ msg'[d] = msg[d] /\ (pc'[d] = "send" => pc[d] = "send")
      BY <1>8 DEF SendFails, Goto
    <3> QED
      BY <3>1, <3>2, <3>3, FiledStays
  <2>5. SentIsGone' /\ NeverLost' /\ ToldIsGone'
    BY <1>8 DEF SendFails, SentIsGone, NeverLost, ToldIsGone, GoneOrSaved
  <2> QED
    BY <2>1, <2>2, <2>3, <2>4, <2>5
<1>9. CASE FileSent(c)
  <2>1. UntriedNotDelivered'
    BY <1>9 DEF FileSent, Goto, UntriedNotDelivered, ClaimsHeld, NewHasNoRow, CallersApart
  <2>2. DraftsKnown'
    BY <1>9 DEF FileSent, Goto, DraftsKnown, Known, ClaimsHeld, NewHasNoRow, CallersApart,
       SentIsGone
  <2>3. SentIsGone'
    BY <1>9 DEF FileSent, Goto, SentIsGone, LabelsKeepFaith
  <2>4. LabelsKeepFaith'
    BY <1>9 DEF FileSent, Goto, LabelsKeepFaith, GoneOrSaved, CallersApart, SentIsGone, DraftsKnown, Known
  <2>5. (FilesSent /\ NoSaves) => FiledOnce'
    <3>1. UNCHANGED delivered /\ \A m \in Mails : sent[m] \subseteq sent'[m]
      BY <1>9 DEF FileSent, Goto
    <3>2. \A i \in Ids : rows'[i] # NoRow => rows[i] # NoRow /\ Alike(rows'[i], rows[i])
      BY <1>9 DEF FileSent, Goto, Alike
    <3>3. \A d \in Callers : Active(d)' =>
            Active(d) /\ msg'[d] = msg[d] /\ (pc'[d] = "send" => pc[d] = "send")
      BY <1>9 DEF FileSent, Goto
    <3> QED
      BY <3>1, <3>2, <3>3, FiledStays
  <2>6. NeverLost' /\ ToldIsGone'
    BY <1>9 DEF FileSent, NeverLost, ToldIsGone, GoneOrSaved
  <2> QED
    BY <2>1, <2>2, <2>3, <2>4, <2>5, <2>6
<1>10. CASE ForgetSent(c)
  <2>1. UntriedNotDelivered'
    BY <1>10 DEF ForgetSent, Remove, Done, ByDraft, UntriedNotDelivered, ClaimsHeld,
       NewHasNoRow, CallersApart
  <2>2. DraftsKnown'
    BY <1>10 DEF ForgetSent, Remove, Done, ByDraft, DraftsKnown, Known, ClaimsHeld,
       NewHasNoRow, CallersApart, SentIsGone
  <2>3. LabelsKeepFaith'
    BY <1>10 DEF ForgetSent, Remove, Done, ByDraft, LabelsKeepFaith, GoneOrSaved, CallersApart,
       SentIsGone, DraftsKnown, Known
  <2>4. NeverLost'
    BY <1>10 DEF ForgetSent, Remove, Done, ByDraft, NeverLost, ClaimsHeld,
       LabelsKeepFaith, GoneOrSaved, SentIsGone, DraftsKnown, Known, NewHasNoRow
  <2>5. ToldIsGone'
    BY <1>10 DEF ForgetSent, Remove, Done, ByDraft, ToldIsGone, GoneOrSaved, LabelsKeepFaith
  <2>6. (FilesSent /\ NoSaves) => FiledOnce'
    BY <1>10 DEF ForgetSent, Remove, Done, ByDraft, FiledOnce, MessageId, CallersApart,
       UntriedNotDelivered, ClaimsHeld, NewHasNoRow, NoDoubleSend
  <2>7. SentIsGone'
    BY <1>10 DEF ForgetSent, SentIsGone
  <2> QED
    BY <2>1, <2>2, <2>3, <2>4, <2>5, <2>6, <2>7
<1>11. CASE KeepRetry(c)
  <2>1. Active(c) /\ Least(msg[c].attempts + 1, MostTries) \in 1..MostTries
    BY <1>11 DEF KeepRetry, Queued, Least
  <2> QED
    BY <1>11, <2>1, KeepFaith DEF KeepRetry
<1>12. CASE KeepRefused(c)
  <2>1. CASE msg[c].id # 0
    BY <1>12, <2>1, KeepFaith DEF KeepRefused
  <2>2. CASE msg[c].id = 0
    <3>1. UntriedNotDelivered' /\ DraftsKnown' /\ LabelsKeepFaith'
      BY <1>12, <2>2 DEF KeepRefused, Done, UntriedNotDelivered, DraftsKnown, Known,
         LabelsKeepFaith, GoneOrSaved
    <3>2. SentIsGone' /\ NeverLost' /\ ToldIsGone'
      BY <1>12, <2>2 DEF KeepRefused, SentIsGone, NeverLost, ToldIsGone, GoneOrSaved
    <3>3. (FilesSent /\ NoSaves) => FiledOnce'
      BY <1>12, <2>2 DEF KeepRefused, Done, FiledOnce, MessageId, NoDoubleSend
    <3> QED
      BY <3>1, <3>2, <3>3
  <2> QED
    BY <2>1, <2>2
<1>13. CASE CancelClaim(c)
  <2>1. CASE Take(c, rows[msg[c].id], "canceling") /\ ClaimFor(c, msg[c].id)
    BY <1>13, <2>1, TakeFaith DEF CancelClaim, ClaimFor, Claimable
  <2>2. CASE Done(c) /\ UNCHANGED claims
    BY <1>13, <2>2, DoneFaith DEF CancelClaim
  <2> QED
    BY <1>13, <2>1, <2>2 DEF CancelClaim
<1>14. CASE CancelSave(c)
  <2>0. \A m \in Mails : drafts'[m] >= drafts[m]
    BY <1>14 DEF CancelSave
  <2>1. UntriedNotDelivered'
    BY <1>14 DEF CancelSave, Goto, UntriedNotDelivered
  <2>2. DraftsKnown'
    <3>1. \A m \in Mails : \A d \in 0..MaxDraft : Known(m, d) => Known(m, d)'
      BY <1>14, <2>0 DEF CancelSave, Known
    <3>2. \A d \in Callers : Active(d)' => Active(d) /\ msg'[d] = msg[d] /\ msg[d] \in Queued
      BY <1>14 DEF CancelSave, Goto
    <3> QED
      BY <1>14, <3>1, <3>2, KnownStays DEF CancelSave
  <2>3. LabelsKeepFaith'
    <3>1. /\ UNCHANGED <<msg, delivered>>
          /\ pc'[c] \in {"canceled", "unsaved"}
          /\ \A d \in Callers : d # c => pc'[d] = pc[d]
          /\ pc'[c] = "unsaved" => owner'[msg[c].mail] = "person"
      BY <1>14 DEF CancelSave, Goto
    <3>2. \A m \in Mails : GoneOrSaved(m) => GoneOrSaved(m)'
      BY <2>0, <3>1 DEF GoneOrSaved
    <3>3. ASSUME NEW d \in Callers \ {c}, pc[d] = "unsaved"
          PROVE  owner'[msg[d].mail] = owner[msg[d].mail]
      <4>1. Active(c) /\ Active(d)
        BY <1>14, <3>3 DEF CancelSave
      <4>2. msg[d].mail # msg[c].mail
        BY <3>3, <4>1 DEF CallersApart
      <4> QED
        <5>1. owner' = owner \/ owner' = [owner EXCEPT ![msg[c].mail] = "person"]
          BY <1>14 DEF CancelSave
        <5>2. msg[d].mail \in Mails
          BY DEF Queued
        <5> QED
          BY <4>2, <5>1, <5>2
    <3> QED
      BY <3>1, <3>2, <3>3, LabelsStay
  <2>4. NeverLost'
    BY <1>14, <2>0 DEF CancelSave, NeverLost
  <2>5. (FilesSent /\ NoSaves) => FiledOnce'
    BY <1>14, SMTT(30) DEF CancelSave, Goto, FiledOnce, MessageId, NoDoubleSend
  <2>6. SentIsGone' /\ ToldIsGone'
    BY <1>14, <2>0 DEF CancelSave, SentIsGone, ToldIsGone, GoneOrSaved
  <2> QED
    BY <2>1, <2>2, <2>3, <2>4, <2>5, <2>6
<1>15. CASE CancelEnd(c)
  <2>1. UntriedNotDelivered'
    BY <1>15 DEF CancelEnd, Remove, Done, UntriedNotDelivered
  <2>2. DraftsKnown'
    BY <1>15 DEF CancelEnd, Remove, Done, DraftsKnown, Known
  <2>3. LabelsKeepFaith'
    BY <1>15, SMTT(30) DEF CancelEnd, Remove, Done, LabelsKeepFaith, GoneOrSaved
  <2>4. NeverLost'
    BY <1>15, SMTT(30) DEF CancelEnd, Remove, Done, NeverLost, ClaimsHeld, NewHasNoRow
  <2>5. (FilesSent /\ NoSaves) => FiledOnce'
    BY <1>15 DEF CancelEnd, Remove, Done, FiledOnce, MessageId, NoDoubleSend
  <2>6. SentIsGone' /\ ToldIsGone'
    BY <1>15 DEF CancelEnd, SentIsGone, ToldIsGone, GoneOrSaved
  <2> QED
    BY <2>1, <2>2, <2>3, <2>4, <2>5, <2>6
<1>16. CASE CancelReopened(c)
  <2>1. UntriedNotDelivered'
    BY <1>16 DEF CancelReopened, Remove, Done, UntriedNotDelivered, ClaimsHeld,
       NewHasNoRow, CallersApart
  <2>2. DraftsKnown'
    BY <1>16 DEF CancelReopened, Remove, Done, DraftsKnown, Known, ClaimsHeld, NewHasNoRow,
       CallersApart, SentIsGone
  <2>3. LabelsKeepFaith'
    BY <1>16 DEF CancelReopened, Remove, Done, LabelsKeepFaith, GoneOrSaved, CallersApart,
       SentIsGone, DraftsKnown, Known
  <2>4. NeverLost'
    BY <1>16, SMTT(30) DEF CancelReopened, Remove, Done, NeverLost, ClaimsHeld, LabelsKeepFaith, GoneOrSaved,
       SentIsGone, DraftsKnown, Known, NewHasNoRow
  <2>5. (FilesSent /\ NoSaves) => FiledOnce'
    BY <1>16 DEF CancelReopened, Remove, Done, FiledOnce, MessageId, CallersApart,
       UntriedNotDelivered, ClaimsHeld, NewHasNoRow, NoDoubleSend
  <2>6. SentIsGone' /\ ToldIsGone'
    BY <1>16 DEF CancelReopened, SentIsGone, ToldIsGone, GoneOrSaved
  <2> QED
    BY <2>1, <2>2, <2>3, <2>4, <2>5, <2>6
<1> QED
  BY <1>1, <1>2, <1>3, <1>4, <1>5, <1>6, <1>7, <1>8, <1>9, <1>10, <1>11, <1>12, <1>13,
     <1>14, <1>15, <1>16 DEF Step

LEMMA PassFaith ==
  ASSUME Careful, IInv, PassStep, Apart'
  PROVE  Faith'
<1> USE OutboxAssumption
    DEF IInv, Faith, Apart, Held, TypeOK, table, callers, server, history, world, Active, Working
<1>0. Pass \in Callers
  BY DEF Callers
<1>1. CASE PassStart \/ PassEnd
  BY <1>1, SMTT(30) DEF PassStart, PassEnd, Goto, UntriedNotDelivered, DraftsKnown, Known, SentIsGone,
              LabelsKeepFaith, GoneOrSaved, NeverLost, ToldIsGone, GoneOrSaved, FiledOnce, MessageId, NoDoubleSend
<1>2. ASSUME NEW i \in Ids, PassClaim(i) PROVE Faith'
  <2>1. CASE ClaimFor(Pass, i) /\ Take(Pass, rows[i], "claimed")
    BY <1>0, <1>2, <2>1, TakeFaith DEF PassClaim, ClaimFor, Claimable
  <2>2. CASE UNCHANGED <<claims, since, msg, pc>>
    BY <1>2, <2>2 DEF PassClaim, UntriedNotDelivered, DraftsKnown, Known, SentIsGone,
                      LabelsKeepFaith, GoneOrSaved, NeverLost, ToldIsGone, GoneOrSaved, FiledOnce, MessageId, NoDoubleSend
  <2> QED
    BY <1>2, <2>1, <2>2 DEF PassClaim
<1>3. CASE PassGo
  <2>1. UntriedNotDelivered'
    BY <1>0, <1>3 DEF PassGo, Goto, Done, UntriedNotDelivered, NewHasNoRow, Tried
  <2>2. DraftsKnown'
    BY <1>0, <1>3 DEF PassGo, Goto, Done, DraftsKnown, Known
  <2>3. LabelsKeepFaith'
    BY <1>0, <1>3 DEF PassGo, Goto, Done, LabelsKeepFaith, GoneOrSaved
  <2>4. SentIsGone' /\ NeverLost' /\ ToldIsGone'
    BY <1>3 DEF PassGo, SentIsGone, NeverLost, ToldIsGone, GoneOrSaved
  <2>5. (FilesSent /\ NoSaves) => FiledOnce'
    BY <1>0, <1>3 DEF PassGo, Goto, Done, FiledOnce, MessageId, NoDoubleSend
  <2> QED
    BY <2>1, <2>2, <2>3, <2>4, <2>5
<1> QED
  BY <1>1, <1>2, <1>3 DEF PassStep

\* A new hour, for one row or for every stuck one, changes nothing else.
LEMMA HourMoved ==
  ASSUME Apart, \/ \E i \in Ids, at \in Time : Reschedule(i, at)
                \/ TryNow
  PROVE  \A j \in Ids :
           /\ rows[j] = NoRow => rows'[j] = NoRow
           /\ rows[j] # NoRow =>
                /\ rows'[j] # NoRow /\ rows'[j].mail = rows[j].mail
                /\ rows'[j].raw = rows[j].raw /\ rows'[j].draft = rows[j].draft
                /\ rows'[j].attempts = rows[j].attempts
<1> USE OutboxAssumption DEF Apart, Held, TypeOK
<1> SUFFICES ASSUME NEW j \in Ids, rows'[j] # rows[j]
             PROVE  /\ rows[j] # NoRow /\ rows'[j] # NoRow /\ rows'[j].mail = rows[j].mail
                    /\ rows'[j].raw = rows[j].raw /\ rows'[j].draft = rows[j].draft
                    /\ rows'[j].attempts = rows[j].attempts
  OBVIOUS
<1>1. rows[j] # NoRow /\ \E t \in Time : rows'[j] = [rows[j] EXCEPT !.at = t]
  <2>1. CASE TryNow
    BY <2>1 DEF TryNow
  <2>2. ASSUME NEW i \in Ids, NEW at \in Time, Reschedule(i, at)
        PROVE  rows[j] # NoRow /\ rows'[j] = [rows[j] EXCEPT !.at = at]
    <3>1. rows[i] \in Queued /\ rows[i].id = i /\ rows[i] # NoRow
      BY <2>2 DEF Reschedule, MayAsk, RowsApart
    <3>2. PutIds([rows[i] EXCEPT !.at = at]) = {i}
      BY <3>1, SMTT(30) DEF PutIds, Queued, Ids
    <3>3. rows' = [rows EXCEPT ![i] = [[rows[i] EXCEPT !.at = at] EXCEPT !.id = i]] \/ rows' = rows
      BY <2>2, <3>2 DEF Reschedule, Put
    <3>4. [[rows[i] EXCEPT !.at = at] EXCEPT !.id = i] = [rows[i] EXCEPT !.at = at]
      BY <3>1 DEF Queued
    <3> QED
      BY <3>1, <3>3, <3>4
  <2> QED
    BY <2>1, <2>2
<1>2. PICK t \in Time : rows'[j] = [rows[j] EXCEPT !.at = t]
  BY <1>1
<1>3. rows[j] \in Queued
  BY <1>1
<1>4. rows'[j] \in Queued
  BY <1>2, <1>3 DEF Queued
<1>5. rows'[j] # NoRow
  BY <1>4
<1> QED
  BY <1>1, <1>2, <1>3, <1>5 DEF Queued

LEMMA AskFaith ==
  ASSUME Careful, IInv, Ask, Apart'
  PROVE  Faith'
<1> USE OutboxAssumption
    DEF IInv, Faith, Apart, Held, TypeOK, table, callers, server, history, world, Active, Working
<1>1. ASSUME NEW c \in People, NEW m \in Mails, PostNew(c, m) PROVE Faith'
  <2>0. c \in Callers
    BY DEF Callers
  <2>1. UntriedNotDelivered'
    BY <1>1, <2>0 DEF PostNew, MayPost, Careful, Take, UntriedNotDelivered
  <2>2. DraftsKnown'
    BY <1>1, <2>0 DEF PostNew, MayPost, Careful, Take, DraftsKnown, Known
  <2>3. SentIsGone' /\ NeverLost' /\ ToldIsGone'
    BY <1>1 DEF PostNew, SentIsGone, NeverLost, ToldIsGone, GoneOrSaved
  <2>4. LabelsKeepFaith'
    BY <1>1, <2>0 DEF PostNew, MayPost, Careful, Take, LabelsKeepFaith, GoneOrSaved
  <2>5. (FilesSent /\ NoSaves) => FiledOnce'
    BY <1>1, <2>0 DEF PostNew, MayPost, Careful, Take, FiledOnce, MessageId, NoDoubleSend
  <2> QED
    BY <2>1, <2>2, <2>3, <2>4, <2>5
<1>2. ASSUME NEW c \in People, NEW i \in Ids, SendOne(c, i) \/ Cancel(c, i) PROVE Faith'
  <2>1. c \in Callers /\ ~Active(c)' /\ ~Active(c) /\ UNCHANGED <<table, server, history>>
    BY <1>2 DEF SendOne, Cancel, Callers, Take
  <2>2. UntriedNotDelivered' /\ LabelsKeepFaith'
    BY <1>2, <2>1 DEF SendOne, Cancel, Take, UntriedNotDelivered, LabelsKeepFaith, GoneOrSaved
  <2>3. DraftsKnown'
    BY <1>2, <2>1 DEF SendOne, Cancel, Take, DraftsKnown, Known
  <2>4. SentIsGone' /\ NeverLost' /\ ToldIsGone'
    BY <2>1 DEF SentIsGone, NeverLost, ToldIsGone, GoneOrSaved
  <2>5. (FilesSent /\ NoSaves) => FiledOnce'
    BY <1>2, <2>1 DEF SendOne, Cancel, Take, FiledOnce, MessageId, NoDoubleSend
  <2> QED
    BY <2>2, <2>3, <2>4, <2>5
<1>3. ASSUME NEW i \in Ids, DropOne(i) PROVE Faith'
  <2>1. rows[i] # NoRow /\ rows[i].mail \in Mails
    BY <1>3 DEF DropOne, MayAsk, Queued
  <2>2. UntriedNotDelivered' /\ DraftsKnown'
    BY <1>3 DEF DropOne, Remove, UntriedNotDelivered, DraftsKnown, Known
  <2>3. SentIsGone' /\ ToldIsGone'
    BY <1>3 DEF DropOne, SentIsGone, ToldIsGone, GoneOrSaved
  <2>4. NeverLost'
    BY <1>3, <2>1 DEF DropOne, Remove, NeverLost
  <2>5. LabelsKeepFaith'
    BY <1>3, <2>1 DEF DropOne, LabelsKeepFaith, GoneOrSaved
  <2>6. (FilesSent /\ NoSaves) => FiledOnce'
    <3>1. \A j \in Ids : rows'[j] # NoRow => rows'[j] = rows[j]
      BY <1>3 DEF DropOne, Remove
    <3> QED
      BY <1>3, <3>1, FiledStays DEF DropOne, Alike
  <2> QED
    BY <2>2, <2>3, <2>4, <2>5, <2>6
<1>4. ASSUME NEW i \in Ids, DraftSave(i) PROVE Faith'
  <2> DEFINE m == rows[i].mail
  <2>1. m \in Mails /\ UNCHANGED <<rows, pc, msg, delivered, sent, told, owner>>
    BY <1>4 DEF DraftSave, MayAsk, Queued
  <2>2. /\ drafts[m] \in 1..(MaxDraft - 1)
        /\ drafts' = [drafts EXCEPT ![m] = drafts[m] + 1]
        /\ moving' = [moving EXCEPT ![m] = @ \cup {drafts[m]}]
    BY <1>4, <2>1 DEF DraftSave
  <2>3. \A n \in Mails : drafts'[n] \in Nat /\ drafts'[n] >= drafts[n]
    BY <2>1, <2>2
  <2>4. DraftsKnown'
    <3>1. \A n \in Mails : \A d \in 0..MaxDraft : Known(n, d) => Known(n, d)'
      BY <2>1, <2>3 DEF Known
    <3>2. ASSUME NEW j \in Ids, rows[j] # NoRow, rows[j].draft # 0
          PROVE  Known(rows[j].mail, rows[j].draft)'
      <4>1. rows[j].mail \in Mails /\ rows[j].draft \in 0..MaxDraft
        BY <3>2 DEF Queued
      <4> QED
        BY <2>1, <3>1, <3>2, <4>1 DEF DraftsKnown, Known
    <3>3. ASSUME NEW d \in Callers, Active(d), msg[d].draft # 0
          PROVE  Known(msg[d].mail, msg[d].draft)'
      <4>1. msg[d].mail \in Mails /\ msg[d].draft \in 0..MaxDraft
        BY DEF Queued
      <4> QED
        BY <2>1, <3>1, <3>3, <4>1 DEF DraftsKnown, Known
    <3>4. ASSUME NEW n \in Mails, NEW d \in moving'[n]
          PROVE  Known(n, d + 1)'
      <4>1. CASE d \in moving[n]
        <5>1. d + 1 \in 0..MaxDraft /\ Known(n, d + 1)
          BY <4>1 DEF DraftsKnown
        <5> QED
          BY <3>1, <5>1
      <4>2. CASE n = m /\ d = drafts[m]
        BY <2>1, <2>2, <4>2 DEF Known
      <4> QED
        BY <2>1, <2>2, <3>4, <4>1, <4>2
    <3> QED
      BY <2>1, <3>2, <3>3, <3>4 DEF DraftsKnown
  <2>5. UntriedNotDelivered' /\ SentIsGone'
    BY <2>1 DEF UntriedNotDelivered, SentIsGone
  <2>6. LabelsKeepFaith' /\ ToldIsGone'
    <3>1. \A n \in Mails : GoneOrSaved(n) => GoneOrSaved(n)'
      BY <2>1, <2>3 DEF GoneOrSaved
    <3>2. \A d \in Callers : msg[d].mail \in Mails
      BY DEF Queued
    <3> QED
      BY <2>1, <3>1, <3>2 DEF LabelsKeepFaith, ToldIsGone
  <2>7. NeverLost'
    BY <2>1, <2>3 DEF NeverLost
  <2>8. (FilesSent /\ NoSaves) => FiledOnce'
    BY <1>4 DEF DraftSave, MayAsk, NoSaves
  <2> QED
    BY <2>4, <2>5, <2>6, <2>7, <2>8
<1>5. CASE (\E i \in Ids, at \in Time : Reschedule(i, at)) \/ TryNow
  <2>1. UNCHANGED <<callers, server, history>>
    BY <1>5 DEF Reschedule, TryNow
  <2>2. \A j \in Ids : rows[j] # NoRow =>
          /\ rows'[j] # NoRow /\ rows'[j].mail = rows[j].mail
          /\ rows'[j].raw = rows[j].raw /\ rows'[j].draft = rows[j].draft
          /\ rows'[j].attempts = rows[j].attempts
    BY <1>5, HourMoved DEF Reschedule, TryNow
  <2>3. \A j \in Ids : rows[j] = NoRow => rows'[j] = NoRow
    BY <1>5, HourMoved DEF Reschedule, TryNow
  <2>4. UntriedNotDelivered' /\ DraftsKnown'
    BY <2>1, <2>2, <2>3 DEF UntriedNotDelivered, DraftsKnown, Known
  <2>5. NeverLost'
    BY <2>1, <2>2 DEF NeverLost
  <2> QED
    <3>1. SentIsGone' /\ ToldIsGone' /\ LabelsKeepFaith'
      BY <2>1 DEF SentIsGone, ToldIsGone, LabelsKeepFaith, GoneOrSaved
    <3>2. (FilesSent /\ NoSaves) => FiledOnce'
      BY <2>1, <2>2, <2>3, FiledStays DEF Alike
    <3> QED
      BY <2>4, <2>5, <3>1, <3>2
<1> QED
  BY <1>1, <1>2, <1>3, <1>4, <1>5 DEF Ask

LEMMA SavedFaith ==
  ASSUME IInv, Saved, Apart'
  PROVE  Faith'
<1> USE OutboxAssumption DEF IInv, Faith, Apart, Held, TypeOK, Active
<1>0. PICK m \in Mails, d \in 1..(MaxDraft - 1) : DraftMoved(m, d)
  BY DEF Saved
<1>1. /\ d \in moving[m] /\ moving' = [moving EXCEPT ![m] = @ \ {d}]
      /\ UNCHANGED <<pc, msg, delivered, sent, drafts, told, owner>>
  BY <1>0 DEF DraftMoved, callers, history
<1>2. \A i \in Ids :
        /\ rows[i] = NoRow => rows'[i] = NoRow
        /\ (rows[i] # NoRow /\ rows'[i] # rows[i]) =>
             /\ rows'[i] # NoRow /\ rows[i].mail = m /\ rows'[i].mail = m
             /\ rows'[i].draft = d + 1 /\ rows'[i].raw = FALSE
  <2>0. TypeOK
    OBVIOUS
  <2> HIDE DEF IInv, Faith, Apart, Held, TypeOK
  <2>1. ASSUME NEW i \in Ids, rows[i] = NoRow PROVE rows'[i] = NoRow
    BY <1>0, <2>0, <2>1, NoneMoved
  <2>2. ASSUME NEW i \in Ids, rows[i] # NoRow, rows'[i] # rows[i]
        PROVE  /\ rows'[i] # NoRow /\ rows[i].mail = m /\ rows'[i].mail = m
               /\ rows'[i].draft = d + 1 /\ rows'[i].raw = FALSE
    <3>1. DraftMoved(m, d)
      BY <1>0
    <3>2. /\ rows'[i] \in Queued /\ rows'[i] # NoRow
          /\ rows[i].mail = m /\ rows[i].draft = d
          /\ rows'[i].id = rows[i].id /\ rows'[i].mail = m
          /\ rows'[i].draft = d + 1 /\ rows'[i].raw = FALSE
          /\ rows'[i].attempts = rows[i].attempts
      BY <2>0, <2>2, <3>1, MovedRow, Zenon
    <3> QED
      BY <3>2
  <2> QED
    BY <2>1, <2>2
<1>3. UntriedNotDelivered'
  BY <1>1, <1>2 DEF UntriedNotDelivered
<1>4. DraftsKnown'
  <2>1. Known(m, d + 1)
    BY <1>1 DEF DraftsKnown
  <2>2. ASSUME NEW i \in Ids, rows'[i] # NoRow, rows'[i].draft # 0
        PROVE  Known(rows'[i].mail, rows'[i].draft)
    BY <1>2, <2>1, <2>2 DEF DraftsKnown
  <2> QED
    BY <1>1, <2>2 DEF DraftsKnown, Known
<1>5. LabelsKeepFaith' /\ SentIsGone' /\ ToldIsGone'
  BY <1>1 DEF LabelsKeepFaith, SentIsGone, ToldIsGone, GoneOrSaved
<1>6. NeverLost'
  BY <1>1, <1>2 DEF NeverLost
<1>7. (FilesSent /\ NoSaves) => FiledOnce'
  BY <1>1 DEF DraftsStay
<1> QED
  BY <1>3, <1>4, <1>5, <1>6, <1>7

LEMMA EnvironmentFaith ==
  ASSUME Careful, IInv, Environment, Apart'
  PROVE  Faith'
<1> USE DEF IInv, Faith, Apart, Held, TypeOK, table, callers, server, history, world, Active
<1>1. CASE Crash
  BY <1>1 DEF Crash, UntriedNotDelivered, DraftsKnown, Known, SentIsGone, LabelsKeepFaith, GoneOrSaved,
              NeverLost, ToldIsGone, GoneOrSaved, FiledOnce, MessageId, NoDoubleSend
<1>2. CASE Tick \/ Disconnect \/ Connect \/ SwitchHolds \/ SwitchEnds
  BY <1>2 DEF Tick, Disconnect, Connect, SwitchHolds, SwitchEnds,
              UntriedNotDelivered, DraftsKnown, Known, SentIsGone, LabelsKeepFaith, GoneOrSaved,
              NeverLost, ToldIsGone, GoneOrSaved, FiledOnce, MessageId, NoDoubleSend
<1>3. ASSUME NEW c \in Callers, CallerDies(c) PROVE Faith'
  <2>1. UntriedNotDelivered' /\ DraftsKnown'
    BY <1>3 DEF CallerDies, Done, UntriedNotDelivered, DraftsKnown, Known
  <2>2. SentIsGone' /\ NeverLost' /\ ToldIsGone'
    BY <1>3 DEF CallerDies, SentIsGone, NeverLost, ToldIsGone, GoneOrSaved
  <2>3. LabelsKeepFaith'
    BY <1>3 DEF CallerDies, Done, LabelsKeepFaith, GoneOrSaved
  <2>4. (FilesSent /\ NoSaves) => FiledOnce'
    BY <1>3 DEF CallerDies, Done, FiledOnce, MessageId, NoDoubleSend
  <2> QED
    BY <2>1, <2>2, <2>3, <2>4
<1> QED
  BY <1>1, <1>2, <1>3 DEF Environment

LEMMA InitFaith == Init => Faith
<1> SUFFICES ASSUME Init PROVE Faith
  OBVIOUS
<1> USE DEF Init
<1>1. rows \in [Ids -> Queued \cup {NoRow}]
  BY InitialRowsAssumption
<1>2. \A i \in Ids : rows[i] # NoRow => rows[i] \in Queued /\ rows[i].mail \in Mails
  BY <1>1 DEF Queued
<1>3. UntriedNotDelivered
  BY <1>2 DEF UntriedNotDelivered
<1>4. DraftsKnown
  <2>1. ASSUME NEW i \in Ids, rows[i] # NoRow, rows[i].draft # 0
        PROVE  Known(rows[i].mail, rows[i].draft)
    <3>1. rows[i].draft = 1
      BY <2>1, InitialRowsAssumption
    <3>2. drafts[rows[i].mail] = 1
      BY <1>2, <2>1
    <3> QED
      BY <3>1, <3>2 DEF Known
  <2>2. \A c \in Callers : ~Active(c)
    BY DEF Active
  <2>3. \A m \in Mails : moving[m] = {}
    OBVIOUS
  <2> HIDE DEF Init
  <2> QED
    BY <2>1, <2>2, <2>3 DEF DraftsKnown
<1>5. SentIsGone /\ ToldIsGone /\ LabelsKeepFaith
  BY DEF SentIsGone, ToldIsGone, LabelsKeepFaith
<1>6. NeverLost
  BY DEF NeverLost
<1>7. FiledOnce
  <2>1. \A i \in Ids : rows[i] # NoRow => delivered[rows[i].mail] = 0
    BY <1>2
  <2> QED
    BY <2>1 DEF FiledOnce, NoDoubleSend, Active
<1> QED
  BY <1>3, <1>4, <1>5, <1>6, <1>7 DEF Faith

LEMMA Inductive ==
  /\ Init => IInv
  /\ Careful /\ IInv /\ [Next]_vars => IInv'
<1>1. Init => IInv
  BY InitApart, InitFaith DEF IInv
<1>2. ASSUME Careful, IInv, [Next]_vars PROVE IInv'
  <2>1. Apart'
    BY <1>2, NextApart DEF IInv
  <2>2. TypeOK'
    BY <2>1 DEF Apart, Held
  <2>3. Faith'
    <3>1. CASE Next
      BY <1>2, <2>1, <2>2, <3>1, PassFaith, StepFaith, AskFaith,
         SavedFaith, EnvironmentFaith DEF Next
    <3>2. CASE UNCHANGED vars
      BY <1>2, <3>2 DEF vars, IInv, Faith, UntriedNotDelivered, DraftsKnown, Known, SentIsGone,
                        LabelsKeepFaith, GoneOrSaved, NeverLost, ToldIsGone, GoneOrSaved, FiledOnce, MessageId,
                        NoDoubleSend, Active
    <3> QED
      BY <1>2, <3>1, <3>2
  <2> QED
    BY <2>1, <2>3 DEF IInv
<1> QED
  BY <1>1, <1>2

\* Without a save, what is gone or saved is gone.
LEMMA SavedIsGone ==
  ASSUME IInv, NoSaves, NEW m \in Mails, GoneOrSaved(m)
  PROVE  delivered[m] > 0
  BY DEF IInv, Apart, Held, TypeOK, DraftsStay, GoneOrSaved

\* Whatever is lost, retried, restarted or asked for, a mail the outbox answers
\* for is in its table, in Drafts or gone.
THEOREM NothingLost == Careful => (Spec => []NeverLost)
<1> SUFFICES ASSUME Careful PROVE Spec => []NeverLost
  OBVIOUS
<1>1. IInv => NeverLost
  BY DEF IInv, Faith
<1> QED
  BY <1>1, Inductive, PTL DEF Spec

\* What the outbox reports as sent, the server has sent, while nobody saves a
\* scheduled draft again: a draft that a send finds gone has been sent.
THEOREM NothingMisreported == Careful /\ NoSaves => (Spec => []SentIsDelivered)
<1> SUFFICES ASSUME Careful, NoSaves PROVE Spec => []SentIsDelivered
  OBVIOUS
<1>1. IInv => SentIsDelivered
  BY SavedIsGone DEF IInv, Faith, SentIsDelivered, ToldIsGone
<1> QED
  BY <1>1, Inductive, PTL DEF Spec

\* With saves too, a mail reported as sent that was not has its saved draft on
\* the server: draft_saved may come too late for the send that finds the old
\* draft gone, or never, and the person still has the mail.
THEOREM MisreportedIsSaved == Careful => (Spec => []ToldIsGone)
<1> SUFFICES ASSUME Careful PROVE Spec => []ToldIsGone
  OBVIOUS
<1>1. IInv => ToldIsGone
  BY DEF IInv, Faith
<1> QED
  BY <1>1, Inductive, PTL DEF Spec

\* A server that files what it sends never sends a mail twice while nobody
\* saves its scheduled draft again, under a Message-ID Sent has not seen.
THEOREM NothingSentTwice == Careful /\ NoSaves /\ FilesSent => (Spec => []NoDoubleSend)
<1> SUFFICES ASSUME Careful, NoSaves, FilesSent PROVE Spec => []NoDoubleSend
  OBVIOUS
<1>1. IInv => NoDoubleSend
  BY DEF IInv, Faith, FiledOnce
<1> QED
  BY <1>1, Inductive, PTL DEF Spec

----------------------------------------------------------------------------
(* The outbox implements its Promise.                                      *)

LEMMA PromiseInit == Init => Promised!Init
<1> SUFFICES ASSUME Init PROVE Promised!Init
  OBVIOUS
<1>1. owner \in [Mails -> {"person", "outbox"}]
  BY InitTyped DEF TypeOK
<1> QED
  BY <1>1 DEF Init, Promised!Init

\* What one step of the outbox may do to a mail, seen from the Promise.
LEMMA PromiseStep ==
  ASSUME Careful, NoSaves, FilesSent, IInv, [Next]_vars
  PROVE  [Promised!Next]_(Promised!vars)
<1> USE DEF IInv, Faith, FiledOnce, Apart, Held, TypeOK,
            table, callers, server, history, world, Promised!vars
<1> DEFINE Hands(m) == Promised!Hand(m, "outbox") \/ Promised!Hand(m, "person")
<1>0. \A c \in Callers : msg[c].mail \in Mails
  BY DEF Queued
<1>1. CASE UNCHANGED <<delivered, told, owner>>
  BY <1>1
<1>2. ASSUME NEW c \in Callers, Send(c) PROVE Promised!Deliver(msg[c].mail)
  <2>1. delivered[msg[c].mail] = 0
    <3>1. CASE msg[c].raw
      BY <1>2, <3>1 DEF Send
    <3>2. CASE ~msg[c].raw
      <4>1. MessageId(msg[c]) \notin sent[msg[c].mail] /\ Active(c)
        BY <1>2, <3>2 DEF Send, Sendable, Active
      <4> QED
        BY <1>0, <4>1
    <3> QED
      BY <3>1, <3>2
  <2>2. Least(0 + 1, 2) = 1
    BY DEF Least
  <2> QED
    BY <1>0, <1>2, <2>1, <2>2 DEF Send, Promised!Deliver
<1>3. ASSUME NEW c \in Callers, ForgetSent(c) PROVE Promised!Report(msg[c].mail)
  <2>1. delivered[msg[c].mail] > 0
    BY <1>0, <1>3, SavedIsGone DEF ForgetSent, LabelsKeepFaith
  <2>2. delivered[msg[c].mail] = 1
    BY <1>0, <2>1 DEF NoDoubleSend
  <2> QED
    BY <1>3, <2>2 DEF ForgetSent, Promised!Report
<1>4. ASSUME NEW c \in Callers, KeepRetry(c) \/ KeepRefused(c)
      PROVE  Promised!Hand(msg[c].mail, "outbox") \/ UNCHANGED <<delivered, told, owner>>
  BY <1>4 DEF KeepRetry, KeepRefused, Keep, Promised!Hand
<1>5. ASSUME NEW c \in Callers, CancelEnd(c) \/ CancelSave(c)
      PROVE  Promised!Hand(msg[c].mail, "person") \/ UNCHANGED <<delivered, told, owner>>
  BY <1>5 DEF CancelEnd, CancelSave, Promised!Hand
<1>6. ASSUME NEW i \in Ids, DropOne(i)
      PROVE  rows[i].mail \in Mails /\ Promised!Hand(rows[i].mail, "person")
  BY <1>6 DEF DropOne, MayAsk, Queued, Promised!Hand
<1>7. ASSUME NEW c \in Callers, Step(c) PROVE [Promised!Next]_(Promised!vars)
  <2>1. CASE Send(c) \/ ForgetSent(c) \/ KeepRetry(c) \/ KeepRefused(c)
             \/ CancelSave(c) \/ CancelEnd(c)
    BY <1>0, <1>2, <1>3, <1>4, <1>5, <2>1 DEF Promised!Next
  <2>2. CASE PostClaim(c) \/ PostGo(c) \/ AttemptOffline(c) \/ Attempt(c) \/ LookSent(c)
    BY <2>2, <1>1 DEF PostClaim, PostGo, AttemptOffline, Attempt, LookSent
  <2>3. CASE \/ SendGone(c) \/ SendFails(c) \/ FileSent(c)
             \/ CancelClaim(c) \/ CancelReopened(c)
    BY <2>3, <1>1 DEF SendGone, SendFails, FileSent, CancelClaim, CancelReopened
  <2> QED
    BY <1>7, <2>1, <2>2, <2>3 DEF Step
<1>8. ASSUME PassStep PROVE UNCHANGED <<delivered, told, owner>>
  BY <1>8 DEF PassStep, PassStart, PassClaim, PassGo, PassEnd
<1>9. ASSUME Ask PROVE [Promised!Next]_(Promised!vars)
  <2>1. CASE \E i \in Ids : DropOne(i)
    BY <1>6, <2>1 DEF Promised!Next
  <2>2. ASSUME ~\E i \in Ids : DropOne(i) PROVE UNCHANGED <<delivered, told, owner>>
    BY <1>9, <2>2 DEF Ask, PostNew, SendOne, Cancel, DraftSave, Reschedule, TryNow
  <2> QED
    BY <2>1, <2>2
<1>11. ASSUME Saved PROVE UNCHANGED <<delivered, told, owner>>
  BY <1>11 DEF Saved, DraftMoved
<1>10. ASSUME Environment PROVE UNCHANGED <<delivered, told, owner>>
  BY <1>10 DEF Environment, Tick, Crash, Disconnect, Connect, SwitchHolds, SwitchEnds,
               CallerDies
<1> QED
  BY <1>7, <1>8, <1>9, <1>10, <1>11 DEF Next, vars

\* To a mail nobody saves again the outbox does only what the Promise allows: it
\* has the server send it once, and reports it as sent after that.
THEOREM PromiseKept == Careful /\ NoSaves /\ FilesSent => (Spec => KeepsPromise)
<1> SUFFICES ASSUME Careful, NoSaves, FilesSent PROVE Spec => KeepsPromise
  OBVIOUS
<1>1. IInv /\ [Next]_vars => [Promised!Next]_(Promised!vars)
  BY PromiseStep
<1> QED
  BY <1>1, PromiseInit, Inductive, PTL DEF Spec, KeepsPromise, Promised!Spec
=============================================================================
