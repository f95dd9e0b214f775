-------------------------- MODULE SendLaterSafety ---------------------------
(***************************************************************************)
(* The message goes out at most once, from here or from the server, while  *)
(* the person schedules and deletes and the passes do the rest: whatever   *)
(* fails, whatever another install does, however late the server sends.    *)
(* And, each with the requests it holds under: one caller at a time has    *)
(* the row, what is reported as sent has gone, nothing the person wrote is *)
(* lost, and what was deleted stays unsent.                                *)
(***************************************************************************)
EXTENDS SendLaterProofs

----------------------------------------------------------------------------
(* The inductive invariant.                                                *)

\* What the person schedules and deletes, and the passes do the rest.
PassesOnly ==
    /\ Jobs \subseteq {"schedule", "drop"} /\ ~SlowHandOver
    /\ \A p, q \in People : p = q

\* The server held `k` once; it holds nothing now; it never held anything.
Ever(k) == hour[k] > 0
Clear == \A k \in Copies : place[k] # "held"
Before == delivered = 0 /\ \A k \in Copies : ~Ever(k)

\* The server sent `k`, and nobody has filed it yet.
Went(k) == place[k] = "held" /\ subs[k] \in {"final", "none"} /\ now + ClockSlack >= hour[k]

\* One copy is ever held, and Sent or its keyword tells when the message went.
OnceServer ==
    /\ \A k \in Copies : place[k] = "held" \/ subs[k] # "none" => Ever(k)
    /\ \A j, k \in Copies : Ever(j) /\ Ever(k) => j = k
    /\ \A k \in Copies : /\ subs[k] = "pending" => delivered = 0
                         /\ subs[k] = "final" => delivered = 1
                         /\ place[k] = "sent" => inSent
    /\ inSent => delivered = 1
    /\ delivered # 0 /\ ~inSent => delivered = 1 /\ \E k \in Copies : Went(k)
    /\ NoDoubleSend

\* A plain message is one the server does not hold; a look for a marked one
\* finds any hold of it; a held one names its hold and an hour not past its own.
Fits(m) ==
    /\ m.hold = "none" => Clear
    /\ m.hold = "mark" => \A k \in Copies :
          Ever(k) => born[k] <= m.since /\ m.at <= hour[k] /\ m.copy # k
    /\ m.hold = "held" => m.copy \in Copies /\ Ever(m.copy) /\ m.at <= hour[m.copy]
Untried(m) == m.hold = "none" /\ ~m.tried

Found(k) == k \in Copies /\ Ever(k)
Waits == At(Pass, "idle") \/ At(Pass, "listed")
PassLabels == {"listed", "look", "found", "ask", "fate", "due", "put", "forget", "unsure", "elsewhere",
               "remove", "try", "lookSent", "send", "keep", "stick"}

\* The pass at `l` with the message `m`, and the hold of `k` made or found.
PassAt(l, m, k) ==
    /\ l # "listed" => Fits(m)
    /\ l \in {"due", "try", "lookSent", "send", "keep", "stick"} => m.hold = "none"
    /\ l \in {"look", "found"} => m.hold = "mark"
    /\ l \in {"ask", "fate"} => m.hold = "held"
    /\ l = "found" => Found(k)
    /\ l = "elsewhere" => Clear
    /\ l \in {"due", "put", "try"} /\ Untried(m) => Before
    /\ l = "send" /\ m.raw => ~inSent
    /\ l \in {"lookSent", "send"} /\ row # NoRow => ~Untried(row)
OncePass ==
    \/ At(Pass, "idle") /\ Job(Pass) = "none"
    \/ /\ Job(Pass) = "pass" /\ task[Pass].pc \in PassLabels /\ task[Pass].want <= now
       /\ PassAt(task[Pass].pc, Msg(Pass), task[Pass].got)

\* The person's task, handing the message over.
ScheduleAt(l, m, k) ==
    \/ l = "handing" /\ Before /\ row = m
    \/ l \in {"saving", "refused"} /\ Before /\ m.hold = "none"
    \/ l = "holding" /\ Found(k) /\ m.hold = "mark" /\ Fits(m)
    \/ l = "put" /\ Fits(m) /\ (m.hold = "none" => Before)
OnceSchedule(p) ==
    /\ Job(p) = "schedule" /\ Waits /\ composer = Closed
    /\ row # NoRow /\ row.hold = "mark" /\ row.since = now
    /\ ScheduleAt(task[p].pc, Msg(p), task[p].got)

\* And deleting it.
DropAt(l, m, k) ==
    /\ l \in {"named", "look", "found", "ask", "remove"}
    /\ l \in {"look", "found", "ask"} => Fits(m)
    /\ l \in {"look", "found"} => m.hold = "mark"
    /\ l = "found" => Found(k)
OnceDrop(p) ==
    Job(p) = "drop" /\ composer = Closed /\ DropAt(task[p].pc, Msg(p), task[p].got)
OncePerson(p) == (At(p, "idle") /\ Job(p) = "none") \/ OnceSchedule(p) \/ OnceDrop(p)

OnceRow == row # NoRow => Fits(row) /\ (Untried(row) => Before)
OnceComposer == composer # Closed => Waits /\ row = NoRow /\ Before

\* A message on its way out from here is not on its way out from the server.
OnceInv ==
    /\ OnceServer /\ OncePass /\ OnceRow /\ OnceComposer
    /\ \A p \in People : OncePerson(p)

----------------------------------------------------------------------------
(* The server's part, step by step.                                        *)

\* No copy is newly held, and time never goes back.
NoNewHold ==
    /\ UNCHANGED <<hour, born>> /\ now' \in Nat /\ now <= now'
    /\ \A k \in Copies : place'[k] = "held" => place[k] = "held"
\* And what has not begun has not gone out.
Calm == NoNewHold /\ (Before => Before')

LEMMA Numbers ==
  ASSUME Parts
  PROVE  /\ now \in Nat /\ delivered \in Nat /\ ClockSlack \in Nat /\ AskAgain \in Nat
         /\ \A k \in Copies : hour[k] \in Nat /\ born[k] \in Nat /\ k \in 1..MaxCopies
         /\ \A m \in Row : m.since \in Nat /\ m.at \in Nat
BY SendLaterAssumption DEF Parts, ServerOK, RestOK, Time, Copies, Row

LEMMA SameOnce ==
  ASSUME Parts, OnceServer, UNCHANGED server, now' \in Nat, now <= now'
  PROVE  OnceServer' /\ Calm
<1>1. ASSUME NEW k \in Copies, Went(k) PROVE Went(k)'
  BY <1>1, Numbers DEF server, Went
<1>2. UNCHANGED <<place, subs, hour, born, inSent, delivered>>
  BY DEF server
<1> QED
  BY <1>1, <1>2, Numbers DEF OnceServer, Ever, Before, NoDoubleSend, Calm, NoNewHold

LEMMA DestroyedOnce ==
  ASSUME Parts, OnceServer, NEW k \in 0..MaxCopies, k \in Copies => place[k] # "held",
         place' = Destroyed(k), UNCHANGED <<subs, hour, born, inSent, delivered, now>>
  PROVE  OnceServer' /\ Calm
<1>1. \A j \in Copies : place'[j] = place[j] \/ (place'[j] = "gone" /\ place[j] # "held")
  BY DEF Destroyed, Parts, ServerOK
<1>2. \A j \in Copies : Went(j) => Went(j)'
  BY <1>1 DEF Went
<1> QED
  BY <1>1, <1>2, Numbers DEF OnceServer, Ever, Before, NoDoubleSend, Calm, NoNewHold

LEMMA FiledOnce ==
  ASSUME Parts, OnceServer, NEW k \in Copies, delivered = 1, place' = Filed(k),
         inSent' = (inSent \/ place[k] # "gone"), UNCHANGED <<subs, hour, born, delivered, now>>
  PROVE  OnceServer' /\ Calm
<1>1. CASE place[k] = "gone"
  <2>1. place' = place /\ (inSent' <=> inSent)
    BY <1>1 DEF Filed
  <2>2. \A j \in Copies : Went(j) => Went(j)'
    BY <2>1 DEF Went
  <2> QED
    BY <2>1, <2>2, Numbers DEF OnceServer, Ever, Before, NoDoubleSend, Calm, NoNewHold
<1>2. CASE place[k] # "gone"
  <2>1. inSent'
    BY <1>2
  <2>2. \A j \in Copies : place'[j] = IF j = k THEN "sent" ELSE place[j]
    BY <1>2 DEF Filed, Parts, ServerOK
  <2>3. \A j \in Copies : place'[j] = "held" => place[j] = "held"
    BY <2>2
  <2>4. delivered' = 1 /\ UNCHANGED <<subs, hour>>
    OBVIOUS
  <2> QED
    BY <2>1, <2>3, <2>4, Numbers DEF OnceServer, Ever, Before, NoDoubleSend, Calm, NoNewHold
<1> QED
  BY <1>1, <1>2

LEMMA TakenOffOnce ==
  ASSUME Parts, OnceServer, NEW k \in Copies, ~Went(k), place' = TakenOff(k),
         UNCHANGED <<subs, hour, born, inSent, delivered, now>>
  PROVE  OnceServer' /\ Calm
<1>1. \A j \in Copies : place'[j] = place[j] \/ (j = k /\ place'[j] = "draft")
  BY DEF TakenOff, Parts, ServerOK
<1>2. \A j \in Copies : Went(j) => Went(j)'
  BY <1>1 DEF Went
<1> QED
  BY <1>1, <1>2, Numbers DEF OnceServer, Ever, Before, NoDoubleSend, Calm, NoNewHold

LEMMA CanceledOnce ==
  ASSUME Parts, OnceServer, NEW k \in Copies, subs[k] = "pending",
         NEW s \in {"canceled", "theirs"}, subs' = [subs EXCEPT ![k] = s],
         place' \in {place, TakenOff(k)}, UNCHANGED <<hour, born, inSent, delivered, now>>
  PROVE  OnceServer' /\ Calm
<1>1. delivered = 0 /\ ~inSent /\ Ever(k)
  BY DEF OnceServer
<1>2. \A j \in Copies : subs'[j] = IF j = k THEN s ELSE subs[j]
  BY DEF Parts, ServerOK
<1>3. \A j \in Copies : place'[j] = place[j] \/ place'[j] = "draft"
  BY DEF TakenOff, Parts, ServerOK
<1> QED
  BY <1>1, <1>2, <1>3, Numbers DEF OnceServer, Ever, Before, NoDoubleSend, Calm, NoNewHold

LEMMA StandingOnce ==
  ASSUME Parts, OnceServer, NEW k \in 0..MaxCopies, NEW a \in Nat,
         k \in Copies /\ place[k] = "held" => a <= hour[k]
  PROVE  /\ Standing(k, a) = "sent" => k \in Copies /\ delivered = 1
         /\ Standing(k, a) = "notSent" => k \in Copies /\ ~Went(k)
<1>1. CASE k = 0
  BY <1>1 DEF Standing
<1>2. CASE k # 0
  <2>1. k \in Copies
    BY <1>2, SendLaterAssumption DEF Copies
  <2>2. Fate(k, a) = "sent" => delivered = 1
    BY <2>1 DEF Fate, OnceServer
  <2>3. Fate(k, a) = "notSent" => ~Went(k)
    BY <2>1, Numbers DEF Fate, Went
  <2>4. Standing(k, a) = IF subs[k] = "pending" THEN "pending"
                         ELSE IF subs[k] = "final" THEN "sent"
                         ELSE IF subs[k] \in {"canceled", "theirs"} THEN "notSent" ELSE Fate(k, a)
    BY <1>2 DEF Standing
  <2> QED
    BY <2>1, <2>2, <2>3, <2>4 DEF OnceServer, Went
<1> QED
  BY <1>1, <1>2

----------------------------------------------------------------------------
(* What a step that leaves the rest alone keeps.                           *)

LEMMA FitsStays == ASSUME NoNewHold, NEW m, Fits(m) PROVE Fits(m)'
BY DEF NoNewHold, Fits, Clear, Ever

LEMMA PassCalm ==
  ASSUME Calm, Parts, OncePass, task'[Pass] = task[Pass], At(Pass, "send") => (inSent' => inSent),
         Waits \/ row' \in {row, NoRow}
  PROVE  OncePass'
<1>1. PICK l, m, k : l = task[Pass].pc /\ m = Msg(Pass) /\ k = task[Pass].got
  OBVIOUS
<1>2. Job(Pass)' = Job(Pass) /\ l = (task[Pass].pc)' /\ m = Msg(Pass)' /\ k = (task[Pass].got)'
  BY <1>1 DEF Msg, Job
<1>3. Pass \in Callers /\ task[Pass].want \in Nat /\ now \in Nat
  BY CallerType, SendLaterAssumption DEF Callers, Parts, RestOK, Time
<1>4. task[Pass].want <= now => (task[Pass].want)' <= now'
  BY <1>3 DEF Calm, NoNewHold
<1>5. Fits(m) => Fits(m)'
  BY FitsStays DEF Calm
<1>6. (Before => Before') /\ (Clear => Clear') /\ (Found(k) => Found(k)')
  BY DEF Calm, NoNewHold, Clear, Found, Ever
<1>7. PassAt(l, m, k) => PassAt(l, m, k)'
  BY <1>1, <1>5, <1>6 DEF PassAt, Untried, At, Waits
<1> QED
  BY <1>1, <1>2, <1>4, <1>7 DEF OncePass, At

\* A person's task is as it was.
LEMMA PersonCalm ==
  ASSUME NEW p \in People, OncePerson(p), task'[p] = task[p], UNCHANGED composer, NoNewHold,
         OnceSchedule(p) => Calm /\ Waits' /\ UNCHANGED <<row, now>>
  PROVE  OncePerson(p)'
<1>1. PICK l, m, k : l = task[p].pc /\ m = Msg(p) /\ k = task[p].got
  OBVIOUS
<1>2. Job(p)' = Job(p) /\ l = (task[p].pc)' /\ m = Msg(p)' /\ k = (task[p].got)'
  BY <1>1 DEF Msg, Job
<1>3. (Fits(m) => Fits(m)') /\ (Found(k) => Found(k)')
  BY FitsStays DEF NoNewHold, Found, Ever
<1>4. DropAt(l, m, k) => DropAt(l, m, k)'
  BY <1>3 DEF DropAt
<1>5. ASSUME OnceSchedule(p) PROVE ScheduleAt(l, m, k) => ScheduleAt(l, m, k)'
  BY <1>3, <1>5 DEF ScheduleAt, Calm
<1> QED
  BY <1>1, <1>2, <1>4, <1>5 DEF OncePerson, OnceSchedule, OnceDrop, At

LEMMA RowCalm == ASSUME Calm, OnceRow, row' \in {row, NoRow} PROVE OnceRow'
<1>1. ASSUME NEW m, m = row, m # NoRow, row' = row PROVE Fits(m)' /\ (Untried(m) => Before')
  BY <1>1, FitsStays DEF OnceRow, Calm
<1> QED
  BY <1>1 DEF OnceRow

LEMMA RowWritten ==
  ASSUME NEW m, row' = m, m # NoRow => Fits(m)' /\ (Untried(m) => Before')
  PROVE  OnceRow'
BY DEF OnceRow

LEMMA ComposerCalm ==
  ASSUME Calm, OnceComposer, composer # Closed => Waits' /\ row' = NoRow, UNCHANGED composer
  PROVE  OnceComposer'
BY DEF OnceComposer, Calm

\* While the pass works on the row, nothing is handed over or in a composer.
LEMMA PassWorks ==
  ASSUME OnceInv, ~Waits
  PROVE  composer = Closed /\ \A p \in People : ~OnceSchedule(p)
BY DEF OnceInv, OnceComposer, OnceSchedule

LEMMA PassMoves ==
  ASSUME OnceInv, LeavesOthers(Pass), UNCHANGED composer,
         OnceServer', OncePass', OnceRow', NoNewHold,
         \A p \in People : OnceSchedule(p) => Calm /\ Waits' /\ UNCHANGED <<row, now>>,
         composer # Closed => Calm /\ Waits' /\ row' = NoRow
  PROVE  OnceInv'
<1>1. \A p \in People : task'[p] = task[p]
  BY SendLaterAssumption DEF LeavesOthers, Callers
<1>2. \A p \in People : OncePerson(p)'
  BY <1>1, PersonCalm DEF OnceInv
<1>3. OnceComposer'
  BY DEF OnceComposer, OnceInv, Calm
<1> QED
  BY <1>2, <1>3 DEF OnceInv

LEMMA PersonMoves ==
  ASSUME Parts, PassesOnly, OnceInv, NEW p \in People, LeavesOthers(p), Calm,
         OnceServer', OncePerson(p)', OnceRow', OnceComposer',
         At(Pass, "send") => (inSent' => inSent), Waits \/ row' \in {row, NoRow}
  PROVE  OnceInv'
<1>1. task'[Pass] = task[Pass]
  BY SendLaterAssumption DEF LeavesOthers, Callers
<1>2. OncePass'
  BY <1>1, PassCalm DEF OnceInv
<1>3. \A q \in People : q = p
  BY DEF PassesOnly
<1> QED
  BY <1>2, <1>3 DEF OnceInv

LEMMA WorldMoves ==
  ASSUME Parts, OnceInv, UNCHANGED <<task, row, composer>>, Calm, OnceServer',
         now' = now \/ \A p \in People : ~OnceSchedule(p),
         At(Pass, "send") => (inSent' => inSent)
  PROVE  OnceInv'
<1>1. OncePass'
  BY PassCalm DEF OnceInv
<1>2. Waits' = Waits
  BY DEF Waits, At
<1>3. \A p \in People : OncePerson(p)'
  BY <1>2, PersonCalm DEF OnceInv, Calm, OnceSchedule
<1>4. OnceRow' /\ OnceComposer'
  BY <1>2, RowCalm, ComposerCalm DEF OnceInv, OnceComposer
<1> QED
  BY <1>1, <1>3, <1>4 DEF OnceInv

----------------------------------------------------------------------------
(* The pass.                                                               *)

Works == Job(Pass) = "pass" /\ task[Pass].pc \in PassLabels /\ task[Pass].want <= now
           /\ PassAt(task[Pass].pc, Msg(Pass), task[Pass].got)

\* The pass goes on with `m` at `l`.
LEMMA PassGoes ==
  ASSUME Parts, Works, NoNewHold, NEW l \in PassLabels, NEW m, Becomes(Pass, l, "pass", m),
         task'[Pass].want = task[Pass].want,
         NEW k, task'[Pass].got = k, PassAt(l, m, k)'
  PROVE  OncePass'
<1>1. Pass \in Callers /\ task[Pass].want \in Nat /\ now \in Nat
  BY CallerType DEF Callers, Parts, RestOK, Time
<1>2. task'[Pass].want <= now'
  BY <1>1 DEF Works, NoNewHold
<1>3. (task[Pass].pc)' = l /\ Msg(Pass)' = m /\ (task[Pass].got)' = k /\ Job(Pass)' = "pass"
  BY DEF Becomes, Msg, Job
<1> QED
  BY <1>2, <1>3 DEF OncePass

LEMMA PassGoto ==
  ASSUME Parts, Works, NoNewHold, NEW l \in PassLabels, Goto(Pass, l),
         NEW m, m = Msg(Pass), NEW k, k = task[Pass].got, PassAt(l, m, k)'
  PROVE  OncePass' /\ LeavesOthers(Pass)
<1>1. Pass \in Callers
  BY DEF Callers
<1>2. LeavesOthers(Pass) /\ Becomes(Pass, l, "pass", m) /\ task'[Pass].got = k
  BY <1>1, GotoIs DEF Parts, Works
<1>3. task'[Pass].want = task[Pass].want
  BY <1>1 DEF Goto, Parts, TaskOK, Task
<1> QED
  BY <1>2, <1>3, PassGoes

LEMMA PassCarry ==
  ASSUME Parts, Works, NoNewHold, NEW l \in PassLabels, NEW m, Carry(Pass, m, l),
         NEW k, k = task[Pass].got, PassAt(l, m, k)'
  PROVE  OncePass' /\ LeavesOthers(Pass)
<1>1. Pass \in Callers
  BY DEF Callers
<1>2. LeavesOthers(Pass) /\ Becomes(Pass, l, "pass", m) /\ task'[Pass].got = k
  BY <1>1, CarryIs DEF Parts, Works
<1>3. task'[Pass].want = task[Pass].want
  BY <1>1 DEF Carry, Parts, TaskOK, Task
<1> QED
  BY <1>2, <1>3, PassGoes

LEMMA PassDone ==
  ASSUME Parts, Done(Pass)
  PROVE  OncePass' /\ LeavesOthers(Pass)
<1>1. Pass \in Callers
  BY DEF Callers
<1>2. LeavesOthers(Pass) /\ Becomes(Pass, "idle", "none", Plain(0, 0))
  BY <1>1, DoneIs DEF Parts
<1> QED
  BY <1>2 DEF OncePass, Becomes, At, Job

\* A step of the pass in the middle of its work.
LEMMA WorksMoves ==
  ASSUME OnceInv, ~Waits, OncePass' /\ LeavesOthers(Pass), UNCHANGED composer, NoNewHold,
         OnceServer', OnceRow'
  PROVE  OnceInv'
BY PassWorks, PassMoves

\* The pass is done with the row, whatever it writes.
LEMMA WorksDone ==
  ASSUME Parts, OnceInv, ~Waits, Done(Pass), UNCHANGED composer, UNCHANGED <<server, now>>, OnceRow'
  PROVE  OnceInv'
<1>1. OnceServer' /\ Calm
  BY SameOnce, Numbers DEF OnceInv
<1> QED
  BY <1>1, PassDone, WorksMoves DEF Calm

LEMMA SameRowOnce ==
  ASSUME Parts, OnceInv, UNCHANGED <<server, now, row>>
  PROVE  OnceRow' /\ OnceServer' /\ Calm
BY SameOnce, RowCalm, Numbers DEF OnceInv

LEMMA WorksLetGo ==
  ASSUME Parts, OnceInv, ~Waits, LetGo(Pass), UNCHANGED composer, UNCHANGED <<server, now>>
  PROVE  OnceInv'
BY SameRowOnce, WorksDone DEF LetGo

LEMMA WorksGoto ==
  ASSUME Parts, OnceInv, Works, ~Waits, UNCHANGED <<server, now, row, composer>>,
         NEW l \in PassLabels, Goto(Pass, l),
         NEW m, m = Msg(Pass), NEW k, k = task[Pass].got, PassAt(l, m, k)'
  PROVE  OnceInv'
BY SameRowOnce, PassGoto, WorksMoves DEF Calm

LEMMA WorksCarry ==
  ASSUME Parts, OnceInv, Works, ~Waits, UNCHANGED <<server, now, row, composer>>,
         NEW l \in PassLabels, NEW m, Carry(Pass, m, l), NEW k, k = task[Pass].got, PassAt(l, m, k)'
  PROVE  OnceInv'
BY SameRowOnce, PassCarry, WorksMoves DEF Calm

\* The pass at one of its labels.
LEMMA WorksAt ==
  ASSUME OnceInv, ~Waits
  PROVE  Works /\ Job(Pass) = "pass" /\ ~At(Pass, "idle") /\ ~At(Pass, "listed")
BY DEF OnceInv, OncePass, Works, Waits

LEMMA PassStartOnce == ASSUME Parts, PassesOnly, OnceInv, PassStart PROVE OnceInv'
<1>1. /\ Pass \in Callers /\ UNCHANGED <<server, now, row, composer>> /\ row # NoRow
      /\ Start(Pass, "listed", "pass", row, now) /\ now \in Nat
  BY Numbers DEF PassStart, Callers, store, person
<1>2. OnceRow' /\ OnceServer' /\ Calm
  BY <1>1, SameRowOnce
<1>3. task'[Pass] = [pc |-> "listed", job |-> "pass", msg |-> row, got |-> 0, want |-> now]
  BY <1>1 DEF Start, Parts, TaskOK
<1>4. LeavesOthers(Pass) /\ Waits'
  BY <1>1, <1>3, StartIs DEF Parts, Waits, At
<1>5. OncePass'
  <2>1. \A m, k : PassAt("listed", m, k)'
    BY DEF PassAt
  <2> QED
    BY <1>1, <1>3, <2>1 DEF OncePass, Job, Msg, PassLabels
<1> QED
  BY <1>1, <1>2, <1>4, <1>5, PassMoves DEF OnceInv, OnceComposer, Calm

LEMMA PassClaimOnce == ASSUME Parts, PassesOnly, OnceInv, PassClaim PROVE OnceInv'
<1>1. UNCHANGED <<server, now, row, composer>> /\ At(Pass, "listed") /\ HandedOver
  BY DEF PassClaim, store, person
<1>2. OnceRow' /\ OnceServer' /\ Calm
  BY <1>1, SameRowOnce
<1>3. \A p \in People : ~OnceSchedule(p)
  BY <1>1 DEF HandedOver, PassesOnly, Callers, HandingOver, OnceSchedule, ScheduleAt
<1>4. Works /\ (row # NoRow => composer = Closed)
  BY <1>1 DEF OnceInv, OncePass, Works, At, OnceComposer
<1>5. CASE Claimable
  <2>1. row # NoRow /\ Carry(Pass, row, Route(row)) /\ row \in Row
    BY <1>5 DEF PassClaim, Claimable, Parts, StoreOK
  <2>2. PICK m : m = row
    OBVIOUS
  <2>3. row.hold \in {"none", "mark", "held"} /\ Fits(m)' /\ (Untried(m) => Before')
    BY <1>2, <2>1, <2>2, FitsStays DEF Row, OnceInv, OnceRow, Calm
  <2>4. PICK l : l = Route(row) /\ l \in {"look", "ask", "due"}
                 /\ (l = "look" <=> m.hold = "mark") /\ (l = "ask" <=> m.hold = "held")
                 /\ (l = "due" <=> m.hold = "none")
    BY <2>2, <2>3 DEF Route
  <2>5. PICK k : k = task[Pass].got
    OBVIOUS
  <2>6. PassAt(l, m, k)'
    BY <2>3, <2>4 DEF PassAt, Untried
  <2>7. l \in PassLabels
    BY <2>4 DEF PassLabels
  <2>8. OncePass' /\ LeavesOthers(Pass)
    BY <1>2, <1>4, <2>1, <2>2, <2>4, <2>5, <2>6, <2>7, PassCarry DEF Calm
  <2> QED
    BY <1>1, <1>2, <1>3, <1>4, <2>1, <2>8, PassMoves DEF Calm
<1>6. CASE ~Claimable
  <2>1. Done(Pass)
    BY <1>6 DEF PassClaim
  <2>2. OncePass' /\ LeavesOthers(Pass) /\ Waits'
    BY <2>1, PassDone DEF Parts, Done, TaskOK, Callers, Idle, Waits, At
  <2> QED
    BY <1>1, <1>2, <1>3, <2>2, PassMoves DEF Calm, OnceInv, OnceComposer
<1> QED
  BY <1>5, <1>6

LEMMA AdoptOnce == ASSUME Parts, PassesOnly, OnceInv, NEW k \in Copies, Adopt(k) PROVE OnceInv'
<1>1. /\ UNCHANGED <<row, composer, subs, hour, born, delivered, now>> /\ row = NoRow
      /\ place[k] = "held" /\ subs[k] # "none" /\ Ever(k) /\ Pass \in Callers
  BY DEF Adopt, store, person, OnceInv, OnceServer, Callers
<1>2. composer = Closed /\ (\A p \in People : ~OnceSchedule(p)) /\ OnceRow'
  BY <1>1 DEF OnceInv, OnceComposer, Before, OnceSchedule, OnceRow
<1>3. CASE subs[k] = "pending"
  <2>1. /\ Start(Pass, "put", "pass", Adopted(Plain(hour[k], k), k), now)
        /\ UNCHANGED <<server, now>>
    BY <1>1, <1>3 DEF Adopt, server
  <2>2. PICK m : m = Adopted(Plain(hour[k], k), k)
    OBVIOUS
  <2>3. m.hold = "held" /\ m.copy = k /\ m.at = hour[k]
    BY <2>2 DEF Adopted, Plain
  <2>4. OnceServer' /\ Calm /\ hour[k] \in Nat /\ now \in Nat
    BY <1>1, <2>1, SameRowOnce, Numbers
  <2>5. task'[Pass] = [pc |-> "put", job |-> "pass", msg |-> m, got |-> 0, want |-> now]
    BY <1>1, <2>1, <2>2 DEF Start, Parts, TaskOK
  <2>6. LeavesOthers(Pass)
    BY <1>1, <2>1, StartIs DEF Parts
  <2>7. \A j : PassAt("put", m, j)'
    BY <1>1, <2>3, <2>4 DEF PassAt, Fits, Untried, Ever
  <2>8. OncePass'
    BY <1>1, <2>4, <2>5, <2>7 DEF OncePass, Job, Msg, PassLabels
  <2> QED
    BY <1>1, <1>2, <2>4, <2>6, <2>8, PassMoves DEF Calm
<1>4. CASE subs[k] # "pending"
  <2>1. UNCHANGED task /\ ~At(Pass, "send")
    BY <1>4 DEF Adopt, At
  <2>2. OnceServer' /\ Calm
    <3>1. CASE subs[k] = "final"
      <4>1. delivered = 1 /\ place' = Filed(k) /\ inSent' = (inSent \/ place[k] # "gone")
        BY <1>1, <1>4, <3>1 DEF Adopt, OnceInv, OnceServer
      <4> QED
        BY <1>1, <4>1, FiledOnce DEF OnceInv
    <3>2. CASE subs[k] # "final"
      <4>1. place' = TakenOff(k) /\ ~Went(k)
        BY <1>1, <1>4, <3>2 DEF Adopt, Went
      <4>2. inSent' = inSent
        BY <1>4, <3>2, Zenon DEF Adopt, Parts, ServerOK
      <4> QED
        BY <1>1, <4>1, <4>2, TakenOffOnce DEF OnceInv
    <3> QED
      BY <3>1, <3>2
  <2> QED
    BY <1>1, <1>2, <2>1, <2>2, WorldMoves
<1> QED
  BY <1>3, <1>4

LEMMA PassDueOnce == ASSUME Parts, PassesOnly, OnceInv, PassDue(Pass) PROVE OnceInv'
<1>1. At(Pass, "due") /\ ~Waits /\ Works /\ UNCHANGED <<server, now, composer>>
  BY WorksAt DEF PassDue, Waits, At, person
<1>2. CASE Goto(Pass, "try") /\ UNCHANGED store
  <2>1. PICK m, k : m = Msg(Pass) /\ k = task[Pass].got
    OBVIOUS
  <2>2. Calm /\ UNCHANGED row
    BY <1>1, <1>2, SameRowOnce DEF store
  <2>3. PassAt("try", m, k)'
    <3>1. Fits(m) /\ m.hold = "none" /\ (Untried(m) => Before)
      BY <1>1, <2>1 DEF Works, PassAt, At
    <3> QED
      BY <2>2, <3>1, FitsStays DEF PassAt, Calm, Untried
  <2> QED
    BY <1>1, <1>2, <2>1, <2>2, <2>3, WorksGoto DEF PassLabels
<1>3. CASE LetGo(Pass)
  BY <1>1, <1>3, WorksLetGo
<1> QED
  BY <1>2, <1>3 DEF PassDue

\* A look that counts and finds nothing: the server holds nothing.
LEMMA EmptyLook ==
  ASSUME Parts, OnceServer, NEW m \in Row, m.hold = "mark", Fits(m), {} \in Seen,
         now >= m.since + AskAgain
  PROVE  Clear
<1> SUFFICES ASSUME NEW k \in Copies, place[k] = "held" PROVE FALSE
  BY DEF Clear
<1>1. Ever(k) /\ born[k] <= m.since
  BY DEF OnceServer, Fits
<1>2. born[k] + AskAgain <= now
  BY <1>1, Numbers
<1> QED
  BY <1>2 DEF Seen, HeldCopies

LEMMA PassLookOnce == ASSUME Parts, PassesOnly, OnceInv, Look(Pass) PROVE OnceInv'
<1>1. At(Pass, "look") /\ ~Waits /\ Works /\ Job(Pass) = "pass" /\ UNCHANGED <<server, now, composer>>
  BY WorksAt DEF Look, Waits, At, person
<1>2. PICK m, k : m = Msg(Pass) /\ k = task[Pass].got
  OBVIOUS
<1>3. /\ m \in Row /\ m.hold = "mark" /\ Fits(m) /\ task[Pass].want \in Nat /\ task[Pass].want <= now
      /\ Pass \in Callers
  BY <1>1, <1>2, CallerType DEF Works, PassAt, At, Parts, Callers, Time
<1>4. UNCHANGED row => Calm /\ Fits(m)'
  BY <1>1, <1>3, SameRowOnce, FitsStays DEF Calm
<1>5. ASSUME Goto(Pass, "unsure"), UNCHANGED store PROVE OnceInv'
  <2>1. PassAt("unsure", m, k)'
    BY <1>4, <1>5 DEF PassAt, store
  <2> QED
    BY <1>1, <1>2, <1>5, <2>1, WorksGoto DEF PassLabels, store
<1>6. ASSUME {} \in Seen, LookedNothing(Pass) PROVE OnceInv'
  <2>1. CASE TrustsLook(Pass) /\ m.at <= Clock(Pass)
    <3>1. PICK n : n = [Unheld(m) EXCEPT !.tried = TRUE]
      OBVIOUS
    <3>2. Carry(Pass, n, "due") /\ UNCHANGED store
      BY <1>1, <1>2, <1>6, <2>1, <3>1 DEF LookedNothing
    <3>3. n.hold = "none" /\ n.tried
      BY <1>3, <3>1, UnheldType DEF Unheld, Row
    <3>4. now >= m.since + AskAgain
      BY <1>1, <1>2, <1>3, <2>1, Numbers DEF TrustsLook, Clock
    <3>5. Clear
      BY <1>3, <1>6, <3>4, EmptyLook DEF OnceInv
    <3>6. Clear'
      BY <1>4, <3>2, <3>5 DEF store, Calm, NoNewHold, Clear
    <3>7. PassAt("due", n, k)'
      BY <3>3, <3>6 DEF PassAt, Fits, Untried
    <3> QED
      BY <1>1, <1>2, <3>2, <3>7, WorksCarry DEF PassLabels, store
  <2>2. CASE ~(TrustsLook(Pass) /\ m.at <= Clock(Pass))
    <3>1. LetGo(Pass)
      BY <1>1, <1>2, <1>6, <2>2 DEF LookedNothing
    <3> QED
      BY <1>1, <3>1, WorksLetGo
  <2> QED
    BY <2>1, <2>2
<1>7. ASSUME NEW j \in Copies, place[j] = "held", UNCHANGED store,
             task' = [task EXCEPT ![Pass].got = j, ![Pass].pc = "found"]
      PROVE  OnceInv'
  <2>1. /\ LeavesOthers(Pass) /\ Becomes(Pass, "found", "pass", m) /\ task'[Pass].got = j
        /\ task'[Pass].want = task[Pass].want
    BY <1>1, <1>2, <1>3, <1>7 DEF LeavesOthers, Becomes, Parts, TaskOK, Task, Msg, Job
  <2>2. OnceRow' /\ OnceServer' /\ Calm /\ Ever(j) /\ Fits(m)'
    BY <1>1, <1>3, <1>4, <1>7, SameRowOnce DEF store, OnceInv, OnceServer
  <2>3. PassAt("found", m, j)'
    BY <1>3, <2>2 DEF PassAt, Found, Ever, Calm, NoNewHold
  <2>4. OncePass'
    BY <1>1, <2>1, <2>2, <2>3, PassGoes DEF PassLabels, Calm
  <2> QED
    BY <1>1, <2>1, <2>2, <2>4, WorksMoves DEF Calm
<1>8. Unreadable(Pass) => Goto(Pass, "unsure") /\ UNCHANGED store
  BY <1>1 DEF Unreadable
<1>9. \/ {} \in Seen /\ LookedNothing(Pass)
      \/ \E j \in Copies : /\ place[j] = "held" /\ UNCHANGED store
                          /\ task' = [task EXCEPT ![Pass].got = j, ![Pass].pc = "found"]
      \/ Unreadable(Pass) \/ LetGo(Pass)
  BY DEF Look, Seen, HeldCopies
<1> QED
  BY <1>1, <1>5, <1>6, <1>7, <1>8, <1>9, WorksLetGo

LEMMA PassTakeHoldOnce == ASSUME Parts, PassesOnly, OnceInv, TakeHold(Pass) PROVE OnceInv'
<1>1. At(Pass, "found") /\ ~Waits /\ Works /\ Job(Pass) = "pass"
  <2>1. task[Pass].pc \in {"holding", "found"} /\ ~Waits
    BY DEF TakeHold, Waits, At
  <2> QED
    BY <2>1, WorksAt DEF Works, At, PassLabels
<1>2. PICK m, k : m = Msg(Pass) /\ k = task[Pass].got
  OBVIOUS
<1>3. PICK old : old = IF m.copy = k THEN 0 ELSE m.copy
  OBVIOUS
<1>4. /\ m \in Row /\ m.copy \in 0..MaxCopies /\ m.hold = "mark" /\ Fits(m) /\ Found(k)
  BY <1>1, <1>2, CallerType DEF Works, PassAt, At, Parts, Callers, Row
<1>5. /\ UNCHANGED <<row, composer, subs, hour, born, inSent, delivered, now>>
      /\ place' = Destroyed(old) \/ UNCHANGED place
  BY <1>1, <1>2, <1>3 DEF TakeHold, store, person
<1>6. old \in 0..MaxCopies /\ (old \in Copies => place[old] # "held")
  BY <1>3, <1>4, SendLaterAssumption DEF Fits, OnceInv, OnceServer, Copies
<1>7. OnceServer' /\ Calm
  <2>1. CASE place' = Destroyed(old)
    BY <1>5, <1>6, <2>1, DestroyedOnce DEF OnceInv
  <2>2. CASE UNCHANGED place
    BY <1>5, <2>2, SameOnce, Numbers DEF OnceInv, server
  <2> QED
    BY <1>5, <2>1, <2>2
<1>8. PICK n : n = Adopted(m, k)
  OBVIOUS
<1>9. Carry(Pass, n, "put")
  BY <1>1, <1>2, <1>8 DEF TakeHold, At
<1>10. n.hold = "held" /\ n.copy = k /\ n.at = m.at
  BY <1>4, <1>8 DEF Adopted, Row
<1>11. m.at <= hour[k] /\ UNCHANGED hour
  BY <1>4, <1>7 DEF Fits, Found, Calm, NoNewHold
<1>12. PassAt("put", n, k)'
  BY <1>4, <1>10, <1>11 DEF PassAt, Fits, Found, Ever, Untried
<1>13. OncePass' /\ LeavesOthers(Pass) /\ OnceRow'
  BY <1>1, <1>2, <1>5, <1>7, <1>9, <1>12, PassCarry, RowCalm DEF PassLabels, Calm, OnceInv
<1> QED
  BY <1>1, <1>5, <1>7, <1>13, WorksMoves DEF Calm

LEMMA PassPutOnce == ASSUME Parts, PassesOnly, OnceInv, PutRow(Pass) PROVE OnceInv'
<1>1. At(Pass, "put") /\ ~Waits /\ Works /\ Job(Pass) = "pass"
  BY WorksAt DEF PutRow, Waits, At
<1>2. Done(Pass) /\ UNCHANGED <<server, now, composer>> /\ row' = Msg(Pass)
  BY <1>1 DEF PutRow, Write
<1>3. PICK m : m = Msg(Pass)
  OBVIOUS
<1>4. Fits(m) /\ (Untried(m) => Before) /\ Calm
  BY <1>1, <1>2, <1>3, SameOnce, Numbers DEF Works, PassAt, At, OnceInv
<1>5. OnceRow'
  BY <1>2, <1>3, <1>4, FitsStays, RowWritten DEF Calm
<1> QED
  BY <1>1, <1>2, <1>5, WorksDone

LEMMA PassAskOnce == ASSUME Parts, PassesOnly, OnceInv, Ask(Pass) PROVE OnceInv'
<1>1. At(Pass, "ask") /\ ~Waits /\ Works /\ Job(Pass) = "pass"
  BY WorksAt DEF Ask, Waits, At
<1>2. PICK m, got, k : m = Msg(Pass) /\ got = task[Pass].got /\ k = m.copy
  OBVIOUS
<1>3. /\ m \in Row /\ m.hold = "held" /\ Fits(m) /\ k \in Copies /\ k \in 0..MaxCopies
      /\ m.at <= hour[k] /\ m.at \in Nat
  BY <1>1, <1>2, CallerType, Numbers DEF Works, PassAt, At, Parts, Callers, Fits, Row
<1>4. PICK standing : standing = Standing(k, m.at)
  OBVIOUS
<1>5. /\ standing = "sent" => delivered = 1
      /\ standing = "notSent" => ~Went(k)
  BY <1>3, <1>4, StandingOnce DEF OnceInv
<1>6. UNCHANGED <<now, composer, subs, hour, born, delivered>>
  BY <1>1, <1>2, <1>4 DEF Ask, person, server
<1>7. ASSUME LetGo(Pass), UNCHANGED <<place, inSent>> PROVE OnceInv'
  BY <1>1, <1>6, <1>7, WorksLetGo DEF server
<1>8. ASSUME NEW l \in {"forget", "fate", "unsure"}, Goto(Pass, l), OnceServer', Calm, UNCHANGED row
      PROVE  OnceInv'
  <2>1. PassAt(l, m, got)'
    BY <1>3, <1>8, FitsStays DEF PassAt, Calm
  <2>2. OncePass' /\ LeavesOthers(Pass)
    BY <1>1, <1>2, <1>8, <2>1, PassGoto DEF PassLabels, Calm
  <2>3. OnceRow'
    BY <1>8, RowCalm DEF OnceInv
  <2> QED
    BY <1>1, <1>6, <1>8, <2>2, <2>3, WorksMoves DEF Calm
<1>9. ASSUME standing = "sent", Answered(Pass, standing), UNCHANGED store,
             \/ place' = Filed(k) /\ inSent' = (inSent \/ place[k] # "gone")
             \/ UNCHANGED <<place, inSent>>
      PROVE  OnceInv'
  <2>1. Goto(Pass, "forget")
    BY <1>1, <1>9 DEF Answered
  <2>2. OnceServer' /\ Calm
    BY <1>3, <1>5, <1>6, <1>9, FiledOnce, SameOnce, Numbers DEF OnceInv, server
  <2> QED
    BY <1>8, <1>9, <2>1, <2>2 DEF store
<1>10. ASSUME standing = "notSent", Answered(Pass, standing), UNCHANGED store,
              place' = TakenOff(k), UNCHANGED inSent
       PROVE  OnceInv'
  <2>1. Goto(Pass, "fate")
    BY <1>1, <1>10 DEF Answered
  <2>2. OnceServer' /\ Calm
    BY <1>3, <1>5, <1>6, <1>10, TakenOffOnce DEF OnceInv
  <2> QED
    BY <1>8, <1>10, <2>1, <2>2 DEF store
<1>11. ASSUME standing = "unknown", Answered(Pass, standing), UNCHANGED store, UNCHANGED <<place, inSent>>
       PROVE  OnceInv'
  <2>1. Goto(Pass, "unsure")
    BY <1>1, <1>11 DEF Answered
  <2>2. OnceServer' /\ Calm
    BY <1>6, <1>11, SameOnce, Numbers DEF OnceInv, server
  <2> QED
    BY <1>8, <1>11, <2>1, <2>2 DEF store
<1>12. \/ LetGo(Pass) /\ UNCHANGED <<place, inSent>>
       \/ /\ Answered(Pass, standing) /\ UNCHANGED store
          /\ standing \in {"sent", "notSent", "unknown"}
          /\ \/ /\ place' = CASE standing = "sent" -> Filed(k)
                               [] standing = "notSent" -> TakenOff(k)
                               [] OTHER -> place
                /\ inSent' = (inSent \/ (standing = "sent" /\ place[k] # "gone"))
             \/ standing = "sent" /\ UNCHANGED <<place, inSent>>
  BY <1>1, <1>2, <1>4 DEF Ask, server
<1>13. standing \in {"notSent", "unknown"} /\ inSent' = (inSent \/ (standing = "sent" /\ place[k] # "gone"))
       => inSent' = inSent
  BY Zenon DEF Parts, ServerOK
<1> QED
  BY <1>7, <1>9, <1>10, <1>11, <1>12, <1>13

LEMMA CalledBackOnce == ASSUME Parts, PassesOnly, OnceInv, CalledBack(Pass) PROVE OnceInv'
<1>1. /\ At(Pass, "fate") /\ ~Waits /\ Works /\ Job(Pass) = "pass"
      /\ UNCHANGED <<server, now, row, composer>>
  BY WorksAt DEF CalledBack, Waits, At, store, person
<1>2. PICK m, got : m = Msg(Pass) /\ got = task[Pass].got
  OBVIOUS
<1>3. m.hold = "held" /\ Fits(m)
  BY <1>1, <1>2 DEF Works, PassAt, At
<1>4. PICK l \in {"forget", "elsewhere", "remove"} :
         Goto(Pass, l) /\ (l = "elsewhere" => place[m.copy] = "gone")
  BY <1>1, <1>2 DEF CalledBack
<1>5. l = "elsewhere" => Clear
  BY <1>3, <1>4 DEF Fits, OnceInv, OnceServer, Clear
<1>6. Calm
  BY <1>1, SameRowOnce
<1>7. PassAt(l, m, got)'
  BY <1>3, <1>4, <1>5, <1>6, FitsStays DEF PassAt, Calm, NoNewHold, Clear
<1> QED
  BY <1>1, <1>2, <1>4, <1>7, WorksGoto DEF PassLabels

LEMMA StuckOnce == ASSUME Parts, PassesOnly, OnceInv, Stuck(Pass) PROVE OnceInv'
<1>1. /\ task[Pass].pc \in {"unsure", "elsewhere"} /\ ~Waits /\ Works
      /\ Done(Pass) /\ UNCHANGED <<server, now, composer>>
  BY WorksAt DEF Stuck, Waits, At, person
<1>2. PICK m : m = Msg(Pass)
  OBVIOUS
<1>3. m \in Row /\ Fits(m)
  BY <1>1, <1>2, CallerType DEF Works, PassAt, Parts, Callers
<1>4. Calm /\ Fits(m)'
  BY <1>1, <1>3, SameOnce, Numbers, FitsStays DEF OnceInv, Calm
<1>5. PICK n : n = [m EXCEPT !.tried = TRUE]
  OBVIOUS
<1>6. n \in Row /\ n.tried
  BY <1>3, <1>5, RowWith DEF Row
<1>7. CASE row' = [n EXCEPT !.problem = "checkSent"]
  <2>1. PICK r : r = [n EXCEPT !.problem = "checkSent"]
    OBVIOUS
  <2>2. r.tried /\ r.hold = m.hold /\ r.at = m.at /\ r.copy = m.copy /\ r.since = m.since
    BY <1>3, <1>5, <2>1 DEF Row
  <2>3. Fits(r)'
    BY <1>4, <2>2 DEF Fits
  <2>4. OnceRow'
    BY <1>7, <2>1, <2>2, <2>3, RowWritten DEF Untried
  <2> QED
    BY <1>1, <2>4, WorksDone
<1>8. CASE At(Pass, "elsewhere") /\ row' = [Unheld(n) EXCEPT !.copy = 0, !.problem = "elsewhere"]
  <2>1. PICK r : r = [Unheld(n) EXCEPT !.copy = 0, !.problem = "elsewhere"]
    OBVIOUS
  <2>2. r.tried /\ r.hold = "none"
    BY <1>6, <2>1 DEF Unheld, Row
  <2>3. Clear'
    BY <1>1, <1>4, <1>8 DEF Works, PassAt, At, Calm, NoNewHold, Clear
  <2>4. OnceRow'
    BY <1>8, <2>1, <2>2, <2>3, RowWritten DEF Fits, Untried
  <2> QED
    BY <1>1, <2>4, WorksDone
<1> QED
  BY <1>2, <1>5, <1>7, <1>8 DEF Stuck, Write

LEMMA PassRemoveOnce == ASSUME Parts, PassesOnly, OnceInv, RemoveRow(Pass) PROVE OnceInv'
<1>1. ~Waits /\ Done(Pass) /\ UNCHANGED <<server, now, composer>> /\ row' = NoRow
  BY DEF RemoveRow, Waits, At, Write
<1>2. OnceRow'
  BY <1>1 DEF OnceRow
<1> QED
  BY <1>1, <1>2, WorksDone

LEMMA TryOnce == ASSUME Parts, PassesOnly, OnceInv, Try(Pass) PROVE OnceInv'
<1>1. At(Pass, "try") /\ ~Waits /\ Works /\ Job(Pass) = "pass" /\ UNCHANGED <<server, now, composer>>
  BY WorksAt DEF Try, Waits, At, person
<1>2. PICK m, got : m = Msg(Pass) /\ got = task[Pass].got
  OBVIOUS
<1>3. m \in Row /\ Fits(m) /\ m.hold = "none" /\ (Untried(m) => Before)
  BY <1>1, <1>2, CallerType DEF Works, PassAt, At, Parts, Callers
<1>4. Calm /\ Fits(m)' /\ OnceServer'
  BY <1>1, <1>3, SameOnce, Numbers, FitsStays DEF OnceInv, Calm
<1>5. row' = IF row # NoRow THEN [row EXCEPT !.tried = TRUE] ELSE row
  BY <1>1 DEF Try
<1>6. OnceRow' /\ (row' # NoRow => ~Untried(row'))
  <2>1. CASE row = NoRow
    BY <1>5, <2>1 DEF OnceRow
  <2>2. CASE row # NoRow
    <3>1. PICK r : r = row'
      OBVIOUS
    <3>2. row \in Row /\ Fits(row)
      BY <2>2 DEF Parts, StoreOK, OnceInv, OnceRow
    <3>3. r.tried /\ r.hold = row.hold /\ r.at = row.at /\ r.copy = row.copy /\ r.since = row.since
      BY <1>5, <2>2, <3>1, <3>2 DEF Row
    <3>4. Fits(r)
      BY <3>2, <3>3 DEF Fits
    <3>5. Fits(r)'
      BY <1>4, <3>4, FitsStays DEF Calm
    <3> QED
      BY <3>1, <3>3, <3>5, RowWritten DEF Untried
  <2> QED
    BY <2>1, <2>2
<1>7. PICK l : l = IF m.raw /\ m.tried THEN "lookSent" ELSE "send"
  OBVIOUS
<1>8. Goto(Pass, l)
  BY <1>2, <1>7 DEF Try
<1>9. (~inSent /\ UNCHANGED inSent) \/ ~(l = "send" /\ m.raw)
  BY <1>1, <1>3, <1>7 DEF Untried, Before, OnceInv, OnceServer, server
<1>10. PassAt(l, m, got)'
  BY <1>3, <1>4, <1>6, <1>7, <1>9 DEF PassAt, Untried
<1>11. OncePass' /\ LeavesOthers(Pass)
  BY <1>1, <1>2, <1>4, <1>7, <1>8, <1>10, PassGoto DEF PassLabels, Calm
<1> QED
  BY <1>1, <1>4, <1>6, <1>11, WorksMoves DEF Calm

LEMMA LookSentOnce == ASSUME Parts, PassesOnly, OnceInv, LookSent(Pass) PROVE OnceInv'
<1>1. /\ At(Pass, "lookSent") /\ ~Waits /\ Works /\ Job(Pass) = "pass"
      /\ UNCHANGED <<row, subs, hour, born, inSent, delivered, now, composer>>
  BY WorksAt DEF LookSent, Waits, At, store, person
<1>2. PICK m, got : m = Msg(Pass) /\ got = task[Pass].got
  OBVIOUS
<1>3. /\ m \in Row /\ Fits(m) /\ m.hold = "none" /\ m.copy \in 0..MaxCopies
      /\ (row # NoRow => ~Untried(row))
  BY <1>1, <1>2, CallerType DEF Works, PassAt, At, Parts, Callers, Row
<1>4. PICK l \in {"forget", "send", "keep", "stick"} :
         /\ Goto(Pass, l) /\ (l = "send" => ~inSent)
         /\ place' = Destroyed(m.copy) \/ UNCHANGED place
  BY <1>2 DEF LookSent
<1>5. OnceServer' /\ Calm
  <2>1. CASE place' = Destroyed(m.copy)
    BY <1>1, <1>3, <2>1, DestroyedOnce DEF OnceInv, Fits, Clear
  <2>2. CASE UNCHANGED place
    BY <1>1, <2>2, SameOnce, Numbers DEF OnceInv, server
  <2> QED
    BY <1>4, <2>1, <2>2
<1>6. PassAt(l, m, got)'
  BY <1>1, <1>3, <1>4, <1>5, FitsStays DEF PassAt, Calm, Untried
<1>7. OncePass' /\ LeavesOthers(Pass) /\ OnceRow'
  BY <1>1, <1>2, <1>4, <1>5, <1>6, PassGoto, RowCalm DEF PassLabels, Calm, OnceInv
<1> QED
  BY <1>1, <1>5, <1>7, WorksMoves DEF Calm

\* The message goes out from here: nothing is held then, and nothing went before.
LEMMA SendOnce == ASSUME Parts, HoldInv, PassesOnly, OnceInv, Send(Pass) PROVE OnceInv'
<1>1. /\ At(Pass, "send") /\ ~Waits /\ Works /\ Job(Pass) = "pass"
      /\ UNCHANGED <<row, subs, hour, born, now, composer>>
  BY WorksAt DEF Send, Waits, At, store, person
<1>2. PICK m, got : m = Msg(Pass) /\ got = task[Pass].got
  OBVIOUS
<1>3. /\ m \in Row /\ Fits(m) /\ m.hold = "none" /\ m.copy \in 0..MaxCopies /\ Clear
      /\ (row # NoRow => ~Untried(row)) /\ (m.raw => ~inSent)
  BY <1>1, <1>2, CallerType DEF Works, PassAt, At, Parts, Callers, Row, Fits
<1> DEFINE goes == m.raw \/ (m.copy # 0 /\ place[m.copy] # "gone" /\ ~inSent)
           Goes == /\ inSent' = (inSent \/ (goes /\ Job(Pass) # "post"))
                   /\ delivered' = IF goes THEN OneMore(delivered) ELSE delivered
<1>4. PICK l \in {"forget", "keep", "stick"} :
         /\ Goto(Pass, l)
         /\ place' = Destroyed(m.copy) \/ UNCHANGED place
         /\ UNCHANGED <<inSent, delivered>> \/ Goes
  BY <1>2 DEF Send
<1>5. /\ Goto(Pass, l)
      /\ place' = Destroyed(m.copy) \/ UNCHANGED place
      /\ \/ UNCHANGED delivered /\ (inSent' <=> inSent)
         \/ ~inSent /\ inSent' /\ delivered' = OneMore(delivered)
  <2>1. goes => ~inSent
    BY <1>3
  <2>2. Goes => \/ UNCHANGED delivered /\ (inSent' <=> inSent)
                \/ ~inSent /\ inSent' /\ delivered' = OneMore(delivered)
    BY <1>1, <2>1
  <2> HIDE DEF Goes
  <2> QED
    BY <1>4, <2>2
<1> HIDE DEF goes, Goes
<1>6. \A k \in Copies : place'[k] = place[k] \/ place'[k] = "gone"
  BY <1>5 DEF Destroyed, Parts, ServerOK
<1>7. NoNewHold
  BY <1>1, <1>6, Numbers DEF NoNewHold
<1>8. ~inSent => delivered = 0
  BY <1>3 DEF OnceInv, OnceServer, Went, Clear
<1>9. \A k \in Copies : subs[k] # "pending" /\ ~Went(k)
  BY <1>3 DEF Clear, Went, HoldInv, ServerInv, HoldsShow
<1>10. OnceServer'
  <2>1. CASE UNCHANGED delivered /\ (inSent' <=> inSent)
    BY <1>1, <1>6, <1>8, <1>9, <2>1 DEF OnceInv, OnceServer, Ever, NoDoubleSend
  <2>2. CASE ~inSent /\ inSent' /\ delivered' = OneMore(delivered)
    <3>1. delivered' = 1
      BY <1>8, <2>2 DEF OneMore
    <3> QED
      BY <1>1, <1>6, <1>9, <2>2, <3>1 DEF OnceInv, OnceServer, Ever, NoDoubleSend
  <2> QED
    BY <1>5, <2>1, <2>2
<1>11. PassAt(l, m, got)'
  BY <1>3, <1>5, <1>7, FitsStays DEF PassAt
<1>12. OncePass' /\ LeavesOthers(Pass)
  BY <1>1, <1>2, <1>5, <1>7, <1>11, PassGoto DEF PassLabels
<1>13. OnceRow'
  <2>1. ASSUME NEW r, r = row, r # NoRow PROVE Fits(r)' /\ ~Untried(r)
    BY <1>3, <1>7, <2>1, FitsStays DEF OnceInv, OnceRow
  <2> QED
    BY <1>1, <2>1 DEF OnceRow
<1> QED
  BY <1>1, <1>7, <1>10, <1>12, <1>13, WorksMoves

LEMMA ForgetOnce == ASSUME Parts, PassesOnly, OnceInv, Forget(Pass) PROVE OnceInv'
<1>1. At(Pass, "forget") /\ ~Waits /\ Done(Pass) /\ UNCHANGED <<server, now, composer>>
  BY DEF Forget, Waits, At, person
<1>2. row' = NoRow \/ UNCHANGED row
  BY DEF Forget, Write, store
<1>3. OnceRow'
  BY <1>1, <1>2, SameRowOnce DEF OnceRow
<1> QED
  BY <1>1, <1>3, WorksDone

LEMMA KeepOnce == ASSUME Parts, PassesOnly, OnceInv, Keep(Pass) PROVE OnceInv'
<1>1. /\ task[Pass].pc \in {"keep", "stick"} /\ ~Waits /\ Works /\ Job(Pass) = "pass"
      /\ Done(Pass) /\ UNCHANGED <<server, now>>
  BY WorksAt DEF Keep, Waits, At
<1>2. PICK m : m = Msg(Pass)
  OBVIOUS
<1>3. m \in Row /\ Fits(m) /\ m.hold = "none"
  BY <1>1, <1>2, CallerType DEF Works, PassAt, Parts, Callers
<1>4. PICK problem, at : /\ row' = [Unheld(m) EXCEPT !.tried = TRUE, !.problem = problem, !.at = at]
                         /\ UNCHANGED composer
  BY <1>1, <1>2 DEF Keep, Write
<1>5. PICK r : r = row'
  OBVIOUS
<1>6. r.tried /\ r.hold = "none"
  BY <1>3, <1>4, <1>5 DEF Unheld, Row
<1>7. Clear'
  BY <1>1, <1>3, SameOnce, Numbers DEF OnceInv, Fits, Calm, NoNewHold, Clear
<1>8. OnceRow'
  BY <1>5, <1>6, <1>7, RowWritten DEF Fits, Untried
<1> QED
  BY <1>1, <1>4, <1>8, WorksDone

LEMMA PassDiesOnce == ASSUME Parts, PassesOnly, OnceInv, CallerDies(Pass) PROVE OnceInv'
<1>1. ~At(Pass, "idle") /\ Done(Pass) /\ UNCHANGED <<server, now, row, composer>>
  BY DEF CallerDies, store, person
<1>2. OnceRow' /\ OnceServer' /\ Calm /\ OncePass' /\ LeavesOthers(Pass)
  BY <1>1, SameRowOnce, PassDone
<1>3. Waits'
  BY <1>1 DEF Parts, Done, TaskOK, Callers, Idle, Waits, At
<1> QED
  BY <1>1, <1>2, <1>3, PassMoves DEF OnceInv, OnceComposer, Calm

\* No other step is the pass's.
LEMMA PassStepOnce ==
  ASSUME Parts, HoldInv, PassesOnly, OnceInv, Step(Pass)
  PROVE  OnceInv'
<1>1. \/ At(Pass, "idle") /\ Job(Pass) = "none"
      \/ Job(Pass) = "pass" /\ task[Pass].pc \in PassLabels
  BY DEF OnceInv, OncePass
<1>2. /\ ~TakeNamed(Pass) /\ ~HandOver(Pass) /\ ~SaveScheduled(Pass) /\ ~ScheduleRefused(Pass)
      /\ ~Store(Pass) /\ ~Reclaim(Pass) /\ ~Called(Pass) /\ ~Restore(Pass) /\ ~Reopened(Pass)
  BY <1>1 DEF PassLabels, At, TakeNamed, HandOver, SaveScheduled, ScheduleRefused, Store, Reclaim,
     Called, Restore, Reopened
<1> QED
  BY <1>2, PassDueOnce, PassLookOnce, PassTakeHoldOnce, PassPutOnce, PassAskOnce, CalledBackOnce,
     StuckOnce, PassRemoveOnce, TryOnce, LookSentOnce, SendOnce, ForgetOnce, KeepOnce DEF Step

----------------------------------------------------------------------------
(* The person.                                                             *)

\* The person's task goes on with the delete, at `l`.
LEMMA DropGoes ==
  ASSUME NEW p \in People, NEW l, NEW m, NEW k, Becomes(p, l, "drop", m), task'[p].got = k,
         composer' = Closed, DropAt(l, m, k)'
  PROVE  OncePerson(p)'
<1>1. (task[p].pc)' = l /\ Msg(p)' = m /\ (task[p].got)' = k /\ Job(p)' = "drop"
  BY DEF Becomes, Msg, Job
<1> QED
  BY <1>1 DEF OncePerson, OnceDrop

LEMMA ScheduleGoes ==
  ASSUME NEW p \in People, NEW l, NEW m, NEW k, Becomes(p, l, "schedule", m), task'[p].got = k,
         ScheduleAt(l, m, k)', Waits', composer' = Closed,
         row' # NoRow, row'.hold = "mark", row'.since = now'
  PROVE  OncePerson(p)'
<1>1. (task[p].pc)' = l /\ Msg(p)' = m /\ (task[p].got)' = k /\ Job(p)' = "schedule"
  BY DEF Becomes, Msg, Job
<1> QED
  BY <1>1 DEF OncePerson, OnceSchedule

LEMMA PersonDone ==
  ASSUME Parts, NEW p \in People, Done(p)
  PROVE  OncePerson(p)' /\ LeavesOthers(p)
<1>1. LeavesOthers(p) /\ Becomes(p, "idle", "none", Plain(0, 0))
  BY DoneIs DEF Parts, Callers
<1> QED
  BY <1>1 DEF OncePerson, Becomes, At, Job

LEMMA WaitsStays ==
  ASSUME NEW p \in People, LeavesOthers(p)
  PROVE  Waits' = Waits /\ task'[Pass] = task[Pass]
BY SendLaterAssumption DEF LeavesOthers, Callers, Waits, At

\* A step of the person that leaves the server as it is, and the composer closed.
LEMMA PersonHere ==
  ASSUME Parts, PassesOnly, OnceInv, NEW p \in People, LeavesOthers(p), OncePerson(p)',
         UNCHANGED <<server, now, composer>>, composer = Closed,
         OnceRow', Waits \/ row' \in {row, NoRow}
  PROVE  OnceInv'
<1>1. OnceServer' /\ Calm
  BY SameOnce, Numbers DEF OnceInv
<1>2. OnceComposer' /\ (inSent' => inSent)
  BY DEF OnceComposer, server
<1> QED
  BY <1>1, <1>2, PersonMoves

LEMMA PersonLetGo ==
  ASSUME Parts, PassesOnly, OnceInv, NEW p \in People, Done(p), UNCHANGED <<server, now, composer>>,
         composer = Closed, row' \in {row, NoRow}
  PROVE  OnceInv'
<1>1. OnceRow'
  BY SameRowOnce DEF OnceRow
<1> QED
  BY <1>1, PersonDone, PersonHere

LEMMA ScheduleOnce ==
  ASSUME Parts, PassesOnly, OnceInv, NEW p \in People, NEW at \in Time, Schedule(p, at)
  PROVE  OnceInv'
<1>1. PICK m : m = Marked(Plain(at, composer), now)
  OBVIOUS
<1>2. /\ row' = m /\ Start(p, "handing", "schedule", m, at) /\ composer' = Closed
      /\ UNCHANGED <<server, now>> /\ composer # Closed /\ p \in Callers
  BY <1>1 DEF Schedule, Write, Callers
<1>3. m.hold = "mark" /\ m.since = now
  BY <1>1 DEF Marked, Plain
<1>4. Waits /\ Before /\ composer \in 0..MaxCopies /\ now \in Time
  BY <1>2 DEF OnceInv, OnceComposer, Parts, PersonOK, RestOK
<1>5. OnceServer' /\ Calm /\ (inSent' => inSent)
  BY <1>2, SameOnce, Numbers DEF OnceInv, server
<1>6. Before' /\ Fits(m)'
  BY <1>3, <1>4, <1>5 DEF Calm, Before, Fits
<1>7. LeavesOthers(p) /\ Becomes(p, "handing", "schedule", m)
  BY <1>2, StartIs DEF Parts
<1>8. OncePerson(p)'
  <2>1. m # NoRow
    BY <1>1, <1>4, PlainType, MarkedType, SendLaterAssumption
  <2>2. \A k : ScheduleAt("handing", m, k)'
    BY <1>2, <1>6 DEF ScheduleAt
  <2>3. PICK k : k = task'[p].got
    OBVIOUS
  <2> QED
    BY <1>2, <1>3, <1>4, <1>7, <2>1, <2>2, <2>3, WaitsStays, ScheduleGoes
<1>9. OnceRow' /\ OnceComposer'
  BY <1>2, <1>3, <1>6, RowWritten DEF OnceComposer, Untried
<1> QED
  BY <1>4, <1>5, <1>7, <1>8, <1>9, PersonMoves

\* The person in the middle of a hand-over.
LEMMA Handing ==
  ASSUME Parts, HoldInv, OnceInv, NEW p \in People, Job(p) = "schedule"
  PROVE  /\ OnceSchedule(p) /\ p \in Callers /\ task[p] \in Task /\ Msg(p) \in Row
         /\ Msg(p).copy \in 0..MaxCopies /\ task[p].got \in 0..MaxCopies
         /\ composer = Closed /\ Waits
         /\ At(p, "handing") => Settled(Msg(p).copy) /\ row = Msg(p)
BY CallerNow DEF OnceInv, OncePerson, OnceSchedule, OnceDrop, Callers, At, ScheduleAt, SettledAt

\* It goes on, or it is over; the row stays marked until then.
LEMMA HandingGoes ==
  ASSUME Parts, PassesOnly, OnceInv, NEW p \in People, OnceSchedule(p), LeavesOthers(p),
         NEW l, NEW m, NEW k, Becomes(p, l, "schedule", m), task'[p].got = k, ScheduleAt(l, m, k)',
         UNCHANGED <<row, now, composer>>, Calm, OnceServer'
  PROVE  OnceInv'
<1>1. OncePerson(p)'
  BY WaitsStays, ScheduleGoes DEF OnceSchedule
<1>2. OnceRow' /\ OnceComposer'
  BY RowCalm DEF OnceInv, OnceComposer, OnceSchedule
<1> QED
  BY <1>1, <1>2, PersonMoves DEF OnceSchedule, Waits, At

LEMMA HandOverOnce ==
  ASSUME Parts, HoldInv, PassesOnly, OnceInv, NEW p \in People, HandOver(p)
  PROVE  OnceInv'
<1>1. At(p, "handing") /\ Job(p) = "schedule"
  BY DEF HandOver, OnceInv, OncePerson, OnceSchedule, OnceDrop, DropAt, At
<1>2. PICK m, got : m = Msg(p) /\ got = task[p].got
  OBVIOUS
<1>3. /\ OnceSchedule(p) /\ p \in Callers /\ m \in Row /\ m.copy \in 0..MaxCopies /\ composer = Closed
      /\ Settled(m.copy) /\ row = m /\ m.hold = "mark" /\ m.since = now /\ Before /\ Waits
      /\ m.at \in Nat /\ now \in Nat /\ now \in Time /\ m # NoRow /\ ~inSent
  BY <1>1, <1>2, Handing, Numbers DEF OnceSchedule, ScheduleAt, At, Parts, RestOK, OnceInv,
     OnceServer, Before
<1>4. UNCHANGED <<row, now, composer>>
  BY DEF HandOver, store, person
<1>5. ASSUME UNCHANGED server, NEW l \in {"saving", "put"}, NEW n \in Row, Carry(p, n, l),
             n.hold = "none" \/ (l = "put" /\ n.hold = "mark")
      PROVE  OnceInv'
  <2>1. OnceServer' /\ Calm
    BY <1>4, <1>5, SameOnce, Numbers DEF OnceInv
  <2>2. Before' /\ Clear'
    BY <1>3, <2>1 DEF Calm, Before, NoNewHold, Clear, OnceInv, OnceServer
  <2>3. LeavesOthers(p) /\ Becomes(p, l, "schedule", n) /\ task'[p].got = got
    BY <1>1, <1>2, <1>3, <1>5, CarryIs DEF Parts
  <2>4. ScheduleAt(l, n, got)'
    BY <1>5, <2>2 DEF ScheduleAt, Fits, Before
  <2> QED
    BY <1>3, <1>4, <2>1, <2>3, <2>4, HandingGoes
<1>6. ASSUME NEW k \in Copies, MakeHold(k, m.at), m.at > now, LeavesOthers(p),
             NEW l \in {"holding", "put"}, NEW n, NEW j,
             Becomes(p, l, "schedule", n), task'[p].got = j,
             n.hold = "mark" /\ n.since = now /\ n.at = m.at /\ n.copy = m.copy,
             l = "holding" => j = k
      PROVE  OnceInv'
  <2>1. /\ \A i \in Copies : hour'[i] = IF i = k THEN m.at ELSE hour[i]
        /\ \A i \in Copies : born'[i] = IF i = k THEN now ELSE born[i]
        /\ \A i \in Copies : place'[i] = IF i = k THEN "held" ELSE place[i]
        /\ \A i \in Copies : subs'[i] = IF i = k THEN "pending" ELSE subs[i]
        /\ UNCHANGED <<inSent, delivered>> /\ place[k] = "unmade"
    BY <1>6 DEF MakeHold, IsNew, Parts, ServerOK
  <2>2. delivered = 0 /\ \A i \in Copies : ~Ever(i) /\ (Ever(i)' <=> i = k)
    BY <1>3, <1>6, <2>1 DEF Before, Ever
  <2>3. OnceServer'
    BY <1>3, <2>1, <2>2 DEF OnceInv, OnceServer, NoDoubleSend
  <2>4. m.copy # k
    BY <1>3, <2>1, SendLaterAssumption DEF Settled, Copies
  <2>5. ASSUME NEW r, r.hold = "mark", r.since = now, r.at = m.at, r.copy = m.copy PROVE Fits(r)'
    BY <1>3, <2>1, <2>2, <2>4, <2>5 DEF Fits
  <2>6. OnceRow'
    BY <1>3, <1>4, <2>5 DEF OnceRow, Untried
  <2>7. ScheduleAt(l, n, j)'
    BY <1>6, <2>2, <2>5 DEF ScheduleAt, Found
  <2>8. Waits' /\ task'[Pass] = task[Pass]
    BY <1>3, <1>6, WaitsStays
  <2>9. OncePerson(p)'
    BY <1>3, <1>4, <1>6, <2>7, <2>8, ScheduleGoes
  <2>10. OncePass'
    <3>1. Msg(Pass)' = Msg(Pass) /\ Job(Pass)' = Job(Pass) /\ (task[Pass].pc)' = task[Pass].pc
          /\ (task[Pass].want)' = task[Pass].want
      BY <2>8 DEF Msg, Job
    <3>2. CASE At(Pass, "idle")
      BY <3>1, <3>2 DEF OncePass, OnceInv, At, PassLabels
    <3>3. CASE At(Pass, "listed")
      <4>1. PICK x, y : x = Msg(Pass)' /\ y = (task[Pass].got)'
        OBVIOUS
      <4>2. PassAt("listed", x, y)'
        BY DEF PassAt
      <4>3. Job(Pass) = "pass" /\ task[Pass].want <= now
        BY <3>3 DEF OncePass, OnceInv, At
      <4> QED
        BY <1>4, <3>1, <3>3, <4>1, <4>2, <4>3 DEF OncePass, At, PassLabels
    <3> QED
      BY <1>3, <3>2, <3>3 DEF Waits
  <2>11. OnceComposer'
    BY <1>3, <1>4 DEF OnceComposer
  <2> QED
    BY <2>3, <2>6, <2>9, <2>10, <2>11 DEF OnceInv, PassesOnly
<1>7. PICK n : n = Marked(m, now)
  OBVIOUS
<1>8. /\ n \in Row /\ n.hold = "mark" /\ n.since = now /\ n.at = m.at /\ n.copy = m.copy
      /\ Unheld(m) \in Row /\ Unheld(m).hold = "none"
  BY <1>3, <1>7, MarkedType, UnheldType DEF Marked, Unheld, Row
<1>9. ASSUME NEW k \in Copies, MakeHold(k, m.at), m.at > now,
             task' = [task EXCEPT ![p].got = k, ![p].pc = "holding"]
      PROVE  OnceInv'
  <2>1. LeavesOthers(p) /\ Becomes(p, "holding", "schedule", m) /\ task'[p].got = k
    BY <1>1, <1>2, <1>3, <1>9 DEF LeavesOthers, Becomes, Parts, TaskOK, Task, Msg, Job
  <2> QED
    BY <1>3, <1>6, <1>9, <2>1
<1>10. ASSUME NEW k \in Copies, MakeHold(k, m.at), m.at > now, Carry(p, n, "put") PROVE OnceInv'
  <2>1. LeavesOthers(p) /\ Becomes(p, "put", "schedule", n) /\ task'[p].got = got
    BY <1>1, <1>2, <1>3, <1>10, CarryIs DEF Parts
  <2> QED
    BY <1>6, <1>8, <1>10, <2>1
<1>11. \/ Carry(p, Unheld(m), "saving") /\ UNCHANGED server
       \/ \E k \in Copies : /\ MakeHold(k, m.at) /\ m.at > now
                           /\ task' = [task EXCEPT ![p].got = k, ![p].pc = "holding"]
       \/ Carry(p, n, "put") /\ UNCHANGED server
       \/ \E k \in Copies : MakeHold(k, m.at) /\ m.at > now /\ Carry(p, n, "put")
  BY <1>1, <1>2, <1>7 DEF HandOver
<1> QED
  BY <1>5, <1>8, <1>9, <1>10, <1>11

LEMMA TakeHoldOnce ==
  ASSUME Parts, HoldInv, PassesOnly, OnceInv, NEW p \in People, TakeHold(p)
  PROVE  OnceInv'
<1>1. PICK m, k : m = Msg(p) /\ k = task[p].got
  OBVIOUS
<1>2. p \in Callers /\ UNCHANGED <<row, now, composer, subs, hour, born, inSent, delivered>>
  BY DEF TakeHold, Callers, store, person
<1>3. PICK n : n = Adopted(m, k)
  OBVIOUS
<1>4. CASE Job(p) = "schedule"
  <2>1. /\ OnceSchedule(p) /\ At(p, "holding") /\ Found(k) /\ m.hold = "mark" /\ Fits(m) /\ m \in Row
        /\ m.copy \in 0..MaxCopies
    BY <1>1, <1>4, Handing DEF TakeHold, OnceSchedule, ScheduleAt, At
  <2>2. PICK old : old = IF m.copy = k THEN 0 ELSE m.copy
    OBVIOUS
  <2>3. place' = Destroyed(old) \/ UNCHANGED place
    BY <1>1, <1>4, <2>2 DEF TakeHold
  <2>4. old \in 0..MaxCopies /\ (old \in Copies => place[old] # "held")
    BY <2>1, <2>2, SendLaterAssumption DEF Fits, OnceInv, OnceServer, Copies
  <2>5. OnceServer' /\ Calm
    <3>1. CASE place' = Destroyed(old)
      BY <1>2, <2>4, <3>1, DestroyedOnce DEF OnceInv
    <3>2. CASE UNCHANGED place
      BY <1>2, <3>2, SameOnce, Numbers DEF OnceInv, server
    <3> QED
      BY <2>3, <3>1, <3>2
  <2>6. n.hold = "held" /\ n.copy = k /\ n.at = m.at
    BY <1>3, <2>1 DEF Adopted, Row
  <2>7. m.at <= hour[k] /\ UNCHANGED hour
    BY <2>1, <2>5 DEF Fits, Found, Calm, NoNewHold
  <2>8. ScheduleAt("put", n, k)'
    BY <2>1, <2>6, <2>7 DEF ScheduleAt, Fits, Found, Ever
  <2>9. Carry(p, n, "put")
    BY <1>1, <1>3, <2>1 DEF TakeHold
  <2>10. LeavesOthers(p) /\ Becomes(p, "put", "schedule", n) /\ task'[p].got = k
    BY <1>1, <1>2, <1>4, <2>9, CarryIs DEF Parts
  <2> QED
    BY <1>2, <2>1, <2>5, <2>8, <2>10, HandingGoes
<1>5. CASE Job(p) # "schedule"
  <2>1. /\ Job(p) = "drop" /\ At(p, "found") /\ Found(k) /\ m.hold = "mark" /\ Fits(m) /\ m \in Row
        /\ composer = Closed
    BY <1>1, <1>2, <1>5, CallerType
       DEF TakeHold, OnceInv, OncePerson, OnceSchedule, OnceDrop, DropAt, At, Parts
  <2>2. UNCHANGED place /\ Carry(p, n, "ask")
    BY <1>1, <1>3, <2>1 DEF TakeHold, Destroyed, At
  <2>3. LeavesOthers(p) /\ Becomes(p, "ask", "drop", n) /\ task'[p].got = k
    BY <1>1, <1>2, <2>1, <2>2, CarryIs DEF Parts
  <2>4. n.hold = "held" /\ n.copy = k /\ n.at = m.at
    BY <1>3, <2>1 DEF Adopted, Row
  <2>5. DropAt("ask", n, k)'
    BY <1>2, <2>1, <2>4 DEF DropAt, Fits, Found, Ever
  <2>6. OncePerson(p)' /\ OnceRow'
    BY <1>2, <2>1, <2>2, <2>3, <2>5, DropGoes, SameRowOnce DEF server
  <2> QED
    BY <1>2, <2>1, <2>2, <2>3, <2>6, PersonHere DEF server
<1> QED
  BY <1>4, <1>5

LEMMA PutRowOnce ==
  ASSUME Parts, HoldInv, PassesOnly, OnceInv, NEW p \in People, PutRow(p)
  PROVE  OnceInv'
<1>1. At(p, "put") /\ Job(p) = "schedule"
  BY DEF PutRow, OnceInv, OncePerson, OnceSchedule, OnceDrop, DropAt, At
<1>2. PICK m : m = Msg(p)
  OBVIOUS
<1>3. Fits(m) /\ (m.hold = "none" => Before) /\ composer = Closed /\ Waits
  BY <1>1, <1>2, Handing DEF OnceSchedule, ScheduleAt, At
<1>4. row' = m /\ Done(p) /\ UNCHANGED <<server, now, composer>>
  BY <1>1, <1>2 DEF PutRow, Write
<1>5. Calm
  BY <1>4, SameOnce, Numbers DEF OnceInv
<1>6. OnceRow'
  BY <1>3, <1>4, <1>5, FitsStays, RowWritten DEF Calm, Untried
<1> QED
  BY <1>3, <1>4, <1>6, PersonDone, PersonHere

LEMMA SaveScheduledOnce ==
  ASSUME Parts, HoldInv, PassesOnly, OnceInv, NEW p \in People, SaveScheduled(p)
  PROVE  OnceInv'
<1>1. At(p, "saving") /\ Job(p) = "schedule" /\ UNCHANGED <<row, now, composer>>
  BY DEF SaveScheduled, store, person
<1>2. PICK m, got : m = Msg(p) /\ got = task[p].got
  OBVIOUS
<1>3. /\ OnceSchedule(p) /\ p \in Callers /\ m \in Row /\ m.hold = "none" /\ Before
      /\ m.copy \in 0..MaxCopies
  BY <1>1, <1>2, Handing DEF OnceSchedule, ScheduleAt, At
<1>4. Clear
  BY <1>3 DEF Before, Clear, OnceInv, OnceServer
<1>5. ASSUME NEW l \in {"put", "refused"}, NEW n, n.hold = "none",
             LeavesOthers(p), Becomes(p, l, "schedule", n), task'[p].got = got, OnceServer', Calm
      PROVE  OnceInv'
  <2>1. Before' /\ Clear'
    BY <1>3, <1>4, <1>5 DEF Calm, NoNewHold, Clear
  <2>2. ScheduleAt(l, n, got)'
    BY <1>5, <2>1 DEF ScheduleAt, Fits
  <2> QED
    BY <1>1, <1>3, <1>5, <2>2, HandingGoes
<1>6. ASSUME NEW l \in {"put", "refused"}, Goto(p, l), UNCHANGED server PROVE OnceInv'
  <2>1. OnceServer' /\ Calm
    BY <1>1, <1>6, SameOnce, Numbers DEF OnceInv
  <2>2. LeavesOthers(p) /\ Becomes(p, l, "schedule", m) /\ task'[p].got = got
    BY <1>1, <1>2, <1>3, <1>6, GotoIs DEF Parts
  <2> QED
    BY <1>3, <1>5, <2>1, <2>2
<1>7. ASSUME NEW k \in Copies, SaveOver(k, m.copy),
             Carry(p, [m EXCEPT !.copy = k, !.raw = FALSE], "put")
      PROVE  OnceInv'
  <2>1. PICK n : n = [m EXCEPT !.copy = k, !.raw = FALSE]
    OBVIOUS
  <2>2. n.hold = "none"
    BY <1>3, <2>1 DEF Row
  <2>3. LeavesOthers(p) /\ Becomes(p, "put", "schedule", n) /\ task'[p].got = got
    BY <1>1, <1>2, <1>3, <1>7, <2>1, CarryIs DEF Parts
  <2>4. Destroyed(m.copy) \in [Copies -> Places]
    BY <1>3, DestroyedType DEF Parts, ServerOK
  <2>5. \A j \in Copies : place'[j] = IF j = k THEN "draft" ELSE Destroyed(m.copy)[j]
    BY <1>7, <2>4 DEF SaveOver
  <2>6. \A j \in Copies : place'[j] \in {place[j], "gone", "draft"}
    BY <2>5 DEF Destroyed, Parts, ServerOK
  <2>7. UNCHANGED <<subs, hour, born, inSent, delivered>> /\ delivered = 0
    BY <1>3, <1>7 DEF SaveOver, Before
  <2>8. OnceServer'
    BY <2>6, <2>7 DEF OnceInv, OnceServer, Ever, NoDoubleSend
  <2>9. Calm
    BY <1>1, <2>6, <2>7, Numbers DEF Calm, NoNewHold, Before, Ever
  <2> QED
    BY <1>5, <2>2, <2>3, <2>8, <2>9
<1> QED
  BY <1>2, <1>6, <1>7 DEF SaveScheduled

LEMMA ScheduleRefusedOnce ==
  ASSUME Parts, HoldInv, PassesOnly, OnceInv, NEW p \in People, ScheduleRefused(p)
  PROVE  OnceInv'
<1>1. At(p, "refused") /\ Job(p) = "schedule"
  BY DEF ScheduleRefused, OnceInv, OncePerson, OnceSchedule, OnceDrop, DropAt, At
<1>2. Before /\ Waits
  BY <1>1, Handing DEF OnceSchedule, ScheduleAt, At
<1>3. row' = NoRow /\ Done(p) /\ UNCHANGED <<server, now>>
  BY DEF ScheduleRefused, Write
<1>4. OnceServer' /\ Calm /\ (inSent' => inSent)
  BY <1>3, SameOnce, Numbers DEF OnceInv, server
<1>5. OncePerson(p)' /\ LeavesOthers(p) /\ Waits'
  BY <1>2, <1>3, PersonDone, WaitsStays
<1>6. OnceRow' /\ OnceComposer'
  BY <1>2, <1>3, <1>4, <1>5 DEF OnceRow, OnceComposer, Calm
<1> QED
  BY <1>2, <1>3, <1>4, <1>5, <1>6, PersonMoves

LEMMA DropOnce ==
  ASSUME Parts, PassesOnly, OnceInv, NEW p \in People, Drop(p)
  PROVE  OnceInv'
<1>1. /\ row # NoRow /\ Start(p, "named", "drop", row, 0) /\ p \in Callers
      /\ UNCHANGED <<row, server, now, composer>>
  BY DEF Drop, Name, Callers, store
<1>2. composer = Closed
  BY <1>1 DEF OnceInv, OnceComposer
<1>3. LeavesOthers(p) /\ Becomes(p, "named", "drop", row)
  BY <1>1, StartIs DEF Parts
<1>4. \A m, k : DropAt("named", m, k)'
  BY DEF DropAt
<1>5. OncePerson(p)' /\ OnceRow'
  BY <1>1, <1>2, <1>3, <1>4, DropGoes, SameRowOnce
<1> QED
  BY <1>1, <1>2, <1>3, <1>5, PersonHere

\* The person's task deletes the message.
LEMMA Dropping ==
  ASSUME Parts, OnceInv, NEW p \in People, ~At(p, "idle"), Job(p) # "schedule"
  PROVE  /\ Job(p) = "drop" /\ composer = Closed /\ p \in Callers /\ task[p] \in Task
         /\ Msg(p) \in Row /\ task[p].got \in 0..MaxCopies /\ Msg(p).copy \in 0..MaxCopies
         /\ DropAt(task[p].pc, Msg(p), task[p].got)
BY CallerType DEF OnceInv, OncePerson, OnceSchedule, OnceDrop, Callers, Parts, Row

\* It goes on, and changes nothing else of the row.
LEMMA DropGoesOn ==
  ASSUME Parts, PassesOnly, OnceInv, NEW p \in People, Job(p) = "drop", ~At(p, "idle"),
         NEW l \in {"named", "look", "found", "ask", "remove"}, NEW m, NEW k,
         LeavesOthers(p), Becomes(p, l, "drop", m), task'[p].got = k, DropAt(l, m, k)',
         UNCHANGED <<row, now, composer>>, Calm, OnceServer', At(Pass, "send") => (inSent' => inSent)
  PROVE  OnceInv'
<1>1. composer = Closed
  BY Dropping
<1>2. OncePerson(p)' /\ OnceRow' /\ OnceComposer'
  BY <1>1, DropGoes, RowCalm DEF OnceInv, OnceComposer
<1> QED
  BY <1>2, PersonMoves

LEMMA DropGoto ==
  ASSUME Parts, PassesOnly, OnceInv, NEW p \in People, Job(p) = "drop", ~At(p, "idle"),
         Goto(p, "remove"), UNCHANGED <<row, now, composer>>, Calm, OnceServer',
         At(Pass, "send") => (inSent' => inSent)
  PROVE  OnceInv'
<1>1. PICK m, k : m = Msg(p) /\ k = task[p].got
  OBVIOUS
<1>2. LeavesOthers(p) /\ Becomes(p, "remove", "drop", m) /\ task'[p].got = k
  BY <1>1, Dropping, GotoIs DEF Parts
<1>3. DropAt("remove", m, k)'
  BY DEF DropAt
<1> QED
  BY <1>2, <1>3, DropGoesOn

LEMMA TakeNamedOnce ==
  ASSUME Parts, PassesOnly, OnceInv, NEW p \in People, TakeNamed(p)
  PROVE  OnceInv'
<1>1. /\ At(p, "named") /\ ~At(p, "idle") /\ Job(p) # "schedule" /\ UNCHANGED <<server, now, composer>>
  BY DEF TakeNamed, At, OnceInv, OncePerson, OnceSchedule, OnceDrop, ScheduleAt, person
<1>2. Job(p) = "drop" /\ composer = Closed /\ p \in Callers
  BY <1>1, Dropping
<1>3. inSent' = inSent
  BY <1>1 DEF server
<1>4. CASE Goto(p, "remove") /\ UNCHANGED store
  BY <1>1, <1>2, <1>3, <1>4, DropGoto, SameRowOnce DEF store
<1>5. CASE Done(p) /\ UNCHANGED store
  BY <1>1, <1>2, <1>5, PersonLetGo DEF store
<1>6. ASSUME NEW l \in {"look", "ask", "remove"}, Carry(p, row, l), Claimable, UNCHANGED row,
             l = "look" => row.hold = "mark"
      PROVE  OnceInv'
  <2>1. PICK m, k : m = row /\ k = task[p].got
    OBVIOUS
  <2>2. m \in Row /\ Fits(m) /\ (l = "look" => m.hold = "mark")
    BY <1>6, <2>1 DEF Claimable, Parts, StoreOK, OnceInv, OnceRow
  <2>3. Calm /\ OnceServer'
    BY <1>1, <1>6, SameRowOnce
  <2>4. DropAt(l, m, k)'
    BY <1>6, <2>2, <2>3, FitsStays DEF DropAt, Calm
  <2>5. LeavesOthers(p) /\ Becomes(p, l, "drop", m) /\ task'[p].got = k
    BY <1>2, <1>6, <2>1, CarryIs DEF Parts
  <2> QED
    BY <1>1, <1>2, <1>3, <1>6, <2>3, <2>4, <2>5, DropGoesOn
<1>7. \/ Goto(p, "remove") /\ UNCHANGED store
      \/ Done(p) /\ UNCHANGED store
      \/ /\ Msg(p).hold # "none" /\ Claimable /\ UNCHANGED row
         /\ Carry(p, row, IF row.hold = "mark" THEN "look" ELSE "ask")
  BY <1>1, <1>2 DEF TakeNamed
<1> QED
  BY <1>4, <1>5, <1>6, <1>7

LEMMA LookOnce ==
  ASSUME Parts, PassesOnly, OnceInv, NEW p \in People, Look(p)
  PROVE  OnceInv'
<1>1. At(p, "look") /\ ~At(p, "idle") /\ Job(p) # "schedule" /\ UNCHANGED <<server, now, composer>>
  BY DEF Look, At, OnceInv, OncePerson, OnceSchedule, OnceDrop, ScheduleAt, person
<1>2. PICK m, got : m = Msg(p) /\ got = task[p].got
  OBVIOUS
<1>3. /\ Job(p) = "drop" /\ composer = Closed /\ p \in Callers /\ Fits(m) /\ m.hold = "mark"
      /\ task[p] \in Task
  BY <1>1, <1>2, Dropping DEF DropAt, At
<1>4. inSent' = inSent
  BY <1>1 DEF server
<1>5. CASE Goto(p, "remove") /\ UNCHANGED store
  BY <1>1, <1>3, <1>4, <1>5, DropGoto, SameRowOnce DEF store
<1>6. CASE LetGo(p)
  BY <1>1, <1>3, <1>6, PersonLetGo DEF LetGo
<1>7. ASSUME NEW k \in Copies, subs[k] # "none", UNCHANGED store,
             task' = [task EXCEPT ![p].got = k, ![p].pc = "found"]
      PROVE  OnceInv'
  <2>1. Calm /\ OnceServer' /\ UNCHANGED row
    BY <1>1, <1>7, SameRowOnce DEF store
  <2>2. Found(k)'
    BY <1>7, <2>1 DEF Found, OnceInv, OnceServer, Calm, NoNewHold, Ever
  <2>3. LeavesOthers(p) /\ Becomes(p, "found", "drop", m) /\ task'[p].got = k
    BY <1>2, <1>3, <1>7 DEF LeavesOthers, Becomes, Parts, TaskOK, Task, Msg, Job
  <2>4. DropAt("found", m, k)'
    BY <1>3, <2>1, <2>2, FitsStays DEF DropAt, Calm
  <2> QED
    BY <1>1, <1>3, <1>4, <2>1, <2>3, <2>4, DropGoesOn
<1>8. LookedNothing(p) \/ Unreadable(p) => (Goto(p, "remove") /\ UNCHANGED store) \/ LetGo(p)
  BY <1>3 DEF LookedNothing, Unreadable
<1>9. \/ LookedNothing(p) \/ Unreadable(p) \/ LetGo(p)
      \/ \E k \in Copies : /\ subs[k] # "none" /\ UNCHANGED store
                           /\ task' = [task EXCEPT ![p].got = k, ![p].pc = "found"]
  BY DEF Look, Seen, HeldCopies
<1> QED
  BY <1>5, <1>6, <1>7, <1>8, <1>9

LEMMA RemoveRowOnce ==
  ASSUME Parts, PassesOnly, OnceInv, NEW p \in People, RemoveRow(p)
  PROVE  OnceInv'
<1>1. /\ ~At(p, "idle") /\ Job(p) # "schedule" /\ Done(p) /\ row' = NoRow
      /\ UNCHANGED <<server, now, composer>>
  BY DEF RemoveRow, At, OnceInv, OncePerson, OnceSchedule, OnceDrop, ScheduleAt, Write
<1> QED
  BY <1>1, Dropping, PersonLetGo

LEMMA PersonDiesOnce ==
  ASSUME Parts, PassesOnly, OnceInv, NEW p \in People, CallerDies(p)
  PROVE  OnceInv'
<1>1. ~At(p, "idle") /\ Done(p) /\ UNCHANGED <<server, now, row, composer>>
  BY DEF CallerDies, store, person
<1>2. composer = Closed
  BY <1>1 DEF OnceInv, OncePerson, OnceSchedule, OnceDrop
<1> QED
  BY <1>1, <1>2, PersonLetGo

LEMMA DropEnds ==
  ASSUME Parts, PassesOnly, OnceInv, NEW p \in People, Job(p) = "drop", ~At(p, "idle"),
         LetGo(p), UNCHANGED <<now, composer>>, Calm, OnceServer', At(Pass, "send") => (inSent' => inSent)
  PROVE  OnceInv'
<1>1. composer = Closed /\ Done(p) /\ UNCHANGED row
  BY Dropping DEF LetGo
<1>2. OnceRow' /\ OnceComposer'
  BY <1>1, RowCalm DEF OnceInv, OnceComposer
<1> QED
  BY <1>1, <1>2, PersonDone, PersonMoves

\* What the message went by is known by the time the pass sends it from here.
LEMMA SendingKnows ==
  ASSUME OnceInv, At(Pass, "send"), delivered = 1
  PROVE  inSent
BY DEF OnceInv, OncePass, PassAt, Fits, Clear, OnceServer, Went, At

LEMMA AskOnce ==
  ASSUME Parts, PassesOnly, OnceInv, NEW p \in People, Ask(p)
  PROVE  OnceInv'
<1>1. At(p, "ask") /\ ~At(p, "idle") /\ Job(p) # "schedule" /\ UNCHANGED <<hour, born, delivered, now, composer>>
  BY DEF Ask, At, OnceInv, OncePerson, OnceSchedule, OnceDrop, ScheduleAt, person
<1>2. PICK m, k : m = Msg(p) /\ k = m.copy
  OBVIOUS
<1>3. /\ Job(p) = "drop" /\ composer = Closed /\ Fits(m) /\ m \in Row /\ k \in 0..MaxCopies
      /\ m.at \in Nat /\ m.hold \in {"none", "mark", "held"}
  BY <1>1, <1>2, Dropping, Numbers DEF DropAt, At, Row
<1>4. PICK standing : standing = Standing(k, m.at)
  OBVIOUS
<1>5. k \in Copies /\ place[k] = "held" => m.at <= hour[k]
  BY <1>2, <1>3 DEF Fits, Clear, OnceInv, OnceServer
<1>6. /\ standing = "sent" => k \in Copies /\ delivered = 1
      /\ standing = "notSent" => k \in Copies /\ ~Went(k)
      /\ standing = "pending" => k \in Copies /\ subs[k] = "pending"
  <2>1. standing = "pending" => k # 0 /\ subs[k] = "pending"
    BY <1>4 DEF Standing, Fate
  <2> QED
    BY <1>3, <1>4, <1>5, <2>1, StandingOnce, SendLaterAssumption DEF OnceInv, Copies
<1>7. ASSUME Calm, OnceServer', At(Pass, "send") => (inSent' => inSent),
             (Goto(p, "remove") /\ UNCHANGED store) \/ LetGo(p)
      PROVE  OnceInv'
  BY <1>1, <1>3, <1>7, DropGoto, DropEnds DEF store
<1>8. CASE UNCHANGED <<place, subs, inSent>> /\ ((Goto(p, "remove") /\ UNCHANGED store) \/ LetGo(p))
  <2>1. Calm /\ OnceServer'
    BY <1>1, <1>8, SameOnce, Numbers DEF OnceInv, server
  <2> QED
    BY <1>7, <1>8, <2>1
<1>9. CASE /\ standing = "pending" /\ subs' = [subs EXCEPT ![k] = "canceled"]
           /\ place' \in {place, TakenOff(k)} /\ UNCHANGED inSent
           /\ (Goto(p, "remove") /\ UNCHANGED store) \/ LetGo(p)
  <2>1. Calm /\ OnceServer'
    BY <1>1, <1>6, <1>9, CanceledOnce DEF OnceInv
  <2> QED
    BY <1>7, <1>9, <2>1
<1>10. CASE /\ standing = "sent" /\ place' = Filed(k) /\ inSent' = (inSent \/ place[k] # "gone")
            /\ UNCHANGED subs /\ Goto(p, "remove") /\ UNCHANGED store
  <2>1. Calm /\ OnceServer'
    BY <1>1, <1>6, <1>10, FiledOnce DEF OnceInv
  <2>2. At(Pass, "send") => (inSent' => inSent)
    BY <1>6, <1>10, SendingKnows
  <2> QED
    BY <1>7, <1>10, <2>1, <2>2
<1>11. CASE /\ standing = "notSent" /\ place' = TakenOff(k) /\ UNCHANGED <<inSent, subs>>
            /\ Goto(p, "remove") /\ UNCHANGED store
  <2>1. Calm /\ OnceServer'
    BY <1>1, <1>6, <1>11, TakenOffOnce DEF OnceInv
  <2> QED
    BY <1>7, <1>11, <2>1
<1> DEFINE Asks(k1, s1) ==
         \/ /\ s1 = "pending" /\ Job(p) = "pass"
            /\ LetGo(p) /\ UNCHANGED <<server, faults>>
         \/ /\ s1 = "pending" /\ Job(p) # "pass"
            /\ subs' = [subs EXCEPT ![k1] = "canceled"]
            /\ place' = TakenOff(k1)
            /\ Answered(p, "notSent")
            /\ UNCHANGED <<store, hour, born, inSent, delivered, faults>>
         \/ /\ s1 \in {"sent", "notSent", "unknown"}
            /\ Answered(p, s1)
            /\ \/ /\ place' = CASE s1 = "sent" -> Filed(k1)
                                [] s1 = "notSent" -> TakenOff(k1)
                                [] OTHER -> place
                  /\ inSent' = (inSent \/ (s1 = "sent" /\ place[k1] # "gone"))
                  /\ UNCHANGED faults
               \/ s1 = "sent" /\ Spend("answer") /\ UNCHANGED <<place, inSent>>
            /\ UNCHANGED <<store, subs, hour, born, delivered>>
         \/ /\ Spend("answer")
            /\ \/ UNCHANGED <<place, subs>>
               \/ /\ s1 = "pending" /\ Job(p) # "pass"
                  /\ subs' = [subs EXCEPT ![k1] = "canceled"]
                  /\ place' \in {place, TakenOff(k1)}
            /\ \/ LetGo(p)
               \/ Job(p) = "drop" /\ PastKnowing(Msg(p)) /\ Goto(p, "remove") /\ UNCHANGED store
            /\ UNCHANGED <<hour, born, inSent, delivered>>
<1>12. Asks(k, standing)
  BY <1>2, <1>4 DEF Ask
<1>13. \A s : Answered(p, s) => Goto(p, "remove")
  BY <1>3 DEF Answered
<1>14. standing \in {"notSent", "unknown"} => (inSent' = (inSent \/ (standing = "sent" /\ place[k] # "gone"))
         => inSent' = inSent)
  BY Zenon DEF Parts, ServerOK
<1>15. standing = "sent" => (inSent' = (inSent \/ (standing = "sent" /\ place[k] # "gone"))
         => inSent' = (inSent \/ place[k] # "gone"))
  BY Zenon
<1> QED
  BY <1>3, <1>8, <1>9, <1>10, <1>11, <1>12, <1>13, <1>14, <1>15

\* No other step is a person's.
LEMMA PersonStepOnce ==
  ASSUME Parts, HoldInv, PassesOnly, OnceInv, NEW p \in People, Step(p)
  PROVE  OnceInv'
<1>1. task[p].pc \in {"idle", "handing", "holding", "saving", "refused", "put",
                      "named", "look", "found", "ask", "remove"}
      /\ Job(p) \in {"none", "schedule", "drop"}
  BY DEF OnceInv, OncePerson, OnceSchedule, OnceDrop, ScheduleAt, DropAt, At
<1>2. /\ ~PassDue(p) /\ ~CalledBack(p) /\ ~Store(p) /\ ~Reclaim(p) /\ ~Stuck(p) /\ ~Called(p)
      /\ ~Restore(p) /\ ~Reopened(p) /\ ~Try(p) /\ ~LookSent(p) /\ ~Send(p) /\ ~Forget(p) /\ ~Keep(p)
  BY <1>1 DEF At, PassDue, CalledBack, Store, Reclaim, Stuck, Called, Restore, Reopened, Try,
     LookSent, Send, Forget, Keep
<1> QED
  BY <1>2, TakeNamedOnce, HandOverOnce, TakeHoldOnce, PutRowOnce, SaveScheduledOnce,
     ScheduleRefusedOnce, LookOnce, AskOnce, RemoveRowOnce DEF Step

LEMMA AskedOnce ==
  ASSUME Parts, PassesOnly, OnceInv, Asked
  PROVE  OnceInv'
<1>1. ASSUME NEW c \in People
      PROVE  /\ ~SendNow(c) /\ ~Cancel(c) /\ ~Edit(c) /\ ~Post(c) /\ ~HoldUnchanged(c)
             /\ \A at \in Time : ~NewHour(c, at)
  BY DEF PassesOnly, SendNow, Cancel, Edit, Post, HoldUnchanged, NewHour, Name
<1>2. ~SaveEdit /\ ~DraftSaved
  BY DEF PassesOnly, SaveEdit, DraftSaved
<1>3. \E c \in People : Drop(c) \/ \E at \in Time : Schedule(c, at)
  BY <1>1, <1>2 DEF Asked
<1> QED
  BY <1>3, DropOnce, ScheduleOnce

----------------------------------------------------------------------------
(* The world, and the theorem.                                             *)

LEMMA TickOnce == ASSUME Parts, PassesOnly, OnceInv, Tick PROVE OnceInv'
<1>1. UNCHANGED <<task, row, composer, server>> /\ now' = now + 1 /\ HandedOver
  BY DEF Tick, store, person
<1>2. OnceServer' /\ Calm
  BY <1>1, SameOnce, Numbers DEF OnceInv
<1>3. \A p \in People : ~OnceSchedule(p)
  BY <1>1 DEF HandedOver, PassesOnly, Callers, HandingOver, OnceSchedule, ScheduleAt
<1> QED
  BY <1>1, <1>2, <1>3, WorldMoves DEF server

LEMMA ServerSendsOnce ==
  ASSUME Parts, HoldInv, PassesOnly, OnceInv, NEW k \in Copies, ServerSends(k)
  PROVE  OnceInv'
<1>1. /\ UNCHANGED <<task, row, composer, place, hour, born, inSent, now>>
      /\ subs[k] = "pending" /\ now + ClockSlack >= hour[k] /\ place[k] = "held"
      /\ Ever(k) /\ delivered = 0 /\ ~inSent /\ delivered' = 1
  BY DEF ServerSends, store, person, HoldInv, ServerInv, HoldsShow, OnceInv, OnceServer, OneMore
<1>2. \A j \in Copies : subs'[j] = IF j = k THEN "final" ELSE subs[j]
  BY DEF ServerSends, Parts, ServerOK
<1>3. Went(k)'
  BY <1>1, <1>2 DEF Went
<1>4. \A j \in Copies : Ever(j) => j = k
  BY <1>1 DEF OnceInv, OnceServer
<1>5. OnceServer'
  BY <1>1, <1>2, <1>3, <1>4 DEF OnceInv, OnceServer, Ever, NoDoubleSend
<1>6. Calm
  BY <1>1, Numbers DEF Calm, NoNewHold, Before
<1> QED
  BY <1>1, <1>5, <1>6, WorldMoves

LEMMA ServerForgetsOnce ==
  ASSUME Parts, PassesOnly, OnceInv, NEW k \in Copies, ServerForgets(k)
  PROVE  OnceInv'
<1>1. UNCHANGED <<task, row, composer, place, hour, born, inSent, delivered, now>> /\ subs[k] # "none"
  BY DEF ServerForgets, store, person
<1>2. \A j \in Copies : subs'[j] = IF j = k THEN "none" ELSE subs[j]
  BY DEF ServerForgets, Parts, ServerOK
<1>3. \A j \in Copies : Went(j) => Went(j)'
  BY <1>1, <1>2 DEF Went
<1>4. OnceServer' /\ Calm
  BY <1>1, <1>2, <1>3, Numbers DEF OnceInv, OnceServer, Ever, NoDoubleSend, Calm, NoNewHold, Before
<1> QED
  BY <1>1, <1>4, WorldMoves

LEMMA OtherInstallOnce ==
  ASSUME Parts, PassesOnly, OnceInv, NEW k \in Copies,
         OtherCancels(k) \/ OtherDeletes(k) \/ OtherSends(k)
  PROVE  OnceInv'
<1>1. UNCHANGED <<task, row, composer, hour, born, now>>
  BY DEF OtherCancels, OtherDeletes, OtherSends, store, person
<1>2. CASE OtherCancels(k)
  <2>1. OnceServer' /\ Calm /\ UNCHANGED inSent
    BY <1>1, <1>2, CanceledOnce DEF OtherCancels, OnceInv
  <2> QED
    BY <1>1, <2>1, WorldMoves
<1>3. CASE OtherDeletes(k)
  <2>1. OnceServer' /\ Calm /\ UNCHANGED inSent
    BY <1>1, <1>3, DestroyedOnce, Numbers DEF OtherDeletes, OnceInv
  <2> QED
    BY <1>1, <2>1, WorldMoves
<1>4. CASE OtherSends(k)
  <2>1. /\ subs[k] = "theirs" /\ place[k] = "draft" /\ ~inSent /\ ~At(Pass, "send")
        /\ place' = Destroyed(k) /\ inSent' /\ UNCHANGED subs /\ Ever(k)
    BY <1>4 DEF OtherSends, Callers, OnceInv, OnceServer
  <2>2. \A j \in Copies : Ever(j) => j = k
    BY <2>1 DEF OnceInv, OnceServer
  <2>3. \A j \in Copies : place[j] # "held" /\ subs[j] # "pending"
    BY <2>1, <2>2 DEF OnceInv, OnceServer
  <2>4. delivered = 0
    BY <2>1, <2>3 DEF OnceInv, OnceServer, Went
  <2>5. delivered' = 1
    BY <1>4, <2>4 DEF OtherSends, OneMore
  <2>6. \A j \in Copies : place'[j] = place[j] \/ place'[j] = "gone"
    BY <2>1 DEF Destroyed, Parts, ServerOK
  <2>7. OnceServer'
    BY <1>1, <2>1, <2>2, <2>3, <2>5, <2>6 DEF OnceInv, OnceServer, Ever, NoDoubleSend
  <2>8. Calm
    BY <1>1, <2>1, <2>6, Numbers DEF Calm, NoNewHold, Before
  <2> QED
    BY <1>1, <2>1, <2>7, <2>8, WorldMoves
<1> QED
  BY <1>2, <1>3, <1>4

LEMMA CrashOnce == ASSUME Parts, PassesOnly, OnceInv, Crash PROVE OnceInv'
<1>1. /\ task' = [c \in Callers |-> Idle] /\ composer' = Closed /\ UNCHANGED <<server, now, row>>
  BY DEF Crash, store
<1>2. OnceRow' /\ OnceServer'
  BY <1>1, SameRowOnce
<1>3. \A c \in Callers : At(c, "idle")' /\ Job(c)' = "none"
  BY <1>1 DEF At, Job, Idle
<1> QED
  BY <1>1, <1>2, <1>3 DEF OnceInv, OncePass, OncePerson, OnceComposer, Callers

LEMMA InitOnce == Init /\ PassesOnly => OnceInv
<1> SUFFICES ASSUME Init PROVE OnceInv
  OBVIOUS
<1>1. \A c \in Callers : At(c, "idle") /\ Job(c) = "none"
  BY DEF Init, At, Job, Idle
<1>2. row = NoRow /\ delivered = 0 /\ ~inSent
  BY DEF Init
<1>3. \A k \in Copies : /\ subs[k] = IF place[k] = "held" THEN "pending" ELSE "none"
                        /\ hour[k] = IF place[k] = "held" THEN 2 ELSE 0
                        /\ place[k] # "sent" /\ (place[k] = "held" => k = 1)
                        /\ composer # Closed => place[k] # "held"
  <2>1. PICK start \in {"unsaved", "draft", "elsewhere"} :
          /\ place = [k \in Copies |-> IF k # 1 \/ start = "unsaved" THEN "unmade"
                                       ELSE IF start = "draft" THEN "draft" ELSE "held"]
          /\ subs = [k \in Copies |-> IF place[k] = "held" THEN "pending" ELSE "none"]
          /\ hour = [k \in Copies |-> IF place[k] = "held" THEN 2 ELSE 0]
          /\ composer = CASE start = "unsaved" -> 0 [] start = "draft" -> 1 [] OTHER -> Closed
    BY SendLaterAssumption DEF Init
  <2>2. start = "elsewhere" => composer = Closed
    BY <2>1
  <2> QED
    BY <2>1, <2>2
<1>4. OnceServer
  BY <1>2, <1>3 DEF OnceServer, Ever, NoDoubleSend
<1>5. OnceComposer
  BY <1>1, <1>2, <1>3 DEF OnceComposer, Before, Ever, Waits, Callers
<1> QED
  BY <1>1, <1>2, <1>4, <1>5 DEF OnceInv, OncePass, OncePerson, OnceRow, Callers

LEMMA NextOnce ==
  ASSUME Parts, HoldInv, PassesOnly, OnceInv, [Next]_vars
  PROVE  OnceInv'
<1>1. CASE PassStep
  BY <1>1, PassStartOnce, PassClaimOnce, AdoptOnce DEF PassStep
<1>2. CASE \E c \in Callers : Step(c)
  BY <1>2, PassStepOnce, PersonStepOnce DEF Callers
<1>3. CASE Asked
  BY <1>3, AskedOnce
<1>4. CASE Environment
  BY <1>4, TickOnce, CrashOnce, PassDiesOnce, PersonDiesOnce, ServerSendsOnce, ServerForgetsOnce,
     OtherInstallOnce DEF Environment, Callers
<1>5. CASE UNCHANGED vars
  <2>1. UNCHANGED <<task, row, composer, server, now>>
    BY <1>5 DEF vars, server
  <2>2. OnceServer' /\ Calm
    BY <2>1, SameRowOnce
  <2> QED
    BY <2>1, <2>2, WorldMoves DEF server
<1> QED
  BY <1>1, <1>2, <1>3, <1>4, <1>5 DEF Next

\* As long as the person schedules and deletes and the passes do the rest, the
\* message goes out at most once: whatever answers are lost, whoever dies,
\* whatever another install does with the hold, and however late the server
\* sends ("A double send is worse than a late one", outbox.rs).
THEOREM PassesSendOnce == PassesOnly => (Spec => []NoDoubleSend)
<1> SUFFICES ASSUME PassesOnly PROVE Spec => []NoDoubleSend
  OBVIOUS
<1>1. Init => Parts /\ HoldInv /\ OnceInv
  BY InitType, InitHold, InitOnce
<1>2. Parts /\ HoldInv /\ OnceInv /\ [Next]_vars => (Parts /\ HoldInv /\ OnceInv)'
  BY NextType, NextHold, NextOnce
<1>3. OnceInv => NoDoubleSend
  BY DEF OnceInv, OnceServer
<1> QED
  BY <1>1, <1>2, <1>3, PTL DEF Spec

----------------------------------------------------------------------------
(* One caller at a time.                                                   *)

\* One person, who asks for no Cancel Send and posts nothing: these two write a
\* row whose claim they have let go of, or never had (SavedAndSent, LeftOpen).
\* And a hand-over ends before a pass gets to the row (ClaimFreed).
ClaimsHeeded ==
    /\ Jobs \cap {"cancel", "post"} = {} /\ ~SlowHandOver
    /\ \A p, q \in People : p = q

\* The caller `c` at `l` does `j`: where each job can be.
FitsJob(c, l, j) ==
    /\ j = "none" <=> l = "idle"
    /\ j \notin {"cancel", "post"} /\ l # "called"
    /\ j \in {"schedule", "unchanged"} => l \in {"handing", "holding", "put", "saving", "refused"}
    /\ j = "pass" => l \notin {"named", "store", "reclaim"}
    /\ c = Pass => j \in {"none", "pass"}
JobFits(c) == FitsJob(c, task[c].pc, Job(c))

\* A caller that works on a row holds a claim that has not lapsed; and nobody
\* else works on it, or hands it over.
ClaimHolds == claim # Free /\ now <= claim + ClaimLasts
One ==
    /\ \A c \in Callers : JobFits(c) /\ (UnderClaim(c) => row = NoRow \/ ClaimHolds)
    /\ \A c, d \in Callers : c # d /\ UnderClaim(c) => ~UnderClaim(d) /\ ~HandingOver(d)

\* UnderClaim and HandingOver, of a caller at `l` that does `j` with `m`.
UnderAt(l, j, m) ==
    /\ j \in {"pass", "sendNow", "newHour", "edit", "cancel", "drop"}
    /\ l \notin {"listed", "named", "reclaim", "unsaved"}
    /\ ~(l = "remove" /\ j = "drop" /\ m.hold = "none")
HandsAt(l, j) ==
    j \in {"schedule", "unchanged", "newHour"}
    /\ l \in {"handing", "holding", "saving", "refused", "put"}

LEMMA NowAt ==
  ASSUME NEW c
  PROVE  /\ UnderClaim(c) <=> UnderAt(task[c].pc, Job(c), Msg(c))
         /\ HandingOver(c) <=> HandsAt(task[c].pc, Job(c))
BY DEF UnderClaim, HandingOver, UnderAt, HandsAt, At

LEMMA ThenAt ==
  ASSUME NEW c \in Callers, NEW l, NEW j, NEW m, Becomes(c, l, j, m)
  PROVE  /\ UnderClaim(c)' <=> UnderAt(l, j, m)
         /\ HandingOver(c)' <=> HandsAt(l, j)
         /\ JobFits(c)' <=> FitsJob(c, l, j)
BY DEF Becomes, UnderClaim, HandingOver, UnderAt, HandsAt, JobFits, At, Job, Msg

LEMMA OthersAt ==
  ASSUME NEW c \in Callers, LeavesOthers(c)
  PROVE  \A d \in Callers \ {c} :
            /\ UnderClaim(d)' <=> UnderClaim(d)
            /\ HandingOver(d)' <=> HandingOver(d)
            /\ JobFits(d)' <=> JobFits(d)
BY DEF LeavesOthers, UnderClaim, HandingOver, JobFits, At, Job, Msg

\* A claimed row is nobody's to claim.
LEMMA ClaimableAlone ==
  ASSUME Parts, One, Claimable
  PROVE  \A c \in Callers : ~UnderClaim(c)
<1>1. now \in Nat /\ ClaimLasts \in Nat /\ (claim = Free \/ claim \in Nat)
  BY SendLaterAssumption DEF Parts, RestOK, StoreOK, Time
<1>2. row # NoRow /\ (claim = Free \/ claim + ClaimLasts < now)
  BY DEF Claimable
<1>3. ~ClaimHolds
  BY <1>1, <1>2 DEF ClaimHolds
<1> QED
  BY <1>2, <1>3 DEF One

\* A caller that goes on with what it does.
LEMMA OneMoves ==
  ASSUME One, NEW c \in Callers, NEW l, NEW m, LeavesOthers(c), Becomes(c, l, Job(c), m),
         UNCHANGED <<claim, now>>, row' # NoRow => row # NoRow,
         FitsJob(c, l, Job(c)), UnderAt(l, Job(c), m) => UnderClaim(c),
         HandsAt(l, Job(c)) => HandingOver(c)
  PROVE  One'
BY ThenAt, OthersAt DEF One, ClaimHolds

\* One that begins, and claims nothing yet.
LEMMA OneBegins ==
  ASSUME One, NEW c \in Callers, NEW l, NEW j, NEW m, LeavesOthers(c), Becomes(c, l, j, m),
         UNCHANGED <<claim, now, row>>, FitsJob(c, l, j), ~UnderAt(l, j, m), ~HandsAt(l, j)
  PROVE  One'
BY ThenAt, OthersAt DEF One, ClaimHolds

\* One that claims the row.
LEMMA OneClaims ==
  ASSUME Parts, One, Claimable, NEW c \in Callers, NEW l, NEW m, LeavesOthers(c),
         Becomes(c, l, Job(c), m), claim' = now, UNCHANGED <<now, row>>, FitsJob(c, l, Job(c)),
         \A d \in Callers \ {c} : ~HandingOver(d)
  PROVE  One'
<1>1. ClaimHolds'
  BY SendLaterAssumption DEF Parts, RestOK, Time, ClaimHolds, Free
<1>2. \A d \in Callers : ~UnderClaim(d)
  BY ClaimableAlone
<1> QED
  BY <1>1, <1>2, ThenAt, OthersAt DEF One

\* One that lets the row go, whatever it writes: nobody else was on it.
LEMMA OneLetsGo ==
  ASSUME One, NEW c \in Callers, NEW l, NEW j, NEW m, LeavesOthers(c), Becomes(c, l, j, m),
         FitsJob(c, l, j), ~UnderAt(l, j, m),
         UnderClaim(c) \/ HandingOver(c) \/ \A d \in Callers \ {c} : ~UnderClaim(d)
  PROVE  One'
<1>1. \A d \in Callers \ {c} : ~UnderClaim(d)
  BY DEF One
<1> QED
  BY <1>1, ThenAt, OthersAt DEF One

\* One that drops the row, or finds it gone, and is done.
LEMMA OneDone ==
  ASSUME Parts, One, NEW c \in Callers, Done(c), UNCHANGED now,
         row' = NoRow \/ UNCHANGED <<row, claim>> \/ UnderClaim(c) \/ HandingOver(c)
  PROVE  One'
<1>1. LeavesOthers(c) /\ Becomes(c, "idle", "none", Plain(0, 0))
  BY DoneIs DEF Parts
<1>2. /\ ~UnderAt("idle", "none", Plain(0, 0)) /\ ~HandsAt("idle", "none")
      /\ FitsJob(c, "idle", "none")
  BY DEF UnderAt, HandsAt, FitsJob
<1>3. CASE row' = NoRow \/ UNCHANGED <<row, claim>>
  BY <1>1, <1>2, <1>3, ThenAt, OthersAt DEF One, ClaimHolds
<1>4. CASE UnderClaim(c) \/ HandingOver(c)
  BY <1>1, <1>2, <1>4, OneLetsGo
<1> QED
  BY <1>3, <1>4

\* A step of the world, that leaves every caller and the claim.
LEMMA OneWorld ==
  ASSUME One, UNCHANGED <<task, claim, now>>, row' # NoRow => row # NoRow
  PROVE  One'
<1>1. \A c \in Callers : /\ UnderClaim(c)' <=> UnderClaim(c)
                         /\ HandingOver(c)' <=> HandingOver(c)
                         /\ JobFits(c)' <=> JobFits(c)
  BY DEF UnderClaim, HandingOver, JobFits, At, Job, Msg
<1> QED
  BY <1>1 DEF One, ClaimHolds

\* The same, of steps written as they are.
LEMMA GotoOne ==
  ASSUME Parts, One, NEW c \in Callers, NEW l, Goto(c, l), UNCHANGED <<claim, now>>,
         row' # NoRow => row # NoRow, FitsJob(c, l, Job(c)),
         UnderAt(l, Job(c), Msg(c)) => UnderClaim(c), HandsAt(l, Job(c)) => HandingOver(c)
  PROVE  One'
BY GotoIs, OneMoves DEF Parts

LEMMA CarryOne ==
  ASSUME Parts, One, NEW c \in Callers, NEW l, NEW m, Carry(c, m, l), UNCHANGED <<claim, now>>,
         row' # NoRow => row # NoRow, FitsJob(c, l, Job(c)),
         UnderAt(l, Job(c), m) => UnderClaim(c), HandsAt(l, Job(c)) => HandingOver(c)
  PROVE  One'
BY CarryIs, OneMoves DEF Parts

\* What is at hand of a caller that has its row.
LEMMA OneNow ==
  ASSUME Parts, One, NEW c \in Callers
  PROVE  /\ FitsJob(c, task[c].pc, Job(c)) /\ Job(c) \in Work
         /\ UnderClaim(c) <=> UnderAt(task[c].pc, Job(c), Msg(c))
         /\ HandingOver(c) <=> HandsAt(task[c].pc, Job(c))
         /\ c # Pass => c \in People
<1>1. Job(c) \in Work
  BY DEF Parts, TaskOK, Task, Job
<1> QED
  BY <1>1, NowAt DEF One, JobFits, Callers

\* At these labels a caller is under its claim.
LEMMA OneWorking ==
  ASSUME Parts, One, NEW c \in Callers,
         task[c].pc \in {"due", "look", "found", "ask", "fate", "store", "unsure", "elsewhere",
                         "restore", "try", "lookSent", "send", "forget", "keep", "stick"}
  PROVE  /\ UnderClaim(c) /\ Job(c) \in {"pass", "sendNow", "newHour", "edit", "drop"}
         /\ c = Pass => Job(c) = "pass"
BY OneNow DEF FitsJob, UnderAt, Work

\* Past its claim a caller moves from label to label under it.
LEMMA GotoUnder ==
  ASSUME Parts, One, NEW c \in Callers, UnderClaim(c), NEW l, Goto(c, l),
         UNCHANGED <<claim, now>>, row' # NoRow => row # NoRow,
         l \notin {"idle", "named", "reclaim", "called"}, Job(c) = "pass" => l # "store",
         HandsAt(l, Job(c)) => HandingOver(c)
  PROVE  One'
<1>1. Job(c) \notin {"none", "schedule", "unchanged"}
  BY NowAt DEF UnderAt
<1>2. FitsJob(c, l, Job(c))
  BY <1>1, OneNow DEF FitsJob
<1> QED
  BY <1>2, GotoOne

LEMMA CarryUnder ==
  ASSUME Parts, One, NEW c \in Callers, UnderClaim(c), NEW l, NEW m, Carry(c, m, l),
         UNCHANGED <<claim, now>>, row' # NoRow => row # NoRow,
         l \notin {"idle", "named", "reclaim", "called"}, Job(c) = "pass" => l # "store",
         HandsAt(l, Job(c)) => HandingOver(c)
  PROVE  One'
<1>1. Job(c) \notin {"none", "schedule", "unchanged"}
  BY NowAt DEF UnderAt
<1>2. FitsJob(c, l, Job(c))
  BY <1>1, OneNow DEF FitsJob
<1> QED
  BY <1>2, CarryOne

LEMMA LetGoOne ==
  ASSUME Parts, One, NEW c \in Callers, UnderClaim(c), LetGo(c), UNCHANGED now
  PROVE  One'
BY OneDone DEF LetGo

LEMMA TakeNamedOne ==
  ASSUME Parts, ClaimsHeeded, One, NEW c \in Callers, TakeNamed(c)
  PROVE  One'
<1> DEFINE held == Msg(c).hold # "none"
           m == IF Job(c) = "sendNow" THEN Msg(c) ELSE row
           label == CASE held -> IF m.hold = "mark" THEN "look" ELSE "ask"
                      [] ~held /\ Job(c) = "sendNow" -> "try"
                      [] ~held /\ Job(c) # "sendNow" /\ m.copy = 0 -> "saving"
                      [] OTHER -> "remove"
<1>1. At(c, "named") /\ UNCHANGED <<now, row>>
  BY DEF TakeNamed, Carry, Done, Goto, store
<1>2. Job(c) \notin {"none", "schedule", "unchanged", "pass"} /\ c # Pass
  BY <1>1, OneNow DEF FitsJob, At
<1>3. CASE Job(c) = "drop" /\ ~held
  <2>1. Goto(c, "remove") /\ UNCHANGED claim
    BY <1>3 DEF TakeNamed, store
  <2>2. ~UnderAt("remove", Job(c), Msg(c)) /\ ~HandsAt("remove", Job(c))
    BY <1>3 DEF UnderAt, HandsAt
  <2>3. FitsJob(c, "remove", Job(c))
    BY <1>2, OneNow DEF FitsJob
  <2> QED
    BY <1>1, <2>1, <2>2, <2>3, GotoOne
<1>4. CASE ~(Job(c) = "drop" /\ ~held) /\ Claimable
  <2>1. Carry(c, m, label) /\ claim' = now
    BY <1>4 DEF TakeNamed
  <2>2. label \in {"look", "ask", "try", "saving", "remove"}
    OBVIOUS
  <2> HIDE DEF label, m
  <2>3. FitsJob(c, label, Job(c))
    BY <1>2, <2>2, OneNow DEF FitsJob
  <2>4. \A d \in Callers \ {c} : ~HandingOver(d)
    <3> SUFFICES ASSUME NEW d \in Callers \ {c} PROVE ~HandingOver(d)
      OBVIOUS
    <3>1. d = Pass
      BY <1>2 DEF Callers, ClaimsHeeded
    <3> QED
      BY <3>1, OneNow DEF FitsJob, HandsAt
  <2> QED
    BY <1>1, <1>4, <2>1, <2>3, <2>4, CarryIs, OneClaims DEF Parts
<1>5. CASE ~(Job(c) = "drop" /\ ~held) /\ ~Claimable
  <2>1. Done(c) /\ UNCHANGED <<row, claim>>
    BY <1>5 DEF TakeNamed, store
  <2> QED
    BY <1>1, <2>1, OneDone
<1> QED
  BY <1>3, <1>4, <1>5

\* The end of a hand-over, and its next label.
LEMMA HandOverOne ==
  ASSUME Parts, One, NEW c \in Callers, HandOver(c)
  PROVE  One'
<1>1. At(c, "handing") /\ UNCHANGED <<row, claim, now>>
  BY DEF HandOver, store
<1>2. PICK l, m : /\ l \in {"saving", "put", "holding"} /\ (l = "saving" => Job(c) = "schedule")
                  /\ LeavesOthers(c) /\ Becomes(c, l, Job(c), m)
  <2>1. CASE \E k \in Copies : task' = [task EXCEPT ![c].got = k, ![c].pc = "holding"]
    BY <2>1 DEF Parts, TaskOK, Task, LeavesOthers, Becomes, Job, Msg
  <2>2. CASE \E m : (Carry(c, m, "saving") /\ Job(c) = "schedule") \/ Carry(c, m, "put")
    BY <2>2, CarryIs DEF Parts
  <2> QED
    BY <2>1, <2>2 DEF HandOver
<1>3. FitsJob(c, l, Job(c))
  BY <1>1, <1>2, OneNow DEF FitsJob, At
<1>4. UnderAt(l, Job(c), m) => UnderClaim(c)
  BY <1>1, <1>2, OneNow DEF UnderAt, At
<1>5. HandsAt(l, Job(c)) => HandingOver(c)
  BY <1>1, <1>2, OneNow DEF HandsAt, At
<1> QED
  BY <1>1, <1>2, <1>3, <1>4, <1>5, OneMoves

LEMMA TakeHoldOne ==
  ASSUME Parts, One, NEW c \in Callers, TakeHold(c)
  PROVE  One'
<1> DEFINE l == IF At(c, "holding") \/ Job(c) = "pass" THEN "put" ELSE "ask"
           m == Adopted(Msg(c), task[c].got)
<1>1. task[c].pc \in {"holding", "found"} /\ UNCHANGED <<row, claim, now>> /\ Carry(c, m, l)
  BY DEF TakeHold, store
<1>2. FitsJob(c, l, Job(c))
  BY <1>1, OneNow DEF FitsJob, At
<1>3. UnderAt(l, Job(c), m) => UnderClaim(c)
  BY <1>1, OneNow DEF UnderAt, At
<1>4. HandsAt(l, Job(c)) => HandingOver(c)
  BY <1>1, OneNow DEF HandsAt, At
<1> HIDE DEF l, m
<1> QED
  BY <1>1, <1>2, <1>3, <1>4, CarryOne

LEMMA PutRowOne ==
  ASSUME Parts, One, NEW c \in Callers, PutRow(c)
  PROVE  One'
<1>1. At(c, "put") /\ Done(c) /\ UNCHANGED now
  BY DEF PutRow
<1>2. UnderClaim(c) \/ HandingOver(c)
  BY <1>1, OneNow DEF FitsJob, UnderAt, HandsAt, Work, At
<1> QED
  BY <1>1, <1>2, OneDone

LEMMA SaveScheduledOne ==
  ASSUME Parts, One, NEW c \in Callers, SaveScheduled(c)
  PROVE  One'
<1>1. At(c, "saving") /\ Job(c) = "schedule" /\ UNCHANGED <<row, claim, now>>
  BY DEF SaveScheduled, store
<1>2. HandingOver(c) /\ \A l, m : ~UnderAt(l, Job(c), m)
  BY <1>1, OneNow DEF HandsAt, UnderAt, At
<1>3. \A l \in {"put", "refused"} : FitsJob(c, l, Job(c))
  BY <1>1, OneNow DEF FitsJob
<1>4. (\E m : Carry(c, m, "put")) \/ Goto(c, "put") \/ Goto(c, "refused")
  BY DEF SaveScheduled
<1> QED
  BY <1>1, <1>2, <1>3, <1>4, GotoOne, CarryOne

LEMMA ScheduleRefusedOne ==
  ASSUME Parts, One, NEW c \in Callers, ScheduleRefused(c)
  PROVE  One'
BY OneDone DEF ScheduleRefused, Write

LEMMA PassDueOne ==
  ASSUME Parts, One, NEW c \in Callers, PassDue(c)
  PROVE  One'
<1>1. UnderClaim(c) /\ Job(c) = "pass" /\ UNCHANGED now
  BY OneWorking DEF PassDue, At
<1>2. (Goto(c, "try") /\ UNCHANGED <<row, claim>>) \/ LetGo(c)
  BY DEF PassDue, store
<1>3. ~HandsAt("try", Job(c))
  BY DEF HandsAt
<1> QED
  BY <1>1, <1>2, <1>3, GotoUnder, LetGoOne

LEMMA LookOne ==
  ASSUME Parts, One, NEW c \in Callers, Look(c)
  PROVE  One'
<1>1. /\ UnderClaim(c) /\ Job(c) \in {"pass", "sendNow", "newHour", "edit", "drop"}
      /\ UNCHANGED now
  BY OneWorking DEF Look, At
<1>2. \A l \in {"unsure", "due", "store", "remove", "found"} : ~HandsAt(l, Job(c))
  BY DEF HandsAt
<1>3. ASSUME UNCHANGED store, NEW l \in {"unsure", "due", "store", "remove"},
             Job(c) = "pass" => l # "store", Goto(c, l) \/ \E m : Carry(c, m, l)
      PROVE  One'
  BY <1>1, <1>2, <1>3, GotoUnder, CarryUnder DEF store
<1>4. ASSUME LookedNothing(c) PROVE One'
  <2>1. \/ LetGo(c)
        \/ /\ UNCHANGED store
           /\ \/ Goto(c, "unsure") \/ Goto(c, "remove")
              \/ \E m : Carry(c, m, "due")
              \/ Job(c) # "pass" /\ \E m : Carry(c, m, "store")
    BY <1>1, <1>4 DEF LookedNothing
  <2> QED
    BY <1>1, <1>3, <2>1, LetGoOne
<1>5. ASSUME Unreadable(c) PROVE One'
  <2>1. LetGo(c) \/ (UNCHANGED store /\ (Goto(c, "unsure") \/ Goto(c, "remove")))
    BY <1>5 DEF Unreadable
  <2> QED
    BY <1>1, <1>3, <2>1, LetGoOne
<1>6. ASSUME NEW k \in Copies, task' = [task EXCEPT ![c].got = k, ![c].pc = "found"], UNCHANGED store
      PROVE  One'
  <2>1. LeavesOthers(c) /\ Becomes(c, "found", Job(c), Msg(c))
    BY <1>6 DEF Parts, TaskOK, Task, LeavesOthers, Becomes, Job, Msg
  <2>2. FitsJob(c, "found", Job(c))
    BY <1>1, OneNow DEF FitsJob
  <2> QED
    BY <1>1, <1>2, <1>6, <2>1, <2>2, OneMoves DEF store
<1>7. \/ LookedNothing(c) \/ Unreadable(c) \/ LetGo(c)
      \/ \E k \in Copies : task' = [task EXCEPT ![c].got = k, ![c].pc = "found"] /\ UNCHANGED store
  <2>1. \A V \in Seen : V \subseteq Copies
    BY DEF Seen, HeldCopies
  <2> QED
    BY <2>1 DEF Look
<1> QED
  BY <1>1, <1>4, <1>5, <1>6, <1>7, LetGoOne

LEMMA AskOne ==
  ASSUME Parts, One, NEW c \in Callers, Ask(c)
  PROVE  One'
<1>1. UnderClaim(c) /\ UNCHANGED now
  BY OneWorking DEF Ask, At
<1>2. \/ LetGo(c)
      \/ UNCHANGED store /\ (\/ Goto(c, "remove") \/ Goto(c, "forget") \/ Goto(c, "fate")
                             \/ Goto(c, "unsure"))
  <2>1. ASSUME NEW s, Answered(c, s)
        PROVE  Goto(c, "remove") \/ Goto(c, "forget") \/ Goto(c, "fate") \/ Goto(c, "unsure")
    BY <2>1 DEF Answered
  <2> QED
    BY <2>1 DEF Ask
<1>3. \A l \in {"remove", "forget", "fate", "unsure"} : ~HandsAt(l, Job(c))
  BY DEF HandsAt
<1> QED
  BY <1>1, <1>2, <1>3, GotoUnder, LetGoOne DEF store

LEMMA CalledBackOne ==
  ASSUME Parts, One, NEW c \in Callers, CalledBack(c)
  PROVE  One'
<1>1. UnderClaim(c) /\ UNCHANGED <<row, claim, now>>
  BY OneWorking DEF CalledBack, At, store
<1>2. \E l \in {"restore", "forget", "elsewhere", "remove", "store"} :
          Goto(c, l) /\ (Job(c) = "pass" => l # "store")
  <2>1. PICK went, left \in BOOLEAN :
          Goto(c, IF Job(c) = "cancel" /\ left THEN "restore"
                  ELSE IF went THEN "forget"
                  ELSE CASE Job(c) = "pass" /\ ~left -> "elsewhere"
                         [] Job(c) = "pass" <=> left -> "remove"
                         [] OTHER -> "store")
    BY DEF CalledBack, Parts, ServerOK
  <2>2. CASE Job(c) = "cancel" /\ left
    BY <2>1, <2>2
  <2>3. CASE ~(Job(c) = "cancel" /\ left) /\ went
    BY <2>1, <2>3
  <2>4. CASE ~(Job(c) = "cancel" /\ left) /\ ~went /\ Job(c) = "pass" /\ ~left
    BY <2>1, <2>4
  <2>5. CASE ~(Job(c) = "cancel" /\ left) /\ ~went /\ (Job(c) = "pass" <=> left)
    BY <2>1, <2>5
  <2>6. CASE ~(Job(c) = "cancel" /\ left) /\ ~went /\ ~(Job(c) = "pass" <=> left) /\ Job(c) # "pass"
    BY <2>1, <2>6
  <2> QED
    BY <2>2, <2>3, <2>4, <2>5, <2>6
<1>3. \A l \in {"restore", "forget", "elsewhere", "remove", "store"} : ~HandsAt(l, Job(c))
  BY DEF HandsAt
<1> QED
  BY <1>1, <1>2, <1>3, GotoUnder

LEMMA StoreOne ==
  ASSUME Parts, One, NEW c \in Callers, Store(c)
  PROVE  One'
<1>1. /\ UnderClaim(c) /\ Job(c) \in {"sendNow", "newHour", "edit", "drop"}
  BY OneWorking, OneNow DEF Store, At, FitsJob
<1>2. \E m : Carry(c, m, "reclaim")
  BY DEF Store
<1>3. FitsJob(c, "reclaim", Job(c))
  BY <1>1, OneNow DEF FitsJob
<1>4. \A m : ~UnderAt("reclaim", Job(c), m)
  BY DEF UnderAt
<1> QED
  BY <1>1, <1>2, <1>3, <1>4, CarryIs, OneLetsGo DEF Parts

LEMMA ReclaimOne ==
  ASSUME Parts, ClaimsHeeded, One, NEW c \in Callers, Reclaim(c)
  PROVE  One'
<1>1. At(c, "reclaim") /\ UNCHANGED now
  BY DEF Reclaim
<1>2. Job(c) \notin {"none", "schedule", "unchanged", "pass"} /\ c # Pass
  BY <1>1, OneNow DEF FitsJob, At
<1>3. CASE Claimable
  <2>1. claim' = now /\ UNCHANGED row /\ \E l \in {"try", "handing", "restore"} : Goto(c, l)
    BY <1>3 DEF Reclaim
  <2>2. \A l \in {"try", "handing", "restore"} : FitsJob(c, l, Job(c))
    BY <1>2, OneNow DEF FitsJob
  <2>3. \A d \in Callers \ {c} : ~HandingOver(d)
    <3> SUFFICES ASSUME NEW d \in Callers \ {c} PROVE ~HandingOver(d)
      OBVIOUS
    <3>1. d = Pass
      BY <1>2 DEF Callers, ClaimsHeeded
    <3> QED
      BY <3>1, OneNow DEF FitsJob, HandsAt
  <2> QED
    BY <1>1, <1>3, <2>1, <2>2, <2>3, GotoIs, OneClaims DEF Parts
<1>4. CASE ~Claimable
  <2>1. Done(c) /\ UNCHANGED <<row, claim>>
    BY <1>4 DEF Reclaim, store
  <2> QED
    BY <1>1, <2>1, OneDone
<1> QED
  BY <1>3, <1>4

LEMMA StuckOne ==
  ASSUME Parts, One, NEW c \in Callers, Stuck(c)
  PROVE  One'
<1>1. Done(c) /\ UNCHANGED now /\ task[c].pc \in {"unsure", "elsewhere"}
  BY DEF Stuck, At
<1> QED
  BY <1>1, OneWorking, OneDone

LEMMA RestoreOne ==
  ASSUME Parts, One, NEW c \in Callers, Restore(c)
  PROVE  One'
<1>1. /\ UnderClaim(c) /\ Job(c) \in {"pass", "sendNow", "newHour", "edit", "drop"}
      /\ At(c, "restore") /\ UNCHANGED now
  BY OneWorking, OneNow DEF Restore, At, FitsJob
<1>2. CASE /\ UNCHANGED store
           /\ \/ Job(c) = "edit" /\ \E m : Carry(c, m, "put")
              \/ Goto(c, "remove")
              \/ Job(c) = "edit" /\ Goto(c, "put")
  <2>1. ~HandsAt("remove", Job(c)) /\ (Job(c) = "edit" => ~HandsAt("put", Job(c)))
    BY DEF HandsAt
  <2> QED
    BY <1>1, <1>2, <2>1, GotoUnder, CarryUnder DEF store
<1>3. CASE Goto(c, "unsaved")
  <2>1. ~UnderAt("unsaved", Job(c), Msg(c)) /\ FitsJob(c, "unsaved", Job(c))
    BY <1>1, OneNow DEF UnderAt, FitsJob
  <2> QED
    BY <1>1, <1>3, <2>1, GotoIs, OneLetsGo DEF Parts
<1>4. \/ /\ UNCHANGED store
         /\ \/ Job(c) = "edit" /\ \E m : Carry(c, m, "put")
            \/ Goto(c, "remove")
            \/ Job(c) = "edit" /\ Goto(c, "put")
      \/ Goto(c, "unsaved")
  BY DEF Restore
<1> QED
  BY <1>2, <1>3, <1>4

LEMMA ReopenedOne ==
  ASSUME Parts, One, NEW c \in Callers, Reopened(c)
  PROVE  One'
BY OneDone DEF Reopened, Write, store

LEMMA RemoveRowOne ==
  ASSUME Parts, One, NEW c \in Callers, RemoveRow(c)
  PROVE  One'
BY OneDone DEF RemoveRow, Write

LEMMA TryOne ==
  ASSUME Parts, One, NEW c \in Callers, Try(c)
  PROVE  One'
<1>1. UnderClaim(c) /\ UNCHANGED <<claim, now>> /\ (row' # NoRow => row # NoRow)
  BY OneWorking DEF Try, At
<1>2. \E l \in {"lookSent", "send"} : Goto(c, l)
  BY DEF Try
<1>3. \A l \in {"lookSent", "send"} : ~HandsAt(l, Job(c))
  BY DEF HandsAt
<1> QED
  BY <1>1, <1>2, <1>3, GotoUnder

LEMMA LookSentOne ==
  ASSUME Parts, One, NEW c \in Callers, LookSent(c)
  PROVE  One'
<1>1. UnderClaim(c) /\ UNCHANGED <<row, claim, now>>
  BY OneWorking DEF LookSent, At, store
<1>2. \E l \in {"forget", "send", "keep", "stick"} : Goto(c, l)
  BY DEF LookSent
<1>3. \A l \in {"forget", "send", "keep", "stick"} : ~HandsAt(l, Job(c))
  BY DEF HandsAt
<1> QED
  BY <1>1, <1>2, <1>3, GotoUnder

LEMMA SendOne ==
  ASSUME Parts, One, NEW c \in Callers, Send(c)
  PROVE  One'
<1>1. UnderClaim(c) /\ UNCHANGED <<row, claim, now>>
  BY OneWorking DEF Send, At, store
<1>2. \E l \in {"forget", "keep", "stick"} : Goto(c, l)
  BY DEF Send
<1>3. \A l \in {"forget", "keep", "stick"} : ~HandsAt(l, Job(c))
  BY DEF HandsAt
<1> QED
  BY <1>1, <1>2, <1>3, GotoUnder

LEMMA ForgetOne ==
  ASSUME Parts, One, NEW c \in Callers, Forget(c)
  PROVE  One'
BY OneWorking, OneDone DEF Forget, At

LEMMA KeepOne ==
  ASSUME Parts, One, NEW c \in Callers, Keep(c)
  PROVE  One'
BY OneWorking, OneDone DEF Keep

LEMMA PassStartOne ==
  ASSUME Parts, One, PassStart
  PROVE  One'
<1>1. Start(Pass, "listed", "pass", row, now) /\ UNCHANGED <<claim, now, row>> /\ Pass \in Callers
  BY DEF PassStart, store, Callers
<1>2. FitsJob(Pass, "listed", "pass") /\ ~UnderAt("listed", "pass", row) /\ ~HandsAt("listed", "pass")
  BY DEF FitsJob, UnderAt, HandsAt
<1> QED
  BY <1>1, <1>2, StartIs, OneBegins DEF Parts

LEMMA PassClaimOne ==
  ASSUME Parts, ClaimsHeeded, One, PassClaim
  PROVE  One'
<1>1. At(Pass, "listed") /\ Pass \in Callers /\ UNCHANGED <<row, now>> /\ HandedOver
  BY DEF PassClaim, Callers, store, Done
<1>2. CASE Claimable
  <2>1. claim' = now /\ Carry(Pass, row, Route(row))
    BY <1>2 DEF PassClaim
  <2>2. Route(row) \in {"look", "ask", "due"}
    BY DEF Route
  <2>3. FitsJob(Pass, Route(row), Job(Pass))
    BY <1>1, <2>2, OneNow DEF FitsJob, At
  <2>4. \A d \in Callers : ~HandingOver(d)
    BY <1>1 DEF HandedOver, ClaimsHeeded
  <2> QED
    BY <1>1, <1>2, <2>1, <2>3, <2>4, CarryIs, OneClaims DEF Parts
<1>3. CASE ~Claimable
  <2>1. Done(Pass) /\ UNCHANGED <<row, claim>>
    BY <1>3 DEF PassClaim, store
  <2> QED
    BY <1>1, <2>1, OneDone
<1> QED
  BY <1>2, <1>3

\* With nobody at work the others are under no claim, and hand nothing over.
LEMMA QuietAlone ==
  ASSUME Parts, One, NEW c \in Callers, Quiet(c)
  PROVE  \A d \in Callers \ {c} : ~UnderClaim(d) /\ ~HandingOver(d)
BY OneNow DEF Quiet, FitsJob, UnderAt, HandsAt, At

LEMMA AdoptOne ==
  ASSUME Parts, One, NEW k \in Copies, Adopt(k)
  PROVE  One'
<1>1. Quiet(Pass) /\ row = NoRow /\ UNCHANGED <<row, claim, now>> /\ Pass \in Callers
  BY DEF Adopt, store, Callers
<1>2. CASE subs[k] = "pending"
  <2>1. LeavesOthers(Pass) /\ Becomes(Pass, "put", "pass", Adopted(Plain(hour[k], k), k))
    BY <1>1, <1>2, StartIs DEF Adopt, Parts
  <2>2. FitsJob(Pass, "put", "pass") /\ ~HandsAt("put", "pass")
    BY DEF FitsJob, HandsAt
  <2>3. \A d \in Callers \ {Pass} : ~UnderClaim(d) /\ ~HandingOver(d)
    BY <1>1, QuietAlone
  <2> QED
    BY <1>1, <2>1, <2>2, <2>3, ThenAt, OthersAt DEF One
<1>3. CASE subs[k] # "pending"
  BY <1>1, <1>3, OneWorld DEF Adopt
<1> QED
  BY <1>2, <1>3

\* A person begins a hand-over where no other caller works.
LEMMA HandingBegins ==
  ASSUME Parts, One, NEW c \in People, NEW j \in {"schedule", "unchanged"}, NEW m, NEW w,
         Start(c, "handing", j, m, w), \A d \in Callers \ {c} : ~UnderClaim(d)
  PROVE  One'
<1>1. c \in Callers /\ c # Pass
  BY SendLaterAssumption DEF Callers
<1>2. FitsJob(c, "handing", j) /\ ~UnderAt("handing", j, m)
  BY <1>1 DEF FitsJob, UnderAt
<1> QED
  BY <1>1, <1>2, StartIs, OneLetsGo DEF Parts

LEMMA ScheduleOne ==
  ASSUME Parts, One, NEW c \in People, NEW at \in Time, Schedule(c, at)
  PROVE  One'
<1>1. \E m : Start(c, "handing", "schedule", m, at)
  BY DEF Schedule
<1>2. \A d \in Callers \ {c} : ~UnderClaim(d)
  BY QuietAlone DEF Schedule, Callers
<1> QED
  BY <1>1, <1>2, HandingBegins

LEMMA HoldUnchangedOne ==
  ASSUME Parts, One, NEW c \in People, HoldUnchanged(c)
  PROVE  One'
<1> DEFINE reopened == Claimable /\ row.hold = "none" /\ row.problem = "none" /\ row.raw
<1>1. CASE reopened
  <2>1. \E m, w : Start(c, "handing", "unchanged", m, w)
    BY <1>1 DEF HoldUnchanged
  <2>2. \A d \in Callers : ~UnderClaim(d)
    BY <1>1, ClaimableAlone
  <2> QED
    BY <2>1, <2>2, HandingBegins
<1>2. CASE ~reopened
  <2>1. UNCHANGED <<task, claim, now, row>>
    BY <1>2 DEF HoldUnchanged, store
  <2> QED
    BY <2>1, OneWorld
<1> QED
  BY <1>1, <1>2

LEMMA NameOne ==
  ASSUME Parts, One, NEW c \in People, NEW j \in {"sendNow", "newHour", "edit", "drop"}, NEW w,
         Name(c, j, w)
  PROVE  One'
<1>1. c \in Callers /\ c # Pass
  BY SendLaterAssumption DEF Callers
<1>2. Start(c, "named", j, row, w) /\ UNCHANGED <<claim, now, row>>
  BY DEF Name, store
<1>3. FitsJob(c, "named", j) /\ ~UnderAt("named", j, row) /\ ~HandsAt("named", j)
  BY <1>1 DEF FitsJob, UnderAt, HandsAt
<1> QED
  BY <1>1, <1>2, <1>3, StartIs, OneBegins DEF Parts

LEMMA AskedOne ==
  ASSUME Parts, ClaimsHeeded, One, Asked
  PROVE  One'
<1>1. ASSUME NEW c \in People, SendNow(c) \/ Edit(c) \/ Drop(c)
      PROVE  One'
  BY <1>1, NameOne DEF SendNow, Edit, Drop
<1>2. ASSUME NEW c \in People, NEW at \in Time, NewHour(c, at)
      PROVE  One'
  BY <1>2, NameOne DEF NewHour
<1>3. ASSUME NEW c \in People, Cancel(c) \/ Post(c)
      PROVE  FALSE
  BY <1>3 DEF Cancel, Post, Name, ClaimsHeeded
<1>4. CASE SaveEdit \/ DraftSaved
  <2>1. UNCHANGED <<task, claim, now>> /\ (row' # NoRow => row # NoRow)
    BY <1>4 DEF SaveEdit, DraftSaved, store
  <2> QED
    BY <2>1, OneWorld
<1> QED
  BY <1>1, <1>2, <1>3, <1>4, ScheduleOne, HoldUnchangedOne DEF Asked

\* A live caller finishes within its claim, so the clock never passes it.
LEMMA TickOne ==
  ASSUME Parts, One, Tick
  PROVE  One'
<1>1. UNCHANGED <<task, claim, row>> /\ now' = now + 1
  BY DEF Tick, store
<1>2. \A c \in Callers : /\ UnderClaim(c)' <=> UnderClaim(c)
                         /\ HandingOver(c)' <=> HandingOver(c)
                         /\ JobFits(c)' <=> JobFits(c)
  BY <1>1 DEF UnderClaim, HandingOver, JobFits, At, Job, Msg
<1>3. ASSUME NEW c \in Callers, UnderClaim(c), row # NoRow
      PROVE  ClaimHolds'
  <2>1. ClaimHolds
    BY <1>3 DEF One
  <2>2. now < claim + ClaimLasts
    BY <1>3, <2>1 DEF Tick, ClaimHolds
  <2>3. now \in Nat /\ claim \in Nat /\ ClaimLasts \in Nat
    BY <2>1, SendLaterAssumption DEF Parts, RestOK, StoreOK, Time, ClaimHolds
  <2> QED
    BY <1>1, <2>1, <2>2, <2>3 DEF ClaimHolds
<1> QED
  BY <1>1, <1>2, <1>3 DEF One

LEMMA CrashOne ==
  ASSUME Crash
  PROVE  One'
<1>1. \A c \in Callers : At(c, "idle")' /\ Job(c)' = "none"
  BY DEF Crash, At, Job, Idle
<1> QED
  BY <1>1 DEF One, JobFits, FitsJob, UnderClaim, HandingOver, At

LEMMA CallerDiesOne ==
  ASSUME Parts, One, NEW c \in Callers, CallerDies(c)
  PROVE  One'
BY OneDone DEF CallerDies, store

LEMMA WorldOne ==
  ASSUME Parts, One, NEW k \in Copies,
         ServerSends(k) \/ ServerForgets(k) \/ OtherCancels(k) \/ OtherDeletes(k) \/ OtherSends(k)
  PROVE  One'
<1>1. UNCHANGED <<task, row, claim, now>>
  BY DEF ServerSends, ServerForgets, OtherCancels, OtherDeletes, OtherSends, store
<1> QED
  BY <1>1, OneWorld

LEMMA StepOne ==
  ASSUME Parts, ClaimsHeeded, One, NEW c \in Callers, Step(c)
  PROVE  One'
<1>1. ~Called(c)
  BY OneNow DEF Called, At, FitsJob
<1> QED
  BY <1>1, TakeNamedOne, HandOverOne, TakeHoldOne, PutRowOne, SaveScheduledOne, ScheduleRefusedOne,
     PassDueOne, LookOne, AskOne, CalledBackOne, StoreOne, ReclaimOne, StuckOne, RestoreOne,
     ReopenedOne, RemoveRowOne, TryOne, LookSentOne, SendOne, ForgetOne, KeepOne DEF Step

LEMMA InitOne == Init => One
<1> SUFFICES ASSUME Init PROVE One
  OBVIOUS
<1>1. \A c \in Callers : At(c, "idle") /\ Job(c) = "none"
  BY DEF Init, At, Job, Idle
<1> QED
  BY <1>1 DEF One, JobFits, FitsJob, UnderClaim, HandingOver, At

LEMMA NextOne ==
  ASSUME Parts, ClaimsHeeded, One, [Next]_vars
  PROVE  One'
<1>1. CASE PassStep
  BY <1>1, PassStartOne, PassClaimOne, AdoptOne DEF PassStep
<1>2. CASE \E c \in Callers : Step(c)
  BY <1>2, StepOne
<1>3. CASE Environment
  BY <1>3, TickOne, CrashOne, CallerDiesOne, WorldOne DEF Environment
<1>4. CASE UNCHANGED vars
  <2>1. UNCHANGED <<task, claim, now, row>>
    BY <1>4 DEF vars
  <2> QED
    BY <2>1, OneWorld
<1> QED
  BY <1>1, <1>2, <1>3, <1>4, AskedOne DEF Next

\* A row is one caller's until that one is done with it, on every path but
\* Cancel Send and a composer's post: the pass, Send Now, a new hour, an edit
\* and a delete claim it first, and wait for a claim that has not lapsed
\* ("is left to that caller", post; "the caller that claimed it is done", put).
THEOREM OneCallerHolds == ClaimsHeeded => (Spec => []OneAtATime)
<1> SUFFICES ASSUME ClaimsHeeded PROVE Spec => []OneAtATime
  OBVIOUS
<1>1. Init => Parts /\ One
  BY InitType, InitOne
<1>2. Parts /\ One /\ [Next]_vars => (Parts /\ One)'
  BY NextType, NextOne
<1>3. One => OneAtATime
  BY DEF One, OneAtATime
<1> QED
  BY <1>1, <1>2, <1>3, PTL DEF Spec

----------------------------------------------------------------------------
(* What is reported as sent has been sent.                                 *)

\* One person, and no composer saves over the draft of a row. (A draft saved
\* again while Send Now is about to send it leaves Send Now with one that has
\* gone, and that counts as sent.)
NotSavedOver == "save" \notin Jobs /\ \A p, q \in People : p = q

Out == delivered > 0

\* The row, and what each caller has in hand.
Messages == {Msg(c) : c \in Callers} \cup ({row} \ {NoRow})

\* Sent, a filed copy and a submission that is over all say that it went.
ServerKnows ==
    /\ inSent => Out
    /\ \A k \in Copies : /\ subs[k] = "final" => Out
                         /\ place[k] = "sent" => Out
                         /\ place[k] = "held" \/ subs[k] # "none" => Ever(k)
                         /\ Ever(k) => place[k] # "unmade"

\* A message saved as a draft was never held, and its draft is there until the
\* message has gone out: no other message has that draft to replace.
Known(k) == k = 0 \/ place[k] # "unmade"
DraftKept(m) ==
    /\ Known(m.copy)
    /\ ~m.raw => /\ m.hold = "none" /\ m.copy \in Copies /\ ~Ever(m.copy)
                 /\ Out \/ place[m.copy] = "draft"
MailKept ==
    /\ \A m \in Messages : DraftKept(m)
    /\ \A m, n \in Messages : ~m.raw /\ n.raw => Out \/ n.copy # m.copy

\* Where a caller can be with one, and what it knows at some labels.
SavedLabels == {"listed", "named", "due", "try", "send", "forget", "keep", "stick", "put", "remove"}
KnowsAt(c, l, j, m, k) ==
    /\ ~m.raw => l \in SavedLabels /\ (l = "put" => j = "schedule") /\ j # "post"
    /\ l = "forget" => Out
    /\ l = "called" \/ (l = "saving" /\ j = "schedule") => m.hold = "none"
    /\ l \in {"found", "holding"} => Found(k)
    /\ l = "named" => j # "schedule"
    /\ c = Pass => l = "idle" \/ (j = "pass" /\ l \in PassLabels)
CallerKnows(c) == KnowsAt(c, task[c].pc, Job(c), Msg(c), task[c].got)

\* While the row, or the pass, has a saved message nobody is busy with another
\* one; and no composer is open on one, or while one is handed over.
SavedHere == (row # NoRow /\ ~row.raw) \/ ~Msg(Pass).raw
SavedAlone == SavedHere =>
    /\ \A p \in People : At(p, "idle") \/ ~Msg(p).raw
    /\ row = NoRow \/ ~row.raw
ComposerShut == composer # Closed =>
    (\A m \in Messages : m.raw) /\ \A p \in People : Job(p) # "schedule"

SentInv ==
    /\ ServerKnows /\ MailKept /\ SavedAlone /\ ComposerShut
    /\ \A c \in Callers : CallerKnows(c)
    /\ composer # Closed => Known(composer)
    /\ told => Out

----------------------------------------------------------------------------
(* What a step may do to the server's side of it.                          *)

\* What is made stays made, and when it was held for; a saved draft goes only
\* with a message that went.
KeepsDrafts ==
    /\ Out => Out'
    /\ \A k \in Copies : place[k] # "unmade" => place'[k] # "unmade" /\ hour'[k] = hour[k]
    /\ \A m \in Messages : ~m.raw /\ place[m.copy] = "draft" => place'[m.copy] = "draft" \/ Out'
ServerGoes == ServerKnows' /\ KeepsDrafts

LEMMA SameDrafts ==
  ASSUME ServerKnows, UNCHANGED server
  PROVE  ServerGoes
BY DEF server, ServerGoes, KeepsDrafts, ServerKnows, Out, Ever

\* The draft of a raw message is no saved one.
LEMMA DestroyedDrafts ==
  ASSUME Parts, ServerKnows, MailKept, NEW k \in 0..MaxCopies,
         Out \/ k = 0 \/ \E n \in Messages : n.raw /\ n.copy = k,
         place' = Destroyed(k), UNCHANGED <<subs, hour, inSent, delivered>>
  PROVE  ServerGoes
<1>1. \A j \in Copies : place'[j] = IF j = k /\ place[k] \in {"draft", "held"} THEN "gone" ELSE place[j]
  BY SendLaterAssumption DEF Destroyed, Parts, ServerOK, Copies
<1>2. ASSUME NEW m \in Messages, ~m.raw, place[m.copy] = "draft"
      PROVE  place'[m.copy] = "draft" \/ Out'
  BY <1>1, <1>2 DEF MailKept, DraftKept, Out, Copies
<1> QED
  BY <1>1, <1>2 DEF ServerGoes, KeepsDrafts, ServerKnows, Out, Ever

LEMMA HeldDrafts ==
  ASSUME Parts, ServerKnows, MailKept, NEW k \in Copies, NEW a \in Time, a > 0, MakeHold(k, a)
  PROVE  ServerGoes /\ Found(k)'
<1>1. /\ \A j \in Copies : /\ place'[j] = IF j = k THEN "held" ELSE place[j]
                           /\ subs'[j] = IF j = k THEN "pending" ELSE subs[j]
                           /\ hour'[j] = IF j = k THEN a ELSE hour[j]
      /\ place[k] = "unmade" /\ UNCHANGED <<inSent, delivered>>
  BY DEF MakeHold, IsNew, Parts, ServerOK
<1>2. ASSUME NEW m \in Messages, ~m.raw, place[m.copy] = "draft"
      PROVE  place'[m.copy] = "draft"
  BY <1>1, <1>2 DEF MailKept, DraftKept
<1>3. a # 0 /\ Ever(k)'
  BY <1>1 DEF Ever, Time
<1> QED
  BY <1>1, <1>2, <1>3 DEF ServerGoes, KeepsDrafts, ServerKnows, Out, Ever, Found

LEMMA SavedDrafts ==
  ASSUME Parts, ServerKnows, MailKept, NEW k \in Copies, NEW old \in 0..MaxCopies,
         old = 0 \/ \E n \in Messages : n.raw /\ n.copy = old, SaveOver(k, old)
  PROVE  /\ ServerGoes /\ place[k] = "unmade" /\ place'[k] = "draft" /\ ~Ever(k)'
         /\ UNCHANGED hour
<1>1. Destroyed(old) \in [Copies -> Places]
  BY DestroyedType DEF Parts, ServerOK
<1>2. \A j \in Copies : Destroyed(old)[j] = IF j = old /\ place[old] \in {"draft", "held"} THEN "gone" ELSE place[j]
  BY SendLaterAssumption DEF Destroyed, Parts, ServerOK, Copies
<1>3. /\ \A j \in Copies : place'[j] = IF j = k THEN "draft" ELSE Destroyed(old)[j]
      /\ place[k] = "unmade" /\ UNCHANGED <<subs, hour, inSent, delivered>>
  BY <1>1 DEF SaveOver, IsNew
<1>4. ~Ever(k)
  BY <1>3 DEF ServerKnows
<1>5. ASSUME NEW m \in Messages, ~m.raw, place[m.copy] = "draft"
      PROVE  place'[m.copy] = "draft" \/ Out
  BY <1>2, <1>3, <1>5 DEF MailKept, DraftKept, Copies
<1> QED
  BY <1>2, <1>3, <1>4, <1>5 DEF ServerGoes, KeepsDrafts, ServerKnows, Out, Ever

LEMMA FiledDrafts ==
  ASSUME Parts, ServerKnows, MailKept, NEW k \in Copies, Out, place' = Filed(k),
         UNCHANGED <<subs, hour, delivered>>
  PROVE  ServerGoes
<1>1. \A j \in Copies : place'[j] = IF j = k /\ place[k] # "gone" THEN "sent" ELSE place[j]
  BY DEF Filed, Parts, ServerOK
<1>2. Out'
  BY DEF Out
<1> QED
  BY <1>1, <1>2 DEF ServerGoes, KeepsDrafts, ServerKnows, Ever

\* A hold that ends, by this install or another, with its copy or before it.
LEMMA TakenOffDrafts ==
  ASSUME Parts, ServerKnows, MailKept, NEW k \in Copies, place' \in {place, TakenOff(k)},
         subs' = subs \/ \E s \in {"canceled", "theirs"} : subs[k] = "pending" /\ subs' = [subs EXCEPT ![k] = s],
         UNCHANGED <<hour, inSent, delivered>>
  PROVE  ServerGoes
<1>1. \A j \in Copies : place'[j] = place[j] \/ (place[j] = "held" /\ place'[j] = "draft")
  BY DEF TakenOff, Parts, ServerOK
<1>2. \A j \in Copies : subs'[j] = subs[j] \/ (subs[j] = "pending" /\ subs'[j] \in {"canceled", "theirs"})
  BY DEF Parts, ServerOK
<1>3. ASSUME NEW m \in Messages, ~m.raw, place[m.copy] = "draft"
      PROVE  place'[m.copy] = "draft"
  BY <1>1, <1>3 DEF MailKept, DraftKept
<1> QED
  BY <1>1, <1>2, <1>3 DEF ServerGoes, KeepsDrafts, ServerKnows, Out, Ever

\* The message goes out.
LEMMA OutDrafts ==
  ASSUME Parts, ServerKnows, NEW k \in 0..MaxCopies, delivered' = OneMore(delivered),
         place' \in {place, Destroyed(k)}, UNCHANGED <<subs, hour>>
  PROVE  ServerGoes /\ Out'
<1>1. Out'
  BY DEF Out, OneMore
<1>2. \A j \in Copies : place'[j] = place[j] \/ (place[j] \in {"draft", "held"} /\ place'[j] = "gone")
  BY DEF Destroyed, Parts, ServerOK
<1> QED
  BY <1>1, <1>2 DEF ServerGoes, KeepsDrafts, ServerKnows, Ever

----------------------------------------------------------------------------
(* What a step leaves of it.                                               *)

\* `n` is `m` for all that matters here, whatever else was written in it.
KinTo(n, m) == n.raw = m.raw /\ n.copy = m.copy /\ (n.raw \/ n.hold = "none")

\* A message in hand after a step is one from before, or has a copy of its own.
Comes(n) ==
    \/ \E m \in Messages : KinTo(n, m)
    \/ /\ n.raw /\ Known(n.copy)'
       /\ \A m \in Messages : ~m.raw => Out' \/ m.copy # n.copy

LEMMA InHand ==
  ASSUME Parts
  PROVE  /\ \A c \in Callers : Msg(c) \in Messages
         /\ row # NoRow => row \in Messages
         /\ Messages \subseteq Row /\ Pass \in Callers
BY CallerType DEF Parts, StoreOK, Messages, Callers

LEMMA MailStep ==
  ASSUME Parts, ServerKnows, MailKept, KeepsDrafts, NEW c \in Callers, LeavesOthers(c),
         NEW n0, Msg(c)' = n0, Comes(n0), NEW r, row' = r, r # NoRow => r = row \/ Comes(r)
  PROVE  MailKept'
<1>1. \A n \in Messages : Comes(n)
  BY DEF MailKept, DraftKept, Comes, KinTo
<1>2. ASSUME NEW n \in Messages' PROVE Comes(n)
  <2>1. CASE n = row' /\ row' # NoRow
    BY <1>1, <2>1, InHand
  <2>2. ASSUME NEW d \in Callers, n = Msg(d)' PROVE Comes(n)
    BY <1>1, <2>2, InHand DEF LeavesOthers, Msg
  <2> QED
    BY <2>1, <2>2 DEF Messages
<1>3. ASSUME NEW n \in Messages' PROVE DraftKept(n)'
  <2>1. CASE n.raw /\ Known(n.copy)'
    BY <2>1 DEF DraftKept
  <2>2. ASSUME NEW m \in Messages, KinTo(n, m) PROVE DraftKept(n)'
    <3>1. Known(n.copy)'
      BY <2>2, InHand DEF KinTo, MailKept, DraftKept, Known, KeepsDrafts, Row, Copies
    <3>2. CASE ~n.raw
      <4>1. /\ n.hold = "none" /\ ~m.raw /\ n.copy = m.copy /\ n.copy \in Copies /\ ~Ever(n.copy)
            /\ place[n.copy] # "unmade" /\ (Out \/ place[n.copy] = "draft")
        BY <2>2, <3>2, SendLaterAssumption DEF KinTo, MailKept, DraftKept, Known, Copies
      <4>2. ~Ever(n.copy)' /\ (Out' \/ place'[n.copy] = "draft")
        BY <4>1 DEF KeepsDrafts, Ever
      <4> QED
        BY <3>1, <4>1, <4>2 DEF DraftKept
    <3> QED
      BY <3>1, <3>2 DEF DraftKept
  <2> QED
    BY <1>2, <2>1, <2>2 DEF Comes
<1>4. ASSUME NEW m \in Messages', NEW n \in Messages', ~m.raw, n.raw
      PROVE  Out' \/ n.copy # m.copy
  <2>1. PICK m0 \in Messages : KinTo(m, m0)
    BY <1>2, <1>4 DEF Comes
  <2>2. ~m0.raw /\ m.copy = m0.copy
    BY <1>4, <2>1 DEF KinTo
  <2>3. ASSUME NEW o \in Messages, KinTo(n, o) PROVE Out' \/ n.copy # m.copy
    BY <1>4, <2>2, <2>3 DEF KinTo, MailKept, KeepsDrafts
  <2> QED
    BY <1>2, <2>2, <2>3 DEF Comes
<1> QED
  BY <1>3, <1>4 DEF MailKept

LEMMA KnowsStays ==
  ASSUME ServerKnows, KeepsDrafts, NEW c, NEW l, NEW j, NEW m, NEW k, KnowsAt(c, l, j, m, k)
  PROVE  KnowsAt(c, l, j, m, k)'
BY DEF KnowsAt, KeepsDrafts, Found, Ever, ServerKnows

\* A step of one caller.
LEMMA SentStep ==
  ASSUME Parts, SentInv, ServerGoes, NEW c \in Callers, LeavesOthers(c),
         NEW l, NEW j, NEW n, NEW k, Becomes(c, l, j, n), task'[c].got = k, KnowsAt(c, l, j, n, k)',
         Comes(n), NEW r, row' = r, r # NoRow => r = row \/ Comes(r),
         SavedAlone', ComposerShut', composer' # Closed => Known(composer)', told' => Out'
  PROVE  SentInv'
<1>1. MailKept'
  BY MailStep DEF SentInv, ServerGoes, Becomes, Msg
<1>2. ASSUME NEW d \in Callers PROVE CallerKnows(d)'
  <2>1. CASE d = c
    BY <2>1 DEF CallerKnows, Becomes, Msg, Job
  <2>2. CASE d # c
    <3>1. KnowsAt(d, task[d].pc, Job(d), Msg(d), task[d].got)'
      <4> DEFINE l1 == task[d].pc j1 == Job(d) m1 == Msg(d) k1 == task[d].got
      <4>1. KnowsAt(d, l1, j1, m1, k1)
        BY DEF SentInv, CallerKnows
      <4>2. /\ (task[d].pc)' = l1 /\ Job(d)' = j1 /\ Msg(d)' = m1 /\ (task[d].got)' = k1
        BY <2>2 DEF LeavesOthers, Msg, Job
      <4> HIDE DEF l1, j1, m1, k1
      <4>3. PICK l2, j2, m2, k2 : l2 = l1 /\ j2 = j1 /\ m2 = m1 /\ k2 = k1
        OBVIOUS
      <4>4. KnowsAt(d, l2, j2, m2, k2)'
        BY <4>1, <4>3, KnowsStays DEF SentInv, ServerGoes
      <4> QED
        BY <4>2, <4>3, <4>4
    <3> QED
      BY <3>1 DEF CallerKnows
  <2> QED
    BY <2>1, <2>2
<1> QED
  BY <1>1, <1>2 DEF SentInv, ServerGoes

\* One that writes its message, or leaves the row, or drops it.
LEMMA AloneStep ==
  ASSUME Parts, NotSavedOver, SavedAlone, NEW c \in Callers, ~At(c, "idle"), LeavesOthers(c),
         NEW l, NEW j, NEW n, Becomes(c, l, j, n),
         n.raw = Msg(c).raw \/ (l = "idle" /\ n.raw),
         row' # NoRow => (row # NoRow /\ row'.raw = row.raw) \/ row'.raw = Msg(c).raw
  PROVE  SavedAlone' /\ ((\A m \in Messages : m.raw) => \A m \in Messages' : m.raw)
<1>1. \A d \in Callers \ {c} : Msg(d)' = Msg(d) /\ At(d, "idle")' = At(d, "idle")
  BY DEF LeavesOthers, Msg, At
<1>2. Msg(c)' = n /\ At(c, "idle")' = (l = "idle")
  BY DEF Becomes, Msg, At
<1>3. (\A m \in Messages : m.raw) => \A m \in Messages' : m.raw
  BY <1>1, <1>2 DEF Messages
<1>4. CASE c = Pass
  <2>1. \A p \in People : Msg(p)' = Msg(p) /\ At(p, "idle")' = At(p, "idle")
    BY <1>1, <1>4, SendLaterAssumption DEF Callers
  <2> QED
    BY <1>2, <1>3, <1>4, <2>1 DEF SavedAlone, SavedHere
<1>5. CASE c # Pass
  <2>1. c \in People /\ Msg(Pass)' = Msg(Pass) /\ \A p \in People : p = c
    BY <1>1, <1>5, SendLaterAssumption DEF Callers, NotSavedOver
  <2> QED
    BY <1>2, <1>3, <2>1 DEF SavedAlone, SavedHere
<1> QED
  BY <1>4, <1>5

LEMMA SentGoes ==
  ASSUME Parts, NotSavedOver, SentInv, ServerGoes, NEW c \in Callers, ~At(c, "idle"), LeavesOthers(c),
         NEW l, NEW j, NEW n, NEW k, Becomes(c, l, j, n), task'[c].got = k, KnowsAt(c, l, j, n, k)',
         j = Job(c) \/ j = "none", n.raw = Msg(c).raw \/ (l = "idle" /\ n.raw), Comes(n),
         NEW r, row' = r, r # NoRow => \/ r = row
                                       \/ /\ Comes(r)
                                          /\ (row # NoRow /\ r.raw = row.raw) \/ r.raw = Msg(c).raw,
         UNCHANGED composer, told' => Out'
  PROVE  SentInv'
<1>1. SavedAlone' /\ ((\A m \in Messages : m.raw) => \A m \in Messages' : m.raw)
  BY AloneStep DEF SentInv
<1>2. ComposerShut'
  <2>1. \A p \in People : Job(p)' = Job(p) \/ Job(p)' = "none"
    BY DEF LeavesOthers, Becomes, Job, Callers
  <2> QED
    BY <1>1, <2>1 DEF SentInv, ComposerShut
<1>3. composer' # Closed => Known(composer)'
  BY DEF SentInv, Known, ServerGoes, KeepsDrafts, Parts, PersonOK, Copies
<1> QED
  BY <1>1, <1>2, <1>3, SentStep

\* A step when every message is a raw one.
LEMMA SentRaw ==
  ASSUME Parts, SentInv, ServerGoes, \A m \in Messages : m.raw, NEW c \in Callers, LeavesOthers(c),
         NEW l, NEW j, NEW n, NEW k, Becomes(c, l, j, n), task'[c].got = k, KnowsAt(c, l, j, n, k)',
         n.raw /\ Known(n.copy)',
         NEW r, row' = r, r # NoRow => r = row \/ (r.raw /\ Known(r.copy)'),
         composer' # Closed => Known(composer)' /\ \A p \in People : Job(p)' # "schedule",
         told' => Out'
  PROVE  SentInv'
<1>1. Comes(n) /\ (r # NoRow => r = row \/ Comes(r))
  BY DEF Comes
<1>2. \A m \in Messages' : m.raw
  BY DEF LeavesOthers, Becomes, Messages, Msg
<1>3. SavedAlone' /\ ComposerShut'
  <2>1. Pass \in Callers
    BY DEF Callers
  <2> QED
    BY <1>2, <2>1 DEF SavedAlone, SavedHere, ComposerShut, Messages
<1> QED
  BY <1>1, <1>3, SentStep

\* A person busy with a raw message is alone with such.
LEMMA RawAlone ==
  ASSUME Parts, NotSavedOver, SentInv, NEW c \in Callers, c # Pass, ~At(c, "idle"), Msg(c).raw
  PROVE  \A m \in Messages : m.raw
<1>1. c \in People /\ \A p \in People : p = c
  BY DEF Callers, NotSavedOver
<1>2. ~SavedHere
  BY <1>1 DEF SentInv, SavedAlone
<1> QED
  BY <1>1, <1>2 DEF SavedHere, Messages, Callers

\* A step of the world.
LEMMA SentWorld ==
  ASSUME Parts, SentInv, ServerGoes, UNCHANGED <<task, row, told>>,
         composer' \in {composer, Closed}
  PROVE  SentInv'
<1>1. Messages' = Messages /\ Pass \in Callers
  BY DEF Messages, Msg, Callers
<1>2. MailKept'
  BY <1>1, InHand, MailStep DEF SentInv, ServerGoes, LeavesOthers, Comes, KinTo, MailKept, DraftKept, Msg
<1>3. ASSUME NEW d \in Callers PROVE CallerKnows(d)'
  <2> DEFINE l1 == task[d].pc j1 == Job(d) m1 == Msg(d) k1 == task[d].got
  <2>1. KnowsAt(d, l1, j1, m1, k1)
    BY DEF SentInv, CallerKnows
  <2>2. /\ (task[d].pc)' = l1 /\ Job(d)' = j1 /\ Msg(d)' = m1 /\ (task[d].got)' = k1
    BY DEF Msg, Job
  <2> HIDE DEF l1, j1, m1, k1
  <2>3. PICK l2, j2, m2, k2 : l2 = l1 /\ j2 = j1 /\ m2 = m1 /\ k2 = k1
    OBVIOUS
  <2>4. KnowsAt(d, l2, j2, m2, k2)'
    BY <2>1, <2>3, KnowsStays DEF SentInv, ServerGoes
  <2> QED
    BY <2>2, <2>3, <2>4 DEF CallerKnows
<1>4. SavedAlone' /\ ComposerShut'
  BY <1>1 DEF SentInv, SavedAlone, SavedHere, ComposerShut, At, Msg, Job
<1>5. composer' # Closed => Known(composer)'
  BY DEF SentInv, Known, ServerGoes, KeepsDrafts, Parts, PersonOK, Copies
<1>6. told' => Out'
  BY DEF SentInv, ServerGoes, KeepsDrafts
<1> QED
  BY <1>2, <1>3, <1>4, <1>5, <1>6 DEF SentInv, ServerGoes

----------------------------------------------------------------------------
(* The steps of a caller.                                                  *)

\* What a caller knows where it stands.
LEMMA KnowsNow ==
  ASSUME Parts, SentInv, NEW c \in Callers
  PROVE  /\ KnowsAt(c, task[c].pc, Job(c), Msg(c), task[c].got) /\ DraftKept(Msg(c))
         /\ Msg(c) \in Row /\ Msg(c) \in Messages
         /\ ~Msg(c).raw => Msg(c).hold = "none"
         /\ c # Pass => c \in People
BY InHand DEF SentInv, CallerKnows, MailKept, DraftKept, Callers

\* One that goes on with its message.
LEMMA GotoSent ==
  ASSUME Parts, NotSavedOver, SentInv, ServerGoes, NEW c \in Callers, ~At(c, "idle"), NEW l, Goto(c, l),
         NEW r, row' = r, r = row \/ r = NoRow \/ (row # NoRow /\ KinTo(r, row)),
         UNCHANGED <<composer, told>>,
         ~Msg(c).raw => l \in SavedLabels \ {"put"}, l = "forget" => Out', l \notin {"named", "found", "holding"},
         l \in {"saving", "called"} => Msg(c).hold = "none",
         c = Pass => l \in PassLabels
  PROVE  SentInv'
<1> DEFINE j == Job(c) m == Msg(c) k == task[c].got
<1>1. KnowsAt(c, task[c].pc, j, m, k) /\ m \in Messages /\ DraftKept(m)
  BY KnowsNow
<1>2. LeavesOthers(c) /\ Becomes(c, l, j, m) /\ task'[c].got = k
  BY GotoIs DEF Parts
<1> HIDE DEF j, m, k
<1>3. PICK j1, m1, k1 : j1 = j /\ m1 = m /\ k1 = k
  OBVIOUS
<1>4. KnowsAt(c, l, j1, m1, k1)'
  BY <1>1, <1>3 DEF KnowsAt, m, At
<1>5. Comes(m1)
  BY <1>1, <1>3 DEF Comes, KinTo, DraftKept
<1>6. told' => Out'
  BY DEF SentInv, ServerGoes, KeepsDrafts
<1>7. row # NoRow /\ KinTo(r, row) => Comes(r) /\ r.raw = row.raw
  BY InHand DEF Comes, KinTo
<1> QED
  BY <1>2, <1>3, <1>4, <1>5, <1>6, <1>7, SentGoes DEF j, m

\* One that goes on with a raw message, as it was or written anew, and may
\* write it as the row.
LEMMA RawGoes ==
  ASSUME Parts, NotSavedOver, SentInv, ServerGoes, NEW c \in Callers, ~At(c, "idle"), NEW l, NEW n,
         LeavesOthers(c), Becomes(c, l, Job(c), n), task'[c].got = task[c].got,
         NEW r, row' = r, r = row \/ (r.raw /\ Comes(r)), UNCHANGED <<composer, told>>,
         Msg(c).raw, n.raw, Comes(n), l \notin {"named", "forget", "found", "holding"},
         l \in {"saving", "called"} => n.hold = "none", c = Pass => l \in PassLabels
  PROVE  SentInv'
<1> DEFINE j == Job(c) k == task[c].got
<1>1. KnowsAt(c, task[c].pc, j, Msg(c), k)
  BY KnowsNow
<1> HIDE DEF j, k
<1>3. PICK j1, k1 : j1 = j /\ k1 = k
  OBVIOUS
<1>4. KnowsAt(c, l, j1, n, k1)'
  BY <1>1, <1>3 DEF KnowsAt, At
<1>6. told' => Out'
  BY DEF SentInv, ServerGoes, KeepsDrafts
<1> QED
  BY <1>3, <1>4, <1>6, SentGoes DEF j, k

LEMMA CarrySent ==
  ASSUME Parts, NotSavedOver, SentInv, ServerGoes, NEW c \in Callers, ~At(c, "idle"), NEW l, NEW n,
         Carry(c, n, l), NEW r, row' = r, r = row \/ r = n, UNCHANGED <<composer, told>>,
         Msg(c).raw, n.raw, Comes(n), l \notin {"named", "forget", "found", "holding"},
         l \in {"saving", "called"} => n.hold = "none", c = Pass => l \in PassLabels
  PROVE  SentInv'
BY CarryIs, RawGoes DEF Parts

\* An idle caller.
LEMMA IdleSent ==
  ASSUME Parts, SentInv, NEW c \in Callers, Done(c)
  PROVE  /\ LeavesOthers(c) /\ Becomes(c, "idle", "none", Plain(0, 0)) /\ task'[c].got = 0
         /\ KnowsAt(c, "idle", "none", Plain(0, 0), 0)' /\ Comes(Plain(0, 0)) /\ Plain(0, 0).raw
         /\ Known(Plain(0, 0).copy)'
<1>1. Plain(0, 0).raw /\ Plain(0, 0).copy = 0
  BY DEF Plain
<1>2. task'[c].got = 0
  BY DEF Done, Parts, TaskOK, Idle
<1>3. Known(Plain(0, 0).copy)'
  BY <1>1 DEF Known
<1>4. Comes(Plain(0, 0))
  BY <1>1, <1>3 DEF Comes, SentInv, MailKept, DraftKept, Copies
<1> QED
  BY <1>1, <1>2, <1>3, <1>4, DoneIs DEF Parts, KnowsAt

\* One that is done, and leaves the row, drops it or writes its message.
LEMMA DoneSent ==
  ASSUME Parts, NotSavedOver, SentInv, ServerGoes, NEW c \in Callers, ~At(c, "idle"), Done(c),
         NEW r, row' = r, r = row \/ r = NoRow \/ KinTo(r, Msg(c)),
         UNCHANGED composer, told' => told \/ Out'
  PROVE  SentInv'
<1>1. told' => Out'
  BY DEF SentInv, ServerGoes, KeepsDrafts
<1>2. r # NoRow => r = row \/ (Comes(r) /\ r.raw = Msg(c).raw)
  BY KnowsNow DEF Comes, KinTo
<1> QED
  BY <1>1, <1>2, IdleSent, SentGoes

\* A person done with a raw message, for whom a composer may open.
LEMMA OpensSent ==
  ASSUME Parts, NotSavedOver, SentInv, ServerGoes, NEW c \in Callers, ~At(c, "idle"), c # Pass,
         Msg(c).raw, Done(c), NEW r, row' = r,
         r = row \/ r = NoRow \/ (r.raw /\ r.copy = Msg(c).copy),
         composer' \in {composer, 0, Msg(c).copy}, UNCHANGED told
  PROVE  SentInv'
<1>1. \A m \in Messages : m.raw
  BY RawAlone
<1>2. PICK k \in 0..MaxCopies : k = Msg(c).copy
  BY KnowsNow DEF Row
<1>3. Known(k)'
  BY <1>2, KnowsNow DEF DraftKept, Known, ServerGoes, KeepsDrafts, Copies
<1>4. r # NoRow => r = row \/ (r.raw /\ Known(r.copy)')
  BY <1>2, <1>3 DEF Known
<1>5. composer' # Closed => Known(composer)'
  BY <1>2, <1>3 DEF SentInv, Known, ServerGoes, KeepsDrafts, Parts, PersonOK, Copies
<1>6. told' => Out'
  BY DEF SentInv, ServerGoes, KeepsDrafts
<1>7. \A p \in People : Job(p)' # "schedule"
  BY IdleSent DEF NotSavedOver, Callers, Becomes, Job
<1> QED
  BY <1>1, <1>4, <1>5, <1>6, <1>7, IdleSent, SentRaw

LEMMA SameServerSent ==
  ASSUME Parts, SentInv, UNCHANGED server
  PROVE  ServerGoes
BY SameDrafts DEF SentInv

LEMMA PassDueTells ==
  ASSUME Parts, NotSavedOver, SentInv, NEW c \in Callers, PassDue(c)
  PROVE  SentInv'
<1>1. ~At(c, "idle") /\ UNCHANGED <<server, composer, told>>
  BY DEF PassDue, At, person
<1>2. (Goto(c, "try") /\ row' = row) \/ (Done(c) /\ row' = row)
  BY DEF PassDue, LetGo, store
<1> QED
  BY <1>1, <1>2, SameServerSent, GotoSent, DoneSent DEF SavedLabels, PassLabels

\* At these labels the message is a raw one.
LEMMA RawThere ==
  ASSUME Parts, SentInv, NEW c \in Callers, task[c].pc \notin SavedLabels
  PROVE  Msg(c).raw
BY KnowsNow DEF KnowsAt

\* A raw message with more written in it.
LEMMA RawComes ==
  ASSUME Parts, SentInv, NEW c \in Callers, NEW n, n.raw, n.copy = Msg(c).copy, Msg(c).raw
  PROVE  Comes(n)
BY KnowsNow DEF Comes, KinTo

LEMMA RowKept ==
  ASSUME NEW m \in Row
  PROVE  /\ Unheld(m).raw = m.raw /\ Unheld(m).copy = m.copy /\ Unheld(m).hold = "none"
         /\ \A t \in Time : Marked(m, t).raw = m.raw /\ Marked(m, t).copy = m.copy
         /\ \A k \in 0..MaxCopies : Adopted(m, k).raw = m.raw /\ Adopted(m, k).copy = k
         /\ [m EXCEPT !.tried = TRUE].raw = m.raw
BY DEF Unheld, Marked, Adopted, Row

LEMMA LookTells ==
  ASSUME Parts, NotSavedOver, SentInv, NEW c \in Callers, Look(c)
  PROVE  SentInv'
<1>1. ~At(c, "idle") /\ Msg(c).raw /\ UNCHANGED <<composer, told>> /\ ServerGoes /\ At(c, "look")
  BY RawThere, SameServerSent DEF Look, At, SavedLabels, person
<1>2. c = Pass => Job(c) = "pass"
  BY <1>1, KnowsNow DEF KnowsAt, At
<1>3. ASSUME LetGo(c) PROVE SentInv'
  BY <1>1, <1>3, DoneSent DEF LetGo
<1>4. ASSUME NEW l, Goto(c, l), l \in {"unsure", "remove"}, UNCHANGED store PROVE SentInv'
  BY <1>1, <1>2, <1>4, GotoSent DEF store, PassLabels
<1>5. ASSUME NEW l, NEW m, Carry(c, m, l), m.raw, m.copy = Msg(c).copy, UNCHANGED store,
             l = "called" => m.hold = "none", l \in {"due", "store", "called"}, c = Pass => l = "due"
      PROVE  SentInv'
  BY <1>1, <1>5, RawComes, CarrySent DEF store, PassLabels
<1>6. ASSUME LookedNothing(c) PROVE SentInv'
  <2> DEFINE m == Unheld(Msg(c)) n == [m EXCEPT !.tried = TRUE]
  <2>1. m.raw /\ n.raw /\ m.copy = Msg(c).copy /\ n.copy = Msg(c).copy /\ m.hold = "none"
    BY <1>1, KnowsNow, RowKept, UnheldType, CopyKept
  <2>2. \/ LetGo(c)
        \/ UNCHANGED store /\ (Goto(c, "unsure") \/ Goto(c, "remove"))
        \/ UNCHANGED store /\ (\/ Carry(c, n, "due")
                               \/ c # Pass /\ (Carry(c, m, "store") \/ Carry(c, m, "called")))
    BY <1>2, <1>6 DEF LookedNothing
  <2> HIDE DEF m, n
  <2> QED
    BY <1>3, <1>4, <1>5, <2>1, <2>2
<1>7. ASSUME Unreadable(c) PROVE SentInv'
  BY <1>3, <1>4, <1>7 DEF Unreadable
<1>8. ASSUME NEW k \in Copies, place[k] = "held", task' = [task EXCEPT ![c].got = k, ![c].pc = "found"],
             UNCHANGED store
      PROVE  SentInv'
  <2>1. LeavesOthers(c) /\ Becomes(c, "found", Job(c), Msg(c)) /\ task'[c].got = k
    BY <1>8 DEF Parts, TaskOK, Task, LeavesOthers, Becomes, Job, Msg
  <2>2. PICK j, m : j = Job(c) /\ m = Msg(c)
    OBVIOUS
  <2>3. Found(k)
    BY <1>8 DEF SentInv, ServerKnows, Found
  <2>4. KnowsAt(c, "found", j, m, k)'
    BY <1>1, <1>2, <1>8, <2>2, <2>3 DEF KnowsAt, Found, Ever, ServerGoes, KeepsDrafts, PassLabels
  <2>5. Comes(m)
    BY <1>1, <2>2, RawComes
  <2>6. told' => Out'
    BY <1>1 DEF SentInv, ServerGoes, KeepsDrafts
  <2> QED
    BY <1>1, <1>8, <2>1, <2>2, <2>4, <2>5, <2>6, SentGoes DEF store
<1>9. \/ LookedNothing(c) \/ Unreadable(c) \/ LetGo(c)
      \/ \E k \in Copies : /\ place[k] = "held" /\ UNCHANGED store
                          /\ task' = [task EXCEPT ![c].got = k, ![c].pc = "found"]
  <2>1. \A V \in Seen : \A k \in V : k \in Copies /\ place[k] = "held"
    BY DEF Seen, HeldCopies
  <2> QED
    BY <2>1 DEF Look
<1> QED
  BY <1>3, <1>6, <1>7, <1>8, <1>9

LEMMA StandingTells ==
  ASSUME Parts, ServerKnows, NEW k \in 0..MaxCopies, NEW a
  PROVE  /\ Standing(k, a) = "sent" => k \in Copies /\ Out
         /\ Standing(k, a) = "notSent" => k \in Copies
         /\ Standing(k, a) = "pending" => k \in Copies /\ subs[k] = "pending"
<1>1. CASE k = 0
  BY <1>1 DEF Standing
<1>2. CASE k # 0
  <2>1. k \in Copies
    BY <1>2, SendLaterAssumption DEF Copies
  <2>2. Fate(k, a) = "sent" => Out
    BY <2>1 DEF Fate, ServerKnows
  <2>3. Standing(k, a) = IF subs[k] = "pending" THEN "pending"
                         ELSE IF subs[k] = "final" THEN "sent"
                         ELSE IF subs[k] \in {"canceled", "theirs"} THEN "notSent" ELSE Fate(k, a)
    BY <1>2 DEF Standing
  <2>4. Fate(k, a) # "pending"
    BY DEF Fate
  <2> QED
    BY <2>1, <2>2, <2>3, <2>4 DEF ServerKnows
<1> QED
  BY <1>1, <1>2

LEMMA AskTells ==
  ASSUME Parts, NotSavedOver, SentInv, NEW c \in Callers, Ask(c)
  PROVE  SentInv'
<1>1. ~At(c, "idle") /\ Msg(c).raw /\ UNCHANGED <<composer, told>>
  BY RawThere DEF Ask, At, SavedLabels, person
<1>2. PICK k \in 0..MaxCopies : k = Msg(c).copy
  BY KnowsNow DEF Row
<1>3. PICK s : s = Standing(k, Msg(c).at)
  OBVIOUS
<1>4. /\ s = "sent" => k \in Copies /\ Out
      /\ s = "notSent" => k \in Copies
      /\ s = "pending" => k \in Copies /\ subs[k] = "pending"
  BY <1>3, StandingTells DEF SentInv
<1>5. ServerGoes
  <2>1. CASE UNCHANGED server
    BY <2>1, SameServerSent
  <2>2. CASE /\ s = "pending" /\ subs' = [subs EXCEPT ![k] = "canceled"] /\ place' \in {place, TakenOff(k)}
             /\ UNCHANGED <<hour, inSent, delivered>>
    BY <1>4, <2>2, TakenOffDrafts DEF SentInv
  <2>3. CASE s = "sent" /\ place' \in {place, Filed(k)} /\ UNCHANGED <<subs, hour, delivered>>
    <3>1. CASE place' = Filed(k)
      BY <1>4, <2>3, <3>1, FiledDrafts DEF SentInv
    <3>2. CASE place' = place
      BY <1>4, <2>3, <3>2 DEF SentInv, ServerGoes, KeepsDrafts, ServerKnows, Out, Ever
    <3> QED
      BY <2>3, <3>1, <3>2
  <2>4. CASE s = "notSent" /\ place' = TakenOff(k) /\ UNCHANGED <<subs, hour, inSent, delivered>>
    BY <1>4, <2>4, TakenOffDrafts DEF SentInv
  <2>5. CASE s = "unknown" /\ UNCHANGED <<place, subs, hour, inSent, delivered>>
    BY <2>5 DEF SentInv, ServerGoes, KeepsDrafts, ServerKnows, Out, Ever
  <2>6. CASE UNCHANGED <<place, subs, hour, inSent, delivered>>
    BY <2>6 DEF SentInv, ServerGoes, KeepsDrafts, ServerKnows, Out, Ever
  <2>7. s = "sent" \/ (inSent \/ (s = "sent" /\ place[k] # "gone")) = inSent
    BY DEF Parts, ServerOK
  <2> QED
    BY <1>2, <1>3, <2>1, <2>2, <2>3, <2>4, <2>5, <2>6, <2>7 DEF Ask
<1>6. \/ Done(c) /\ row' = row
      \/ /\ row' = row
         /\ \/ Goto(c, "remove") \/ Goto(c, "fate") \/ Goto(c, "unsure")
            \/ s = "sent" /\ Goto(c, "forget")
  <2>1. ASSUME NEW t \in {s, "notSent"}, Answered(c, t)
        PROVE  \/ Goto(c, "remove") \/ Goto(c, "fate") \/ Goto(c, "unsure")
               \/ s = "sent" /\ Goto(c, "forget")
    BY <2>1 DEF Answered
  <2> QED
    BY <1>2, <1>3, <2>1 DEF Ask, LetGo, store
<1>7. Out => Out'
  BY <1>5 DEF ServerGoes, KeepsDrafts
<1> QED
  BY <1>1, <1>4, <1>5, <1>6, <1>7, GotoSent, DoneSent DEF PassLabels

LEMMA CalledBackTells ==
  ASSUME Parts, NotSavedOver, SentInv, NEW c \in Callers, CalledBack(c)
  PROVE  SentInv'
<1>1. ~At(c, "idle") /\ At(c, "fate") /\ Msg(c).raw /\ UNCHANGED <<composer, told, row>> /\ ServerGoes
  BY RawThere, SameServerSent DEF CalledBack, At, SavedLabels, person, store
<1>2. c = Pass => Job(c) = "pass"
  BY <1>1, KnowsNow DEF KnowsAt, At
<1>3. PICK went \in {inSent, FALSE}, left \in BOOLEAN :
          Goto(c, IF Job(c) = "cancel" /\ left THEN "restore"
                  ELSE IF went THEN "forget"
                  ELSE CASE Job(c) = "pass" /\ ~left -> "elsewhere"
                         [] Job(c) = "pass" <=> left -> "remove"
                         [] OTHER -> "store")
  BY DEF CalledBack
<1>4. went => Out'
  BY <1>1, <1>3 DEF SentInv, ServerKnows, ServerGoes, KeepsDrafts
<1>5. \/ went /\ Goto(c, "forget")
      \/ Goto(c, "elsewhere") \/ Goto(c, "remove")
      \/ Job(c) # "pass" /\ (Goto(c, "store") \/ Goto(c, "restore"))
  <2>2. CASE Job(c) = "cancel" /\ left
    BY <1>3, <2>2
  <2>3. CASE ~(Job(c) = "cancel" /\ left) /\ went
    BY <1>3, <2>3
  <2>4. CASE ~(Job(c) = "cancel" /\ left) /\ ~went /\ Job(c) = "pass" /\ ~left
    BY <1>3, <2>4
  <2>5. CASE ~(Job(c) = "cancel" /\ left) /\ ~went /\ (Job(c) = "pass" <=> left)
    BY <1>3, <2>5
  <2>6. CASE ~(Job(c) = "cancel" /\ left) /\ ~went /\ ~(Job(c) = "pass" <=> left) /\ Job(c) # "pass"
    BY <1>3, <2>6
  <2> QED
    BY <2>2, <2>3, <2>4, <2>5, <2>6
<1> QED
  BY <1>1, <1>2, <1>4, <1>5, GotoSent DEF PassLabels

LEMMA StoreTells ==
  ASSUME Parts, NotSavedOver, SentInv, NEW c \in Callers, Store(c)
  PROVE  SentInv'
<1>1. ~At(c, "idle") /\ Msg(c).raw /\ UNCHANGED <<composer, told>> /\ ServerGoes /\ At(c, "store")
  BY RawThere, SameServerSent DEF Store, At, SavedLabels, person
<1>2. c # Pass
  BY <1>1, KnowsNow DEF KnowsAt, At, PassLabels
<1>3. PICK m \in Row : Write(m) /\ Carry(c, m, "reclaim") /\ m.raw /\ m.copy = Msg(c).copy
  <2>1. \A m \in Row : \A t \in Time :
          /\ [m EXCEPT !.tried = TRUE] \in Row /\ [m EXCEPT !.at = t] \in Row
          /\ [m EXCEPT !.tried = TRUE].raw = m.raw /\ [m EXCEPT !.tried = TRUE].copy = m.copy
          /\ [m EXCEPT !.at = t].raw = m.raw /\ [m EXCEPT !.at = t].copy = m.copy
    BY DEF Row
  <2>2. task[c].want \in Time /\ now \in Time
    BY CallerType DEF Parts, RestOK
  <2> DEFINE here == [Unheld(Msg(c)) EXCEPT !.tried = TRUE]
             there == [here EXCEPT !.at = task[c].want]
  <2>3. here \in Row /\ here.raw /\ here.copy = Msg(c).copy
    BY <1>1, <2>1, <2>2, KnowsNow, UnheldType, RowKept
  <2>4. there \in Row /\ there.raw /\ there.copy = Msg(c).copy
    BY <2>1, <2>2, <2>3
  <2> HIDE DEF there
  <2>5. Marked(there, now) \in Row /\ Marked(there, now).raw /\ Marked(there, now).copy = Msg(c).copy
    BY <2>2, <2>4, RowKept, MarkedType
  <2>6. Write(IF Job(c) = "newHour" THEN Marked(there, now) ELSE here)
        /\ Carry(c, IF Job(c) = "newHour" THEN Marked(there, now) ELSE here, "reclaim")
    BY DEF Store, there
  <2> QED
    BY <2>3, <2>5, <2>6
<1>4. Comes(m)
  BY <1>1, <1>3, RawComes
<1> QED
  BY <1>1, <1>2, <1>3, <1>4, CarrySent DEF Write

LEMMA ReclaimTells ==
  ASSUME Parts, NotSavedOver, SentInv, NEW c \in Callers, Reclaim(c)
  PROVE  SentInv'
<1>1. ~At(c, "idle") /\ Msg(c).raw /\ UNCHANGED <<composer, told>> /\ ServerGoes /\ At(c, "reclaim")
  BY RawThere, SameServerSent DEF Reclaim, At, SavedLabels, person
<1>2. c # Pass
  BY <1>1, KnowsNow DEF KnowsAt, At, PassLabels
<1>3. row' = row /\ (Done(c) \/ Goto(c, "try") \/ Goto(c, "handing") \/ Goto(c, "restore"))
  BY DEF Reclaim, store
<1> QED
  BY <1>1, <1>2, <1>3, GotoSent, DoneSent

LEMMA StuckTells ==
  ASSUME Parts, NotSavedOver, SentInv, NEW c \in Callers, Stuck(c)
  PROVE  SentInv'
<1>1. /\ ~At(c, "idle") /\ Msg(c).raw /\ UNCHANGED <<composer, told>> /\ ServerGoes /\ Done(c)
  BY RawThere, SameServerSent DEF Stuck, At, SavedLabels, person
<1>2. PICK n \in Row : row' = n /\ n.raw /\ n.copy \in {Msg(c).copy, 0}
  <2>1. \A m \in Row :
          /\ [m EXCEPT !.tried = TRUE] \in Row
          /\ [m EXCEPT !.tried = TRUE].raw = m.raw /\ [m EXCEPT !.tried = TRUE].copy = m.copy
    BY DEF Row
  <2>2. \A m \in Row, p \in Problems, k \in 0..MaxCopies :
          /\ [m EXCEPT !.problem = p] \in Row /\ [m EXCEPT !.copy = k, !.problem = p] \in Row
          /\ [m EXCEPT !.problem = p].raw = m.raw /\ [m EXCEPT !.problem = p].copy = m.copy
          /\ [m EXCEPT !.copy = k, !.problem = p].raw = m.raw
          /\ [m EXCEPT !.copy = k, !.problem = p].copy = k
    BY DEF Row
  <2> DEFINE m == [Msg(c) EXCEPT !.tried = TRUE]
  <2>3. m \in Row /\ m.raw /\ m.copy = Msg(c).copy
    BY <1>1, <2>1, KnowsNow
  <2>4. Unheld(m) \in Row /\ Unheld(m).raw
    BY <2>3, UnheldType, RowKept
  <2>5. row' = [m EXCEPT !.problem = "checkSent"]
        \/ row' = [Unheld(m) EXCEPT !.copy = 0, !.problem = "elsewhere"]
    BY DEF Stuck, Write
  <2> HIDE DEF m
  <2>6. "checkSent" \in Problems /\ "elsewhere" \in Problems /\ 0 \in 0..MaxCopies
    BY SendLaterAssumption DEF Problems
  <2> DEFINE x == [m EXCEPT !.problem = "checkSent"]
             y == [Unheld(m) EXCEPT !.copy = 0, !.problem = "elsewhere"]
  <2>7. x \in Row /\ x.raw /\ x.copy = Msg(c).copy
    BY <2>2, <2>3, <2>6
  <2>8. y \in Row /\ y.raw /\ y.copy = 0
    <3>1. PICK u \in Row : u = Unheld(m) /\ u.raw
      BY <2>4
    <3>2. y = [u EXCEPT !.copy = 0, !.problem = "elsewhere"]
      BY <3>1
    <3> QED
      BY <2>6, <3>1, <3>2 DEF Row
  <2>9. row' = x \/ row' = y
    BY <2>5
  <2> HIDE DEF x, y
  <2> QED
    BY <2>7, <2>8, <2>9
<1>3. Comes(n)
  <2>1. CASE n.copy = Msg(c).copy
    BY <1>1, <1>2, <2>1, RawComes
  <2>2. CASE n.copy = 0
    BY <1>2, <2>2 DEF Comes, Known, SentInv, MailKept, DraftKept, Copies
  <2> QED
    BY <1>2, <2>1, <2>2
<1>4. told' => Out'
  BY <1>1 DEF SentInv, ServerGoes, KeepsDrafts
<1> QED
  BY <1>1, <1>2, <1>3, <1>4, IdleSent, SentGoes

LEMMA CalledTells ==
  ASSUME Parts, NotSavedOver, SentInv, NEW c \in Callers, Called(c)
  PROVE  SentInv'
<1>1. ~At(c, "idle") /\ Msg(c).raw /\ UNCHANGED <<composer, told>> /\ ServerGoes /\ At(c, "called")
  BY RawThere, SameServerSent DEF Called, At, SavedLabels, person
<1>2. c # Pass
  BY <1>1, KnowsNow DEF KnowsAt, At, PassLabels
<1>3. PICK m \in Row : m = Msg(c) /\ row' = m
  BY KnowsNow DEF Called, Write
<1>4. PICK l \in {"saving", "restore"} : Goto(c, l)
  BY DEF Called
<1>7. m.hold = "none"
  BY <1>1, <1>3, KnowsNow DEF KnowsAt, At
<1>5. LeavesOthers(c) /\ Becomes(c, l, Job(c), m) /\ task'[c].got = task[c].got
  BY <1>3, <1>4, GotoIs DEF Parts
<1>6. Comes(m)
  BY <1>1, <1>3, RawComes
<1> QED
  BY <1>1, <1>2, <1>3, <1>4, <1>5, <1>6, <1>7, RawGoes

LEMMA RestoreTells ==
  ASSUME Parts, NotSavedOver, SentInv, NEW c \in Callers, Restore(c)
  PROVE  SentInv'
<1>1. ~At(c, "idle") /\ Msg(c).raw /\ UNCHANGED <<composer, told>> /\ Msg(c) \in Row /\ Msg(c) \in Messages
  BY RawThere, KnowsNow DEF Restore, At, SavedLabels, person
<1>2. c # Pass
  BY KnowsNow DEF KnowsAt, At, PassLabels, Restore
<1>3. ASSUME NEW k \in Copies, SaveOver(k, Msg(c).copy), UNCHANGED store,
             \/ Carry(c, [Msg(c) EXCEPT !.copy = k], "put") \/ Goto(c, "remove")
      PROVE  SentInv'
  <2>1. PICK old \in 0..MaxCopies : old = Msg(c).copy
    BY <1>1 DEF Row
  <2>2. ServerGoes /\ place[k] = "unmade" /\ place'[k] = "draft"
    BY <1>1, <1>3, <2>1, SavedDrafts DEF SentInv
  <2>3. PICK n : n = [Msg(c) EXCEPT !.copy = k]
    OBVIOUS
  <2>4. n.raw /\ n.copy = k
    BY <1>1, <2>3 DEF Row
  <2>5. Comes(n)
    BY <2>2, <2>4, SendLaterAssumption DEF Comes, Known, SentInv, MailKept, DraftKept, Copies
  <2>6. CASE Carry(c, n, "put")
    BY <1>1, <1>2, <1>3, <2>2, <2>4, <2>5, <2>6, CarrySent DEF store
  <2>7. CASE Goto(c, "remove")
    BY <1>1, <1>2, <1>3, <2>2, <2>7, GotoSent DEF store
  <2> QED
    BY <1>3, <2>3, <2>6, <2>7
<1>4. ASSUME UNCHANGED server, UNCHANGED store, Goto(c, "put") \/ Goto(c, "unsaved")
      PROVE  SentInv'
  BY <1>1, <1>2, <1>4, SameServerSent, GotoSent DEF store
<1>5. ASSUME UNCHANGED server, Write(Unheld(Msg(c))), Goto(c, "unsaved")
      PROVE  SentInv'
  <2>1. PICK m : m = Msg(c)
    OBVIOUS
  <2>2. PICK r : r = Unheld(Msg(c))
    OBVIOUS
  <2>3. r.raw /\ r.copy = Msg(c).copy /\ row' = r
    BY <1>1, <1>5, <2>2, RowKept DEF Write
  <2>4. Comes(r) /\ Comes(m)
    BY <1>1, <2>1, <2>3, RawComes
  <2>5. LeavesOthers(c) /\ Becomes(c, "unsaved", Job(c), m) /\ task'[c].got = task[c].got
    BY <1>5, <2>1, GotoIs DEF Parts
  <2> QED
    BY <1>1, <1>2, <1>5, <2>1, <2>3, <2>4, <2>5, SameServerSent, RawGoes
<1> QED
  BY <1>3, <1>4, <1>5 DEF Restore

LEMMA ReopenedTells ==
  ASSUME Parts, NotSavedOver, SentInv, NEW c \in Callers, Reopened(c)
  PROVE  SentInv'
<1>1. ~At(c, "idle") /\ Msg(c).raw /\ UNCHANGED told /\ ServerGoes /\ Done(c) /\ composer' = 0
  BY RawThere, SameServerSent DEF Reopened, At, SavedLabels
<1>2. c # Pass
  BY KnowsNow DEF KnowsAt, At, PassLabels, Reopened
<1>3. row' = row \/ row' = NoRow
  BY DEF Reopened, Write, store
<1> QED
  BY <1>1, <1>2, <1>3, OpensSent

LEMMA RemoveRowTells ==
  ASSUME Parts, NotSavedOver, SentInv, NEW c \in Callers, RemoveRow(c)
  PROVE  SentInv'
<1>1. ~At(c, "idle") /\ Done(c) /\ row' = NoRow /\ UNCHANGED <<composer, told>> /\ ServerGoes
  BY SameServerSent DEF RemoveRow, At, Write
<1> QED
  BY <1>1, DoneSent

\* A caller that takes the row as it is.
LEMMA TakesSent ==
  ASSUME Parts, NotSavedOver, SentInv, UNCHANGED server, NEW c \in Callers, LeavesOthers(c),
         NEW l, NEW j, NEW k, Becomes(c, l, j, row), task'[c].got = k, KnowsAt(c, l, j, row, k),
         row # NoRow, UNCHANGED <<row, composer, told>>, j = "schedule" => Job(c) = "schedule"
  PROVE  SentInv'
<1>1. ServerGoes
  BY SameServerSent
<1>2. PICK n : n = row
  OBVIOUS
<1>3. n \in Messages /\ DraftKept(n)
  BY <1>2, InHand DEF SentInv, MailKept
<1>4. KnowsAt(c, l, j, n, k)'
  BY <1>1, <1>2, KnowsStays DEF SentInv, ServerGoes
<1>5. Comes(n)
  BY <1>3 DEF Comes, KinTo, DraftKept
<1>6. \A d \in Callers \ {c} : Msg(d)' = Msg(d) /\ At(d, "idle")' = At(d, "idle") /\ Job(d)' = Job(d)
  BY DEF LeavesOthers, Msg, At, Job
<1>7. Msg(c)' = n /\ Job(c)' = j
  BY <1>2 DEF Becomes, Msg, Job
<1>8. SavedAlone'
  <2>1. CASE c = Pass
    <3>1. \A p \in People : Msg(p)' = Msg(p) /\ At(p, "idle")' = At(p, "idle")
      BY <1>6, <2>1, SendLaterAssumption DEF Callers
    <3> QED
      BY <1>2, <1>7, <2>1, <3>1 DEF SentInv, SavedAlone, SavedHere
  <2>2. CASE c # Pass
    <3>1. c \in People /\ Msg(Pass)' = Msg(Pass) /\ \A p \in People : p = c
      BY <1>6, <2>2, SendLaterAssumption DEF Callers, NotSavedOver
    <3> QED
      BY <1>2, <1>7, <3>1 DEF SentInv, SavedAlone, SavedHere
  <2> QED
    BY <2>1, <2>2
<1>9. ComposerShut'
  <2>1. \A p \in People : Job(p)' = "schedule" => Job(p) = "schedule"
    BY <1>6, <1>7 DEF Callers
  <2>2. (\A m \in Messages : m.raw) => \A m \in Messages' : m.raw
    BY <1>3, <1>6, <1>7 DEF Messages
  <2> QED
    BY <2>1, <2>2 DEF SentInv, ComposerShut
<1>10. (composer' # Closed => Known(composer)') /\ (told' => Out')
  BY <1>1 DEF SentInv, Known, ServerGoes, KeepsDrafts, Parts, PersonOK, Copies
<1> QED
  BY <1>1, <1>2, <1>4, <1>5, <1>8, <1>9, <1>10, SentStep

LEMMA TakeNamedTells ==
  ASSUME Parts, NotSavedOver, SentInv, NEW c \in Callers, TakeNamed(c)
  PROVE  SentInv'
<1> DEFINE held == Msg(c).hold # "none"
           m == IF Job(c) = "sendNow" THEN Msg(c) ELSE row
           label == CASE held -> IF m.hold = "mark" THEN "look" ELSE "ask"
                      [] ~held /\ Job(c) = "sendNow" -> "try"
                      [] ~held /\ Job(c) # "sendNow" /\ m.copy = 0 -> "saving"
                      [] OTHER -> "remove"
<1>1. ~At(c, "idle") /\ UNCHANGED <<server, composer, told, row>> /\ ServerGoes /\ At(c, "named")
  BY SameServerSent DEF TakeNamed, At, person, Carry, Done, Goto, store
<1>2. c # Pass
  BY <1>1, KnowsNow DEF KnowsAt, At, PassLabels
<1>3. CASE Goto(c, "remove")
  BY <1>1, <1>2, <1>3, GotoSent DEF SavedLabels
<1>4. CASE Done(c)
  BY <1>1, <1>4, DoneSent
<1>5. CASE Carry(c, m, label) /\ row # NoRow /\ Job(c) # "schedule"
  <2>1. PICK n : n = m
    OBVIOUS
  <2>2. PICK l : l = label
    OBVIOUS
  <2>3. l \in {"look", "ask", "try", "saving", "remove"}
    BY <2>2
  <2>4. n \in Messages /\ DraftKept(n) /\ (n = Msg(c) \/ n = row)
    BY <1>5, <2>1, InHand DEF SentInv, MailKept
  <2>5. ~n.raw => ~Msg(c).raw /\ l \in {"try", "remove"}
    <3> SUFFICES ASSUME ~n.raw PROVE ~Msg(c).raw /\ l \in {"try", "remove"}
      OBVIOUS
    <3>1. ~Msg(c).raw
      BY <1>1, <1>2, <2>4, RawAlone
    <3>2. ~held
      BY <3>1, KnowsNow
    <3>3. n.copy # 0
      BY <2>4 DEF DraftKept, Copies
    <3> QED
      BY <2>1, <2>2, <3>1, <3>2, <3>3
  <2>6. PICK j, k : j = Job(c) /\ k = task[c].got
    OBVIOUS
  <2>7. KnowsAt(c, l, j, n, k)
    BY <1>1, <1>2, <1>5, <2>3, <2>5, <2>6, KnowsNow DEF KnowsAt, SavedLabels, At
  <2>8. LeavesOthers(c) /\ Becomes(c, l, j, n) /\ task'[c].got = k
    BY <1>5, <2>1, <2>2, <2>6, CarryIs DEF Parts
  <2>9. CASE n = row
    BY <1>1, <1>5, <2>6, <2>7, <2>8, <2>9, TakesSent
  <2>10. CASE n = Msg(c)
    <3>1. KnowsAt(c, l, j, n, k)'
      BY <1>1, <2>7, KnowsStays DEF SentInv, ServerGoes
    <3>2. Comes(n)
      BY <2>4 DEF Comes, KinTo, DraftKept
    <3>3. told' => Out'
      BY <1>1 DEF SentInv, ServerGoes, KeepsDrafts
    <3> QED
      BY <1>1, <2>6, <2>8, <2>10, <3>1, <3>2, <3>3, SentGoes
  <2> QED
    BY <2>4, <2>9, <2>10
<1>6. Goto(c, "remove") \/ Done(c) \/ (Carry(c, m, label) /\ row # NoRow)
  BY DEF TakeNamed, Claimable
<1>7. Job(c) # "schedule"
  BY <1>1, KnowsNow DEF KnowsAt, At
<1> QED
  BY <1>3, <1>4, <1>5, <1>6, <1>7

\* The message handed over is a raw one until its draft is saved, and what the
\* server holds of it is a copy of its own.
LEMMA HandOverTells ==
  ASSUME Parts, NotSavedOver, SentInv, NEW c \in Callers, HandOver(c)
  PROVE  SentInv'
<1>1. /\ ~At(c, "idle") /\ Msg(c).raw /\ UNCHANGED <<composer, told, row>> /\ Msg(c) \in Row
      /\ At(c, "handing")
  BY RawThere, KnowsNow DEF HandOver, At, SavedLabels, person, store
<1>2. c # Pass
  BY <1>1, KnowsNow DEF KnowsAt, At, PassLabels
<1>3. ASSUME NEW k \in Copies, MakeHold(k, Msg(c).at), Msg(c).at > now
      PROVE  ServerGoes /\ Found(k)'
  BY <1>1, <1>3, HeldDrafts, SendLaterAssumption DEF SentInv, Row, Parts, RestOK, Time
<1>4. ASSUME ServerGoes, NEW n, n.raw, n.copy = Msg(c).copy, Carry(c, n, "put") PROVE SentInv'
  BY <1>1, <1>2, <1>4, RawComes, CarrySent
<1>5. ASSUME UNCHANGED server, Carry(c, Unheld(Msg(c)), IF Job(c) = "schedule" THEN "saving" ELSE "put")
      PROVE  SentInv'
  <2>1. PICK n : n = Unheld(Msg(c))
    OBVIOUS
  <2>2. n.raw /\ n.copy = Msg(c).copy /\ n.hold = "none"
    BY <1>1, <2>1, RowKept
  <2>3. Carry(c, n, "saving") \/ Carry(c, n, "put")
    BY <1>5, <2>1
  <2>4. Comes(n)
    BY <1>1, <2>2, RawComes
  <2> QED
    BY <1>1, <1>2, <1>5, <2>2, <2>3, <2>4, SameServerSent, CarrySent
<1>6. ASSUME NEW k \in Copies, MakeHold(k, Msg(c).at), Msg(c).at > now,
             task' = [task EXCEPT ![c].got = k, ![c].pc = "holding"]
      PROVE  SentInv'
  <2>1. LeavesOthers(c) /\ Becomes(c, "holding", Job(c), Msg(c)) /\ task'[c].got = k
    BY <1>6 DEF Parts, TaskOK, Task, LeavesOthers, Becomes, Job, Msg
  <2>2. PICK j, m : j = Job(c) /\ m = Msg(c)
    OBVIOUS
  <2>3. ServerGoes /\ Found(k)'
    BY <1>3, <1>6
  <2>4. KnowsAt(c, "holding", j, m, k)'
    BY <1>1, <1>2, <2>2, <2>3 DEF KnowsAt
  <2>5. Comes(m)
    BY <1>1, <2>2, RawComes
  <2>6. told' => Out'
    BY <1>1, <2>3 DEF SentInv, ServerGoes, KeepsDrafts
  <2> QED
    BY <1>1, <2>1, <2>2, <2>3, <2>4, <2>5, <2>6, SentGoes
<1>7. ASSUME UNCHANGED server \/ (Msg(c).at > now /\ \E k \in Copies : MakeHold(k, Msg(c).at)),
             Carry(c, Marked(Msg(c), now), "put")
      PROVE  SentInv'
  <2>1. Marked(Msg(c), now).raw /\ Marked(Msg(c), now).copy = Msg(c).copy
    BY <1>1, RowKept DEF Parts, RestOK
  <2> QED
    BY <1>3, <1>4, <1>7, <2>1, SameServerSent
<1> QED
  BY <1>5, <1>6, <1>7 DEF HandOver

LEMMA TakeHoldTells ==
  ASSUME Parts, NotSavedOver, SentInv, NEW c \in Callers, TakeHold(c)
  PROVE  SentInv'
<1>1. /\ ~At(c, "idle") /\ Msg(c).raw /\ UNCHANGED <<composer, told, row>> /\ Msg(c) \in Row
      /\ Msg(c) \in Messages
  BY RawThere, KnowsNow DEF TakeHold, At, SavedLabels, person, store
<1>2. PICK k \in Copies : k = task[c].got /\ Ever(k)
  BY KnowsNow DEF TakeHold, KnowsAt, Found
<1>3. PICK old \in 0..MaxCopies :
          /\ old \in {0, Msg(c).copy}
          /\ place' = Destroyed(old) \/ UNCHANGED place
          /\ UNCHANGED <<subs, hour, inSent, delivered>>
  <2>1. Msg(c).copy \in 0..MaxCopies /\ 0 \in 0..MaxCopies
    BY <1>1, SendLaterAssumption DEF Row
  <2> QED
    BY <2>1 DEF TakeHold
<1>4. ServerGoes
  <2>1. CASE place' = Destroyed(old)
    BY <1>1, <1>3, <2>1, DestroyedDrafts DEF SentInv
  <2>2. CASE UNCHANGED place
    BY <1>3, <2>2 DEF SentInv, ServerGoes, KeepsDrafts, ServerKnows, Out, Ever
  <2> QED
    BY <1>3, <2>1, <2>2
<1>5. PICK n : n = Adopted(Msg(c), k)
  OBVIOUS
<1>6. n.raw /\ n.copy = k
  BY <1>1, <1>5, RowKept DEF Copies
<1>7. Known(k)'
  BY <1>2, <1>4 DEF SentInv, ServerKnows, ServerGoes, KeepsDrafts, Known
<1>8. Comes(n)
  BY <1>2, <1>6, <1>7 DEF Comes, SentInv, MailKept, DraftKept
<1>9. Carry(c, n, "put") \/ Carry(c, n, "ask")
  BY <1>2, <1>5 DEF TakeHold
<1> QED
  BY <1>1, <1>4, <1>6, <1>8, <1>9, CarrySent DEF PassLabels

LEMMA PutRowTells ==
  ASSUME Parts, NotSavedOver, SentInv, NEW c \in Callers, PutRow(c)
  PROVE  SentInv'
<1>1. /\ ~At(c, "idle") /\ At(c, "put") /\ Done(c) /\ UNCHANGED told /\ ServerGoes
      /\ row' = Msg(c) /\ Msg(c) \in Row
  BY SameServerSent, KnowsNow DEF PutRow, At, Write
<1>2. PICK r : r = Msg(c)
  OBVIOUS
<1>3. KinTo(r, Msg(c))
  BY <1>2, KnowsNow DEF KinTo
<1>4. CASE Job(c) = "edit"
  <2>1. c # Pass /\ Msg(c).raw
    BY <1>1, <1>4, KnowsNow DEF KnowsAt, At
  <2>2. composer' = Msg(c).copy
    BY <1>4 DEF PutRow
  <2> QED
    BY <1>1, <1>2, <2>1, <2>2, OpensSent
<1>5. CASE Job(c) # "edit"
  <2>1. composer' = composer
    BY <1>5 DEF PutRow
  <2> QED
    BY <1>1, <1>2, <1>3, <2>1, DoneSent
<1> QED
  BY <1>4, <1>5

\* The row has its own draft from here on.
LEMMA SaveScheduledTells ==
  ASSUME Parts, NotSavedOver, SentInv, NEW c \in Callers, SaveScheduled(c)
  PROVE  SentInv'
<1>1. /\ ~At(c, "idle") /\ Msg(c).raw /\ UNCHANGED <<composer, told, row>> /\ Msg(c) \in Row
      /\ At(c, "saving") /\ Job(c) = "schedule" /\ Msg(c) \in Messages
  BY RawThere, KnowsNow DEF SaveScheduled, At, SavedLabels, person, store
<1>2. c # Pass /\ Msg(c).hold = "none"
  BY <1>1, KnowsNow DEF KnowsAt, At, PassLabels
<1>3. CASE UNCHANGED server /\ (Goto(c, "put") \/ Goto(c, "refused"))
  BY <1>1, <1>2, <1>3, SameServerSent, GotoSent
<1>4. ASSUME NEW k \in Copies, SaveOver(k, Msg(c).copy),
             Carry(c, [Msg(c) EXCEPT !.copy = k, !.raw = FALSE], "put")
      PROVE  SentInv'
  <2>1. PICK old \in 0..MaxCopies : old = Msg(c).copy
    BY <1>1 DEF Row
  <2>2. ServerGoes /\ place[k] = "unmade" /\ place'[k] = "draft" /\ ~Ever(k)'
    BY <1>1, <1>4, <2>1, SavedDrafts DEF SentInv
  <2>3. PICK n : n = [Msg(c) EXCEPT !.copy = k, !.raw = FALSE]
    OBVIOUS
  <2>4. ~n.raw /\ n.copy = k /\ n.hold = "none"
    BY <1>1, <1>2, <2>3 DEF Row
  <2>5. LeavesOthers(c) /\ Becomes(c, "put", Job(c), n) /\ task'[c].got = task[c].got
    BY <1>4, <2>3, CarryIs DEF Parts
  <2>6. \A m \in Messages : m.raw
    BY <1>1, <1>2, RawAlone
  <2>7. /\ \A d \in Callers \ {c} : Msg(d)' \in Messages
        /\ Msg(c)' = n
        /\ row' # NoRow => row' \in Messages
    BY <1>1, <2>5, InHand DEF LeavesOthers, Becomes, Msg
  <2>8. \A o \in Messages' : o = n \/ o \in Messages
    BY <2>7 DEF Messages
  <2>9. MailKept'
    <3>1. ASSUME NEW o \in Messages PROVE DraftKept(o)' /\ o.raw /\ o.copy # k
      <4>1. o.raw /\ Known(o.copy) /\ o.copy \in 0..MaxCopies
        BY <2>6, InHand DEF SentInv, MailKept, DraftKept, Row
      <4>2. Known(o.copy)'
        BY <2>2, <4>1 DEF ServerGoes, KeepsDrafts, Known, Copies
      <4>3. k # 0
        BY DEF Copies
      <4> QED
        BY <2>2, <4>1, <4>2, <4>3 DEF DraftKept, Known
    <3>2. DraftKept(n)'
      BY <2>2, <2>4 DEF DraftKept, Known
    <3> QED
      BY <2>4, <2>8, <3>1, <3>2 DEF MailKept
  <2>10. ComposerShut' /\ composer' = Closed
    <3>1. c \in People
      BY <1>2 DEF Callers
    <3>2. composer = Closed
      BY <1>1, <3>1 DEF SentInv, ComposerShut
    <3> QED
      BY <1>1, <3>2 DEF ComposerShut
  <2>11. SavedAlone'
    BY <1>1, <1>2, <2>6, <2>7, InHand DEF SavedAlone, SavedHere
  <2>12. ASSUME NEW d \in Callers PROVE CallerKnows(d)'
    <3>1. CASE d = c
      <4>1. PICK j, k1 : j = Job(c) /\ k1 = task[c].got
        OBVIOUS
      <4>2. KnowsAt(c, "put", j, n, k1)'
        BY <1>1, <1>2, <2>4, <4>1 DEF KnowsAt, SavedLabels
      <4> QED
        BY <2>5, <3>1, <4>1, <4>2 DEF CallerKnows, Becomes, Msg, Job
    <3>2. CASE d # c
      <4>1. PICK l1, j1, m1, k1 : l1 = task[d].pc /\ j1 = Job(d) /\ m1 = Msg(d) /\ k1 = task[d].got
        OBVIOUS
      <4>2. KnowsAt(d, l1, j1, m1, k1)'
        BY <2>2, <4>1, KnowsStays DEF SentInv, ServerGoes, CallerKnows
      <4>3. (task[d].pc)' = l1 /\ Job(d)' = j1 /\ Msg(d)' = m1 /\ (task[d].got)' = k1
        BY <2>5, <3>2, <4>1 DEF LeavesOthers, Msg, Job
      <4> QED
        BY <4>2, <4>3 DEF CallerKnows
    <3> QED
      BY <3>1, <3>2
  <2> QED
    BY <1>1, <2>2, <2>9, <2>10, <2>11, <2>12 DEF SentInv, ServerGoes, KeepsDrafts
<1> QED
  BY <1>3, <1>4 DEF SaveScheduled

LEMMA ScheduleRefusedTells ==
  ASSUME Parts, NotSavedOver, SentInv, NEW c \in Callers, ScheduleRefused(c)
  PROVE  SentInv'
<1>1. /\ ~At(c, "idle") /\ Msg(c).raw /\ UNCHANGED told /\ ServerGoes /\ Done(c)
      /\ composer' = Msg(c).copy /\ row' = NoRow /\ At(c, "refused")
  BY RawThere, SameServerSent DEF ScheduleRefused, At, SavedLabels, Write
<1>2. c # Pass
  BY <1>1, KnowsNow DEF KnowsAt, At, PassLabels
<1> QED
  BY <1>1, <1>2, OpensSent

LEMMA TryTells ==
  ASSUME Parts, NotSavedOver, SentInv, NEW c \in Callers, Try(c)
  PROVE  SentInv'
<1>1. ~At(c, "idle") /\ UNCHANGED <<composer, told>> /\ ServerGoes /\ At(c, "try")
  BY SameServerSent DEF Try, At, person
<1>2. PICK r : r = row'
  OBVIOUS
<1>3. r = row \/ (row # NoRow /\ KinTo(r, row))
  <2>1. row # NoRow => row \in Row /\ (~row.raw => row.hold = "none")
    BY InHand DEF SentInv, MailKept, DraftKept
  <2>2. row # NoRow /\ r = [row EXCEPT !.tried = TRUE] => KinTo(r, row)
    BY <2>1 DEF Row, KinTo
  <2> QED
    BY <1>2, <2>2 DEF Try
<1>4. CASE Goto(c, "lookSent") /\ Msg(c).raw
  BY <1>1, <1>2, <1>3, <1>4, GotoSent DEF PassLabels
<1>5. CASE Goto(c, "send")
  BY <1>1, <1>2, <1>3, <1>5, GotoSent DEF PassLabels, SavedLabels
<1> QED
  BY <1>4, <1>5 DEF Try

LEMMA LookSentTells ==
  ASSUME Parts, NotSavedOver, SentInv, NEW c \in Callers, LookSent(c)
  PROVE  SentInv'
<1>1. /\ ~At(c, "idle") /\ UNCHANGED <<composer, told, row>> /\ Msg(c).raw /\ Msg(c) \in Row
      /\ UNCHANGED <<subs, hour, born, inSent, delivered>>
  BY RawThere, KnowsNow DEF LookSent, At, person, store, SavedLabels
<1>2. ASSUME inSent, place' = Destroyed(Msg(c).copy), Goto(c, "forget") PROVE SentInv'
  <2>1. PICK k \in 0..MaxCopies : k = Msg(c).copy
    BY <1>1 DEF Row
  <2>2. Out /\ Out'
    BY <1>1, <1>2 DEF SentInv, ServerKnows, Out
  <2>3. ServerGoes
    BY <1>1, <1>2, <2>1, <2>2, DestroyedDrafts DEF SentInv
  <2> QED
    BY <1>1, <1>2, <2>2, <2>3, GotoSent DEF SavedLabels, PassLabels
<1>3. ASSUME UNCHANGED place, Goto(c, "send") \/ Goto(c, "keep") \/ Goto(c, "stick") PROVE SentInv'
  <2>1. ServerGoes
    BY <1>1, <1>3, SameServerSent DEF server
  <2> QED
    BY <1>1, <1>3, <2>1, GotoSent DEF SavedLabels, PassLabels
<1> QED
  BY <1>2, <1>3 DEF LookSent

\* A saved draft that has gone went out.
LEMMA SendTells ==
  ASSUME Parts, NotSavedOver, SentInv, NEW c \in Callers, Send(c)
  PROVE  SentInv'
<1> DEFINE m == Msg(c)
           goes == m.raw \/ (m.copy # 0 /\ place[m.copy] # "gone" /\ ~inSent)
<1>1. /\ ~At(c, "idle") /\ UNCHANGED <<composer, told, row>> /\ Msg(c) \in Row /\ DraftKept(Msg(c))
      /\ UNCHANGED <<subs, hour, born>>
  BY KnowsNow DEF Send, At, person, store
<1>2. PICK k \in 0..MaxCopies : k = Msg(c).copy
  BY <1>1 DEF Row
<1>3. ASSUME goes, delivered' = OneMore(delivered),
             \/ place' = Destroyed(m.copy) /\ Goto(c, "forget")
             \/ Goto(c, "keep") /\ UNCHANGED place
      PROVE  SentInv'
  <2>1. ServerGoes /\ Out'
    BY <1>1, <1>2, <1>3, OutDrafts DEF SentInv
  <2> QED
    BY <1>1, <1>3, <2>1, GotoSent DEF SavedLabels, PassLabels
<1>4. ASSUME ~goes, delivered' = delivered, inSent' = inSent, place' = Destroyed(m.copy), Goto(c, "forget")
      PROVE  SentInv'
  <2>1. Out
    BY <1>1, <1>4 DEF DraftKept, SentInv, ServerKnows, Copies
  <2>2. ServerGoes /\ Out'
    BY <1>1, <1>2, <1>4, <2>1, DestroyedDrafts DEF SentInv, Out
  <2> QED
    BY <1>1, <1>4, <2>2, GotoSent DEF SavedLabels, PassLabels
<1>5. ASSUME UNCHANGED <<inSent, delivered, place>>, Goto(c, "keep") \/ Goto(c, "stick")
      PROVE  SentInv'
  <2>1. ServerGoes
    BY <1>1, <1>5, SameServerSent DEF server
  <2> QED
    BY <1>1, <1>5, <2>1, GotoSent DEF SavedLabels, PassLabels
<1>6. \/ /\ goes /\ delivered' = OneMore(delivered)
         /\ \/ place' = Destroyed(m.copy) /\ Goto(c, "forget")
            \/ Goto(c, "keep") /\ UNCHANGED place
      \/ ~goes /\ delivered' = delivered /\ inSent' = inSent /\ place' = Destroyed(m.copy) /\ Goto(c, "forget")
      \/ UNCHANGED <<inSent, delivered, place>> /\ (Goto(c, "keep") \/ Goto(c, "stick"))
  <2>1. inSent \in BOOLEAN
    BY DEF Parts, ServerOK
  <2> QED
    BY <2>1 DEF Send
<1> QED
  BY <1>3, <1>4, <1>5, <1>6

LEMMA ForgetTells ==
  ASSUME Parts, NotSavedOver, SentInv, NEW c \in Callers, Forget(c)
  PROVE  SentInv'
<1>1. ~At(c, "idle") /\ Done(c) /\ UNCHANGED composer /\ ServerGoes /\ At(c, "forget")
  BY SameServerSent DEF Forget, At, person
<1>2. Out'
  BY <1>1, KnowsNow DEF KnowsAt, At, ServerGoes, KeepsDrafts
<1>3. row' = row \/ row' = NoRow
  BY DEF Forget, Write, store
<1> QED
  BY <1>1, <1>2, <1>3, DoneSent

LEMMA KeepTells ==
  ASSUME Parts, NotSavedOver, SentInv, NEW c \in Callers, Keep(c)
  PROVE  SentInv'
<1>1. ~At(c, "idle") /\ Done(c) /\ UNCHANGED told /\ ServerGoes /\ Msg(c) \in Row /\ task[c].pc \in {"keep", "stick"}
  BY SameServerSent, KnowsNow DEF Keep, At
<1>2. CASE Job(c) = "post" /\ At(c, "stick")
  <2>1. Msg(c).raw /\ c # Pass
    BY <1>1, <1>2, KnowsNow DEF KnowsAt
  <2>2. composer' = Msg(c).copy /\ row' = row
    BY <1>2 DEF Keep, store
  <2> QED
    BY <1>1, <2>1, <2>2, OpensSent
<1>3. CASE ~(Job(c) = "post" /\ At(c, "stick"))
  <2>1. PICK u \in Row : u = Unheld(Msg(c))
    BY <1>1, UnheldType
  <2>2. u.raw = Msg(c).raw /\ u.copy = Msg(c).copy /\ u.hold = "none"
    BY <1>1, <2>1, RowKept
  <2>3. PICK r : r = [u EXCEPT !.tried = TRUE,
                         !.problem = IF At(c, "keep") THEN "retry" ELSE "stuck",
                         !.at = IF now < MaxTime THEN now + 1 ELSE MaxTime]
    OBVIOUS
  <2>4. r.raw = u.raw /\ r.copy = u.copy /\ r.hold = u.hold
    BY <2>3 DEF Row
  <2>5. KinTo(r, Msg(c))
    BY <2>2, <2>4 DEF KinTo
  <2>6. row' = r /\ UNCHANGED composer
    BY <1>3, <2>1, <2>3 DEF Keep, Write
  <2> QED
    BY <1>1, <2>5, <2>6, DoneSent
<1> QED
  BY <1>2, <1>3

LEMMA CallerDiesTells ==
  ASSUME Parts, NotSavedOver, SentInv, NEW c \in Callers, CallerDies(c)
  PROVE  SentInv'
<1>1. ~At(c, "idle") /\ Done(c) /\ UNCHANGED <<row, composer, told>> /\ ServerGoes
  BY SameServerSent DEF CallerDies, person, store
<1> QED
  BY <1>1, DoneSent

LEMMA SentStepTells ==
  ASSUME Parts, NotSavedOver, SentInv, NEW c \in Callers, Step(c)
  PROVE  SentInv'
BY TakeNamedTells, HandOverTells, TakeHoldTells, PutRowTells, SaveScheduledTells,
   ScheduleRefusedTells, PassDueTells, LookTells, AskTells, CalledBackTells, StoreTells, ReclaimTells,
   StuckTells, CalledTells, RestoreTells, ReopenedTells, RemoveRowTells, TryTells, LookSentTells,
   SendTells, ForgetTells, KeepTells DEF Step

LEMMA StartSent ==
  ASSUME Parts, NEW c \in Callers, NEW l, NEW j, NEW m, NEW w, Start(c, l, j, m, w)
  PROVE  LeavesOthers(c) /\ Becomes(c, l, j, m) /\ task'[c].got = 0
BY StartIs DEF Parts, TaskOK, Start

LEMMA PassStartTells ==
  ASSUME Parts, NotSavedOver, SentInv, PassStart
  PROVE  SentInv'
<1>1. UNCHANGED <<server, row, composer, told>> /\ row # NoRow /\ Pass \in Callers
  BY DEF PassStart, store, person, Callers
<1>2. LeavesOthers(Pass) /\ Becomes(Pass, "listed", "pass", row) /\ task'[Pass].got = 0
  BY <1>1, StartSent DEF PassStart
<1>3. KnowsAt(Pass, "listed", "pass", row, 0)
  BY DEF KnowsAt, SavedLabels, PassLabels
<1> QED
  BY <1>1, <1>2, <1>3, TakesSent

LEMMA PassClaimTells ==
  ASSUME Parts, NotSavedOver, SentInv, PassClaim
  PROVE  SentInv'
<1>1. UNCHANGED <<server, row, composer, told>> /\ Pass \in Callers /\ At(Pass, "listed") /\ ~At(Pass, "idle")
  BY DEF PassClaim, store, person, Callers, At
<1>2. CASE Done(Pass)
  BY <1>1, <1>2, SameServerSent, DoneSent
<1>3. CASE Carry(Pass, row, Route(row)) /\ row # NoRow
  <2>1. PICK l, k : l = Route(row) /\ k = task[Pass].got
    OBVIOUS
  <2>2. LeavesOthers(Pass) /\ Becomes(Pass, l, Job(Pass), row) /\ task'[Pass].got = k
    BY <1>1, <1>3, <2>1, CarryIs DEF Parts
  <2>3. Job(Pass) = "pass"
    BY <1>1, KnowsNow DEF KnowsAt, At
  <2>4. l \in {"look", "ask", "due"} /\ (~row.raw => l = "due")
    BY <1>3, <2>1, InHand DEF Route, SentInv, MailKept, DraftKept
  <2>5. KnowsAt(Pass, l, "pass", row, k)
    BY <2>4 DEF KnowsAt, SavedLabels, PassLabels
  <2> QED
    BY <1>1, <1>3, <2>2, <2>3, <2>5, TakesSent
<1> QED
  BY <1>2, <1>3 DEF PassClaim, Claimable

LEMMA NameTells ==
  ASSUME Parts, NotSavedOver, SentInv, NEW c \in People, NEW j, NEW w, Name(c, j, w),
         j \notin {"schedule", "post"}
  PROVE  SentInv'
<1>1. UNCHANGED <<server, row, composer, told>> /\ c \in Callers /\ row # NoRow
  BY DEF Name, store, Callers
<1>2. LeavesOthers(c) /\ Becomes(c, "named", j, row) /\ task'[c].got = 0
  BY <1>1, StartSent DEF Name
<1>3. KnowsAt(c, "named", j, row, 0)
  BY SendLaterAssumption DEF KnowsAt, SavedLabels
<1> QED
  BY <1>1, <1>2, <1>3, TakesSent

\* A person who begins with the message of the composer.
LEMMA BeginsSent ==
  ASSUME Parts, SentInv, composer # Closed, UNCHANGED <<server, told>>, composer' = Closed,
         NEW c \in People, NEW l, NEW j, NEW n, NEW w, Start(c, l, j, n, w),
         l \in {"handing", "try"}, n.raw, n.copy = composer \/ (row # NoRow /\ n.copy = row.copy),
         row' \in {row, n}
  PROVE  SentInv'
<1>1. ServerGoes /\ c \in Callers /\ \A m \in Messages : m.raw
  BY SameServerSent DEF SentInv, ComposerShut, Callers
<1>2. LeavesOthers(c) /\ Becomes(c, l, j, n) /\ task'[c].got = 0
  BY <1>1, StartSent
<1>3. KnowsAt(c, l, j, n, 0)'
  BY SendLaterAssumption DEF KnowsAt
<1>4. PICK k : k = n.copy
  OBVIOUS
<1>5. Known(k)'
  <2>1. Known(k) /\ k \in 0..MaxCopies
    BY <1>4, InHand DEF SentInv, MailKept, DraftKept, Parts, PersonOK, Row
  <2> QED
    BY <1>1, <2>1 DEF Known, ServerGoes, KeepsDrafts, Copies
<1>6. told' => Out'
  BY <1>1 DEF SentInv, ServerGoes, KeepsDrafts
<1>7. PICK r : r = row'
  OBVIOUS
<1> QED
  BY <1>1, <1>2, <1>3, <1>4, <1>5, <1>6, <1>7, SentRaw

LEMMA ScheduleTells ==
  ASSUME Parts, NotSavedOver, SentInv, NEW c \in People, NEW at \in Time, Schedule(c, at)
  PROVE  SentInv'
<1>1. PICK n : n = Marked(Plain(at, composer), now)
  OBVIOUS
<1>2. n.raw /\ n.copy = composer
  <2>1. composer \in 0..MaxCopies /\ now \in Time
    BY DEF Schedule, Parts, PersonOK, RestOK
  <2>2. Plain(at, composer) \in Row /\ Plain(at, composer).raw /\ Plain(at, composer).copy = composer
    BY <2>1, PlainType DEF Plain
  <2> QED
    BY <1>1, <2>1, <2>2, RowKept
<1>3. /\ composer # Closed /\ UNCHANGED <<server, told>> /\ composer' = Closed
      /\ Start(c, "handing", "schedule", n, at) /\ row' = n
  BY <1>1 DEF Schedule, Write
<1> QED
  BY <1>2, <1>3, BeginsSent

LEMMA PostTells ==
  ASSUME Parts, NotSavedOver, SentInv, NEW c \in People, Post(c)
  PROVE  SentInv'
<1>1. PICK n : n = Plain(now, composer)
  OBVIOUS
<1>2. n.raw /\ n.copy = composer
  BY <1>1 DEF Plain
<1>3. /\ composer # Closed /\ UNCHANGED <<server, told>> /\ composer' = Closed
      /\ Start(c, "try", "post", n, 0) /\ row' = row
  BY <1>1 DEF Post, store
<1> QED
  BY <1>2, <1>3, BeginsSent

LEMMA HoldUnchangedTells ==
  ASSUME Parts, NotSavedOver, SentInv, NEW c \in People, HoldUnchanged(c)
  PROVE  SentInv'
<1>1. UNCHANGED <<server, told>> /\ composer' = Closed /\ row # NoRow /\ composer = row.copy /\ row \in Row
  BY DEF HoldUnchanged, Parts, StoreOK
<1>2. composer # Closed
  BY <1>1, SendLaterAssumption DEF Row, Closed
<1>3. ASSUME Write(Marked(row, now)), Start(c, "handing", "unchanged", Marked(row, now), row.at)
      PROVE  SentInv'
  <2>1. PICK n, w : n = Marked(row, now) /\ w = row.at
    OBVIOUS
  <2>2. n.copy = row.copy /\ n.raw = row.raw /\ row.raw
    BY <1>1, <1>2, <2>1, RowKept, InHand DEF Parts, RestOK, SentInv, ComposerShut
  <2>3. Start(c, "handing", "unchanged", n, w) /\ row' = n
    BY <1>3, <2>1 DEF Write
  <2> QED
    BY <1>1, <1>2, <2>2, <2>3, BeginsSent
<1>4. ASSUME UNCHANGED <<store, task>> PROVE SentInv'
  BY <1>1, <1>4, SameServerSent, SentWorld DEF store
<1> QED
  BY <1>3, <1>4 DEF HoldUnchanged

LEMMA AdoptTells ==
  ASSUME Parts, NotSavedOver, SentInv, NEW k \in Copies, Adopt(k)
  PROVE  SentInv'
<1>1. /\ UNCHANGED <<row, composer, told, subs, hour, delivered>> /\ row = NoRow /\ place[k] = "held"
      /\ Pass \in Callers
  BY DEF Adopt, store, person, Callers
<1>2. CASE subs[k] = "pending"
  <2>1. UNCHANGED server
    BY <1>2 DEF Adopt, server
  <2>2. PICK n : n = Adopted(Plain(hour[k], k), k)
    OBVIOUS
  <2>3. n.raw /\ n.copy = k
    <3>1. Plain(hour[k], k) \in Row /\ Plain(hour[k], k).raw
      BY PlainType DEF Parts, ServerOK, Plain, Copies
    <3> QED
      BY <2>2, <3>1, RowKept DEF Copies
  <2>4. LeavesOthers(Pass) /\ Becomes(Pass, "put", "pass", n) /\ task'[Pass].got = 0
    BY <1>1, <1>2, <2>2, StartSent DEF Adopt
  <2>5. ServerGoes
    BY <2>1, SameServerSent
  <2>6. \A m \in Messages : m.raw
    <3>1. \A c \in Callers : At(c, "idle")
      BY DEF Adopt, Quiet
    <3> QED
      BY <1>1, <3>1, RawThere DEF At, SavedLabels, Messages
  <2>7. KnowsAt(Pass, "put", "pass", n, 0)'
    BY <2>3 DEF KnowsAt, PassLabels
  <2>8. Known(n.copy)'
    BY <1>1, <2>1, <2>3 DEF Known, server
  <2>9. composer' # Closed => Known(composer)' /\ \A p \in People : Job(p)' # "schedule"
    BY <1>1, <2>1, <2>4, SendLaterAssumption
       DEF SentInv, ComposerShut, Known, server, LeavesOthers, Job, Callers
  <2>10. told' => Out'
    BY <2>5, <1>1 DEF SentInv, ServerGoes, KeepsDrafts
  <2> QED
    BY <1>1, <2>3, <2>4, <2>5, <2>6, <2>7, <2>8, <2>9, <2>10, SentRaw
<1>3. CASE subs[k] # "pending"
  <2>1. /\ place' = (IF subs[k] = "final" THEN Filed(k) ELSE TakenOff(k)) /\ UNCHANGED task
        /\ inSent' = (inSent \/ subs[k] = "final")
    BY <1>3 DEF Adopt
  <2>2. CASE subs[k] = "final"
    <3>1. Out
      BY <2>2 DEF SentInv, ServerKnows
    <3> QED
      BY <1>1, <2>1, <2>2, <3>1, FiledDrafts, SentWorld DEF SentInv
  <2>3. CASE subs[k] # "final"
    <3>1. inSent' = inSent
      BY <2>1, <2>3 DEF Parts, ServerOK
    <3> QED
      BY <1>1, <2>1, <2>3, <3>1, TakenOffDrafts, SentWorld DEF SentInv
  <2> QED
    BY <2>2, <2>3
<1> QED
  BY <1>2, <1>3

LEMMA AskedTells ==
  ASSUME Parts, NotSavedOver, SentInv, Asked
  PROVE  SentInv'
<1>1. ~SaveEdit /\ ~DraftSaved
  BY DEF SaveEdit, DraftSaved, NotSavedOver
<1> QED
  BY <1>1, NameTells, ScheduleTells, PostTells, HoldUnchangedTells
     DEF Asked, SendNow, Cancel, Edit, Drop, NewHour

\* The server sends, here or for another install, and forgets.
LEMMA ServerStepTells ==
  ASSUME Parts, SentInv, NEW k \in Copies,
         ServerSends(k) \/ ServerForgets(k) \/ OtherCancels(k) \/ OtherDeletes(k) \/ OtherSends(k)
  PROVE  SentInv'
<1>1. UNCHANGED <<task, row, told, composer>>
  BY DEF ServerSends, ServerForgets, OtherCancels, OtherDeletes, OtherSends, store, person
<1>2. SUFFICES ServerGoes
  BY <1>1, SentWorld
<1>3. k \in 0..MaxCopies
  BY DEF Copies
<1>4. CASE ServerSends(k)
  <2>1. Out' /\ UNCHANGED <<place, hour, inSent>> /\ subs[k] = "pending"
    BY <1>4 DEF ServerSends, Out, OneMore
  <2>2. \A j \in Copies : subs'[j] = subs[j] \/ (j = k /\ subs'[j] = "final")
    BY <1>4 DEF ServerSends, Parts, ServerOK
  <2> QED
    BY <2>1, <2>2 DEF SentInv, ServerGoes, KeepsDrafts, ServerKnows, Ever
<1>5. CASE ServerForgets(k)
  <2>1. UNCHANGED <<place, hour, inSent, delivered>>
    BY <1>5 DEF ServerForgets
  <2>2. \A j \in Copies : subs'[j] = subs[j] \/ subs'[j] = "none"
    BY <1>5 DEF ServerForgets, Parts, ServerOK
  <2> QED
    BY <2>1, <2>2 DEF SentInv, ServerGoes, KeepsDrafts, ServerKnows, Ever, Out
<1>6. CASE OtherCancels(k)
  BY <1>6, TakenOffDrafts DEF SentInv, OtherCancels
<1>7. CASE OtherDeletes(k)
  <2>1. subs[k] = "theirs" /\ Ever(k) /\ UNCHANGED <<subs, hour, inSent, delivered>> /\ place' = Destroyed(k)
    BY <1>7 DEF OtherDeletes, SentInv, ServerKnows
  <2>2. \A j \in Copies : place'[j] = IF j = k THEN "gone" ELSE place[j]
    BY <1>3, <1>7, SendLaterAssumption DEF OtherDeletes, Destroyed, Parts, ServerOK, Copies
  <2>3. ASSUME NEW m \in Messages, ~m.raw, place[m.copy] = "draft" PROVE place'[m.copy] = "draft"
    BY <2>1, <2>2, <2>3 DEF SentInv, MailKept, DraftKept
  <2> QED
    BY <2>1, <2>2, <2>3 DEF SentInv, ServerGoes, KeepsDrafts, ServerKnows, Ever, Out
<1>8. CASE OtherSends(k)
  BY <1>3, <1>8, OutDrafts DEF SentInv, OtherSends
<1> QED
  BY <1>4, <1>5, <1>6, <1>7, <1>8

LEMMA CrashTells ==
  ASSUME Parts, SentInv, Crash
  PROVE  SentInv'
<1>1. \A c \in Callers : task'[c] = Idle
  BY DEF Crash
<1>2. UNCHANGED <<row, server, told>> /\ composer' = Closed
  BY DEF Crash, store
<1>3. PICK n : n = Plain(0, 0)
  OBVIOUS
<1>4. n.raw /\ n.copy = 0
  BY <1>3 DEF Plain
<1>5. \A c \in Callers : (task[c].pc)' = "idle" /\ Job(c)' = "none" /\ Msg(c)' = n /\ (task[c].got)' = 0
  BY <1>1, <1>3 DEF Idle, Job, Msg
<1>6. Messages' \subseteq {n} \cup Messages
  BY <1>2, <1>5 DEF Messages
<1>7. \A m \in Messages : DraftKept(m)'
  BY <1>2 DEF SentInv, MailKept, DraftKept, Known, Ever, Out, server
<1>8. DraftKept(n)'
  BY <1>4 DEF DraftKept, Known
<1>9. MailKept'
  BY <1>2, <1>4, <1>6, <1>7, <1>8 DEF SentInv, MailKept, DraftKept, Copies, Out, server
<1>10. \A c \in Callers : CallerKnows(c)'
  BY <1>4, <1>5 DEF CallerKnows, KnowsAt
<1>11. SavedAlone' /\ ComposerShut'
  <2>1. \A p \in People : At(p, "idle")'
    BY <1>5 DEF At, Callers
  <2>2. Msg(Pass)'.raw
    BY <1>4, <1>5 DEF Callers
  <2> QED
    BY <1>2, <2>1, <2>2 DEF SavedAlone, SavedHere, ComposerShut
<1>12. ServerGoes
  BY <1>2, SameServerSent
<1> QED
  BY <1>2, <1>9, <1>10, <1>11, <1>12 DEF SentInv, ServerGoes, KeepsDrafts

LEMMA InitTells == Init => SentInv
<1> SUFFICES ASSUME Init PROVE SentInv
  OBVIOUS
<1>1. PICK n : n = Plain(0, 0)
  OBVIOUS
<1>2. n.raw /\ n.copy = 0
  BY <1>1 DEF Plain
<1>3. \A c \in Callers : task[c].pc = "idle" /\ Job(c) = "none" /\ Msg(c) = n
  BY <1>1 DEF Init, Idle, Job, Msg
<1>4. Messages \subseteq {n} /\ row = NoRow
  BY <1>3 DEF Messages, Init
<1>5. MailKept
  BY <1>2, <1>4 DEF MailKept, DraftKept, Known
<1>6. \A c \in Callers : CallerKnows(c)
  BY <1>2, <1>3 DEF CallerKnows, KnowsAt
<1>7. SavedAlone /\ ComposerShut
  BY <1>2, <1>3, <1>4 DEF SavedAlone, SavedHere, ComposerShut, At, Callers
<1>8. ServerKnows
  <2>1. \A k \in Copies : /\ place[k] \in {"unmade", "draft", "held"}
                          /\ subs[k] = (IF place[k] = "held" THEN "pending" ELSE "none")
                          /\ hour[k] = (IF place[k] = "held" THEN 2 ELSE 0)
    BY DEF Init
  <2>2. ~inSent
    BY DEF Init
  <2> QED
    BY <2>1, <2>2 DEF ServerKnows, Ever
<1>9. composer # Closed => Known(composer)
  BY SendLaterAssumption DEF Init, Known, Closed, Copies
<1> QED
  BY <1>5, <1>6, <1>7, <1>8, <1>9 DEF SentInv, Init

LEMMA NextTells == Parts /\ NotSavedOver /\ SentInv /\ [Next]_vars => SentInv'
<1> SUFFICES ASSUME Parts, NotSavedOver, SentInv, [Next]_vars PROVE SentInv'
  OBVIOUS
<1>1. CASE PassStep
  BY <1>1, PassStartTells, PassClaimTells, AdoptTells DEF PassStep
<1>2. CASE \E c \in Callers : Step(c)
  BY <1>2, SentStepTells
<1>3. CASE Asked
  BY <1>3, AskedTells
<1>4. CASE Environment
  <2>1. CASE Tick
    BY <2>1, SameServerSent, SentWorld DEF Tick, store, person
  <2> QED
    BY <1>4, <2>1, CrashTells, CallerDiesTells, ServerStepTells DEF Environment
<1>5. CASE UNCHANGED vars
  BY <1>5, SameServerSent, SentWorld DEF vars, server
<1> QED
  BY <1>1, <1>2, <1>3, <1>4, <1>5 DEF Next

\* SentIsDelivered: what the outbox reports as sent has been sent, here or by
\* the server, however holds, passes, requests, other installs and failures
\* interleave (`told` is set where forget and forget_sent end a try, or a look
\* that found the message gone; see went_out and sent_copy).
THEOREM ReportedSentHasGone == NotSavedOver => (Spec => []SentIsDelivered)
<1> SUFFICES ASSUME NotSavedOver PROVE Spec => []SentIsDelivered
  OBVIOUS
<1>1. Init => Parts /\ SentInv
  BY InitType, InitTells
<1>2. Parts /\ SentInv /\ [Next]_vars => (Parts /\ SentInv)'
  BY NextType, NextTells
<1>3. SentInv => SentIsDelivered
  BY DEF SentInv, SentIsDelivered, Out
<1> QED
  BY <1>1, <1>2, <1>3, PTL DEF Spec

----------------------------------------------------------------------------
(* Nothing is lost.                                                        *)

\* One caller at a time, and no other install deletes what it canceled. (A
\* composer or Send Now may have its only copy of the message by then.)
NoneDeletes == ClaimsHeeded /\ "deletes" \notin Others

\* The server made a copy; one is in Drafts still; one is there beside `j`.
AnyMade == \E k \in Copies : place[k] # "unmade"
There(k) == place[k] \in {"draft", "held"}
Beside(j) == \E k \in Copies : k # j /\ There(k)

\* Sent, a filed copy and a submission that is over say that it went.
ServerSays == /\ inSent => Out
              /\ \A k \in Copies : subs[k] = "final" \/ place[k] = "sent" => Out

\* Once made, a draft is there until the message went out.
Kept == AnyMade => Out \/ Beside(0)

\* A caller about to drop the copy its row stands for leaves another.
LeavesOne(l, m, k) == l \in {"holding", "found"} /\ m.copy # k => Out \/ Beside(m.copy)
\* A row is dropped for a message that went, or with a draft on the server.
KeepsOne(l, j) ==
    /\ l = "forget" => Out \/ AnyMade
    /\ j = "pass" /\ l \in {"fate", "remove"} => AnyMade
    /\ l = "restore" => j = "edit"
    /\ l \in {"fate", "store", "reclaim"} => j # "drop"
    /\ l # "unsaved"

Cares == {"send", "edit", "cancel"}
KeptInv ==
    /\ ServerSays /\ Kept
    /\ \A c \in Callers : /\ LeavesOne(task[c].pc, Msg(c), task[c].got)
                          /\ KeepsOne(task[c].pc, Job(c))
                          /\ Msg(c).raw \/ AnyMade
    /\ row # NoRow => row.raw \/ AnyMade
    /\ intent \in Cares => row # NoRow \/ Out \/ AnyMade

\* What a step does to the server's side of it.
ServerKeeps == /\ ServerSays' /\ Kept'
               /\ Out => Out'
               /\ AnyMade => AnyMade'
Spares == \A j \in 0..MaxCopies : Known(j) /\ Beside(j) => Out' \/ Beside(j)'

LEMMA SameKeeps ==
  ASSUME KeptInv, UNCHANGED server
  PROVE  ServerKeeps /\ Spares
BY DEF server, KeptInv, ServerKeeps, Spares, ServerSays, Kept, Out, AnyMade, Beside, There

\* Steps that leave in Drafts what was there, or that the message went out by.
LEMMA StillThere ==
  ASSUME KeptInv, ServerSays', AnyMade' => AnyMade, AnyMade => AnyMade', Out => Out',
         Out' \/ \A k \in Copies : There(k) => There(k)'
  PROVE  ServerKeeps /\ Spares
<1>1. ASSUME NEW j, Beside(j) PROVE Out' \/ Beside(j)'
  BY <1>1 DEF Beside
<1>2. Beside(0) => Out' \/ Beside(0)'
  BY <1>1
<1>3. Kept'
  BY <1>2 DEF KeptInv, Kept
<1> QED
  BY <1>1, <1>3 DEF ServerKeeps, Spares

LEMMA DestroysKept ==
  ASSUME Parts, KeptInv, NEW k \in 0..MaxCopies, Out', place' \in {place, Destroyed(k)}, UNCHANGED subs
  PROVE  ServerKeeps /\ Spares
<1>1. \A j \in Copies : place'[j] = place[j] \/ (There(j) /\ place'[j] = "gone")
  BY DEF Destroyed, Parts, ServerOK, There
<1>2. AnyMade' <=> AnyMade
  BY <1>1 DEF AnyMade, There
<1>3. ServerSays'
  BY DEF ServerSays
<1> QED
  BY <1>2, <1>3, StillThere

LEMMA HoldKept ==
  ASSUME Parts, KeptInv, NEW k \in Copies, NEW a, MakeHold(k, a)
  PROVE  ServerKeeps /\ Spares /\ AnyMade' /\ There(k)' /\ place[k] = "unmade"
<1>1. /\ \A j \in Copies : /\ place'[j] = IF j = k THEN "held" ELSE place[j]
                           /\ subs'[j] = IF j = k THEN "pending" ELSE subs[j]
      /\ place[k] = "unmade" /\ UNCHANGED <<inSent, delivered>>
  BY DEF MakeHold, IsNew, Parts, ServerOK
<1>2. There(k)' /\ AnyMade' /\ k # 0
  BY <1>1 DEF There, AnyMade, Copies
<1>3. Kept'
  BY <1>2 DEF Kept, Beside
<1>4. ServerSays'
  BY <1>1 DEF KeptInv, ServerSays, Out
<1>5. \A j \in Copies : There(j) => There(j)'
  BY <1>1 DEF There
<1>6. Spares
  BY <1>5 DEF Spares, Beside
<1> QED
  BY <1>1, <1>2, <1>3, <1>4, <1>6 DEF ServerKeeps, Out

LEMMA SaveKept ==
  ASSUME Parts, KeptInv, NEW k \in Copies, NEW old \in 0..MaxCopies, SaveOver(k, old)
  PROVE  ServerKeeps /\ Spares /\ AnyMade' /\ There(k)'
<1>1. Destroyed(old) \in [Copies -> Places]
  BY DestroyedType DEF Parts, ServerOK
<1>2. /\ \A j \in Copies : place'[j] = IF j = k THEN "draft" ELSE Destroyed(old)[j]
      /\ place[k] = "unmade" /\ UNCHANGED <<subs, inSent, delivered>>
  BY <1>1 DEF SaveOver, IsNew
<1>3. \A j \in Copies : Destroyed(old)[j] \in {place[j], "gone"}
  BY DEF Destroyed, Parts, ServerOK
<1>4. There(k)' /\ AnyMade' /\ k # 0
  BY <1>2 DEF There, AnyMade, Copies
<1>5. Kept'
  BY <1>4 DEF Kept, Beside
<1>6. ServerSays'
  BY <1>2, <1>3 DEF KeptInv, ServerSays, Out
<1>7. Spares
  BY <1>2, <1>4 DEF Spares, Beside, Known
<1> QED
  BY <1>2, <1>4, <1>5, <1>6, <1>7 DEF ServerKeeps, Out

LEMMA TakenOffKept ==
  ASSUME Parts, KeptInv, NEW k \in Copies, place' \in {place, TakenOff(k)},
         \A j \in Copies : subs'[j] = "final" => subs[j] = "final", UNCHANGED <<inSent, delivered>>
  PROVE  ServerKeeps /\ Spares
<1>1. \A j \in Copies : place'[j] = place[j] \/ (There(j) /\ place'[j] = "draft")
  BY DEF TakenOff, Parts, ServerOK, There
<1>2. (AnyMade' <=> AnyMade) /\ \A j \in Copies : There(j) => There(j)'
  BY <1>1 DEF AnyMade, There
<1>3. ServerSays'
  BY <1>1 DEF KeptInv, ServerSays, Out
<1> QED
  BY <1>2, <1>3, StillThere DEF Out

LEMMA FiledKept ==
  ASSUME Parts, KeptInv, NEW k \in Copies, Out, place' \in {place, Filed(k)}, place[k] # "unmade",
         UNCHANGED <<subs, delivered>>
  PROVE  ServerKeeps /\ Spares
<1>1. Out'
  BY DEF Out
<1>2. \A j \in Copies : place'[j] = place[j] \/ (j = k /\ place'[j] = "sent")
  BY DEF Filed, Parts, ServerOK
<1>3. AnyMade' <=> AnyMade
  BY <1>2 DEF AnyMade
<1>4. ServerSays'
  BY <1>1 DEF ServerSays
<1> QED
  BY <1>1, <1>3, <1>4, StillThere

----------------------------------------------------------------------------
(* What a step of a caller leaves of it.                                   *)

LEMMA KeptStep ==
  ASSUME Parts, HoldInv, KeptInv, ServerKeeps, NEW c \in Callers, LeavesOthers(c),
         Spares \/ \A d \in Callers \ {c} : task[d].pc \notin {"holding", "found"},
         NEW l, NEW j, NEW n, NEW k, Becomes(c, l, j, n), task'[c].got = k,
         LeavesOne(l, n, k)', KeepsOne(l, j)', n.raw \/ AnyMade',
         row' # NoRow => row'.raw \/ AnyMade' \/ (row # NoRow /\ row'.raw = row.raw),
         row' = NoRow => row = NoRow \/ Out' \/ AnyMade' \/ intent' \notin Cares,
         intent' = intent \/ row' # NoRow \/ intent' \notin Cares
  PROVE  KeptInv'
<1>1. ASSUME NEW d \in Callers
      PROVE  /\ LeavesOne(task[d].pc, Msg(d), task[d].got)'
             /\ KeepsOne(task[d].pc, Job(d))'
             /\ (Msg(d).raw \/ AnyMade)'
  <2>1. CASE d = c
    BY <2>1 DEF Becomes, Msg, Job
  <2>2. CASE d # c
    <3>1. task'[d] = task[d] /\ Msg(d)' = Msg(d) /\ Job(d)' = Job(d)
      BY <2>2 DEF LeavesOthers, Msg, Job
    <3>2. LeavesOne(task[d].pc, Msg(d), task[d].got)'
      <4>1. SUFFICES ASSUME task[d].pc \in {"holding", "found"}, Msg(d).copy # task[d].got
                     PROVE  Out' \/ Beside(Msg(d).copy)'
        BY <3>1 DEF LeavesOne
      <4>2. PICK i : i = Msg(d).copy
        OBVIOUS
      <4>3. i \in 0..MaxCopies /\ Known(i) /\ (Out \/ Beside(i))
        BY <4>1, <4>2, CallerNow DEF KeptInv, LeavesOne, SettledAt, Settled, Known
      <4>4. Out' \/ Beside(i)'
        BY <2>2, <4>1, <4>3 DEF Spares, ServerKeeps
      <4> QED
        BY <3>1, <4>2, <4>4
    <3>3. KeepsOne(task[d].pc, Job(d))'
      BY <3>1 DEF KeepsOne, KeptInv, ServerKeeps
    <3>4. (Msg(d).raw \/ AnyMade)'
      BY <3>1 DEF KeptInv, ServerKeeps
    <3> QED
      BY <3>2, <3>3, <3>4
  <2> QED
    BY <2>1, <2>2
<1>2. row' # NoRow => row'.raw \/ AnyMade'
  BY DEF KeptInv, ServerKeeps
<1>3. intent' \in Cares => row' # NoRow \/ Out' \/ AnyMade'
  BY DEF KeptInv, ServerKeeps
<1> QED
  BY <1>1, <1>2, <1>3 DEF KeptInv, ServerKeeps

LEMMA KeptNow ==
  ASSUME Parts, KeptInv, NEW c \in Callers
  PROVE  /\ LeavesOne(task[c].pc, Msg(c), task[c].got) /\ KeepsOne(task[c].pc, Job(c))
         /\ Msg(c).raw \/ AnyMade
         /\ Msg(c) \in Row /\ Job(c) \in Work
BY CallerType DEF KeptInv, Parts

\* What a caller has to bring to `l`, doing `j`.
Brings(l, j) ==
    /\ l = "forget" => Out' \/ AnyMade'
    /\ j = "pass" /\ l \in {"fate", "remove"} => AnyMade'
    /\ l = "restore" => j = "edit"
    /\ l \in {"fate", "store", "reclaim"} => j # "drop"
    /\ l \notin {"unsaved", "holding", "found"}

\* The row stays, or is written; or goes when nobody cares, or need not.
RowGoesOn ==
    /\ row' # NoRow => row'.raw \/ AnyMade' \/ (row # NoRow /\ row'.raw = row.raw)
    /\ row' = NoRow => row = NoRow \/ Out' \/ AnyMade' \/ intent' \notin Cares
    /\ intent' = intent \/ row' # NoRow \/ intent' \notin Cares

LEMMA GoesKept ==
  ASSUME Parts, HoldInv, KeptInv, ServerKeeps, NEW c \in Callers, LeavesOthers(c),
         Spares \/ \A d \in Callers \ {c} : task[d].pc \notin {"holding", "found"},
         NEW l, NEW j, NEW n, Becomes(c, l, j, n), n.raw \/ AnyMade', Brings(l, j), RowGoesOn
  PROVE  KeptInv'
<1>1. PICK k : k = task'[c].got
  OBVIOUS
<1>2. KeepsOne(l, j)' /\ LeavesOne(l, n, k)'
  BY DEF Brings, KeepsOne, LeavesOne
<1> QED
  BY <1>1, <1>2, KeptStep DEF RowGoesOn

\* One that goes on with its message, as it is or written anew.
LEMMA GotoKept ==
  ASSUME Parts, HoldInv, KeptInv, ServerKeeps, Spares, NEW c \in Callers, NEW l, Goto(c, l),
         Brings(l, Job(c)), RowGoesOn
  PROVE  KeptInv'
BY GotoIs, KeptNow, GoesKept DEF Parts, ServerKeeps

LEMMA CarryKept ==
  ASSUME Parts, HoldInv, KeptInv, ServerKeeps, Spares, NEW c \in Callers, NEW l, NEW n, Carry(c, n, l),
         n.raw = Msg(c).raw \/ AnyMade', Brings(l, Job(c)), RowGoesOn
  PROVE  KeptInv'
<1>1. n.raw \/ AnyMade'
  BY KeptNow DEF ServerKeeps
<1> QED
  BY <1>1, CarryIs, GoesKept DEF Parts

LEMMA DoneKept ==
  ASSUME Parts, HoldInv, KeptInv, ServerKeeps, Spares, NEW c \in Callers, Done(c), RowGoesOn
  PROVE  KeptInv'
<1>1. LeavesOthers(c) /\ Becomes(c, "idle", "none", Plain(0, 0)) /\ Plain(0, 0).raw
  BY DoneIs DEF Parts, Plain
<1>2. Brings("idle", "none")
  BY DEF Brings
<1> QED
  BY <1>1, <1>2, GoesKept

\* The row and what the person heard stay, or the row is the caller's message.
LEMMA RowSame == ASSUME UNCHANGED <<row, intent>> PROVE RowGoesOn
BY DEF RowGoesOn

LEMMA RowWrites ==
  ASSUME Parts, KeptInv, ServerKeeps, NEW c \in Callers, NEW r \in Row, row' = r, r.raw = Msg(c).raw
  PROVE  RowGoesOn
BY KeptNow, SendLaterAssumption DEF RowGoesOn, ServerKeeps

\* A caller that lets go, or leaves all but its label.
LEMMA LetGoKept ==
  ASSUME Parts, HoldInv, KeptInv, ServerKeeps, Spares, NEW c \in Callers, LetGo(c), UNCHANGED intent
  PROVE  KeptInv'
BY RowSame, DoneKept DEF LetGo

\* Where this scope keeps a caller.
LEMMA KeptHere ==
  ASSUME Parts, ClaimsHeeded, One, KeptInv, NEW c \in Callers
  PROVE  /\ FitsJob(c, task[c].pc, Job(c)) /\ KeepsOne(task[c].pc, Job(c))
         /\ ~At(c, "unsaved") /\ ~At(c, "called")
         /\ c = Pass /\ ~At(c, "idle") => Job(c) = "pass"
         /\ At(c, "restore") => c # Pass
         /\ c # Pass => c \in People
BY KeptNow, OneNow DEF FitsJob, KeepsOne, At

----------------------------------------------------------------------------
(* Each step of a caller.                                                  *)

LEMMA TakeNamedKept ==
  ASSUME Parts, HoldInv, ClaimsHeeded, One, KeptInv, NEW c \in Callers, TakeNamed(c)
  PROVE  KeptInv'
<1> DEFINE held == Msg(c).hold # "none"
           m == IF Job(c) = "sendNow" THEN Msg(c) ELSE row
           label == CASE held -> IF m.hold = "mark" THEN "look" ELSE "ask"
                      [] ~held /\ Job(c) = "sendNow" -> "try"
                      [] ~held /\ Job(c) # "sendNow" /\ m.copy = 0 -> "saving"
                      [] OTHER -> "remove"
<1>1. /\ UNCHANGED <<server, row, intent>> /\ At(c, "named") /\ ServerKeeps /\ Spares /\ RowGoesOn
      /\ Job(c) # "pass"
  <2>1. UNCHANGED <<server, row, intent>> /\ At(c, "named")
    BY DEF TakeNamed, person, Carry, Done, Goto, store
  <2>2. Job(c) # "pass"
    BY <2>1, OneNow DEF FitsJob, At
  <2> QED
    BY <2>1, <2>2, SameKeeps, RowSame
<1>2. CASE Goto(c, "remove")
  BY <1>1, <1>2, GotoKept DEF Brings
<1>3. CASE Done(c)
  BY <1>1, <1>3, DoneKept
<1>4. CASE Carry(c, m, label) /\ row # NoRow
  <2>1. PICK l, n : l = label /\ n = m
    OBVIOUS
  <2>2. l \in {"look", "ask", "try", "saving", "remove"}
    BY <2>1
  <2>3. n.raw = Msg(c).raw \/ AnyMade'
    <3>1. n = Msg(c) \/ n = row
      BY <2>1
    <3>2. (Msg(c).raw \/ AnyMade) /\ (row.raw \/ AnyMade) /\ Msg(c).raw \in BOOLEAN /\ row.raw \in BOOLEAN
      BY <1>4, KeptNow DEF KeptInv, Row, Parts, StoreOK
    <3> QED
      BY <1>1, <3>1, <3>2 DEF ServerKeeps
  <2>4. Brings(l, Job(c))
    BY <1>1, <2>2 DEF Brings
  <2> QED
    BY <1>1, <1>4, <2>1, <2>3, <2>4, CarryKept
<1> QED
  BY <1>2, <1>3, <1>4 DEF TakeNamed, Claimable

LEMMA HandOverKept ==
  ASSUME Parts, HoldInv, ClaimsHeeded, One, KeptInv, NEW c \in Callers, HandOver(c)
  PROVE  KeptInv'
<1>1. UNCHANGED <<row, intent>> /\ At(c, "handing") /\ RowGoesOn /\ Msg(c) \in Row /\ now \in Time
  BY RowSame, KeptNow DEF HandOver, store, person, Parts, RestOK
<1>2. ASSUME Carry(c, Unheld(Msg(c)), "saving") \/ Carry(c, Unheld(Msg(c)), "put"), UNCHANGED server
      PROVE  KeptInv'
  <2>1. PICK n : n = Unheld(Msg(c))
    OBVIOUS
  <2>2. n.raw = Msg(c).raw
    BY <1>1, <2>1, RowKept
  <2>3. Brings("saving", Job(c)) /\ Brings("put", Job(c))
    BY DEF Brings
  <2> QED
    BY <1>1, <1>2, <2>1, <2>2, <2>3, SameKeeps, CarryKept
<1>3. ASSUME NEW k \in Copies, MakeHold(k, Msg(c).at), task' = [task EXCEPT ![c].got = k, ![c].pc = "holding"]
      PROVE  KeptInv'
  <2>1. LeavesOthers(c) /\ Becomes(c, "holding", Job(c), Msg(c)) /\ task'[c].got = k
    BY <1>3 DEF Parts, TaskOK, Task, LeavesOthers, Becomes, Job, Msg
  <2>2. ServerKeeps /\ Spares /\ There(k)' /\ place[k] = "unmade"
    BY <1>3, HoldKept
  <2>3. PICK j, m : j = Job(c) /\ m = Msg(c)
    OBVIOUS
  <2>4. m.copy = 0 \/ place[m.copy] # "unmade"
    BY <1>1, <2>3, CallerNow DEF SettledAt, Settled, At
  <2>5. k # m.copy
    BY <2>2, <2>4 DEF Copies
  <2>6. LeavesOne("holding", m, k)'
    BY <2>2, <2>5 DEF LeavesOne, Beside
  <2>7. KeepsOne("holding", j)' /\ (m.raw \/ AnyMade')
    BY <2>2, <2>3, KeptNow DEF KeepsOne, ServerKeeps
  <2> QED
    BY <1>1, <2>1, <2>2, <2>3, <2>6, <2>7, KeptStep DEF RowGoesOn
<1>4. ASSUME UNCHANGED server \/ \E k \in Copies : MakeHold(k, Msg(c).at), Carry(c, Marked(Msg(c), now), "put")
      PROVE  KeptInv'
  <2>1. PICK n : n = Marked(Msg(c), now)
    OBVIOUS
  <2>2. n.raw = Msg(c).raw
    BY <1>1, <2>1, RowKept
  <2>3. ServerKeeps /\ Spares
    BY <1>4, SameKeeps, HoldKept
  <2>4. Brings("put", Job(c))
    BY DEF Brings
  <2> QED
    BY <1>1, <1>4, <2>1, <2>2, <2>3, <2>4, CarryKept
<1> QED
  BY <1>2, <1>3, <1>4 DEF HandOver

\* The copy just made or found is no other caller's to drop, and stays.
LEMMA AloneTaking ==
  ASSUME Parts, ClaimsHeeded, One, NEW c \in Callers, NEW d \in Callers \ {c},
         task[c].pc \in {"holding", "found"}
  PROVE  task[d].pc \notin {"holding", "found"}
<1>1. ASSUME NEW e \in Callers, task[e].pc \in {"holding", "found"}
      PROVE  UnderClaim(e) \/ (HandingOver(e) /\ e # Pass)
  <2>1. CASE task[e].pc = "found"
    BY <2>1, OneWorking
  <2>2. CASE task[e].pc = "holding"
    BY <2>2, OneNow DEF FitsJob, UnderAt, HandsAt, Work
  <2> QED
    BY <1>1, <2>1, <2>2
<1>2. SUFFICES ASSUME task[d].pc \in {"holding", "found"} PROVE FALSE
  OBVIOUS
<1>3. c = Pass \/ d = Pass
  BY DEF Callers, ClaimsHeeded
<1> QED
  BY <1>1, <1>2, <1>3 DEF One

LEMMA TakeHoldKept ==
  ASSUME Parts, HoldInv, ClaimsHeeded, One, KeptInv, NEW c \in Callers, TakeHold(c)
  PROVE  KeptInv'
<1> DEFINE m == Msg(c)
           old == IF Job(c) = "drop" \/ m.copy = task[c].got THEN 0 ELSE m.copy
           label == IF At(c, "holding") \/ Job(c) = "pass" THEN "put" ELSE "ask"
<1>1. /\ task[c].pc \in {"holding", "found"} /\ UNCHANGED <<row, intent, subs, inSent, delivered>> /\ RowGoesOn
      /\ Carry(c, Adopted(m, task[c].got), label) /\ (place' = Destroyed(old) \/ UNCHANGED place)
  BY RowSame DEF TakeHold, store, person
<1>2. m \in Row /\ task[c].got \in 0..MaxCopies /\ old \in 0..MaxCopies
  BY CallerNow, SendLaterAssumption
<1>3. old # 0 => Out \/ Beside(old)
  BY <1>1, KeptNow DEF LeavesOne
<1>4. ServerKeeps
  <2>1. PICK k \in 0..MaxCopies : k = old
    BY <1>2
  <2>2. \A j \in Copies : place'[j] = place[j] \/ (j = k /\ k # 0 /\ There(j) /\ place'[j] = "gone")
    BY <1>1, <2>1 DEF Destroyed, Parts, ServerOK, There, Copies
  <2>3. (AnyMade' <=> AnyMade) /\ ServerSays'
    BY <1>1, <2>2 DEF AnyMade, There, ServerSays, KeptInv, Out
  <2>4. Kept'
    <3>1. SUFFICES ASSUME AnyMade, ~Out PROVE Beside(0)'
      BY <1>1, <2>3 DEF Kept, Out
    <3>2. PICK i \in Copies : There(i) /\ (k # 0 => i # k)
      BY <1>3, <2>1, <3>1 DEF Beside, KeptInv, Kept
    <3>3. There(i)' /\ i # 0
      BY <2>2, <3>2 DEF There, Copies
    <3> QED
      BY <3>3 DEF Beside
  <2> QED
    BY <1>1, <2>3, <2>4 DEF ServerKeeps, Out
<1>5. PICK l, n : l = label /\ n = Adopted(m, task[c].got)
  OBVIOUS
<1>6. n.raw = m.raw
  BY <1>2, <1>5, RowKept
<1>7. Brings(l, Job(c))
  BY <1>5 DEF Brings
<1>8. n.raw \/ AnyMade'
  BY <1>4, <1>6, KeptNow DEF ServerKeeps
<1>9. LeavesOthers(c) /\ Becomes(c, l, Job(c), n)
  BY <1>1, <1>5, CarryIs DEF Parts
<1>10. \A d \in Callers \ {c} : task[d].pc \notin {"holding", "found"}
  BY <1>1, AloneTaking
<1> QED
  BY <1>1, <1>4, <1>7, <1>8, <1>9, <1>10, GoesKept

LEMMA PutRowKept ==
  ASSUME Parts, HoldInv, ClaimsHeeded, One, KeptInv, NEW c \in Callers, PutRow(c)
  PROVE  KeptInv'
<1>1. Done(c) /\ row' = Msg(c) /\ UNCHANGED server /\ Msg(c) \in Row
  BY KeptNow DEF PutRow, Write
<1>2. ServerKeeps /\ Spares
  BY <1>1, SameKeeps
<1>3. RowGoesOn
  BY <1>1, <1>2, RowWrites
<1> QED
  BY <1>1, <1>2, <1>3, DoneKept

LEMMA SaveScheduledKept ==
  ASSUME Parts, HoldInv, ClaimsHeeded, One, KeptInv, NEW c \in Callers, SaveScheduled(c)
  PROVE  KeptInv'
<1>1. UNCHANGED <<row, intent>> /\ RowGoesOn /\ Msg(c) \in Row
  BY RowSame, KeptNow DEF SaveScheduled, store, person
<1>2. ASSUME NEW k \in Copies, SaveOver(k, Msg(c).copy), NEW n, Carry(c, n, "put") PROVE KeptInv'
  <2>1. PICK old \in 0..MaxCopies : old = Msg(c).copy
    BY <1>1 DEF Row
  <2>2. ServerKeeps /\ Spares /\ AnyMade'
    BY <1>2, <2>1, SaveKept
  <2>3. Brings("put", Job(c))
    BY DEF Brings
  <2> QED
    BY <1>1, <1>2, <2>2, <2>3, CarryKept
<1>3. ASSUME Goto(c, "put") \/ Goto(c, "refused"), UNCHANGED server PROVE KeptInv'
  <2>1. Brings("put", Job(c)) /\ Brings("refused", Job(c))
    BY DEF Brings
  <2> QED
    BY <1>1, <1>3, <2>1, SameKeeps, GotoKept
<1> QED
  BY <1>2, <1>3 DEF SaveScheduled

LEMMA ScheduleRefusedKept ==
  ASSUME Parts, HoldInv, ClaimsHeeded, One, KeptInv, NEW c \in Callers, ScheduleRefused(c)
  PROVE  KeptInv'
<1>1. Done(c) /\ row' = NoRow /\ UNCHANGED server /\ intent' = "none"
  BY DEF ScheduleRefused, Write
<1>2. RowGoesOn
  BY <1>1 DEF RowGoesOn, Cares
<1> QED
  BY <1>1, <1>2, SameKeeps, DoneKept

LEMMA PassDueKept ==
  ASSUME Parts, HoldInv, ClaimsHeeded, One, KeptInv, NEW c \in Callers, PassDue(c)
  PROVE  KeptInv'
<1>1. UNCHANGED <<server, intent>>
  BY DEF PassDue, person
<1>2. Brings("try", Job(c))
  BY DEF Brings
<1>3. LetGo(c) \/ (Goto(c, "try") /\ UNCHANGED row)
  BY DEF PassDue, store
<1> QED
  BY <1>1, <1>2, <1>3, SameKeeps, LetGoKept, GotoKept, RowSame

LEMMA LookKept ==
  ASSUME Parts, HoldInv, ClaimsHeeded, One, KeptInv, NEW c \in Callers, Look(c)
  PROVE  KeptInv'
<1>1. UNCHANGED <<server, intent>> /\ ServerKeeps /\ Spares /\ At(c, "look")
  BY SameKeeps DEF Look, person
<1>2. (c = Pass => Job(c) = "pass") /\ Job(c) # "cancel"
  BY <1>1, KeptHere DEF At, FitsJob
<1>3. ASSUME LetGo(c) PROVE KeptInv'
  BY <1>1, <1>3, LetGoKept
<1>4. ASSUME NEW l, Goto(c, l), l = "unsure" \/ (l = "remove" /\ Job(c) = "drop"), UNCHANGED store PROVE KeptInv'
  <2>1. Brings(l, Job(c)) /\ RowGoesOn
    BY <1>1, <1>2, <1>4, RowSame DEF Brings, store
  <2> QED
    BY <1>1, <1>4, <2>1, GotoKept
<1>5. ASSUME NEW l, NEW m, Carry(c, m, l), m.raw = Msg(c).raw, UNCHANGED store,
             l \in {"due", "called"} \/ (l = "store" /\ Job(c) # "drop")
      PROVE  KeptInv'
  <2>1. Brings(l, Job(c)) /\ RowGoesOn
    BY <1>1, <1>5, RowSame DEF Brings, store
  <2> QED
    BY <1>1, <1>5, <2>1, CarryKept
<1>6. ASSUME LookedNothing(c) PROVE KeptInv'
  <2> DEFINE m == Unheld(Msg(c)) n == [m EXCEPT !.tried = TRUE]
  <2>1. m.raw = Msg(c).raw /\ n.raw = Msg(c).raw
    BY KeptNow, RowKept, UnheldType
  <2>2. \/ LetGo(c)
        \/ UNCHANGED store /\ (Goto(c, "unsure") \/ (Goto(c, "remove") /\ Job(c) = "drop"))
        \/ UNCHANGED store /\ (\/ Carry(c, n, "due")
                               \/ Job(c) # "drop" /\ Carry(c, m, "store")
                               \/ Carry(c, m, "called"))
    BY <1>6 DEF LookedNothing
  <2> HIDE DEF m, n
  <2> QED
    BY <1>3, <1>4, <1>5, <2>1, <2>2
<1>7. ASSUME Unreadable(c) PROVE KeptInv'
  BY <1>3, <1>4, <1>7 DEF Unreadable
<1>8. ASSUME NEW k \in Copies, place[k] = "held", task' = [task EXCEPT ![c].got = k, ![c].pc = "found"],
             UNCHANGED store
      PROVE  KeptInv'
  <2>1. LeavesOthers(c) /\ Becomes(c, "found", Job(c), Msg(c)) /\ task'[c].got = k
    BY <1>8 DEF Parts, TaskOK, Task, LeavesOthers, Becomes, Job, Msg
  <2>2. PICK j, m : j = Job(c) /\ m = Msg(c)
    OBVIOUS
  <2>3. place'[k] = "held"
    BY <1>1, <1>8 DEF server
  <2>4. LeavesOne("found", m, k)'
    BY <2>3 DEF LeavesOne, Beside, There
  <2>5. KeepsOne("found", j)' /\ (m.raw \/ AnyMade') /\ RowGoesOn
    BY <1>1, <1>8, <2>2, KeptNow, RowSame DEF KeepsOne, ServerKeeps, store
  <2> QED
    BY <1>1, <2>1, <2>2, <2>4, <2>5, KeptStep DEF RowGoesOn
<1>9. \/ LookedNothing(c) \/ Unreadable(c) \/ LetGo(c)
      \/ \E k \in Copies : /\ place[k] = "held" /\ UNCHANGED store
                          /\ task' = [task EXCEPT ![c].got = k, ![c].pc = "found"]
  <2>1. \A V \in Seen : \A k \in V : k \in Copies /\ place[k] = "held"
    BY DEF Seen, HeldCopies
  <2> QED
    BY <2>1 DEF Look
<1> QED
  BY <1>3, <1>6, <1>7, <1>8, <1>9

\* An answer tells of a copy, and "sent" of a message that went.
LEMMA StandingSays ==
  ASSUME Parts, HoldInv, KeptInv, NEW k \in 0..MaxCopies, NEW a
  PROVE  /\ Standing(k, a) = "sent" => k \in Copies /\ Out /\ place[k] # "unmade"
         /\ Standing(k, a) = "notSent" => k \in Copies /\ AnyMade
         /\ Standing(k, a) = "pending" => k \in Copies /\ subs[k] = "pending"
<1>1. CASE k = 0
  BY <1>1 DEF Standing
<1>2. CASE k # 0
  <2>1. k \in Copies
    BY <1>2, SendLaterAssumption DEF Copies
  <2>2. /\ Fate(k, a) = "sent" => Out /\ place[k] # "unmade"
        /\ Fate(k, a) = "notSent" => AnyMade
    BY <2>1 DEF Fate, KeptInv, ServerSays, AnyMade
  <2>3. Standing(k, a) = IF subs[k] = "pending" THEN "pending"
                         ELSE IF subs[k] = "final" THEN "sent"
                         ELSE IF subs[k] \in {"canceled", "theirs"} THEN "notSent" ELSE Fate(k, a)
    BY <1>2 DEF Standing
  <2>4. Fate(k, a) # "pending"
    BY DEF Fate
  <2>5. subs[k] # "none" => place[k] # "unmade"
    BY <2>1 DEF HoldInv, ServerInv, Made
  <2>6. CASE subs[k] = "pending"
    BY <2>1, <2>3, <2>6
  <2>7. CASE subs[k] = "final"
    BY <2>1, <2>3, <2>5, <2>7 DEF KeptInv, ServerSays
  <2>8. CASE subs[k] \in {"canceled", "theirs"}
    BY <2>1, <2>3, <2>5, <2>8 DEF AnyMade
  <2>9. CASE subs[k] \notin {"pending", "final", "canceled", "theirs"}
    BY <2>1, <2>2, <2>3, <2>4, <2>9
  <2> QED
    BY <2>6, <2>7, <2>8, <2>9
<1> QED
  BY <1>1, <1>2

LEMMA AskKept ==
  ASSUME Parts, HoldInv, ClaimsHeeded, One, KeptInv, NEW c \in Callers, Ask(c)
  PROVE  KeptInv'
<1>1. UNCHANGED intent /\ At(c, "ask")
  BY DEF Ask, person
<1>2. PICK k \in 0..MaxCopies : k = Msg(c).copy
  BY KeptNow DEF Row
<1>3. PICK s : s = Standing(k, Msg(c).at)
  OBVIOUS
<1>4. /\ s = "sent" => k \in Copies /\ Out /\ place[k] # "unmade"
      /\ s = "notSent" => k \in Copies /\ AnyMade
      /\ s = "pending" => k \in Copies /\ subs[k] = "pending"
  BY <1>3, StandingSays
<1>5. ServerKeeps /\ Spares
  <2>1. CASE UNCHANGED server
    BY <2>1, SameKeeps
  <2>2. CASE /\ s = "pending" /\ subs' = [subs EXCEPT ![k] = "canceled"] /\ place' \in {place, TakenOff(k)}
             /\ UNCHANGED <<inSent, delivered>>
    <3>1. \A j \in Copies : subs'[j] = "final" => subs[j] = "final"
      BY <2>2 DEF Parts, ServerOK
    <3> QED
      BY <1>4, <2>2, <3>1, TakenOffKept
  <2>3. CASE s = "sent" /\ place' \in {place, Filed(k)} /\ UNCHANGED <<subs, delivered>>
    BY <1>4, <2>3, FiledKept
  <2>4. CASE s = "notSent" /\ place' = TakenOff(k) /\ UNCHANGED <<subs, inSent, delivered>>
    BY <1>4, <2>4, TakenOffKept
  <2>5. CASE UNCHANGED <<place, subs, inSent, delivered>>
    BY <2>5, StillThere DEF KeptInv, ServerSays, Out, AnyMade, There
  <2>7. s = "sent" \/ (inSent \/ (s = "sent" /\ place[k] # "gone")) = inSent
    BY DEF Parts, ServerOK
  <2> QED
    BY <1>2, <1>3, <2>1, <2>2, <2>3, <2>4, <2>5, <2>7 DEF Ask
<1>6. \/ LetGo(c)
      \/ /\ row' = row
         /\ \/ Goto(c, "remove") /\ Job(c) = "drop"
            \/ Goto(c, "fate") /\ Job(c) # "drop" /\ (s = "notSent" \/ Job(c) # "pass")
            \/ Goto(c, "unsure")
            \/ s = "sent" /\ Goto(c, "forget")
  <2>1. ASSUME NEW t, Answered(c, t), t = s \/ (t = "notSent" /\ Job(c) # "pass")
        PROVE  \/ Goto(c, "remove") /\ Job(c) = "drop"
               \/ Goto(c, "fate") /\ Job(c) # "drop" /\ (s = "notSent" \/ Job(c) # "pass")
               \/ Goto(c, "unsure")
               \/ s = "sent" /\ Goto(c, "forget")
    BY <2>1 DEF Answered
  <2> QED
    BY <1>2, <1>3, <2>1 DEF Ask, store
<1>7. (c = Pass => Job(c) = "pass") /\ (Out => Out') /\ (AnyMade => AnyMade')
  BY <1>1, <1>5, KeptHere DEF At, FitsJob, ServerKeeps
<1>8. CASE LetGo(c)
  BY <1>1, <1>5, <1>8, LetGoKept
<1>9. ASSUME NEW l, Goto(c, l), row' = row,
             \/ l = "remove" /\ Job(c) = "drop"
             \/ l = "fate" /\ Job(c) # "drop" /\ (s = "notSent" \/ Job(c) # "pass")
             \/ l = "unsure"
             \/ s = "sent" /\ l = "forget"
      PROVE  KeptInv'
  <2>1. Brings(l, Job(c))
    BY <1>4, <1>7, <1>9 DEF Brings
  <2>2. RowGoesOn
    BY <1>1, <1>9, RowSame
  <2> QED
    BY <1>5, <1>9, <2>1, <2>2, GotoKept
<1> QED
  BY <1>6, <1>8, <1>9

\* A look for what was called back tells only what is so of Sent.
LEMMA CalledBackKept ==
  ASSUME Parts, HoldInv, ClaimsHeeded, One, KeptInv, NEW c \in Callers, CalledBack(c)
  PROVE  KeptInv'
<1>1. UNCHANGED <<server, row, intent>> /\ At(c, "fate") /\ ServerKeeps /\ Spares /\ RowGoesOn
  BY SameKeeps, RowSame DEF CalledBack, person, store
<1>2. /\ Job(c) # "cancel" /\ Job(c) # "drop" /\ (Job(c) = "pass" => AnyMade)
  BY <1>1, KeptHere DEF FitsJob, KeepsOne, At
<1>3. PICK l : /\ Goto(c, l)
               /\ \/ l = "forget" /\ inSent
                  \/ l \in {"elsewhere", "remove", "store"}
  <2>1. PICK went \in {inSent, FALSE}, left \in {place[Msg(c).copy] # "gone", TRUE} :
           Goto(c, IF Job(c) = "cancel" /\ left THEN "restore"
                   ELSE IF went THEN "forget"
                   ELSE CASE Job(c) = "pass" /\ ~left -> "elsewhere"
                          [] Job(c) = "pass" <=> left -> "remove"
                          [] OTHER -> "store")
    BY DEF CalledBack
  <2>2. CASE went
    BY <1>2, <2>1, <2>2
  <2>3. CASE ~went
    BY <1>2, <2>1, <2>3
  <2> QED
    BY <2>2, <2>3
<1>4. Brings(l, Job(c))
  BY <1>1, <1>2, <1>3 DEF Brings, ServerKeeps, KeptInv, ServerSays
<1> QED
  BY <1>1, <1>3, <1>4, GotoKept

LEMMA StoreKept ==
  ASSUME Parts, HoldInv, ClaimsHeeded, One, KeptInv, NEW c \in Callers, Store(c)
  PROVE  KeptInv'
<1>1. UNCHANGED <<server, intent>> /\ At(c, "store") /\ ServerKeeps /\ Spares
  BY SameKeeps DEF Store, person
<1>2. Job(c) # "drop"
  BY <1>1, KeptHere DEF KeepsOne, At
<1> DEFINE m == Msg(c) u == Unheld(m) h == [u EXCEPT !.tried = TRUE] t == [h EXCEPT !.at = task[c].want]
<1>0. m \in Row /\ u \in Row /\ u.raw = m.raw /\ task[c].want \in Time
  BY KeptNow, UnheldType, RowKept, CallerType DEF Parts
<1>3. PICK here \in Row : here = h /\ here.raw = m.raw
  <2>1. [u EXCEPT !.tried = TRUE] \in Row
    BY <1>0, RowWith
  <2>2. [u EXCEPT !.tried = TRUE].raw = u.raw
    BY <1>0, RowKept
  <2> QED
    BY <1>0, <2>1, <2>2
<1>4. PICK there \in Row : there = t /\ there.raw = here.raw
  <2>1. PICK w \in Time : w = task[c].want
    BY <1>0
  <2>2. [here EXCEPT !.at = w] \in Row /\ [here EXCEPT !.at = w].raw = here.raw
    BY DEF Row
  <2> QED
    BY <1>3, <2>1, <2>2
<1>5. PICK r \in Row : (r = here \/ r = Marked(there, now)) /\ r.raw = Msg(c).raw /\ row' = r
                       /\ Carry(c, r, "reclaim")
  BY <1>3, <1>4, RowKept, MarkedType DEF Store, Write, Parts, RestOK
<1>6. RowGoesOn
  BY <1>1, <1>5, RowWrites
<1>7. Brings("reclaim", Job(c))
  BY <1>2 DEF Brings
<1> QED
  BY <1>1, <1>5, <1>6, <1>7, CarryKept

LEMMA ReclaimKept ==
  ASSUME Parts, HoldInv, ClaimsHeeded, One, KeptInv, NEW c \in Callers, Reclaim(c)
  PROVE  KeptInv'
<1>1. UNCHANGED <<server, row, intent>> /\ At(c, "reclaim") /\ ServerKeeps /\ Spares /\ RowGoesOn
  BY SameKeeps, RowSame DEF Reclaim, person, store
<1>2. Job(c) \in {"sendNow", "newHour", "edit"}
  BY <1>1, KeptHere, KeptNow DEF FitsJob, KeepsOne, At, Work
<1>3. Done(c) \/ \E l : Goto(c, l) /\ (l \in {"try", "handing"} \/ (l = "restore" /\ Job(c) = "edit"))
  BY <1>2 DEF Reclaim
<1>4. ASSUME NEW l, Goto(c, l), l \in {"try", "handing"} \/ (l = "restore" /\ Job(c) = "edit") PROVE KeptInv'
  <2>1. Brings(l, Job(c))
    BY <1>4 DEF Brings
  <2> QED
    BY <1>1, <1>4, <2>1, GotoKept
<1> QED
  BY <1>1, <1>3, <1>4, DoneKept

LEMMA StuckKept ==
  ASSUME Parts, HoldInv, ClaimsHeeded, One, KeptInv, NEW c \in Callers, Stuck(c)
  PROVE  KeptInv'
<1>1. UNCHANGED server /\ Done(c) /\ ServerKeeps /\ Spares
  BY SameKeeps DEF Stuck
<1>2. PICK m \in Row : m = [Msg(c) EXCEPT !.tried = TRUE] /\ m.raw = Msg(c).raw
  BY KeptNow, RowWith, RowKept
<1>3. PICK u \in Row : u = Unheld(m) /\ u.raw = m.raw
  BY UnheldType, RowKept
<1>4. /\ [m EXCEPT !.problem = "checkSent"] \in Row /\ [m EXCEPT !.problem = "checkSent"].raw = m.raw
      /\ [u EXCEPT !.copy = 0, !.problem = "elsewhere"] \in Row
      /\ [u EXCEPT !.copy = 0, !.problem = "elsewhere"].raw = u.raw
  <2>1. "checkSent" \in Problems /\ "elsewhere" \in Problems /\ 0 \in 0..MaxCopies
    BY SendLaterAssumption DEF Problems
  <2> QED
    BY <2>1 DEF Row
<1>5. PICK r \in Row : row' = r /\ r.raw = Msg(c).raw
  BY <1>2, <1>3, <1>4 DEF Stuck, Write
<1> QED
  BY <1>1, <1>5, RowWrites, DoneKept

\* Only an edit puts back a draft here.
LEMMA RestoreKept ==
  ASSUME Parts, HoldInv, ClaimsHeeded, One, KeptInv, NEW c \in Callers, Restore(c)
  PROVE  KeptInv'
<1>1. Job(c) = "edit" /\ UNCHANGED intent /\ Msg(c) \in Row
  BY KeptHere, KeptNow DEF Restore, FitsJob, KeepsOne, At, person
<1>2. Brings("put", Job(c))
  BY DEF Brings
<1>3. CASE UNCHANGED <<server, store>> /\ Goto(c, "put")
  BY <1>1, <1>2, <1>3, SameKeeps, RowSame, GotoKept DEF store
<1>4. ASSUME NEW k \in Copies, SaveOver(k, Msg(c).copy), NEW n, Carry(c, n, "put"), UNCHANGED store
      PROVE  KeptInv'
  <2>1. PICK old \in 0..MaxCopies : old = Msg(c).copy
    BY <1>1 DEF Row
  <2>2. ServerKeeps /\ Spares /\ AnyMade'
    BY <1>4, <2>1, SaveKept
  <2> QED
    BY <1>1, <1>2, <1>4, <2>2, RowSame, CarryKept DEF store
<1> QED
  BY <1>1, <1>3, <1>4 DEF Restore

LEMMA RemoveRowKept ==
  ASSUME Parts, HoldInv, ClaimsHeeded, One, KeptInv, NEW c \in Callers, RemoveRow(c)
  PROVE  KeptInv'
<1>1. UNCHANGED server /\ Done(c) /\ row' = NoRow /\ ServerKeeps /\ Spares /\ At(c, "remove")
  BY SameKeeps DEF RemoveRow, Write
<1>2. Job(c) = "pass" => AnyMade'
  BY <1>1, KeptNow DEF KeepsOne, At, ServerKeeps
<1>3. Job(c) # "cancel"
  BY KeptHere DEF FitsJob
<1>4. IF Job(c) = "pass" THEN intent' = intent ELSE intent' \in {"delete", "drop"}
  BY <1>3 DEF RemoveRow
<1>5. RowGoesOn
  BY <1>1, <1>2, <1>4 DEF RowGoesOn, Cares
<1> QED
  BY <1>1, <1>5, DoneKept

LEMMA TryKept ==
  ASSUME Parts, HoldInv, ClaimsHeeded, One, KeptInv, NEW c \in Callers, Try(c)
  PROVE  KeptInv'
<1>1. UNCHANGED <<server, intent>> /\ ServerKeeps /\ Spares
  BY SameKeeps DEF Try, person
<1>2. row # NoRow => [row EXCEPT !.tried = TRUE] \in Row /\ [row EXCEPT !.tried = TRUE].raw = row.raw
  BY RowWith, RowKept DEF Parts, StoreOK
<1>3. RowGoesOn
  BY <1>1, <1>2, SendLaterAssumption DEF Try, RowGoesOn
<1>4. Brings("lookSent", Job(c)) /\ Brings("send", Job(c))
  BY DEF Brings
<1>5. Goto(c, "lookSent") \/ Goto(c, "send")
  BY DEF Try
<1> QED
  BY <1>1, <1>3, <1>4, <1>5, GotoKept

LEMMA LookSentKept ==
  ASSUME Parts, HoldInv, ClaimsHeeded, One, KeptInv, NEW c \in Callers, LookSent(c)
  PROVE  KeptInv'
<1>1. UNCHANGED <<row, intent, subs, hour, born, inSent, delivered>> /\ RowGoesOn
  BY RowSame DEF LookSent, store, person
<1>2. PICK k \in 0..MaxCopies : k = Msg(c).copy
  BY KeptNow DEF Row
<1>3. CASE inSent /\ place' = Destroyed(k) /\ Goto(c, "forget")
  <2>1. Out'
    BY <1>1, <1>3 DEF KeptInv, ServerSays, Out
  <2>2. ServerKeeps /\ Spares
    BY <1>1, <1>3, <2>1, DestroysKept
  <2>3. Brings("forget", Job(c))
    BY <2>1 DEF Brings
  <2> QED
    BY <1>1, <1>3, <2>2, <2>3, GotoKept
<1>4. CASE UNCHANGED place /\ (Goto(c, "send") \/ Goto(c, "keep") \/ Goto(c, "stick"))
  <2>1. ServerKeeps /\ Spares
    BY <1>1, <1>4, SameKeeps DEF server
  <2>2. Brings("send", Job(c)) /\ Brings("keep", Job(c)) /\ Brings("stick", Job(c))
    BY DEF Brings
  <2> QED
    BY <1>1, <1>4, <2>1, <2>2, GotoKept
<1> QED
  BY <1>2, <1>3, <1>4 DEF LookSent

LEMMA SendKept ==
  ASSUME Parts, HoldInv, ClaimsHeeded, One, KeptInv, NEW c \in Callers, Send(c)
  PROVE  KeptInv'
<1>1. UNCHANGED <<row, intent, subs, hour, born>> /\ RowGoesOn
  BY RowSame DEF Send, store, person
<1>2. PICK k \in 0..MaxCopies : k = Msg(c).copy
  BY KeptNow DEF Row
<1>3. PICK goes \in BOOLEAN : goes <=> (Msg(c).raw \/ (k # 0 /\ place[k] # "gone" /\ ~inSent))
  OBVIOUS
<1>4. \/ /\ goes /\ delivered' = OneMore(delivered) /\ place' \in {place, Destroyed(k)}
         /\ Goto(c, "forget") \/ Goto(c, "keep")
      \/ /\ ~goes /\ delivered' = delivered /\ inSent' = inSent /\ place' = Destroyed(k) /\ Goto(c, "forget")
      \/ UNCHANGED <<inSent, delivered, place>> /\ (Goto(c, "keep") \/ Goto(c, "stick"))
  <2>1. inSent \in BOOLEAN
    BY DEF Parts, ServerOK
  <2> QED
    BY <1>2, <1>3, <2>1 DEF Send
<1>5. ASSUME ServerKeeps, Spares, NEW l, Goto(c, l), l \in {"forget", "keep", "stick"},
             l = "forget" => Out' \/ AnyMade'
      PROVE  KeptInv'
  <2>1. Brings(l, Job(c))
    BY <1>5 DEF Brings
  <2> QED
    BY <1>1, <1>5, <2>1, GotoKept
<1>6. CASE delivered' = OneMore(delivered) /\ place' \in {place, Destroyed(k)}
           /\ (Goto(c, "forget") \/ Goto(c, "keep"))
  <2>1. Out'
    BY <1>6 DEF Out, OneMore
  <2> QED
    BY <1>1, <1>5, <1>6, <2>1, DestroysKept
<1>7. CASE ~goes /\ delivered' = delivered /\ inSent' = inSent /\ place' = Destroyed(k) /\ Goto(c, "forget")
  <2>1. AnyMade
    BY <1>2, <1>3, <1>7, KeptNow
  <2>2. CASE Out
    BY <1>1, <1>5, <1>7, <2>2, DestroysKept DEF Out
  <2>3. CASE ~Out
    <3>1. place' = place
      BY <1>2, <1>3, <1>7, <2>3 DEF KeptInv, ServerSays, Destroyed
    <3>2. ServerKeeps /\ Spares
      BY <1>1, <1>7, <3>1, SameKeeps DEF server
    <3> QED
      BY <1>5, <1>7, <2>1, <3>2 DEF ServerKeeps
  <2> QED
    BY <2>2, <2>3
<1>8. CASE UNCHANGED <<inSent, delivered, place>> /\ (Goto(c, "keep") \/ Goto(c, "stick"))
  <2>1. ServerKeeps /\ Spares
    BY <1>1, <1>8, SameKeeps DEF server
  <2> QED
    BY <1>5, <1>8, <2>1
<1> QED
  BY <1>4, <1>6, <1>7, <1>8

LEMMA ForgetKept ==
  ASSUME Parts, HoldInv, ClaimsHeeded, One, KeptInv, NEW c \in Callers, Forget(c)
  PROVE  KeptInv'
<1>1. UNCHANGED <<server, intent>> /\ Done(c) /\ At(c, "forget") /\ ServerKeeps /\ Spares
  BY SameKeeps DEF Forget, person
<1>2. Out' \/ AnyMade'
  BY <1>1, KeptNow DEF KeepsOne, At, ServerKeeps
<1>3. row' = row \/ row' = NoRow
  BY DEF Forget, Write, store
<1>4. RowGoesOn
  BY <1>1, <1>2, <1>3 DEF RowGoesOn
<1> QED
  BY <1>1, <1>4, DoneKept

LEMMA KeepKept ==
  ASSUME Parts, HoldInv, ClaimsHeeded, One, KeptInv, NEW c \in Callers, Keep(c)
  PROVE  KeptInv'
<1>1. UNCHANGED server /\ Done(c) /\ ServerKeeps /\ Spares /\ Job(c) # "post"
  BY SameKeeps, KeptHere DEF Keep, FitsJob
<1>2. PICK u \in Row : u = Unheld(Msg(c)) /\ u.raw = Msg(c).raw
  BY KeptNow, UnheldType, RowKept
<1>3. PICK a \in Time : a = IF now < MaxTime THEN now + 1 ELSE MaxTime
  BY SendLaterAssumption DEF Parts, RestOK, Time
<1>4. PICK p \in Problems : p = IF At(c, "keep") THEN "retry" ELSE "stuck"
  BY DEF Problems
<1>5. PICK r \in Row : r = [u EXCEPT !.tried = TRUE, !.problem = p, !.at = a] /\ r.raw = u.raw
  <2>1. /\ [u EXCEPT !.tried = TRUE, !.problem = p, !.at = a] \in Row
        /\ [u EXCEPT !.tried = TRUE, !.problem = p, !.at = a].raw = u.raw
    BY DEF Row
  <2> QED
    BY <2>1
<1>6. row' = r
  BY <1>1, <1>2, <1>3, <1>4, <1>5 DEF Keep, Write
<1> QED
  BY <1>1, <1>2, <1>5, <1>6, RowWrites, DoneKept

LEMMA StepKept ==
  ASSUME Parts, HoldInv, ClaimsHeeded, One, KeptInv, NEW c \in Callers, Step(c)
  PROVE  KeptInv'
<1>1. ~Called(c) /\ ~Reopened(c)
  BY KeptHere DEF Called, Reopened
<1> QED
  BY <1>1, TakeNamedKept, HandOverKept, TakeHoldKept, PutRowKept, SaveScheduledKept,
     ScheduleRefusedKept, PassDueKept, LookKept, AskKept, CalledBackKept, StoreKept, ReclaimKept,
     StuckKept, RestoreKept, RemoveRowKept, TryKept, LookSentKept, SendKept, ForgetKept, KeepKept DEF Step

----------------------------------------------------------------------------
(* The pass, what the person asks, and the world.                          *)

LEMMA BeginsKept ==
  ASSUME Parts, HoldInv, KeptInv, UNCHANGED server, NEW c \in Callers, NEW l, NEW j, NEW m, NEW w,
         Start(c, l, j, m, w), m.raw \/ (row # NoRow /\ m.raw = row.raw), Brings(l, j), RowGoesOn
  PROVE  KeptInv'
<1>1. LeavesOthers(c) /\ Becomes(c, l, j, m)
  BY StartIs DEF Parts
<1>2. ServerKeeps /\ Spares
  BY SameKeeps
<1>3. m.raw \/ AnyMade'
  BY <1>2 DEF KeptInv, ServerKeeps
<1> QED
  BY <1>1, <1>2, <1>3, GoesKept

LEMMA PassStartKept ==
  ASSUME Parts, HoldInv, KeptInv, PassStart
  PROVE  KeptInv'
<1>1. UNCHANGED <<server, row, intent>> /\ row # NoRow /\ Pass \in Callers /\ Start(Pass, "listed", "pass", row, now)
  BY DEF PassStart, store, person, Callers
<1>2. Brings("listed", "pass")
  BY DEF Brings
<1> QED
  BY <1>1, <1>2, RowSame, BeginsKept

LEMMA PassClaimKept ==
  ASSUME Parts, HoldInv, KeptInv, PassClaim
  PROVE  KeptInv'
<1>1. UNCHANGED <<server, row, intent>> /\ Pass \in Callers /\ ServerKeeps /\ Spares /\ RowGoesOn
  BY SameKeeps, RowSame DEF PassClaim, store, person, Callers
<1>2. CASE Done(Pass)
  BY <1>1, <1>2, DoneKept
<1>3. CASE Carry(Pass, row, Route(row)) /\ row # NoRow
  <2>1. PICK l, n : l = Route(row) /\ n = row
    OBVIOUS
  <2>2. Brings(l, Job(Pass))
    BY <2>1 DEF Brings, Route
  <2>3. LeavesOthers(Pass) /\ Becomes(Pass, l, Job(Pass), n)
    BY <1>1, <1>3, <2>1, CarryIs DEF Parts
  <2>4. n.raw \/ AnyMade'
    BY <1>1, <1>3, <2>1 DEF KeptInv, ServerKeeps
  <2> QED
    BY <1>1, <2>2, <2>3, <2>4, GoesKept
<1> QED
  BY <1>2, <1>3 DEF PassClaim, Claimable

\* A step of the world, or one that leaves every caller.
LEMMA WorldKept ==
  ASSUME Parts, HoldInv, KeptInv, ServerKeeps, Spares, UNCHANGED task, RowGoesOn
  PROVE  KeptInv'
<1>1. Pass \in Callers /\ LeavesOthers(Pass)
  BY DEF Callers, LeavesOthers
<1>2. PICK l, j, m, k : l = task[Pass].pc /\ j = Job(Pass) /\ m = Msg(Pass) /\ k = task[Pass].got
  OBVIOUS
<1>3. Becomes(Pass, l, j, m) /\ task'[Pass].got = k
  BY <1>2 DEF Becomes, Job, Msg
<1>4. KeepsOne(l, j)' /\ (m.raw \/ AnyMade')
  BY <1>1, <1>2, KeptNow DEF KeepsOne, ServerKeeps
<1>5. LeavesOne(l, m, k)'
  <2>1. SUFFICES ASSUME l \in {"holding", "found"}, m.copy # k PROVE Out' \/ Beside(m.copy)'
    BY DEF LeavesOne
  <2>2. m.copy \in 0..MaxCopies /\ Known(m.copy) /\ (Out \/ Beside(m.copy))
    BY <1>1, <1>2, <2>1, CallerNow, KeptNow DEF LeavesOne, SettledAt, Settled, Known
  <2> QED
    BY <2>2 DEF Spares, ServerKeeps
<1> QED
  BY <1>1, <1>3, <1>4, <1>5, KeptStep DEF RowGoesOn

LEMMA AdoptKept ==
  ASSUME Parts, HoldInv, KeptInv, NEW k \in Copies, Adopt(k)
  PROVE  KeptInv'
<1>1. /\ UNCHANGED <<row, intent, subs, hour, born, delivered>> /\ place[k] = "held" /\ RowGoesOn
      /\ Pass \in Callers
  BY RowSame DEF Adopt, store, person, Callers
<1>2. CASE subs[k] = "pending"
  <2>1. UNCHANGED server
    BY <1>1, <1>2 DEF Adopt, server
  <2>2. PICK n : n = Adopted(Plain(hour[k], k), k)
    OBVIOUS
  <2>3. n.raw
    <3>1. Plain(hour[k], k) \in Row /\ Plain(hour[k], k).raw
      BY PlainType DEF Parts, ServerOK, Plain, Copies
    <3> QED
      BY <2>2, <3>1, RowKept DEF Copies
  <2>4. Brings("put", "pass")
    BY DEF Brings
  <2>5. Start(Pass, "put", "pass", n, now)
    BY <1>2, <2>2 DEF Adopt
  <2> QED
    BY <1>1, <2>1, <2>3, <2>4, <2>5, BeginsKept
<1>3. CASE subs[k] # "pending"
  <2>1. /\ place' = (IF subs[k] = "final" THEN Filed(k) ELSE TakenOff(k)) /\ UNCHANGED task
        /\ inSent' = (inSent \/ subs[k] = "final")
    BY <1>3 DEF Adopt
  <2>2. CASE subs[k] = "final"
    <3>1. Out
      BY <2>2 DEF KeptInv, ServerSays
    <3>2. ServerKeeps /\ Spares
      BY <1>1, <2>1, <2>2, <3>1, FiledKept
    <3> QED
      BY <1>1, <2>1, <3>2, WorldKept
  <2>3. CASE subs[k] # "final"
    <3>1. inSent' = inSent
      BY <2>1, <2>3 DEF Parts, ServerOK
    <3>2. ServerKeeps /\ Spares
      BY <1>1, <2>1, <2>3, <3>1, TakenOffKept
    <3> QED
      BY <1>1, <2>1, <3>2, WorldKept
  <2> QED
    BY <2>2, <2>3
<1> QED
  BY <1>2, <1>3

LEMMA NameKept ==
  ASSUME Parts, HoldInv, KeptInv, NEW c \in People, NEW j, NEW w, Name(c, j, w), j # "pass",
         intent' \in {intent, "send"}
  PROVE  KeptInv'
<1>1. UNCHANGED <<server, row>> /\ c \in Callers /\ row # NoRow
  BY DEF Name, store, Callers
<1>2. Brings("named", j) /\ RowGoesOn
  BY <1>1 DEF Brings, RowGoesOn
<1> QED
  BY <1>1, <1>2, BeginsKept DEF Name

LEMMA ScheduleKept ==
  ASSUME Parts, HoldInv, KeptInv, NEW c \in People, NEW at \in Time, Schedule(c, at)
  PROVE  KeptInv'
<1>1. PICK p \in Row : p = Plain(at, composer) /\ p.raw
  <2>1. composer \in 0..MaxCopies
    BY DEF Schedule, Parts, PersonOK
  <2> QED
    BY <2>1, PlainType DEF Plain
<1>2. PICK n \in Row : n = Marked(p, now) /\ n.raw
  BY <1>1, RowKept, MarkedType DEF Parts, RestOK
<1>3. UNCHANGED server /\ Start(c, "handing", "schedule", n, at) /\ row' = n /\ c \in Callers
  BY <1>1, <1>2 DEF Schedule, Write, Callers
<1>4. Brings("handing", "schedule") /\ RowGoesOn
  BY <1>2, <1>3, SendLaterAssumption DEF Brings, RowGoesOn
<1> QED
  BY <1>2, <1>3, <1>4, BeginsKept

LEMMA HoldUnchangedKept ==
  ASSUME Parts, HoldInv, KeptInv, NEW c \in People, HoldUnchanged(c)
  PROVE  KeptInv'
<1>1. UNCHANGED server /\ intent' = "send" /\ row # NoRow /\ row \in Row /\ c \in Callers
  BY DEF HoldUnchanged, Parts, StoreOK, Callers
<1>2. CASE row.raw /\ Write(Marked(row, now)) /\ Start(c, "handing", "unchanged", Marked(row, now), row.at)
  <2>1. PICK n \in Row : n = Marked(row, now) /\ n.raw
    BY <1>1, <1>2, RowKept, MarkedType DEF Parts, RestOK
  <2>2. PICK w : w = row.at
    OBVIOUS
  <2>3. Start(c, "handing", "unchanged", n, w) /\ row' = n
    BY <1>2, <2>1, <2>2 DEF Write
  <2>4. Brings("handing", "unchanged") /\ RowGoesOn
    BY <2>1, <2>3, SendLaterAssumption DEF Brings, RowGoesOn
  <2> QED
    BY <1>1, <2>1, <2>3, <2>4, BeginsKept
<1>3. CASE UNCHANGED <<store, task>>
  <2>1. RowGoesOn
    BY <1>1, <1>3 DEF RowGoesOn, store
  <2> QED
    BY <1>1, <1>3, <2>1, SameKeeps, WorldKept
<1> QED
  BY <1>2, <1>3 DEF HoldUnchanged

LEMMA SaveEditKept ==
  ASSUME Parts, HoldInv, KeptInv, SaveEdit
  PROVE  KeptInv'
<1>1. PICK k \in Copies : SaveOver(k, composer)
  BY DEF SaveEdit
<1>2. composer \in 0..MaxCopies
  BY DEF SaveEdit, Parts, PersonOK
<1>3. ServerKeeps /\ Spares /\ AnyMade'
  BY <1>1, <1>2, SaveKept
<1>4. UNCHANGED <<task, intent, row>>
  BY DEF SaveEdit, store
<1>5. RowGoesOn
  BY <1>3, <1>4 DEF RowGoesOn
<1> QED
  BY <1>3, <1>4, <1>5, WorldKept

\* The draft that the row stands for from now on was made.
LEMMA DraftSavedKept ==
  ASSUME Parts, HoldInv, KeptInv, DraftSaved
  PROVE  KeptInv'
<1>1. /\ UNCHANGED <<task, intent, place, subs, inSent, delivered>>
      /\ UNCHANGED row \/ (row # NoRow /\ row' # NoRow /\ \E saved \in moving : row'.copy = saved[2])
  BY DraftSavedRow, SendLaterAssumption
<1>2. ServerKeeps /\ Spares
  BY SameKeeps, DraftSavedRow DEF server
<1>3. moving # {} => AnyMade
  BY DEF Parts, PersonOK, HoldInv, ComposerSettled, Settled, Copies, AnyMade
<1>4. RowGoesOn
  BY <1>1, <1>2, <1>3 DEF RowGoesOn, ServerKeeps
<1> QED
  BY <1>1, <1>2, <1>4, WorldKept

LEMMA AskedKept ==
  ASSUME Parts, HoldInv, NoneDeletes, KeptInv, Asked
  PROVE  KeptInv'
<1>1. \A c \in People : ~Post(c) /\ ~Cancel(c)
  BY DEF Post, Cancel, Name, NoneDeletes, ClaimsHeeded
<1> QED
  BY <1>1, NameKept, ScheduleKept, HoldUnchangedKept, SaveEditKept, DraftSavedKept
     DEF Asked, SendNow, Edit, Drop, NewHour

LEMMA ServerStepKept ==
  ASSUME Parts, HoldInv, NoneDeletes, KeptInv, NEW k \in Copies,
         ServerSends(k) \/ ServerForgets(k) \/ OtherCancels(k) \/ OtherDeletes(k) \/ OtherSends(k)
  PROVE  KeptInv'
<1>1. CASE ServerSends(k)
  <2>1. Out' /\ UNCHANGED <<place, inSent, task, row, intent>>
    BY <1>1 DEF ServerSends, Out, OneMore, store, person
  <2>2. ServerKeeps /\ Spares
    BY <2>1, StillThere DEF KeptInv, ServerSays, Out, AnyMade
  <2> QED
    BY <2>1, <2>2, RowSame, WorldKept
<1>2. CASE ServerForgets(k)
  <2>1. UNCHANGED <<place, inSent, delivered, task, row, intent>>
    BY <1>2 DEF ServerForgets, store, person
  <2>2. \A j \in Copies : subs'[j] = "final" => subs[j] = "final"
    BY <1>2 DEF ServerForgets, Parts, ServerOK
  <2>3. ServerKeeps /\ Spares
    BY <2>1, <2>2, TakenOffKept
  <2> QED
    BY <2>1, <2>3, RowSame, WorldKept
<1>3. CASE OtherCancels(k)
  <2>1. UNCHANGED <<inSent, delivered, task, row, intent>> /\ place' = TakenOff(k)
    BY <1>3 DEF OtherCancels, store, person
  <2>2. \A j \in Copies : subs'[j] = "final" => subs[j] = "final"
    BY <1>3 DEF OtherCancels, Parts, ServerOK
  <2>3. ServerKeeps /\ Spares
    BY <2>1, <2>2, TakenOffKept
  <2> QED
    BY <2>1, <2>3, RowSame, WorldKept
<1>4. ~OtherDeletes(k)
  BY DEF NoneDeletes, OtherDeletes
<1>5. CASE OtherSends(k)
  <2>1. Out' /\ UNCHANGED <<subs, task, row>> /\ place' = Destroyed(k) /\ k \in 0..MaxCopies /\ AnyMade
    BY <1>5 DEF OtherSends, Out, OneMore, store, AnyMade, Copies
  <2>2. ServerKeeps /\ Spares
    BY <2>1, DestroysKept
  <2>3. \A c \in Callers : /\ LeavesOne(task[c].pc, Msg(c), task[c].got)'
                           /\ KeepsOne(task[c].pc, Job(c))'
                           /\ (Msg(c).raw \/ AnyMade)'
    BY <2>1, <2>2 DEF KeptInv, LeavesOne, KeepsOne, ServerKeeps, Msg, Job
  <2> QED
    BY <2>1, <2>2, <2>3 DEF KeptInv, ServerKeeps
<1> QED
  BY <1>1, <1>2, <1>3, <1>4, <1>5

LEMMA CrashKept ==
  ASSUME Parts, HoldInv, KeptInv, Crash
  PROVE  KeptInv'
<1>1. \A c \in Callers : task'[c] = Idle
  BY DEF Crash
<1>2. UNCHANGED <<server, row, intent>> /\ ServerKeeps
  BY SameKeeps DEF Crash, store
<1>3. Plain(0, 0).raw
  BY DEF Plain
<1>4. \A c \in Callers : (task[c].pc)' = "idle" /\ Job(c)' = "none" /\ Msg(c)' = Plain(0, 0)
  BY <1>1 DEF Idle, Job, Msg
<1>5. \A c \in Callers : /\ LeavesOne(task[c].pc, Msg(c), task[c].got)'
                         /\ KeepsOne(task[c].pc, Job(c))'
                         /\ Msg(c)'.raw
  BY <1>3, <1>4 DEF LeavesOne, KeepsOne
<1> QED
  BY <1>2, <1>5 DEF KeptInv, ServerKeeps

LEMMA CallerDiesKept ==
  ASSUME Parts, HoldInv, KeptInv, NEW c \in Callers, CallerDies(c)
  PROVE  KeptInv'
<1>1. UNCHANGED <<server, row, intent>> /\ Done(c)
  BY DEF CallerDies, store, person
<1> QED
  BY <1>1, SameKeeps, RowSame, DoneKept

LEMMA InitKept == Init => KeptInv
<1> SUFFICES ASSUME Init PROVE KeptInv
  OBVIOUS
<1>1. \A c \in Callers : task[c].pc = "idle" /\ Job(c) = "none" /\ Msg(c).raw
  BY DEF Init, Idle, Job, Msg, Plain
<1>2. /\ row = NoRow /\ ~inSent
      /\ \A k \in Copies : /\ place[k] \in {"unmade", "draft", "held"}
                           /\ subs[k] \in {"pending", "none"}
      /\ intent = "none" \/ \E k \in Copies : place[k] # "unmade"
  BY SendLaterAssumption DEF Init, Copies
<1>3. Kept
  BY <1>2 DEF Kept, AnyMade, Beside, There, Copies
<1>4. \A c \in Callers : LeavesOne(task[c].pc, Msg(c), task[c].got) /\ KeepsOne(task[c].pc, Job(c))
  BY <1>1 DEF LeavesOne, KeepsOne
<1> QED
  BY <1>1, <1>2, <1>3, <1>4 DEF KeptInv, ServerSays, Cares, AnyMade

LEMMA NextKept ==
  ASSUME Parts, HoldInv, NoneDeletes, One, KeptInv, [Next]_vars
  PROVE  KeptInv'
<1>1. CASE PassStep
  BY <1>1, PassStartKept, PassClaimKept, AdoptKept DEF PassStep
<1>2. CASE \E c \in Callers : Step(c)
  BY <1>2, StepKept DEF NoneDeletes
<1>3. CASE Asked
  BY <1>3, AskedKept
<1>4. CASE Environment
  <2>1. CASE Tick
    BY <2>1, SameKeeps, RowSame, WorldKept DEF Tick, store, person
  <2> QED
    BY <1>4, <2>1, CrashKept, CallerDiesKept, ServerStepKept DEF Environment
<1>5. CASE UNCHANGED vars
  <2>1. UNCHANGED <<server, task, row, intent>>
    BY <1>5 DEF vars, server
  <2> QED
    BY <2>1, SameKeeps, RowSame, WorldKept
<1> QED
  BY <1>1, <1>2, <1>3, <1>4, <1>5 DEF Next

\* NeverLost: a message the person asked to send, or to have back, is in the
\* row, in Drafts or held by the server until it has gone out, whatever fails
\* between the mark, the hand-over, the draft saved in its place and the row
\* that says so (outbox.rs schedule, rehold, settle; held.rs take_found).
THEOREM NothingIsLost == NoneDeletes => (Spec => []NeverLost)
<1> SUFFICES ASSUME NoneDeletes PROVE Spec => []NeverLost
  OBVIOUS
<1> DEFINE I == Parts /\ HoldInv /\ One /\ KeptInv
<1>1. Init => I
  BY InitType, InitHold, InitOne, InitKept
<1>2. I /\ [Next]_vars => I'
  BY NextType, NextHold, NextOne, NextKept DEF NoneDeletes
<1>3. I => NeverLost
  <2>1. SUFFICES ASSUME KeptInv, intent \notin {"none", "delete", "drop"}, intent \in Cares,
                        row = NoRow, ~(delivered > 0)
                 PROVE  \E k \in Copies : place[k] \in {"draft", "held"}
    BY DEF NeverLost, Parts, PersonOK, Cares
  <2>2. Beside(0)
    BY <2>1 DEF KeptInv, Kept, Out
  <2> QED
    BY <2>2 DEF Beside, There
<1> HIDE DEF I
<1> QED
  BY <1>1, <1>2, <1>3, PTL DEF Spec

----------------------------------------------------------------------------
(* What was stopped stays unsent.                                          *)

\* One caller at a time, and no new hour. (It claims the row a second time, with
\* a mark older than the hold: a crash before its answer leaves a hold that a
\* look through a lagging index misses, when the claim lapses sooner.)
NoNewHour == ClaimsHeeded /\ "newHour" \notin Jobs

Silent == \A k \in Copies : subs[k] # "pending"
Only(k) == \A j \in Copies : place[j] = "held" => j = k
Stops(m) == m.hold # "none" /\ ~PastKnowing(m)

\* Whoever goes by `m` finds any hold of it.
Covered(m) ==
    /\ m.hold = "none" => Clear
    /\ m.hold = "mark" => \A k \in Copies : place[k] = "held" => born[k] <= m.since
    /\ m.hold = "held" => Only(m.copy)

\* What the server holds when a caller comes to `l`, doing `j` with `m`.
ClearLabels == {"handing", "saving", "refused", "fate", "store", "reclaim", "restore", "elsewhere",
                "due", "try", "lookSent", "send", "keep", "stick"}
Finds(l, j, m, k) ==
    /\ l \in ClearLabels \/ (l = "put" /\ j = "edit") => Clear
    /\ l \in {"holding", "found"} => Only(k)
    /\ l \notin {"idle", "listed", "forget"} => Covered(m)
    /\ l = "remove" /\ j = "drop" /\ Stops(m) => Silent

\* Where each job can be, and with what.
Sorted(l, j, m) ==
    /\ l # "unsaved" /\ j # "newHour"
    /\ l \in {"handing", "holding"} => j \in {"schedule", "unchanged"}
    /\ l = "saving" => j = "schedule"
    /\ l = "restore" => j = "edit"
    /\ l \in {"fate", "store", "reclaim"} => j # "drop"
    /\ l = "named" /\ j = "edit" => m.hold # "none"
    /\ l = "look" => m.hold = "mark"
    /\ l = "ask" => m.hold # "mark"

\* While a message is handed over its row has a mark as young as any hold.
Marking(m) ==
    /\ Waits /\ composer = Closed /\ m.hold = "mark" /\ m.since = now
    /\ row # NoRow => row.hold = "mark" /\ row.since = now

\* The message was deleted, and nobody is busy with it.
Stopped == row = NoRow /\ Silent /\ Waits /\ \A p \in People : At(p, "idle")

StopInv ==
    /\ \A j, k \in Copies : place[j] = "held" /\ place[k] = "held" => j = k
    /\ row # NoRow => Covered(row)
    /\ composer # Closed => Clear
    /\ \A c \in Callers : /\ Finds(task[c].pc, Job(c), Msg(c), task[c].got)
                          /\ Sorted(task[c].pc, Job(c), Msg(c))
                          /\ Job(c) = "pass" => task[c].want <= now
                          /\ At(c, "handing") => Marking(Msg(c))
    /\ intent # "cancel"
    /\ intent = "delete" => Stopped

\* No step but a hand-over makes a hold.
Fewer ==
    /\ UNCHANGED born
    /\ \A k \in Copies : /\ place'[k] = "held" => place[k] = "held"
                         /\ subs'[k] = "pending" => subs[k] = "pending"

LEMMA CoveredStays == ASSUME Fewer, NEW m, Covered(m) PROVE Covered(m)'
BY DEF Fewer, Covered, Clear, Only

LEMMA FindsStays ==
  ASSUME Fewer, NEW l, NEW j, NEW m, NEW k, Finds(l, j, m, k)
  PROVE  Finds(l, j, m, k)'
<1>1. (Clear => Clear') /\ (Silent => Silent') /\ (Only(k) => Only(k)')
  BY DEF Fewer, Clear, Silent, Only
<1>2. Covered(m) => Covered(m)'
  BY CoveredStays
<1> QED
  BY <1>1, <1>2 DEF Finds

LEMMA ClearCovers ==
  ASSUME Clear
  PROVE  /\ \A m \in Row : Covered(m)
         /\ \A k : Only(k)
         /\ HoldsShow => Silent
BY DEF Clear, Covered, Only, HoldsShow, Silent

LEMMA PassJobs ==
  ASSUME Parts, One, StopInv, NEW c \in Callers
  PROVE  /\ Sorted(task[c].pc, Job(c), Msg(c)) /\ Finds(task[c].pc, Job(c), Msg(c), task[c].got)
         /\ FitsJob(c, task[c].pc, Job(c))
         /\ At(c, "handing") => c \in People /\ Marking(Msg(c))
         /\ c = Pass /\ ~UnderClaim(c) => Waits
<1>1. FitsJob(c, task[c].pc, Job(c)) /\ (UnderClaim(c) <=> UnderAt(task[c].pc, Job(c), Msg(c)))
  BY OneNow
<1>2. /\ Sorted(task[c].pc, Job(c), Msg(c)) /\ Finds(task[c].pc, Job(c), Msg(c), task[c].got)
      /\ At(c, "handing") => Marking(Msg(c))
  BY DEF StopInv
<1>3. At(c, "handing") => c \in People
  BY <1>1, <1>2 DEF FitsJob, Sorted, At, Callers
<1>4. c = Pass /\ ~UnderClaim(c) => Waits
  BY <1>1, <1>2 DEF FitsJob, Sorted, UnderAt, Waits, At
<1> QED
  BY <1>1, <1>2, <1>3, <1>4

\* A step of a caller that makes no hold.
LEMMA StopMoves ==
  ASSUME Parts, StopInv, NEW c \in Callers, LeavesOthers(c), Fewer, UNCHANGED now,
         NEW l, NEW j, NEW m, NEW k, Becomes(c, l, j, m), task'[c].got = k,
         Finds(l, j, m, k)', Sorted(l, j, m), j = "pass" => task'[c].want <= now,
         l = "handing" => Marking(m)',
         row' # NoRow => Covered(row)', composer' # Closed => Clear',
         \A d \in Callers \ {c} : At(d, "handing") => Waits' /\ UNCHANGED <<row, composer>>,
         intent' # "cancel", intent' = "delete" => Stopped'
  PROVE  StopInv'
<1>1. ASSUME NEW d \in Callers
      PROVE  (/\ Finds(task[d].pc, Job(d), Msg(d), task[d].got)
              /\ Sorted(task[d].pc, Job(d), Msg(d))
              /\ Job(d) = "pass" => task[d].want <= now
              /\ At(d, "handing") => Marking(Msg(d)))'
  <2>1. CASE d = c
    BY <2>1 DEF Becomes, Msg, Job, At
  <2>2. CASE d # c
    <3>1. task'[d] = task[d]
      BY <2>2 DEF LeavesOthers
    <3>2. PICK a, b, n, g : a = task[d].pc /\ b = Job(d) /\ n = Msg(d) /\ g = task[d].got
      OBVIOUS
    <3>3. a = task'[d].pc /\ b = Job(d)' /\ n = Msg(d)' /\ g = task'[d].got
      BY <3>1, <3>2 DEF Msg, Job
    <3>4. Finds(a, b, n, g) /\ Sorted(a, b, n) /\ (At(d, "handing") => Marking(n))
      BY <3>2 DEF StopInv
    <3>5. Finds(a, b, n, g)'
      BY <3>4, FindsStays
    <3>6. At(d, "handing") => Marking(n)'
      BY <2>2, <3>4 DEF Marking
    <3>7. Job(d)' = "pass" => task'[d].want <= now'
      BY <3>1 DEF StopInv, Job
    <3> QED
      BY <3>1, <3>3, <3>4, <3>5, <3>6, <3>7 DEF At
  <2> QED
    BY <2>1, <2>2
<1>2. \A i, g \in Copies : place'[i] = "held" /\ place'[g] = "held" => i = g
  BY DEF StopInv, Fewer
<1> QED
  BY <1>1, <1>2 DEF StopInv

\* A caller at work: the message is not deleted, and nobody hands it over.
LEMMA Busy ==
  ASSUME Parts, One, NoNewHour, StopInv, NEW c \in Callers, task[c].pc \notin {"idle", "listed"}
  PROVE  /\ intent \notin {"cancel", "delete"}
         /\ \A d \in Callers \ {c} : ~At(d, "handing")
<1>1. ~Stopped
  BY DEF Stopped, Waits, At, Callers
<1>2. ASSUME NEW d \in Callers \ {c}, At(d, "handing") PROVE FALSE
  <2>1. d \in People /\ Waits
    BY <1>2, PassJobs DEF Marking
  <2>2. c \in People
    BY <2>1 DEF Waits, At, Callers
  <2> QED
    BY <1>2, <2>1, <2>2 DEF NoNewHour, ClaimsHeeded
<1> QED
  BY <1>1, <1>2 DEF StopInv

LEMMA StopStep ==
  ASSUME Parts, One, NoNewHour, StopInv, NEW c \in Callers, task[c].pc \notin {"idle", "listed"},
         LeavesOthers(c), Fewer, UNCHANGED now,
         NEW l \in Labels \ {"handing"}, NEW j, NEW m, NEW k, Becomes(c, l, j, m), task'[c].got = k,
         Finds(l, j, m, k)', Sorted(l, j, m), j = "pass" => task'[c].want <= now,
         row' \in {row, NoRow} \/ Covered(row)', composer' # Closed => composer' = composer \/ Clear',
         intent' \notin {"cancel", "delete"} \/ intent' = intent \/ (intent' = "delete" /\ Stopped')
  PROVE  StopInv'
<1>1. row' # NoRow => Covered(row)'
  <2>1. SUFFICES ASSUME row' = row, row # NoRow PROVE Covered(row)'
    OBVIOUS
  <2>2. PICK r : r = row
    OBVIOUS
  <2>3. Covered(r)'
    BY <2>1, <2>2, CoveredStays DEF StopInv
  <2> QED
    BY <2>1, <2>2, <2>3
<1>2. composer' # Closed => Clear'
  BY DEF StopInv, Fewer, Clear
<1>3. /\ \A d \in Callers \ {c} : ~At(d, "handing")
      /\ intent' # "cancel" /\ (intent' = "delete" => Stopped')
  BY Busy
<1> QED
  BY <1>1, <1>2, <1>3, StopMoves

\* The same, of steps written as they are.
RowCovered == row' \in {row, NoRow} \/ Covered(row)'
OpensClear == composer' # Closed => composer' = composer \/ Clear'
StopsNone == intent' \notin {"cancel", "delete"} \/ intent' = intent

LEMMA StopGoes ==
  ASSUME Parts, One, NoNewHour, StopInv, NEW c \in Callers, task[c].pc \notin {"idle", "listed"},
         NEW l \in Labels \ {"handing"}, NEW m, Carry(c, m, l), Fewer, UNCHANGED now,
         NEW j, NEW k, j = Job(c), k = task[c].got, Finds(l, j, m, k)', Sorted(l, j, m),
         RowCovered, OpensClear, StopsNone
  PROVE  StopInv'
<1>1. LeavesOthers(c) /\ Becomes(c, l, j, m) /\ task'[c].got = k
  BY CarryIs DEF Parts
<1>2. task'[c].want = task[c].want
  BY DEF Carry, Parts, TaskOK, Task
<1>3. j = "pass" => task'[c].want <= now
  BY <1>2 DEF StopInv
<1> QED
  BY <1>1, <1>3, StopStep DEF RowCovered, OpensClear, StopsNone

LEMMA StopGoto ==
  ASSUME Parts, One, NoNewHour, StopInv, NEW c \in Callers, task[c].pc \notin {"idle", "listed"},
         NEW l \in Labels \ {"handing"}, Goto(c, l), Fewer, UNCHANGED now,
         NEW j, NEW m, NEW k, j = Job(c), m = Msg(c), k = task[c].got,
         Finds(l, j, m, k)', Sorted(l, j, m),
         RowCovered, OpensClear, StopsNone
  PROVE  StopInv'
<1>1. LeavesOthers(c) /\ Becomes(c, l, j, m) /\ task'[c].got = k
  BY GotoIs DEF Parts
<1>2. task'[c].want = task[c].want
  BY DEF Goto, Parts, TaskOK, Task
<1>3. j = "pass" => task'[c].want <= now
  BY <1>2 DEF StopInv
<1> QED
  BY <1>1, <1>3, StopStep DEF RowCovered, OpensClear, StopsNone

LEMMA StopDone ==
  ASSUME Parts, One, NoNewHour, StopInv, NEW c \in Callers, task[c].pc \notin {"idle", "listed"},
         Done(c), Fewer, UNCHANGED now, RowCovered, OpensClear,
         StopsNone \/ (intent' = "delete" /\ Stopped')
  PROVE  StopInv'
<1>1. LeavesOthers(c) /\ Becomes(c, "idle", "none", Plain(0, 0))
  BY DoneIs DEF Parts
<1>2. PICK k : task'[c].got = k
  OBVIOUS
<1>3. Finds("idle", "none", Plain(0, 0), k)' /\ Sorted("idle", "none", Plain(0, 0))
  BY DEF Finds, Sorted, ClearLabels
<1>4. "idle" \in Labels
  BY DEF Labels
<1> QED
  BY <1>1, <1>2, <1>3, <1>4, StopStep DEF RowCovered, OpensClear, StopsNone

LEMMA StopLetGo ==
  ASSUME Parts, One, NoNewHour, StopInv, NEW c \in Callers, task[c].pc \notin {"idle", "listed"},
         LetGo(c), Fewer, UNCHANGED <<now, composer, intent>>
  PROVE  StopInv'
BY StopDone DEF LetGo, RowCovered, OpensClear, StopsNone

LEMMA SameFewer == ASSUME UNCHANGED <<place, subs, born>> PROVE Fewer
BY DEF Fewer

LEMMA DestroyedFewer ==
  ASSUME Parts, NEW k \in 0..MaxCopies, place' \in {place, Destroyed(k)}, UNCHANGED <<subs, born>>
  PROVE  Fewer
BY DEF Fewer, Destroyed, Parts, ServerOK

LEMMA SavedFewer ==
  ASSUME Parts, NEW k \in Copies, NEW old \in 0..MaxCopies, SaveOver(k, old)
  PROVE  Fewer
<1>1. Destroyed(old) \in [Copies -> Places]
  BY DestroyedType DEF Parts, ServerOK
<1>2. \A j \in Copies : place'[j] = IF j = k THEN "draft" ELSE Destroyed(old)[j]
  BY <1>1 DEF SaveOver
<1>3. \A j \in Copies : Destroyed(old)[j] \in {place[j], "gone"}
  BY DEF Destroyed, Parts, ServerOK
<1> QED
  BY <1>2, <1>3 DEF Fewer, SaveOver

LEMMA FiledFewer ==
  ASSUME Parts, NEW k \in Copies, place' \in {place, Filed(k)}, UNCHANGED <<subs, born>>
  PROVE  Fewer
BY DEF Fewer, Filed, Parts, ServerOK

LEMMA TakenOffFewer ==
  ASSUME Parts, NEW k \in Copies, place' \in {place, TakenOff(k)}, UNCHANGED born,
         \A j \in Copies : subs'[j] = "pending" => subs[j] = "pending"
  PROVE  Fewer
BY DEF Fewer, TakenOff, Parts, ServerOK

\* Where every caller that works is.
LEMMA StopHere ==
  ASSUME Parts, One, NoNewHour, StopInv, NEW c \in Callers
  PROVE  /\ Finds(task[c].pc, Job(c), Msg(c), task[c].got) /\ Sorted(task[c].pc, Job(c), Msg(c))
         /\ FitsJob(c, task[c].pc, Job(c)) /\ Job(c) \in Work \ {"cancel", "post"}
         /\ Msg(c) \in Row /\ task[c].got \in 0..MaxCopies /\ now \in Nat /\ task[c].pc \in Labels
         /\ Job(c) = "pass" => task[c].want <= now
<1>1. Msg(c) \in Row /\ Job(c) \in Work /\ task[c].got \in 0..MaxCopies /\ task[c].pc \in Labels
  BY CallerType DEF Parts
<1>2. now \in Nat
  BY DEF Parts, RestOK, Time
<1>3. FitsJob(c, task[c].pc, Job(c))
  BY OneNow
<1> QED
  BY <1>1, <1>2, <1>3 DEF StopInv, FitsJob

----------------------------------------------------------------------------
(* What stops is kept by each step of a caller.                            *)

LEMMA ThenCovered == ASSUME NEW m, Clear' PROVE Covered(m)'
BY DEF Clear, Covered, Only

LEMMA StillClear == ASSUME Fewer, Clear PROVE Clear'
BY DEF Fewer, Clear

\* With nothing held any message will do, wherever its caller goes.
LEMMA ClearFinds ==
  ASSUME Parts, HoldInv, Clear, Fewer, NEW l, NEW j, NEW m, NEW k
  PROVE  Finds(l, j, m, k)'
<1>1. Clear' /\ Covered(m)'
  BY StillClear, ThenCovered
<1>2. Only(k)'
  BY <1>1 DEF Clear, Only
<1>3. Silent'
  BY DEF HoldInv, ServerInv, HoldsShow, Clear, Silent, Fewer
<1> QED
  BY <1>1, <1>2, <1>3 DEF Finds

LEMMA TakeNamedStop ==
  ASSUME Parts, HoldInv, One, NoNewHour, StopInv, NEW c \in Callers, TakeNamed(c)
  PROVE  StopInv'
<1>1. PICK j, k, n : j = Job(c) /\ k = task[c].got /\ n = Msg(c)
  OBVIOUS
<1>2. /\ At(c, "named") /\ task[c].pc \notin {"idle", "listed"} /\ UNCHANGED <<now, row, composer, intent>>
      /\ Fewer /\ Covered(n) /\ j \in {"sendNow", "edit", "drop"} /\ (j = "edit" => n.hold # "none")
      /\ n \in Row
  BY <1>1, StopHere, SameFewer DEF TakeNamed, At, server, person, store, Finds, Sorted, FitsJob, Work,
     ClearLabels
<1>3. RowCovered /\ OpensClear /\ StopsNone
  BY <1>2 DEF RowCovered, OpensClear, StopsNone
<1>4. CASE j = "drop" /\ n.hold = "none"
  <2>1. Goto(c, "remove")
    BY <1>1, <1>4 DEF TakeNamed
  <2>2. Finds("remove", j, n, k)' /\ Sorted("remove", j, n)
    BY <1>2, <1>4, CoveredStays DEF Finds, Sorted, Stops, ClearLabels
  <2> QED
    BY <1>1, <1>2, <1>3, <2>1, <2>2, StopGoto DEF Labels
<1>5. CASE ~(j = "drop" /\ n.hold = "none") /\ Claimable
  <2>1. PICK m, l : /\ m = (IF j = "sendNow" THEN n ELSE row) /\ Carry(c, m, l)
                    /\ l = CASE n.hold # "none" -> IF m.hold = "mark" THEN "look" ELSE "ask"
                             [] n.hold = "none" /\ j = "sendNow" -> "try"
                             [] n.hold = "none" /\ j # "sendNow" /\ m.copy = 0 -> "saving"
                             [] OTHER -> "remove"
    BY <1>1, <1>5 DEF TakeNamed
  <2>2. Covered(m)
    BY <1>2, <1>5, <2>1 DEF StopInv, Claimable
  <2>3. CASE n.hold # "none"
    <3>1. l = IF m.hold = "mark" THEN "look" ELSE "ask"
      BY <2>1, <2>3
    <3>2. Finds(l, j, m, k)' /\ Sorted(l, j, m)
      BY <1>2, <2>2, <3>1, CoveredStays DEF Finds, Sorted, ClearLabels
    <3> QED
      BY <1>1, <1>2, <1>3, <2>1, <3>1, <3>2, StopGoes DEF Labels
  <2>4. CASE n.hold = "none"
    <3>1. j = "sendNow" /\ l = "try" /\ m = n
      BY <1>2, <1>5, <2>1, <2>4
    <3>2. Clear
      BY <1>2, <2>4 DEF Covered
    <3>3. Sorted(l, j, m)
      BY <3>1 DEF Sorted
    <3> QED
      BY <1>1, <1>2, <1>3, <2>1, <3>1, <3>2, <3>3, ClearFinds, StopGoes DEF Labels
  <2> QED
    BY <2>3, <2>4
<1>6. CASE ~(j = "drop" /\ n.hold = "none") /\ ~Claimable
  <2>1. Done(c)
    BY <1>1, <1>6 DEF TakeNamed
  <2> QED
    BY <1>2, <1>3, <2>1, StopDone
<1> QED
  BY <1>4, <1>5, <1>6

\* The server takes a message handed over: whoever has it can find the hold.
LEMMA HoldMade ==
  ASSUME Parts, One, NoNewHour, StopInv, NEW c \in Callers, At(c, "handing"),
         NEW k \in Copies, NEW a, MakeHold(k, a), UNCHANGED <<now, row, composer, intent>>,
         LeavesOthers(c), NEW l \in {"holding", "put"}, NEW m, m.hold = "mark", m.since = now,
         Becomes(c, l, Job(c), m), l = "holding" => task'[c].got = k
  PROVE  StopInv'
<1>1. /\ Clear /\ Marking(Msg(c)) /\ Job(c) \in {"schedule", "unchanged"} /\ c \in People
      /\ now \in Nat
  BY StopHere, PassJobs DEF Finds, Sorted, At, ClearLabels
<1>2. /\ \A j \in Copies : /\ place'[j] = "held" => j = k
                           /\ place'[j] = "held" => born'[j] = now
  BY <1>1 DEF MakeHold, Parts, ServerOK, Clear
<1>3. \A r : r.hold = "mark" /\ r.since = now => Covered(r)'
  BY <1>1, <1>2 DEF Covered
<1>4. Only(k)'
  BY <1>2 DEF Only
<1>5. row' # NoRow => Covered(row)'
  <2>1. SUFFICES ASSUME row # NoRow PROVE Covered(row)'
    OBVIOUS
  <2>2. PICK r : r = row
    OBVIOUS
  <2>3. r.hold = "mark" /\ r.since = now
    BY <1>1, <2>1, <2>2 DEF Marking
  <2> QED
    BY <1>3, <2>2, <2>3
<1>6. ASSUME NEW d \in Callers
      PROVE  (/\ Finds(task[d].pc, Job(d), Msg(d), task[d].got)
              /\ Sorted(task[d].pc, Job(d), Msg(d))
              /\ Job(d) = "pass" => task[d].want <= now
              /\ At(d, "handing") => Marking(Msg(d)))'
  <2>1. CASE d = c
    <3>1. PICK j : j = Job(c)
      OBVIOUS
    <3>2. Sorted(l, j, m) /\ (l = "holding" => Finds(l, j, m, k)')
          /\ (l = "put" => \A g : Finds(l, j, m, g)')
      BY <1>1, <1>3, <1>4, <3>1 DEF Sorted, Finds, ClearLabels
    <3> QED
      BY <1>1, <2>1, <3>1, <3>2 DEF Becomes, Msg, Job, At
  <2>2. CASE d # c
    <3>1. d = Pass /\ task[d].pc \in {"idle", "listed"} /\ task'[d] = task[d]
      BY <1>1, <2>2 DEF Callers, NoNewHour, ClaimsHeeded, Marking, Waits, At, LeavesOthers
    <3>2. \A i, b, n, g : i \in {"idle", "listed"} => Finds(i, b, n, g)'
      BY DEF Finds, ClearLabels
    <3>3. Sorted(task[d].pc, Job(d), Msg(d)) /\ (Job(d) = "pass" => task[d].want <= now)
      BY DEF StopInv
    <3>4. Job(d)' = Job(d) /\ Msg(d)' = Msg(d)
      BY <3>1 DEF Job, Msg
    <3> QED
      BY <3>1, <3>2, <3>3, <3>4 DEF At
  <2> QED
    BY <2>1, <2>2
<1>7. intent \notin {"cancel", "delete"}
  BY Busy DEF At
<1>8. composer = Closed
  BY <1>1 DEF Marking
<1> QED
  BY <1>2, <1>5, <1>6, <1>7, <1>8 DEF StopInv

LEMMA HandOverStop ==
  ASSUME Parts, HoldInv, One, NoNewHour, StopInv, NEW c \in Callers, HandOver(c)
  PROVE  StopInv'
<1>1. PICK j, k, n : j = Job(c) /\ k = task[c].got /\ n = Msg(c)
  OBVIOUS
<1>2. /\ At(c, "handing") /\ task[c].pc \notin {"idle", "listed"} /\ UNCHANGED <<now, row, composer, intent>>
      /\ Clear /\ Marking(n) /\ n \in Row /\ j \in {"schedule", "unchanged"}
  BY <1>1, StopHere, PassJobs DEF HandOver, At, person, store, Finds, Sorted, ClearLabels
<1>3. RowCovered /\ OpensClear /\ StopsNone
  BY <1>2 DEF RowCovered, OpensClear, StopsNone
<1>4. CASE /\ UNCHANGED server
           /\ \E l, m : /\ l \in {"saving", "put"} /\ (l = "saving" => j = "schedule")
                       /\ Carry(c, m, l)
  <2>1. PICK l, m : /\ l \in {"saving", "put"} /\ (l = "saving" => j = "schedule")
                    /\ Carry(c, m, l)
    BY <1>4
  <2>2. Fewer
    BY <1>4, SameFewer DEF server
  <2>3. Sorted(l, j, m)
    BY <1>2, <2>1 DEF Sorted
  <2> QED
    BY <1>1, <1>2, <1>3, <2>1, <2>2, <2>3, ClearFinds, StopGoes DEF Labels
<1>5. ASSUME NEW i \in Copies, MakeHold(i, n.at), task' = [task EXCEPT ![c].got = i, ![c].pc = "holding"]
      PROVE  StopInv'
  <2>1. LeavesOthers(c) /\ Becomes(c, "holding", j, n) /\ task'[c].got = i
    BY <1>1, <1>5 DEF Parts, TaskOK, Task, LeavesOthers, Becomes, Job, Msg
  <2>2. n.hold = "mark" /\ n.since = now
    BY <1>2 DEF Marking
  <2> QED
    BY <1>1, <1>2, <1>5, <2>1, <2>2, HoldMade
<1>6. ASSUME NEW i \in Copies, MakeHold(i, n.at), Carry(c, Marked(n, now), "put")
      PROVE  StopInv'
  <2>1. LeavesOthers(c) /\ Becomes(c, "put", j, Marked(n, now))
    BY <1>1, <1>6, CarryIs DEF Parts
  <2>2. Marked(n, now).hold = "mark" /\ Marked(n, now).since = now
    BY <1>2 DEF Marked, Row
  <2> QED
    BY <1>1, <1>2, <1>6, <2>1, <2>2, HoldMade
<1>7. \/ /\ UNCHANGED server
         /\ \E l, m : /\ l \in {"saving", "put"} /\ (l = "saving" => j = "schedule")
                     /\ Carry(c, m, l)
      \/ \E i \in Copies : /\ MakeHold(i, n.at)
                           /\ \/ task' = [task EXCEPT ![c].got = i, ![c].pc = "holding"]
                              \/ Carry(c, Marked(n, now), "put")
  BY <1>1 DEF HandOver
<1> QED
  BY <1>4, <1>5, <1>6, <1>7

LEMMA TakeHoldStop ==
  ASSUME Parts, HoldInv, One, NoNewHour, StopInv, NEW c \in Callers, TakeHold(c)
  PROVE  StopInv'
<1>1. PICK j, k, n : j = Job(c) /\ k = task[c].got /\ n = Msg(c)
  OBVIOUS
<1>2. PICK l : l = IF At(c, "holding") \/ j = "pass" THEN "put" ELSE "ask"
  OBVIOUS
<1>3. PICK m : m = Adopted(n, k)
  OBVIOUS
<1>4. /\ task[c].pc \in {"holding", "found"} /\ UNCHANGED <<now, row, composer, intent>>
      /\ Carry(c, m, l) /\ Only(k) /\ n \in Row /\ Sorted(task[c].pc, j, n)
  BY <1>1, <1>2, <1>3, StopHere DEF TakeHold, person, store, Finds, ClearLabels
<1>5. Fewer
  <2>1. UNCHANGED <<subs, born>> /\ \E old \in {0, n.copy} : place' \in {place, Destroyed(old)}
    BY <1>1 DEF TakeHold
  <2>2. n.copy \in 0..MaxCopies /\ 0 \in 0..MaxCopies
    BY <1>4, SendLaterAssumption DEF Row
  <2> QED
    BY <2>1, <2>2, DestroyedFewer
<1>6. m.hold = "held" /\ m.copy = k
  BY <1>3, <1>4 DEF Adopted, Row
<1>7. Covered(m)'
  BY <1>4, <1>5, <1>6, CoveredStays DEF Covered
<1>8. (l = "put" => j # "edit") /\ j # "newHour"
  BY <1>1, <1>2, <1>4 DEF Sorted, At
<1>9. Finds(l, j, m, k)' /\ Sorted(l, j, m)
  BY <1>2, <1>6, <1>7, <1>8 DEF Finds, Sorted, ClearLabels
<1>10. RowCovered /\ OpensClear /\ StopsNone
  BY <1>4 DEF RowCovered, OpensClear, StopsNone
<1> QED
  BY <1>1, <1>2, <1>4, <1>5, <1>9, <1>10, StopGoes DEF Labels

LEMMA PutRowStop ==
  ASSUME Parts, HoldInv, One, NoNewHour, StopInv, NEW c \in Callers, PutRow(c)
  PROVE  StopInv'
<1>1. PICK n : n = Msg(c)
  OBVIOUS
<1>2. /\ At(c, "put") /\ task[c].pc \notin {"idle", "listed"} /\ row' = n /\ Done(c) /\ UNCHANGED now
      /\ Covered(n) /\ (Job(c) = "edit" => Clear) /\ Fewer
  BY <1>1, StopHere, SameFewer DEF PutRow, Write, At, Finds, ClearLabels, server
<1>3. Covered(n)'
  BY <1>2, CoveredStays
<1>4. RowCovered
  BY <1>2, <1>3 DEF RowCovered
<1>5. OpensClear /\ StopsNone
  BY <1>2, StillClear DEF OpensClear, StopsNone, PutRow
<1> QED
  BY <1>2, <1>4, <1>5, StopDone

LEMMA SaveScheduledStop ==
  ASSUME Parts, HoldInv, One, NoNewHour, StopInv, NEW c \in Callers, SaveScheduled(c)
  PROVE  StopInv'
<1>1. PICK j, k, n : j = Job(c) /\ k = task[c].got /\ n = Msg(c)
  OBVIOUS
<1>2. /\ At(c, "saving") /\ j = "schedule" /\ task[c].pc \notin {"idle", "listed"}
      /\ UNCHANGED <<now, row, composer, intent>> /\ Clear /\ n \in Row
  BY <1>1, StopHere DEF SaveScheduled, At, person, store, Finds, ClearLabels
<1>3. RowCovered /\ OpensClear /\ StopsNone
  BY <1>2 DEF RowCovered, OpensClear, StopsNone
<1>4. Fewer
  <2>1. n.copy \in 0..MaxCopies
    BY <1>2 DEF Row
  <2>2. UNCHANGED server \/ \E i \in Copies : SaveOver(i, n.copy)
    BY <1>1 DEF SaveScheduled
  <2> QED
    BY <2>1, <2>2, SavedFewer, SameFewer DEF server
<1>5. (\E m : Carry(c, m, "put")) \/ Goto(c, "put") \/ Goto(c, "refused")
  BY DEF SaveScheduled
<1>6. \A l \in {"put", "refused"} : \A m : Sorted(l, j, m) /\ Finds(l, j, m, k)'
  BY <1>2, <1>4, ClearFinds DEF Sorted
<1> QED
  BY <1>1, <1>2, <1>3, <1>4, <1>5, <1>6, StopGoto, StopGoes DEF Labels

LEMMA ScheduleRefusedStop ==
  ASSUME Parts, HoldInv, One, NoNewHour, StopInv, NEW c \in Callers, ScheduleRefused(c)
  PROVE  StopInv'
<1>1. /\ task[c].pc \notin {"idle", "listed"} /\ row' = NoRow /\ Done(c) /\ UNCHANGED now
      /\ Clear /\ Fewer /\ intent' = "none"
  BY StopHere, SameFewer DEF ScheduleRefused, Write, At, Finds, ClearLabels, server
<1>2. RowCovered /\ OpensClear /\ StopsNone
  BY <1>1, StillClear DEF RowCovered, OpensClear, StopsNone
<1> QED
  BY <1>1, <1>2, StopDone

LEMMA PassDueStop ==
  ASSUME Parts, HoldInv, One, NoNewHour, StopInv, NEW c \in Callers, PassDue(c)
  PROVE  StopInv'
<1>1. PICK j, k, n : j = Job(c) /\ k = task[c].got /\ n = Msg(c)
  OBVIOUS
<1>2. /\ task[c].pc \notin {"idle", "listed"} /\ j = "pass" /\ UNCHANGED <<now, row, composer, intent>>
      /\ Clear /\ Fewer /\ (Goto(c, "try") \/ LetGo(c))
  BY <1>1, StopHere, SameFewer DEF PassDue, LetGo, store, person, At, Finds, ClearLabels, server
<1>3. RowCovered /\ OpensClear /\ StopsNone
  BY <1>2 DEF RowCovered, OpensClear, StopsNone
<1>4. Finds("try", j, n, k)' /\ Sorted("try", j, n)
  BY <1>2, ClearFinds DEF Sorted
<1> QED
  BY <1>1, <1>2, <1>3, <1>4, StopGoto, StopLetGo DEF Labels

\* An empty look that counts finds what there is: nothing.
LEMMA EmptyClears ==
  ASSUME Parts, NEW m \in Row, m.hold = "mark", Covered(m), {} \in Seen,
         NEW t \in Nat, t <= now, t >= m.since + AskAgain
  PROVE  Clear
<1> SUFFICES ASSUME NEW k \in Copies, place[k] = "held" PROVE FALSE
  BY DEF Clear
<1>1. born[k] <= m.since
  BY DEF Covered
<1>2. born[k] + AskAgain <= now
  BY <1>1, Numbers
<1> QED
  BY <1>2 DEF Seen, HeldCopies

LEMMA LookStop ==
  ASSUME Parts, HoldInv, One, NoNewHour, StopInv, NEW c \in Callers, Look(c)
  PROVE  StopInv'
<1>1. PICK j, k, n : j = Job(c) /\ k = task[c].got /\ n = Msg(c)
  OBVIOUS
<1>2. /\ task[c].pc = "look" /\ task[c].pc \notin {"idle", "listed"} /\ UNCHANGED <<now, row, composer, intent>>
      /\ Covered(n) /\ n \in Row /\ n.hold = "mark" /\ Fewer
      /\ j \in {"pass", "sendNow", "edit", "drop"} /\ (j = "pass" => task[c].want <= now)
      /\ now \in Nat /\ task[c].want \in Nat
  <2>1. task[c].pc = "look" /\ UNCHANGED server
    BY DEF Look, At
  <2>2. UNCHANGED row
    BY DEF Look, LookedNothing, Unreadable, LetGo, store
  <2>3. task[c].want \in Nat
    BY CallerType DEF Parts, Time
  <2> QED
    BY <1>1, <2>1, <2>2, <2>3, StopHere, SameFewer DEF Look, server, person, Sorted, FitsJob, Work, Finds, ClearLabels
<1>3. RowCovered /\ OpensClear /\ StopsNone
  BY <1>2 DEF RowCovered, OpensClear, StopsNone
<1>4. CASE {} \in Seen /\ LookedNothing(c)
  <2>1. CASE LetGo(c)
    BY <1>2, <2>1, StopLetGo
  <2>2. CASE j = "sendNow" /\ Goto(c, "unsure")
    <3>1. Finds("unsure", j, n, k)' /\ Sorted("unsure", j, n)
      BY <1>2, <2>2, CoveredStays DEF Finds, Sorted, ClearLabels
    <3> QED
      BY <1>1, <1>2, <1>3, <2>2, <3>1, StopGoto DEF Labels
  <2>3. CASE TrustsLook(c) /\ (\/ \E m : j = "pass" /\ Carry(c, m, "due")
                               \/ \E m : j = "edit" /\ Carry(c, m, "store")
                               \/ j = "drop" /\ Goto(c, "remove"))
    <3>1. Clear
      <4>1. PICK t : t = Clock(c)
        OBVIOUS
      <4>2. t \in Nat /\ t <= now
        BY <1>1, <1>2, <4>1 DEF Clock
      <4>3. t >= n.since + AskAgain
        BY <1>1, <2>3, <4>1 DEF TrustsLook
      <4> QED
        BY <1>2, <1>4, <4>2, <4>3, EmptyClears
    <3>2. \A l \in {"due", "store", "remove"} : \A m :
             Finds(l, j, m, k)' /\ (l # "store" \/ j = "edit" => Sorted(l, j, m))
      BY <1>2, <3>1, ClearFinds DEF Sorted
    <3>3. {"due", "store", "remove"} \subseteq Labels \ {"handing"}
      BY DEF Labels
    <3> QED
      BY <1>1, <1>2, <1>3, <2>3, <3>2, <3>3, StopGoto, StopGoes
  <2>4. \/ LetGo(c)
        \/ j = "sendNow" /\ Goto(c, "unsure")
        \/ TrustsLook(c) /\ (\/ \E m : j = "pass" /\ Carry(c, m, "due")
                             \/ \E m : j = "edit" /\ Carry(c, m, "store")
                             \/ j = "drop" /\ Goto(c, "remove"))
    BY <1>1, <1>2, <1>4 DEF LookedNothing
  <2> QED
    BY <2>1, <2>2, <2>3, <2>4
<1>5. CASE Unreadable(c)
  <2>1. CASE LetGo(c)
    BY <1>2, <2>1, StopLetGo
  <2>2. CASE j # "drop" /\ Goto(c, "unsure")
    <3>1. Finds("unsure", j, n, k)' /\ Sorted("unsure", j, n)
      BY <1>2, <2>2, CoveredStays DEF Finds, Sorted, ClearLabels
    <3> QED
      BY <1>1, <1>2, <1>3, <2>2, <3>1, StopGoto DEF Labels
  <2>3. CASE PastKnowing(n) /\ Goto(c, "remove")
    <3>1. Finds("remove", j, n, k)' /\ Sorted("remove", j, n)
      BY <1>2, <2>3, CoveredStays DEF Finds, Sorted, ClearLabels, Stops
    <3> QED
      BY <1>1, <1>2, <1>3, <2>3, <3>1, StopGoto DEF Labels
  <2> QED
    BY <1>1, <1>5, <2>1, <2>2, <2>3 DEF Unreadable
<1>6. ASSUME NEW V \in Seen, NEW i \in V, V = {i}, task' = [task EXCEPT ![c].got = i, ![c].pc = "found"]
      PROVE  StopInv'
  <2>1. LeavesOthers(c) /\ Becomes(c, "found", j, n) /\ task'[c].got = i /\ task'[c].want = task[c].want
    BY <1>1, <1>6 DEF Parts, TaskOK, Task, LeavesOthers, Becomes, Job, Msg
  <2>2. i \in Copies /\ place[i] = "held"
    BY <1>6 DEF Seen, HeldCopies
  <2>3. Only(i)
    BY <2>2 DEF StopInv, Only
  <2>4. Finds("found", j, n, i)
    BY <1>2, <2>3 DEF Finds, ClearLabels
  <2>5. Finds("found", j, n, i)' /\ Sorted("found", j, n)
    BY <1>2, <2>4, FindsStays DEF Sorted
  <2> QED
    BY <1>2, <2>1, <2>5, StopStep DEF Labels
<1>7. \/ {} \in Seen /\ LookedNothing(c)
      \/ Unreadable(c) \/ LetGo(c)
      \/ \E V \in Seen : \E i \in V : V = {i} /\ task' = [task EXCEPT ![c].got = i, ![c].pc = "found"]
  BY DEF Look
<1> QED
  BY <1>2, <1>4, <1>5, <1>6, <1>7, StopLetGo

LEMMA AskStop ==
  ASSUME Parts, HoldInv, One, NoNewHour, StopInv, NEW c \in Callers, Ask(c)
  PROVE  StopInv'
<1>1. PICK j, g, n, k : j = Job(c) /\ g = task[c].got /\ n = Msg(c) /\ k = n.copy
  OBVIOUS
<1>2. PICK standing : standing = Standing(k, n.at)
  OBVIOUS
<1>3. /\ task[c].pc = "ask" /\ task[c].pc \notin {"idle", "listed"} /\ UNCHANGED <<now, row, composer, intent>>
      /\ Covered(n) /\ n \in Row /\ n.hold # "mark" /\ j # "newHour" /\ UNCHANGED born
      /\ k \in 0..MaxCopies
  <2>1. task[c].pc = "ask" /\ UNCHANGED <<now, composer, intent, born>>
    BY DEF Ask, At, person, server
  <2>2. UNCHANGED row
    BY DEF Ask, LetGo, store
  <2>3. n \in Row
    BY <1>1, CallerType DEF Parts
  <2> QED
    BY <1>1, <2>1, <2>2, <2>3, StopHere DEF Sorted, Finds, ClearLabels, Row
<1>4. RowCovered /\ OpensClear /\ StopsNone
  BY <1>3 DEF RowCovered, OpensClear, StopsNone
\* Only the copy of the row can be held.
<1>5. /\ Only(k) /\ HoldsShow
      /\ k = 0 => standing = "unknown" /\ Clear
      /\ k # 0 => k \in Copies /\ (standing = "pending" <=> subs[k] = "pending")
  <2>1. Only(k) /\ HoldsShow
    BY <1>1, <1>3 DEF Covered, Clear, Only, Row, HoldInv, ServerInv
  <2>2. k = 0 => standing = "unknown" /\ Clear
    BY <1>2, <2>1 DEF Standing, Only, Clear, Copies
  <2>3. k # 0 => k \in Copies
    BY <1>3, SendLaterAssumption DEF Copies
  <2>4. k # 0 => (standing = "pending" <=> subs[k] = "pending")
    BY <1>2, <2>3 DEF Standing, Fate, Parts, ServerOK, Standings
  <2> QED
    BY <2>1, <2>2, <2>3, <2>4
\* A cancel, or an answer, leaves nothing pending; what was taken off is not held.
<1>6. ASSUME k # 0, subs' = [subs EXCEPT ![k] = "canceled"], place' \in {place, TakenOff(k)}
      PROVE  Fewer /\ Silent' /\ (place' = TakenOff(k) => Clear')
  <2>1. \A i \in Copies : subs'[i] = IF i = k THEN "canceled" ELSE subs[i]
    BY <1>6 DEF Parts, ServerOK
  <2>2. Fewer
    BY <1>3, <1>5, <1>6, <2>1, TakenOffFewer
  <2>3. Silent'
    BY <1>5, <2>1 DEF Silent, HoldsShow, Only
  <2>4. place' = TakenOff(k) => Clear'
    BY <1>5, <1>6 DEF TakenOff, Clear, Only, Parts, ServerOK
  <2> QED
    BY <2>2, <2>3, <2>4
<1>7. ASSUME standing # "pending", UNCHANGED subs,
             place' = place \/ (k # 0 /\ place' \in {Filed(k), TakenOff(k)})
      PROVE  Fewer /\ Silent' /\ (place' = TakenOff(k) /\ k # 0 => Clear')
  <2>1. Fewer
    BY <1>3, <1>5, <1>7, FiledFewer, TakenOffFewer, SameFewer
  <2>2. Silent'
    BY <1>5, <1>7 DEF Silent, HoldsShow, Only, Clear
  <2>3. place' = TakenOff(k) /\ k # 0 => Clear'
    BY <1>5 DEF TakenOff, Clear, Only, Parts, ServerOK
  <2> QED
    BY <2>1, <2>2, <2>3
\* Where the answer takes the caller.
<1>8. ASSUME Fewer, NEW s, Answered(c, s), Silent', s = "notSent" /\ j # "drop" => Clear'
      PROVE  StopInv'
  <2>1. Covered(n)'
    BY <1>3, <1>8, CoveredStays
  <2>2. \A l \in {"remove", "forget", "unsure"} :
           Finds(l, j, n, g)' /\ Sorted(l, j, n)
    BY <1>3, <1>8, <2>1 DEF Finds, Sorted, ClearLabels
  <2>3. Clear' /\ j # "drop" => Finds("fate", j, n, g)' /\ Sorted("fate", j, n)
    BY <1>3, <2>1 DEF Finds, Sorted, ClearLabels
  <2>4. \/ \E l \in {"remove", "forget", "unsure"} : Goto(c, l)
        \/ s = "notSent" /\ j # "drop" /\ Goto(c, "fate")
    BY <1>1, <1>8 DEF Answered
  <2>5. {"remove", "forget", "unsure", "fate"} \subseteq Labels \ {"handing"}
    BY DEF Labels
  <2> QED
    BY <1>1, <1>3, <1>4, <1>8, <2>2, <2>3, <2>4, <2>5, StopGoto
<1>9. ASSUME Fewer, LetGo(c) \/ (PastKnowing(n) /\ Goto(c, "remove"))
      PROVE  StopInv'
  <2>1. CASE LetGo(c)
    BY <1>3, <1>9, <2>1, StopLetGo
  <2>2. CASE PastKnowing(n) /\ Goto(c, "remove")
    <3>1. Covered(n)'
      BY <1>3, <1>9, CoveredStays
    <3>2. Finds("remove", j, n, g)' /\ Sorted("remove", j, n)
      BY <1>3, <2>2, <3>1 DEF Finds, Sorted, ClearLabels, Stops
    <3> QED
      BY <1>1, <1>3, <1>4, <1>9, <2>2, <3>2, StopGoto DEF Labels
  <2> QED
    BY <1>9, <2>1, <2>2
<1>10. \/ LetGo(c) /\ UNCHANGED server
       \/ /\ standing = "pending" /\ subs' = [subs EXCEPT ![k] = "canceled"] /\ place' = TakenOff(k)
          /\ Answered(c, "notSent")
       \/ /\ standing \in {"sent", "notSent", "unknown"} /\ Answered(c, standing) /\ UNCHANGED subs
          /\ \/ place' = CASE standing = "sent" -> Filed(k)
                             [] standing = "notSent" -> TakenOff(k)
                             [] OTHER -> place
             \/ standing = "sent" /\ UNCHANGED place
       \/ /\ \/ UNCHANGED <<place, subs>>
             \/ /\ standing = "pending" /\ subs' = [subs EXCEPT ![k] = "canceled"]
                /\ place' \in {place, TakenOff(k)}
          /\ LetGo(c) \/ (PastKnowing(n) /\ Goto(c, "remove"))
  BY <1>1, <1>2 DEF Ask
<1>11. CASE LetGo(c) /\ UNCHANGED server
  BY <1>9, <1>11, SameFewer DEF server
<1>12. CASE /\ standing = "pending" /\ subs' = [subs EXCEPT ![k] = "canceled"] /\ place' = TakenOff(k)
            /\ Answered(c, "notSent")
  BY <1>5, <1>6, <1>8, <1>12
<1>13. CASE /\ standing \in {"sent", "notSent", "unknown"} /\ Answered(c, standing) /\ UNCHANGED subs
            /\ \/ place' = CASE standing = "sent" -> Filed(k)
                               [] standing = "notSent" -> TakenOff(k)
                               [] OTHER -> place
               \/ standing = "sent" /\ UNCHANGED place
  <2>1. standing # "pending" /\ (standing = "notSent" => k # 0 /\ place' = TakenOff(k))
    BY <1>5, <1>13
  <2>2. place' = place \/ (k # 0 /\ place' \in {Filed(k), TakenOff(k)})
    BY <1>5, <1>13
  <2> QED
    BY <1>7, <1>8, <1>13, <2>1, <2>2
<1>14. CASE /\ \/ UNCHANGED <<place, subs>>
               \/ /\ standing = "pending" /\ subs' = [subs EXCEPT ![k] = "canceled"]
                  /\ place' \in {place, TakenOff(k)}
            /\ LetGo(c) \/ (PastKnowing(n) /\ Goto(c, "remove"))
  BY <1>3, <1>5, <1>6, <1>9, <1>14, SameFewer
<1> QED
  BY <1>10, <1>11, <1>12, <1>13, <1>14

\* A caller with nothing held, that leaves the composer and the person's word.
LEMMA ClearStep ==
  ASSUME Parts, HoldInv, One, NoNewHour, StopInv, NEW c \in Callers, task[c].pc \in ClearLabels,
         Fewer, UNCHANGED <<now, composer, intent>>, NEW l \in Labels \ {"handing"}, NEW m,
         (Goto(c, l) /\ m = Msg(c)) \/ Carry(c, m, l), Sorted(l, Job(c), m)
  PROVE  StopInv'
<1>1. PICK j, k : j = Job(c) /\ k = task[c].got
  OBVIOUS
<1>2. Clear /\ task[c].pc \notin {"idle", "listed"}
  BY StopHere DEF Finds, ClearLabels
<1>3. Finds(l, j, m, k)'
  BY <1>2, ClearFinds
<1>4. Covered(row)'
  BY <1>2, StillClear, ThenCovered
<1> QED
  BY <1>1, <1>2, <1>3, <1>4, StopGoto, StopGoes DEF RowCovered, OpensClear, StopsNone

LEMMA ClearDone ==
  ASSUME Parts, HoldInv, One, NoNewHour, StopInv, NEW c \in Callers, task[c].pc \in ClearLabels,
         Fewer, UNCHANGED <<now, intent>>, Done(c)
  PROVE  StopInv'
<1>1. Clear /\ task[c].pc \notin {"idle", "listed"}
  BY StopHere DEF Finds, ClearLabels
<1>2. Clear' /\ Covered(row)'
  BY <1>1, StillClear, ThenCovered
<1> QED
  BY <1>1, <1>2, StopDone DEF RowCovered, OpensClear, StopsNone

LEMMA CalledBackStop ==
  ASSUME Parts, HoldInv, One, NoNewHour, StopInv, NEW c \in Callers, CalledBack(c)
  PROVE  StopInv'
<1>1. /\ task[c].pc = "fate" /\ UNCHANGED <<now, composer, intent>> /\ Fewer
      /\ Sorted(task[c].pc, Job(c), Msg(c)) /\ Job(c) # "cancel"
  BY StopHere, SameFewer DEF CalledBack, At, person, server
<1>2. \E l \in {"restore", "forget", "elsewhere", "remove", "store"} :
          Goto(c, l) /\ (l = "restore" => Job(c) = "cancel")
  <2>1. PICK went, left \in BOOLEAN :
          Goto(c, IF Job(c) = "cancel" /\ left THEN "restore"
                  ELSE IF went THEN "forget"
                  ELSE CASE Job(c) = "pass" /\ ~left -> "elsewhere"
                         [] Job(c) = "pass" <=> left -> "remove"
                         [] OTHER -> "store")
    BY DEF CalledBack, Parts, ServerOK
  <2>2. CASE went
    BY <1>1, <2>1, <2>2
  <2>3. CASE ~went /\ Job(c) = "pass" /\ ~left
    BY <1>1, <2>1, <2>3
  <2>4. CASE ~went /\ (Job(c) = "pass" <=> left)
    BY <1>1, <2>1, <2>4
  <2>5. CASE ~went /\ ~(Job(c) = "pass" <=> left) /\ Job(c) # "pass"
    BY <1>1, <2>1, <2>5
  <2> QED
    BY <2>2, <2>3, <2>4, <2>5
<1>3. \A l \in {"forget", "elsewhere", "remove", "store"} : Sorted(l, Job(c), Msg(c))
  BY <1>1 DEF Sorted
<1>4. {"forget", "elsewhere", "remove", "store"} \subseteq Labels \ {"handing"} /\ "fate" \in ClearLabels
  BY DEF Labels, ClearLabels
<1> QED
  BY <1>1, <1>2, <1>3, <1>4, ClearStep

LEMMA StoreStop ==
  ASSUME Parts, HoldInv, One, NoNewHour, StopInv, NEW c \in Callers, Store(c)
  PROVE  StopInv'
<1>1. /\ task[c].pc = "store" /\ UNCHANGED <<now, composer, intent>> /\ Fewer
      /\ Sorted(task[c].pc, Job(c), Msg(c))
  BY StopHere, SameFewer DEF Store, At, person, server
<1>2. PICK m : Carry(c, m, "reclaim")
  BY DEF Store
<1>3. Sorted("reclaim", Job(c), m)
  BY <1>1 DEF Sorted
<1> QED
  BY <1>1, <1>2, <1>3, ClearStep DEF Labels, ClearLabels

LEMMA ReclaimStop ==
  ASSUME Parts, HoldInv, One, NoNewHour, StopInv, NEW c \in Callers, Reclaim(c)
  PROVE  StopInv'
<1>1. /\ task[c].pc = "reclaim" /\ UNCHANGED <<now, composer, intent>> /\ Fewer
      /\ Sorted(task[c].pc, Job(c), Msg(c)) /\ Job(c) \in {"sendNow", "edit"}
  BY StopHere, SameFewer DEF Reclaim, At, person, server, Sorted, FitsJob, Work
<1>2. \/ Done(c)
      \/ Goto(c, "try")
      \/ Job(c) = "edit" /\ Goto(c, "restore")
  BY <1>1 DEF Reclaim
<1> QED
  BY <1>1, <1>2, ClearStep, ClearDone DEF Labels, ClearLabels, Sorted

LEMMA StuckStop ==
  ASSUME Parts, HoldInv, One, NoNewHour, StopInv, NEW c \in Callers, Stuck(c)
  PROVE  StopInv'
<1>1. PICK n : n = Msg(c)
  OBVIOUS
<1>2. /\ task[c].pc \in {"unsure", "elsewhere"} /\ task[c].pc \notin {"idle", "listed"}
      /\ UNCHANGED <<now, composer, intent>> /\ Fewer /\ n \in Row /\ Covered(n) /\ Done(c)
  BY <1>1, StopHere, SameFewer DEF Stuck, At, person, server, Finds, ClearLabels
<1>3. CASE At(c, "unsure")
  <2>1. PICK m : m = [[n EXCEPT !.tried = TRUE] EXCEPT !.problem = "checkSent"]
    OBVIOUS
  <2>2. row' = m
    BY <1>1, <1>3, <2>1 DEF Stuck, Write, At
  <2>3. m.hold = n.hold /\ m.since = n.since /\ m.copy = n.copy
    BY <1>2, <2>1 DEF Row
  <2>4. Covered(m)
    BY <1>2, <2>3 DEF Covered
  <2>5. Covered(row)'
    BY <1>2, <2>2, <2>4, CoveredStays
  <2> QED
    BY <1>2, <2>5, StopDone DEF RowCovered, OpensClear, StopsNone
<1>4. CASE At(c, "elsewhere")
  BY <1>2, <1>4, ClearDone DEF At, ClearLabels
<1> QED
  BY <1>2, <1>3, <1>4 DEF At

LEMMA RestoreStop ==
  ASSUME Parts, HoldInv, One, NoNewHour, StopInv, NEW c \in Callers, Restore(c)
  PROVE  StopInv'
<1>1. /\ task[c].pc = "restore" /\ UNCHANGED <<now, composer, intent>> /\ Job(c) = "edit"
      /\ Msg(c).copy \in 0..MaxCopies
  BY StopHere DEF Restore, At, person, Sorted, Row
<1>2. Fewer
  BY <1>1, SavedFewer, SameFewer DEF Restore, server
<1>3. (\E m : Carry(c, m, "put")) \/ Goto(c, "put")
  BY <1>1 DEF Restore
<1>4. \A m : Sorted("put", Job(c), m)
  BY <1>1 DEF Sorted
<1> QED
  BY <1>1, <1>2, <1>3, <1>4, ClearStep DEF Labels, ClearLabels

LEMMA RemoveRowStop ==
  ASSUME Parts, HoldInv, One, NoNewHour, StopInv, NEW c \in Callers, RemoveRow(c)
  PROVE  StopInv'
<1>1. PICK j, n : j = Job(c) /\ n = Msg(c)
  OBVIOUS
<1>2. /\ At(c, "remove") /\ task[c].pc \notin {"idle", "listed"} /\ row' = NoRow /\ Done(c)
      /\ UNCHANGED <<now, composer, subs>> /\ Fewer /\ j \in Work \ {"cancel"}
      /\ (j = "drop" /\ Stops(n) => Silent) /\ FitsJob(c, "remove", j)
  BY <1>1, StopHere, SameFewer DEF RemoveRow, Write, At, server, Finds
<1>3. CASE j = "drop" /\ Stops(n)
  <2>1. intent' = "delete" /\ Silent'
    BY <1>1, <1>2, <1>3 DEF RemoveRow, Stops, Silent
  <2>2. c \in People /\ c # Pass
    BY <1>2, <1>3, SendLaterAssumption DEF FitsJob, Callers
  <2>3. UnderClaim(c)
    BY <1>1, <1>2, <1>3, NowAt DEF UnderAt, At, Stops
  <2>4. Pass \in Callers /\ ~UnderClaim(Pass)
    BY <2>2, <2>3 DEF One, Callers
  <2>5. Waits
    BY <2>4, PassJobs
  <2>6. task'[Pass] = task[Pass] /\ At(c, "idle")'
    BY <1>2, <2>2, <2>4, DoneIs DEF Parts, LeavesOthers, Becomes, At
  <2>7. Waits' /\ \A p \in People : At(p, "idle")'
    BY <2>2, <2>5, <2>6 DEF NoNewHour, ClaimsHeeded, Waits, At
  <2>8. Stopped'
    BY <1>2, <2>1, <2>7 DEF Stopped
  <2> QED
    BY <1>2, <2>1, <2>8, StopDone DEF RowCovered, OpensClear
<1>4. CASE ~(j = "drop" /\ Stops(n))
  <2>1. intent' \in {intent, "drop"}
    <3>1. intent' = CASE j = "cancel" -> "cancel"
                   [] j = "pass" -> intent
                   [] j = "drop" /\ Stops(n) -> "delete"
                   [] OTHER -> "drop"
      BY <1>1 DEF RemoveRow, Stops
    <3> QED
      BY <1>2, <1>4, <3>1
  <2> QED
    BY <1>2, <2>1, StopDone DEF RowCovered, OpensClear, StopsNone
<1> QED
  BY <1>3, <1>4

LEMMA TryStop ==
  ASSUME Parts, HoldInv, One, NoNewHour, StopInv, NEW c \in Callers, Try(c)
  PROVE  StopInv'
<1>1. /\ task[c].pc = "try" /\ UNCHANGED <<now, composer, intent>> /\ Fewer
      /\ Sorted(task[c].pc, Job(c), Msg(c))
  BY StopHere, SameFewer DEF Try, At, person, server
<1>2. \E l \in {"lookSent", "send"} : Goto(c, l)
  BY DEF Try
<1>3. \A l \in {"lookSent", "send"} : Sorted(l, Job(c), Msg(c))
  BY <1>1 DEF Sorted
<1> QED
  BY <1>1, <1>2, <1>3, ClearStep DEF Labels, ClearLabels

LEMMA LookSentStop ==
  ASSUME Parts, HoldInv, One, NoNewHour, StopInv, NEW c \in Callers, LookSent(c)
  PROVE  StopInv'
<1>1. /\ task[c].pc = "lookSent" /\ UNCHANGED <<now, composer, intent, subs, born>>
      /\ Sorted(task[c].pc, Job(c), Msg(c)) /\ Msg(c).copy \in 0..MaxCopies
  BY StopHere DEF LookSent, At, person, Row
<1>2. Fewer
  BY <1>1, DestroyedFewer DEF LookSent
<1>3. \E l \in {"forget", "send", "keep", "stick"} : Goto(c, l)
  BY DEF LookSent
<1>4. \A l \in {"forget", "send", "keep", "stick"} : Sorted(l, Job(c), Msg(c))
  BY <1>1 DEF Sorted
<1> QED
  BY <1>1, <1>2, <1>3, <1>4, ClearStep DEF Labels, ClearLabels

LEMMA SendStop ==
  ASSUME Parts, HoldInv, One, NoNewHour, StopInv, NEW c \in Callers, Send(c)
  PROVE  StopInv'
<1>1. /\ task[c].pc = "send" /\ UNCHANGED <<now, composer, intent, subs, born>>
      /\ Sorted(task[c].pc, Job(c), Msg(c)) /\ Msg(c).copy \in 0..MaxCopies
  BY StopHere DEF Send, At, person, Row
<1>2. Fewer
  BY <1>1, DestroyedFewer DEF Send
<1>3. \E l \in {"forget", "keep", "stick"} : Goto(c, l)
  BY DEF Send
<1>4. \A l \in {"forget", "keep", "stick"} : Sorted(l, Job(c), Msg(c))
  BY <1>1 DEF Sorted
<1> QED
  BY <1>1, <1>2, <1>3, <1>4, ClearStep DEF Labels, ClearLabels

LEMMA ForgetStop ==
  ASSUME Parts, HoldInv, One, NoNewHour, StopInv, NEW c \in Callers, Forget(c)
  PROVE  StopInv'
<1>1. /\ task[c].pc \notin {"idle", "listed"} /\ UNCHANGED <<now, composer, intent>> /\ Fewer /\ Done(c)
      /\ row' \in {row, NoRow}
  BY SameFewer DEF Forget, At, person, server, Write, store
<1> QED
  BY <1>1, StopDone DEF RowCovered, OpensClear, StopsNone

LEMMA KeepStop ==
  ASSUME Parts, HoldInv, One, NoNewHour, StopInv, NEW c \in Callers, Keep(c)
  PROVE  StopInv'
<1>1. Job(c) # "post"
  BY StopHere
<1>2. /\ task[c].pc \in ClearLabels /\ UNCHANGED <<now, composer, intent>> /\ Fewer /\ Done(c)
  BY <1>1, SameFewer DEF Keep, At, person, server, ClearLabels
<1> QED
  BY <1>2, ClearDone

LEMMA StepStop ==
  ASSUME Parts, HoldInv, One, NoNewHour, StopInv, NEW c \in Callers, Step(c)
  PROVE  StopInv'
<1>1. ~Called(c) /\ ~Reopened(c)
  BY StopHere DEF Called, Reopened, At, FitsJob, Sorted
<1> QED
  BY <1>1, TakeNamedStop, HandOverStop, TakeHoldStop, PutRowStop, SaveScheduledStop, ScheduleRefusedStop,
     PassDueStop, LookStop, AskStop, CalledBackStop, StoreStop, ReclaimStop, StuckStop, RestoreStop,
     RemoveRowStop, TryStop, LookSentStop, SendStop, ForgetStop, KeepStop DEF Step

----------------------------------------------------------------------------
(* What begins, and the world.                                             *)

\* A step that leaves every caller.
LEMMA StopWorld ==
  ASSUME Parts, StopInv, UNCHANGED task, Fewer, now' \in Nat, now <= now',
         (\A p \in People : ~At(p, "handing")) \/ UNCHANGED <<row, composer, now>>,
         RowCovered, OpensClear, row = NoRow => row' = NoRow, StopsNone,
         At(Pass, "handing") => FALSE
  PROVE  StopInv'
<1>1. ASSUME NEW d \in Callers
      PROVE  (/\ Finds(task[d].pc, Job(d), Msg(d), task[d].got)
              /\ Sorted(task[d].pc, Job(d), Msg(d))
              /\ Job(d) = "pass" => task[d].want <= now
              /\ At(d, "handing") => Marking(Msg(d)))'
  <2>1. PICK a, b, n, g : a = task[d].pc /\ b = Job(d) /\ n = Msg(d) /\ g = task[d].got
    OBVIOUS
  <2>2. a = task'[d].pc /\ b = Job(d)' /\ n = Msg(d)' /\ g = task'[d].got
    BY <2>1 DEF Msg, Job
  <2>3. Finds(a, b, n, g) /\ Sorted(a, b, n) /\ (At(d, "handing") => Marking(n))
    BY <2>1 DEF StopInv
  <2>4. Finds(a, b, n, g)'
    BY <2>3, FindsStays
  <2>5. At(d, "handing") => Marking(n)'
    BY <2>3 DEF Marking, Waits, At, Callers
  <2>6. task[d].want \in Nat /\ now \in Nat
    BY CallerType DEF Parts, RestOK, Time
  <2>7. Job(d)' = "pass" => task'[d].want <= now'
    BY <2>6 DEF StopInv, Job
  <2> QED
    BY <2>2, <2>3, <2>4, <2>5, <2>7 DEF At
<1>2. \A i, g \in Copies : place'[i] = "held" /\ place'[g] = "held" => i = g
  BY DEF StopInv, Fewer
<1>3. row' # NoRow => Covered(row)'
  <2>1. SUFFICES ASSUME row' = row, row # NoRow PROVE Covered(row)'
    BY DEF RowCovered
  <2>2. PICK r : r = row
    OBVIOUS
  <2>3. Covered(r)'
    BY <2>1, <2>2, CoveredStays DEF StopInv
  <2> QED
    BY <2>1, <2>2, <2>3
<1>4. composer' # Closed => Clear'
  BY StillClear DEF StopInv, OpensClear
<1>5. intent' = "delete" => Stopped'
  BY DEF StopsNone, StopInv, Stopped, Silent, Waits, At, Fewer
<1> QED
  BY <1>1, <1>2, <1>3, <1>4, <1>5 DEF StopInv, StopsNone

LEMMA NobodyHands ==
  ASSUME Parts, One, StopInv
  PROVE  /\ ~At(Pass, "handing")
         /\ \A p \in People : At(p, "handing") => HandingOver(p) /\ Waits
<1>1. ~At(Pass, "handing")
  BY PassJobs, SendLaterAssumption DEF Callers
<1>2. \A p \in People : At(p, "handing") => HandingOver(p) /\ Waits
  <2> SUFFICES ASSUME NEW p \in People, At(p, "handing") PROVE HandingOver(p) /\ Waits
    OBVIOUS
  <2>1. p \in Callers /\ Sorted("handing", Job(p), Msg(p)) /\ Marking(Msg(p))
    BY PassJobs DEF Callers, At
  <2> QED
    BY <2>1 DEF Sorted, HandingOver, At, Marking
<1> QED
  BY <1>1, <1>2

LEMMA PassStartStop ==
  ASSUME Parts, HoldInv, One, NoNewHour, StopInv, PassStart
  PROVE  StopInv'
<1>1. /\ LeavesOthers(Pass) /\ Becomes(Pass, "listed", "pass", row) /\ task'[Pass].want = now
      /\ UNCHANGED <<now, row, composer, intent, place, subs, born>> /\ row # NoRow /\ Pass \in Callers
  BY StartIs DEF PassStart, Callers, Parts, store, server, person, Start, TaskOK
<1>2. Fewer
  BY <1>1, SameFewer
<1>3. PICK m, k : m = row /\ k = task'[Pass].got
  OBVIOUS
<1>4. Finds("listed", "pass", m, k)' /\ Sorted("listed", "pass", m)
  BY DEF Finds, Sorted, ClearLabels
<1>5. Waits'
  BY <1>1 DEF Waits, Becomes, At
<1>6. Covered(row)'
  <2>1. Covered(m)'
    BY <1>1, <1>2, <1>3, CoveredStays DEF StopInv
  <2> QED
    BY <1>1, <1>3, <2>1
<1>7. intent' # "cancel" /\ intent' # "delete"
  BY <1>1 DEF StopInv, Stopped
<1>8. composer' # Closed => Clear'
  BY <1>1, <1>2, StillClear DEF StopInv
<1>9. now <= now
  BY DEF Parts, RestOK, Time
<1> QED
  BY <1>1, <1>2, <1>3, <1>4, <1>5, <1>6, <1>7, <1>8, <1>9, StopMoves

LEMMA PassClaimStop ==
  ASSUME Parts, HoldInv, One, NoNewHour, StopInv, PassClaim
  PROVE  StopInv'
<1>1. /\ UNCHANGED <<now, row, composer, intent, place, subs, born>> /\ Pass \in Callers
      /\ At(Pass, "listed") /\ HandedOver
  BY DEF PassClaim, Callers, store, server, person
<1>2. Fewer
  BY <1>1, SameFewer
<1>3. PICK m : m = row
  OBVIOUS
<1>4. row' # NoRow => Covered(m)' /\ Covered(row)'
  <2>1. row # NoRow => Covered(m)'
    BY <1>2, <1>3, CoveredStays DEF StopInv
  <2> QED
    BY <1>1, <1>3, <2>1
<1>5. composer' # Closed => Clear'
  BY <1>1, <1>2, StillClear DEF StopInv
<1>6. \A d \in Callers : ~At(d, "handing")
  BY <1>1, NobodyHands DEF HandedOver, NoNewHour, ClaimsHeeded, Callers
<1>7. CASE Claimable
  <2>1. Carry(Pass, m, Route(m)) /\ row # NoRow
    BY <1>3, <1>7 DEF PassClaim, Claimable
  <2>2. PICK j, k, l : j = Job(Pass) /\ k = task[Pass].got /\ l = Route(m)
    OBVIOUS
  <2>3. LeavesOthers(Pass) /\ Becomes(Pass, l, j, m) /\ task'[Pass].got = k /\ task'[Pass].want = task[Pass].want
    BY <1>1, <2>1, <2>2, CarryIs DEF Parts, Carry, TaskOK, Task
  <2>4. m \in Row /\ Covered(m)' /\ (m.hold = "none" => Clear)
    BY <1>1, <1>3, <1>4, <2>1 DEF Parts, StoreOK, StopInv, Covered
  <2>5. l \in {"look", "ask", "due"} /\ (l = "look" <=> m.hold = "mark") /\ (l = "due" <=> m.hold = "none")
    BY <2>2, <2>4 DEF Route, Row
  <2>6. j = "pass"
    BY <1>1, <2>2, OneNow DEF FitsJob, At
  <2>7. Sorted(l, j, m)
    BY <2>5, <2>6 DEF Sorted
  <2>8. Finds(l, j, m, k)'
    BY <1>2, <2>4, <2>5, <2>6, StillClear DEF Finds, ClearLabels
  <2>9. intent' # "cancel" /\ intent' # "delete"
    BY <1>1, <2>1 DEF StopInv, Stopped
  <2>10. j = "pass" => task'[Pass].want <= now
    BY <1>1, <2>2, <2>3 DEF StopInv
  <2> QED
    BY <1>1, <1>2, <1>4, <1>5, <1>6, <2>3, <2>5, <2>7, <2>8, <2>9, <2>10, StopMoves
<1>8. CASE ~Claimable
  <2>1. Done(Pass)
    BY <1>8 DEF PassClaim
  <2>2. LeavesOthers(Pass) /\ Becomes(Pass, "idle", "none", Plain(0, 0))
    BY <1>1, <2>1, DoneIs DEF Parts
  <2>3. PICK k : k = task'[Pass].got
    OBVIOUS
  <2>4. Finds("idle", "none", Plain(0, 0), k)' /\ Sorted("idle", "none", Plain(0, 0))
    BY DEF Finds, Sorted, ClearLabels
  <2>5. intent' # "cancel" /\ (intent' = "delete" => Stopped')
    <3>1. Waits' /\ \A p \in People : task'[p] = task[p]
      BY <2>2, SendLaterAssumption DEF Waits, Becomes, At, LeavesOthers, Callers
    <3> QED
      BY <1>1, <3>1 DEF StopInv, Stopped, Silent, At
  <2> QED
    BY <1>1, <1>2, <1>4, <1>5, <1>6, <2>2, <2>3, <2>4, <2>5, StopMoves
<1> QED
  BY <1>7, <1>8

LEMMA AdoptStop ==
  ASSUME Parts, HoldInv, One, NoNewHour, StopInv, NEW k \in Copies, Adopt(k)
  PROVE  StopInv'
<1>1. /\ UNCHANGED <<now, row, composer, intent, subs, born>> /\ Pass \in Callers /\ row = NoRow
      /\ place[k] = "held" /\ \A d \in Callers \ {Pass} : At(d, "idle")
  BY DEF Adopt, Callers, store, person, Quiet
<1>2. CASE subs[k] = "pending"
  <2>1. PICK m : m = Adopted(Plain(hour[k], k), k)
    OBVIOUS
  <2>2. Start(Pass, "put", "pass", m, now) /\ UNCHANGED place
    BY <1>2, <2>1 DEF Adopt
  <2>3. LeavesOthers(Pass) /\ Becomes(Pass, "put", "pass", m) /\ task'[Pass].want = now
    BY <1>1, <2>2, StartIs DEF Parts, Start, TaskOK
  <2>4. Fewer
    BY <1>1, <2>2, SameFewer
  <2>5. m.hold = "held" /\ m.copy = k
    BY <2>1 DEF Adopted, Plain
  <2>6. Covered(m)
    BY <1>1, <2>5 DEF Covered, Only, StopInv
  <2>7. PICK g : g = task'[Pass].got
    OBVIOUS
  <2>8. Finds("put", "pass", m, g)' /\ Sorted("put", "pass", m)
    BY <2>4, <2>6, CoveredStays DEF Finds, Sorted, ClearLabels
  <2>9. intent' # "cancel" /\ intent' # "delete"
    BY <1>1, <1>2 DEF StopInv, Stopped, Silent
  <2>10. composer' # Closed => Clear'
    BY <1>1, <2>4, StillClear DEF StopInv
  <2>11. now <= now
    BY DEF Parts, RestOK, Time
  <2> QED
    BY <1>1, <2>3, <2>4, <2>7, <2>8, <2>9, <2>10, <2>11, StopMoves DEF At
<1>3. CASE subs[k] # "pending"
  <2>1. UNCHANGED task /\ place' \in {Filed(k), TakenOff(k)}
    BY <1>3 DEF Adopt
  <2>2. Fewer
    BY <1>1, <2>1, FiledFewer, TakenOffFewer
  <2>3. now \in Nat
    BY DEF Parts, RestOK, Time
  <2>4. RowCovered /\ OpensClear /\ StopsNone
    BY <1>1 DEF RowCovered, OpensClear, StopsNone
  <2> QED
    BY <1>1, <2>1, <2>2, <2>3, <2>4, NobodyHands, StopWorld
<1> QED
  BY <1>2, <1>3

LEMMA NameStop ==
  ASSUME Parts, HoldInv, One, NoNewHour, StopInv, NEW c \in People, NEW job \in {"sendNow", "edit", "drop"},
         NEW w, Name(c, job, w), job = "edit" => row.hold # "none", intent' \in {intent, "send"}
  PROVE  StopInv'
<1>1. /\ UNCHANGED <<now, row, composer, place, subs, born>> /\ row # NoRow /\ c \in Callers
      /\ Start(c, "named", job, row, w)
  BY DEF Name, Callers, store, server
<1>2. PICK m, k : m = row /\ k = task'[c].got
  OBVIOUS
<1>3. LeavesOthers(c) /\ Becomes(c, "named", job, m)
  BY <1>1, <1>2, StartIs DEF Parts
<1>4. Fewer
  BY <1>1, SameFewer
<1>5. Covered(m)' /\ Covered(row)'
  <2>1. Covered(m)'
    BY <1>1, <1>2, <1>4, CoveredStays DEF StopInv
  <2> QED
    BY <1>1, <1>2, <2>1
<1>6. Finds("named", job, m, k)' /\ Sorted("named", job, m)
  BY <1>2, <1>5 DEF Finds, Sorted, ClearLabels
<1>7. intent' # "cancel" /\ intent' # "delete"
  BY <1>1 DEF StopInv, Stopped
<1>8. composer' # Closed => Clear'
  BY <1>1, <1>4, StillClear DEF StopInv
<1>9. \A d \in Callers \ {c} : ~At(d, "handing")
  BY NobodyHands DEF NoNewHour, ClaimsHeeded, Callers
<1> QED
  BY <1>1, <1>2, <1>3, <1>4, <1>5, <1>6, <1>7, <1>8, <1>9, StopMoves

\* A person starts to hand over the row just marked.
LEMMA MarkedStop ==
  ASSUME Parts, HoldInv, One, NoNewHour, StopInv, NEW c \in People, Clear, Waits,
         UNCHANGED <<now, place, subs, born>>, NEW m, m.hold = "mark", m.since = now,
         NEW job \in {"schedule", "unchanged"}, NEW w, Start(c, "handing", job, m, w), row' = m,
         composer' = Closed, intent' = "send"
  PROVE  StopInv'
<1>1. c \in Callers /\ LeavesOthers(c) /\ Becomes(c, "handing", job, m)
  BY StartIs DEF Parts, Callers
<1>2. Fewer
  BY SameFewer
<1>3. PICK k : k = task'[c].got
  OBVIOUS
<1>4. Covered(row)' /\ Finds("handing", job, m, k)'
  BY <1>2, StillClear, ThenCovered, ClearFinds
<1>5. Sorted("handing", job, m)
  BY DEF Sorted
<1>6. Waits'
  BY <1>1, SendLaterAssumption DEF Waits, LeavesOthers, Callers, At
<1>7. Marking(m)'
  BY <1>6 DEF Marking
<1>8. \A d \in Callers \ {c} : ~At(d, "handing")
  BY NobodyHands DEF NoNewHour, ClaimsHeeded, Callers
<1> QED
  BY <1>1, <1>2, <1>3, <1>4, <1>5, <1>7, <1>8, StopMoves

LEMMA ScheduleStop ==
  ASSUME Parts, HoldInv, One, NoNewHour, StopInv, NEW c \in People, NEW at \in Time, Schedule(c, at)
  PROVE  StopInv'
<1>1. PICK m : m = Marked(Plain(at, composer), now)
  OBVIOUS
<1>2. /\ Start(c, "handing", "schedule", m, at) /\ row' = m /\ composer' = Closed /\ intent' = "send"
      /\ UNCHANGED <<now, place, subs, born>> /\ composer # Closed /\ Quiet(c)
  BY <1>1 DEF Schedule, Write, server
<1>3. Clear /\ Waits
  BY <1>2, SendLaterAssumption DEF StopInv, Quiet, Waits, Callers
<1>4. m.hold = "mark" /\ m.since = now
  BY <1>1 DEF Marked, Plain
<1> QED
  BY <1>2, <1>3, <1>4, MarkedStop

LEMMA HoldUnchangedStop ==
  ASSUME Parts, HoldInv, One, NoNewHour, StopInv, NEW c \in People, HoldUnchanged(c)
  PROVE  StopInv'
<1>1. /\ UNCHANGED <<now, place, subs, born>> /\ composer' = Closed /\ intent' = "send" /\ row # NoRow
      /\ composer # Closed
  BY SendLaterAssumption DEF HoldUnchanged, server, Closed, Parts, StoreOK, Row
<1>2. Clear
  BY <1>1 DEF StopInv
<1>3. CASE Claimable /\ row.hold = "none" /\ row.problem = "none" /\ row.raw
  <2>1. PICK m : m = Marked(row, now)
    OBVIOUS
  <2>2. Start(c, "handing", "unchanged", m, row.at) /\ row' = m
    BY <1>3, <2>1 DEF HoldUnchanged, Write
  <2>3. m.hold = "mark" /\ m.since = now
    BY <1>1, <2>1 DEF Marked, Parts, StoreOK, Row
  <2>4. Pass \in Callers /\ ~UnderClaim(Pass)
    BY <1>3, ClaimableAlone DEF Callers
  <2>5. Waits
    BY <2>4, PassJobs
  <2> QED
    BY <1>1, <1>2, <2>2, <2>3, <2>5, MarkedStop
<1>4. CASE ~(Claimable /\ row.hold = "none" /\ row.problem = "none" /\ row.raw)
  <2>1. UNCHANGED <<task, row>>
    BY <1>4 DEF HoldUnchanged, store
  <2>2. Fewer
    BY <1>1, SameFewer
  <2>3. RowCovered /\ OpensClear /\ StopsNone
    BY <1>1, <2>1 DEF RowCovered, OpensClear, StopsNone
  <2>4. \A p \in People : ~At(p, "handing")
    BY <1>1 DEF StopInv, Marking, Callers
  <2>5. now \in Nat /\ row' = row
    BY <2>1 DEF Parts, RestOK, Time
  <2> QED
    BY <1>1, <2>1, <2>2, <2>3, <2>4, <2>5, NobodyHands, StopWorld
<1> QED
  BY <1>3, <1>4

LEMMA SaveEditStop ==
  ASSUME Parts, HoldInv, One, NoNewHour, StopInv, SaveEdit
  PROVE  StopInv'
<1>1. /\ UNCHANGED <<now, task, intent, row>> /\ composer # Closed
      /\ \E k \in Copies : SaveOver(k, composer)
  BY DEF SaveEdit, store
<1>2. Fewer
  <2>1. composer \in 0..MaxCopies
    BY <1>1 DEF Parts, PersonOK
  <2> QED
    BY <1>1, <2>1, SavedFewer
<1>3. Clear' /\ Covered(row)'
  BY <1>1, <1>2, StillClear, ThenCovered DEF StopInv
<1>4. RowCovered /\ OpensClear /\ StopsNone
  BY <1>1, <1>3 DEF RowCovered, OpensClear, StopsNone
<1>5. \A p \in People : ~At(p, "handing")
  BY <1>1 DEF StopInv, Marking, Callers
<1>6. now \in Nat
  BY DEF Parts, RestOK, Time
<1> QED
  BY <1>1, <1>2, <1>4, <1>5, <1>6, NobodyHands, StopWorld

\* A row that follows its draft had no hold to be found by, and has none.
LEMMA DraftSavedStop ==
  ASSUME Parts, HoldInv, One, NoNewHour, StopInv, DraftSaved
  PROVE  StopInv'
<1>1. /\ UNCHANGED <<now, task, intent, composer, place, subs, born>>
      /\ UNCHANGED row \/ (row # NoRow /\ row.hold = "none" /\ row' # NoRow /\ row'.hold = "none")
  BY DraftSavedRow, SendLaterAssumption
<1>2. Fewer
  BY <1>1, SameFewer
<1>3. RowCovered
  <2>1. row # NoRow /\ row.hold = "none" => Clear
    BY DEF StopInv, Covered
  <2> QED
    BY <1>1, <1>2, <2>1, StillClear, ThenCovered DEF RowCovered
<1>4. OpensClear /\ StopsNone
  BY <1>1 DEF OpensClear, StopsNone
<1>5. (\A p \in People : ~At(p, "handing")) \/ UNCHANGED <<row, composer, now>>
  BY <1>1 DEF StopInv, Marking, Callers
<1>6. now \in Nat
  BY DEF Parts, RestOK, Time
<1>7. row = NoRow => row' = NoRow
  BY <1>1
<1> QED
  BY <1>1, <1>2, <1>3, <1>4, <1>5, <1>6, <1>7, NobodyHands, StopWorld

LEMMA AskedStop ==
  ASSUME Parts, HoldInv, One, NoNewHour, StopInv, Asked
  PROVE  StopInv'
<1>1. ASSUME NEW c \in People, SendNow(c) \/ Edit(c) \/ Drop(c)
      PROVE  StopInv'
  BY <1>1, NameStop DEF SendNow, Edit, Drop
<1>2. \A c \in People : ~Cancel(c) /\ ~Post(c) /\ \A at \in Time : ~NewHour(c, at)
  BY DEF NoNewHour, ClaimsHeeded, Cancel, Post, NewHour, Name
<1> QED
  BY <1>1, <1>2, ScheduleStop, HoldUnchangedStop, SaveEditStop, DraftSavedStop DEF Asked

LEMMA TickStop == ASSUME Parts, HoldInv, One, NoNewHour, StopInv, Tick PROVE StopInv'
<1>1. /\ UNCHANGED <<task, row, composer, intent, place, subs, born>> /\ now' = now + 1 /\ HandedOver
  BY DEF Tick, store, server, person
<1>2. now' \in Nat /\ now <= now'
  BY <1>1 DEF Parts, RestOK, Time
<1>3. \A p \in People : ~At(p, "handing")
  BY <1>1, NobodyHands DEF HandedOver, NoNewHour, ClaimsHeeded, Callers
<1>4. Fewer
  BY <1>1, SameFewer
<1>5. RowCovered /\ OpensClear /\ StopsNone /\ row' = row
  BY <1>1 DEF RowCovered, OpensClear, StopsNone
<1> QED
  BY <1>1, <1>2, <1>3, <1>4, <1>5, NobodyHands, StopWorld

LEMMA ServerStop ==
  ASSUME Parts, HoldInv, One, NoNewHour, StopInv, NEW k \in Copies,
         \/ ServerSends(k) \/ ServerForgets(k) \/ OtherCancels(k) \/ OtherDeletes(k) \/ OtherSends(k)
  PROVE  StopInv'
<1>1. /\ UNCHANGED <<task, row, composer, now, born>> /\ intent' \in {intent, "drop", "send"}
      /\ place' \in {place, TakenOff(k), Destroyed(k)}
      /\ \/ UNCHANGED subs
         \/ \E s \in {"final", "none", "theirs"} : subs' = [subs EXCEPT ![k] = s]
  BY DEF ServerSends, ServerForgets, OtherCancels, OtherDeletes, OtherSends, store, person
<1>2. \A j \in Copies : subs'[j] = "pending" => subs[j] = "pending"
  BY <1>1 DEF Parts, ServerOK
<1>3. \A j \in Copies : place'[j] = "held" => place[j] = "held"
  BY <1>1 DEF TakenOff, Destroyed, Parts, ServerOK
<1>4. Fewer
  BY <1>1, <1>2, <1>3 DEF Fewer
<1>5. RowCovered /\ OpensClear /\ StopsNone /\ row' = row
  BY <1>1 DEF RowCovered, OpensClear, StopsNone
<1>6. now \in Nat
  BY DEF Parts, RestOK, Time
<1> QED
  BY <1>1, <1>4, <1>5, <1>6, NobodyHands, StopWorld

LEMMA CallerDiesStop ==
  ASSUME Parts, HoldInv, One, NoNewHour, StopInv, NEW c \in Callers, CallerDies(c)
  PROVE  StopInv'
<1>1. /\ UNCHANGED <<now, row, composer, intent, place, subs, born>> /\ Done(c) /\ ~At(c, "idle")
  BY DEF CallerDies, store, server, person
<1>2. Fewer
  BY <1>1, SameFewer
<1>3. CASE ~At(c, "listed")
  BY <1>1, <1>2, <1>3, StopDone DEF At, RowCovered, OpensClear, StopsNone
<1>4. CASE At(c, "listed")
  <2>1. LeavesOthers(c) /\ Becomes(c, "idle", "none", Plain(0, 0))
    BY <1>1, DoneIs DEF Parts
  <2>2. PICK k, r : k = task'[c].got /\ r = row
    OBVIOUS
  <2>3. Finds("idle", "none", Plain(0, 0), k)' /\ Sorted("idle", "none", Plain(0, 0))
    BY DEF Finds, Sorted, ClearLabels
  <2>4. Waits => Waits'
    BY <2>1 DEF Waits, LeavesOthers, Becomes, At, Callers
  <2>5. \A p \in People : At(p, "idle") => At(p, "idle")'
    BY <2>1 DEF LeavesOthers, Becomes, At, Callers
  <2>6. intent' # "cancel" /\ (intent' = "delete" => Stopped')
    BY <1>1, <2>4, <2>5 DEF StopInv, Stopped, Silent
  <2>7. row' # NoRow => Covered(row)'
    <3>1. r # NoRow => Covered(r)'
      BY <1>2, <2>2, CoveredStays DEF StopInv
    <3> QED
      BY <1>1, <2>2, <3>1
  <2>8. composer' # Closed => Clear'
    BY <1>1, <1>2, StillClear DEF StopInv
  <2>9. \A d \in Callers \ {c} : At(d, "handing") => Waits'
    BY <2>4, PassJobs DEF Marking
  <2> QED
    BY <1>1, <1>2, <2>1, <2>2, <2>3, <2>6, <2>7, <2>8, <2>9, StopMoves
<1> QED
  BY <1>3, <1>4

LEMMA CrashStop == ASSUME Parts, HoldInv, One, NoNewHour, StopInv, Crash PROVE StopInv'
<1>1. /\ task' = [c \in Callers |-> Idle] /\ composer' = Closed
      /\ UNCHANGED <<now, row, intent, place, subs, born>>
  BY DEF Crash, store, server
<1>2. \A c \in Callers : task'[c] = Idle
  BY <1>1
<1>3. PICK r : r = row
  OBVIOUS
<1>4. row' # NoRow => Covered(row)'
  <2>1. r # NoRow => Covered(r)'
    BY <1>1, <1>3, SameFewer, CoveredStays DEF StopInv
  <2> QED
    BY <1>1, <1>3, <2>1
<1>5. \A c \in Callers : (/\ Finds(task[c].pc, Job(c), Msg(c), task[c].got)
                          /\ Sorted(task[c].pc, Job(c), Msg(c))
                          /\ Job(c) = "pass" => task[c].want <= now
                          /\ At(c, "handing") => Marking(Msg(c)))'
  <2> SUFFICES ASSUME NEW c \in Callers
               PROVE (/\ Finds(task[c].pc, Job(c), Msg(c), task[c].got)
                      /\ Sorted(task[c].pc, Job(c), Msg(c))
                      /\ Job(c) = "pass" => task[c].want <= now
                      /\ At(c, "handing") => Marking(Msg(c)))'
    OBVIOUS
  <2>1. task'[c].pc = "idle" /\ Job(c)' = "none"
    BY <1>2 DEF Idle, Job
  <2>2. PICK m, k : m = Msg(c)' /\ k = task'[c].got
    OBVIOUS
  <2>3. Finds("idle", "none", m, k)' /\ Sorted("idle", "none", m)
    BY DEF Finds, Sorted, ClearLabels
  <2> QED
    BY <2>1, <2>2, <2>3 DEF At
<1>6. intent' = "delete" => Stopped'
  <2>1. Waits' /\ \A p \in People : At(p, "idle")'
    BY <1>2 DEF Waits, At, Idle, Callers
  <2> QED
    BY <1>1, <2>1 DEF StopInv, Stopped, Silent
<1> QED
  BY <1>1, <1>4, <1>5, <1>6 DEF StopInv

LEMMA InitStop == Init => StopInv
<1> SUFFICES ASSUME Init PROVE StopInv
  OBVIOUS
<1>1. PICK start \in {"unsaved", "draft", "elsewhere"} :
        /\ place = [k \in Copies |-> IF k # 1 \/ start = "unsaved" THEN "unmade"
                                     ELSE IF start = "draft" THEN "draft" ELSE "held"]
        /\ composer = CASE start = "unsaved" -> 0 [] start = "draft" -> 1 [] OTHER -> Closed
        /\ intent = IF start = "elsewhere" THEN "send" ELSE "none"
  BY SendLaterAssumption DEF Init
<1>2. \A k \in Copies : place[k] = "held" => k = 1 /\ start = "elsewhere"
  BY <1>1
<1>3. composer # Closed => start # "elsewhere"
  BY <1>1
<1>4. composer # Closed => Clear
  BY <1>2, <1>3 DEF Clear
<1>5. \A c \in Callers : task[c] = Idle
  BY DEF Init
<1>6. \A c \in Callers : /\ Finds(task[c].pc, Job(c), Msg(c), task[c].got)
                         /\ Sorted(task[c].pc, Job(c), Msg(c))
                         /\ Job(c) = "pass" => task[c].want <= now
                         /\ At(c, "handing") => Marking(Msg(c))
  BY <1>5 DEF Idle, Job, At, Finds, Sorted, ClearLabels
<1>7. row = NoRow /\ intent # "cancel" /\ intent # "delete"
  BY <1>1 DEF Init
<1> QED
  BY <1>2, <1>4, <1>6, <1>7 DEF StopInv

LEMMA NextStop ==
  ASSUME Parts, HoldInv, One, NoNewHour, StopInv, [Next]_vars
  PROVE  StopInv'
<1>1. CASE PassStep
  BY <1>1, PassStartStop, PassClaimStop, AdoptStop DEF PassStep
<1>2. CASE Environment
  BY <1>2, TickStop, CrashStop, CallerDiesStop, ServerStop DEF Environment
<1>3. CASE UNCHANGED vars
  <2>1. UNCHANGED <<task, row, composer, intent, now, place, subs, born>>
    BY <1>3 DEF vars
  <2>2. Fewer
    BY <2>1, SameFewer
  <2>3. RowCovered /\ OpensClear /\ StopsNone /\ row' = row
    BY <2>1 DEF RowCovered, OpensClear, StopsNone
  <2>4. now \in Nat
    BY DEF Parts, RestOK, Time
  <2> QED
    BY <2>1, <2>2, <2>3, <2>4, NobodyHands, StopWorld
<1> QED
  BY <1>1, <1>2, <1>3, StepStop, AskedStop DEF Next

\* The message goes out from a caller about to send, from a pending submission,
\* or from another install.
LEMMA GoesOut ==
  ASSUME [Next]_vars, delivered' # delivered
  PROVE  \/ \E c \in Callers : At(c, "send")
         \/ \E k \in Copies : subs[k] = "pending"
         \/ intent' = "send"
<1>1. ASSUME NEW c \in Callers, Step(c), ~At(c, "send") PROVE FALSE
  <2>1. \A k, a : MakeHold(k, a) => UNCHANGED delivered
    BY DEF MakeHold
  <2>2. \A k, a : SaveOver(k, a) => UNCHANGED delivered
    BY DEF SaveOver
  <2>3. UNCHANGED server => UNCHANGED delivered
    BY DEF server
  <2>4. \/ TakeNamed(c) \/ PutRow(c) \/ ScheduleRefused(c) \/ PassDue(c) \/ Look(c) \/ CalledBack(c)
        \/ Store(c) \/ Reclaim(c) \/ Stuck(c) \/ Called(c) \/ Reopened(c) \/ RemoveRow(c) \/ Try(c)
        \/ Forget(c) \/ Keep(c)
        => UNCHANGED server
    BY DEF TakeNamed, PutRow, ScheduleRefused, PassDue, Look, CalledBack, Store, Reclaim, Stuck, Called,
           Reopened, RemoveRow, Try, Forget, Keep
  <2>5. TakeHold(c) \/ LookSent(c) => UNCHANGED delivered
    BY DEF TakeHold, LookSent
  <2>6. Ask(c) => UNCHANGED delivered
    BY <2>3 DEF Ask
  <2>7. HandOver(c) \/ SaveScheduled(c) \/ Restore(c) => UNCHANGED delivered
    BY <2>1, <2>2, <2>3 DEF HandOver, SaveScheduled, Restore
  <2>8. ~Send(c)
    BY <1>1 DEF Send
  <2> QED
    BY <1>1, <2>3, <2>4, <2>5, <2>6, <2>7, <2>8 DEF Step
<1>2. ~PassStep
  BY DEF PassStep, PassStart, PassClaim, Adopt, server
<1>3. ASSUME Asked PROVE FALSE
  <2>1. \A c, j, w : Name(c, j, w) => UNCHANGED delivered
    BY DEF Name, server
  <2>2. SaveEdit \/ DraftSaved => UNCHANGED delivered
    BY DEF SaveEdit, SaveOver, DraftSaved, server
  <2> QED
    BY <1>3, <2>1, <2>2 DEF Asked, SendNow, Cancel, Edit, Drop, NewHour, Post, HoldUnchanged, Schedule, server
<1>4. ASSUME Environment
      PROVE  \E k \in Copies : ServerSends(k) \/ OtherSends(k)
  BY <1>4 DEF Environment, Tick, Crash, CallerDies, ServerForgets, OtherCancels, OtherDeletes, server
<1>5. ~UNCHANGED vars
  BY DEF vars
<1> QED
  BY <1>1, <1>2, <1>3, <1>4, <1>5 DEF Next, ServerSends, OtherSends

\* Once Delete has said that the message stops, it goes nowhere: neither from a
\* pass that listed it, nor from the server, until the person sends it anew. A
\* pass may be at any step, another install may act, answers may be lost and the
\* app may stop (drop_one, let_go and cancel_held, outbox.rs; Cancel Send is not
\* part of it, see SavedAndSent).
THEOREM DeletedStaysUnsent == NoNewHour => (Spec => StoppedStaysUnsent)
<1> SUFFICES ASSUME NoNewHour PROVE Spec => StoppedStaysUnsent
  OBVIOUS
<1> DEFINE All == Parts /\ HoldInv /\ One /\ StopInv
           Stay == (intent \in {"cancel", "delete"} /\ UNCHANGED intent) => UNCHANGED delivered
<1>1. Init => All
  BY InitType, InitHold, InitOne, InitStop
<1>2. All /\ [Next]_vars => All'
  BY NextType, NextHold, NextOne, NextStop DEF NoNewHour
<1>3. All /\ [Next]_vars => [Stay]_vars
  <2> SUFFICES ASSUME All, [Next]_vars, intent \in {"cancel", "delete"}, UNCHANGED intent,
                      delivered' # delivered
               PROVE  FALSE
    OBVIOUS
  <2>1. Stopped
    BY DEF StopInv
  <2>2. \A c \in Callers : ~At(c, "send")
    BY <2>1 DEF Stopped, Waits, At, Callers
  <2> QED
    BY <2>1, <2>2, GoesOut DEF Stopped, Silent
<1> HIDE DEF All
<1> QED
  BY <1>1, <1>2, <1>3, PTL DEF Spec, StoppedStaysUnsent
====
