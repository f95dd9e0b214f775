----------------------------- MODULE SendLater -----------------------------
(***************************************************************************)
(* Send Later on an account whose server holds mail (JMAP): one message,   *)
(* its row here, the copies and submissions the server keeps of it, and    *)
(* everyone who acts on them: the pass, the person, another install of the *)
(* app, and the server, which sends on its own when the hour comes.        *)
(*                                                                         *)
(* A row is a plain one (sent from here at its hour), marked (the server   *)
(* may hold the message, no answer says so) or held (the server sends it). *)
(* Every server call and every write of the table is a step of its own.    *)
(*                                                                         *)
(*   src/sync/src/outbox.rs              schedule, settle, recall, cancel  *)
(*   src/sync/src/services/jmap/held.rs  the server's side of a hold       *)
(*   src/store/src/outbox.rs             the row and its claim             *)
(***************************************************************************)
EXTENDS Integers

CONSTANTS
    Pass,         \* the scheduler's task
    People,       \* tasks serving the window and the assistant
    MaxTime,      \* bound: the clock stops here
    MaxCopies,    \* bound: how many copies the server ever makes
    MaxFaults,    \* bound: how often something fails
    Faults,       \* what may fail: a "hold", another "answer", or the app ("crash")
    AskAgain,     \* ASK_AGAIN, and the longest an index of the server lags
    ClaimLasts,   \* CLAIM_LASTS
    ClockSlack,   \* CLOCK_SLACK, and how far the server's clock runs ahead
    Holding,      \* what the server may say, asked whether it holds a message so long
    Starts,       \* where the message is at first (see Init)
    Jobs,         \* what the person asks for
    Others,       \* what another install does with a hold
    SlowHandOver, \* whether passes run while the server takes a message
    NoRow

VARIABLES
    now,        \* the clock
    row,        \* the message's row in table outbox, or NoRow
    claim,      \* when the row was claimed, or Free
    task,       \* what each caller is doing
    place,      \* where the server keeps each copy it made
    subs,       \* what each copy's submission has come to
    hour,       \* when the server sends each copy
    born,       \* when the server made each copy
    inSent,     \* the message is found in Sent
    delivered,  \* how often the message has gone out
    composer,   \* the draft open in a composer, or Closed
    intent,     \* what the person last heard would happen to the message
    answer,     \* what Send Later last answered
    moving,     \* drafts saved again, <<old, new>>, whose row has yet to be told
    told,       \* the outbox has reported the message as sent
    faults

store == <<row, claim>>
server == <<place, subs, hour, born, inSent, delivered>>
person == <<composer, intent, answer, moving>>
vars == <<now, row, claim, task, place, subs, hour, born, inSent, delivered,
          composer, intent, answer, moving, told, faults>>

Time == 0..MaxTime
Copies == 1..MaxCopies
Free == -1
Closed == -1
Callers == {Pass} \cup People

Problems == {"none", "retry", "stuck", "checkSent", "elsewhere"}

\* The row, or a caller's copy of it. `hold` is the column held: empty, a
\* mark (`unconfirmed:`, with the time `since`), or the handle of the copy's
\* submission. `copy` is its draft: the copy in Drafts the row stands for.
Row == [hold : {"none", "mark", "held"}, since : Time, at : Time,
        copy : 0..MaxCopies, raw : BOOLEAN, tried : BOOLEAN, problem : Problems]

Labels == {"idle", "listed", "named", "due", "look", "found", "ask", "fate", "store",
           "reclaim", "handing", "holding", "put", "saving", "refused", "called",
           "restore", "unsaved", "unsure", "elsewhere", "remove", "try",
           "lookSent", "send", "keep", "stick", "forget"}
Work == {"none", "pass", "schedule", "unchanged", "sendNow", "newHour", "edit",
         "cancel", "drop", "post"}

\* `got` is the copy of a hold just made or found, `want` the hour asked for
\* (for the pass, the `now` it was called with).
Task == [pc : Labels, job : Work, msg : Row, got : 0..MaxCopies, want : Time]

ASSUME SendLaterAssumption ==
    /\ Pass \notin People
    /\ MaxTime \in Nat /\ MaxCopies \in Nat \ {0} /\ MaxFaults \in Nat
    /\ AskAgain \in Nat \ {0} /\ ClaimLasts \in Nat /\ ClockSlack \in Nat
    /\ Holding \subseteq BOOLEAN /\ SlowHandOver \in BOOLEAN
    /\ Starts \subseteq {"unsaved", "draft", "elsewhere"} /\ ("elsewhere" \in Starts => MaxTime >= 2)
    /\ Faults \subseteq {"hold", "answer", "crash"}
    /\ NoRow \notin Row

----------------------------------------------------------------------------
(* Rows and callers.                                                       *)

\* A row nothing has happened to.
Plain(at, copy) == [hold |-> "none", since |-> 0, at |-> at, copy |-> copy,
                    raw |-> TRUE, tried |-> FALSE, problem |-> "none"]

\* Mutant of Marked: stamped with when to look, not with when it was lost.
MarkedAhead(m, t) == [m EXCEPT !.hold = "mark", !.since = m.at + AskAgain]

Unheld(m) == [m EXCEPT !.hold = "none", !.since = 0]
Marked(m, t) == [m EXCEPT !.hold = "mark", !.since = t]

\* Mutant of Adopted: the copy is taken and its hold is not.
AdoptedPlain(m, k) == [m EXCEPT !.hold = "none", !.since = 0, !.copy = k]

\* adopt: the row gets the server's hold and its copy.
Adopted(m, k) == [m EXCEPT !.hold = "held", !.since = 0, !.copy = k]

\* retry_delay(attempts) is None: the outbox leaves the row to the person.
GivenUp(m) == m.problem \in {"stuck", "checkSent", "elsewhere"}

\* past_knowing: a problem beside a hold.
PastKnowing(m) == m.hold # "none" /\ m.problem # "none"

Idle == [pc |-> "idle", job |-> "none", msg |-> Plain(0, 0), got |-> 0, want |-> 0]

Start(c, label, job, m, want) ==
    task' = [task EXCEPT ![c] =
        [pc |-> label, job |-> job, msg |-> m, got |-> 0, want |-> want]]
Goto(c, label) == task' = [task EXCEPT ![c].pc = label]
Carry(c, m, label) == task' = [task EXCEPT ![c].msg = m, ![c].pc = label]
Done(c) == task' = [task EXCEPT ![c] = Idle]

At(c, label) == task[c].pc = label
Msg(c) == task[c].msg
Job(c) == task[c].job

\* `put` writes the row, and lets go of any claim on it, whoever made it.
Write(m) == row' = m /\ claim' = Free

\* Mutant of Claimable: a claim nobody heeds.
ClaimableByAll == row # NoRow

\* Mutant of Claimable: a claim left behind never lapses.
ClaimableOnce == row # NoRow /\ claim = Free

Claimable == row # NoRow /\ (claim = Free \/ claim + ClaimLasts < now)

\* The caller is done and lets the row go, as it is.
LetGo(c) == Done(c) /\ claim' = Free /\ UNCHANGED row

\* Where a caller that claimed the row `m` goes on.
Route(m) == CASE m.hold = "mark" -> "look"
              [] m.hold = "held" -> "ask"
              [] OTHER -> "due"

\* A server call is refused, or its answer never comes; the app or a caller
\* stops, or its store refuses a write.
Spend(fault) == fault \in Faults /\ faults < MaxFaults /\ faults' = faults + 1

\* A caller between its mark and the row that says what came of it.
HandingOver(c) == /\ Job(c) \in {"schedule", "unchanged", "newHour"}
                  /\ task[c].pc \in {"handing", "holding", "saving", "refused", "put"}

\* Bound: a claim is left behind while the clock can still run past it.
ClaimsStillLapse == now + ClaimLasts < MaxTime

\* Bound: a hand-over ends before time moves on and before a pass gets to the
\* row, unless SlowHandOver.
HandedOver == SlowHandOver \/ \A c \in Callers : ~HandingOver(c)

\* Bound: one row. Nothing is scheduled anew or adopted beside a caller that
\* still works on the row before.
Quiet(c) == \A other \in Callers \ {c} : At(other, "idle")

\* Bound: no job begins without room for the copy it may make.
Room == place[MaxCopies] = "unmade"

----------------------------------------------------------------------------
(* The server (services/jmap/held.rs, outgoing.rs).                        *)

IsNew(k) == place[k] = "unmade" /\ \A j \in 1..(k - 1) : place[j] # "unmade"

\* The server holds a new copy for `at`, and its id is `k`.
MakeHold(k, at) ==
    /\ IsNew(k)
    /\ place' = [place EXCEPT ![k] = "held"]
    /\ subs' = [subs EXCEPT ![k] = "pending"]
    /\ hour' = [hour EXCEPT ![k] = at]
    /\ born' = [born EXCEPT ![k] = now]
    /\ UNCHANGED <<inSent, delivered>>

\* The copy goes, when it is a draft still.
Destroyed(k) == IF k # 0 /\ place[k] \in {"draft", "held"}
                THEN [place EXCEPT ![k] = "gone"] ELSE place

\* Mutant of SaveOver: the old draft goes, and nothing takes its place.
SaveOverNothing(k, old) ==
    /\ IsNew(k)
    /\ place' = Destroyed(old)
    /\ UNCHANGED <<subs, hour, born, inSent, delivered>>

\* A draft saved over the draft `old`: the new one is made, the old one goes.
SaveOver(k, old) ==
    /\ IsNew(k)
    /\ place' = [Destroyed(old) EXCEPT ![k] = "draft"]
    /\ UNCHANGED <<subs, hour, born, inSent, delivered>>

OneMore(n) == IF n = 0 THEN 1 ELSE 2

\* The copies in Drafts that carry the keyword of a hold, as a search finds
\* them: one just made may not be in the index yet.
HeldCopies == {k \in Copies : place[k] = "held"}
Seen == {V \in SUBSET HeldCopies :
            \A k \in HeldCopies : born[k] + AskAgain <= now => k \in V}

\* file and take_off_hold, on the copy `k`.
Filed(k) == IF place[k] = "gone" THEN place ELSE [place EXCEPT ![k] = "sent"]
TakenOff(k) == IF place[k] = "held" THEN [place EXCEPT ![k] = "draft"] ELSE place

\* Mutant of Fate: what cannot be told counts as sent.
FateGuessed(k, at) ==
    IF place[k] = "draft" \/ (place[k] = "held" /\ now + ClockSlack < at)
    THEN "notSent" ELSE "sent"

\* What became of a hold the server forgot, as the copy tells (`forgotten`).
Fate(k, at) ==
    CASE place[k] = "sent" -> "sent"
      [] place[k] = "draft" -> "notSent"
      [] place[k] = "held" /\ now + ClockSlack < at -> "notSent"
      [] OTHER -> "unknown"

\* Mutant of Standing: the copy is asked, the submission is not.
StandingOfCopy(k, at) == IF k = 0 THEN "unknown" ELSE Fate(k, at)

\* Where the submission of `k` stands when the server is asked, with `at` the
\* hour the row keeps: pending, sent, notSent (called back) or unknown.
Standing(k, at) ==
    IF k = 0 THEN "unknown"
    ELSE CASE subs[k] = "pending" -> "pending"
           [] subs[k] = "final" -> "sent"
           [] subs[k] \in {"canceled", "theirs"} -> "notSent"
           [] OTHER -> Fate(k, at)

----------------------------------------------------------------------------
(* Outbox::schedule, hold_unchanged and the end of rehold: handing the     *)
(* message over. The mark is written first, and the claim is let go.       *)

\* The composer hands over a message for the hour `at`. Its row, when the
\* draft has one, is no other caller's, and no hold's (reopen_held sees to it).
Schedule(c, at) ==
    /\ "schedule" \in Jobs /\ Room /\ Quiet(c)
    /\ c \in People /\ At(c, "idle") /\ composer # Closed /\ at > now
    /\ row # NoRow => row.hold = "none" /\ row.copy = composer /\ composer # 0 /\ claim = Free
    /\ LET m == Marked(Plain(at, composer), now) IN
       Write(m) /\ Start(c, "handing", "schedule", m, at)
    /\ composer' = Closed /\ intent' = "send" /\ answer' = "none"
    /\ UNCHANGED <<server, moving, now, told, faults>>

\* A composer opened by reopen_held and closed as it opened.
HoldUnchanged(c) ==
    /\ "unchanged" \in Jobs /\ Room
    /\ c \in People /\ At(c, "idle") /\ row # NoRow /\ composer = row.copy
    /\ composer' = Closed
    /\ IF Claimable /\ row.hold = "none" /\ row.problem = "none" /\ row.raw
       THEN /\ Write(Marked(row, now))
            /\ Start(c, "handing", "unchanged", Marked(row, now), row.at)
       ELSE UNCHANGED <<store, task>>
    /\ intent' = "send"
    /\ UNCHANGED <<server, answer, moving, now, told, faults>>

\* hand_over. An hour too near, or further than the server holds mail, is not
\* held (`holds`). A refusal leaves nothing on the server.
HandOver(c) ==
    /\ At(c, "handing")
    /\ LET kept == /\ Carry(c, Unheld(Msg(c)), IF Job(c) = "schedule" THEN "saving" ELSE "put")
                   /\ UNCHANGED server
       IN \/ (FALSE \in Holding \/ Msg(c).at <= now) /\ kept /\ UNCHANGED faults
          \/ TRUE \in Holding /\ Msg(c).at > now
             /\ \/ /\ \E k \in Copies :
                         /\ MakeHold(k, Msg(c).at)
                         /\ task' = [task EXCEPT ![c].got = k, ![c].pc = "holding"]
                   /\ UNCHANGED faults
                \/ kept /\ Spend("hold")
                \/ /\ UNCHANGED server \/ \E k \in Copies : MakeHold(k, Msg(c).at)
                   /\ Carry(c, Marked(Msg(c), now), "put") /\ Spend("hold")
    /\ UNCHANGED <<store, person, now, told>>

\* drop_old_copy and take_found, each before adopt: the copy the row waited on
\* goes from Drafts, and a delete that fails is no more than a warning.
TakeHold(c) ==
    /\ task[c].pc \in {"holding", "found"}
    /\ LET m == Msg(c)
           old == IF Job(c) = "drop" \/ m.copy = task[c].got THEN 0 ELSE m.copy
       IN /\ \/ place' = Destroyed(old) /\ UNCHANGED faults
             \/ old # 0 /\ Spend("answer") /\ UNCHANGED place
          /\ Carry(c, Adopted(m, task[c].got),
                   IF At(c, "holding") \/ Job(c) = "pass" THEN "put" ELSE "ask")
    /\ UNCHANGED <<store, subs, hour, born, inSent, delivered, person, now, told>>

\* The row says how the hand-over ended. A composer opens on a row called back
\* for it.
PutRow(c) ==
    /\ At(c, "put")
    /\ Write(Msg(c)) /\ Done(c)
    /\ IF Job(c) = "edit"
       THEN composer' = Msg(c).copy /\ intent' = "edit" /\ UNCHANGED answer
       ELSE /\ answer' = IF Job(c) = "schedule" THEN "waiting" ELSE answer
            /\ UNCHANGED <<composer, intent>>
    /\ UNCHANGED <<server, moving, now, told, faults>>

\* not_held: the draft is one the server holds, by the row that names it.
NotHeld(k) == (row # NoRow /\ k # 0 /\ row.copy = k) => row.hold = "none"

\* What the server will not hold is saved as a draft; when the server is out of
\* reach the bytes wait here, and a draft it refuses goes back to the person.
SaveScheduled(c) ==
    /\ At(c, "saving") /\ Job(c) = "schedule"
    /\ \/ /\ NotHeld(Msg(c).copy)
          /\ \E k \in Copies :
                /\ SaveOver(k, Msg(c).copy)
                /\ Carry(c, [Msg(c) EXCEPT !.copy = k, !.raw = FALSE], "put")
          /\ UNCHANGED faults
       \/ /\ NotHeld(Msg(c).copy) /\ Spend("answer")
          /\ Goto(c, "put") \/ Goto(c, "refused")
          /\ UNCHANGED server
       \/ /\ ~NotHeld(Msg(c).copy)
          /\ Goto(c, "refused")
          /\ UNCHANGED <<server, faults>>
    /\ UNCHANGED <<store, person, now, told>>

\* drop_written, and the app opens the composer again.
ScheduleRefused(c) ==
    /\ At(c, "refused")
    /\ Write(NoRow) /\ Done(c)
    /\ composer' = Msg(c).copy /\ intent' = "none" /\ answer' = "refused"
    /\ UNCHANGED <<server, moving, now, told, faults>>

----------------------------------------------------------------------------
(* Outbox::send_due, the pass.                                             *)

\* The row is worth a look: due, marked, or held.
PassStart ==
    /\ At(Pass, "idle") /\ row # NoRow
    /\ ~GivenUp(row)
    /\ row.at <= now \/ row.hold # "none"
    /\ Start(Pass, "listed", "pass", row, now)
    /\ UNCHANGED <<store, server, person, now, told, faults>>

PassClaim ==
    /\ At(Pass, "listed") /\ HandedOver
    /\ IF Claimable
       THEN claim' = now /\ UNCHANGED row /\ Carry(Pass, row, Route(row))
       ELSE Done(Pass) /\ UNCHANGED store
    /\ UNCHANGED <<server, person, now, told, faults>>

\* A plain row goes when it is due, or is let go.
PassDue(c) ==
    /\ At(c, "due") /\ Job(c) = "pass"
    /\ IF Msg(c).at <= task[c].want /\ ~GivenUp(Msg(c))
       THEN Goto(c, "try") /\ UNCHANGED store
       ELSE LetGo(c)
    /\ UNCHANGED <<server, person, now, told, faults>>

\* adopt_holds: a held copy no row stands for gets one, once the server has
\* told of its hold. It is filed or taken off hold when the submission is over,
\* and one the server forgot stays as it is. unclaimed_holds passes over a copy
\* a row names, and one a marked row waits to find by its Message-ID. (Bound:
\* one row, so none is adopted beside a plain one either.) It lists from a store
\* that may lag, but a copy the server no longer holds is left alone.
Adopt(k) ==
    /\ At(Pass, "idle") /\ Quiet(Pass) /\ row = NoRow /\ place[k] = "held" /\ subs[k] # "none"
    /\ IF subs[k] = "pending"
       THEN /\ Start(Pass, "put", "pass", Adopted(Plain(hour[k], k), k), now)
            /\ UNCHANGED <<place, inSent>>
       ELSE /\ place' = IF subs[k] = "final" THEN Filed(k) ELSE TakenOff(k)
            /\ inSent' = (inSent \/ subs[k] = "final")
            /\ UNCHANGED task
    /\ UNCHANGED <<store, subs, hour, born, delivered, person, now, told, faults>>

----------------------------------------------------------------------------
(* Looking for a hold whose answer was lost, and asking where one stands:  *)
(* settle for the pass, recall for Send Now, a new hour and an edit,       *)
(* cancel_held for Cancel Send, let_go for Delete.                         *)

\* The `now` a caller counts by: the pass keeps the one it was called with.
Clock(c) == IF Job(c) = "pass" THEN task[c].want ELSE now

\* Mutant of TrustsLook: an empty look counts at once.
TrustsLookAtOnce(c) == TRUE

\* An empty look counts once the index has had time since the lost answer.
TrustsLook(c) == Clock(c) >= Msg(c).since + AskAgain

\* An empty look. The pass sends from here, when it is due; a new hour, an
\* edit, a cancel and a delete take the row as one the server never had.
LookedNothing(c) ==
    LET m == Msg(c) IN
    CASE Job(c) = "sendNow" -> Goto(c, "unsure") /\ UNCHANGED store
      [] Job(c) = "pass" /\ TrustsLook(c) /\ m.at <= Clock(c) ->
            Carry(c, [Unheld(m) EXCEPT !.tried = TRUE], "due") /\ UNCHANGED store
      [] Job(c) \in {"newHour", "edit"} /\ TrustsLook(c) ->
            Carry(c, Unheld(m), "store") /\ UNCHANGED store
      [] Job(c) = "cancel" /\ TrustsLook(c) ->
            Carry(c, Unheld(m), "called") /\ UNCHANGED store
      [] Job(c) = "drop" /\ TrustsLook(c) -> Goto(c, "remove") /\ UNCHANGED store
      [] OTHER -> LetGo(c)

\* An answer that settles nothing. Delete goes on only for a row that asks the
\* person to check Sent.
Unreadable(c) ==
    IF Job(c) # "drop" THEN Goto(c, "unsure") /\ UNCHANGED store
    ELSE IF PastKnowing(Msg(c)) THEN Goto(c, "remove") /\ UNCHANGED store
    ELSE LetGo(c)

\* find_hold: one held copy that a submission sends, and no more than one.
Look(c) ==
    /\ At(c, "look")
    /\ \/ /\ \E V \in Seen :
             \/ V = {} /\ LookedNothing(c)
             \/ \E k \in V :
                   /\ V = {k} /\ subs[k] # "none"
                   /\ task' = [task EXCEPT ![c].got = k, ![c].pc = "found"]
                   /\ UNCHANGED store
             \/ /\ \E k \in V : V # {k} \/ subs[k] = "none"
                /\ Unreadable(c)
          /\ UNCHANGED faults
       \/ LetGo(c) /\ Spend("answer")
       \/ Unreadable(c) /\ Spend("answer")
    /\ UNCHANGED <<server, person, now, told>>

\* Any answer will do for Delete. The rest look at what the hold left.
Answered(c, standing) ==
    Goto(c, IF Job(c) = "drop" THEN "remove"
            ELSE CASE standing = "sent" -> "forget"
                   [] standing = "notSent" -> "fate"
                   [] OTHER -> "unsure")

\* settle_hold and release_hold. A pending hold is left to its hour by the
\* pass, and canceled by the rest; what has gone is filed.
Ask(c) ==
    /\ At(c, "ask")
    /\ LET k == Msg(c).copy
           standing == Standing(k, Msg(c).at)
       IN \/ /\ standing = "pending" /\ Job(c) = "pass"
             /\ LetGo(c) /\ UNCHANGED <<server, faults>>
          \/ /\ standing = "pending" /\ Job(c) # "pass"
             /\ subs' = [subs EXCEPT ![k] = "canceled"]
             /\ place' = TakenOff(k)
             /\ Answered(c, "notSent")
             /\ UNCHANGED <<store, hour, born, inSent, delivered, faults>>
          \/ /\ standing \in {"sent", "notSent", "unknown"}
             /\ Answered(c, standing)
             /\ \/ /\ place' = CASE standing = "sent" -> Filed(k)
                                 [] standing = "notSent" -> TakenOff(k)
                                 [] OTHER -> place
                   /\ inSent' = (inSent \/ (standing = "sent" /\ place[k] # "gone"))
                   /\ UNCHANGED faults
                \/ standing = "sent" /\ Spend("answer") /\ UNCHANGED <<place, inSent>>
             /\ UNCHANGED <<store, subs, hour, born, delivered>>
          \* No answer, or a refusal: the cancel may have been made all the same.
          \/ /\ Spend("answer")
             /\ \/ UNCHANGED <<place, subs>>
                \/ /\ standing = "pending" /\ Job(c) # "pass"
                   /\ subs' = [subs EXCEPT ![k] = "canceled"]
                   /\ place' \in {place, TakenOff(k)}
             /\ \/ LetGo(c)
                \/ Job(c) = "drop" /\ PastKnowing(Msg(c)) /\ Goto(c, "remove") /\ UNCHANGED store
             /\ UNCHANGED <<hour, born, inSent, delivered>>
    /\ UNCHANGED <<person, now, told>>

\* went_out and copy_left, once a hold was called back, by this install or
\* another: Sent has the message, the copy is still there, or neither. A look
\* that fails says it is not in Sent, and that the copy is there.
CalledBack(c) ==
    /\ At(c, "fate")
    /\ LET k == Msg(c).copy IN
       \E went \in {inSent, FALSE}, left \in {place[k] # "gone", TRUE} :
          /\ IF went = inSent /\ left = (place[k] # "gone") THEN UNCHANGED faults ELSE Spend("answer")
          /\ Goto(c, IF Job(c) = "cancel" /\ left THEN "restore"
                     ELSE IF went THEN "forget"
                     ELSE CASE Job(c) = "pass" /\ ~left -> "elsewhere"
                            [] Job(c) = "pass" <=> left -> "remove"
                            [] OTHER -> "store")
    /\ UNCHANGED <<store, server, person, now, told>>

\* store_claimed: the row as the server let it go, or marked for a new hour.
\* The write lets go of the claim, and a second call takes it again.
Store(c) ==
    /\ At(c, "store")
    /\ LET here == [Unheld(Msg(c)) EXCEPT !.tried = TRUE]
           m == IF Job(c) = "newHour"
                THEN Marked([here EXCEPT !.at = task[c].want], now) ELSE here
       IN Write(m) /\ Carry(c, m, "reclaim")
    /\ UNCHANGED <<server, person, now, told, faults>>

Reclaim(c) ==
    /\ At(c, "reclaim")
    /\ IF Claimable
       THEN /\ claim' = now /\ UNCHANGED row
            /\ Goto(c, CASE Job(c) = "sendNow" -> "try"
                         [] Job(c) = "newHour" -> "handing"
                         [] OTHER -> "restore")
       ELSE Done(c) /\ UNCHANGED store
    /\ UNCHANGED <<server, person, now, told, faults>>

\* unconfirmable, and a hold another app canceled, copy and all.
Stuck(c) ==
    /\ LET m == [Msg(c) EXCEPT !.tried = TRUE] IN
       \/ At(c, "unsure") /\ Write([m EXCEPT !.problem = "checkSent"])
       \/ At(c, "elsewhere")
          /\ Write([Unheld(m) EXCEPT !.copy = 0, !.problem = "elsewhere"])
    /\ Done(c)
    /\ UNCHANGED <<server, person, now, told, faults>>

----------------------------------------------------------------------------
(* Back to Drafts: Cancel Send and an edit.                                *)

\* cancel_held of a message the server never took: the row is written without
\* its mark, and the write lets go of the claim.
Called(c) ==
    /\ At(c, "called")
    /\ Write(Msg(c))
    /\ Goto(c, IF Msg(c).copy = 0 THEN "saving" ELSE "restore")
    /\ UNCHANGED <<server, person, now, told, faults>>

\* put_back_draft: the bytes, Bcc and all, over the copy the hold left. An edit
\* goes on without; a cancel leaves a row for the app to open in a composer.
Restore(c) ==
    /\ At(c, "restore") \/ (At(c, "saving") /\ Job(c) = "cancel")
    /\ \/ /\ \E k \in Copies :
                /\ SaveOver(k, Msg(c).copy)
                /\ IF Job(c) = "edit"
                   THEN Carry(c, [Msg(c) EXCEPT !.copy = k], "put")
                   ELSE Goto(c, "remove")
          /\ UNCHANGED <<store, faults>>
       \/ /\ Spend("answer") /\ UNCHANGED server
          /\ CASE Job(c) = "edit" -> Goto(c, "put") /\ UNCHANGED store
               [] Job(c) # "edit" /\ At(c, "restore") ->
                     Write(Unheld(Msg(c))) /\ Goto(c, "unsaved")
               [] OTHER -> Goto(c, "unsaved") /\ UNCHANGED store
    /\ UNCHANGED <<person, now, told>>

\* The app opens the unsaved message in a composer and drops its row, when no
\* hold is on it (drop_one).
Reopened(c) ==
    /\ At(c, "unsaved")
    /\ composer' = 0 /\ intent' = "edit"
    /\ IF row # NoRow /\ row.hold = "none" THEN Write(NoRow) ELSE UNCHANGED store
    /\ Done(c)
    /\ UNCHANGED <<server, answer, moving, now, told, faults>>

\* The row goes: canceled, deleted, or called back by another app. After Cancel
\* Send, or Delete of a message in Send Later, the person knows it stops. (A
\* plain row is deleted whoever is sending it: see module Outbox; one whose fate
\* nobody knows may still go.) Send Now, a new hour and an edit say that another
\* app canceled the message and deleted the copy.
RemoveRow(c) ==
    /\ At(c, "remove")
    /\ Write(NoRow) /\ Done(c)
    /\ intent' = CASE Job(c) = "cancel" -> "cancel"
                   [] Job(c) = "pass" -> intent
                   [] Job(c) = "drop" /\ Msg(c).hold # "none" /\ ~PastKnowing(Msg(c)) -> "delete"
                   [] OTHER -> "drop"
    /\ UNCHANGED <<server, composer, answer, moving, now, told, faults>>

----------------------------------------------------------------------------
(* Outbox::attempt, for a plain row and for Send Now. See module Outbox.   *)

\* The try is counted, and a message tried before is looked for in Sent.
Try(c) ==
    /\ At(c, "try")
    /\ row' = IF Job(c) # "post" /\ row # NoRow THEN [row EXCEPT !.tried = TRUE] ELSE row
    /\ Goto(c, IF Msg(c).raw /\ Msg(c).tried THEN "lookSent" ELSE "send")
    /\ UNCHANGED <<claim, server, person, now, told, faults>>

LookSent(c) ==
    /\ At(c, "lookSent")
    /\ \/ inSent /\ place' = Destroyed(Msg(c).copy) /\ Goto(c, "forget") /\ UNCHANGED faults
       \/ ~inSent /\ Goto(c, "send") /\ UNCHANGED <<place, faults>>
       \/ Spend("answer") /\ (Goto(c, "keep") \/ Goto(c, "stick")) /\ UNCHANGED place
    /\ UNCHANGED <<store, subs, hour, born, inSent, delivered, person, now, told>>

\* A draft that has gone counts as sent, and one sent before is not sent again.
\* An answer may be lost on the way back, and then the draft stays. What a
\* composer posts has a Message-ID of its own, which no look in Sent is after.
Send(c) ==
    /\ At(c, "send")
    /\ LET m == Msg(c)
           goes == m.raw \/ (m.copy # 0 /\ place[m.copy] # "gone" /\ ~inSent)
       IN \/ /\ inSent' = (inSent \/ (goes /\ Job(c) # "post"))
             /\ delivered' = IF goes THEN OneMore(delivered) ELSE delivered
             /\ \/ place' = Destroyed(m.copy) /\ Goto(c, "forget") /\ UNCHANGED faults
                \/ goes /\ Spend("answer") /\ Goto(c, "keep") /\ UNCHANGED place
          \/ Spend("answer") /\ (Goto(c, "keep") \/ Goto(c, "stick"))
             /\ UNCHANGED <<inSent, delivered, place>>
    /\ UNCHANGED <<store, subs, hour, born, person, now, told>>

\* The row of a message that went: its own, or the one with its draft. A store
\* that refuses leaves it claimed.
Forget(c) ==
    /\ At(c, "forget")
    /\ \/ /\ IF Job(c) # "post" \/ (row # NoRow /\ row.copy = Msg(c).copy /\ row.copy # 0)
             THEN Write(NoRow) ELSE UNCHANGED store
          /\ UNCHANGED faults
       \/ ClaimsStillLapse /\ Spend("crash") /\ UNCHANGED store
    /\ told' = TRUE
    /\ Done(c)
    /\ UNCHANGED <<server, person, now>>

\* Mutant of Keep: what the server refuses is dropped.
KeepRetries(c) ==
    /\ task[c].pc \in {"keep", "stick"}
    /\ IF At(c, "stick") THEN Write(NoRow)
       ELSE Write([Unheld(Msg(c)) EXCEPT !.tried = TRUE, !.problem = "retry",
                      !.at = IF now < MaxTime THEN now + 1 ELSE MaxTime])
    /\ Done(c)
    /\ UNCHANGED <<server, person, now, told, faults>>

\* Outbox::keep, after a failure that passes and after one that does not. What a
\* composer posts and the server refuses opens in the composer again.
Keep(c) ==
    /\ task[c].pc \in {"keep", "stick"}
    /\ IF Job(c) = "post" /\ At(c, "stick")
       THEN composer' = Msg(c).copy /\ intent' = "none" /\ UNCHANGED store
       ELSE /\ Write([Unheld(Msg(c)) EXCEPT !.tried = TRUE,
                         !.problem = IF At(c, "keep") THEN "retry" ELSE "stuck",
                         !.at = IF now < MaxTime THEN now + 1 ELSE MaxTime])
            /\ UNCHANGED <<composer, intent>>
    /\ Done(c)
    /\ UNCHANGED <<server, answer, moving, now, told, faults>>

----------------------------------------------------------------------------
(* What the person asks of the row.                                        *)

\* The person asks for `job`, and what the row is now says how it will go.
Name(c, job, want) ==
    /\ job \in Jobs
    /\ c \in People /\ At(c, "idle") /\ row # NoRow /\ Room
    /\ Start(c, "named", job, row, want)
    /\ UNCHANGED <<store, server, composer, answer, moving, now, told, faults>>

SendNow(c) == Name(c, "sendNow", 0) /\ intent' = "send"

Cancel(c) == row # NoRow /\ row.problem = "none" /\ Name(c, "cancel", 0) /\ UNCHANGED intent

NewHour(c, at) ==
    /\ row # NoRow /\ row.hold # "none" /\ row.problem = "none" /\ at > now
    /\ Name(c, "newHour", at) /\ UNCHANGED intent

Edit(c) ==
    /\ row # NoRow /\ row.hold # "none" /\ row.problem = "none" /\ composer = Closed
    /\ Name(c, "edit", 0) /\ UNCHANGED intent

Drop(c) == Name(c, "drop", 0) /\ UNCHANGED intent

\* The row is claimed and the caller goes on with it as it stands by then; only
\* Send Now keeps the row it read. A plain row is deleted without a claim.
TakeNamed(c) ==
    /\ At(c, "named")
    /\ LET held == Msg(c).hold # "none"
           m == IF Job(c) = "sendNow" THEN Msg(c) ELSE row
           label == CASE held -> IF m.hold = "mark" THEN "look" ELSE "ask"
                      [] ~held /\ Job(c) = "sendNow" -> "try"
                      [] ~held /\ Job(c) # "sendNow" /\ m.copy = 0 -> "saving"
                      [] OTHER -> "remove"
       IN IF Job(c) = "drop" /\ ~held THEN Goto(c, "remove") /\ UNCHANGED store
          ELSE IF Claimable THEN Carry(c, m, label) /\ claim' = now /\ UNCHANGED row
          ELSE Done(c) /\ UNCHANGED store
    /\ UNCHANGED <<server, person, now, told, faults>>

\* The composer saves the draft it has open over the one before. The row that
\* waits on that one is told by a task of its own.
SaveEdit ==
    /\ "save" \in Jobs /\ Room
    /\ composer # Closed /\ NotHeld(composer)
    /\ \E k \in Copies :
          /\ SaveOver(k, composer)
          /\ composer' = k
          /\ moving' = IF composer = 0 THEN moving ELSE moving \cup {<<composer, k>>}
    /\ UNCHANGED <<store, task, intent, answer, now, told, faults>>

\* draft_saved, whoever has claimed the row by then: a row that waits on the old
\* draft, and on no hold, stands for the new one and lets go of its bytes.
DraftSaved ==
    /\ "save" \in Jobs
    /\ \E saved \in moving :
          /\ moving' = moving \ {saved}
          /\ row' = IF row # NoRow /\ row.copy = saved[1] /\ row.hold = "none"
                    THEN [row EXCEPT !.copy = saved[2], !.raw = FALSE] ELSE row
    /\ UNCHANGED <<claim, task, server, composer, intent, answer, now, told, faults>>

\* Outbox::post from the composer: no row of its own, so nothing to claim.
Post(c) ==
    /\ "post" \in Jobs
    /\ c \in People /\ At(c, "idle") /\ composer # Closed
    /\ row # NoRow => row.hold = "none" /\ claim = Free
    /\ Start(c, "try", "post", Plain(now, composer), 0)
    /\ composer' = Closed /\ intent' = "send"
    /\ UNCHANGED <<store, server, answer, moving, now, told, faults>>

----------------------------------------------------------------------------
(* The world.                                                              *)

\* A caller that works under its claim.
UnderClaim(c) == /\ Job(c) \in {"pass", "sendNow", "newHour", "edit", "cancel", "drop"}
                 /\ task[c].pc \notin {"listed", "named", "reclaim", "unsaved"}
                 /\ ~(At(c, "remove") /\ Job(c) = "drop" /\ Msg(c).hold = "none")

\* Live callers finish within their claim.
Tick ==
    /\ now < MaxTime
    /\ claim # Free /\ (\E c \in Callers : UnderClaim(c)) => now < claim + ClaimLasts
    /\ HandedOver
    /\ now' = now + 1
    /\ UNCHANGED <<store, task, server, person, told, faults>>

\* The server sends what it holds when the hour comes, by its own clock. The
\* copy stays where it is.
ServerSends(k) ==
    /\ subs[k] = "pending" /\ now + ClockSlack >= hour[k]
    /\ subs' = [subs EXCEPT ![k] = "final"]
    /\ delivered' = OneMore(delivered)
    /\ UNCHANGED <<store, task, place, hour, born, inSent, person, now, told, faults>>

\* The server keeps a submission no longer than it cares to.
ServerForgets(k) ==
    /\ subs[k] \in {"final", "canceled", "theirs"}
    /\ subs' = [subs EXCEPT ![k] = "none"]
    /\ UNCHANGED <<store, task, place, hour, born, inSent, delivered, person, now, told, faults>>

\* Another install calls the hold back, and leaves the copy, deletes it, or
\* sends the message itself once it has looked in Sent. (Bound: never while this
\* install, which has looked as well, is about to send.)
OtherCancels(k) ==
    /\ "cancels" \in Others /\ subs[k] = "pending" /\ place[k] = "held"
    /\ subs' = [subs EXCEPT ![k] = "theirs"]
    /\ place' = TakenOff(k)
    /\ UNCHANGED <<store, task, hour, born, inSent, delivered, person, now, told, faults>>

OtherDeletes(k) ==
    /\ "deletes" \in Others /\ subs[k] = "theirs" /\ place[k] = "draft"
    /\ place' = Destroyed(k) /\ intent' = "drop"
    /\ UNCHANGED <<store, task, subs, hour, born, inSent, delivered, composer, answer, moving, now, told, faults>>

OtherSends(k) ==
    /\ "sends" \in Others /\ subs[k] = "theirs" /\ place[k] = "draft"
    /\ ~inSent /\ \A c \in Callers : ~At(c, "send")
    /\ place' = Destroyed(k)
    /\ inSent' = TRUE /\ delivered' = OneMore(delivered) /\ intent' = "send"
    /\ UNCHANGED <<store, task, subs, hour, born, composer, answer, moving, now, told, faults>>

\* A store error or a panic ends what the caller does; its claim stays.
CallerDies(c) ==
    /\ ~At(c, "idle") /\ ClaimsStillLapse /\ Spend("crash")
    /\ Done(c)
    /\ UNCHANGED <<store, server, person, now, told>>

\* The app stops and starts again; a composer and a draft's news are lost.
Crash ==
    /\ moving # {} \/ \E c \in Callers : ~At(c, "idle")
    /\ ClaimsStillLapse /\ Spend("crash")
    /\ task' = [c \in Callers |-> Idle]
    /\ composer' = Closed /\ moving' = {}
    /\ UNCHANGED <<store, server, intent, answer, now, told>>

----------------------------------------------------------------------------
\* A message in a composer, never saved or with a draft on the server; or one
\* another install had the server hold for the hour 2.
Init ==
    /\ now = 0 /\ row = NoRow /\ claim = Free
    /\ task = [c \in Callers |-> Idle]
    /\ \E start \in Starts :
          /\ place = [k \in Copies |-> IF k # 1 \/ start = "unsaved" THEN "unmade"
                                       ELSE IF start = "draft" THEN "draft" ELSE "held"]
          /\ subs = [k \in Copies |-> IF place[k] = "held" THEN "pending" ELSE "none"]
          /\ hour = [k \in Copies |-> IF place[k] = "held" THEN 2 ELSE 0]
          /\ composer = CASE start = "unsaved" -> 0 [] start = "draft" -> 1 [] OTHER -> Closed
          /\ intent = IF start = "elsewhere" THEN "send" ELSE "none"
    /\ born = [k \in Copies |-> 0]
    /\ inSent = FALSE /\ delivered = 0
    /\ answer = "none" /\ moving = {} /\ told = FALSE /\ faults = 0

Step(c) ==
    \/ TakeNamed(c) \/ HandOver(c) \/ TakeHold(c) \/ PutRow(c) \/ SaveScheduled(c) \/ ScheduleRefused(c)
    \/ PassDue(c) \/ Look(c) \/ Ask(c) \/ CalledBack(c) \/ Store(c) \/ Reclaim(c) \/ Stuck(c)
    \/ Called(c) \/ Restore(c) \/ Reopened(c) \/ RemoveRow(c)
    \/ Try(c) \/ LookSent(c) \/ Send(c) \/ Forget(c) \/ Keep(c)

PassStep == PassStart \/ PassClaim \/ \E k \in Copies : Adopt(k)

Asked ==
    \/ \E c \in People :
          \/ SendNow(c) \/ Cancel(c) \/ Edit(c) \/ Drop(c) \/ Post(c) \/ HoldUnchanged(c)
          \/ \E at \in Time : Schedule(c, at) \/ NewHour(c, at)
    \/ SaveEdit \/ DraftSaved

Environment ==
    \/ Tick \/ Crash \/ \E c \in Callers : CallerDies(c)
    \/ \E k \in Copies : \/ ServerSends(k) \/ ServerForgets(k)
                         \/ OtherCancels(k) \/ OtherDeletes(k) \/ OtherSends(k)

Next == PassStep \/ (\E c \in Callers : Step(c)) \/ Asked \/ Environment

Spec == Init /\ [][Next]_vars

\* The timer starts every pass, tokio runs every task that can run, time goes
\* on, and the server sends what it holds.
Fairness ==
    /\ WF_vars(PassStep)
    /\ \A c \in Callers : WF_vars(Step(c))
    /\ WF_vars(Tick)
    /\ \A k \in Copies : WF_vars(ServerSends(k))

FairSpec == Spec /\ Fairness

----------------------------------------------------------------------------
(* Properties.                                                             *)

\* Every variable has its type.
TypeOK ==
    /\ now \in Time /\ faults \in 0..MaxFaults
    /\ row \in Row \cup {NoRow}
    /\ claim \in Time \cup {Free}
    /\ task \in [Callers -> Task]
    /\ place \in [Copies -> {"unmade", "draft", "held", "sent", "gone"}]
    /\ subs \in [Copies -> {"none", "pending", "final", "canceled", "theirs"}]
    /\ hour \in [Copies -> Time] /\ born \in [Copies -> Time]
    /\ inSent \in BOOLEAN /\ delivered \in 0..2
    /\ composer \in {Closed} \cup 0..MaxCopies
    /\ intent \in {"none", "send", "edit", "cancel", "delete", "drop"}
    /\ answer \in {"none", "waiting", "refused"} /\ moving \subseteq Copies \X Copies
    /\ told \in BOOLEAN

\* A claimed row is one caller's: the others wait until that one is done with it
\* ("is left to that caller", post; "the caller that claimed it is done", put).
OneAtATime == \A c, d \in Callers : UnderClaim(c) /\ UnderClaim(d) => c = d

\* The server sends the message or the outbox does, and never both, whatever
\* answers are lost ("A double send is worse than a late one", outbox.rs).
NoDoubleSend == delivered <= 1

\* Once Cancel Send or Delete has said the message stops, it goes nowhere, unless
\* the person then sends it from another install.
StoppedStaysUnsent ==
    [][(intent \in {"cancel", "delete"} /\ UNCHANGED intent) => UNCHANGED delivered]_vars

\* What the outbox reports as sent has been sent.
SentIsDelivered == told => delivered > 0

\* What the server will still send shows: its copy stays in Drafts, with the
\* keyword a pass and another install find it by.
HoldsShow == \A k \in Copies : subs[k] = "pending" => place[k] = "held"

\* Send Later takes a message unless something failed.
SendLaterTakesIt == answer = "refused" => faults > 0

\* A message handed over and not deleted is somewhere: in the row, in Drafts or
\* held by the server, in a composer, gone out, or with a caller that has not
\* given up. A Cancel Send leaves it in Drafts or in a composer.
NeverLost == intent \notin {"none", "delete", "drop"} =>
    \/ row # NoRow \/ delivered > 0 \/ composer # Closed
    \/ \E k \in Copies : place[k] \in {"draft", "held"}
    \/ \E c \in Callers : ~At(c, "idle")

\* Every row leaves the table in the end, or waits for the person with a problem
\* that says what to do: no hold, mark or claim keeps it there.
EventuallySettled == row # NoRow ~> row = NoRow \/ GivenUp(row)
=============================================================================
