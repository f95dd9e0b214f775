------------------------------- MODULE Outbox -------------------------------
(***************************************************************************)
(* The outbox on an account whose server holds no mail of its own: the     *)
(* table of waiting messages, the claims on its rows, the pass that sends  *)
(* what is due, and the requests that people and the assistant make of it  *)
(* meanwhile (Send Now, delete, cancel, a new hour, saving the draft).     *)
(*                                                                         *)
(* Every await of the Rust code ends a step here, so another caller, the   *)
(* clock, a crash or a lost answer can come between any two calls.         *)
(*                                                                         *)
(*   src/sync/src/outbox.rs          the operations                        *)
(*   src/store/src/outbox.rs         the table and its claims              *)
(*   src/sync/src/account/outbox.rs  one account's send and save calls     *)
(*   src/sync/src/backoff.rs         the waits between tries               *)
(***************************************************************************)
EXTENDS Integers

CONSTANTS
    Mails,        \* the messages
    Pass,         \* the scheduler's task, of which one runs at a time
    People,       \* tasks serving the window and the assistant
    MaxId,        \* bound: the table never holds a row above this id
    MaxTime,      \* bound: the clock stops here
    MaxDraft,     \* bound: how many ids a mail's draft takes
    MaxFaults,    \* bound: lost answers, store errors, crashes, outages
    MostTries,    \* MOST_TRIES: tries after which a row waits on the person
    FirstRetry,   \* FIRST_RETRY
    LongestRetry, \* LONGEST_RETRY
    ClaimLasts,   \* CLAIM_LASTS: the age past which a claim is nobody's
    FilesSent,    \* capability files_sent_mail: the server files what it sends
    InitialRows,  \* the tables an earlier run may have left
    Jobs,         \* what people ask for
    Busy,         \* what they ask for while a caller has the row claimed
    SlowSends,    \* whether a live caller may outlast its claim
    Overtaking,   \* whether a row may change between Send Now's read and its claim
    NoRow

VARIABLES
    now,        \* the clock
    rows,       \* table outbox: the row under each id, or NoRow
    claims,     \* table outbox_claims: when the id was claimed, or Free
    pc,         \* where each caller is
    msg,        \* the caller's own copy of the row (`Queued`)
    since,      \* when the caller claimed its row
    todo,       \* the ids the running pass has still to try
    began,      \* the `now` the running pass was called with
    locked,     \* a switch to JMAP holds the account
    online,     \* the account is connected and serves mail
    delivered,  \* how often the server has sent each mail
    sent,       \* the Message-IDs of each mail that are found in Sent
    drafts,     \* the id of the mail's draft on the server, 0 for none
    moving,     \* the drafts saved again whose rows are still to be told
    told,       \* the outbox has reported the mail as sent
    owner,      \* who answers for the mail: the person or the outbox
    faults

table == <<rows, claims>>
callers == <<pc, msg, since, todo, began>>
server == <<delivered, sent, drafts, moving>>
history == <<told, owner>>
world == <<now, locked, online, faults>>
vars == <<now, rows, claims, pc, msg, since, todo, began, locked, online,
          delivered, sent, drafts, moving, told, owner, faults>>

Ids == 1..MaxId
Time == 0..MaxTime
Free == -1
Callers == {Pass} \cup People

Labels == {"idle", "pass", "claimed", "found", "posted", "attempt", "lookSent",
           "send", "file", "forget", "retry", "refused", "named", "canceling",
           "canceled", "unsaved"}

\* A stored row, or a caller's copy of one. Id 0 is a message not stored yet.
Queued == [id : 0..MaxId, mail : Mails, at : Time, raw : BOOLEAN,
           draft : 0..MaxDraft, attempts : 0..MostTries, problem : BOOLEAN]

ASSUME OutboxAssumption ==
    /\ Mails # {}
    /\ Pass \notin People
    /\ MaxId \in Nat /\ MaxTime \in Nat /\ MaxDraft \in Nat \ {0} /\ MaxFaults \in Nat
    /\ MostTries \in Nat \ {0, 1} /\ ClaimLasts \in Nat
    /\ FirstRetry \in Nat /\ LongestRetry \in Nat
    /\ FilesSent \in BOOLEAN /\ SlowSends \in BOOLEAN /\ Overtaking \in BOOLEAN
    /\ NoRow \notin Queued

\* An earlier run leaves rows as `schedule` writes them: untried, without a
\* problem, one per mail, each with its bytes or with a draft that has them.
ASSUME InitialRowsAssumption ==
    \A t \in InitialRows :
        /\ t \in [Ids -> Queued \cup {NoRow}]
        /\ \A i \in Ids : t[i] # NoRow =>
              /\ t[i].id = i /\ t[i].attempts = 0 /\ ~t[i].problem
              /\ t[i].raw \/ t[i].draft = 1
              /\ t[i].draft \in {0, 1}
        /\ \A i, j \in Ids : (t[i] # NoRow /\ t[j] # NoRow /\ i # j)
              => t[i].mail # t[j].mail

----------------------------------------------------------------------------
(* The waits between tries (backoff.rs).                                   *)

\* `None`, the outbox giving up, is told by GaveUp.
GaveUp(attempts) == attempts >= MostTries

Least(a, b) == IF a <= b THEN a ELSE b

\* Half a minute, doubling to half an hour.
RetryDelay(attempts) ==
    Least(FirstRetry * 2 ^ Least(IF attempts = 0 THEN 0 ELSE attempts - 1, 10),
          LongestRetry)

\* The clock stops at MaxTime, so a later hour is that one.
Cap(t) == IF t \in Time THEN t ELSE MaxTime

----------------------------------------------------------------------------
(* The table (store/src/outbox.rs).                                        *)

\* Mutant of NextIds: the largest id in use instead of the one above it.
NextIdsInUse == {n \in Ids : /\ \A i \in Ids : rows[i] # NoRow => i <= n
                             /\ n = 1 \/ rows[n] # NoRow}

\* The id SQLite gives a new row of an INTEGER PRIMARY KEY without
\* AUTOINCREMENT: one above the largest in use, so a removed last id returns.
NextIds == {n \in Ids : /\ \A i \in Ids : rows[i] # NoRow => i < n
                        /\ n = 1 \/ rows[n - 1] # NoRow}

\* The rows that send the same draft as `m`: one at most.
ByDraft(m) == {i \in Ids : /\ rows[i] # NoRow /\ m.draft # 0
                           /\ rows[i].mail = m.mail /\ rows[i].draft = m.draft}

\* Mutant of PutIds: an INSERT where the row is there to update.
PutIdsAnew(m) == NextIds

\* The id `put` writes `m` under: the row it names, else the one with its
\* draft, else a new row. A row that has gone meanwhile comes back as new.
PutIds(m) == IF m.id # 0 /\ rows[m.id] # NoRow THEN {m.id}
             ELSE IF m.id = 0 /\ ByDraft(m) # {} THEN ByDraft(m)
             ELSE NextIds

\* Writing over a row lets go of any claim on it, whoever made it. The unique
\* index refuses a second row for a draft, and nothing is written.
Put(m) ==
    \E i \in PutIds(m) :
        IF ByDraft(m) \subseteq {i}
        THEN /\ rows' = [rows EXCEPT ![i] = [m EXCEPT !.id = i]]
             /\ claims' = [claims EXCEPT ![i] = Free]
        ELSE UNCHANGED <<rows, claims>>

\* Mutants of Claimable: a claim nobody heeds, and one that never lapses.
ClaimableByAll(i) == i \in Ids /\ rows[i] # NoRow
ClaimableOnce(i) == i \in Ids /\ rows[i] # NoRow /\ claims[i] = Free

\* One statement checks and sets the claim; a lapsed one is taken over.
Claimable(i) == /\ i \in Ids /\ rows[i] # NoRow
                /\ claims[i] = Free \/ claims[i] + ClaimLasts < now

Release(i) == claims' = [claims EXCEPT ![i] = Free]

\* Removing a row removes its claim (ON DELETE CASCADE).
Remove(S) ==
    /\ rows' = [i \in Ids |-> IF i \in S THEN NoRow ELSE rows[i]]
    /\ claims' = [i \in Ids |-> IF i \in S THEN Free ELSE claims[i]]

----------------------------------------------------------------------------
(* Callers.                                                                *)

\* What a caller that has no message carries.
Blank == [id |-> 0, mail |-> CHOOSE m \in Mails : TRUE, at |-> 0, raw |-> FALSE,
          draft |-> 0, attempts |-> 0, problem |-> FALSE]

\* The caller goes on with the message it has.
Goto(c, label) ==
    /\ pc' = [pc EXCEPT ![c] = label]
    /\ UNCHANGED <<msg, since>>

\* The caller takes up the message `m`.
Take(c, m, label) ==
    /\ pc' = [pc EXCEPT ![c] = label]
    /\ msg' = [msg EXCEPT ![c] = m]

\* The caller is done with its message; the pass has more.
Done(c) ==
    /\ pc' = [pc EXCEPT ![c] = IF c = Pass THEN "pass" ELSE "idle"]
    /\ msg' = [msg EXCEPT ![c] = Blank]
    /\ since' = [since EXCEPT ![c] = 0]

\* A caller past its claim and not yet done: it works on the row msg[c].id.
Active(c) == pc[c] \notin {"idle", "pass", "found", "named"}
Working(c) == Active(c) /\ msg[c].id # 0

\* Takes the row `i` for `c`, with the row as it stands.
ClaimFor(c, i) ==
    /\ Claimable(i)
    /\ claims' = [claims EXCEPT ![i] = now]
    /\ since' = [since EXCEPT ![c] = now]

Spend == faults < MaxFaults /\ faults' = faults + 1

\* The Message-ID the row's mail goes out under: that of the bytes kept here,
\* or that of the draft. Every save builds a message with a new one.
MessageId(m) == IF m.raw THEN 0 ELSE m.draft

\* Whether people may ask `job` of the row `i` now. Nothing in the code stops
\* them from asking while a caller is sending it; Busy says whether they do.
MayAsk(job, i) == /\ job \in Jobs
                  /\ rows[i] # NoRow
                  /\ claims[i] = Free \/ job \in Busy

----------------------------------------------------------------------------
(* Outbox::send_due, the pass over what is due.                            *)

PassStart ==
    /\ pc[Pass] = "idle"
    /\ todo' = {i \in Ids : /\ rows[i] # NoRow
                            /\ rows[i].at <= now
                            /\ ~GaveUp(rows[i].attempts)}
    /\ todo' # {}
    /\ began' = now
    /\ Goto(Pass, "pass")
    /\ UNCHANGED <<table, server, history, world>>

PassClaim(i) ==
    /\ pc[Pass] = "pass" /\ i \in todo
    /\ todo' = todo \ {i}
    /\ \/ ClaimFor(Pass, i) /\ Take(Pass, rows[i], "claimed")
       \/ ~Claimable(i) /\ UNCHANGED <<claims, since, msg, pc>>
    /\ UNCHANGED <<rows, began, server, history, world>>

\* Mutant of PassDue: the switch is not asked about.
PassDueUnasked == msg[Pass].at <= began /\ ~GaveUp(msg[Pass].attempts)

\* The row as claimed may have moved since the list was read, and a switch
\* may hold the account: then it is let go untried.
PassDue == ~locked /\ msg[Pass].at <= began /\ ~GaveUp(msg[Pass].attempts)

PassGo ==
    /\ pc[Pass] = "claimed"
    /\ IF PassDue
       THEN Goto(Pass, "attempt") /\ UNCHANGED claims
       ELSE Done(Pass) /\ Release(msg[Pass].id)
    /\ UNCHANGED <<rows, todo, began, server, history, world>>

PassEnd ==
    /\ pc[Pass] = "pass" /\ todo = {}
    /\ Goto(Pass, "idle") /\ began' = 0
    /\ UNCHANGED <<table, todo, server, history, world>>

----------------------------------------------------------------------------
(* Outbox::post: a message the composer hands over, and Send Now.          *)

\* What a composer may send. `post` asks nothing about it: people send a mail
\* that nobody has in hand, and "repost" is the composer of a scheduled draft,
\* which sends it beside the row that waits.
MayPost(m) ==
    \/ /\ "post" \in Jobs
       /\ owner[m] = "person" /\ delivered[m] = 0
       /\ \A d \in Callers : pc[d] \notin {"idle", "pass"} => msg[d].mail # m
       /\ \A i \in Ids : rows[i] # NoRow => rows[i].mail # m
    \/ /\ "repost" \in Jobs
       /\ drafts[m] # 0
       /\ \E i \in Ids : rows[i] # NoRow /\ rows[i].mail = m

\* A new message: no row of its own, so nothing to claim. It waits out a switch.
PostNew(c, m) ==
    /\ MayPost(m)
    /\ c \in People /\ pc[c] = "idle" /\ ~locked
    /\ Take(c, [id |-> 0, mail |-> m, at |-> now, raw |-> TRUE, draft |-> drafts[m],
                attempts |-> 0, problem |-> FALSE], "attempt")
    /\ UNCHANGED <<table, since, todo, began, server, history, world>>

\* send_one reads the row, and what it read is what it sends.
SendOne(c, i) ==
    /\ "send_one" \in Jobs
    /\ c \in People /\ pc[c] = "idle" /\ rows[i] # NoRow
    /\ Take(c, rows[i], "found")
    /\ UNCHANGED <<table, since, todo, began, server, history, world>>

\* The claim is a second call to the store, taken for the row's id, and the
\* row it answers is not looked at.
PostClaim(c) ==
    /\ pc[c] = "found"
    /\ \/ /\ ClaimFor(c, msg[c].id) /\ Take(c, msg[c], "posted")
          /\ Overtaking \/ rows[msg[c].id] = msg[c]
       \/ ~Claimable(msg[c].id) /\ Done(c) /\ UNCHANGED claims
    /\ UNCHANGED <<rows, todo, began, server, history, world>>

\* wait_out_hold: while a switch holds the account the row waits as it is.
PostGo(c) ==
    /\ pc[c] = "posted"
    /\ IF locked
       THEN Done(c) /\ Release(msg[c].id)
       ELSE Goto(c, "attempt") /\ UNCHANGED claims
    /\ UNCHANGED <<rows, todo, began, server, history, world>>

----------------------------------------------------------------------------
(* Outbox::attempt, one try at the server.                                 *)

\* An account that is not connected has heard nothing of the message: a row
\* waits on untried, a message without one becomes a row.
AttemptOffline(c) ==
    /\ pc[c] = "attempt" /\ ~online
    /\ IF msg[c].id # 0
       THEN Done(c) /\ Release(msg[c].id)
       ELSE Goto(c, "retry") /\ UNCHANGED claims
    /\ UNCHANGED <<rows, todo, began, server, history, world>>

\* Mutant of CountTry: the try counts only once it has failed.
CountTryLate(i) == UNCHANGED rows

\* count_try: the try counts before anything goes.
CountTry(i) ==
    rows' = IF i # 0 /\ rows[i] # NoRow
            THEN [rows EXCEPT ![i].attempts = Least(@ + 1, MostTries)]
            ELSE rows

\* Mutant of Attempt: the second try does not look in Sent yet.
AttemptLooksLate(c) ==
    /\ pc[c] = "attempt" /\ online
    /\ \/ /\ CountTry(msg[c].id) /\ UNCHANGED faults
          /\ Goto(c, IF msg[c].raw /\ msg[c].attempts > 1 THEN "lookSent" ELSE "send")
       \/ /\ msg[c].id # 0 /\ Spend
          /\ Goto(c, "retry") /\ UNCHANGED rows
    /\ UNCHANGED <<claims, todo, began, server, history, now, locked, online>>

\* A message tried before is looked for in Sent first, when its bytes are here.
\* A store that refuses the count ends the try as a failure that passes.
Attempt(c) ==
    /\ pc[c] = "attempt" /\ online
    /\ \/ /\ CountTry(msg[c].id) /\ UNCHANGED faults
          /\ Goto(c, IF msg[c].raw /\ msg[c].attempts > 0 THEN "lookSent" ELSE "send")
       \/ /\ msg[c].id # 0 /\ Spend
          /\ Goto(c, "retry") /\ UNCHANGED rows
    /\ UNCHANGED <<claims, todo, began, server, history, now, locked, online>>

\* The draft the message came from goes; one that has changed its id stays.
DeleteDraft(m) ==
    drafts' = IF m.draft = drafts[m.mail] THEN [drafts EXCEPT ![m.mail] = 0] ELSE drafts

\* sent_copy. A copy found means the mail went; its draft goes too, unless the
\* server will not have that. A look that fails is a try that failed.
LookSent(c) ==
    /\ pc[c] = "lookSent"
    /\ \/ /\ online /\ MessageId(msg[c]) \in sent[msg[c].mail] /\ Goto(c, "forget")
          /\ \/ DeleteDraft(msg[c]) /\ UNCHANGED faults
             \/ Spend /\ UNCHANGED drafts
       \/ /\ online /\ MessageId(msg[c]) \notin sent[msg[c].mail] /\ Goto(c, "send")
          /\ UNCHANGED <<drafts, faults>>
       \/ ~online /\ Goto(c, "retry") /\ UNCHANGED <<drafts, faults>>
       \/ /\ \/ Goto(c, "retry")
             \/ Goto(c, "refused")
          /\ Spend /\ UNCHANGED drafts
    /\ UNCHANGED <<table, todo, began, delivered, sent, moving, history, now, locked, online>>

\* Whether the bytes, or the draft, can go: a draft already sent or deleted,
\* or one whose Message-ID is in Sent, is answered as gone.
Sendable(c) == \/ msg[c].raw
               \/ /\ msg[c].draft = drafts[msg[c].mail] /\ drafts[msg[c].mail] # 0
                  /\ MessageId(msg[c]) \notin sent[msg[c].mail]

\* The server sends the mail, and its answer comes back or is lost.
Send(c) ==
    /\ pc[c] = "send" /\ online /\ Sendable(c)
    /\ LET m == msg[c].mail IN
       /\ delivered' = [delivered EXCEPT ![m] = Least(@ + 1, 2)]
       /\ sent' = IF FilesSent THEN [sent EXCEPT ![m] = @ \cup {MessageId(msg[c])}] ELSE sent
       /\ \/ /\ Goto(c, IF FilesSent THEN "forget" ELSE "file")
             /\ DeleteDraft(msg[c]) /\ UNCHANGED faults
          \/ /\ Goto(c, "retry") /\ Spend
             /\ \/ UNCHANGED drafts
                \/ ~msg[c].raw /\ DeleteDraft(msg[c])
    /\ UNCHANGED <<table, todo, began, moving, history, now, locked, online>>

\* send_draft answers `None` for a draft that has gone, which counts as sent;
\* one found in Sent is erased on the way.
SendGone(c) ==
    /\ pc[c] = "send" /\ online /\ ~Sendable(c) /\ msg[c].draft # 0
    /\ DeleteDraft(msg[c]) /\ Goto(c, "forget")
    /\ UNCHANGED <<table, todo, began, delivered, sent, moving, history, world>>

\* Mutant of SendFails: the draft is erased before its bytes go.
SendFailsErased(c) ==
    /\ pc[c] = "send" /\ Spend
    /\ DeleteDraft(msg[c]) /\ Goto(c, "retry")
    /\ UNCHANGED <<table, todo, began, delivered, sent, moving, history, now, locked, online>>

\* Nothing went: no network, a busy server (worth_retrying) or a refusal. A
\* row with neither bytes nor a draft answers NotFound.
SendFails(c) ==
    /\ pc[c] = "send"
    /\ \/ ~online /\ Goto(c, "retry") /\ UNCHANGED faults
       \/ Spend /\ Goto(c, "retry")
       \/ Spend /\ Goto(c, "refused")
       \/ /\ ~msg[c].raw /\ msg[c].draft = 0
          /\ Goto(c, "refused") /\ UNCHANGED faults
    /\ UNCHANGED <<table, todo, began, server, history, now, locked, online>>

\* file_sent, for a server that does not file what it sends. The mail has
\* gone whatever happens here, so a failure never reaches the caller.
FileSent(c) ==
    /\ pc[c] = "file"
    /\ \/ /\ online /\ sent' = [sent EXCEPT ![msg[c].mail] = @ \cup {MessageId(msg[c])}]
          /\ UNCHANGED faults
       \/ Spend /\ UNCHANGED sent
       \/ ~online /\ UNCHANGED <<sent, faults>>
    /\ Goto(c, "forget")
    /\ UNCHANGED <<table, todo, began, delivered, drafts, moving, history,
                   now, locked, online>>

\* Bound: a row is left claimed while its claim can still lapse.
ClaimsStillLapse == now + ClaimLasts < MaxTime

\* forget_sent: the row under its own id, or under the draft it occupied. A
\* store that refuses is not a failed send: the row stays, claimed and tried.
ForgetSent(c) ==
    /\ pc[c] = "forget"
    /\ \/ /\ Remove(IF msg[c].id # 0 THEN {msg[c].id} ELSE ByDraft(msg[c]))
          /\ UNCHANGED faults
       \/ ClaimsStillLapse /\ Spend /\ UNCHANGED table
    /\ told' = [told EXCEPT ![msg[c].mail] = TRUE]
    /\ Done(c)
    /\ UNCHANGED <<todo, began, server, owner, now, locked, online>>

\* Mutant of Kept: the try is counted again.
KeptTwice(m, attempts) ==
    [m EXCEPT !.attempts = attempts + 1, !.problem = TRUE,
              !.at = Cap(now + (IF GaveUp(attempts) THEN 0 ELSE RetryDelay(attempts)))]

\* Outbox::keep: the row says what went wrong and when to try again.
Kept(m, attempts) ==
    [m EXCEPT !.attempts = attempts, !.problem = TRUE,
              !.at = Cap(now + (IF GaveUp(attempts) THEN 0 ELSE RetryDelay(attempts)))]

Keep(c, attempts) ==
    /\ Put(Kept(msg[c], attempts))
    /\ owner' = [owner EXCEPT ![msg[c].mail] = "outbox"]
    /\ UNCHANGED told

\* A failure that passes: one more try counted.
KeepRetry(c) ==
    /\ pc[c] = "retry"
    /\ Keep(c, Least(msg[c].attempts + 1, MostTries))
    /\ Done(c)
    /\ UNCHANGED <<todo, began, server, world>>

\* A failure nothing would fix: a row keeps its place and stops, a message
\* without one goes back to the person.
KeepRefused(c) ==
    /\ pc[c] = "refused"
    /\ IF msg[c].id # 0
       THEN Keep(c, MostTries)
       ELSE UNCHANGED <<table, history>>
    /\ Done(c)
    /\ UNCHANGED <<todo, began, server, world>>

----------------------------------------------------------------------------
(* What people ask of a waiting message.                                   *)

\* drop_one: removed without a claim.
DropOne(i) ==
    /\ MayAsk("drop", i)
    /\ Remove({i})
    /\ owner' = [owner EXCEPT ![rows[i].mail] = "person"]
    /\ UNCHANGED <<callers, server, told, world>>

\* reschedule: read and written in one transaction, without a claim, and the
\* write lets go of any.
Reschedule(i, at) ==
    /\ MayAsk("reschedule", i)
    /\ ~rows[i].problem
    /\ at > now
    /\ Put([rows[i] EXCEPT !.at = at])
    /\ UNCHANGED <<callers, server, history, world>>

\* The composer saves the draft it has open again: save_draft appends it
\* under a new id and erases the old one. The row of the mail still names the
\* old one when it answers; a task of its own is to tell it.
DraftSave(i) ==
    /\ MayAsk("draft_saved", i) /\ online
    /\ LET m == rows[i].mail IN
       /\ rows[i].draft # 0 /\ drafts[m] # 0 /\ drafts[m] < MaxDraft
       /\ drafts' = [drafts EXCEPT ![m] = @ + 1]
       /\ moving' = [moving EXCEPT ![m] = @ \cup {drafts[m]}]
    /\ UNCHANGED <<table, callers, delivered, sent, history, world>>

\* draft_saved, in that task: the row that waits on the old draft names the
\* new one and lets go of its bytes, whoever is sending it. A store that
\* refuses, as one that has the new draft in another row, is logged only.
DraftMoved(m, d) ==
    /\ d \in moving[m]
    /\ moving' = [moving EXCEPT ![m] = @ \ {d}]
    /\ LET old == ByDraft([mail |-> m, draft |-> d])
           new == ByDraft([mail |-> m, draft |-> d + 1])
       IN \/ /\ new = {}
             /\ rows' = [i \in Ids |-> IF i \in old
                                      THEN [rows[i] EXCEPT !.draft = d + 1, !.raw = FALSE]
                                      ELSE rows[i]]
             /\ UNCHANGED faults
          \/ new # {} /\ UNCHANGED <<rows, faults>>
          \/ Spend /\ UNCHANGED rows
    /\ UNCHANGED <<claims, callers, delivered, sent, drafts, history, now, locked, online>>

\* try_now brings every stuck message forward.
TryNow ==
    /\ "try_now" \in Jobs
    /\ \E i \in Ids : rows[i] # NoRow /\ rows[i].problem /\ rows[i].at > now
    /\ rows' = [i \in Ids |-> IF rows[i] # NoRow /\ rows[i].problem /\ rows[i].at > now
                              THEN [rows[i] EXCEPT !.at = now] ELSE rows[i]]
    /\ UNCHANGED <<claims, callers, server, history, world>>

\* cancel_scheduled lists the rows that are named.
Cancel(c, i) ==
    /\ "cancel" \in Jobs
    /\ c \in People /\ pc[c] = "idle"
    /\ rows[i] # NoRow /\ ~rows[i].problem
    /\ Take(c, rows[i], "named")
    /\ UNCHANGED <<table, since, todo, began, server, history, world>>

\* Each is claimed like a send, and goes on as the claim answers it. One
\* already claimed is going out and is left to that caller.
CancelClaim(c) ==
    /\ pc[c] = "named"
    /\ \/ ClaimFor(c, msg[c].id) /\ Take(c, rows[msg[c].id], "canceling")
       \/ ~Claimable(msg[c].id) /\ Done(c) /\ UNCHANGED claims
    /\ UNCHANGED <<rows, todo, began, server, history, world>>

\* A message the server never had goes to Drafts first. When that fails the
\* row stays, claimed, and the app reopens it in a composer. Bound: a second
\* copy in Drafts is not told from the first.
CancelSave(c) ==
    /\ pc[c] = "canceling" /\ msg[c].draft = 0
    /\ LET m == msg[c].mail IN
       \/ /\ online /\ ~locked
          /\ drafts' = IF drafts[m] = 0 THEN [drafts EXCEPT ![m] = 1] ELSE drafts
          /\ Goto(c, "canceled") /\ UNCHANGED <<owner, faults>>
       \/ /\ \/ (~online \/ locked) /\ UNCHANGED faults
             \/ Spend
          /\ owner' = [owner EXCEPT ![m] = "person"]
          /\ Goto(c, "unsaved") /\ UNCHANGED drafts
    /\ UNCHANGED <<table, todo, began, delivered, sent, moving, told, now, locked, online>>

\* Its row goes once the mail is in Drafts.
CancelEnd(c) ==
    /\ pc[c] = "canceled" \/ (pc[c] = "canceling" /\ msg[c].draft # 0)
    /\ Remove({msg[c].id})
    /\ Done(c)
    /\ owner' = [owner EXCEPT ![msg[c].mail] = "person"]
    /\ UNCHANGED <<todo, began, server, told, world>>

\* The composer has it: its row goes, unless the composer would not open.
CancelReopened(c) ==
    /\ pc[c] = "unsaved"
    /\ Remove({msg[c].id}) \/ UNCHANGED table
    /\ Done(c)
    /\ UNCHANGED <<todo, began, server, history, world>>

----------------------------------------------------------------------------
(* The world around the outbox.                                            *)

\* A live caller finishes before its claim lapses, unless SlowSends.
Tick ==
    /\ now < MaxTime
    /\ SlowSends \/ \A c \in Callers : Working(c) => now + 1 <= since[c] + ClaimLasts
    /\ now' = now + 1
    /\ UNCHANGED <<table, callers, server, history, locked, online, faults>>

\* The store refuses a caller's write, or its task panics: what it was doing
\* ends there, and its claim stays.
CallerDies(c) ==
    /\ pc[c] \notin {"idle", "pass"} /\ ClaimsStillLapse /\ Spend
    /\ Done(c)
    /\ UNCHANGED <<table, todo, began, server, history, now, locked, online>>

\* The app stops and starts again; the account's lock is in its memory, and so
\* is what a row is still to be told.
Crash ==
    /\ (\E c \in Callers : pc[c] # "idle") \/ (\E m \in Mails : moving[m] # {})
    /\ ClaimsStillLapse /\ Spend
    /\ pc' = [c \in Callers |-> "idle"]
    /\ msg' = [c \in Callers |-> Blank]
    /\ since' = [c \in Callers |-> 0]
    /\ todo' = {} /\ began' = 0
    /\ moving' = [m \in Mails |-> {}]
    /\ locked' = FALSE
    /\ UNCHANGED <<table, delivered, sent, drafts, history, now, online>>

\* The account loses its connection, and gets it back.
Disconnect == /\ online /\ Spend /\ online' = FALSE
              /\ UNCHANGED <<table, callers, server, history, now, locked>>
Connect    == /\ ~online /\ online' = TRUE
              /\ UNCHANGED <<table, callers, server, history, now, locked, faults>>

\* Outbox::hold, the write side of the account's lock: a switch to JMAP waits
\* for the sends under way, and lets go when it is done.
Sending(c) == pc[c] \in {"attempt", "lookSent", "send", "file", "forget", "retry", "refused"}

SwitchHolds == /\ ~locked /\ "switch" \in Jobs /\ Spend
               /\ \A c \in Callers : ~Sending(c)
               /\ locked' = TRUE
               /\ UNCHANGED <<table, callers, server, history, now, online>>
SwitchEnds  == /\ locked /\ locked' = FALSE
               /\ UNCHANGED <<table, callers, server, history, now, online, faults>>

----------------------------------------------------------------------------
Init ==
    /\ now = 0
    /\ rows \in InitialRows
    /\ claims = [i \in Ids |-> Free]
    /\ pc = [c \in Callers |-> "idle"]
    /\ msg = [c \in Callers |-> Blank]
    /\ since = [c \in Callers |-> 0]
    /\ todo = {} /\ began = 0
    /\ locked = FALSE /\ online = TRUE
    /\ delivered = [m \in Mails |-> 0]
    /\ sent = [m \in Mails |-> {}]
    /\ drafts = [m \in Mails |->
                   IF \E i \in Ids : rows[i] # NoRow /\ rows[i].mail = m /\ rows[i].draft # 0
                   THEN 1 ELSE 0]
    /\ moving = [m \in Mails |-> {}]
    /\ told = [m \in Mails |-> FALSE]
    /\ owner = [m \in Mails |->
                  IF \E i \in Ids : rows[i] # NoRow /\ rows[i].mail = m
                  THEN "outbox" ELSE "person"]
    /\ faults = 0

\* What one caller does next.
Step(c) ==
    \/ PostClaim(c) \/ PostGo(c)
    \/ AttemptOffline(c) \/ Attempt(c) \/ LookSent(c)
    \/ Send(c) \/ SendGone(c) \/ SendFails(c) \/ FileSent(c)
    \/ ForgetSent(c) \/ KeepRetry(c) \/ KeepRefused(c)
    \/ CancelClaim(c) \/ CancelSave(c) \/ CancelEnd(c) \/ CancelReopened(c)

PassStep == PassStart \/ (\E i \in Ids : PassClaim(i)) \/ PassGo \/ PassEnd

Ask == \/ \E c \in People, m \in Mails : PostNew(c, m)
       \/ \E c \in People, i \in Ids : SendOne(c, i) \/ Cancel(c, i)
       \/ \E i \in Ids : DropOne(i) \/ DraftSave(i)
       \/ \E i \in Ids, at \in Time : Reschedule(i, at)
       \/ TryNow

Saved == \E m \in Mails, d \in 1..(MaxDraft - 1) : DraftMoved(m, d)

Environment == \/ Tick \/ Crash \/ Disconnect \/ Connect \/ SwitchHolds \/ SwitchEnds
               \/ \E c \in Callers : CallerDies(c)

Next == PassStep \/ (\E c \in Callers : Step(c)) \/ Ask \/ Saved \/ Environment

Spec == Init /\ [][Next]_vars

\* The half-minute timer starts every pass, tokio runs every task that can
\* run, time goes on, and an outage or a switch ends. Nothing makes people ask.
Fairness ==
    /\ WF_vars(PassStep)
    /\ \A c \in Callers : WF_vars(Step(c))
    /\ WF_vars(Tick) /\ WF_vars(Connect) /\ WF_vars(SwitchEnds)

FairSpec == Spec /\ Fairness

----------------------------------------------------------------------------
(* Properties.                                                             *)

\* Every variable has its type.
TypeOK ==
    /\ now \in Time /\ faults \in 0..MaxFaults
    /\ rows \in [Ids -> Queued \cup {NoRow}]
    /\ claims \in [Ids -> Time \cup {Free}]
    /\ pc \in [Callers -> Labels]
    /\ msg \in [Callers -> Queued]
    /\ since \in [Callers -> Time]
    /\ todo \subseteq Ids /\ began \in Time
    /\ locked \in BOOLEAN /\ online \in BOOLEAN
    /\ delivered \in [Mails -> 0..2]
    /\ sent \in [Mails -> SUBSET (0..MaxDraft)]
    /\ drafts \in [Mails -> 0..MaxDraft]
    /\ moving \in [Mails -> SUBSET (1..(MaxDraft - 1))]
    /\ told \in [Mails -> BOOLEAN]
    /\ owner \in [Mails -> {"person", "outbox"}]

\* "A double send is worse than a late one" (outbox.rs, module docs): whatever
\* is lost, retried, restarted or asked for at once, no mail goes out twice.
NoDoubleSend == \A m \in Mails : delivered[m] <= 1

\* "Closing the laptop mid-send loses nothing": a mail the outbox answers for
\* is in its table, on the server as a draft, or has gone out.
NeverLost == \A m \in Mails : owner[m] = "outbox" =>
    \/ \E i \in Ids : rows[i] # NoRow /\ rows[i].mail = m
    \/ drafts[m] # 0
    \/ delivered[m] > 0

\* What the outbox reports as sent, the server has sent.
SentIsDelivered == \A m \in Mails : told[m] => delivered[m] > 0

\* A claim lets one caller at a time work on a row (store::outbox::claim: "of
\* two callers only one gets the row"), from the claim to the last write.
OneCallerPerRow == \A c, d \in Callers :
    (Working(c) /\ Working(d) /\ c # d) => msg[c].id # msg[d].id

\* No mail goes out while a switch to JMAP holds the account (Outbox::hold).
NothingSentWhileHeld == [][locked => UNCHANGED delivered]_vars

\* A mail the outbox answers for goes out, or ends with the person: taken
\* back, or in the Outbox with its tries used up.
EventuallySettled == \A m \in Mails :
    owner[m] = "outbox" ~>
        \/ delivered[m] > 0
        \/ owner[m] = "person"
        \/ \E i \in Ids : rows[i] # NoRow /\ rows[i].mail = m /\ GaveUp(rows[i].attempts)

\* The outbox does to each mail only what the Promise allows: hands it on once,
\* and reports it as sent only after that.
Promised == INSTANCE Promise WITH times <- delivered
KeepsPromise == Promised!Spec

----------------------------------------------------------------------------
(* The inductive invariant behind the safety properties, for a world where *)
(* people leave a row alone while it is being sent and send no scheduled   *)
(* draft beside it, callers finish within their claim, and the row Send    *)
(* Now claims is still the one it read.                                    *)

Careful == Busy = {} /\ ~SlowSends /\ ~Overtaking /\ "repost" \notin Jobs

\* Nobody saves a scheduled draft again.
NoSaves == "draft_saved" \notin Jobs

\* Labels by how far the try has come.
Untold == {"claimed", "posted", "attempt"}
Tried == {"lookSent", "send", "file", "forget", "retry", "refused"}

\* Each row knows its id, and a mail has one row at most.
RowsApart == \A i \in Ids : rows[i] # NoRow =>
    /\ rows[i].id = i
    /\ \A j \in Ids : (rows[j] # NoRow /\ rows[j].mail = rows[i].mail) => i = j

\* A working caller's row is there, is the one it read unless a save has moved
\* it, and is claimed for it.
ClaimsHeld == \A c \in Callers : Working(c) =>
    LET r == rows[msg[c].id] IN
    /\ r # NoRow
    /\ r.mail = msg[c].mail
    /\ NoSaves => r.raw = msg[c].raw /\ r.draft = msg[c].draft
    /\ pc[c] \in Untold => r.attempts = msg[c].attempts
    /\ pc[c] \in Tried \ {"retry"} => r.attempts > 0
    /\ claims[msg[c].id] = since[c]
    /\ now <= since[c] + ClaimLasts

\* A message on its first way out has no row.
NewHasNoRow == \A c \in Callers : (Active(c) /\ msg[c].id = 0) =>
    /\ pc[c] \in Tried \cup {"attempt"} /\ msg[c].raw
    /\ pc[c] = "attempt" => msg[c].attempts = 0
    /\ \A i \in Ids : rows[i] # NoRow => rows[i].mail # msg[c].mail

\* No mail is in the hands of two callers.
CallersApart == \A c, d \in Callers :
    (Active(c) /\ Active(d) /\ c # d) => msg[c].mail # msg[d].mail

\* A mail's draft keeps its first id while nobody saves it again.
DraftsStay == NoSaves => \A m \in Mails : drafts[m] <= 1 /\ moving[m] = {}

\* Who holds what: an invariant of its own.
Held == TypeOK /\ RowsApart /\ ClaimsHeld /\ NewHasNoRow /\ CallersApart
Apart == Held /\ DraftsStay

\* Bytes never tried have not gone: the try is counted before they go.
UntriedNotDelivered ==
    /\ \A i \in Ids : (rows[i] # NoRow /\ rows[i].raw /\ rows[i].attempts = 0)
          => delivered[rows[i].mail] = 0
    /\ \A c \in Callers : (pc[c] = "attempt" /\ msg[c].id = 0)
          => delivered[msg[c].mail] = 0

\* The draft `d` of the mail `m` is on the server, there or saved again since,
\* until the mail has gone out.
Known(m, d) == d <= drafts[m] \/ delivered[m] > 0

\* So is every draft the table or a caller names, and one saved again has a
\* later one.
DraftsKnown ==
    /\ \A i \in Ids : (rows[i] # NoRow /\ rows[i].draft # 0)
          => Known(rows[i].mail, rows[i].draft)
    /\ \A c \in Callers : (Active(c) /\ msg[c].draft # 0)
          => Known(msg[c].mail, msg[c].draft)
    /\ \A m \in Mails : \A d \in moving[m] : Known(m, d + 1)

\* Sent shows nothing the server has not sent.
SentIsGone == \A m \in Mails : sent[m] # {} => delivered[m] > 0

\* The mail has gone, or its draft was saved again and is on the server: all
\* that a draft found gone tells.
GoneOrSaved(m) == delivered[m] > 0 \/ drafts[m] > 1

\* Where a label leaves its mail.
LabelsKeepFaith == \A c \in Callers :
    /\ pc[c] = "file" => delivered[msg[c].mail] > 0
    /\ pc[c] = "forget" => GoneOrSaved(msg[c].mail)
    /\ pc[c] = "unsaved" => owner[msg[c].mail] = "person"

\* What is reported as sent is no worse off than that.
ToldIsGone == \A m \in Mails : told[m] => GoneOrSaved(m)

\* On a server that files what it sends, what has gone is found in Sent by
\* whoever has it in hand, and bytes about to go have not gone before.
FiledOnce ==
    /\ \A i \in Ids : (rows[i] # NoRow /\ delivered[rows[i].mail] > 0)
          => MessageId(rows[i]) \in sent[rows[i].mail]
    /\ \A c \in Callers : (Active(c) /\ delivered[msg[c].mail] > 0)
          => MessageId(msg[c]) \in sent[msg[c].mail]
    /\ \A c \in Callers : (pc[c] = "send" /\ msg[c].raw) => delivered[msg[c].mail] = 0
    /\ NoDoubleSend

\* What has become of each mail.
Faith == /\ UntriedNotDelivered /\ DraftsKnown /\ SentIsGone /\ LabelsKeepFaith
         /\ NeverLost /\ ToldIsGone
         /\ (FilesSent /\ NoSaves) => FiledOnce

\* The inductive invariant: whatever the outbox keeps, counts and claims, it
\* loses no mail, misreports none but one whose draft was saved again, and
\* repeats none while no draft is (FilesSent).
IInv == Apart /\ Faith
=============================================================================
