-------------------------------- MODULE Pop3 --------------------------------
(***************************************************************************)
(* The check of a POP3 account. The server holds one list of messages, each *)
(* with a UIDL; the store is the mail. A check lists the server, downloads *)
(* what is new, counts what fails, asks for the DELEs the account's setting *)
(* wants and signs off; only a clean QUIT carries the DELEs out.            *)
(*                                                                         *)
(*   src/sync/src/services/pop3/check.rs   the check                       *)
(*   src/sync/src/services/pop3/mod.rs     Delete Forever, one folder gone *)
(*   src/sync/src/account/history.rs       look_for_mail                   *)
(*   src/sync/src/engine.rs                the loop's report, and its stop *)
(*   src/store/src/pop3.rs                 what is down, failing and owed  *)
(*   src/store/src/db.rs                   checkpoint                      *)
(***************************************************************************)
EXTENDS Naturals, Sequences, FiniteSetsExt

CONSTANTS
    Mails, Uidls,
    Before,      \* what the server lists when the account is added
    Large,       \* the mails LIST puts past MOST_MESSAGE_BYTES
    Settings,    \* the RemoveSetting values a person picks from
    Chosen,      \* those picked when the account is added
    ShownAfter,  \* SHOWN_AFTER
    Twice,       \* the server may list one UIDL twice
    Anytime,     \* the server may give a UIDL again before its row is done with
    MaxFaults,   \* bound: refusals, breaks, odd listings, stops and crashes in all
    MaxTurns     \* bound: how often the setting changes

VARIABLES
    server,   \* the maildrop: what is at each place, in the order it came
    came,     \* history: the mails the server ever held
    remove,   \* the account's pop3_remove
    db,       \* the store
    disk,     \* what of it a power cut leaves
    quiet,    \* what the last clean check found, in memory
    chk,      \* the check that runs
    menu,     \* the failing messages the account's menu shows
    told,     \* the stored mail the window knows of
    missed,   \* history: what a stopped check stored, till the window reads all again
    reported, \* the state the account's loop last reported
    heard,    \* whether that report reached the window
    notified, \* history: the mails announced as new
    excused,  \* history: the old mails failed or not listed when a first check finished
    off,      \* history: the mails a DELE of ours took off the server
    faults,
    turns     \* history: how often the setting changed

vars == <<server, came, remove, db, disk, quiet, chk, menu, told, missed, reported,
          heard, notified, excused, off, faults, turns>>

\* What the server held when the account was added, each mail once.
Old == {Before[i].mail : i \in DOMAIN Before}

ASSUME Pop3Assumption ==
    /\ Uidls \subseteq Nat /\ Large \subseteq Mails
    /\ Before \in Seq([mail : Mails, uidl : Uidls])
    /\ IsFiniteSet(Old) /\ Cardinality(Old) = Len(Before)
    /\ Settings \subseteq {"never", "downloaded", "days"} /\ Settings # {}
    /\ Chosen \subseteq Settings
    /\ ShownAfter \in Nat \ {0} /\ {MaxFaults, MaxTurns} \subseteq Nat

None == [none |-> TRUE]

\* A row of pop3_seen, and one of pop3_failures.
Row == [mid : Uidls \X Nat, wanted : BOOLEAN, removed : BOOLEAN]
Failure == [n : 1..ShownAfter + 1, large : BOOLEAN]

----------------------------------------------------------------------------
(* The store's questions (store/pop3.rs).                                  *)

Live(d, u) == d.seen[u] # None /\ ~d.seen[u].removed

\* Mutant of Unseen: a confirmed removal still counts as seen.
UnseenEver(u) == db.seen[u] = None

\* unseen: a row whose removal a clean QUIT confirmed does not count.
Unseen(u) == ~Live(db, u)

Stored == {k.mail : k \in db.kept}

Wanted == {u \in Uidls : Live(db, u) /\ db.seen[u].wanted}

\* retry_due.
RetryDue == \E u \in Uidls : db.failures[u] # None
    /\ (~db.failures[u].large \/ db.failures[u].n < ShownAfter)

\* failing: what the account's menu lists.
Failing(d) == {u \in Uidls : d.failures[u] # None /\ d.failures[u].n >= ShownAfter}

\* Mutant of DownloadId: always the first id of a UIDL.
FirstId(u) == <<u, 1>>

\* download_id: the first free id of this UIDL.
DownloadId(u) == <<u, Min({n \in 1..Cardinality(db.kept) + 1 :
                           \A k \in db.kept : k.id # <<u, n>>})>>

\* want_removed and its kin, for the live rows of these UIDLs.
Want(d, us) == [d EXCEPT !.seen =
    [u \in Uidls |-> IF u \in us /\ Live(d, u) THEN [d.seen[u] EXCEPT !.wanted = TRUE]
                     ELSE d.seen[u]]]

\* Mutant of Keep: the failures of a message that came down stay.
KeepWithFailures(m, u, setting) ==
    LET id == DownloadId(u)
        d == [db EXCEPT !.kept = {k \in @ : k.id # id} \cup {[id |-> id, mail |-> m]},
                        !.seen[u] = [mid |-> id, wanted |-> FALSE, removed |-> FALSE]]
    IN IF setting = "downloaded" THEN Want(d, {u}) ELSE d

\* keep_download's one write: the bytes and the row, mark_downloaded, and
\* want_removed under Remove After Downloading.
Keep(m, u, setting) ==
    LET id == DownloadId(u)
        d == [db EXCEPT !.kept = {k \in @ : k.id # id} \cup {[id |-> id, mail |-> m]},
                        !.seen[u] = [mid |-> id, wanted |-> FALSE, removed |-> FALSE],
                        !.failures[u] = None]
    IN IF setting = "downloaded" THEN Want(d, {u}) ELSE d

\* record_failure. Past ShownAfter the count changes nothing, so it stops.
Count(u, large) ==
    LET n == IF db.failures[u] = None THEN 1 ELSE db.failures[u].n + 1
    IN [db EXCEPT !.failures[u] =
            [n |-> IF n > ShownAfter THEN ShownAfter + 1 ELSE n, large |-> large]]

Forgotten(d, rows) == [d EXCEPT
    !.seen = [u \in Uidls |-> IF u \in rows THEN d.seen[u] ELSE None],
    !.failures = [u \in Uidls |-> IF u \in rows THEN d.failures[u] ELSE None]]

\* Mutant of Confirmed: an empty listing forgets every row.
ConfirmedAlways(listed, removed) ==
    Forgotten([db EXCEPT !.seen = [u \in Uidls |->
        IF u \in removed /\ db.seen[u] # None THEN [db.seen[u] EXCEPT !.removed = TRUE]
        ELSE db.seen[u]]], listed)

\* The write after a clean QUIT: mark_removed, and with a listing that names
\* something, forget_gone and forget_gone_failures.
Confirmed(listed, removed) ==
    LET d == [db EXCEPT !.seen = [u \in Uidls |->
                 IF u \in removed /\ db.seen[u] # None
                 THEN [db.seen[u] EXCEPT !.removed = TRUE] ELSE db.seen[u]]]
    IN IF listed = {} THEN d ELSE Forgotten(d, listed)

----------------------------------------------------------------------------
(* The check.                                                              *)

Idle == [pc |-> "idle", remove |-> "never", owed |-> FALSE, last |-> None, stat |-> None,
         first |-> FALSE, session |-> FALSE, listed |-> {}, whole |-> FALSE,
         handled |-> {}, unnamed |-> FALSE, page |-> {}, deleted |-> {}, removed |-> {},
         names |-> {}, stored |-> {}, menuChanged |-> FALSE, failed |-> FALSE]

Fault == faults < MaxFaults /\ faults' = faults + 1

Going(pc) == chk.pc = pc

\* The client dropped the session: its numbers and its DELEs are void.
Dropped(c, pc) == [c EXCEPT !.pc = pc, !.session = FALSE, !.listed = {}, !.deleted = {}]

SameWorld == UNCHANGED <<server, came, remove, turns, off>>
SameWindow == UNCHANGED <<menu, told, missed, reported, heard, notified, excused>>

\* check_with's first read. The lock's Quiet is taken, and lost by a failure.
Start ==
    /\ Going("idle")
    /\ \E aged \in BOOLEAN :
          LET owed == \/ remove # "never" /\ Wanted # {}
                      \/ remove = "days" /\ aged /\ \E u \in Uidls : Live(db, u)
                      \/ RetryDue
                      \/ ~db.firstDone
          IN chk' = [Idle EXCEPT !.pc = "connect", !.remove = remove, !.owed = owed, !.last = quiet]
    /\ quiet' = None
    /\ SameWorld /\ SameWindow /\ UNCHANGED <<db, disk, faults>>

\* Mutant of SameMaildrop: STAT alone stands for the list for ever.
SameMaildropEver(stat) == chk.last # None /\ ~chk.owed /\ stat = chk.last.stat

\* STAT finds what the last clean check left, within the hour.
SameMaildrop(stat) ==
    chk.last # None /\ ~chk.owed /\ stat = chk.last.stat /\ ~chk.last.lapsed

Stat == [size |-> Cardinality(DOMAIN server)]

\* first_check_finished, read when the session starts.
FirstCheck == ~db.firstDone

\* connect and STAT. A server that refuses STAT is listed at every check.
Open ==
    /\ Going("connect")
    /\ \E stat \in {Stat, None} :
          /\ IF stat = None THEN Fault ELSE UNCHANGED faults
          /\ IF stat # None /\ SameMaildrop(stat)
             THEN /\ chk' = [Idle EXCEPT !.pc = "end"]
                  /\ quiet' = chk.last
             ELSE /\ chk' = [Idle EXCEPT !.pc = "list", !.remove = chk.remove, !.stat = stat,
                                         !.first = FirstCheck, !.session = TRUE]
                  /\ UNCHANGED quiet
    /\ SameWorld /\ SameWindow /\ UNCHANGED <<db, disk>>

\* The next session of a check whose session a broken answer ended.
Reopen ==
    /\ Going("reopen")
    /\ chk' = [chk EXCEPT !.pc = "list", !.session = TRUE]
    /\ SameWorld /\ SameWindow /\ UNCHANGED <<db, disk, quiet, faults>>

\* An error that ends the check. After an -ERR, and after a write or a read the
\* store refused, the session stays, and the QUIT carries out its DELEs.
Fails ==
    /\ chk.pc \in {"connect", "reopen", "list", "get", "pending", "dele"} /\ Fault
    /\ LET failed == [chk EXCEPT !.failed = TRUE]
       IN chk' = Dropped(failed, "quit") \/ chk' = [failed EXCEPT !.pc = "quit"]
    /\ SameWorld /\ SameWindow /\ UNCHANGED <<db, disk, quiet>>

Shares(i) == \E j \in DOMAIN server : j # i /\ server[j].uidl = server[i].uidl

\* UIDL and LIST: all of it, all but a line that does not read, or a list that
\* is empty for a moment; then the TOPs of what was left unnamed, each tried
\* once, which may end this session too.
List ==
    /\ Going("list")
    /\ \/ /\ chk' = [chk EXCEPT !.pc = "get", !.listed = DOMAIN server, !.whole = TRUE,
                                !.unnamed = FALSE]
          /\ UNCHANGED faults
       \/ /\ Fault
          /\ \/ \E i \in DOMAIN server :
                   /\ ~Shares(i)
                   /\ chk' = [chk EXCEPT !.pc = "get", !.listed = DOMAIN server \ {i},
                                         !.whole = FALSE, !.unnamed = FALSE]
             \/ chk' = [chk EXCEPT !.pc = "get", !.listed = {}, !.whole = TRUE, !.unnamed = FALSE]
             \/ /\ chk.unnamed
                /\ chk' = Dropped([chk EXCEPT !.unnamed = FALSE], "reopen")
    /\ SameWorld /\ SameWindow /\ UNCHANGED <<db, disk, quiet>>

FirstOf(u, numbers) == Min({i \in numbers : server[i].uidl = u})

\* Mutant of NotHandled: a later session asks again for what failed.
NotHandledAsks(u) == TRUE

NotHandled(u) == u \notin chk.handled

\* What the pass still downloads: the first listed of each UIDL not here and
\* not handled this check.
Due == {i \in chk.listed :
           LET u == server[i].uidl IN NotHandled(u) /\ Unseen(u) /\ i = FirstOf(u, chk.listed)}

NewDue == {i \in Due : db.failures[server[i].uidl] = None}

\* Those that never failed first, then the end of a first check, then the rest.
MayGet(i) == IF NewDue # {} THEN i = Min(NewDue)
             ELSE i = Min(Due) /\ ~(chk.first /\ ~db.firstDone)

\* download_one's good answer.
Downloads(i) ==
    LET e == server[i] IN
    /\ e.mail \notin Large
    /\ db.failures[e.uidl] # None => ~db.failures[e.uidl].large
    /\ db' = Keep(e.mail, e.uidl, chk.remove)
    /\ chk' = [chk EXCEPT !.stored = @ \cup {e.mail}]
    /\ UNCHANGED faults

\* The message just reached the account's menu.
JustShown(u) == db'.failures[u].n = ShownAfter

\* count_failure with the session open: the third failure is named next.
Counts(i, large) ==
    LET u == server[i].uidl IN
    /\ db' = Count(u, large)
    /\ chk' = [chk EXCEPT !.handled = @ \cup {u}, !.pc = IF JustShown(u) THEN "name" ELSE "get"]

\* Over the cap by LIST or by the answer it gave before: never asked for.
TooLarge(i) ==
    /\ \/ server[i].mail \in Large
       \/ db.failures[server[i].uidl] # None /\ db.failures[server[i].uidl].large
    /\ Counts(i, TRUE) /\ UNCHANGED faults

\* -ERR: one message the server will not hand over holds up nothing else.
Refused(i) == server[i].mail \notin Large /\ Fault /\ Counts(i, FALSE)

\* An answer past the cap, not POP3, or cut off: another session carries on.
Breaks(i) ==
    LET u == server[i].uidl IN
    /\ server[i].mail \notin Large /\ Fault
    /\ \E large \in BOOLEAN : db' = Count(u, large)
    /\ chk' = Dropped([chk EXCEPT !.handled = @ \cup {u}, !.menuChanged = @ \/ JustShown(u),
                                  !.unnamed = @ \/ JustShown(u)], "reopen")

Get ==
    /\ Going("get") /\ \E i \in Due :
          MayGet(i) /\ (Downloads(i) \/ TooLarge(i) \/ Refused(i) \/ Breaks(i))
    /\ SameWorld /\ SameWindow /\ UNCHANGED <<disk, quiet>>

\* name_failing: the TOP is answered or refused, or ends the session. When the
\* store does not take the name the check ends, its menu_changed not yet set.
Name ==
    /\ Going("name")
    /\ LET shown == [chk EXCEPT !.menuChanged = TRUE]
       IN \/ chk' = [shown EXCEPT !.pc = "get"] /\ UNCHANGED faults
          \/ chk' = Dropped(shown, "reopen") /\ UNCHANGED faults
          \/ chk' = [chk EXCEPT !.pc = "quit", !.failed = TRUE] /\ Fault
    /\ SameWorld /\ SameWindow /\ UNCHANGED <<db, disk, quiet>>

\* Mutant of PassDone: a first check is finished once the server is listed.
ListDone == TRUE

PassDone == NewDue = {}

\* finish_first_check, once every listed message is down or counted.
FinishFirst ==
    /\ Going("get") /\ PassDone /\ chk.first /\ ~db.firstDone
    /\ db' = [db EXCEPT !.firstDone = TRUE]
    /\ excused' = excused \cup {m \in Old \ (Stored \cup db.erased) :
           \A i \in chk.listed : server[i].mail = m => db.failures[server[i].uidl] # None}
    /\ SameWorld
    /\ UNCHANGED <<disk, quiet, chk, menu, told, missed, reported, heard, notified, faults>>

\* The pass is over. Remove After Days marks what is older than its cutoff.
Passed ==
    /\ Going("get") /\ Due = {} /\ ~(chk.first /\ ~db.firstDone)
    /\ \E aged \in SUBSET Uidls :
          db' = IF chk.remove = "days" THEN Want(db, aged) ELSE db
    /\ chk' = [chk EXCEPT !.pc = "pending"]
    /\ SameWorld /\ SameWindow /\ UNCHANGED <<disk, quiet, faults>>

\* Mutant of OnDisk: a reader that holds the log back stops nothing.
OnDiskAnyway(synced) == TRUE

\* checkpoint says the whole log is in the file.
OnDisk(synced) == synced

\* With a DELE to send, a checkpoint puts the downloads on disk first. When a
\* reader holds the log back, the DELEs wait for the next check.
Pending ==
    /\ Going("pending")
    /\ IF chk.remove = "never" \/ Wanted = {}
       THEN chk' = [chk EXCEPT !.pc = "quit"] /\ UNCHANGED <<disk, faults>>
       ELSE \E synced \in BOOLEAN :
               /\ IF synced THEN disk' = db /\ UNCHANGED faults ELSE Fault /\ UNCHANGED disk
               /\ chk' = IF OnDisk(synced) THEN [chk EXCEPT !.pc = "dele", !.page = Wanted]
                         ELSE [chk EXCEPT !.pc = "quit"]
    /\ SameWorld /\ SameWindow /\ UNCHANGED <<db, quiet>>

\* A UIDL listed twice maps to its first number, the message that came down.
NumberOf(u) == FirstOf(u, chk.listed)

\* One DELE of the page; one the server refuses goes again at the next check.
Dele ==
    /\ Going("dele")
    /\ LET u == Min(chk.page)
           rest == [chk EXCEPT !.page = @ \ {u}, !.pc = IF chk.page = {u} THEN "quit" ELSE "dele"]
       IN \/ /\ \E i \in chk.listed : server[i].uidl = u
             /\ chk' = [rest EXCEPT !.deleted = @ \cup {NumberOf(u)}, !.removed = @ \cup {u}]
             /\ UNCHANGED faults
          \/ /\ \E i \in chk.listed : server[i].uidl = u
             /\ chk' = rest /\ Fault
          \/ /\ \A i \in chk.listed : server[i].uidl # u
             /\ chk' = rest /\ UNCHANGED faults
    /\ SameWorld /\ SameWindow /\ UNCHANGED <<db, disk, quiet>>

\* The maildrop after a QUIT that carries out the DELEs.
Left == [i \in DOMAIN server \ chk.deleted |-> server[i]]

Listed == IF chk.whole THEN {server[i].uidl : i \in chk.listed} ELSE {}

\* What is left of a check whose session is over.
Over == [Idle EXCEPT !.first = chk.first, !.stat = chk.stat, !.whole = chk.whole,
                     !.names = Listed, !.removed = chk.removed, !.stored = chk.stored,
                     !.menuChanged = chk.menuChanged, !.failed = chk.failed]

\* QUIT: carried out and answered, carried out and not, or never there. With
\* no session there is nobody to say it to.
Quit ==
    /\ Going("quit")
    /\ \E answered, carried \in BOOLEAN :
          /\ chk.session \/ (~answered /\ ~carried)
          /\ answered => carried
          /\ IF chk.session /\ ~answered THEN Fault ELSE UNCHANGED faults
          /\ server' = IF carried THEN Left ELSE server
          /\ off' = IF carried THEN off \cup {server[i].mail : i \in chk.deleted} ELSE off
          /\ chk' = [Over EXCEPT !.pc = IF ~chk.failed /\ answered
                                        THEN "confirm" ELSE "end"]
    /\ SameWindow /\ UNCHANGED <<came, remove, turns, db, disk, quiet>>

\* What a clean QUIT confirms, in a write the store may refuse, and before it
\* what the next check compares with.
Confirm ==
    /\ Going("confirm")
    /\ quiet' = IF chk.stat # None /\ chk.removed = {} /\ chk.whole
                THEN [stat |-> chk.stat, lapsed |-> FALSE] ELSE None
    /\ \/ /\ db' = Confirmed(chk.names, chk.removed)
          /\ chk' = [chk EXCEPT !.pc = "end",
                                !.menuChanged = @ \/ (Failing(db) \ Failing(db') # {})]
          /\ UNCHANGED faults
       \/ chk' = [chk EXCEPT !.pc = "end", !.failed = TRUE] /\ Fault /\ UNCHANGED db
    /\ SameWorld /\ SameWindow /\ UNCHANGED disk

\* Mutant of Looked: a check that failed answers only that.
LookedUnlessFailed == IF chk.failed THEN {} ELSE chk.stored

\* What the check stored stays stored whatever went wrong after it.
Looked == chk.stored

\* NewMail and LabelsChanged make the window list its mail again.
ListsAgain == chk.menuChanged \/ (~chk.first /\ Looked # {})

\* The states the loop reports a look in.
Outcomes == IF chk.failed THEN {"backing_off", "offline"} ELSE {"ok"}

\* look_for_mail says what was stored, as new mail too when this was no first
\* check, and the loop then reports a state other than the last, in a write the
\* store may refuse. A report and a LabelsChanged make the window read its menus.
Announce ==
    /\ Going("end")
    /\ told' = IF ListsAgain THEN Stored ELSE told \cup Looked
    /\ missed' = IF ListsAgain THEN {} ELSE missed
    /\ notified' = IF chk.first THEN notified ELSE notified \cup Looked
    /\ reported' \in Outcomes
    /\ \/ /\ heard' = (reported' # reported \/ heard)
          /\ menu' = IF chk.menuChanged \/ reported' # reported THEN Failing(db) ELSE menu
          /\ UNCHANGED faults
       \/ /\ reported' # reported /\ Fault
          /\ heard' = FALSE
          /\ menu' = IF chk.menuChanged THEN Failing(db) ELSE menu
    /\ chk' = Idle
    /\ SameWorld /\ UNCHANGED <<db, disk, quiet, excused>>

\* start_account, stop_account and shutdown abort the loop's task at an await,
\* and the check with it, while the window stays open. The services are made
\* anew, so the lock's Quiet is too.
Stopped ==
    /\ Fault
    /\ missed' = missed \cup chk.stored
    /\ chk' = Idle /\ quiet' = None /\ reported' = "none" /\ heard' = TRUE
    /\ SameWorld /\ UNCHANGED <<db, disk, menu, told, notified, excused>>

----------------------------------------------------------------------------
(* The person, the server, the other clients, the computer.                *)

\* Server Settings for the account, between two checks or in one.
SetRemove(setting) ==
    /\ setting # remove /\ remove' = setting
    /\ turns < MaxTurns /\ turns' = turns + 1
    /\ SameWindow /\ UNCHANGED <<server, came, off, db, disk, quiet, chk, faults>>

\* Delete Forever: ask_removal, then in a write of its own the rows and the raw
\* copy go, unless a crash comes first. delete_mailbox does both in one write.
Destroy(k) ==
    /\ LET d == IF remove = "never" THEN db
                ELSE Want(db, {u \in Uidls : Live(db, u) /\ db.seen[u].mid = k.id})
       IN \/ db' = d /\ UNCHANGED told
          \/ /\ db' = [d EXCEPT !.kept = @ \ {k}, !.erased = @ \cup {k.mail}]
             /\ told' = told \ {k.mail}
    /\ SameWorld
    /\ UNCHANGED <<disk, quiet, chk, menu, missed, reported, heard, notified, excused, faults>>

\* When the server may give UIDL `u` to a new message.
Free(u) ==
    IF \E i \in DOMAIN server : server[i].uidl = u THEN Twice
    ELSE Anytime \/ (~Live(db, u) /\ ~Live(disk, u) /\ u \notin chk.removed)

Arrive(m, u) ==
    /\ m \notin came /\ Free(u)
    /\ LET last == Cardinality(came) + 1
       IN server' = [i \in DOMAIN server \cup {last} |->
                        IF i = last THEN [mail |-> m, uidl |-> u] ELSE server[i]]
    /\ came' = came \cup {m}
    /\ SameWindow /\ UNCHANGED <<remove, turns, off, db, disk, quiet, chk, faults>>

\* Webmail, or another client. The server locks the maildrop for a session.
OtherRemoves(i) ==
    /\ ~chk.session /\ ~Shares(i)
    /\ server' = [j \in DOMAIN server \ {i} |-> server[j]]
    /\ SameWindow /\ UNCHANGED <<came, remove, turns, off, db, disk, quiet, chk, faults>>

\* FULL_LISTING_EVERY passes.
Hour ==
    /\ quiet # None /\ ~quiet.lapsed /\ quiet' = [quiet EXCEPT !.lapsed = TRUE]
    /\ SameWorld /\ SameWindow /\ UNCHANGED <<db, disk, chk, faults>>

\* SQLite checkpoints on its own as the log grows.
Sync ==
    /\ disk # db /\ disk' = db
    /\ SameWorld /\ SameWindow /\ UNCHANGED <<db, quiet, chk, faults>>

\* The app, or the computer, stops and starts again. The window reads it all.
Restart(d) ==
    /\ Fault /\ db' = d
    /\ quiet' = None /\ chk' = Idle
    /\ menu' = Failing(d) /\ told' = {k.mail : k \in d.kept}
    /\ missed' = {} /\ reported' = "none" /\ heard' = TRUE
    /\ SameWorld /\ UNCHANGED <<disk, notified, excused>>

Crash == Restart(db)

\* A commit that was not synced goes with the power.
PowerCut == disk # db /\ Restart(disk)

----------------------------------------------------------------------------
NewStore == [seen |-> [u \in Uidls |-> None], failures |-> [u \in Uidls |-> None],
             kept |-> {}, erased |-> {}, firstDone |-> FALSE]

Init ==
    /\ server = Before /\ came = Old /\ remove \in Chosen
    /\ db = NewStore /\ disk = NewStore
    /\ quiet = None /\ chk = Idle
    /\ menu = {} /\ told = {} /\ missed = {} /\ reported = "none" /\ heard = TRUE
    /\ notified = {} /\ excused = {} /\ off = {} /\ faults = 0 /\ turns = 0

CheckSteps ==
    \/ Start \/ Open \/ Reopen \/ List \/ Get \/ Name \/ FinishFirst \/ Passed \/ Pending
    \/ Dele \/ Quit \/ Confirm \/ Announce

Next ==
    \/ CheckSteps \/ Fails \/ Stopped \/ Hour \/ Sync \/ Crash \/ PowerCut
    \/ \E setting \in Settings : SetRemove(setting)
    \/ \E k \in db.kept : Destroy(k)
    \/ \E m \in Mails, u \in Uidls : Arrive(m, u)
    \/ \E i \in DOMAIN server : OtherRemoves(i)

Spec == Init /\ [][Next]_vars

\* The engine's poll starts a check after each, and an hour passes.
FairSpec == Spec /\ WF_vars(CheckSteps) /\ SF_vars(Hour)

----------------------------------------------------------------------------
(* Properties.                                                             *)

Store == [seen : [Uidls -> Row \cup {None}], failures : [Uidls -> Failure \cup {None}],
          kept : SUBSET [id : Uidls \X Nat, mail : Mails],
          erased : SUBSET Mails, firstDone : BOOLEAN]

Quiet == [stat : [size : Nat], lapsed : BOOLEAN]

Check == [pc : {"idle", "connect", "reopen", "list", "get", "name", "pending", "dele", "quit",
                "confirm", "end"},
          remove : {"never", "downloaded", "days"}, owed : BOOLEAN, last : Quiet \cup {None},
          stat : [size : Nat] \cup {None}, first : BOOLEAN, session : BOOLEAN,
          listed : SUBSET Nat, whole : BOOLEAN, handled : SUBSET Uidls, unnamed : BOOLEAN,
          page : SUBSET Uidls, deleted : SUBSET Nat, removed : SUBSET Uidls,
          names : SUBSET Uidls, stored : SUBSET Mails, menuChanged : BOOLEAN,
          failed : BOOLEAN]

\* Every variable has its type, and each failing UIDL is not yet downloaded.
TypeOK ==
    /\ server \in [DOMAIN server -> [mail : Mails, uidl : Uidls]] /\ came \subseteq Mails
    /\ remove \in Settings /\ db \in Store /\ disk \in Store
    /\ quiet \in Quiet \cup {None} /\ chk \in Check
    /\ chk.listed \cup chk.deleted \subseteq DOMAIN server
    /\ menu \subseteq Uidls /\ told \cup missed \subseteq Mails /\ notified \subseteq Mails
    /\ reported \in {"none", "ok", "backing_off", "offline"} /\ heard \in BOOLEAN
    /\ faults \in 0..MaxFaults /\ turns \in 0..MaxTurns
    /\ \A u \in Uidls : db.failures[u] # None => ~Live(db, u)

OnServer(m) == \E i \in DOMAIN server : server[i].mail = m

\* No mail is lost through Penguin Mail: one a DELE of ours took off the server
\* is on this computer's disk, whatever came down after it under its UIDL and
\* whatever a power cut takes back, or the person erased it.
NothingLost == off \subseteq {k.mail : k \in disk.kept} \cup disk.erased \cup db.erased

\* A mail comes down once: one deleted here does not come back because a listing
\* left it out or a QUIT went wrong, and one that is here does not come twice.
DownloadedOnce == [][\A k \in db'.kept \ db.kept :
    k \in disk.kept \/ k.mail \notin Stored \cup db.erased]_vars

\* Between checks the window knows of all the mail there is, however the last
\* check went, save what a stopped check stored and no later news made the window
\* read; and once the loop has reported a good look to the window, the account's
\* menu has every message that keeps failing.
WindowKnows == Going("idle") =>
    /\ Stored \subseteq told \cup missed
    /\ reported = "ok" /\ heard => Failing(db) \subseteq menu

\* The window knows of all the mail between checks ("announces what it stored").
WindowHasAll == Going("idle") => Stored \subseteq told

\* Between checks the menu names only messages that keep failing ("or one left it").
MenuTold == Going("idle") => menu \subseteq Failing(db)

\* No notification is raised for what the server held when the account was added,
\* over however many checks it came, save what the first finished check left.
OldMailQuiet == notified \cap Old \subseteq excused

\* Each check ends: each new session follows a failure that is not asked for again.
CheckEnds == ~Going("idle") ~> Going("idle")

\* The server has a mail that is skipped: its UIDL is another's, or it is too large.
Skipped(m) == \E i \in DOMAIN server :
    LET f == db.failures[server[i].uidl]
    IN server[i].mail = m /\ (Shares(i) \/ (f # None /\ f.large))

\* What the server holds comes down, also when STAT cannot tell that it came.
Fetched == \A m \in Mails \ Large :
    OnServer(m) ~> m \in Stored \cup db.erased \/ Skipped(m) \/ ~OnServer(m)
=============================================================================
