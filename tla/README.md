# Penguin Mail in TLA+

Penguin Mail is a desktop mail program in Rust: a GTK window (`app`), a sync
engine (`sync`), a SQLite store (`store`) and one client per protocol (`imap`,
`jmap`, `gmail`, `graph`, `pop3`, `dav`). This directory models the parts whose
correctness depends on the order of things: what two tasks do at once, what a
crash, a lost answer or a lapsed claim leaves behind, and what must happen in
the end. TLC checks the models on small instances, and TLAPS proves the main
results for every value of the constants.

Modelled are the outbox and Send Later, where a mistake costs the most (a message
that goes out twice or not at all); the loop that runs one account; the store as
the mirror of a server's mail; the check of a POP3 account; and the queue that
tells the window what changed.

## The system

| Component | State it keeps | Operations | Talks to |
|---|---|---|---|
| Outbox (`sync/src/outbox.rs`) | the lock per account, when to ask a server again | `post`, `schedule`, `send_due`, `send_one`, `try_now`, `drop_one`, `draft_saved`, `hold_unchanged`, `reopen_held`, `cancel_scheduled`, `call_back_account`, `reschedule`, `hold` | the outbox table, the account's server |
| Outbox table (`store/src/outbox.rs`, `schema.rs`) | tables `outbox` and `outbox_claims` | `put`, `claim`, `release`, `count_try`, `try_now`, `set_message`, `remove` | its callers, one transaction per call |
| One account's sending (`sync/src/account/outbox.rs`) | none | `send`, `sent_copy`, `file_sent`, `save_draft`, `send_draft`, `delete_draft` | the provider in `sync/src/services` |
| JMAP holds (`services/jmap/held.rs`) | the server's email submissions | `hold_message`, `held_copy`, `claimed`, `release`, `settle_hold`, `take_off_hold` | the JMAP server |
| Scheduler and window (`app/src/app/sending.rs`, `ui/window/outbox.rs`, `ui/window/scheduled.rs`) | `scheduler_running` | the half-minute timer, Send Now, Delete, Cancel Send, a new hour | the outbox |
| Assistant (`app/src/assistant/run/queue.rs`) | none | send now, cancel, drop, reschedule | the outbox |
| Account engine (`sync/src/engine.rs`) | one task per account, whether there is a network, what it last reported | start, stop, poke, network change, a tick | server, store, events |
| Writes, history and window (`account/writes.rs`, `history.rs`, `window.rs`, `threads.rs`) | mail ahead of the server's, the cursor, the generation, the move lock | `change_all`, `erase_all`, `replay`, `bootstrap`, `rebootstrap`, `backfill_step`, `reconcile_inbox`, `fetch_thread` | server, store |
| Actions (`sync/src/actions.rs`) | the undo stack | act, undo | writes |
| Switch (`sync/src/switch.rs`, `store/src/switch.rs`) | the stage of a move from IMAP to JMAP | prepare, match, swap, clean up | the outbox's lock, the store |
| POP3 (`services/pop3/check.rs`, `store/src/pop3.rs`) | the ids already fetched, the deletions due | check | server, store |
| Events (`sync/src/events.rs`) | a bounded queue that merges | send, receive | engine, window |
| Sign-in and connection (`connect.rs`, `sign_in.rs`) | passwords and tokens in the keyring | connect, change | provider, keyring |
| Calendar copy, contacts, rules | tables of their own | copy, merge, match | server, store |

What makes these hard, and the properties that make them right:

- **Outbox.** Several tasks reach one row: the pass, the window, the assistant.
  Every await lets another in. A send may reach the server and its answer not
  come back; the app may stop in between; a claim may lapse under a live send;
  the table gives a removed last id to the next message. It is right when no
  message goes out twice, none is lost, none is reported as sent that was not,
  one caller at a time works on a row, nothing goes while a switch holds the
  account, and every message is settled in the end.
- **Send Later on a server that holds mail.** The server sends on its own, so
  the row, the server's submission and the copy in Drafts can disagree. Right
  when a message is sent by the server or from here and never by both, and a
  canceled one by neither.
- **Engine.** Wake-ups that arrive while a tick runs, failures with back-off,
  a panic, and a start or stop in the middle. Right when no wake-up is lost, no
  two loops of one account overlap, and the sidebar says how the account is.
- **Writes, history and window.** A change is shown before the server has it,
  and the server's own changes arrive meanwhile, by four ways into the store.
  Right when store and server agree once nothing is under way, and no pass puts
  back what a person did.
- **Switch.** Two servers' ids for the same mail, and a crash at any stage.
  Right when each message is in one place and the move resumes or is undone.
- **POP3.** Download, store, then delete at the server, with a server that may
  forget its list, give a name again or break a session. Right when nothing is
  deleted that is not on this disk, nothing comes twice, everything comes, and
  the window hears of it.
- **Events.** A full queue merges instead of blocking. Right when every change
  is named by an event on its way, notices arrive once and in order, and a slow
  window reads everything in the end.
- **Actions.** Undo after the message has changed again. Right when it puts
  back only what the action changed.

## Modules

| Module | What it is |
|---|---|
| `Outbox` | the outbox on an account whose server holds no mail: table, claims, passes, tries, requests, crashes |
| `Promise` | what the outbox promises of each message, with nothing of how |
| `MCOutbox` | the instances of `Outbox` that TLC checks |
| `OutboxSafety` | types, one caller per row and nothing sent during a switch, proved |
| `OutboxFaith` | nothing lost, misreported or sent twice, and the refinement of `Promise`, proved |
| `SendLater` | one message on an account whose server holds mail (JMAP): its row, the server's copies and submissions, this install and another |
| `MCSendLater` | the instances of `SendLater` that TLC checks |
| `SendLaterProofs` | types, and that what the server will send shows in Drafts, proved |
| `SendLaterSafety` | one send, from here or from the server; one caller at a time; nothing lost, misreported, or sent after a Delete, proved |
| `Engine` | the loop of one account: tasks, ticks, failures, panics, pokes, the network, and what the sidebar shows |
| `MCEngine` | its instances |
| `EngineProofs` | types, one loop at a time, and what is shown, proved |
| `Mirror` | the store as the mirror of a label server: people's writes and their rollback, history replay, listings, pages, the inbox comparison, thread reads, the move lock |
| `MCMirror` | its instances |
| `MirrorProofs` | types and the lock, that the store is the mirror, and that a write stays, proved |
| `Pop3` | the check of a POP3 account: sessions, downloads, failures, removal, the disk, the person, other clients |
| `MCPop3` | its instances |
| `Pop3Proofs` | types, no mail lost, each mail down once, what the window knows and is not told, proved |
| `Events` | each account's queue to the window |
| `MCEvents` | its instances |
| `EventsProofs` | types, nothing missed, how little waits and in which order it arrives, proved |

The modules of two components meet where the code does. `Engine` takes a look for
mail as one step that may fail; `Mirror` and `Pop3` are what such a look does.
The hints they emit when they have written are what `Events` carries, and the
window of `Pop3` and of `Events` reads the store again when it hears one.

### How `Outbox` corresponds to the code

A caller (`Pass`, or one of `People`) is a tokio task. Its `pc` names the await
it has reached, `msg` is its own copy of the row (the Rust value `Queued`), and
`since` is when it claimed the row. A store call is one SQLite transaction and
so one step; a server call is one step whose answer may be lost; between two
awaits anything else may happen.

| Code | Action |
|---|---|
| `send_due`: list, claim, check again, end | `PassStart`, `PassClaim`, `PassGo`, `PassEnd` |
| `post` of a message from a composer | `PostNew` (`MayPost`: what is open in one) |
| `send_one` and then `post` | `SendOne`, `PostClaim`, `PostGo` |
| `attempt`: connected?, `count_try`, Sent or send | `AttemptOffline`, `Attempt` |
| `sent_copy`, and the draft erased after a hit | `LookSent` |
| `send`, `send_draft` with an answer, a lost answer, a draft that has gone, a failure | `Send`, `SendGone`, `SendFails` |
| `file_sent` | `FileSent` |
| `forget_sent` | `ForgetSent` |
| `keep` after a failure that passes, and after a refusal | `KeepRetry`, `KeepRefused` |
| `drop_one`, `reschedule`, `try_now` | `DropOne`, `Reschedule`, `TryNow` |
| the composer's `save_draft`, and the task that then runs `draft_saved` | `DraftSave`, `DraftMoved` |
| `cancel_scheduled` of a message no server holds: list, claim, save, remove | `Cancel`, `CancelClaim`, `CancelSave`, `CancelEnd`, `CancelReopened` |
| `hold`, its guard dropped | `SwitchHolds`, `SwitchEnds` |
| the clock, the app stopping, a task ending early, the network | `Tick`, `Crash`, `CallerDies`, `Disconnect`, `Connect` |

`Put`, `PutIds`, `ByDraft`, `Claimable`, `Remove` and `NextIds` are the table:
`put` writes over the row it names, else over the row with its draft, else
inserts; it lets go of any claim on what it writes; a removed row takes its
claim along; a new row gets the id above the largest in use, so the id of a
removed last row comes back.

Abstracted: the bytes of a message are one Boolean (`raw`, the row has them);
subject, recipients and composer state are left out; hours are small numbers;
the problem text is a Boolean. `delivered`, `sent` and `drafts` are the server.
`told` and `owner` are history: what the outbox reported, and who answers for
the mail.

A draft saved again has a new id and a new Message-ID, and the old one is erased
by then (`protection/draft.rs:170-181`, `imap/outgoing.rs:159-182`). The row is told
by a task of its own: `moving` has the drafts whose rows are still to be told. In
between a pass finds the row's draft gone and takes that for sent; a crash loses
the task; a store that refuses is only logged. So `sent` holds Message-IDs
(`MessageId`), and who looks for the old one does not find the new. `DraftSaved`
below is what comes of it.

`post` asks nothing about the message it is given. What a composer may hand over
is `MayPost`: a mail nobody has in hand (job `post`), or, as job `repost`, the
scheduled draft it has open, beside the row that waits for its hour
(`PostedBeside`).

Three switches say what the world does beyond the code's own steps. `Busy` is
the set of requests people make of a row while a caller is sending it,
`SlowSends` lets a live caller outlast its claim, `Overtaking` lets another
caller in between Send Now's read of the row and its claim. Nothing in the code
rules these out. They are parameters because what the outbox guarantees depends
on them: each counterexample of `Outbox` below turns on exactly one of them, on
`FilesSent`, or on one of the jobs `draft_saved` and `repost`. The theorems assume
`Careful`: all three off, and nobody posts a scheduled draft beside its row. Those
about what was sent assume `NoSaves` as well. The passing runs leave `Overtaking`
off: with it a mail is sent twice (`SendNowOvertaken`), and when the id of the row
has gone to another mail by then, that mail is lost (`OvertakenId`).

`FilesSent` is the capability `files_sent_mail`. With it the server keeps a
copy of what it sends in Sent in the same step; without it the client files the
copy afterwards, in a call of its own that can fail.

### How `SendLater` corresponds to the code

A row is plain (sent from here when it is due), marked (`held` is
`unconfirmed:` and a time: the server may hold the message, no answer says so)
or held (`held` is the handle of a submission, and the server sends it). A
caller is a tokio task with the await it has reached (`pc`), the request it
serves (`job`) and its own copy of the row (`msg`), as in `Outbox`. On the
server, `place` is where each copy of the message is, `subs` what its submission
has come to, `hour` and `born` when the copy goes and when it was made. A copy
just made may be missing from a search for a while (`Seen`), and a submission
that is over may be forgotten at any time (`ServerForgets`).

| Code | Action |
|---|---|
| `schedule`: mark, ask, save as a draft, put, or drop what was written | `Schedule`, `HandOver`, `TakeHold`, `SaveScheduled`, `PutRow`, `ScheduleRefused` |
| `hold_unchanged` | `HoldUnchanged`, then as `schedule` |
| `send_due`: list, claim, plain rows | `PassStart`, `PassClaim`, `PassDue` |
| `adopt_holds` | `Adopt` |
| `settle`, `find_hold`, `take_found` | `Look`, `TakeHold`, `Ask`, `CalledBack`, `Stuck` |
| `recall`, `store_claimed`, `rehold`, for Send Now and a new hour | `SendNow`, `NewHour`, `TakeNamed`, `Look`, `Ask`, `CalledBack`, `Store`, `Reclaim`, `HandOver` |
| `reopen_held` | `Edit`, `TakeNamed`, the steps of `recall`, `Restore`, `PutRow` |
| `cancel_scheduled`, `cancel_held`, `put_back_draft`, and the window that opens what could not be saved | `Cancel`, `TakeNamed`, `Called`, `Restore`, `Reopened`, `RemoveRow` |
| `drop_one`, `let_go` | `Drop`, `TakeNamed`, `Look`, `Ask`, `RemoveRow` |
| `post` from the composer, `attempt`, `keep`, `forget_sent` | `Post`, `Try`, `LookSent`, `Send`, `Keep`, `Forget` |
| saving the draft the composer has open, and the task that then runs `draft_saved` | `SaveEdit`, `DraftSaved` |
| `held.rs`: `hold_message`, `release`, `settle_hold`, `claimed`, `forgotten`, `take_off_hold` | `MakeHold`, `Ask`, `Standing`, `Fate`, `Filed`, `TakenOff` |
| the server, another install, the clock, the app stopping, a task ending early | `ServerSends`, `ServerForgets`, `OtherCancels`, `OtherDeletes`, `OtherSends`, `Tick`, `Crash`, `CallerDies` |

Each server call and each write of the table is one step. A server call may fail
three ways, where the code tells them apart: refused, no answer and nothing
done, no answer and all or part of it done. `intent` is history: what the person
last heard would happen, so that a stop or a deletion can be told from a loss.

Abstracted: the throttles that decide when a pass asks a server again
(`look_due`, `check_due`, `next_look`): any pass may ask. The reasons a server
gives for not holding a message so long (`holds`): `Holding` is the set of
answers it may give, one choice per message handed over.

### How `Engine` corresponds to the code

A task is one spawned loop: each call of `start_account` makes one, and an
aborted task lives on until its next await. `entry` is the task in
`SyncEngine::running`. In a task, `prev` is the task it waits for, `poke` the
permit of its `Notify`, `due` that `next_poll` has come, `told` what
`run_account` last reported. `shown` is the account's state in the store.

| Code | Action |
|---|---|
| `start_account`, `stop_account`, `poke`, `set_network` | `Start`, `Stop`, `Poke`, `SetNetwork` |
| an aborted task reaching its next await | `Dropped` |
| a new task waiting for the old one | `Begins` |
| `run_account`: no network, the waits, the back-off | `Top`, `OfflineWakes`, `Rest`, `Pause`, `BackOff`, `Due` |
| `tick`: mailboxes, `look_for_mail`, the chores | `ListMailboxes`, `Look`, `Checked`, `Chores` |
| `bootstrap` with the states it sets | `Look`, `Load`, `FirstPage` |
| `classify`, `supervise` | `Fail`, `RunAgain` |

Abstracted: how long a back-off is; which page or body the chores load; the hour
between two prunes. `Hasty` says whether an account may be started while an older
task that nothing waits for winds up (stopped and started at once, or started
three times).

### How `Mirror` corresponds to the code

`srv` and `log` are the server: its mail and its history. `mail` and `gen` are
the store, `cur` is `SyncCursor`, `lock` the move lock of `StoreMail`. A store
write is one SQLite transaction and one step; a server call is one step. The
engine is one task, so its passes never meet one another; the writers are
people's actions, and `reader` a thread being opened.

| Code | Action |
|---|---|
| `change_all`: the store, then the server message by message | `Act`, `Take` |
| `change_all` given up: the lock dropped, then `reverse_changes` | `GiveUp`, `TakeBack` |
| `erase_all` | `Erase`, `EraseHere` |
| `replay`: changes, `fetch_for_history`, the one write with the new place | `Look`, `Fetch`, `Replay` |
| `bootstrap`: a new generation, its first page | `Look`, `Begin`, `PageRead`, `PageWrite` |
| `rebootstrap`: the listing, what differs, the write and the sweep | `Look`, `Begin`, `List`, `Refetch`, `Rewrite` |
| `backfill_step`, without the lock, and a page token refused | `PageRead`, `PageWrite`, `PageRefused` |
| `reconcile_inbox` | `Compare`, `Differ`, `Repair` |
| `fetch_thread` | `OpenThread`, `StoreThread` |
| the server's history expiring, other clients, a failed read, the app stopping | `LosesPlace`, `OtherLabels`, `OtherDeletes`, `Arrives`, `EngineFails`, `Crash` |

Abstracted: a page is one message; a thread is one message; which mail is new and
announced; the waits between retries; the fallback from a listing the server
calls too large to a bootstrap (`window.rs:150-160`). `List` is the window's listing,
each label's, and the read of the store in one step. `asked` and `torn` are history: what the
server took from people and nobody changed since, and whether a crash cut a write
short or a pass met a rollback.

### How `Pop3` corresponds to the code

`server` maps a place to what came there, and places only grow: the code compares
no more of numbers than their order. `db` is the store: the rows of `pop3_seen`
and `pop3_failures`, the mail kept with its ids, what a person erased, the marker of
the first check; `disk` is what of it a power cut leaves. `chk` is the check that
runs, with the session's numbers and its DELEs. Each command to the server and
each write of the store is one step.

| Code | Action |
|---|---|
| `check_with`: what is owed, STAT | `Start`, `Open` |
| `download_pass`, `download_one`, `keep_download`, `count_failure`, `name_failing` | `List`, `Get`, `Name`, `FinishFirst`, `Reopen` |
| Remove After Days, the checkpoint, `send_deles` | `Passed`, `Pending`, `Dele` |
| QUIT, and what a clean one confirms | `Quit`, `Confirm` |
| `look_for_mail` saying what was stored, and the loop reporting its state (`Outcomes`) | `Announce` |
| `start_account`, `stop_account` or `shutdown` aborting the loop with the check in it | `Stopped` |
| Delete Forever, a folder with its mail, Server Settings | `Destroy`, `SetRemove` |
| an error that ends the check; the app or the computer stopping | `Fails`, `Crash`, `PowerCut` |
| new mail, another client, SQLite's own checkpoint, `FULL_LISTING_EVERY` | `Arrive`, `OtherRemoves`, `Sync`, `Hour` |

The window hears of mail in two ways: news of what a check stored, and a state of
the loop that is not the one it `reported` before, after which it reads its menus
again (`window.rs:1312-1320`). A stopped check says neither, while the window stays
open: what it stored is `missed` until news makes the window list the account again
(`ListsAgain`), and the next check takes it for mail it has had. `heard` says that
the last report reached the store and the window. A write the store refuses ends a
check like a fault does, also between the count of a failure and its name (`Name`).

What the server and the others may do is restricted in four ways, each of them a
condition for the properties. A server gives a UIDL to a new message only when the
row of that name is done with, in the store and on the disk (`Free`; `Anytime`
takes the rule away, and `Twice` lets it list one UIDL twice). A UIDL line that
does not read, and another client's removal, do not hit a message whose UIDL is
listed twice (`Shares`). The maildrop is locked for a session (RFC 1939). STAT is
the number of messages, so two lists of one length look the same to it.

### How `Events` corresponds to the code

`channel` is the bounded channel of all accounts, `waiting` and `flushing` are
`Waiting` of each account's sender, and `hand` is the event a flush took and has
not sent yet. `Send` is `Outgoing::send` under the sender's lock, `Merge` is
`merge`, `Take` is `next`, `Hand` the channel taking the event, `GivesUp` is
`closed`. `Read` and `Close` are the window. `unread`, `heard` and `lastWait` are
history. `Named` are the kinds of hint that carry ids.

## Runs

| Run | Checks | Shows |
|---|---|---|
| `one_mail` | `TypeOK`, `NoDoubleSend`, `SentIsDelivered`, `OneCallerPerRow`, `NothingSentWhileHeld`, `KeepsPromise`, `EventuallySettled` | one mail through every operation but a draft saved again, with two faults, from a row with its bytes and from one with a draft; under fairness it is settled in the end |
| `two_mails` | `NeverLost` | two people and two mails, reused row ids, drafts saved again with their rows told late or never, and a server that files nothing it sends |
| `held_once` | `TypeOK`, `NoDoubleSend`, `HoldsShow`, `OneAtATime` | Send Later, Send Now, a new hour and Delete beside the pass and another install, with one answer lost and a server that may say no |
| `held_crash` | `NoDoubleSend`, `NeverLost`, `SentIsDelivered` | a message never saved, or held by another install, with two faults, crashes among them |
| `reopened` | `NeverLost`, `StoppedStaysUnsent` | Cancel Send, an edit, a composer closed unchanged, saved with its row told later or never, or sent again, with one answer lost |
| `leaves` | `EventuallySettled` | every row leaves the table or waits for the person, under fairness, whatever mark, hold or claim a fault left on it |
| `engine` | `TypeOK`, `OneLoop`, `ShownTruly`, `AskedIsLooked`, `Recovers` | one account started twice, stopped and poked, with failures, panics and outages, with a server and with local mailboxes: one loop at a time, the sidebar true, every asked check made, and well again once the network stays |
| `events` | `TypeOK`, `NothingMissed`, `NoticesInOrder`, `NewestWaitLast`, `EverythingRead` | a channel of one event and a slow window |
| `pop3` | `TypeOK`, `NothingLost`, `WindowKnows`, `OldMailQuiet`, `DownloadedOnce` | an old and a new message under one UIDL or two, a fault anywhere, a power cut, a check stopped with the window open, another client, a change of the setting |
| `pop3_fetches` | `CheckEnds`, `Fetched` | under fairness every check ends and what the server holds comes down |
| `mirror` | `TypeOK`, `Agree`, `WriteStays`, `ComesRight`, `InboxComesRight` | two people's actions, two changes by other clients, and one fault beside every pass of the engine |

The first two are of `Outbox`, the next four of `SendLater`. One run ends in a
counterexample: `dropped_mid_send`. Delete of a row that is being sent takes no
claim and frees its id; a new message gets that id, and the first send, when it
ends, forgets the new message (`NeverLost`).

### Further configurations

These stand beside the runs, for reading the same modules under other
circumstances (`tlc -config Inductive.cfg MCOutbox`). `Inductive` passes: the
inductive invariant `IInv` of the proofs about `Outbox`, as an invariant of a run.
The others end in a counterexample. Each states what a comment, a doc or a test of
the code says, and each turns on one circumstance.

| Configuration | Module | Circumstance | What it shows |
|---|---|---|---|
| `AnswerLost` | `MCOutbox` | the server files nothing it sends, one answer lost | the retry finds nothing in Sent and sends again |
| `SendNowOvertaken` | `MCOutbox` | a try between Send Now's read and its claim | `post` drops the claimed row and sends its older copy, which says it was never tried |
| `HourMovedMidSend` | `MCOutbox` | a new hour while the row is being sent | `reschedule` writes without a claim, the write lets go of the sender's claim, a second caller sends |
| `ClaimOutlasted` | `MCOutbox` | a live send longer than ten minutes | its claim is taken over and both send |
| `OvertakenId` | `MCOutbox` | the row dropped between Send Now's read and its claim, and its id given to another mail that failed | `post` claims the other mail's row by its id and does not look at what the claim answers; the send then forgets that row, whose mail is nowhere |
| `PostedBeside` | `MCOutbox` | a scheduled draft sent from its composer | `post` has no row to claim, so it sends beside the pass |
| `DraftSaved` | `MCOutbox` | a scheduled draft saved again, its row not yet told | the pass finds the row's draft gone, which counts as sent, and reports it so; the mail stays in Drafts (`sync/src/outbox.rs:609-615`, "the list, a later cancel and the send at its hour still find it") |
| `ScheduleRefused` | `MCSendLater` | Send Later of a saved draft, on a server that does not hold it | `save_draft` finds the mark `schedule` itself has just written under that draft, and refuses; nothing has failed |
| `SavedAndSent` | `MCSendLater` | Cancel Send of a message the server never took, its hour come | the write that takes the mark off lets go of the cancel's claim; a pass sends the row while it is saved as a draft, and Cancel Send still reports success |
| `LeftOpen` | `MCSendLater` | a held message open in a composer at its hour | the row waits as a plain one and the pass sends it; the composer posts a message of its own, which has no row to claim |
| `SlowUpload` | `MCSendLater` | a hand-over still under way at its hour | the mark is older than the hold, so the pass's empty look in a lagging index counts: the pass sends, and the server sends its copy too |
| `ClaimFreed` | `MCSendLater` | a pass that claims the marked row of a hand-over under way | the row `schedule` then writes lets go of the pass's claim, and Send Now works on it beside the pass |
| `HeldAgain` | `MCSendLater` | a crash after a pass sent a marked row, then a new hour | the mark is still there, the look for a hold is empty, and `rehold` hands the message over without a look in Sent |
| `StartedAgain` | `MCEngine` | an account stopped and started at once, or started twice while a task winds up | the new task waits for the last one alone, or for none after a stop, and meets a loop that still has a connection (`engine.rs:119-122`) |
| `PokeSwallowed` | `MCEngine` | a poke during a failing tick | the back-off takes the permit and does not make the poll due, so the loop rests again without the look that was asked for |
| `PokedOffline` | `MCEngine` | a poke with no network, before the loop has come to its wait | the tick in between is asked offline or not at all (`engine.rs:168-171`, "a poke still sends it to Gmail once") |
| `StaysLoading` | `MCEngine` | a load of the window that fails again after it was reported | `reported` says it was told, and the sidebar keeps "loading" |
| `UndoesOnlyItsOwn` | `MCMirror` | a replay between the dropped lock and the rollback of a refused action | the rollback undoes by message and label what the replay has just stored, and history does not say it again (`tests/triage.rs:82` is named for the opposite) |
| `PagePutsBack` | `MCMirror` | a page of the backfill read before a person's action and written after it | the mail goes back for a while (`store_mail.rs:44-49`) |
| `CutShort` | `MCMirror` | a crash between a change's write to the store and the server's | outside the inbox the difference stays for good |
| `MenuKeepsIt` | `MCPop3` | a message that fails three times and then comes down, or is read before the window hears | the menu keeps a message that no longer fails (`services/mod.rs:209-211`) |
| `CheckStopped` | `MCPop3` | a check stopped with the account's loop after it stored mail | nobody announces that mail: the next check has it already, and the window lists the account again only with other news (`history.rs:17-19`, "announces what it stored, even when the look failed after storing some") |
| `UidlReused` | `MCPop3` | a UIDL given to a new message while the row of its name is still wanted | the DELE meant for the old message takes the new one |
| `ListedTwice` | `MCPop3` | a server that lists one UIDL twice, and a lost answer | an unanswered QUIT carries out the DELE of the first, whose row is still wanted; the next check takes the second one, which never came down |

What the passing runs of `SendLater` leave out, they leave out for one of these
counterexamples, and no passing run contradicts one: `held_crash` asks for no new
hour (`HeldAgain`) and for no Cancel Send, and `reopened` loses no answer of a
hand-over (`SavedAndSent`); `reopened` does not check `NoDoubleSend`
(`LeftOpen`); all hand-overs end before their hour (`SlowUpload`,
`ClaimFreed`). In `Mirror`, `torn` names the two states after which `Agree` says
nothing, and `WriteStays` excepts the page.

### Bounds

Of `Outbox`: `MaxId` is 2, one row for each mail, and a removed id is used again.
`MaxTime` is 4 in `one_mail`: an hour, a claim that lapses after 1, and a retry after
that; there `MaxFaults` is 2, a lost answer and a crash on top of it. `two_mails` has
two people who act at once, which stand for any two (`SYMMETRY`), a clock to 2 and
one fault. `MaxDraft` is 2: one change of the draft's id. `MostTries` is 3 in place of
50 in `one_mail`, so that the first try, one that looks in Sent and the last one are
told apart, and 2 in `two_mails`. A second copy in Drafts, which `CancelSave` makes
when one is there already, is not told from the first. `FirstRetry` and
`LongestRetry` are 1 and 2, which the doubling reaches at once. `delivered`
counts to 2, which says "more than once". Where the guard `ClaimsStillLapse`
stands, a claim is left behind only while the clock can still run past it;
without it the clock's end would look like a claim that never lapses. Deadlock
is not checked: a run ends when the clock has stopped and nothing is left to
send.

Of `SendLater`, beside the same clock, faults and `ClaimsStillLapse`:

- One row and one composer. `Quiet` keeps a caller that still works on the row
  before from meeting a new row with the same id; that meeting is
  `dropped_mid_send`'s.
- `MaxCopies` is 3 or 4: the first copy, the one a hold or a draft makes of it,
  and one after. `Room` begins no request whose copy would not fit.
- One task serves the person. Two requests at once meet in the table's claim,
  which `Outbox` checks with two callers and the pass.
- `HandedOver` ends a hand-over before time moves on and before a pass takes the
  row, unless `SlowHandOver`: `SlowUpload` shows what a slow one does.
- `Schedule` and `Post` wait for a row that is claimed: a composer that acts on a
  row being sent is `LeftOpen`'s. A draft may be saved at any time, and its row is
  told of it at any time after.
  `Tick` keeps a live caller within its claim, as in `Outbox`.
- Another install never sends while this one is about to: each looks in Sent
  first, and nothing in the protocol lets them see each other's send under way.
- `ClockSlack` is 0 in all runs, and `AskAgain` and `ClaimLasts` are 1. What the
  code compares is whether a wait is over, and a hour later than now plus 1 is
  within `MaxTime`.

Of `Engine`: `MaxTasks` is 2, one loop and the one that takes over from it
(`Hasty` needs 3), and `MaxFaults` 2, a failure and one on top of it. An outage
spends one of them too; the network comes back for nothing.

Of `Events`: the channel has room for one event in place of 256, so that
everything merges; two ids and two notices tell an order and a merge apart.

Of `Pop3`: two mails and two UIDLs, so that one UIDL can be given again and a
listing can lack one of two. `ShownAfter` is 1 in place of 3: the first failure
reaches the menu. `Failure` counts one past it, since more changes nothing. There
is one fault: a refusal, a broken session, a write the store refuses, a stopped check,
a crash or a power cut. `MaxTurns` is one change of the
setting: an account added with Never (`Chosen`) is set to After Days at any moment, the
first among them. Of a STAT answer the number of messages stands for number and size, which
is the worst the server can do.

Of `Mirror`: two messages, which are two pages and two calls of one action; the
inbox as the one label; two writers with two actions between them; `MaxLog` 2, two
changes by other clients, each of which may come before, between or after the
steps of a pass; one fault. Larger instances pass too and are too slow to keep:
inbox and another label with one writer and three changes, two writers with three
changes, and two faults.

All of these stop when their bounds are used up, so deadlock is not checked.

### Fairness

`FairSpec` of `Outbox` assumes weak fairness of the pass (a timer starts it every
half minute and tokio runs it), of each caller's own steps (tokio runs every task
that can run), of the clock, and of the end of an outage and of a switch. The
faults are bounded, which stands for a network that is not down for ever.
Nothing is assumed about what people ask.

`SendLater` assumes the same of the pass, of each caller's steps and of the
clock, and that the server sends what it holds. Nothing is assumed of another
install, nor that the server ever forgets a submission.

`Engine` assumes weak fairness of each task's own steps, of an aborted task
reaching its next await, and of the timers. Nothing is assumed of the network:
`Recovers` is about a network that stays, and `AskedIsLooked` excepts one that
goes.

`Events` assumes that the window reads and a flush takes the next event (weak),
and that a flush waiting for room gets it when room keeps coming (strong: tokio's
channel serves its waiters in turn).

`Pop3` assumes that a check goes on once begun and begins after each interval
(weak), and that hours pass (strong: a check takes the memory of the last one and
leaves a new one, so the hour is not always there to lapse).

`Mirror` assumes that the engine, a reader and each writer go on (weak), and that
a tick has its look and its hourly comparison (strong: both wait for the move
lock, which tokio gives to its waiters in turn).

## Proofs

| Theorem | Says |
|---|---|
| `OutboxSafety!TypeCorrect` | `Spec => []TypeOK` |
| `OutboxSafety!OneCallerAtATime` | `Careful => (Spec => []OneCallerPerRow)` |
| `OutboxSafety!NothingGoesWhileHeld` | `Spec => NothingSentWhileHeld` |
| `OutboxFaith!NothingLost` | `Careful => (Spec => []NeverLost)` |
| `OutboxFaith!NothingMisreported` | `Careful /\ NoSaves => (Spec => []SentIsDelivered)` |
| `OutboxFaith!MisreportedIsSaved` | `Careful => (Spec => []ToldIsGone)` |
| `OutboxFaith!NothingSentTwice` | `Careful /\ NoSaves /\ FilesSent => (Spec => []NoDoubleSend)` |
| `OutboxFaith!PromiseKept` | `Careful /\ NoSaves /\ FilesSent => (Spec => KeepsPromise)` |
| `SendLaterProofs!SendLaterTyped` | `Spec => []TypeOK` |
| `SendLaterProofs!HoldsAlwaysShow` | `Spec => []HoldsShow` |
| `SendLaterProofs!OnlyHeldRowsWait` | `Spec => [](RowSettled /\ ComposerSettled)` |
| `SendLaterSafety!PassesSendOnce` | `PassesOnly => (Spec => []NoDoubleSend)` |
| `SendLaterSafety!OneCallerHolds` | `ClaimsHeeded => (Spec => []OneAtATime)` |
| `SendLaterSafety!ReportedSentHasGone` | `NotSavedOver => (Spec => []SentIsDelivered)` |
| `SendLaterSafety!NothingIsLost` | `NoneDeletes => (Spec => []NeverLost)` |
| `SendLaterSafety!DeletedStaysUnsent` | `NoNewHour => (Spec => StoppedStaysUnsent)` |
| `EngineProofs!EngineTyped` | `Spec => []TypeOK` |
| `EngineProofs!OneLoopHolds` | `~Hasty => (Spec => []OneLoop)` |
| `EngineProofs!ShownTrulyHolds` | `Spec => []ShownTruly` |
| `MirrorProofs!MirrorTypes` | `Spec => []TypeOK` |
| `MirrorProofs!StoreIsMirror` | `Spec => []Agree` |
| `MirrorProofs!WritesStay` | `Spec => WriteStays` |
| `Pop3Proofs!Pop3Typed` | `Orderly => (Spec => []TypeOK)` |
| `Pop3Proofs!NothingLostHolds` | `Orderly => (Spec => []NothingLost)` |
| `Pop3Proofs!DownloadedOnceHolds` | `Orderly => (Spec => DownloadedOnce)` |
| `Pop3Proofs!WindowKnowsHolds` | `Orderly => (Spec => []WindowKnows)` |
| `Pop3Proofs!OldMailQuietHolds` | `Orderly => (Spec => []OldMailQuiet)` |
| `EventsProofs!EventsTyped` | `Spec => []TypeOK` |
| `EventsProofs!NothingMissedHolds` | `Spec => []NothingMissed` |
| `EventsProofs!FewWaitHolds` | `Spec => []FewWait` |
| `EventsProofs!NoticesInOrderHolds` | `Spec => []NoticesInOrder` |
| `EventsProofs!NewestWaitLastHolds` | `Spec => []NewestWaitLast` |

They hold for every value of the constants: any number of mails, callers, rows,
copies, tasks, messages, accounts, faults and tries, as far as the hypothesis in
the table says nothing else. They assume what the modules' `ASSUME`s
say of the constants (types; for `Outbox` also at least one mail, two tries at
least, and tables with one untried row per mail left by an earlier run).

**Outbox.** No safety property here is inductive alone. `OneCallerPerRow` needs to
know that a working caller's claim is its own and has not lapsed (`ClaimsHeld`),
that a row knows its id and a mail has one row (`RowsApart`), that a message on
its first way out has no row yet (`NewHasNoRow`) and that no two callers hold one
mail (`CallersApart`). Their conjunction, with what `NoSaves` says of the drafts
(`DraftsStay`), is `Apart`, proved inductive in `OutboxSafety`.

`NoDoubleSend` rests on the order of two steps: the try is counted on the row
before the bytes go, so bytes whose row says "untried" have not gone
(`UntriedNotDelivered`), and any other try asks Sent first, where everything
that has gone is found (`FiledOnce`): while no draft is saved again, since every save
has a Message-ID of its own. `SentIsDelivered` rests on drafts: a draft the row names
is on the server, there or saved again since, until the mail has gone
(`DraftsKnown`), so a draft that has gone means a mail that went or one that was saved
again (`GoneOrSaved`). The first is `NothingMisreported`; the second is what `DraftSaved`
shows, and `MisreportedIsSaved` says that it is the only other case: a mail reported
as sent that was not is in Drafts with its last words. `NeverLost` needs both. The
conjunction of all these is `Faith`, and `IInv` is `Apart` and `Faith`, which `Inductive.cfg`
checks and `OutboxFaith` proves. `PromiseKept` shows that each step of the outbox
either changes nothing of `delivered`, `told` and `owner` or is one step of
`Promise`. `NothingSentWhileHeld` needs none of this, and not `Careful`: while the
lock is taken no caller is between the question whether it is taken and its last
write (`LockHeeded`), since the lock waits for those who are.

**Send Later.** A copy whose submission is not pending never becomes pending
again, and every caller only destroys or files a copy it knows to be settled: so
`HoldInv` says where a row, a caller or a composer names a settled copy, whatever
its column `held` says, and that a draft saved again whose row is still to be told
is one. It holds for every request of the person and any number of people, and gives
`HoldsShow`.

`PassesSendOnce` assumes `PassesOnly`: one person who schedules and deletes,
passes that do the rest, and hand-overs that end before their hour. The other
requests are left out because the theorem is false with some of them: Send Now on
a stale row and a new hour after a crash are the counterexamples
`SendNowOvertaken` (the same step in `Outbox`) and `HeldAgain`, and what a composer
sends anew is `LeftOpen`. Everything else is in: any number of faults, crashes and
copies, a server that says no, whose index lags, whose clock runs ahead by
`ClockSlack`, that forgets, and another install that cancels, deletes or sends.
The guards that are the model's own (one row, live callers within their claim, two
installs that do not send in the same moment; see Bounds) are part of `Spec` here too.
`OnceInv` is the reason. Only one copy is ever held (`Ever`). A plain row or task
means that no copy in Drafts is still marked as held (`Fits`, `Clear`): an empty
look counts only once the index has had time since the mark (`EmptyLook`), and a
forgotten hold is asked of its copy, which the hour decides (`StandingOnce`). A
plain message never tried has not been held at all (`Before`), so it may go
without a look in Sent; any other is looked for first, and with nothing held, what
the server sent is in Sent (`SendingKnows`). Before the proof, TLC checked `OnceInv`
and `HoldInv` on this instance with three faults (2.1 million states).

The other four have an inductive invariant each, over the types and `HoldInv`, and
each assumes away the requests that break the property or this invariant. TLC
checked each invariant before its proof.

- `OneCallerHolds`. `One` says at which labels each job can be (`JobFits`), that
  whoever works on a row holds a claim that has not lapsed, and that meanwhile nobody
  else works on it or hands it over. `ClaimsHeeded` leaves out Cancel Send and what a
  composer posts, which write a row whose claim they have let go of or never had
  (`SavedAndSent`, `LeftOpen`), slow hand-overs (`ClaimFreed`) and a second person.
- `ReportedSentHasGone`. `SentInv` says of the server that Sent, a filed copy and a
  submission that is over each mean a mail that went (`ServerKnows`), and of every
  message a caller, a row or a composer has that its copy is in Drafts, or it has
  gone (`MailKept`, `CallerKnows`). It needs no claims: Cancel Send, posts and slow
  hand-overs are in. `NotSavedOver` leaves out saving over the draft of a row,
  which is `DraftSaved` of `Outbox` again, and a second person, with
  whom `SentInv` is not inductive.
- `NothingIsLost`. `KeptInv` says which step may take which copy, and that another
  place has the message by then (`LeavesOne`, `KeepsOne`): the row goes after the
  draft is there, and a copy is destroyed after another one is (`Beside`). It rests
  on `One`; a crash while a Cancel Send or a post is writing could leave neither. With
  an install that deletes what it cancels (`NoneDeletes`), Send Now or a composer may
  have the only copy when it goes.
- `DeletedStaysUnsent`. At most one copy is ever held, and whoever goes by the row,
  or by what it read of it, finds it (`Covered`): a plain message means none, a mark
  none made after it, a handle that very copy. So what Delete finds to stop is
  all there is, and it answers with nothing pending, no row, and nobody busy
  (`Stopped`). A new hour breaks `Covered`: it claims the row again under a mark that
  is older than the hold it makes, and when it dies there a look through an index
  that lags further than a claim lasts misses that hold. The code's claim lasts ten
  minutes and it asks again after one, so this needs an index ten minutes late;
  `NoNewHour` is `ClaimsHeeded` without it.

**Engine.** `Base` says that only the account's own task goes on and every other
one was aborted (`Own`), and what is not yet started (`Known`). For `OneLoop`,
`Heir` adds that a task waiting for its turn waits for whichever loop there still
is; this is what `Hasty` takes away. For `ShownTruly`, `ToldOk` adds that a loop
which last reported "Ok" is shown as "Ok", except while it loads the window again.

**Mirror.** `Agree` speaks of rest, where nothing is left to tell; the invariant
speaks of every moment, by what the history has yet to tell. `Same(h, v, c, m, l, s)`
says that mail `c` has a label of a message as the server has it, or that an
entry after place `s` names it; `Place` says it of the message's being there. Both
last while the server goes on (`LaterKeeps`), since whatever it changes it records
(`GoesOn`), and what it recorded last holds there (`True`). Over this stand four
layers, each inductive upon those before:

- `Typed`: the types, who holds the lock at which stage, and that of two actions
  under way the one being taken back has been met when the other sends.
- `Reads`: what the engine and a reader hold is the server's but for what is yet to
  be told, since the place they will write (`eng.upTo`, or the cursor), which was
  read first. What a page load has gone past and not found is not there (`Passed`),
  which is why the last page may sweep.
- `Mirrored`: with nothing torn and no rollback met (`Calm`), every message that is
  loaded is as the server has it (`FitsBut`), or the history is yet to tell, or an
  action on its way is the reason (`Ahead`); and what an action would take back
  is then right (`Undoable`). `AppliedFits` carries this through a replay, entry by
  entry: an entry may name a message that later entries change again, and the
  fetched copy may be newer than the entry that brings it in.
- `Stood`: what the server took from a person and nobody changed since stands
  there, in every copy read under the lock, and no entry after the replay's place
  says it again; so nothing written under the lock undoes it (`WriteStays`).

`Agree` excepts `torn`, and `UndoesOnlyItsOwn` and `CutShort` are why. The
history's entries are applied by a recursive function and not a fold, so that a
proof may speak of the mail after each. Before the proofs TLC checked the four layers on
`Mirror.cfg`'s instance and on one with two labels (2.1 million states).

**Pop3.** `Here(d)` is what a store has had: the mail it keeps and what the person
erased. The invariant says that the disk's is among the store's, and that a
message on the server whose UIDL counts as seen is among both (`Known`): so a DELE,
which goes only to what the page of a checkpoint names (`PageSafe`), is said only
to what is on the disk (`DelesSafe`). Two UIDLs alike would break it (`UidlsApart`),
and so would a UIDL given again while its row counts; `Orderly` says that the
server does neither. `DownloadIdFree` shows, by counting, that there is always a
free id, so no download writes over another.
The other three need the other direction too: a message on the server that is
here, or was, counts as seen (`RowOf`), in the store and on the disk. `Confirm` is
the one step that could break it, and does not: a message a QUIT confirms as removed
has left the server (`Deletes`), and a whole list that names anything names every
message that is down (`NamesAll`), so no row of a message that could come again
goes. `Rows` joins these; only a download and a power cut add to what is kept, and
neither can add a mail twice. `Window` says that what is stored is told or will be
at the end of this check, or was stored by a check that was stopped (`Tells`), that a
menu which lacks a failing message is owed a change or a report that is not the last,
that a first check finishes only with every old mail down, counted or not listed
(`OldDown`, from `Handled`: what the check asked for in vain still counts as failed),
and that a later check stores no other old mail (`OldStored`). TLC checked both
layers on `Pop3.cfg`'s instance before the proofs.

**Events.** Each queue holds one entry of a kind of hint at most, and one wait
(`Queue`). What merges keeps the ids of both (`About`), so what was named on its
way stays named; `RemoveAtIs` says what taking an entry out of the middle leaves.
The order needs no induction over the queues. `Rise(q, a, kind, lo, hi)` says that
an account's numbers in `q` go up from `lo` to `hi`, with none left out if they are
notices and with `hi` there if they are waits; it is kept by joining two sequences,
splitting off a first event, taking out one of another kind and merging. An
account's `Line` is three such rises, through the channel, the flush's hand and the
queue, from what the window heard last to what was sent last (`Ordered`). An event
sent straight to the channel overtakes nothing because without a flush nothing
waits (`Idle`).

Every invariant and action property of the passing runs is stated by a theorem.
Only model-checked are liveness (`EventuallySettled` twice, `AskedIsLooked`,
`Recovers`, `EverythingRead`, `CheckEnds`, `Fetched`, `ComesRight`,
`InboxComesRight`), since the prover has none under fairness, and what the runs of
`Outbox` and `SendLater` ask for beyond the hypotheses above: `NoDoubleSend` with
Send Now, a new hour and edits, and `StoppedStaysUnsent` and `NeverLost` with
Cancel Send.

## Not modelled

Of what the modules are about:

- **Outbox and Send Later.** Send Later while a switch to JMAP holds the account
  (`call_back_account`). A lost answer of a draft save that leaves two drafts: no
  message is lost or sent by it. `held_row_of` with its claim taken over, and two
  rows for one message: the model has one row. `adopt_holds` reads a store that may
  lag, but `unclaimed_holds` passes over every copy a row names and every one a marked
  row waits to find, and a copy the server no longer holds is left alone; so a second
  row needs a composer opened on the held copy itself. Two installs that send in the same
  moment (see the bounds). Send Now, a new hour or an edit of a hold that another
  install called back and whose copy it deleted: `recall` answers that it has
  gone, and the row is dropped with its bytes; `RemoveRow` does this, the person
  is told, and `NeverLost` counts it as deleted.
- **Engine.** How long a back-off is, and what the chores of a tick load.
- **Mirror.** The message refs of folder servers, a changed UIDVALIDITY and
  mailboxes that are renumbered: ids here are the server's. A keyword the server
  does not keep, the filing of muted replies, the announcing of new mail, a
  longer window that keeps held rows (`extending`), `follow_window` and pruning.
  A server without a changes call, and the answer that a replay was overtaken,
  which the move lock makes unreachable. A Delete Forever whose store write fails.
- **Pop3.** Folders that live only here, and drafts: plain writes to the store.
- **Events.** What the window reads from the store when it hears a hint.

Components left out, each with its reason in `PROJECT.json`:

- **Switch from IMAP to JMAP.** Only the lock it takes on sending. It rewrites the
  refs of every stored message, and `Mirror` leaves refs out.
- **Undo.** It runs `change_all` with the list the action answered, so it is one
  more writer of `Mirror`.
- **Calendar, contacts, rules, formats, protection, sign-in.** Conversions of data,
  and copy loops of one task with no second actor on their state.
- **Window, composer, settings, command line, test server, packaging.** Widgets and
  tools.

The wording of problems, the contents of messages and the protocols are left out
everywhere.
