------------------------------- MODULE Mirror -------------------------------
(***************************************************************************)
(* The store as a mirror of a label server. A person's change goes to the  *)
(* store first and to the server after it; a refused one is taken back. An *)
(* account's engine replays the server's history from a stored cursor,     *)
(* loads the window page by page, lists it again when the server has lost  *)
(* its place, and compares the inbox; opening a thread fetches it. The     *)
(* move lock keeps all of these apart but the page.                        *)
(*                                                                         *)
(*   src/sync/src/account/writes.rs      change_all, erase_all             *)
(*   src/sync/src/account/history.rs     replay                            *)
(*   src/sync/src/account/window.rs      bootstrap, rebootstrap, pages     *)
(*   src/sync/src/account/threads.rs     ensure_thread                     *)
(*   src/sync/src/account/store_mail.rs  the move lock                     *)
(*   src/store/src/messages.rs, window.rs, accounts.rs   what a write does *)
(***************************************************************************)
EXTENDS Integers, SequencesExt

CONSTANTS
    Msgs,       \* message ids, 1..n, in the order the window lists them
    Labels,     \* "inbox" and others
    Writers,    \* actions of people that may be under way at once
    Before,     \* the messages the server has at the start, in the inbox
    MaxLog,     \* bound: changes at the server with which other clients go on
    MaxActs,    \* bound: actions of people in all
    MaxFaults   \* bound: refusals, lost answers, failed reads and crashes in all

VARIABLES
    srv,     \* the server's mail
    log,     \* the server's history
    floor,   \* the oldest place in it the server still knows
    mail,    \* the store's mail
    gen,     \* sync_gen of each stored message
    cur,     \* the account's SyncCursor
    lock,    \* who holds the move lock
    eng,     \* the engine's task
    act,     \* each writer's action
    reader,  \* a thread being opened
    asked,   \* history: what people had the server take, and nobody changed since
    torn,    \* history: "stopped", a crash cut a write short; "met", a pass met a rollback
    acts, faults

vars == <<srv, log, floor, mail, gen, cur, lock, eng, act, reader, asked, torn, acts, faults>>

ASSUME MirrorAssumption ==
    /\ IsFiniteSet(Msgs) /\ Msgs = 1..Cardinality(Msgs) /\ 1 \in Msgs
    /\ Before \subseteq Msgs /\ "inbox" \in Labels
    /\ Writers \cap {"free", "engine", "reader"} = {}
    /\ {MaxLog, MaxActs, MaxFaults} \subseteq Nat

NoState == -1
\* Some mail: the messages that are there, and which label each carries.
Mail == {c \in [there : SUBSET Msgs, on : SUBSET (Msgs \X Labels)] :
            c.on \subseteq c.there \X Labels}

NoMail == [there |-> {}, on |-> {}]

Of(ms) == ms \X Labels

Change == [kind : {"added", "deleted", "gained", "lost"}, id : Msgs, label : Labels]

----------------------------------------------------------------------------
(* What a write to the store does (store/messages.rs).                     *)

\* Change::Upsert of each of `ms` that `found` holds.
Upsert(c, found, ms) ==
    LET got == ms \cap found.there
    IN [there |-> c.there \cup got,
        on |-> (c.on \ Of(got)) \cup (found.on \cap Of(got))]

\* Change::Gone and Change::Erase.
Drop(c, ms) == [there |-> c.there \ ms, on |-> c.on \ Of(ms)]

\* set_membership: a message that is not stored changes nothing.
Label(c, ms, l, on) ==
    LET here == (ms \cap c.there) \X {l}
    IN [c EXCEPT !.on = IF on THEN @ \cup here ELSE @ \ here]

\* The generation each upserted or kept message now has.
Stamped(ms, generation) == [m \in Msgs |-> IF m \in ms THEN generation ELSE gen[m]]

\* Mutant of Stale: the sweep takes what the new generation brought too.
StaleAll(g, generation) == {m \in Msgs : g[m] <= generation}

\* sweep_stale: what an earlier generation wrote last.
Stale(g, generation) == {m \in Msgs : g[m] < generation}

----------------------------------------------------------------------------
(* The server.                                                             *)

Record(kind, m, l) == Append(log, [kind |-> kind, id |-> m, label |-> l])

\* One message's label, set at the server. It records what changed.
ServerLabels(m, l, on) ==
    /\ srv' = Label(srv, {m}, l, on)
    /\ log' = IF srv' = srv THEN log ELSE Record(IF on THEN "gained" ELSE "lost", m, l)

ServerDeletes(m) == srv' = Drop(srv, {m}) /\ log' = Record("deleted", m, "inbox")

MayChange == Len(log) < MaxLog

\* What the other writers asked of these labels no longer stands.
Forget(pairs) == {t \in asked : <<t[1], t[2]>> \notin pairs}

SameStore == UNCHANGED <<mail, gen, cur>>
SameActors == UNCHANGED <<lock, eng, act, reader>>
SameServer == UNCHANGED <<srv, log, floor>>

\* Another client, or a rule at the server.
OtherLabels(m, l, on) ==
    /\ MayChange /\ m \in srv.there
    /\ ServerLabels(m, l, on) /\ srv' # srv
    /\ asked' = Forget({<<m, l>>})
    /\ SameStore /\ SameActors /\ UNCHANGED <<floor, torn, acts, faults>>

OtherDeletes(m) ==
    /\ MayChange /\ m \in srv.there /\ ServerDeletes(m)
    /\ asked' = Forget(Of({m}))
    /\ SameStore /\ SameActors /\ UNCHANGED <<floor, torn, acts, faults>>

\* New mail; an id is never used again.
Arrives(m) ==
    /\ MayChange /\ m \notin Before
    /\ \A i \in DOMAIN log : log[i].id = m => log[i].kind # "added"
    /\ srv' = [there |-> srv.there \cup {m}, on |-> srv.on \cup {<<m, "inbox">>}]
    /\ log' = Record("added", m, "inbox")
    /\ SameStore /\ SameActors /\ UNCHANGED <<floor, asked, torn, acts, faults>>

Fault == faults < MaxFaults /\ faults' = faults + 1

\* The server forgets its history: a cursor before now has lost its place.
LosesPlace ==
    /\ Fault /\ floor < Len(log) /\ floor' = Len(log)
    /\ SameStore /\ SameActors /\ UNCHANGED <<srv, log, asked, torn, acts>>

----------------------------------------------------------------------------
(* The move lock.                                                          *)

\* The rollback of this writer, if it comes to one, changes something back.
Owes(w) == act[w].did \ act[w].taken # {}

\* The writers' actions once the store is written: what is under way is met.
Met == [w \in Writers |-> [act[w] EXCEPT !.met = @ \/ act[w].pc \in {"send", "back"}]]

Overtakes == act' = Met

Hold(who) == lock = "free" /\ lock' = who
Free == lock' = "free"

----------------------------------------------------------------------------
(* The engine: one task, so its steps never meet one another.              *)

Resting == [pc |-> "idle", upTo |-> NoState, want |-> {}, got |-> NoMail, whole |-> FALSE]

Doing(pc) == eng.pc = pc
Rests == eng' = Resting

\* Mutant of LookMayStart: the replay does not take the move lock.
LookAnyway == lock' = lock

LookMayStart == Hold("engine")

\* What the entries after `since` and up to `upTo` say.
Entries(since, upTo) == SubSeq(log, since + 1, upTo)

\* fetch_for_history: what was added, and what moved into the inbox and is not
\* stored.
Wanted(entries) ==
    {entries[i].id : i \in {j \in DOMAIN entries :
        \/ entries[j].kind = "added"
        \/ /\ entries[j].kind = "gained" /\ entries[j].label = "inbox"
           /\ entries[j].id \notin mail.there}}

\* replay, up to the server's answer: nothing new, its changes, or that it has
\* lost the place, and then everything is listed again. The place to go on from
\* is read first (state_now).
Look ==
    /\ Doing("idle") /\ LookMayStart
    /\ LET now == Len(log) IN
       IF cur.state = NoState \/ cur.state < floor
       THEN eng' = [Resting EXCEPT !.pc = "begin", !.upTo = now,
                                   !.whole = cur.state # NoState /\ cur.done]
       ELSE /\ cur.state < now
            /\ eng' = [Resting EXCEPT !.pc = "fetch", !.upTo = now,
                                      !.want = Wanted(Entries(cur.state, now))]
    /\ SameServer /\ SameStore /\ UNCHANGED <<act, reader, asked, torn, acts, faults>>

\* The metadata of what the changes name, as the server has it by now.
Fetch ==
    /\ Doing("fetch")
    /\ eng' = [eng EXCEPT !.pc = "write", !.got = Upsert(NoMail, srv, eng.want)]
    /\ SameServer /\ SameStore /\ UNCHANGED <<lock, act, reader, asked, torn, acts, faults>>

\* One change, written to the store. `stored` is what it held before the batch.
Written(c, e, stored) ==
    CASE e.kind = "added" -> Upsert(c, eng.got, {e.id})
      [] e.kind = "deleted" -> Drop(c, {e.id})
      [] e.kind = "gained" -> IF e.id \in stored THEN Label(c, {e.id}, e.label, TRUE)
                              ELSE Upsert(c, eng.got, {e.id})
      [] e.kind = "lost" -> Label(c, {e.id}, e.label, FALSE)

\* Mutant of NextPlace: the place is the one the server has by the write.
PlaceByNow == Len(log)

NextPlace == eng.upTo

\* The changes in order, each upon what the ones before it left.
Applied ==
    LET done[i \in 0..(eng.upTo - cur.state)] ==
            IF i = 0 THEN mail ELSE Written(done[i - 1], log[cur.state + i], mail.there)
    IN done[eng.upTo - cur.state]

\* The replay's one write: the changes, and the new place.
Replay ==
    /\ Doing("write")
    /\ mail' = Applied
    /\ gen' = Stamped(mail'.there \cap eng.got.there, cur.gen)
    /\ cur' = [cur EXCEPT !.state = NextPlace]
    /\ Rests /\ Free /\ Overtakes
    /\ SameServer /\ UNCHANGED <<reader, asked, torn, acts, faults>>

\* start_generation, for bootstrap and rebootstrap. A store that never finished
\* loading the window loads it from the top, and any other compares.
Begin ==
    /\ Doing("begin")
    /\ cur' = [state |-> eng.upTo, gen |-> cur.gen + 1, pos |-> 1, done |-> FALSE]
    /\ eng' = [Resting EXCEPT !.pc = IF eng.whole THEN "list" ELSE "page"]
    /\ SameServer /\ UNCHANGED <<mail, gen, lock, act, reader, asked, torn, acts, faults>>

\* rebootstrap: the window's listing against the store. What differs is wanted.
List ==
    /\ Doing("list")
    /\ eng' = [eng EXCEPT !.pc = "refetch", !.got = srv,
                  !.want = {m \in srv.there : m \notin mail.there
                                \/ srv.on \cap Of({m}) # mail.on \cap Of({m})}]
    /\ SameServer /\ SameStore /\ UNCHANGED <<lock, act, reader, asked, torn, acts, faults>>

\* What is the same is kept under the new generation; `want` keeps it.
Refetch ==
    /\ Doing("refetch")
    /\ eng' = [eng EXCEPT !.pc = "rewrite", !.want = eng.got.there \ @,
                          !.got = Upsert(NoMail, srv, eng.want)]
    /\ SameServer /\ SameStore /\ UNCHANGED <<lock, act, reader, asked, torn, acts, faults>>

Rewrite ==
    /\ Doing("rewrite")
    /\ LET now == Stamped(eng.got.there \cup eng.want, cur.gen) IN
       /\ mail' = Drop(Upsert(mail, eng.got, Msgs), Stale(now, cur.gen))
       /\ gen' = now
    /\ cur' = [cur EXCEPT !.pos = 1, !.done = TRUE]
    /\ Rests /\ Free /\ Overtakes
    /\ SameServer /\ UNCHANGED <<reader, asked, torn, acts, faults>>

\* load_window_page. The first page comes with the lock a bootstrap holds; the
\* rest, backfill_step's, come without it.
PageRead ==
    /\ Doing("page") \/ (Doing("idle") /\ ~cur.done /\ cur.state # NoState)
    /\ eng' = [Resting EXCEPT !.pc = "pagewrite", !.got = Upsert(NoMail, srv, {cur.pos}),
                              !.whole = Doing("page")]
    /\ SameServer /\ SameStore /\ UNCHANGED <<lock, act, reader, asked, torn, acts, faults>>

\* The server no longer takes the saved page token: from the top again.
PageRefused ==
    /\ Doing("idle") /\ ~cur.done /\ cur.pos > 1 /\ Fault
    /\ cur' = [cur EXCEPT !.pos = 1]
    /\ SameServer /\ UNCHANGED <<mail, gen, lock, eng, act, reader, asked, torn, acts>>

LastPage == cur.pos + 1 \notin Msgs

PageWrite ==
    /\ Doing("pagewrite")
    /\ LET now == Stamped(eng.got.there, cur.gen)
           paged == Upsert(mail, eng.got, Msgs)
       IN /\ mail' = IF LastPage THEN Drop(paged, Stale(now, cur.gen)) ELSE paged
          /\ gen' = now
    /\ cur' = IF LastPage THEN [cur EXCEPT !.pos = 1, !.done = TRUE] ELSE [cur EXCEPT !.pos = @ + 1]
    /\ Rests /\ IF eng.whole THEN Free ELSE UNCHANGED lock
    /\ Overtakes
    /\ SameServer /\ UNCHANGED <<reader, asked, torn, acts, faults>>

Inbox(c) == {m \in c.there : <<m, "inbox">> \in c.on}

\* Mutant of Apart: only what the server's inbox lacks.
ApartHere == Inbox(mail) \ Inbox(srv)

\* The stored messages the two inboxes differ on.
Apart == ApartHere \cup ((Inbox(srv) \ Inbox(mail)) \cap mail.there)

\* reconcile_inbox, when due and the window has loaded.
Compare ==
    /\ Doing("idle") /\ cur.done /\ cur.state # NoState
    /\ Hold("engine")
    /\ Apart # {} /\ eng' = [Resting EXCEPT !.pc = "differ", !.want = Apart]
    /\ SameServer /\ SameStore /\ UNCHANGED <<act, reader, asked, torn, acts, faults>>

Differ ==
    /\ Doing("differ")
    /\ eng' = [eng EXCEPT !.pc = "repair", !.got = Upsert(NoMail, srv, eng.want)]
    /\ SameServer /\ SameStore /\ UNCHANGED <<lock, act, reader, asked, torn, acts, faults>>

Repair ==
    /\ Doing("repair")
    /\ mail' = Drop(Upsert(mail, eng.got, Msgs), eng.want \ eng.got.there)
    /\ gen' = Stamped(eng.got.there, cur.gen)
    /\ Rests /\ Free /\ Overtakes
    /\ SameServer /\ UNCHANGED <<cur, reader, asked, torn, acts, faults>>

\* A read of the server fails, and the tick ends there.
EngineFails ==
    /\ eng.pc \in {"fetch", "begin", "page", "list", "refetch", "differ"} /\ Fault
    /\ Rests /\ Free
    /\ SameServer /\ SameStore /\ UNCHANGED <<act, reader, asked, torn, acts>>

----------------------------------------------------------------------------
(* People: change_all on the messages of a thread, Delete Forever, and a    *)
(* thread that is opened.                                                  *)

NoAct == [pc |-> "idle", todo |-> {}, label |-> "inbox", on |-> FALSE, did |-> {}, taken |-> {},
          met |-> FALSE]

Is(w, pc) == act[w].pc = pc
Becomes(w, a) == act' = [act EXCEPT ![w] = a]

\* change_all's write to the store, under the lock. `did` is what it changed.
Act(w, ms, l, on) ==
    /\ Is(w, "idle") /\ acts < MaxActs /\ acts' = acts + 1
    /\ ms \subseteq mail.there /\ ms # {} /\ Hold(w)
    /\ mail' = Label(mail, ms, l, on)
    /\ act' = [Met EXCEPT ![w] = [NoAct EXCEPT
                   !.pc = "send", !.todo = ms, !.label = l, !.on = on,
                   !.did = {m \in ms : (<<m, l>> \in mail.on) # on}]]
    /\ asked' = Forget(ms \X {l})
    /\ SameServer /\ UNCHANGED <<gen, cur, eng, reader, torn, faults>>

\* The server takes the next message's change.
Take(w) ==
    LET a == act[w]
        m == CHOOSE x \in a.todo : \A y \in a.todo : x <= y
        next == [a EXCEPT !.todo = @ \ {m}, !.taken = @ \cup {m}]
    IN /\ Is(w, "send") /\ m \in srv.there
       /\ ServerLabels(m, a.label, a.on)
       /\ asked' = Forget({<<m, a.label>>}) \cup {<<m, a.label, a.on>>}
       /\ IF next.todo = {} THEN Becomes(w, NoAct) /\ Free ELSE Becomes(w, next) /\ UNCHANGED lock
       /\ SameStore /\ UNCHANGED <<floor, eng, reader, torn, acts, faults>>

\* The action is given up: it was refused, or its answer was lost, with the
\* change made at the server, and the retries are over. The lock goes first.
GiveUp(w) ==
    LET a == act[w] IN
    /\ Is(w, "send")
    /\ \/ /\ Fault \/ (a.todo \cap srv.there # a.todo /\ UNCHANGED faults)
          /\ UNCHANGED <<srv, log>>
       \/ \E m \in a.todo :
             /\ m \in srv.there /\ Fault /\ ServerLabels(m, a.label, a.on)
    /\ Free /\ Becomes(w, [a EXCEPT !.pc = "back"])
    /\ SameStore /\ UNCHANGED <<floor, eng, reader, asked, torn, acts>>

\* Mutant of NotTaken: the whole action is taken back.
AllOfIt(w) == act[w].did

NotTaken(w) == act[w].did \ act[w].taken

\* reverse_changes, for the messages the server never took.
TakeBack(w) ==
    /\ Is(w, "back")
    /\ mail' = Label(mail, NotTaken(w), act[w].label, ~act[w].on)
    /\ Becomes(w, NoAct)
    /\ torn' = IF Owes(w) /\ (act[w].met \/ lock = "engine") THEN torn \cup {"met"} ELSE torn
    /\ SameServer /\ UNCHANGED <<gen, cur, lock, eng, reader, asked, acts, faults>>

\* Delete Forever: the server first, and then the store.
Erase(w, m) ==
    /\ Is(w, "idle") /\ acts < MaxActs /\ acts' = acts + 1
    /\ m \in mail.there \cap srv.there /\ Hold(w)
    /\ ServerDeletes(m)
    /\ asked' = Forget(Of({m}))
    /\ Becomes(w, [NoAct EXCEPT !.pc = "erased", !.todo = {m}])
    /\ SameStore /\ UNCHANGED <<floor, eng, reader, torn, faults>>

EraseHere(w) ==
    /\ Is(w, "erased")
    /\ mail' = Drop(mail, act[w].todo)
    /\ act' = [Met EXCEPT ![w] = NoAct] /\ Free
    /\ SameServer /\ UNCHANGED <<gen, cur, eng, reader, asked, torn, acts, faults>>

\* fetch_thread: the lock, the server's answer, and what it says to the store.
OpenThread(m) ==
    /\ reader.pc = "idle" /\ acts < MaxActs /\ acts' = acts + 1 /\ Hold("reader")
    /\ reader' = [pc |-> "write", id |-> m, got |-> Upsert(NoMail, srv, {m})]
    /\ SameServer /\ SameStore /\ UNCHANGED <<eng, act, asked, torn, faults>>

NoReader == [pc |-> "idle", id |-> 1, got |-> NoMail]

StoreThread ==
    /\ reader.pc = "write"
    /\ mail' = IF reader.got.there = {} THEN Drop(mail, {reader.id})
               ELSE Upsert(mail, reader.got, Msgs)
    /\ gen' = Stamped(reader.got.there, cur.gen)
    /\ reader' = NoReader /\ Free /\ Overtakes
    /\ SameServer /\ UNCHANGED <<cur, eng, asked, torn, acts, faults>>

\* The app stops, with a change in the store that the server was not told.
Crash ==
    /\ Fault
    /\ Rests /\ act' = [w \in Writers |-> NoAct] /\ reader' = NoReader /\ Free
    /\ torn' = IF \E w \in Writers : Owes(w) THEN torn \cup {"stopped"} ELSE torn
    /\ SameServer /\ SameStore /\ UNCHANGED <<asked, acts>>

----------------------------------------------------------------------------
Init ==
    /\ srv = [there |-> Before, on |-> Before \X {"inbox"}]
    /\ log = <<>> /\ floor = 0
    /\ mail = NoMail /\ gen = [m \in Msgs |-> 0]
    /\ cur = [state |-> NoState, gen |-> 0, pos |-> 1, done |-> FALSE]
    /\ lock = "free" /\ eng = Resting /\ act = [w \in Writers |-> NoAct] /\ reader = NoReader
    /\ asked = {} /\ torn = {} /\ acts = 0 /\ faults = 0

EngineGoesOn ==
    \/ Fetch \/ Replay \/ Begin \/ List \/ Refetch \/ Rewrite \/ PageRead \/ PageWrite
    \/ Differ \/ Repair

WriterGoesOn(w) == Take(w) \/ GiveUp(w) \/ TakeBack(w) \/ EraseHere(w)

Next ==
    \/ Look \/ Compare \/ EngineGoesOn \/ EngineFails \/ PageRefused
    \/ \E m \in Msgs : OtherDeletes(m) \/ Arrives(m) \/ OpenThread(m)
    \/ \E m \in Msgs, l \in Labels, on \in BOOLEAN : OtherLabels(m, l, on)
    \/ \E w \in Writers : WriterGoesOn(w) \/ \E m \in Msgs : Erase(w, m)
    \/ \E w \in Writers, ms \in SUBSET Msgs, l \in Labels, on \in BOOLEAN : Act(w, ms, l, on)
    \/ StoreThread \/ LosesPlace \/ Crash

Spec == Init /\ [][Next]_vars

\* The engine's ticks come round, each action and each read goes on, and a tick
\* has its look and, once an hour, its comparison.
FairSpec ==
    /\ Spec
    /\ WF_vars(EngineGoesOn) /\ WF_vars(StoreThread)
    /\ \A w \in Writers : WF_vars(WriterGoesOn(w))
    /\ SF_vars(Look) /\ SF_vars(Compare)

----------------------------------------------------------------------------
(* Properties.                                                             *)

Cursor == [state : Int, gen : Nat, pos : Msgs, done : BOOLEAN]

\* Every variable has its type, and the engine and the writers hold the lock
\* while they say they do.
TypeOK ==
    /\ srv \in Mail /\ mail \in Mail /\ log \in Seq(Change)
    /\ floor \in 0..Len(log) /\ gen \in [Msgs -> Nat] /\ cur \in Cursor
    /\ cur.state \in NoState..Len(log)
    /\ lock \in {"free", "engine", "reader"} \cup Writers
    /\ lock = "engine" <=> (eng.pc \notin {"idle", "pagewrite"} \/ eng.whole)
    /\ \A w \in Writers : lock = w <=> act[w].pc \in {"send", "erased"}
    /\ lock = "reader" <=> reader.pc = "write"
    /\ torn \subseteq {"stopped", "met"} /\ acts \in 0..MaxActs /\ faults \in 0..MaxFaults

\* Nothing is under way, the window is loaded and the history is read.
Quiet ==
    /\ Doing("idle") /\ reader.pc = "idle" /\ \A w \in Writers : Is(w, "idle")
    /\ cur.done /\ cur.state = Len(log)

\* The store is the server's mirror whenever the history is read and nothing is
\* under way: no change is skipped by the cursor, none is written from an older
\* copy for good, whatever met whatever.
Agree == Quiet /\ torn = {} => mail = srv

\* A refused action undoes its own change only (tests/triage.rs, the test of that
\* name): with no crash, the mirror is right whatever a rollback met.
UndoesOnlyItsOwn == Quiet /\ "stopped" \notin torn => mail = srv

\* A crash between the store and the server leaves no change the server lacks.
AgreeEver == Quiet => mail = srv

Shows(t) == t[1] \in mail.there => ((<<t[1], t[2]>> \in mail.on) <=> t[3])

PageStores == Doing("pagewrite") /\ ~Doing("pagewrite")'

\* Once the server has taken what a person did, no pass puts the mail back, and
\* no rollback of the same action does, until somebody changes it again. The
\* page, which goes without the lock, is the exception.
WriteStays == [][\A t \in asked \cap asked' :
    Shows(t) /\ ~Shows(t)' => PageStores \/ torn' # {}]_vars

\* With no exception, as store_mail.rs says of the lock.
NothingPutsBack == [][\A t \in asked \cap asked' : Shows(t) /\ ~Shows(t)' => torn' # {}]_vars

\* The inbox comes to be the server's, also after a crash or a lost rollback.
InboxComesRight == <>[](Inbox(mail) = Inbox(srv))

\* So does all the mail, when no write was torn.
ComesRight == <>[](torn # {} \/ mail = srv)
=============================================================================
