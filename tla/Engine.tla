------------------------------- MODULE Engine -------------------------------
(***************************************************************************)
(* The loop the engine runs for one account: it looks for mail, does its   *)
(* chores, rests, and starts over; a failure backs off, a crash restarts   *)
(* once, and people start, stop and poke the account meanwhile.            *)
(*                                                                         *)
(* A task is one spawned loop. Each call of start_account makes one, and   *)
(* an aborted task lives on until it comes to its next await.              *)
(*                                                                         *)
(*   src/sync/src/engine.rs           the engine, its loop and a tick      *)
(*   src/sync/src/account/window.rs   bootstrap and rebootstrap's states   *)
(***************************************************************************)
EXTENDS Naturals, FiniteSets

CONSTANTS
    MaxTasks,   \* bound: how often the account is started
    MaxFaults,  \* bound: how often something fails or the network changes
    Failures,   \* what may fail in a tick (see Kinds)
    Late,       \* whether a tick fails after its look at new mail
    Hasty,      \* whether an account is started while an old task winds up
    Password,   \* signs_in_with_password
    Locals      \* what capabilities().local_mailboxes may be (TRUE for POP3)

VARIABLES
    local,    \* this account's mailboxes are in the store alone
    network,  \* SyncEngine::network
    entry,    \* the task in SyncEngine::running, or 0
    task,     \* every task ever started
    made,     \* how many
    shown,    \* the account's state in the store, as the sidebar says it
    loaded,   \* the store has a sync state
    asked,    \* history: the account was poked and has not looked since
    faults

vars == <<local, network, entry, task, made, shown, loaded, asked, faults>>

Tasks == 1..MaxTasks

Kinds == {"Offline", "BackingOff", "DownloadLimit", "NeedsReauth", "panic"}
States == {"Ok", "Bootstrapping", "Offline", "BackingOff", "DownloadLimit",
           "NeedsReauth", "Stopped"}

\* `prev` is the task a new one waits for, `poke` the permit of its Notify,
\* `due` next_poll has come, `told` what run_account last reported.
Task == [pc : {"unborn", "await", "top", "offline", "list", "look", "checking",
               "loading", "paging", "chores", "rest", "pause", "backoff",
               "crashed", "over", "gone"},
         prev : 0..MaxTasks, aborted : BOOLEAN, poke : BOOLEAN, due : BOOLEAN,
         crashed : BOOLEAN, told : States \cup {"none"}]

ASSUME EngineAssumption ==
    /\ MaxTasks \in Nat \ {0} /\ MaxFaults \in Nat
    /\ Failures \subseteq Kinds
    /\ {Late, Hasty, Password} \subseteq BOOLEAN /\ Locals \subseteq BOOLEAN

----------------------------------------------------------------------------
At(t, pc) == task[t].pc = pc /\ ~task[t].aborted
Goto(t, pc) == task' = [task EXCEPT ![t].pc = pc]

\* A task that has run to its end or was dropped.
Ended(t) == task[t].pc \in {"unborn", "over", "gone"}

\* A task with a loop of its own, and a connection to the server.
Looping(t) == ~Ended(t) /\ task[t].pc # "await"

Spend == faults < MaxFaults /\ faults' = faults + 1

Unborn == [pc |-> "unborn", prev |-> 0, aborted |-> FALSE, poke |-> FALSE,
           due |-> FALSE, crashed |-> FALSE, told |-> "none"]

----------------------------------------------------------------------------
(* What the app asks of the engine.                                        *)

\* Mutant of Waits: the new loop starts beside the old one.
WaitsForNone(t) == 0

\* The task a new one waits for: the one it replaces.
Waits(t) == t

\* start_account, inside the engine's lock.
Start ==
    /\ made < MaxTasks
    /\ Hasty \/ \A t \in Tasks : Looping(t) => t = entry /\ ~task[t].aborted
    /\ Hasty \/ (entry # 0 => task[entry].pc # "await")
    /\ made' = made + 1 /\ entry' = made + 1
    /\ LET fresh == [Unborn EXCEPT !.pc = "await", !.prev = Waits(entry), !.due = TRUE]
       IN task' = [t \in Tasks |->
             IF t = made + 1 THEN fresh
             ELSE IF t = entry THEN [task[t] EXCEPT !.aborted = TRUE] ELSE task[t]]
    /\ asked' = FALSE
    /\ UNCHANGED <<local, network, shown, loaded, faults>>

\* stop_account: aborts, and waits for nothing.
Stop ==
    /\ entry # 0
    /\ task' = [task EXCEPT ![entry].aborted = TRUE]
    /\ entry' = 0 /\ asked' = FALSE
    /\ UNCHANGED <<local, network, made, shown, loaded, faults>>

Poked == IF entry = 0 THEN task ELSE [task EXCEPT ![entry].poke = TRUE]

\* poke: one permit, kept until the loop takes it.
Poke ==
    /\ entry # 0
    /\ task' = Poked
    /\ asked' = (task[entry].pc # "over")
    /\ UNCHANGED <<local, network, entry, made, shown, loaded, faults>>

\* Mutant of SetNetwork: the loops read the flag when they come to it.
SetNetworkQuietly ==
    /\ Spend /\ network' = ~network
    /\ UNCHANGED <<local, task, entry, made, shown, loaded, asked>>

\* set_network: every change wakes the loop.
SetNetwork ==
    /\ Spend
    /\ network' = ~network
    /\ task' = Poked
    /\ UNCHANGED <<local, entry, made, shown, loaded, asked>>

\* An aborted task is dropped at its next await, its connection with it.
Dropped(t) ==
    /\ task[t].aborted /\ ~Ended(t)
    /\ Goto(t, "gone")
    /\ UNCHANGED <<local, network, entry, made, shown, loaded, asked, faults>>

----------------------------------------------------------------------------
(* supervise and run_account.                                              *)

Begins(t) ==
    /\ At(t, "await")
    /\ task[t].prev # 0 => Ended(task[t].prev)
    /\ Goto(t, "top")
    /\ UNCHANGED <<local, network, entry, made, shown, loaded, asked, faults>>

TickStart == IF local THEN "list" ELSE "look"

\* `told` moves only when the loop itself says something new.
Top(t) ==
    /\ At(t, "top")
    /\ IF network
       THEN Goto(t, TickStart) /\ UNCHANGED shown
       ELSE /\ shown' = IF task[t].told # "Offline" THEN "Offline" ELSE shown
            /\ task' = [task EXCEPT ![t].pc = "offline", ![t].told = "Offline"]
    /\ UNCHANGED <<local, network, entry, made, loaded, asked, faults>>

\* poke.notified() was answered, and the loop looks at once.
Woken(t) == [task[t] EXCEPT !.poke = FALSE, !.due = TRUE]

OfflineWakes(t) ==
    /\ At(t, "offline") /\ task[t].poke
    /\ task' = [task EXCEPT ![t] = [Woken(t) EXCEPT !.pc = TickStart]]
    /\ UNCHANGED <<local, network, entry, made, shown, loaded, asked, faults>>

\* Mutant of GiveUp: the loop ends and the sidebar does not hear of it.
GiveUpQuietly(t, state) == Goto(t, "over") /\ UNCHANGED shown

\* The loop ends, and the store keeps why.
GiveUp(t, state) == Goto(t, "over") /\ shown' = state

\* Mutant of BacksOff: the loop forgets which state it reported.
BacksOffAs(t, state) ==
    /\ shown' = state
    /\ task' = [task EXCEPT ![t].pc = "backoff", ![t].told = "Failed"]

BacksOff(t, state) ==
    /\ shown' = IF task[t].told # state THEN state ELSE shown
    /\ task' = [task EXCEPT ![t].pc = "backoff", ![t].told = state]

\* What a failed tick does: classify, and supervise for a panic.
Fail(t, kind) ==
    \/ /\ kind = "panic" /\ ~task[t].crashed
       /\ task' = [task EXCEPT ![t].pc = "crashed", ![t].crashed = TRUE]
       /\ UNCHANGED shown
    \/ kind = "panic" /\ task[t].crashed /\ GiveUp(t, "Stopped")
    \/ kind = "NeedsReauth" /\ ~Password /\ GiveUp(t, "NeedsReauth")
    \/ kind = "NeedsReauth" /\ Password /\ BacksOff(t, "BackingOff")
    \/ kind \notin {"panic", "NeedsReauth"} /\ BacksOff(t, kind)

\* A step of a tick may fail; without a network every call does.
Fails(t) ==
    \/ ~network /\ Fail(t, "Offline") /\ UNCHANGED faults
    \/ \E kind \in Failures : Fail(t, kind) /\ Spend

\* A POP3 account lists its mailboxes first, once an hour.
ListMailboxes(t) ==
    /\ At(t, "list")
    /\ \/ Goto(t, "look") /\ UNCHANGED <<shown, faults>>
       \/ Late /\ Fails(t)
    /\ UNCHANGED <<local, network, entry, made, loaded, asked>>

\* look_for_mail, when it is due. A store without a sync state loads the
\* window first, and so does one whose place the server lost.
Look(t) ==
    /\ At(t, "look")
    /\ \/ ~task[t].due /\ Goto(t, "chores") /\ UNCHANGED <<shown, asked, faults>>
       \/ /\ task[t].due
          /\ asked' = (asked /\ t # entry)
          /\ \/ (local \/ loaded) /\ Goto(t, "checking") /\ UNCHANGED <<shown, faults>>
             \/ ~local /\ Goto(t, "loading") /\ shown' = "Bootstrapping"
                /\ (IF loaded THEN Spend ELSE UNCHANGED faults)
    /\ UNCHANGED <<local, network, entry, made, loaded>>

\* The look ends, and the next one is an interval away.
Checked(t) ==
    /\ At(t, "checking")
    /\ \/ /\ network
          /\ task' = [task EXCEPT ![t].pc = "chores", ![t].due = FALSE]
          /\ UNCHANGED <<shown, faults>>
       \/ Fails(t)
    /\ UNCHANGED <<local, network, entry, made, loaded, asked>>

\* bootstrap: once the mailboxes are listed there is a sync state.
Load(t) ==
    /\ At(t, "loading")
    /\ \/ network /\ loaded' = TRUE /\ Goto(t, "paging") /\ UNCHANGED <<shown, faults>>
       \/ Fails(t) /\ UNCHANGED loaded
    /\ UNCHANGED <<local, network, entry, made, asked>>

\* Its first page, and the state it set is put back.
FirstPage(t) ==
    /\ At(t, "paging")
    /\ \/ /\ network /\ shown' = "Ok"
          /\ task' = [task EXCEPT ![t].pc = "chores", ![t].due = FALSE]
          /\ UNCHANGED faults
       \/ Fails(t)
    /\ UNCHANGED <<local, network, entry, made, loaded, asked>>

\* Mutant of ReportOk: said when the loop starts and never again.
ReportOkOnce(t) == shown' = IF task[t].told = "none" THEN "Ok" ELSE shown

ReportOk(t) == shown' = IF task[t].told # "Ok" THEN "Ok" ELSE shown

\* The rest of a tick: follow the window, prune and list when an hour is over,
\* one page of the backfill or one body. More of those make a pause.
Chores(t) ==
    /\ At(t, "chores")
    /\ \/ /\ \E label \in {"rest", "pause"} :
                /\ local => label = "rest"
                /\ task' = [task EXCEPT ![t].pc = label, ![t].told = "Ok"]
          /\ ReportOk(t)
          /\ UNCHANGED faults
       \/ Late /\ Fails(t)
    /\ UNCHANGED <<local, network, entry, made, loaded, asked>>

\* The loop sleeps until the next poll; a poke or the server's own word that
\* the Inbox changed ends the sleep.
Rest(t) ==
    /\ At(t, "rest")
    /\ \/ task[t].due /\ Goto(t, "top")
       \/ task[t].poke /\ task' = [task EXCEPT ![t] = [Woken(t) EXCEPT !.pc = "top"]]
       \/ task' = [task EXCEPT ![t].pc = "top", ![t].due = TRUE]
    /\ UNCHANGED <<local, network, entry, made, shown, loaded, asked, faults>>

Pause(t) ==
    /\ At(t, "pause")
    /\ \/ Goto(t, "top")
       \/ task[t].poke /\ task' = [task EXCEPT ![t] = [Woken(t) EXCEPT !.pc = "top"]]
    /\ UNCHANGED <<local, network, entry, made, shown, loaded, asked, faults>>

\* A poke ends the wait, and does not make the poll due.
BackOff(t) ==
    /\ At(t, "backoff")
    /\ \/ Goto(t, "top")
       \/ task[t].poke /\ task' = [task EXCEPT ![t].pc = "top", ![t].poke = FALSE]
    /\ UNCHANGED <<local, network, entry, made, shown, loaded, asked, faults>>

\* Mutant of RunAgain: a loop that crashed is not started again.
RunNever(t) == FALSE

\* run_account anew, after a pause.
RunAgain(t) ==
    /\ At(t, "crashed")
    /\ task' = [task EXCEPT ![t].pc = "top", ![t].told = "none", ![t].due = TRUE]
    /\ UNCHANGED <<local, network, entry, made, shown, loaded, asked, faults>>

\* next_poll comes.
Due(t) ==
    /\ Looping(t) /\ ~task[t].due
    /\ task' = [task EXCEPT ![t].due = TRUE]
    /\ UNCHANGED <<local, network, entry, made, shown, loaded, asked, faults>>

----------------------------------------------------------------------------
Init ==
    /\ local \in Locals /\ network \in BOOLEAN /\ loaded \in BOOLEAN
    /\ entry = 0 /\ made = 0
    /\ task = [t \in Tasks |-> Unborn]
    /\ shown \in {"Ok", "NeedsReauth", "Stopped"}
    /\ asked = FALSE /\ faults = 0

Step(t) ==
    \/ Begins(t) \/ Top(t) \/ OfflineWakes(t) \/ ListMailboxes(t) \/ Look(t)
    \/ Checked(t) \/ Load(t) \/ FirstPage(t) \/ Chores(t)
    \/ Rest(t) \/ Pause(t) \/ BackOff(t) \/ RunAgain(t)

Next ==
    \/ Start \/ Stop \/ Poke \/ SetNetwork
    \/ \E t \in Tasks : Step(t) \/ Dropped(t) \/ Due(t)

Spec == Init /\ [][Next]_vars

\* tokio runs every task that can run and drops the aborted ones, and every
\* sleep of the loop ends. Nothing is assumed of the network.
FairSpec == Spec /\ \A t \in Tasks :
    WF_vars(Step(t)) /\ WF_vars(Dropped(t)) /\ WF_vars(Due(t))

----------------------------------------------------------------------------
(* Properties.                                                             *)

\* Every variable has its type.
TypeOK ==
    /\ local \in BOOLEAN /\ network \in BOOLEAN
    /\ loaded \in BOOLEAN /\ asked \in BOOLEAN
    /\ entry \in 0..MaxTasks /\ made \in 0..MaxTasks /\ faults \in 0..MaxFaults
    /\ task \in [Tasks -> Task]
    /\ shown \in States

\* One loop at a time talks to the server for the account: a server that locks
\* the maildrop refuses a second session (start_account).
OneLoop == \A s, t \in Tasks : Looping(s) /\ Looping(t) => s = t

GivenUp == entry # 0 /\ At(entry, "over")

\* The sidebar tells how the account is: one that looked for mail and rests says
\* that it is well, and one whose loop ended says why it went quiet.
ShownTruly == entry # 0 =>
    /\ At(entry, "rest") \/ At(entry, "pause") => shown = "Ok"
    /\ At(entry, "over") => shown \in {"NeedsReauth", "Stopped"}

\* Whoever asks for a check gets one, unless the network goes, the account is
\* stopped, or its loop gave up.
AskedIsLooked == asked ~> ~asked \/ ~network \/ GivenUp

\* "A poke still sends it to Gmail once, since the app's view of the network can
\* be wrong" (set_network).
AskedOfflineIsLooked == asked ~> ~asked \/ GivenUp

\* Once the network stays, the account is well again, without anyone asking.
Recovers == <>[](network /\ entry # 0) => <>[](shown = "Ok" \/ GivenUp)

\* A poke looks now and not at the next interval: a loop that goes back to
\* sleep has looked.
PokeIsPrompt ==
    asked /\ task[entry].pc \in {"rest", "pause"} => task[entry].poke

\* What the sidebar says of an account that waits is what its loop last said.
ShownIsTold ==
    entry # 0 /\ At(entry, "backoff") => shown = task[entry].told
=============================================================================
