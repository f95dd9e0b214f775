---------------------------- MODULE EngineProofs ----------------------------
(***************************************************************************)
(* What holds of Engine for every number of starts, failures and tasks.    *)
(***************************************************************************)
EXTENDS Engine, TLAPS

----------------------------------------------------------------------------
(* The inductive invariant.                                                *)

\* What was never started, and which task is the account's.
Known ==
    /\ \A t \in Tasks : t > made => task[t].pc = "unborn"
    /\ entry <= made
    /\ entry # 0 => ~task[entry].aborted

\* Only the account's own task goes on; every other one was aborted.
Own == \A t \in Tasks : ~task[t].aborted /\ ~Ended(t) => t = entry

\* A task that waits for its turn waits for whichever loop there still is.
Heir == \A s, t \in Tasks : At(t, "await") /\ Looping(s) => s = task[t].prev

\* What the loop last reported is what is shown, except while it loads the
\* window again, or since that failed.
ToldOk == entry # 0 /\ task[entry].told = "Ok" =>
    shown = "Ok" \/ task[entry].pc \in {"loading", "paging", "crashed", "over"}

----------------------------------------------------------------------------
(* What a step of one loop does.                                           *)

\* A loop's step is its own: it moves a task that was not aborted and changes
\* neither whom the task waits for nor any other task.
Moves(t) ==
    /\ task' = [task EXCEPT ![t] = task'[t]]
    /\ task'[t] \in Task
    /\ ~task[t].aborted /\ ~task'[t].aborted
    /\ task[t].pc \notin {"unborn", "over", "gone"}
    /\ task'[t].pc \notin {"unborn", "await", "gone"}
    /\ task'[t].prev = task[t].prev
    /\ task[t].pc = "await" => task[t].prev = 0 \/ Ended(task[t].prev)
    /\ shown' \in States
    /\ faults' \in 0..MaxFaults
    /\ asked' \in BOOLEAN /\ loaded' \in BOOLEAN
    /\ UNCHANGED <<local, network, entry, made>>

\* What the step leaves the sidebar with.
Tells(t) ==
    /\ task'[t].pc \in {"rest", "pause"} =>
           /\ task'[t].told = "Ok"
           /\ shown' = IF task[t].told # "Ok" THEN "Ok" ELSE shown
           /\ task[t].pc = "chores"
    /\ task'[t].pc = "over" => shown' \in {"NeedsReauth", "Stopped"}
    /\ task'[t].told = "Ok" /\ task'[t].pc \notin {"rest", "pause"} =>
           /\ task[t].told = "Ok"
           /\ task'[t].pc \in {"loading", "paging", "crashed", "over"} \/ shown' = "Ok"
              \/ (shown' = shown /\ task[t].pc \notin {"loading", "paging", "crashed", "over"})

\* One task is written, and the others are left alone.
LEMMA OneWritten ==
  ASSUME TypeOK, NEW t \in Tasks, NEW r, task' = [task EXCEPT ![t] = r]
  PROVE  task'[t] = r /\ task' = [task EXCEPT ![t] = task'[t]]
BY DEF TypeOK

\* A failure that ends a loop says why, and one it waits out is what it tells.
LEMMA FailMoves ==
  ASSUME TypeOK, NEW t \in Tasks, NEW kind \in Kinds, Fail(t, kind),
         ~task[t].aborted, task[t].pc \notin {"unborn", "over", "gone", "await"}
  PROVE  /\ task' = [task EXCEPT ![t] = task'[t]]
         /\ task'[t] \in Task
         /\ ~task'[t].aborted
         /\ task'[t].pc \in {"crashed", "over", "backoff"}
         /\ task'[t].prev = task[t].prev
         /\ shown' \in States
         /\ task'[t].pc = "over" => shown' \in {"NeedsReauth", "Stopped"}
         /\ task'[t].told = "Ok" => task[t].told = "Ok" /\ task'[t].pc \in {"crashed", "over"}
<1> USE DEF TypeOK, Task, States, Kinds
<1>1. CASE kind = "panic" /\ ~task[t].crashed
  <2>1. task' = [task EXCEPT ![t] = [task[t] EXCEPT !.pc = "crashed", !.crashed = TRUE]]
    BY <1>1 DEF Fail
  <2>2. UNCHANGED shown
    BY <1>1 DEF Fail
  <2>3. task'[t] = [task[t] EXCEPT !.pc = "crashed", !.crashed = TRUE]
    BY <2>1, OneWritten
  <2>4. task' = [task EXCEPT ![t] = task'[t]]
    BY <2>1, OneWritten
  <2>5. task[t] \in Task
    OBVIOUS
  <2> QED
    BY <1>1, <2>2, <2>3, <2>4, <2>5
<1>2. ASSUME NEW state \in {"NeedsReauth", "Stopped"}, GiveUp(t, state)
      PROVE  /\ task' = [task EXCEPT ![t] = task'[t]]
             /\ task'[t] = [task[t] EXCEPT !.pc = "over"]
             /\ shown' \in {"NeedsReauth", "Stopped"}
  BY <1>2 DEF GiveUp, Goto
<1>3. ASSUME NEW state \in {"Offline", "BackingOff", "DownloadLimit"}, BacksOff(t, state)
      PROVE  /\ task' = [task EXCEPT ![t] = task'[t]]
             /\ task'[t] = [task[t] EXCEPT !.pc = "backoff", !.told = state]
             /\ shown' \in States
  BY <1>3 DEF BacksOff
<1>4. CASE kind = "panic" /\ task[t].crashed
  BY <1>2, <1>4 DEF Fail
<1>5. CASE kind = "NeedsReauth" /\ ~Password
  BY <1>2, <1>5 DEF Fail
<1>6. CASE kind = "NeedsReauth" /\ Password
  BY <1>3, <1>6 DEF Fail
<1>7. CASE kind \in {"Offline", "BackingOff", "DownloadLimit"}
  <2>1. BacksOff(t, kind)
    BY <1>7 DEF Fail
  <2> HIDE DEF TypeOK, Task
  <2>2. /\ task' = [task EXCEPT ![t] = task'[t]]
        /\ task'[t] = [task[t] EXCEPT !.pc = "backoff", !.told = kind]
        /\ shown' \in States
    BY <1>3, <1>7, <2>1
  <2>3. task[t] \in Task
    BY DEF TypeOK
  <2> QED
    BY <1>7, <2>2, <2>3 DEF Task
<1> QED
  BY <1>1, <1>4, <1>5, <1>6, <1>7

LEMMA FailsMoves ==
  ASSUME TypeOK, NEW t \in Tasks, Fails(t), asked' \in BOOLEAN, loaded' \in BOOLEAN,
         UNCHANGED <<local, network, entry, made>>,
         ~task[t].aborted, task[t].pc \notin {"unborn", "over", "gone", "await"}
  PROVE  Moves(t) /\ Tells(t)
<1>1. PICK kind \in Kinds : Fail(t, kind)
  BY EngineAssumption DEF Fails, Kinds
<1>2. faults' \in 0..MaxFaults
  BY EngineAssumption DEF Fails, Spend, TypeOK
<1> QED
  BY <1>1, <1>2, FailMoves DEF Moves, Tells

LEMMA StepMoves ==
  ASSUME TypeOK, NEW t \in Tasks, Step(t)
  PROVE  Moves(t) /\ Tells(t)
<1> USE DEF TypeOK, Task, States, At, Goto, Moves, Tells
<1>1. CASE Begins(t)
  BY <1>1 DEF Begins
<1>2. CASE Top(t)
  BY <1>2 DEF Top, TickStart
<1>3. CASE OfflineWakes(t)
  BY <1>3 DEF OfflineWakes, Woken, TickStart
<1>4. CASE ListMailboxes(t)
  <2>1. CASE Goto(t, "look") /\ UNCHANGED <<shown, faults>>
    BY <1>4, <2>1 DEF ListMailboxes
  <2>2. CASE Fails(t)
    BY <1>4, <2>2, FailsMoves DEF ListMailboxes
  <2> QED
    BY <1>4, <2>1, <2>2 DEF ListMailboxes
<1>5. CASE Look(t)
  BY <1>5, EngineAssumption DEF Look, Spend
<1>6. CASE Checked(t)
  <2>1. CASE Fails(t)
    BY <1>6, <2>1, FailsMoves DEF Checked
  <2> QED
    BY <1>6, <2>1 DEF Checked
<1>7. CASE Load(t)
  <2>1. CASE Fails(t)
    BY <1>7, <2>1, FailsMoves DEF Load
  <2>2. CASE Goto(t, "paging") /\ UNCHANGED <<shown, faults>> /\ loaded' = TRUE
    BY <1>7, <2>2 DEF Load
  <2> QED
    BY <1>7, <2>1, <2>2 DEF Load
<1>8. CASE FirstPage(t)
  <2>1. CASE Fails(t)
    BY <1>8, <2>1, FailsMoves DEF FirstPage
  <2> QED
    BY <1>8, <2>1 DEF FirstPage
<1>9. CASE Chores(t)
  <2>1. CASE Fails(t)
    BY <1>9, <2>1, FailsMoves DEF Chores
  <2> QED
    BY <1>9, <2>1 DEF Chores, ReportOk
<1>10. CASE Rest(t)
  <2>1. \/ task' = [task EXCEPT ![t] = [task[t] EXCEPT !.pc = "top"]]
        \/ task' = [task EXCEPT ![t] = [Woken(t) EXCEPT !.pc = "top"]]
        \/ task' = [task EXCEPT ![t] = [task[t] EXCEPT !.pc = "top", !.due = TRUE]]
    BY <1>10 DEF Rest
  <2>2. task' = [task EXCEPT ![t] = task'[t]]
    BY <2>1, OneWritten
  <2>3. \/ task'[t] = [task[t] EXCEPT !.pc = "top"]
        \/ task'[t] = [task[t] EXCEPT !.poke = FALSE, !.due = TRUE, !.pc = "top"]
        \/ task'[t] = [task[t] EXCEPT !.pc = "top", !.due = TRUE]
    BY <2>1, OneWritten DEF Woken
  <2> QED
    BY <1>10, <2>2, <2>3 DEF Rest
<1>11. CASE Pause(t)
  <2>1. \/ task' = [task EXCEPT ![t] = [task[t] EXCEPT !.pc = "top"]]
        \/ task' = [task EXCEPT ![t] = [Woken(t) EXCEPT !.pc = "top"]]
    BY <1>11 DEF Pause
  <2>2. task' = [task EXCEPT ![t] = task'[t]]
    BY <2>1, OneWritten
  <2>3. \/ task'[t] = [task[t] EXCEPT !.pc = "top"]
        \/ task'[t] = [task[t] EXCEPT !.poke = FALSE, !.due = TRUE, !.pc = "top"]
    BY <2>1, OneWritten DEF Woken
  <2>4. At(t, "pause") /\ UNCHANGED <<local, network, entry, made, shown, loaded, asked, faults>>
    BY <1>11 DEF Pause
  <2>5. CASE task'[t] = [task[t] EXCEPT !.pc = "top"]
    BY <2>2, <2>4, <2>5
  <2>6. CASE task'[t] = [task[t] EXCEPT !.poke = FALSE, !.due = TRUE, !.pc = "top"]
    BY <2>2, <2>4, <2>6
  <2> QED
    BY <2>3, <2>5, <2>6
<1>12. CASE BackOff(t)
  BY <1>12 DEF BackOff
<1>13. CASE RunAgain(t)
  <2>1. task' = [task EXCEPT ![t] = [task[t] EXCEPT
                               !.pc = "top", !.told = "none", !.due = TRUE]]
    BY <1>13 DEF RunAgain
  <2>2. task' = [task EXCEPT ![t] = task'[t]]
    BY <2>1, OneWritten
  <2>3. task'[t] = [task[t] EXCEPT !.pc = "top", !.told = "none", !.due = TRUE]
    BY <2>1, OneWritten
  <2> QED
    BY <1>13, <2>2, <2>3 DEF RunAgain
<1> QED
  BY <1>1, <1>2, <1>3, <1>4, <1>5, <1>6, <1>7, <1>8, <1>9, <1>10, <1>11, <1>12, <1>13 DEF Step

\* An aborted task that is dropped, and one whose poll is due, stay what they are.
LEMMA OtherMoves ==
  ASSUME TypeOK, NEW t \in Tasks, Dropped(t) \/ Due(t)
  PROVE  /\ task' = [task EXCEPT ![t] = task'[t]]
         /\ task'[t] \in Task
         /\ task'[t].aborted = task[t].aborted /\ task'[t].prev = task[t].prev
         /\ task'[t].told = task[t].told
         /\ task[t].pc \notin {"unborn", "over", "gone"}
         /\ \/ task'[t].pc = task[t].pc
            \/ task[t].aborted /\ task'[t].pc = "gone"
         /\ UNCHANGED <<local, network, entry, made, shown, loaded, asked, faults>>
<1> USE DEF TypeOK, Task, States, Ended, Looping
<1>1. CASE Dropped(t)
  BY <1>1 DEF Dropped, Goto
<1>2. CASE Due(t)
  BY <1>2 DEF Due
<1> QED
  BY <1>1, <1>2

----------------------------------------------------------------------------
(* The engine's own operations.                                            *)

\* A poke leaves each task where it is.
LEMMA PokedSame ==
  ASSUME TypeOK, task' = Poked
  PROVE  /\ task' \in [Tasks -> Task]
         /\ \A t \in Tasks : /\ task'[t].pc = task[t].pc
                             /\ task'[t].aborted = task[t].aborted
                             /\ task'[t].prev = task[t].prev
                             /\ task'[t].told = task[t].told
<1>1. entry # 0 => entry \in Tasks
  BY EngineAssumption DEF TypeOK, Tasks
<1>2. entry # 0 => task' = [task EXCEPT ![entry] = [task[entry] EXCEPT !.poke = TRUE]]
  BY DEF Poked
<1>3. entry # 0 => [task[entry] EXCEPT !.poke = TRUE] \in Task
  BY <1>1 DEF TypeOK, Task
<1>4. task \in [Tasks -> Task]
  BY DEF TypeOK
<1>5. CASE entry = 0
  BY <1>4, <1>5 DEF Poked
<1>6. CASE entry # 0
  <2>1. task' \in [Tasks -> Task]
    BY <1>1, <1>2, <1>3, <1>4, <1>6
  <2>2. task'[entry] = [task[entry] EXCEPT !.poke = TRUE]
    BY <1>1, <1>2, <1>4, <1>6
  <2>3. \A t \in Tasks \ {entry} : task'[t] = task[t]
    BY <1>1, <1>2, <1>4, <1>6
  <2>4. task[entry] \in Task
    BY <1>1, <1>4, <1>6
  <2>5. /\ task'[entry].pc = task[entry].pc /\ task'[entry].aborted = task[entry].aborted
        /\ task'[entry].prev = task[entry].prev /\ task'[entry].told = task[entry].told
    BY <2>2, <2>4 DEF Task
  <2> QED
    BY <2>1, <2>3, <2>5
<1> QED
  BY <1>5, <1>6

\* What start_account does to the tasks.
LEMMA Started ==
  ASSUME TypeOK, Start
  PROVE  /\ made + 1 \in Tasks /\ made' = made + 1 /\ entry' = made + 1
         /\ task'[made + 1] = [Unborn EXCEPT !.pc = "await", !.prev = entry, !.due = TRUE]
         /\ \A t \in Tasks \ {made + 1} :
               task'[t] = IF t = entry THEN [task[t] EXCEPT !.aborted = TRUE] ELSE task[t]
         /\ task' \in [Tasks -> Task]
<1>1. made + 1 \in Tasks
  BY EngineAssumption DEF TypeOK, Start, Tasks
<1>2. [Unborn EXCEPT !.pc = "await", !.prev = entry, !.due = TRUE] \in Task
  BY DEF TypeOK, Unborn, Task
<1>3. task' = [t \in Tasks |->
             IF t = made + 1 THEN [Unborn EXCEPT !.pc = "await", !.prev = entry, !.due = TRUE]
             ELSE IF t = entry THEN [task[t] EXCEPT !.aborted = TRUE] ELSE task[t]]
  BY DEF Start, Waits
<1>4. \A t \in Tasks : [task[t] EXCEPT !.aborted = TRUE] \in Task
  BY DEF TypeOK, Task
<1>5. task' \in [Tasks -> Task]
  BY <1>2, <1>3, <1>4 DEF TypeOK
<1> QED
  BY <1>1, <1>3, <1>5 DEF Start

\* What stop_account does to them.
LEMMA Stopped ==
  ASSUME TypeOK, Stop
  PROVE  /\ task' \in [Tasks -> Task]
         /\ \A t \in Tasks : /\ task'[t].pc = task[t].pc
                             /\ task'[t].prev = task[t].prev
                             /\ task'[t].aborted = (task[t].aborted \/ t = entry)
<1>1. entry \in Tasks
  BY EngineAssumption DEF TypeOK, Tasks, Stop
<1>2. task' = [task EXCEPT ![entry] = [task[entry] EXCEPT !.aborted = TRUE]]
  BY DEF Stop
<1>3. [task[entry] EXCEPT !.aborted = TRUE] \in Task
  BY <1>1 DEF TypeOK, Task
<1>4. task \in [Tasks -> Task]
  BY DEF TypeOK
<1>5. \A t \in Tasks : task[t].aborted \in BOOLEAN
  BY <1>4 DEF Task
<1>6. task' \in [Tasks -> Task]
  BY <1>2, <1>3, <1>4
<1>7. task'[entry] = [task[entry] EXCEPT !.aborted = TRUE]
  BY <1>1, <1>2, <1>4
<1>8. \A t \in Tasks \ {entry} : task'[t] = task[t]
  BY <1>1, <1>2, <1>4
<1> QED
  BY <1>1, <1>4, <1>5, <1>6, <1>7, <1>8 DEF Task

----------------------------------------------------------------------------
(* The invariants that every engine keeps, however it is started.          *)

Base == TypeOK /\ Known /\ Own

LEMMA InitBase == Init => Base /\ ToldOk /\ ShownTruly /\ Heir /\ OneLoop
<1> SUFFICES ASSUME Init PROVE Base /\ ToldOk /\ ShownTruly /\ Heir /\ OneLoop
  OBVIOUS
<1>1. Unborn \in Task
  BY EngineAssumption DEF Unborn, Task
<1>2. TypeOK
  <2>1. task \in [Tasks -> Task]
    BY <1>1 DEF Init
  <2>2. entry \in 0..MaxTasks /\ made \in 0..MaxTasks /\ faults \in 0..MaxFaults
    BY EngineAssumption DEF Init
  <2>3. local \in BOOLEAN /\ network \in BOOLEAN /\ loaded \in BOOLEAN /\ asked \in BOOLEAN
    BY EngineAssumption DEF Init
  <2> QED
    BY <2>1, <2>2, <2>3 DEF Init, TypeOK, States
<1>3. \A t \in Tasks : task[t].pc = "unborn"
  BY DEF Init, Unborn
<1> QED
  BY <1>2, <1>3, EngineAssumption
  DEF Init, Base, Known, Own, ToldOk, ShownTruly, Heir, OneLoop, Ended, Looping, At

LEMMA NextBase == Base /\ [Next]_vars => Base'
<1> SUFFICES ASSUME Base, [Next]_vars PROVE Base'
  OBVIOUS
<1> USE DEF Base
<1>a. EngineAssumption /\ Tasks = 1..MaxTasks /\ (entry # 0 => entry \in Tasks)
  BY EngineAssumption DEF TypeOK, Tasks
<1>1. CASE Start
  <2>1. made + 1 \in 0..MaxTasks /\ made \in Nat
    BY <1>1, <1>a, Started DEF TypeOK
  <2>2. TypeOK'
    BY <1>1, <2>1, Started DEF TypeOK, Start
  <2>3. /\ task'[made + 1].pc = "await" /\ ~task'[made + 1].aborted
    BY <1>1, Started DEF Unborn
  <2>4. \A t \in Tasks \ {made + 1} :
           /\ task'[t].pc = task[t].pc
           /\ task'[t].aborted = (task[t].aborted \/ t = entry)
    <3>1. \A t \in Tasks : task[t] \in Task
      BY DEF TypeOK
    <3>2. \A t \in Tasks : [task[t] EXCEPT !.aborted = TRUE].pc = task[t].pc
                       /\ [task[t] EXCEPT !.aborted = TRUE].aborted = TRUE
      BY <3>1 DEF Task
    <3>3. \A t \in Tasks : task[t].aborted \in BOOLEAN
      BY <3>1 DEF Task
    <3> QED
      BY <1>1, <3>2, <3>3, Started
  <2>5. \A t \in Tasks : t > made + 1 => t > made /\ t # made + 1
    BY <1>a, <2>1
  <2>6. Known'
    BY <1>1, <2>1, <2>3, <2>4, <2>5, Started DEF Known
  <2>7. Own'
    BY <1>1, <2>3, <2>4, Started DEF Own, Ended
  <2> QED
    BY <2>2, <2>6, <2>7
<1>2. CASE Stop
  <2>1. TypeOK'
    <3>1. task' \in [Tasks -> Task]
      BY <1>2, Stopped
    <3>2. entry' = 0 /\ asked' = FALSE /\ UNCHANGED <<local, network, made, shown, loaded, faults>>
      BY <1>2 DEF Stop
    <3>3. 0 \in 0..MaxTasks
      BY EngineAssumption
    <3> QED
      BY <3>1, <3>2, <3>3 DEF TypeOK
  <2>2. Known' /\ Own'
    BY <1>2, <1>a, Stopped DEF Known, Own, Ended, Stop, TypeOK
  <2> QED
    BY <2>1, <2>2
<1>3. CASE Poke \/ SetNetwork
  <2>1. task' = Poked
    BY <1>3 DEF Poke, SetNetwork
  <2>2. TypeOK'
    <3>1. task' \in [Tasks -> Task]
      BY <2>1, PokedSame
    <3>2. /\ asked' \in BOOLEAN /\ network' \in BOOLEAN
          /\ UNCHANGED <<local, entry, made, shown, loaded>>
      BY <1>3 DEF TypeOK, Poke, SetNetwork
    <3>3. faults' \in 0..MaxFaults
      BY <1>3, <1>a, EngineAssumption DEF TypeOK, Poke, SetNetwork, Spend
    <3> QED
      BY <3>1, <3>2, <3>3 DEF TypeOK
  <2>3. Known' /\ Own'
    BY <1>3, <1>a, <2>1, PokedSame DEF Known, Own, Ended, Poke, SetNetwork, TypeOK
  <2> QED
    BY <2>2, <2>3
<1>4. ASSUME NEW t \in Tasks, Step(t) PROVE Base'
  <2>1. Moves(t)
    BY <1>4, StepMoves
  <2>2. TypeOK'
    BY <2>1 DEF Moves, TypeOK
  <2>3. t = entry
    BY <2>1 DEF Moves, Own, Ended
  <2>4. \A s \in Tasks \ {t} : task'[s] = task[s]
    BY <2>1 DEF Moves, TypeOK
  <2>5. Known' /\ Own'
    BY <2>1, <2>3, <2>4, <1>a DEF Moves, Known, Own, Ended, TypeOK
  <2> QED
    BY <2>2, <2>5
<1>5. ASSUME NEW t \in Tasks, Dropped(t) \/ Due(t) PROVE Base'
  <2>1. TypeOK'
    BY <1>5, OtherMoves DEF TypeOK
  <2>2. \A s \in Tasks \ {t} : task'[s] = task[s]
    BY <1>5, OtherMoves DEF TypeOK
  <2>3. Known' /\ Own'
    BY <1>5, <2>2, <1>a, OtherMoves DEF Known, Own, Ended, TypeOK
  <2> QED
    BY <2>1, <2>3
<1>6. CASE UNCHANGED vars
  BY <1>6 DEF vars, TypeOK, Known, Own, Ended
<1> QED
  BY <1>1, <1>2, <1>3, <1>4, <1>5, <1>6 DEF Next

\* The engine's state has its type at every step, for every number of starts.
THEOREM EngineTyped == Spec => []TypeOK
<1>1. Init => Base
  BY InitBase
<1>2. Base /\ [Next]_vars => Base'
  BY NextBase
<1>3. Base => TypeOK
  BY DEF Base
<1> QED
  BY <1>1, <1>2, <1>3, PTL DEF Spec

----------------------------------------------------------------------------
(* One loop at a time.                                                     *)

LoopInv == Base /\ Heir /\ OneLoop

\* A step that leaves each task looping or not, or ends it, keeps one loop.
LEMMA QuietLoops ==
  ASSUME LoopInv, \A t \in Tasks : /\ Looping(t)' => Looping(t)
                                   /\ At(t, "await")' => At(t, "await")
                                   /\ task'[t].prev = task[t].prev
  PROVE  Heir' /\ OneLoop'
<1>1. OneLoop'
  BY DEF LoopInv, OneLoop
<1>2. Heir'
  BY DEF LoopInv, Heir
<1> QED
  BY <1>1, <1>2

LEMMA NextLoop == ~Hasty /\ LoopInv /\ [Next]_vars => Heir' /\ OneLoop'
<1> SUFFICES ASSUME ~Hasty, LoopInv, [Next]_vars PROVE Heir' /\ OneLoop'
  OBVIOUS
<1>a. Base /\ TypeOK /\ Own /\ Heir /\ OneLoop
  BY DEF LoopInv, Base
<1>1. CASE Start
  <2>1. /\ \A t \in Tasks : Looping(t) => t = entry /\ ~task[t].aborted
        /\ entry # 0 => task[entry].pc # "await"
    BY <1>1 DEF Start
  <2>2. /\ task'[made + 1].pc = "await" /\ task'[made + 1].prev = entry
        /\ made + 1 \in Tasks
    BY <1>1, <1>a, Started DEF Unborn
  <2>3. \A t \in Tasks \ {made + 1} :
           /\ task'[t].pc = task[t].pc /\ task'[t].prev = task[t].prev
           /\ task'[t].aborted = (task[t].aborted \/ t = entry)
    <3>1. \A t \in Tasks : task[t].aborted \in BOOLEAN
               /\ [task[t] EXCEPT !.aborted = TRUE].pc = task[t].pc
               /\ [task[t] EXCEPT !.aborted = TRUE].prev = task[t].prev
               /\ [task[t] EXCEPT !.aborted = TRUE].aborted = TRUE
      BY <1>a DEF TypeOK, Task
    <3> QED
      BY <1>1, <1>a, <3>1, Started
  <2>4. \A t \in Tasks : Looping(t)' => t # made + 1
    BY <2>2 DEF Looping
  <2>5. \A t \in Tasks : Looping(t)' => t = entry
    BY <2>1, <2>3, <2>4 DEF Looping, Ended
  <2>6. OneLoop'
    BY <2>5 DEF OneLoop
  <2>7. \A t \in Tasks : At(t, "await")' => t = made + 1
    BY <1>a, <2>3 DEF At, Own, Ended
  <2>8. Heir'
    BY <2>2, <2>5, <2>7 DEF Heir
  <2> QED
    BY <2>6, <2>8
<1>2. CASE Stop
  BY <1>2, <1>a, Stopped, QuietLoops DEF Looping, Ended, At
<1>3. CASE Poke \/ SetNetwork
  <2>1. task' = Poked
    BY <1>3 DEF Poke, SetNetwork
  <2> QED
    BY <1>a, <2>1, PokedSame, QuietLoops DEF Looping, Ended, At
<1>4. ASSUME NEW t \in Tasks, Step(t) PROVE Heir' /\ OneLoop'
  <2>1. Moves(t)
    BY <1>4, <1>a, StepMoves
  <2>2. t = entry
    BY <1>a, <2>1 DEF Moves, Own, Ended
  <2>3. \A s \in Tasks \ {t} : task'[s] = task[s]
    BY <1>a, <2>1 DEF Moves, TypeOK
  <2>4. \A s \in Tasks : ~At(s, "await")'
    BY <1>a, <2>1, <2>2, <2>3 DEF At, Own, Ended, Moves
  <2>5. Heir'
    BY <2>4 DEF Heir
  <2>6. CASE task[t].pc = "await"
    <3>1. task[t].prev = 0 \/ Ended(task[t].prev)
      BY <2>1, <2>6 DEF Moves
    <3>2. At(t, "await")
      BY <2>1, <2>6 DEF Moves, At
    <3>3. \A s \in Tasks : ~Looping(s)
      BY <1>a, <3>1, <3>2, EngineAssumption DEF Heir, Looping, Tasks
    <3>4. \A s \in Tasks : Looping(s)' => s = t
      BY <2>3, <3>3 DEF Looping, Ended
    <3> QED
      BY <2>5, <3>4 DEF OneLoop
  <2>7. CASE task[t].pc # "await"
    <3>1. Looping(t)
      BY <2>1, <2>7 DEF Looping, Ended, Moves
    <3>2. \A s \in Tasks : Looping(s)' => Looping(s)
      BY <2>3, <3>1 DEF Looping, Ended
    <3> QED
      BY <1>a, <2>5, <3>2 DEF OneLoop
  <2> QED
    BY <2>6, <2>7
<1>5. ASSUME NEW t \in Tasks, Dropped(t) \/ Due(t) PROVE Heir' /\ OneLoop'
  <2>1. \A s \in Tasks \ {t} : task'[s] = task[s]
    BY <1>5, <1>a, OtherMoves DEF TypeOK
  <2> QED
    BY <1>5, <1>a, <2>1, OtherMoves, QuietLoops DEF Looping, Ended, At
<1>6. CASE UNCHANGED vars
  BY <1>6, <1>a, QuietLoops DEF vars, Looping, Ended, At
<1> QED
  BY <1>1, <1>2, <1>3, <1>4, <1>5, <1>6 DEF Next

\* Where an account is started again only once its old loop has wound up, one
\* loop at a time talks to the server: a new one waits for the one it replaces.
THEOREM OneLoopHolds ==
  ASSUME ~Hasty PROVE Spec => []OneLoop
<1>1. Init => LoopInv
  BY InitBase DEF LoopInv
<1>2. LoopInv /\ [Next]_vars => LoopInv'
  BY NextBase, NextLoop DEF LoopInv
<1>3. LoopInv => OneLoop
  BY DEF LoopInv
<1> QED
  BY <1>1, <1>2, <1>3, PTL DEF Spec

----------------------------------------------------------------------------
(* What the sidebar shows.                                                 *)

ShownInv == Base /\ ToldOk /\ ShownTruly

\* A step that leaves the account's task as it is, or replaces it by one that
\* has not begun, leaves what is shown true.
LEMMA QuietShows ==
  ASSUME ShownInv, UNCHANGED <<entry, shown>>,
         \A t \in Tasks : ~task[t].aborted => /\ task'[t].pc = task[t].pc
                                              /\ task'[t].told = task[t].told
  PROVE  ToldOk' /\ ShownTruly'
<1>1. entry # 0 => entry \in Tasks /\ ~task[entry].aborted
  BY EngineAssumption DEF ShownInv, Base, TypeOK, Known, Tasks
<1>2. entry # 0 => task'[entry].pc = task[entry].pc /\ task'[entry].told = task[entry].told
  BY <1>1
<1> QED
  BY <1>1, <1>2 DEF ShownInv, ToldOk, ShownTruly, At

LEMMA NextShown == ShownInv /\ [Next]_vars => ToldOk' /\ ShownTruly'
<1> SUFFICES ASSUME ShownInv, [Next]_vars PROVE ToldOk' /\ ShownTruly'
  OBVIOUS
<1>a. Base /\ TypeOK /\ Known /\ Own /\ ToldOk /\ ShownTruly
  BY DEF ShownInv, Base
<1>1. CASE Start
  BY <1>1, <1>a, Started DEF ToldOk, ShownTruly, At, Unborn
<1>2. CASE Stop
  BY <1>2 DEF Stop, ToldOk, ShownTruly
<1>3. CASE Poke \/ SetNetwork
  <2>1. task' = Poked /\ UNCHANGED <<entry, shown>>
    BY <1>3 DEF Poke, SetNetwork
  <2> QED
    BY <1>a, <2>1, PokedSame, QuietShows
<1>4. ASSUME NEW t \in Tasks, Step(t) PROVE ToldOk' /\ ShownTruly'
  <2>1. Moves(t) /\ Tells(t)
    BY <1>4, <1>a, StepMoves
  <2>2. t = entry /\ entry' = entry /\ entry # 0
    BY <1>a, <2>1, EngineAssumption DEF Moves, Own, Ended, Tasks
  <2>3. ToldOk'
    BY <1>a, <2>1, <2>2 DEF Tells, ToldOk
  <2>4. ShownTruly'
    BY <1>a, <2>1, <2>2 DEF Tells, ShownTruly, ToldOk, At
  <2> QED
    BY <2>3, <2>4
<1>5. ASSUME NEW t \in Tasks, Dropped(t) \/ Due(t) PROVE ToldOk' /\ ShownTruly'
  <2>1. \A s \in Tasks \ {t} : task'[s] = task[s]
    BY <1>5, <1>a, OtherMoves DEF TypeOK
  <2> QED
    BY <1>5, <1>a, <2>1, OtherMoves, QuietShows
<1>6. CASE UNCHANGED vars
  BY <1>6, QuietShows DEF vars
<1> QED
  BY <1>1, <1>2, <1>3, <1>4, <1>5, <1>6 DEF Next

\* The sidebar tells how the account is, however it fails, is stopped, started
\* and poked.
THEOREM ShownTrulyHolds == Spec => []ShownTruly
<1>1. Init => ShownInv
  BY InitBase DEF ShownInv
<1>2. ShownInv /\ [Next]_vars => ShownInv'
  BY NextBase, NextShown DEF ShownInv
<1>3. ShownInv => ShownTruly
  BY DEF ShownInv
<1> QED
  BY <1>1, <1>2, <1>3, PTL DEF Spec
=============================================================================
