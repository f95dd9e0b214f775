-------------------------- MODULE SendLaterProofs ---------------------------
(***************************************************************************)
(* Types, and what the server will still send shows in Drafts, for every   *)
(* number of people, copies and faults: first the types, one variable group*)
(* and one step at a time, then whose copy may be destroyed (HoldInv).     *)
(***************************************************************************)
EXTENDS SendLater, TLAPS

----------------------------------------------------------------------------
(* Types.                                                                  *)

Places == {"unmade", "draft", "held", "sent", "gone"}
Standings == {"none", "pending", "final", "canceled", "theirs"}

ServerOK ==
    /\ place \in [Copies -> Places] /\ subs \in [Copies -> Standings]
    /\ hour \in [Copies -> Time] /\ born \in [Copies -> Time]
    /\ inSent \in BOOLEAN /\ delivered \in 0..2
PersonOK ==
    /\ composer \in {Closed} \cup 0..MaxCopies
    /\ intent \in {"none", "send", "edit", "cancel", "delete", "drop"}
    /\ answer \in {"none", "waiting", "refused"}
    /\ moving \subseteq Copies \X Copies
StoreOK == row \in Row \cup {NoRow} /\ claim \in Time \cup {Free}
TaskOK == task \in [Callers -> Task]
RestOK == now \in Time /\ faults \in 0..MaxFaults /\ told \in BOOLEAN

Parts == StoreOK /\ TaskOK /\ ServerOK /\ PersonOK /\ RestOK

LEMMA TypeParts == TypeOK <=> StoreOK /\ TaskOK /\ ServerOK /\ PersonOK /\ RestOK
BY DEF TypeOK, StoreOK, TaskOK, ServerOK, PersonOK, RestOK, Places, Standings

LEMMA CallerType ==
  ASSUME TaskOK, NEW c \in Callers
  PROVE  /\ task[c] \in Task /\ Msg(c) \in Row /\ Job(c) \in Work
         /\ task[c].got \in 0..MaxCopies /\ task[c].want \in Time /\ task[c].pc \in Labels
BY DEF TaskOK, Task, Msg, Job

LEMMA SpendType == ASSUME RestOK, NEW f, Spend(f) PROVE faults' \in 0..MaxFaults
BY SendLaterAssumption DEF RestOK, Spend

LEMMA ZeroTime == 0 \in Time
BY SendLaterAssumption DEF Time

LEMMA PlainType == ASSUME NEW a \in Time, NEW k \in 0..MaxCopies PROVE Plain(a, k) \in Row
BY SendLaterAssumption DEF Plain, Row, Time, Problems

LEMMA UnheldType == ASSUME NEW m \in Row PROVE Unheld(m) \in Row
BY ZeroTime DEF Unheld, Row

LEMMA MarkedType == ASSUME NEW m \in Row, NEW t \in Time PROVE Marked(m, t) \in Row
BY SendLaterAssumption DEF Marked, Row, Time

LEMMA AdoptedType == ASSUME NEW m \in Row, NEW k \in 0..MaxCopies PROVE Adopted(m, k) \in Row
BY ZeroTime DEF Adopted, Row

LEMMA RowWith ==
  ASSUME NEW m \in Row
  PROVE  /\ \A k \in 0..MaxCopies : [m EXCEPT !.copy = k] \in Row
         /\ \A b \in BOOLEAN : [m EXCEPT !.raw = b] \in Row
         /\ [m EXCEPT !.tried = TRUE] \in Row
         /\ \A p \in Problems : [m EXCEPT !.problem = p] \in Row
         /\ \A t \in Time : [m EXCEPT !.at = t] \in Row
BY DEF Row

LEMMA DestroyedType ==
  ASSUME place \in [Copies -> Places], NEW k \in 0..MaxCopies
  PROVE  Destroyed(k) \in [Copies -> Places]
BY DEF Destroyed, Copies, Places

LEMMA FiledType ==
  ASSUME place \in [Copies -> Places], NEW k \in Copies
  PROVE  Filed(k) \in [Copies -> Places] /\ TakenOff(k) \in [Copies -> Places]
BY DEF Filed, TakenOff, Places

LEMMA StartType ==
  ASSUME TaskOK, NEW c \in Callers, NEW l \in Labels, NEW j \in Work, NEW m \in Row,
         NEW w \in Time, Start(c, l, j, m, w)
  PROVE  TaskOK'
BY SendLaterAssumption DEF TaskOK, Start, Task

LEMMA GotoType ==
  ASSUME TaskOK, NEW c \in Callers, NEW l \in Labels, Goto(c, l)
  PROVE  TaskOK'
BY DEF TaskOK, Goto, Task

LEMMA CarryType ==
  ASSUME TaskOK, NEW c \in Callers, NEW l \in Labels, NEW m \in Row, Carry(c, m, l)
  PROVE  TaskOK'
BY DEF TaskOK, Carry, Task

LEMMA IdleType == Idle \in Task
BY PlainType, SendLaterAssumption DEF Idle, Task, Labels, Work, Time

LEMMA DoneType ==
  ASSUME TaskOK, NEW c \in Callers, Done(c)
  PROVE  TaskOK'
BY IdleType DEF TaskOK, Done

LEMMA WriteType ==
  ASSUME NEW m \in Row \cup {NoRow}, Write(m)
  PROVE  StoreOK'
BY DEF StoreOK, Write

LEMMA LetGoType ==
  ASSUME StoreOK, TaskOK, NEW c \in Callers, LetGo(c)
  PROVE  StoreOK' /\ TaskOK'
BY DoneType DEF StoreOK, LetGo

LEMMA MakeHoldType ==
  ASSUME ServerOK, now \in Time, NEW k \in Copies, NEW a \in Time, MakeHold(k, a)
  PROVE  ServerOK'
BY DEF ServerOK, MakeHold, Places, Standings

LEMMA SaveOverType ==
  ASSUME ServerOK, NEW k \in Copies, NEW o \in 0..MaxCopies, SaveOver(k, o)
  PROVE  ServerOK'
BY DestroyedType DEF ServerOK, SaveOver, Places

----------------------------------------------------------------------------
(* Every step of a caller keeps the types.                                 *)

LEMMA TakesLabels == \A m \in Row : Route(m) \in Labels
BY DEF Route, Labels

LEMMA TakeNamedType ==
  ASSUME Parts, NEW c \in Callers, TakeNamed(c)
  PROVE  Parts'
<1>1. /\ task[c] \in Task /\ Msg(c) \in Row
  BY CallerType DEF Parts
<1>2. StoreOK'
  BY DEF TakeNamed, Done, Goto, Carry, Parts, StoreOK, RestOK, store, Claimable
<1>3. TaskOK'
  <2>1. CASE Job(c) = "drop" /\ Msg(c).hold = "none"
    BY <2>1, GotoType DEF TakeNamed, Parts, Labels
  <2>2. CASE ~(Job(c) = "drop" /\ Msg(c).hold = "none") /\ Claimable
    <3> DEFINE held == Msg(c).hold # "none"
               m == IF Job(c) = "sendNow" THEN Msg(c) ELSE row
               label == CASE held -> IF m.hold = "mark" THEN "look" ELSE "ask"
                      [] ~held /\ Job(c) = "sendNow" -> "try"
                      [] ~held /\ Job(c) # "sendNow" /\ m.copy = 0 -> "saving"
                      [] OTHER -> "remove"
    <3>1. Carry(c, m, label)
      BY <2>2 DEF TakeNamed
    <3>2. m \in Row
      BY <1>1, <2>2 DEF Claimable, Parts, StoreOK
    <3>3. label \in Labels
      BY DEF Labels
    <3> QED
      BY <3>1, <3>2, <3>3, CarryType DEF Parts
  <2>3. CASE ~(Job(c) = "drop" /\ Msg(c).hold = "none") /\ ~Claimable
    BY <2>3, DoneType DEF TakeNamed, Parts
  <2> QED
    BY <2>1, <2>2, <2>3
<1>4. ServerOK' /\ PersonOK' /\ RestOK'
  BY DEF TakeNamed, Parts, ServerOK, PersonOK, RestOK, server, person
<1> QED
  BY <1>2, <1>3, <1>4 DEF Parts

LEMMA HandOverType ==
  ASSUME Parts, NEW c \in Callers, HandOver(c)
  PROVE  Parts'
<1>1. /\ task[c] \in Task /\ Msg(c) \in Row /\ Msg(c).at \in Time
  BY CallerType DEF Parts, Row
<1>2. Unheld(Msg(c)) \in Row /\ (now \in Time => Marked(Msg(c), now) \in Row)
  BY <1>1, UnheldType, MarkedType
<1> DEFINE kept == /\ Carry(c, Unheld(Msg(c)), IF Job(c) = "schedule" THEN "saving" ELSE "put")
                   /\ UNCHANGED server
           hold == \E k \in Copies : /\ MakeHold(k, Msg(c).at)
                                     /\ task' = [task EXCEPT ![c].got = k, ![c].pc = "holding"]
           lost == /\ UNCHANGED server \/ \E k \in Copies : MakeHold(k, Msg(c).at)
                   /\ Carry(c, Marked(Msg(c), now), "put")
<1>3. StoreOK' /\ PersonOK' /\ RestOK'
  BY SpendType DEF HandOver, Parts, StoreOK, PersonOK, RestOK, store, person
<1>4. kept => TaskOK' /\ ServerOK'
  BY <1>2, CarryType DEF Parts, Labels, ServerOK, server
<1>5. hold => TaskOK' /\ ServerOK'
  <2> SUFFICES ASSUME NEW k \in Copies, MakeHold(k, Msg(c).at),
                      task' = [task EXCEPT ![c].got = k, ![c].pc = "holding"]
               PROVE  TaskOK' /\ ServerOK'
    OBVIOUS
  <2>1. ServerOK'
    BY <1>1, MakeHoldType DEF Parts, RestOK
  <2>2. [task[c] EXCEPT !.got = k, !.pc = "holding"] \in Task
    <3>1. k \in 0..MaxCopies
      BY SendLaterAssumption DEF Copies
    <3> QED
      BY <1>1, <3>1 DEF Task, Labels
  <2>3. task' = [task EXCEPT ![c] = [task[c] EXCEPT !.got = k, !.pc = "holding"]]
    BY DEF Parts, TaskOK
  <2>4. TaskOK'
    BY <2>2, <2>3 DEF Parts, TaskOK
  <2> QED
    BY <2>1, <2>4
<1>6. lost => TaskOK' /\ ServerOK'
  <2>1. (UNCHANGED server \/ \E k \in Copies : MakeHold(k, Msg(c).at)) => ServerOK'
    BY <1>1, MakeHoldType DEF Parts, RestOK, ServerOK, server
  <2> QED
    BY <1>2, <2>1, CarryType DEF Parts, Labels, RestOK
<1>7. kept \/ hold \/ lost
  BY DEF HandOver
<1> QED
  BY <1>3, <1>4, <1>5, <1>6, <1>7 DEF Parts

LEMMA TakeHoldType ==
  ASSUME Parts, NEW c \in Callers, TakeHold(c)
  PROVE  Parts'
<1> DEFINE m == Msg(c)
           old == IF Job(c) = "drop" \/ m.copy = task[c].got THEN 0 ELSE m.copy
           label == IF At(c, "holding") \/ Job(c) = "pass" THEN "put" ELSE "ask"
<1>1. m \in Row /\ m.copy \in 0..MaxCopies /\ task[c].got \in 0..MaxCopies
  BY CallerType DEF Parts, Row
<1>2. old \in 0..MaxCopies
  BY <1>1, SendLaterAssumption
<1>3. Adopted(m, task[c].got) \in Row
  BY <1>1, AdoptedType
<1>4. TaskOK'
  <2>1. Carry(c, Adopted(m, task[c].got), label) /\ label \in Labels
    BY DEF TakeHold, Labels
  <2> QED
    BY <1>3, <2>1, CarryType DEF Parts
<1>5. place' \in [Copies -> Places]
  BY <1>2, DestroyedType DEF TakeHold, Parts, ServerOK
<1>6. ServerOK'
  BY <1>5 DEF TakeHold, Parts, ServerOK
<1>7. StoreOK' /\ PersonOK' /\ RestOK'
  BY SpendType DEF TakeHold, Parts, StoreOK, PersonOK, RestOK, store, person
<1> QED
  BY <1>4, <1>6, <1>7 DEF Parts

LEMMA PutRowType ==
  ASSUME Parts, NEW c \in Callers, PutRow(c)
  PROVE  Parts'
<1>1. Msg(c) \in Row /\ Msg(c).copy \in 0..MaxCopies
  BY CallerType DEF Parts, Row
<1>2. StoreOK' /\ TaskOK'
  BY <1>1, WriteType, DoneType DEF PutRow, Parts
<1>3. PersonOK'
  BY <1>1 DEF PutRow, Parts, PersonOK
<1>4. ServerOK' /\ RestOK'
  BY DEF PutRow, Parts, ServerOK, RestOK, server
<1> QED
  BY <1>2, <1>3, <1>4 DEF Parts

LEMMA SaveScheduledType ==
  ASSUME Parts, NEW c \in Callers, SaveScheduled(c)
  PROVE  Parts'
<1>1. Msg(c) \in Row /\ Msg(c).copy \in 0..MaxCopies
  BY CallerType DEF Parts, Row
<1>2. \A k \in Copies : [Msg(c) EXCEPT !.copy = k, !.raw = FALSE] \in Row
  <2> SUFFICES ASSUME NEW k \in Copies PROVE [Msg(c) EXCEPT !.copy = k, !.raw = FALSE] \in Row
    OBVIOUS
  <2>1. k \in 0..MaxCopies
    BY SendLaterAssumption DEF Copies
  <2> QED
    BY <1>1, <2>1 DEF Row
<1>3. TaskOK'
  <2>1. ASSUME NEW k \in Copies, Carry(c, [Msg(c) EXCEPT !.copy = k, !.raw = FALSE], "put") PROVE TaskOK'
    BY <1>2, <2>1, CarryType DEF Parts, Labels
  <2>2. Goto(c, "put") \/ Goto(c, "refused") => TaskOK'
    BY GotoType DEF Parts, Labels
  <2> QED
    BY <2>1, <2>2 DEF SaveScheduled
<1>4. ServerOK'
  <2>1. ASSUME NEW k \in Copies, SaveOver(k, Msg(c).copy) PROVE ServerOK'
    BY <1>1, <2>1, SaveOverType DEF Parts
  <2> QED
    BY <2>1 DEF SaveScheduled, Parts, ServerOK, server
<1>5. StoreOK' /\ PersonOK' /\ RestOK'
  BY SpendType DEF SaveScheduled, Parts, StoreOK, PersonOK, RestOK, store, person
<1> QED
  BY <1>3, <1>4, <1>5 DEF Parts

LEMMA ScheduleRefusedType ==
  ASSUME Parts, NEW c \in Callers, ScheduleRefused(c)
  PROVE  Parts'
<1>1. Msg(c).copy \in 0..MaxCopies
  BY CallerType DEF Parts, Row
<1>2. StoreOK' /\ TaskOK'
  BY WriteType, DoneType DEF ScheduleRefused, Parts
<1>3. PersonOK' /\ ServerOK' /\ RestOK'
  BY <1>1 DEF ScheduleRefused, Parts, PersonOK, ServerOK, RestOK, server
<1> QED
  BY <1>2, <1>3 DEF Parts

LEMMA PassDueType ==
  ASSUME Parts, NEW c \in Callers, PassDue(c)
  PROVE  Parts'
<1>1. StoreOK' /\ TaskOK'
  <2>1. Goto(c, "try") => TaskOK'
    BY GotoType DEF Parts, Labels
  <2> QED
    BY <2>1, LetGoType DEF PassDue, Parts, StoreOK, store
<1>2. PersonOK' /\ ServerOK' /\ RestOK'
  BY DEF PassDue, Parts, PersonOK, ServerOK, RestOK, server, person
<1> QED
  BY <1>1, <1>2 DEF Parts

LEMMA PassStartType ==
  ASSUME Parts, PassStart
  PROVE  Parts'
<1>1. TaskOK'
  <2>1. row \in Row /\ now \in Time /\ Pass \in Callers
    BY DEF PassStart, Parts, StoreOK, RestOK, Callers
  <2>2. "listed" \in Labels /\ "pass" \in Work
    BY DEF Labels, Work
  <2>3. Start(Pass, "listed", "pass", row, now)
    BY DEF PassStart
  <2> QED
    BY <2>1, <2>2, <2>3, StartType DEF Parts
<1>2. StoreOK' /\ PersonOK' /\ ServerOK' /\ RestOK'
  BY DEF PassStart, Parts, StoreOK, PersonOK, ServerOK, RestOK, store, server, person
<1> QED
  BY <1>1, <1>2 DEF Parts

LEMMA PassClaimType ==
  ASSUME Parts, PassClaim
  PROVE  Parts'
<1>1. TaskOK' /\ StoreOK'
  <2>1. CASE Claimable
    <3>1. row \in Row
      BY <2>1 DEF Claimable, Parts, StoreOK
    <3>2. TaskOK'
      BY <2>1, <3>1, CarryType, TakesLabels DEF PassClaim, Parts, Callers
    <3> QED
      BY <2>1, <3>2 DEF PassClaim, Parts, StoreOK, RestOK
  <2>2. CASE ~Claimable
    BY <2>2, DoneType DEF PassClaim, Parts, StoreOK, store, Callers
  <2> QED
    BY <2>1, <2>2
<1>2. PersonOK' /\ ServerOK' /\ RestOK'
  BY DEF PassClaim, Parts, PersonOK, ServerOK, RestOK, server, person
<1> QED
  BY <1>1, <1>2 DEF Parts

LEMMA AdoptType ==
  ASSUME Parts, NEW k \in Copies, Adopt(k)
  PROVE  Parts'
<1>1. hour[k] \in Time /\ k \in 0..MaxCopies
  BY SendLaterAssumption DEF Parts, ServerOK, Copies
<1>2. Adopted(Plain(hour[k], k), k) \in Row
  BY <1>1, PlainType, AdoptedType
<1>3. TaskOK'
  <2>1. now \in Time /\ Pass \in Callers /\ "put" \in Labels /\ "pass" \in Work
    BY DEF Parts, RestOK, Callers, Labels, Work
  <2>2. Start(Pass, "put", "pass", Adopted(Plain(hour[k], k), k), now) \/ UNCHANGED task
    BY DEF Adopt
  <2> QED
    BY <1>2, <2>1, <2>2, StartType DEF Parts, TaskOK
<1>4. ServerOK'
  <2>1. Filed(k) \in [Copies -> Places] /\ TakenOff(k) \in [Copies -> Places]
    BY FiledType DEF Parts, ServerOK
  <2> QED
    BY <2>1 DEF Adopt, Parts, ServerOK
<1>5. StoreOK' /\ PersonOK' /\ RestOK'
  BY DEF Adopt, Parts, StoreOK, PersonOK, RestOK, store, person
<1> QED
  BY <1>3, <1>4, <1>5 DEF Parts

LEMMA LookedNothingType ==
  ASSUME Parts, NEW c \in Callers, LookedNothing(c)
  PROVE  StoreOK' /\ TaskOK'
<1> DEFINE m == Msg(c)
<1>1. m \in Row /\ Unheld(m) \in Row
  BY CallerType, UnheldType DEF Parts
<1>2. [Unheld(m) EXCEPT !.tried = TRUE] \in Row
  BY <1>1, RowWith
<1>3. \A l \in Labels : Goto(c, l) => TaskOK'
  BY GotoType DEF Parts
<1>4. Carry(c, [Unheld(m) EXCEPT !.tried = TRUE], "due") => TaskOK'
  BY <1>2, CarryType DEF Parts, Labels
<1>5. \A l \in Labels : Carry(c, Unheld(m), l) => TaskOK'
  BY <1>1, CarryType DEF Parts
<1>6. UNCHANGED store => StoreOK'
  BY DEF Parts, StoreOK, store
<1>7. LetGo(c) => StoreOK' /\ TaskOK'
  BY LetGoType DEF Parts
<1>8. {"unsure", "store", "called", "remove"} \subseteq Labels
  BY DEF Labels
<1> QED
  BY <1>3, <1>4, <1>5, <1>6, <1>7, <1>8 DEF LookedNothing

LEMMA UnreadableType ==
  ASSUME Parts, NEW c \in Callers, Unreadable(c)
  PROVE  StoreOK' /\ TaskOK'
<1>1. Goto(c, "unsure") \/ Goto(c, "remove") => TaskOK'
  BY GotoType DEF Parts, Labels
<1>2. UNCHANGED store => StoreOK'
  BY DEF Parts, StoreOK, store
<1>3. LetGo(c) => StoreOK' /\ TaskOK'
  BY LetGoType DEF Parts
<1> QED
  BY <1>1, <1>2, <1>3 DEF Unreadable

LEMMA LookType ==
  ASSUME Parts, NEW c \in Callers, Look(c)
  PROVE  Parts'
<1> DEFINE found == \E k \in Copies : task' = [task EXCEPT ![c].got = k, ![c].pc = "found"]
<1>1. found => TaskOK'
  <2> SUFFICES ASSUME NEW k \in Copies, task' = [task EXCEPT ![c].got = k, ![c].pc = "found"]
               PROVE  TaskOK'
    OBVIOUS
  <2>1. k \in 0..MaxCopies /\ task[c] \in Task
    BY SendLaterAssumption, CallerType DEF Copies, Parts
  <2>2. [task[c] EXCEPT !.got = k, !.pc = "found"] \in Task
    BY <2>1 DEF Task, Labels
  <2>3. task' = [task EXCEPT ![c] = [task[c] EXCEPT !.got = k, !.pc = "found"]]
    BY DEF Parts, TaskOK
  <2> QED
    BY <2>2, <2>3 DEF Parts, TaskOK
<1>2. UNCHANGED store => StoreOK'
  BY DEF Parts, StoreOK, store
<1>3. LookedNothing(c) \/ Unreadable(c) \/ LetGo(c) => StoreOK' /\ TaskOK'
  BY LookedNothingType, UnreadableType, LetGoType DEF Parts
<1>4. LookedNothing(c) \/ Unreadable(c) \/ LetGo(c) \/ (found /\ UNCHANGED store)
  BY DEF Look, Seen, HeldCopies
<1>5. PersonOK' /\ ServerOK' /\ RestOK'
  BY SpendType DEF Look, Parts, PersonOK, ServerOK, RestOK, server, person
<1> QED
  BY <1>1, <1>2, <1>3, <1>4, <1>5 DEF Parts

LEMMA AskType ==
  ASSUME Parts, NEW c \in Callers, Ask(c)
  PROVE  Parts'
<1> DEFINE k == Msg(c).copy
           standing == Standing(k, Msg(c).at)
<1>1. k \in 0..MaxCopies
  BY CallerType DEF Parts, Row
<1>2. standing \in {"pending", "sent", "notSent"} => k \in Copies
  <2>1. k = 0 => standing = "unknown"
    BY DEF Standing
  <2>2. k # 0 => k \in Copies
    BY <1>1, SendLaterAssumption DEF Copies
  <2> QED
    BY <2>1, <2>2
<1>3. StoreOK' /\ TaskOK'
  <2>1. Goto(c, "forget") \/ Goto(c, "fate") \/ Goto(c, "unsure") \/ Goto(c, "remove") => TaskOK'
    BY GotoType DEF Parts, Labels
  <2>2. UNCHANGED store => StoreOK'
    BY DEF Parts, StoreOK, store
  <2>3. LetGo(c) => StoreOK' /\ TaskOK'
    BY LetGoType DEF Parts
  <2>4. \/ LetGo(c)
        \/ Goto(c, "remove") /\ UNCHANGED store
        \/ (\E st \in {"sent", "notSent", "unknown"} : Answered(c, st)) /\ UNCHANGED store
    BY DEF Ask
  <2>5. ASSUME NEW st, Answered(c, st)
        PROVE  Goto(c, "forget") \/ Goto(c, "fate") \/ Goto(c, "unsure") \/ Goto(c, "remove")
    BY <2>5 DEF Answered
  <2> QED
    BY <2>1, <2>2, <2>3, <2>4, <2>5
<1>4. ServerOK'
  <2>1. k \in Copies => Filed(k) \in [Copies -> Places] /\ TakenOff(k) \in [Copies -> Places]
    BY FiledType DEF Parts, ServerOK
  <2>2. [subs EXCEPT ![k] = "canceled"] \in [Copies -> Standings]
    BY DEF Parts, ServerOK, Standings
  <2>3. place' \in [Copies -> Places]
    BY <1>2, <2>1 DEF Ask, Parts, ServerOK, server
  <2>4. subs' \in [Copies -> Standings] /\ inSent' \in BOOLEAN
    BY <2>2 DEF Ask, Parts, ServerOK, server
  <2>5. UNCHANGED <<hour, born, delivered>>
    BY DEF Ask, server
  <2> QED
    BY <2>3, <2>4, <2>5 DEF Parts, ServerOK
<1>5. PersonOK' /\ RestOK'
  BY SpendType DEF Ask, Parts, PersonOK, RestOK, person
<1> QED
  BY <1>3, <1>4, <1>5 DEF Parts

LEMMA CalledBackType ==
  ASSUME Parts, NEW c \in Callers, CalledBack(c)
  PROVE  Parts'
<1>1. TaskOK'
  <2>1. \E l \in {"restore", "forget", "elsewhere", "remove", "store"} : Goto(c, l)
    BY DEF CalledBack
  <2> QED
    BY <2>1, GotoType DEF Parts, Labels
<1>2. StoreOK' /\ PersonOK' /\ ServerOK' /\ RestOK'
  BY SpendType DEF CalledBack, Parts, StoreOK, PersonOK, ServerOK, RestOK, store, server, person
<1> QED
  BY <1>1, <1>2 DEF Parts

LEMMA StoreType ==
  ASSUME Parts, NEW c \in Callers, Store(c)
  PROVE  Parts'
<1> DEFINE here == [Unheld(Msg(c)) EXCEPT !.tried = TRUE]
           m == IF Job(c) = "newHour"
                THEN Marked([here EXCEPT !.at = task[c].want], now) ELSE here
<1>1. Msg(c) \in Row /\ task[c].want \in Time /\ now \in Time
  BY CallerType DEF Parts, RestOK
<1>2. here \in Row
  BY <1>1, UnheldType, RowWith
<1>3. [here EXCEPT !.at = task[c].want] \in Row
  BY <1>1, <1>2, RowWith
<1>4. m \in Row
  BY <1>1, <1>2, <1>3, MarkedType
<1>5. Write(m) /\ Carry(c, m, "reclaim")
  BY DEF Store
<1>6. StoreOK' /\ TaskOK'
  BY <1>4, <1>5, WriteType, CarryType DEF Parts, Labels
<1>7. PersonOK' /\ ServerOK' /\ RestOK'
  BY DEF Store, Parts, PersonOK, ServerOK, RestOK, server, person
<1> QED
  BY <1>6, <1>7 DEF Parts

LEMMA ReclaimType ==
  ASSUME Parts, NEW c \in Callers, Reclaim(c)
  PROVE  Parts'
<1>1. TaskOK'
  <2>1. Done(c) \/ Goto(c, "try") \/ Goto(c, "handing") \/ Goto(c, "restore")
    BY DEF Reclaim
  <2> QED
    BY <2>1, GotoType, DoneType DEF Parts, Labels
<1>2. StoreOK' /\ PersonOK' /\ ServerOK' /\ RestOK'
  BY DEF Reclaim, Parts, StoreOK, PersonOK, ServerOK, RestOK, store, server, person
<1> QED
  BY <1>1, <1>2 DEF Parts

LEMMA StuckType ==
  ASSUME Parts, NEW c \in Callers, Stuck(c)
  PROVE  Parts'
<1> DEFINE m == [Msg(c) EXCEPT !.tried = TRUE]
<1>1. m \in Row /\ Unheld(m) \in Row
  BY CallerType, RowWith, UnheldType DEF Parts
<1>2. [m EXCEPT !.problem = "checkSent"] \in Row
  BY <1>1, RowWith DEF Problems
<1>3. [Unheld(m) EXCEPT !.copy = 0, !.problem = "elsewhere"] \in Row
  <2>1. 0 \in 0..MaxCopies /\ "elsewhere" \in Problems
    BY SendLaterAssumption DEF Problems
  <2> QED
    BY <1>1, <2>1 DEF Row
<1>4. StoreOK' /\ TaskOK'
  BY <1>2, <1>3, WriteType, DoneType DEF Stuck, Parts
<1>5. PersonOK' /\ ServerOK' /\ RestOK'
  BY DEF Stuck, Parts, PersonOK, ServerOK, RestOK, server, person
<1> QED
  BY <1>4, <1>5 DEF Parts

LEMMA CalledType ==
  ASSUME Parts, NEW c \in Callers, Called(c)
  PROVE  Parts'
<1>1. Msg(c) \in Row
  BY CallerType DEF Parts
<1>2. StoreOK' /\ TaskOK'
  BY <1>1, WriteType, GotoType DEF Called, Parts, Labels
<1>3. PersonOK' /\ ServerOK' /\ RestOK'
  BY DEF Called, Parts, PersonOK, ServerOK, RestOK, server, person
<1> QED
  BY <1>2, <1>3 DEF Parts

LEMMA RestoreType ==
  ASSUME Parts, NEW c \in Callers, Restore(c)
  PROVE  Parts'
<1>1. Msg(c) \in Row /\ Msg(c).copy \in 0..MaxCopies /\ Unheld(Msg(c)) \in Row
  BY CallerType, UnheldType DEF Parts, Row
<1>2. TaskOK'
  <2>1. ASSUME NEW k \in Copies, Carry(c, [Msg(c) EXCEPT !.copy = k], "put") PROVE TaskOK'
    <3>1. k \in 0..MaxCopies
      BY SendLaterAssumption DEF Copies
    <3>2. [Msg(c) EXCEPT !.copy = k] \in Row
      BY <1>1, <3>1, RowWith
    <3> QED
      BY <2>1, <3>2, CarryType DEF Parts, Labels
  <2>2. Goto(c, "put") \/ Goto(c, "remove") \/ Goto(c, "unsaved") => TaskOK'
    BY GotoType DEF Parts, Labels
  <2> QED
    BY <2>1, <2>2 DEF Restore
<1>3. ServerOK'
  <2>1. ASSUME NEW k \in Copies, SaveOver(k, Msg(c).copy) PROVE ServerOK'
    BY <1>1, <2>1, SaveOverType DEF Parts
  <2> QED
    BY <2>1 DEF Restore, Parts, ServerOK, server
<1>4. StoreOK'
  BY <1>1, WriteType DEF Restore, Parts, StoreOK, store
<1>5. PersonOK' /\ RestOK'
  BY SpendType DEF Restore, Parts, PersonOK, RestOK, person
<1> QED
  BY <1>2, <1>3, <1>4, <1>5 DEF Parts

LEMMA ReopenedType ==
  ASSUME Parts, NEW c \in Callers, Reopened(c)
  PROVE  Parts'
<1>1. TaskOK' /\ StoreOK'
  BY DoneType, WriteType DEF Reopened, Parts, StoreOK, store
<1>2. PersonOK' /\ ServerOK' /\ RestOK'
  BY SendLaterAssumption DEF Reopened, Parts, PersonOK, ServerOK, RestOK, server
<1> QED
  BY <1>1, <1>2 DEF Parts

LEMMA RemoveRowType ==
  ASSUME Parts, NEW c \in Callers, RemoveRow(c)
  PROVE  Parts'
<1>1. TaskOK' /\ StoreOK'
  BY DoneType, WriteType DEF RemoveRow, Parts
<1>2. PersonOK' /\ ServerOK' /\ RestOK'
  BY DEF RemoveRow, Parts, PersonOK, ServerOK, RestOK, server
<1> QED
  BY <1>1, <1>2 DEF Parts

LEMMA TryType ==
  ASSUME Parts, NEW c \in Callers, Try(c)
  PROVE  Parts'
<1>1. TaskOK'
  BY GotoType DEF Try, Parts, Labels
<1>2. StoreOK'
  BY RowWith DEF Try, Parts, StoreOK
<1>3. PersonOK' /\ ServerOK' /\ RestOK'
  BY DEF Try, Parts, PersonOK, ServerOK, RestOK, server, person
<1> QED
  BY <1>1, <1>2, <1>3 DEF Parts

LEMMA LookSentType ==
  ASSUME Parts, NEW c \in Callers, LookSent(c)
  PROVE  Parts'
<1>1. Msg(c).copy \in 0..MaxCopies
  BY CallerType DEF Parts, Row
<1>2. TaskOK'
  <2>1. \E l \in {"forget", "send", "keep", "stick"} : Goto(c, l)
    BY DEF LookSent
  <2> QED
    BY <2>1, GotoType DEF Parts, Labels
<1>3. place' \in [Copies -> Places]
  BY <1>1, DestroyedType DEF LookSent, Parts, ServerOK
<1>4. ServerOK'
  BY <1>3 DEF LookSent, Parts, ServerOK
<1>5. StoreOK' /\ PersonOK' /\ RestOK'
  BY SpendType DEF LookSent, Parts, StoreOK, PersonOK, RestOK, store, person
<1> QED
  BY <1>2, <1>4, <1>5 DEF Parts

LEMMA SendType ==
  ASSUME Parts, NEW c \in Callers, Send(c)
  PROVE  Parts'
<1>1. Msg(c).copy \in 0..MaxCopies
  BY CallerType DEF Parts, Row
<1>2. TaskOK'
  <2>1. \E l \in {"forget", "keep", "stick"} : Goto(c, l)
    BY DEF Send
  <2> QED
    BY <2>1, GotoType DEF Parts, Labels
<1>3. place' \in [Copies -> Places]
  BY <1>1, DestroyedType DEF Send, Parts, ServerOK
<1>4. inSent' \in BOOLEAN
  BY Zenon DEF Send, Parts, ServerOK
<1>5. delivered' \in 0..2
  BY DEF Send, Parts, ServerOK, OneMore
<1>6. ServerOK'
  BY <1>3, <1>4, <1>5 DEF Send, Parts, ServerOK
<1>7. StoreOK' /\ PersonOK' /\ RestOK'
  BY SpendType DEF Send, Parts, StoreOK, PersonOK, RestOK, store, person
<1> QED
  BY <1>2, <1>6, <1>7 DEF Parts

LEMMA ForgetType ==
  ASSUME Parts, NEW c \in Callers, Forget(c)
  PROVE  Parts'
<1>1. TaskOK' /\ StoreOK'
  BY DoneType, WriteType DEF Forget, Parts, StoreOK, store
<1>2. PersonOK' /\ ServerOK' /\ RestOK'
  BY SpendType DEF Forget, Parts, PersonOK, ServerOK, RestOK, server, person
<1> QED
  BY <1>1, <1>2 DEF Parts

LEMMA KeptRow ==
  ASSUME Parts, NEW c \in Callers, NEW p \in Problems
  PROVE  [Unheld(Msg(c)) EXCEPT !.tried = TRUE, !.problem = p,
             !.at = IF now < MaxTime THEN now + 1 ELSE MaxTime] \in Row
<1>1. Unheld(Msg(c)) \in Row
  BY CallerType, UnheldType DEF Parts
<1>2. (IF now < MaxTime THEN now + 1 ELSE MaxTime) \in Time
  BY SendLaterAssumption DEF Parts, RestOK, Time
<1> QED
  BY <1>1, <1>2 DEF Row

LEMMA KeepType ==
  ASSUME Parts, NEW c \in Callers, Keep(c)
  PROVE  Parts'
<1>1. Msg(c).copy \in 0..MaxCopies
  BY CallerType DEF Parts, Row
<1>2. (IF At(c, "keep") THEN "retry" ELSE "stuck") \in Problems
  BY DEF Problems
<1>3. TaskOK' /\ StoreOK'
  BY <1>2, DoneType, WriteType, KeptRow DEF Keep, Parts, StoreOK, store
<1>4. PersonOK'
  BY <1>1 DEF Keep, Parts, PersonOK
<1>5. ServerOK' /\ RestOK'
  BY DEF Keep, Parts, ServerOK, RestOK, server
<1> QED
  BY <1>3, <1>4, <1>5 DEF Parts

----------------------------------------------------------------------------
(* What the person asks keeps them.                                        *)

LEMMA NameType ==
  ASSUME Parts, NEW c \in Callers, NEW j \in Work, NEW w \in Time, Name(c, j, w)
  PROVE  StoreOK' /\ TaskOK' /\ ServerOK' /\ RestOK' /\ UNCHANGED <<composer, answer, moving>>
<1>1. row \in Row /\ "named" \in Labels
  BY DEF Name, Parts, StoreOK, Labels
<1>2. TaskOK'
  BY <1>1, StartType DEF Name, Parts
<1> QED
  BY <1>2 DEF Name, Parts, StoreOK, ServerOK, RestOK, store, server

LEMMA NamesType ==
  ASSUME Parts, NEW c \in People,
         SendNow(c) \/ Cancel(c) \/ Edit(c) \/ Drop(c) \/ \E at \in Time : NewHour(c, at)
  PROVE  Parts'
<1>1. c \in Callers /\ {"sendNow", "cancel", "edit", "drop", "newHour"} \subseteq Work
  BY DEF Callers, Work
<1>2. \E j \in Work, w \in Time : Name(c, j, w)
  BY <1>1, ZeroTime DEF SendNow, Cancel, Edit, Drop, NewHour
<1>3. intent' \in {intent, "send"}
  BY DEF SendNow, Cancel, Edit, Drop, NewHour
<1>4. StoreOK' /\ TaskOK' /\ ServerOK' /\ RestOK' /\ UNCHANGED <<composer, answer, moving>>
  BY <1>1, <1>2, NameType
<1>5. PersonOK'
  BY <1>3, <1>4 DEF Parts, PersonOK
<1> QED
  BY <1>4, <1>5 DEF Parts

LEMMA SaveEditType ==
  ASSUME Parts, SaveEdit
  PROVE  Parts'
<1>1. composer \in 0..MaxCopies
  BY DEF SaveEdit, Parts, PersonOK
<1>2. PICK k \in Copies : /\ SaveOver(k, composer) /\ composer' = k
                          /\ moving' = IF composer = 0 THEN moving ELSE moving \cup {<<composer, k>>}
  BY DEF SaveEdit
<1>3. k \in 0..MaxCopies /\ (composer # 0 => composer \in Copies)
  BY <1>1, SendLaterAssumption DEF Copies
<1>4. moving' \subseteq Copies \X Copies
  BY <1>2, <1>3 DEF Parts, PersonOK
<1>5. ServerOK'
  BY <1>1, <1>2, SaveOverType DEF Parts
<1>6. StoreOK' /\ TaskOK' /\ PersonOK' /\ RestOK'
  BY <1>2, <1>3, <1>4 DEF SaveEdit, Parts, StoreOK, TaskOK, PersonOK, RestOK, store
<1> QED
  BY <1>5, <1>6 DEF Parts

\* The row as it was, or one that waited on no hold and stands for the draft
\* saved last.
LEMMA DraftSavedRow ==
  ASSUME Parts, DraftSaved
  PROVE  /\ UNCHANGED <<claim, task, place, subs, hour, born, inSent, delivered>>
         /\ UNCHANGED <<composer, intent, answer, now, told, faults>>
         /\ moving' \subseteq moving
         /\ \/ UNCHANGED row
            \/ /\ row # NoRow /\ row.hold = "none" /\ row' \in Row
               /\ row'.hold = "none" /\ ~row'.raw
               /\ \E saved \in moving : row'.copy = saved[2]
<1>1. PICK saved \in moving :
        /\ moving' = moving \ {saved}
        /\ row' = IF row # NoRow /\ row.copy = saved[1] /\ row.hold = "none"
                  THEN [row EXCEPT !.copy = saved[2], !.raw = FALSE] ELSE row
  BY DEF DraftSaved, Parts, PersonOK
<1>2. saved[2] \in 0..MaxCopies
  BY SendLaterAssumption DEF Parts, PersonOK, Copies
<1>3. CASE row # NoRow /\ row.copy = saved[1] /\ row.hold = "none"
  <2>1. row \in Row /\ row' = [row EXCEPT !.copy = saved[2], !.raw = FALSE]
    BY <1>1, <1>3 DEF Parts, StoreOK
  <2>2. row' \in Row /\ row'.hold = row.hold /\ ~row'.raw /\ row'.copy = saved[2]
    BY <1>2, <2>1 DEF Row
  <2> QED
    BY <1>1, <1>3, <2>2 DEF DraftSaved, server
<1>4. CASE ~(row # NoRow /\ row.copy = saved[1] /\ row.hold = "none")
  BY <1>1, <1>4 DEF DraftSaved, server
<1> QED
  BY <1>3, <1>4

LEMMA DraftSavedType ==
  ASSUME Parts, DraftSaved
  PROVE  Parts'
BY DraftSavedRow DEF Parts, StoreOK, TaskOK, ServerOK, PersonOK, RestOK

LEMMA PostType ==
  ASSUME Parts, NEW c \in Callers, Post(c)
  PROVE  Parts'
<1>1. composer \in 0..MaxCopies
  BY DEF Post, Parts, PersonOK
<1>2. Plain(now, composer) \in Row
  BY <1>1, PlainType DEF Parts, RestOK
<1>3. "try" \in Labels /\ "post" \in Work /\ Start(c, "try", "post", Plain(now, composer), 0)
  BY DEF Post, Labels, Work
<1>4. TaskOK'
  BY <1>2, <1>3, StartType, ZeroTime DEF Parts
<1>5. StoreOK' /\ PersonOK' /\ ServerOK' /\ RestOK'
  BY DEF Post, Parts, StoreOK, PersonOK, ServerOK, RestOK, store, server
<1> QED
  BY <1>4, <1>5 DEF Parts

LEMMA ScheduleType ==
  ASSUME Parts, NEW c \in Callers, NEW at \in Time, Schedule(c, at)
  PROVE  Parts'
<1> DEFINE m == Marked(Plain(at, composer), now)
<1>1. composer \in 0..MaxCopies
  BY DEF Schedule, Parts, PersonOK
<1>2. m \in Row
  BY <1>1, PlainType, MarkedType DEF Parts, RestOK
<1>3. "handing" \in Labels /\ "schedule" \in Work
  BY DEF Labels, Work
<1>4. Write(m) /\ Start(c, "handing", "schedule", m, at)
  BY DEF Schedule
<1>5. TaskOK' /\ StoreOK'
  BY <1>2, <1>3, <1>4, StartType, WriteType DEF Parts
<1>6. PersonOK' /\ ServerOK' /\ RestOK'
  BY DEF Schedule, Parts, PersonOK, ServerOK, RestOK, server
<1> QED
  BY <1>5, <1>6 DEF Parts

LEMMA HoldUnchangedType ==
  ASSUME Parts, NEW c \in Callers, HoldUnchanged(c)
  PROVE  Parts'
<1>1. row \in Row /\ row.at \in Time /\ Marked(row, now) \in Row
  BY MarkedType DEF HoldUnchanged, Parts, StoreOK, RestOK, Row
<1>2. "handing" \in Labels /\ "unchanged" \in Work
  BY DEF Labels, Work
<1>3. TaskOK'
  <2>1. Start(c, "handing", "unchanged", Marked(row, now), row.at) => TaskOK'
    BY <1>1, <1>2, StartType DEF Parts
  <2> QED
    BY <2>1 DEF HoldUnchanged, Parts, TaskOK
<1>4. StoreOK'
  BY <1>1, WriteType DEF HoldUnchanged, Parts, StoreOK, store
<1>5. PersonOK' /\ ServerOK' /\ RestOK'
  BY DEF HoldUnchanged, Parts, PersonOK, ServerOK, RestOK, server
<1> QED
  BY <1>3, <1>4, <1>5 DEF Parts

----------------------------------------------------------------------------
(* And so does the world.                                                  *)

LEMMA TickType ==
  ASSUME Parts, Tick
  PROVE  Parts'
BY SendLaterAssumption DEF Tick, Parts, StoreOK, TaskOK, PersonOK, ServerOK, RestOK,
    store, server, person, Time

LEMMA ServerType ==
  ASSUME Parts, NEW k \in Copies,  
         ServerSends(k) \/ ServerForgets(k) \/ OtherCancels(k) \/ OtherDeletes(k) \/ OtherSends(k)
  PROVE  Parts'
<1>1. Destroyed(k) \in [Copies -> Places] /\ TakenOff(k) \in [Copies -> Places]
  <2>1. k \in 0..MaxCopies
    BY SendLaterAssumption DEF Copies
  <2> QED
    BY <2>1, DestroyedType, FiledType DEF Parts, ServerOK
<1>2. ServerOK'
  <2>1. CASE ServerSends(k) \/ ServerForgets(k) \/ OtherDeletes(k)
    BY <1>1, <2>1 DEF ServerSends, ServerForgets, OtherDeletes, Parts, ServerOK, OneMore, Standings
  <2>2. CASE OtherCancels(k)
    BY <1>1, <2>2 DEF OtherCancels, Parts, ServerOK, Standings
  <2>3. CASE OtherSends(k)
    BY <1>1, <2>3 DEF OtherSends, Parts, ServerOK, OneMore
  <2> QED
    BY <2>1, <2>2, <2>3
<1>3. StoreOK' /\ TaskOK' /\ PersonOK' /\ RestOK'
  BY DEF ServerSends, ServerForgets, OtherCancels, OtherDeletes, OtherSends,
     Parts, StoreOK, TaskOK, PersonOK, RestOK, store, person
<1> QED
  BY <1>2, <1>3 DEF Parts

LEMMA StopsType ==
  ASSUME Parts, Crash \/ \E c \in Callers : CallerDies(c)
  PROVE  Parts'
<1>1. TaskOK'
  BY IdleType, DoneType DEF CallerDies, Crash, Parts, TaskOK
<1>2. StoreOK' /\ PersonOK' /\ ServerOK' /\ RestOK'
  BY SpendType DEF CallerDies, Crash, Parts, StoreOK, PersonOK, ServerOK, RestOK, store, server, person
<1> QED
  BY <1>1, <1>2 DEF Parts

LEMMA InitType == Init => Parts
<1> SUFFICES ASSUME Init PROVE Parts
  OBVIOUS
<1>1. TaskOK
  BY IdleType DEF Init, TaskOK
<1>2. ServerOK
  <2> PICK start \in Starts :
          /\ place = [k \in Copies |-> IF k # 1 \/ start = "unsaved" THEN "unmade"
                                       ELSE IF start = "draft" THEN "draft" ELSE "held"]
          /\ subs = [k \in Copies |-> IF place[k] = "held" THEN "pending" ELSE "none"]
          /\ hour = [k \in Copies |-> IF place[k] = "held" THEN 2 ELSE 0]
    BY DEF Init
  <2>1. place \in [Copies -> Places] /\ subs \in [Copies -> Standings]
    BY DEF Places, Standings
  <2>2. \A k \in Copies : place[k] = "held" => 2 \in Time
    <3>1. \A k \in Copies : place[k] = "held" => start = "elsewhere"
      BY SendLaterAssumption
    <3> QED
      BY <3>1, SendLaterAssumption DEF Time
  <2>3. hour \in [Copies -> Time]
    BY <2>2, ZeroTime
  <2>4. born = [k \in Copies |-> 0] /\ inSent = FALSE /\ delivered = 0
    BY DEF Init
  <2>5. born \in [Copies -> Time]
    BY <2>4, ZeroTime
  <2>6. inSent \in BOOLEAN
    BY <2>4, Zenon
  <2>7. delivered \in 0..2
    BY <2>4
  <2> QED
    BY <2>1, <2>3, <2>5, <2>6, <2>7 DEF ServerOK
<1>3. PersonOK
  BY SendLaterAssumption DEF Init, PersonOK
<1>4. StoreOK /\ RestOK
  <2>1. 0 \in 0..MaxFaults
    BY SendLaterAssumption
  <2> QED
    BY <2>1, ZeroTime DEF Init, StoreOK, RestOK
<1> QED
  BY <1>1, <1>2, <1>3, <1>4 DEF Parts

LEMMA StepType == ASSUME Parts, NEW c \in Callers, Step(c) PROVE Parts'
BY TakeNamedType, HandOverType, TakeHoldType, PutRowType, SaveScheduledType, ScheduleRefusedType,
   PassDueType, LookType, AskType, CalledBackType, StoreType, ReclaimType, StuckType,
   CalledType, RestoreType, ReopenedType, RemoveRowType, TryType, LookSentType, SendType,
   ForgetType, KeepType DEF Step

LEMMA NextType == Parts /\ [Next]_vars => Parts'
<1> SUFFICES ASSUME Parts, [Next]_vars PROVE Parts'
  OBVIOUS
<1>1. CASE PassStep
  BY <1>1, PassStartType, PassClaimType, AdoptType DEF PassStep
<1>2. CASE \E c \in Callers : Step(c)
  BY <1>2, StepType
<1>3. CASE Asked
  <2>1. People \subseteq Callers
    BY DEF Callers
  <2> QED
    BY <1>3, <2>1, NamesType, PostType, HoldUnchangedType, ScheduleType, SaveEditType,
       DraftSavedType DEF Asked
<1>4. CASE Environment
  BY <1>4, TickType, StopsType, ServerType DEF Environment
<1>5. CASE UNCHANGED vars
  BY <1>5 DEF vars, Parts, StoreOK, TaskOK, ServerOK, PersonOK, RestOK
<1> QED
  BY <1>1, <1>2, <1>3, <1>4, <1>5 DEF Next

LEMMA AlwaysParts == Spec => []Parts
BY InitType, NextType, PTL DEF Spec

\* Every variable of SendLater keeps its type (outbox.rs, held.rs).
THEOREM SendLaterTyped == Spec => []TypeOK
<1>1. Parts => TypeOK
  BY TypeParts DEF Parts
<1> QED
  BY <1>1, AlwaysParts, PTL

----------------------------------------------------------------------------
(* The inductive invariant of HoldsShow.                                   *)

\* A copy the server made and will not send, or none.
Settled(k) == k = 0 \/ (place[k] # "unmade" /\ subs[k] # "pending")

\* Where a caller's copy is settled whatever its row says of a hold.
SettledAt == {"due", "look", "found", "fate", "store", "reclaim", "handing", "holding", "saving",
              "refused", "called", "restore", "try", "lookSent", "send", "keep", "stick"}

Made == \A k \in Copies : subs[k] # "none" => place[k] # "unmade"
RowSettled == row # NoRow /\ row.hold # "held" => Settled(row.copy)
CallerSettled(c) ==
    /\ \/ Msg(c).hold # "held" \/ task[c].pc \in SettledAt \/ (At(c, "put") /\ Job(c) = "edit")
       => Settled(Msg(c).copy)
    /\ task[c].pc \in {"handing", "holding"} => Job(c) # "edit"
ComposerSettled ==
    /\ composer # Closed => Settled(composer)
    /\ \A saved \in moving : Settled(saved[2])

ServerInv == HoldsShow /\ Made

\* A pending hold's copy is nobody's to destroy.
HoldInv ==
    /\ ServerInv /\ RowSettled /\ ComposerSettled
    /\ \A c \in Callers : CallerSettled(c)

----------------------------------------------------------------------------
(* What a step leaves of a caller.                                         *)

LeavesOthers(c) == \A d \in Callers \ {c} : task'[d] = task[d]
Becomes(c, label, job, m) == task'[c].pc = label /\ task'[c].job = job /\ task'[c].msg = m

LEMMA GotoIs ==
  ASSUME TaskOK, NEW c \in Callers, NEW l, Goto(c, l)
  PROVE  LeavesOthers(c) /\ Becomes(c, l, Job(c), Msg(c)) /\ task'[c].got = task[c].got
BY DEF TaskOK, Task, Goto, LeavesOthers, Becomes, Job, Msg

LEMMA CarryIs ==
  ASSUME TaskOK, NEW c \in Callers, NEW l, NEW m, Carry(c, m, l)
  PROVE  LeavesOthers(c) /\ Becomes(c, l, Job(c), m) /\ task'[c].got = task[c].got
BY DEF TaskOK, Task, Carry, LeavesOthers, Becomes, Job

LEMMA StartIs ==
  ASSUME TaskOK, NEW c \in Callers, NEW l, NEW j, NEW m, NEW w, Start(c, l, j, m, w)
  PROVE  LeavesOthers(c) /\ Becomes(c, l, j, m)
BY DEF TaskOK, Task, Start, LeavesOthers, Becomes

LEMMA DoneIs ==
  ASSUME TaskOK, NEW c \in Callers, Done(c)
  PROVE  LeavesOthers(c) /\ Becomes(c, "idle", "none", Plain(0, 0))
BY DEF TaskOK, Done, Idle, LeavesOthers, Becomes

LEMMA HoldOf ==
  /\ \A m \in Row : Unheld(m).hold = "none" /\ Unheld(m).copy = m.copy
  /\ \A m \in Row, t \in Time : Marked(m, t).hold = "mark" /\ Marked(m, t).copy = m.copy
  /\ \A m \in Row, k \in 0..MaxCopies : Adopted(m, k).hold = "held" /\ Adopted(m, k).copy = k
  /\ \A t \in Time, k \in 0..MaxCopies : Plain(t, k).hold = "none" /\ Plain(t, k).copy = k
BY DEF Unheld, Marked, Adopted, Plain, Row

LEMMA CopyKept ==
  ASSUME NEW m \in Row
  PROVE  /\ [m EXCEPT !.tried = TRUE].copy = m.copy /\ [m EXCEPT !.tried = TRUE].hold = m.hold
         /\ \A p \in Problems : /\ [m EXCEPT !.problem = p].copy = m.copy
                                /\ [m EXCEPT !.problem = p].hold = m.hold
         /\ \A t \in Time : [m EXCEPT !.at = t].copy = m.copy /\ [m EXCEPT !.at = t].hold = m.hold
BY DEF Row

----------------------------------------------------------------------------
(* A pending hold's copy stays in Drafts: no caller destroys it.           *)

\* What a step never takes back.
Forward == \A k \in Copies :
    place[k] # "unmade" => place'[k] # "unmade" /\ (subs[k] # "pending" => subs'[k] # "pending")

LEMMA StaysSettled ==
  ASSUME Forward, NEW k \in 0..MaxCopies, Settled(k)
  PROVE  Settled(k)'
BY SendLaterAssumption DEF Forward, Settled, Copies

LEMMA MakeHoldServer ==
  ASSUME ServerOK, ServerInv, NEW k \in Copies, NEW a, MakeHold(k, a)
  PROVE  ServerInv' /\ Forward
BY DEF ServerOK, ServerInv, HoldsShow, Made, MakeHold, IsNew, Forward

LEMMA DestroyedServer ==
  ASSUME ServerOK, ServerInv, NEW k \in 0..MaxCopies, Settled(k),
         place' = Destroyed(k), subs' = subs
  PROVE  ServerInv' /\ Forward
BY DEF ServerOK, ServerInv, HoldsShow, Made, Destroyed, Settled, Forward

LEMMA SaveOverServer ==
  ASSUME ServerOK, ServerInv, NEW k \in Copies, NEW old \in 0..MaxCopies, Settled(old),
         SaveOver(k, old)
  PROVE  ServerInv' /\ Forward /\ Settled(k)'
<1>1. place \in [Copies -> Places] /\ Destroyed(old) \in [Copies -> Places]
  BY DestroyedType DEF ServerOK
<1>2. \A j \in Copies : Destroyed(old)[j] # place[j] => Destroyed(old)[j] = "gone" /\ subs[j] # "pending"
  BY <1>1 DEF Destroyed, Settled
<1>3. \A j \in Copies : place'[j] = IF j = k THEN "draft" ELSE Destroyed(old)[j]
  BY <1>1 DEF SaveOver
<1>4. subs[k] # "pending" /\ UNCHANGED subs
  BY DEF SaveOver, IsNew, ServerInv, HoldsShow
<1> QED
  BY <1>1, <1>2, <1>3, <1>4 DEF ServerInv, HoldsShow, Made, Forward, Settled

LEMMA SameServer ==
  ASSUME ServerInv, UNCHANGED <<place, subs>>
  PROVE  ServerInv' /\ Forward
BY DEF ServerInv, HoldsShow, Made, Forward

LEMMA HoldFrame ==
  ASSUME Parts, HoldInv, Forward, ServerInv', RowSettled', ComposerSettled',
         NEW c \in Callers, LeavesOthers(c), CallerSettled(c)'
  PROVE  HoldInv'
<1> SUFFICES ASSUME NEW d \in Callers \ {c} PROVE CallerSettled(d)'
  BY DEF HoldInv
<1>1. task'[d] = task[d] /\ CallerSettled(d) /\ Msg(d).copy \in 0..MaxCopies
  BY CallerType DEF LeavesOthers, HoldInv, Parts, Row
<1> QED
  BY <1>1, StaysSettled DEF CallerSettled, Msg, Job, At

LEMMA SameRow ==
  ASSUME Parts, HoldInv, Forward, UNCHANGED row
  PROVE  RowSettled'
<1>1. row # NoRow => row.copy \in 0..MaxCopies
  BY DEF Parts, StoreOK, Row
<1> QED
  BY <1>1, StaysSettled DEF RowSettled, HoldInv

LEMMA NewRow ==
  ASSUME NEW m, Write(m), m # NoRow /\ m.hold # "held" => Settled(m.copy)'
  PROVE  RowSettled'
BY DEF RowSettled, Write

\* A composer opens or closes, and no draft is saved.
LEMMA OpensSettled ==
  ASSUME Parts, HoldInv, Forward, UNCHANGED moving, composer' # Closed => Settled(composer)'
  PROVE  ComposerSettled'
<1>1. \A saved \in moving : saved[2] \in 0..MaxCopies /\ Settled(saved[2])
  BY DEF Parts, PersonOK, Copies, HoldInv, ComposerSettled
<1>2. \A k \in 0..MaxCopies : Settled(k) => Settled(k)'
  BY StaysSettled
<1> QED
  BY <1>1, <1>2 DEF ComposerSettled

LEMMA SameComposer ==
  ASSUME Parts, HoldInv, Forward, UNCHANGED <<composer, moving>>
  PROVE  ComposerSettled'
<1>1. composer # Closed => composer \in 0..MaxCopies /\ Settled(composer)
  BY DEF Parts, PersonOK, HoldInv, ComposerSettled
<1> QED
  BY <1>1, StaysSettled, OpensSettled

LEMMA DoneSettled ==
  ASSUME TaskOK, NEW c \in Callers, Done(c)
  PROVE  LeavesOthers(c) /\ CallerSettled(c)'
<1>1. Plain(0, 0).copy = 0
  BY DEF Plain
<1> QED
  BY <1>1, DoneIs DEF CallerSettled, Settled, Msg, Becomes, Job, At

LEMMA CarrySettled ==
  ASSUME Parts, HoldInv, Forward, NEW c \in Callers, NEW l, NEW m \in Row, Carry(c, m, l),
         m.hold # "held" \/ l \in SettledAt \/ (l = "put" /\ Job(c) = "edit") => Settled(m.copy),
         l \in {"handing", "holding"} => Job(c) # "edit"
  PROVE  LeavesOthers(c) /\ CallerSettled(c)'
<1>1. LeavesOthers(c) /\ Becomes(c, l, Job(c), m) /\ m.copy \in 0..MaxCopies
  BY CarryIs DEF Parts, Row
<1> QED
  BY <1>1, StaysSettled DEF CallerSettled, Becomes, Msg, Job, At

\* The same for a message with its new copy, which this step made.
LEMMA CarryNew ==
  ASSUME Parts, NEW c \in Callers, NEW l, NEW m \in Row, Carry(c, m, l), Settled(m.copy)',
         l \notin {"handing", "holding"}
  PROVE  LeavesOthers(c) /\ CallerSettled(c)'
<1>1. LeavesOthers(c) /\ Becomes(c, l, Job(c), m)
  BY CarryIs DEF Parts
<1> QED
  BY <1>1 DEF CallerSettled, Becomes, Msg, Job, At

LEMMA GotoSettled ==
  ASSUME Parts, HoldInv, Forward, NEW c \in Callers, NEW l, Goto(c, l),
         l \in SettledAt \/ (l = "put" /\ Job(c) = "edit") => Settled(Msg(c).copy),
         l \in {"handing", "holding"} => Job(c) # "edit"
  PROVE  LeavesOthers(c) /\ CallerSettled(c)'
<1>1. LeavesOthers(c) /\ Becomes(c, l, Job(c), Msg(c)) /\ Msg(c).copy \in 0..MaxCopies
  BY GotoIs, CallerType DEF Parts, Row
<1>2. Msg(c).hold # "held" => Settled(Msg(c).copy)
  BY DEF HoldInv, CallerSettled
<1> QED
  BY <1>1, <1>2, StaysSettled DEF CallerSettled, Becomes, Msg, Job, At

LEMMA StartSettled ==
  ASSUME Parts, HoldInv, Forward, NEW c \in Callers, NEW l, NEW j, NEW m \in Row, NEW w,
         Start(c, l, j, m, w),
         m.hold # "held" \/ l \in SettledAt \/ (l = "put" /\ j = "edit") => Settled(m.copy),
         l \in {"handing", "holding"} => j # "edit"
  PROVE  LeavesOthers(c) /\ CallerSettled(c)'
<1>1. LeavesOthers(c) /\ Becomes(c, l, j, m) /\ m.copy \in 0..MaxCopies
  BY StartIs DEF Parts, Row
<1> QED
  BY <1>1, StaysSettled DEF CallerSettled, Becomes, Msg, Job, At

\* A step of one caller that leaves the server as it is.
LEMMA StepHere ==
  ASSUME Parts, HoldInv, UNCHANGED <<place, subs>>, NEW c \in Callers,
         Forward => LeavesOthers(c) /\ CallerSettled(c)',
         Forward => RowSettled', Forward => ComposerSettled'
  PROVE  HoldInv'
BY SameServer, HoldFrame DEF HoldInv

\* What a caller holds, and how it stands before the step.
LEMMA CallerNow ==
  ASSUME Parts, HoldInv, NEW c \in Callers
  PROVE  /\ task[c] \in Task /\ Msg(c) \in Row /\ Job(c) \in Work
         /\ Msg(c).copy \in 0..MaxCopies /\ Msg(c).hold \in {"none", "mark", "held"}
         /\ task[c].got \in 0..MaxCopies
         /\ Msg(c).hold # "held" \/ task[c].pc \in SettledAt => Settled(Msg(c).copy)
         /\ At(c, "put") /\ Job(c) = "edit" => Settled(Msg(c).copy)
         /\ task[c].pc \in {"handing", "holding"} => Job(c) # "edit"
BY CallerType DEF Parts, Row, HoldInv, CallerSettled

\* Steps that write nothing but the caller's own state.
LEMMA GotoHold ==
  ASSUME Parts, HoldInv, UNCHANGED <<place, subs, row, composer, moving>>, NEW c \in Callers, NEW l,
         Goto(c, l),
         l \in SettledAt \/ (l = "put" /\ Job(c) = "edit") => Settled(Msg(c).copy),
         l \in {"handing", "holding"} => Job(c) # "edit"
  PROVE  HoldInv'
BY StepHere, GotoSettled, SameRow, SameComposer

LEMMA CarryHold ==
  ASSUME Parts, HoldInv, UNCHANGED <<place, subs, row, composer, moving>>, NEW c \in Callers, NEW l,
         NEW m \in Row, Carry(c, m, l),
         m.hold # "held" \/ l \in SettledAt \/ (l = "put" /\ Job(c) = "edit") => Settled(m.copy),
         l \in {"handing", "holding"} => Job(c) # "edit"
  PROVE  HoldInv'
BY StepHere, CarrySettled, SameRow, SameComposer

LEMMA DoneHold ==
  ASSUME Parts, HoldInv, UNCHANGED <<place, subs, row, composer, moving>>, NEW c \in Callers, Done(c)
  PROVE  HoldInv'
BY StepHere, DoneSettled, SameRow, SameComposer DEF Parts

LEMMA LetGoHold ==
  ASSUME Parts, HoldInv, UNCHANGED <<place, subs, composer, moving>>, NEW c \in Callers, LetGo(c)
  PROVE  HoldInv'
BY DoneHold DEF LetGo

\* The caller is done with the row: it goes, or says how things are.
LEMMA WrittenHold ==
  ASSUME Parts, HoldInv, UNCHANGED <<place, subs, composer, moving>>, NEW c \in Callers, Done(c),
         NEW m \in Row \cup {NoRow}, Write(m),
         m # NoRow /\ m.hold # "held" => Settled(m.copy)
  PROVE  HoldInv'
<1>1. m # NoRow => m.copy \in 0..MaxCopies
  BY DEF Row
<1>2. Forward => RowSettled'
  BY <1>1, StaysSettled, NewRow
<1> QED
  BY <1>2, StepHere, DoneSettled, SameComposer DEF Parts

\* A step of the server, of time, or of another install.
LEMMA WorldHold ==
  ASSUME Parts, HoldInv, Forward, ServerInv', UNCHANGED <<task, row, composer, moving>>
  PROVE  HoldInv'
<1>1. ASSUME NEW c \in Callers PROVE CallerSettled(c)'
  <2>1. CallerSettled(c) /\ Msg(c).copy \in 0..MaxCopies
    BY CallerNow DEF HoldInv
  <2> QED
    BY <2>1, StaysSettled DEF CallerSettled, Msg, Job, At
<1> QED
  BY <1>1, SameRow, SameComposer DEF HoldInv

----------------------------------------------------------------------------
(* Each step of a caller.                                                  *)

LEMMA TakeNamedHold ==
  ASSUME Parts, HoldInv, NEW c \in Callers, TakeNamed(c)
  PROVE  HoldInv'
<1> DEFINE held == Msg(c).hold # "none"
           m == IF Job(c) = "sendNow" THEN Msg(c) ELSE row
           label == CASE held -> IF m.hold = "mark" THEN "look" ELSE "ask"
                      [] ~held /\ Job(c) = "sendNow" -> "try"
                      [] ~held /\ Job(c) # "sendNow" /\ m.copy = 0 -> "saving"
                      [] OTHER -> "remove"
<1>1. UNCHANGED <<place, subs, composer, moving, row>>
  BY DEF TakeNamed, server, person, Carry, Done, Goto, store
<1>2. CASE Job(c) = "drop" /\ ~held
  <2>1. Goto(c, "remove")
    BY <1>2 DEF TakeNamed
  <2> QED
    BY <1>1, <2>1, StepHere, GotoSettled, SameRow, SameComposer DEF SettledAt
<1>3. CASE ~(Job(c) = "drop" /\ ~held) /\ Claimable
  <2>1. Carry(c, m, label)
    BY <1>3 DEF TakeNamed
  <2>2. m \in Row /\ (m.hold # "held" => Settled(m.copy))
    BY <1>3, CallerNow DEF Claimable, Parts, StoreOK, HoldInv, RowSettled
  <2>3. /\ label \in {"look", "ask", "try", "saving", "remove"}
        /\ label = "look" => m.hold # "held"
        /\ label = "try" => m.hold # "held"
        /\ label = "saving" => m.copy = 0
    OBVIOUS
  <2>4. label \in SettledAt => Settled(m.copy)
    BY <2>2, <2>3 DEF SettledAt, Settled
  <2> HIDE DEF m, label
  <2> QED
    BY <1>1, <2>1, <2>2, <2>3, <2>4, StepHere, CarrySettled, SameRow, SameComposer
<1>4. CASE ~(Job(c) = "drop" /\ ~held) /\ ~Claimable
  <2>1. Done(c)
    BY <1>4 DEF TakeNamed
  <2> QED
    BY <1>1, <2>1, StepHere, DoneSettled, SameRow, SameComposer DEF Parts
<1> QED
  BY <1>2, <1>3, <1>4

LEMMA HandOverHold ==
  ASSUME Parts, HoldInv, NEW c \in Callers, HandOver(c)
  PROVE  HoldInv'
<1>1. /\ Msg(c) \in Row /\ Settled(Msg(c).copy) /\ Job(c) # "edit" /\ now \in Time
      /\ Msg(c).copy \in 0..MaxCopies
  BY CallerNow DEF HandOver, At, SettledAt, Parts, RestOK
<1>2. UNCHANGED <<row, composer, moving>>
  BY DEF HandOver, store, person
<1> DEFINE label == IF Job(c) = "schedule" THEN "saving" ELSE "put"
           kept == Carry(c, Unheld(Msg(c)), label) /\ UNCHANGED server
           hold == \E k \in Copies : /\ MakeHold(k, Msg(c).at)
                                     /\ task' = [task EXCEPT ![c].got = k, ![c].pc = "holding"]
           lost == /\ UNCHANGED server \/ \E k \in Copies : MakeHold(k, Msg(c).at)
                   /\ Carry(c, Marked(Msg(c), now), "put")
<1>3. kept => HoldInv'
  <2> SUFFICES ASSUME kept PROVE HoldInv'
    OBVIOUS
  <2>1. Unheld(Msg(c)) \in Row /\ Settled(Unheld(Msg(c)).copy)
    BY <1>1, ZeroTime, UnheldType, HoldOf
  <2>2. Forward => LeavesOthers(c) /\ CallerSettled(c)'
    BY <2>1, CarrySettled, <1>1
  <2> QED
    BY <1>2, <2>2, StepHere, SameRow, SameComposer DEF server
<1>4. hold => HoldInv'
  <2> SUFFICES ASSUME NEW k \in Copies, MakeHold(k, Msg(c).at),
                      task' = [task EXCEPT ![c].got = k, ![c].pc = "holding"]
               PROVE  HoldInv'
    OBVIOUS
  <2>1. ServerInv' /\ Forward
    BY MakeHoldServer DEF Parts, HoldInv
  <2>2. LeavesOthers(c) /\ Becomes(c, "holding", Job(c), Msg(c))
    BY DEF Parts, TaskOK, Task, LeavesOthers, Becomes, Job, Msg
  <2>3. CallerSettled(c)'
    BY <1>1, <2>1, <2>2, StaysSettled DEF CallerSettled, Becomes, Msg, Job
  <2> QED
    BY <1>2, <2>1, <2>2, <2>3, HoldFrame, SameRow, SameComposer
<1>5. lost => HoldInv'
  <2> SUFFICES ASSUME lost PROVE HoldInv'
    OBVIOUS
  <2>1. ServerInv' /\ Forward
    BY MakeHoldServer, SameServer DEF Parts, HoldInv, server
  <2>2. Marked(Msg(c), now) \in Row /\ Settled(Marked(Msg(c), now).copy)
    BY <1>1, MarkedType, HoldOf
  <2>3. LeavesOthers(c) /\ CallerSettled(c)'
    BY <2>1, <2>2, CarrySettled, <1>1
  <2> QED
    BY <1>2, <2>1, <2>3, HoldFrame, SameRow, SameComposer
<1> QED
  BY <1>3, <1>4, <1>5 DEF HandOver

LEMMA TakeHoldHold ==
  ASSUME Parts, HoldInv, NEW c \in Callers, TakeHold(c)
  PROVE  HoldInv'
<1> DEFINE m == Msg(c)
           old == IF Job(c) = "drop" \/ m.copy = task[c].got THEN 0 ELSE m.copy
           label == IF At(c, "holding") \/ Job(c) = "pass" THEN "put" ELSE "ask"
<1>1. /\ m \in Row /\ Settled(m.copy) /\ task[c].got \in 0..MaxCopies
      /\ m.copy \in 0..MaxCopies /\ (At(c, "holding") => Job(c) # "edit")
  BY CallerNow DEF TakeHold, SettledAt, At
<1>2. old \in 0..MaxCopies /\ Settled(old) /\ 0 \in 0..MaxCopies
  BY <1>1, SendLaterAssumption DEF Settled
<1>3. ServerInv' /\ Forward
  BY <1>2, DestroyedServer, SameServer DEF TakeHold, Parts, HoldInv
<1>4. Adopted(m, task[c].got) \in Row /\ Adopted(m, task[c].got).hold = "held"
  BY <1>1, AdoptedType, HoldOf
<1>5. Carry(c, Adopted(m, task[c].got), label)
  BY DEF TakeHold
<1>6. label \in {"put", "ask"} /\ (label = "put" => Job(c) # "edit")
  BY <1>1
<1> HIDE DEF label
<1>7. LeavesOthers(c) /\ CallerSettled(c)'
  BY <1>3, <1>4, <1>5, <1>6, CarrySettled DEF SettledAt
<1>8. UNCHANGED <<row, composer, moving>>
  BY DEF TakeHold, store, person
<1> QED
  BY <1>3, <1>7, <1>8, HoldFrame, SameRow, SameComposer

LEMMA PutRowHold ==
  ASSUME Parts, HoldInv, NEW c \in Callers, PutRow(c)
  PROVE  HoldInv'
<1>1. /\ Msg(c) \in Row /\ Msg(c).copy \in 0..MaxCopies
      /\ Msg(c).hold # "held" \/ Job(c) = "edit" => Settled(Msg(c).copy)
  BY CallerNow DEF PutRow
<1>2. UNCHANGED <<place, subs>> /\ Write(Msg(c)) /\ Done(c)
  BY DEF PutRow, server
<1>3. Forward => RowSettled'
  BY <1>1, <1>2, StaysSettled, NewRow
<1>4. composer' = (IF Job(c) = "edit" THEN Msg(c).copy ELSE composer) /\ UNCHANGED moving
  BY DEF PutRow
<1>5. Forward => ComposerSettled'
  <2>1. CASE Job(c) = "edit"
    BY <2>1, <1>1, <1>4, StaysSettled, OpensSettled
  <2>2. CASE Job(c) # "edit"
    BY <2>2, <1>4, SameComposer
  <2> QED
    BY <2>1, <2>2
<1> QED
  BY <1>2, <1>3, <1>5, StepHere, DoneSettled DEF Parts

LEMMA SaveScheduledHold ==
  ASSUME Parts, HoldInv, NEW c \in Callers, SaveScheduled(c)
  PROVE  HoldInv'
<1>1. Msg(c) \in Row /\ Msg(c).copy \in 0..MaxCopies /\ Settled(Msg(c).copy) /\ Job(c) = "schedule"
  BY CallerNow DEF SaveScheduled, SettledAt, At
<1>2. UNCHANGED <<row, composer, moving>>
  BY DEF SaveScheduled, store, person
<1>3. ASSUME NEW k \in Copies, SaveOver(k, Msg(c).copy),
             Carry(c, [Msg(c) EXCEPT !.copy = k, !.raw = FALSE], "put")
      PROVE  HoldInv'
  <2>1. ServerInv' /\ Forward /\ Settled(k)'
    BY <1>1, <1>3, SaveOverServer DEF Parts, HoldInv
  <2>2. k \in 0..MaxCopies
    BY SendLaterAssumption DEF Copies
  <2>3. [Msg(c) EXCEPT !.copy = k, !.raw = FALSE] \in Row
    BY <1>1, <2>2 DEF Row
  <2>4. [Msg(c) EXCEPT !.copy = k, !.raw = FALSE].copy = k
    BY <1>1 DEF Row
  <2>5. LeavesOthers(c) /\ CallerSettled(c)'
    BY <1>3, <2>1, <2>3, <2>4, CarryNew
  <2> QED
    BY <1>2, <2>1, <2>5, HoldFrame, SameRow, SameComposer
<1>4. ASSUME NEW l \in {"put", "refused"}, Goto(c, l), UNCHANGED server
      PROVE  HoldInv'
  BY <1>1, <1>2, <1>4, GotoHold DEF server
<1> QED
  BY <1>3, <1>4 DEF SaveScheduled

LEMMA ScheduleRefusedHold ==
  ASSUME Parts, HoldInv, NEW c \in Callers, ScheduleRefused(c)
  PROVE  HoldInv'
<1>1. Msg(c).copy \in 0..MaxCopies /\ Settled(Msg(c).copy)
  BY CallerNow DEF ScheduleRefused, SettledAt, At
<1>2. /\ Write(NoRow) /\ Done(c) /\ UNCHANGED <<place, subs, moving>>
      /\ composer' = Msg(c).copy
  BY DEF ScheduleRefused, server
<1>3. Forward => ComposerSettled'
  BY <1>1, <1>2, StaysSettled, OpensSettled
<1> QED
  BY <1>1, <1>2, <1>3, NewRow, StepHere, DoneSettled DEF Parts

LEMMA PassDueHold ==
  ASSUME Parts, HoldInv, NEW c \in Callers, PassDue(c)
  PROVE  HoldInv'
<1>1. Settled(Msg(c).copy) /\ UNCHANGED <<place, subs, composer, moving>>
  BY CallerNow DEF PassDue, SettledAt, At, server, person
<1>2. (Goto(c, "try") /\ UNCHANGED store) \/ LetGo(c)
  BY DEF PassDue
<1> QED
  BY <1>1, <1>2, GotoHold, LetGoHold DEF store

LEMMA LookedNothingHold ==
  ASSUME Parts, HoldInv, NEW c \in Callers, At(c, "look"), LookedNothing(c),
         UNCHANGED <<place, subs, composer, moving>>
  PROVE  HoldInv'
<1> DEFINE m == Msg(c)
<1>1. m \in Row /\ Settled(m.copy)
  BY CallerNow DEF SettledAt, At
<1>2. \/ Goto(c, "unsure") /\ UNCHANGED store
      \/ Carry(c, [Unheld(m) EXCEPT !.tried = TRUE], "due") /\ UNCHANGED store
      \/ Carry(c, Unheld(m), "store") /\ UNCHANGED store
      \/ Carry(c, Unheld(m), "called") /\ UNCHANGED store
      \/ Goto(c, "remove") /\ UNCHANGED store
      \/ LetGo(c)
  BY DEF LookedNothing
<1>3. Unheld(m) \in Row /\ [Unheld(m) EXCEPT !.tried = TRUE] \in Row
  BY <1>1, UnheldType, RowWith
<1>4. [Unheld(m) EXCEPT !.tried = TRUE].copy = m.copy /\ Unheld(m).copy = m.copy
  BY <1>1, <1>3, CopyKept, HoldOf
<1> HIDE DEF m
<1>5. CASE Goto(c, "unsure") /\ UNCHANGED store
  BY <1>5, GotoHold DEF store, SettledAt
<1>6. CASE Carry(c, [Unheld(m) EXCEPT !.tried = TRUE], "due") /\ UNCHANGED store
  BY <1>1, <1>3, <1>4, <1>6, CarryHold DEF store
<1>7. CASE Carry(c, Unheld(m), "store") /\ UNCHANGED store
  BY <1>1, <1>3, <1>4, <1>7, CarryHold DEF store
<1>8. CASE Carry(c, Unheld(m), "called") /\ UNCHANGED store
  BY <1>1, <1>3, <1>4, <1>8, CarryHold DEF store
<1>9. CASE Goto(c, "remove") /\ UNCHANGED store
  BY <1>9, GotoHold DEF store, SettledAt
<1> QED
  BY <1>2, <1>5, <1>6, <1>7, <1>8, <1>9, LetGoHold

LEMMA UnreadableHold ==
  ASSUME Parts, HoldInv, NEW c \in Callers, Unreadable(c), UNCHANGED <<place, subs, composer, moving>>
  PROVE  HoldInv'
<1>1. ASSUME NEW l \in {"unsure", "remove"}, Goto(c, l), UNCHANGED store PROVE HoldInv'
  BY <1>1, GotoHold DEF store, SettledAt
<1> QED
  BY <1>1, LetGoHold DEF Unreadable

LEMMA LookHold ==
  ASSUME Parts, HoldInv, NEW c \in Callers, Look(c)
  PROVE  HoldInv'
<1>1. Msg(c) \in Row /\ Msg(c).copy \in 0..MaxCopies /\ Settled(Msg(c).copy)
  BY CallerNow DEF Look, SettledAt, At
<1>2. At(c, "look") /\ UNCHANGED <<place, subs, composer, moving>>
  BY DEF Look, server, person
<1>3. ASSUME NEW k, task' = [task EXCEPT ![c].got = k, ![c].pc = "found"], UNCHANGED store
      PROVE  HoldInv'
  <2>1. LeavesOthers(c) /\ Becomes(c, "found", Job(c), Msg(c))
    BY <1>3 DEF Parts, TaskOK, Task, LeavesOthers, Becomes, Job, Msg
  <2>2. Forward => CallerSettled(c)'
    BY <1>1, <2>1, StaysSettled DEF CallerSettled, Becomes, Msg, Job
  <2> QED
    BY <1>2, <1>3, <2>1, <2>2, StepHere, SameRow, SameComposer DEF store
<1> QED
  BY <1>2, <1>3, LookedNothingHold, UnreadableHold, LetGoHold DEF Look

LEMMA CalledBackHold ==
  ASSUME Parts, HoldInv, NEW c \in Callers, CalledBack(c)
  PROVE  HoldInv'
<1>1. Settled(Msg(c).copy) /\ UNCHANGED <<place, subs, row, composer, moving>>
  BY CallerNow DEF CalledBack, SettledAt, At, server, person, store
<1>2. PICK l \in {"restore", "forget", "elsewhere", "remove", "store"} : Goto(c, l)
  BY DEF CalledBack
<1> QED
  BY <1>1, <1>2, GotoHold

LEMMA StoreHold ==
  ASSUME Parts, HoldInv, NEW c \in Callers, Store(c)
  PROVE  HoldInv'
<1> DEFINE here == [Unheld(Msg(c)) EXCEPT !.tried = TRUE]
           m == IF Job(c) = "newHour"
                THEN Marked([here EXCEPT !.at = task[c].want], now) ELSE here
<1>1. Msg(c) \in Row /\ Settled(Msg(c).copy) /\ task[c].want \in Time /\ now \in Time
      /\ Msg(c).copy \in 0..MaxCopies
  BY CallerNow, CallerType DEF Store, SettledAt, At, Parts, RestOK
<1>2. here \in Row /\ here.copy = Msg(c).copy
  BY <1>1, UnheldType, RowWith, CopyKept, HoldOf
<1>3. [here EXCEPT !.at = task[c].want] \in Row /\ [here EXCEPT !.at = task[c].want].copy = Msg(c).copy
  BY <1>1, <1>2, RowWith, CopyKept
<1> HIDE DEF here
<1>4. m \in Row /\ m.copy = Msg(c).copy
  BY <1>1, <1>2, <1>3, MarkedType, HoldOf
<1>5. Write(m) /\ Carry(c, m, "reclaim") /\ UNCHANGED <<place, subs, composer, moving>>
  BY DEF Store, here, server, person
<1> HIDE DEF m
<1>6. Forward => RowSettled'
  BY <1>1, <1>4, <1>5, StaysSettled, NewRow
<1> QED
  BY <1>1, <1>4, <1>5, <1>6, StepHere, CarrySettled, SameComposer

LEMMA ReclaimHold ==
  ASSUME Parts, HoldInv, NEW c \in Callers, Reclaim(c)
  PROVE  HoldInv'
<1>1. Settled(Msg(c).copy) /\ UNCHANGED <<place, subs, row, composer, moving>>
  BY CallerNow DEF Reclaim, SettledAt, At, server, person, store
<1>2. CASE Claimable
  <2> DEFINE label == CASE Job(c) = "sendNow" -> "try"
                        [] Job(c) = "newHour" -> "handing"
                        [] OTHER -> "restore"
  <2>1. Goto(c, label) /\ label \in {"try", "handing", "restore"}
        /\ (label = "handing" => Job(c) # "edit")
    BY <1>2 DEF Reclaim
  <2> HIDE DEF label
  <2> QED
    BY <1>1, <2>1, GotoHold
<1>3. CASE ~Claimable
  BY <1>1, <1>3, DoneHold DEF Reclaim
<1> QED
  BY <1>2, <1>3

LEMMA StuckHold ==
  ASSUME Parts, HoldInv, NEW c \in Callers, Stuck(c)
  PROVE  HoldInv'
<1> DEFINE m == [Msg(c) EXCEPT !.tried = TRUE]
<1>1. Msg(c) \in Row /\ (Msg(c).hold # "held" => Settled(Msg(c).copy)) /\ 0 \in 0..MaxCopies
  BY CallerNow, SendLaterAssumption
<1>2. m \in Row /\ m.copy = Msg(c).copy /\ m.hold = Msg(c).hold
  BY <1>1, RowWith, CopyKept
<1>3. UNCHANGED <<place, subs, composer, moving>> /\ Done(c)
  BY DEF Stuck, server, person
<1> HIDE DEF m
<1>4. CASE Write([m EXCEPT !.problem = "checkSent"])
  <2>1. [m EXCEPT !.problem = "checkSent"] \in Row
    BY <1>2, RowWith DEF Problems
  <2>2. [m EXCEPT !.problem = "checkSent"].copy = m.copy /\ [m EXCEPT !.problem = "checkSent"].hold = m.hold
    BY <1>2 DEF Row
  <2> QED
    BY <1>1, <1>2, <1>3, <1>4, <2>1, <2>2, WrittenHold
<1>5. CASE Write([Unheld(m) EXCEPT !.copy = 0, !.problem = "elsewhere"])
  <2>1. Unheld(m) \in Row
    BY <1>2, UnheldType
  <2>2. [Unheld(m) EXCEPT !.copy = 0, !.problem = "elsewhere"] \in Row
        /\ [Unheld(m) EXCEPT !.copy = 0, !.problem = "elsewhere"].copy = 0
    BY <1>1, <2>1 DEF Row, Problems
  <2> QED
    BY <1>3, <1>5, <2>2, WrittenHold DEF Settled
<1> QED
  BY <1>4, <1>5 DEF Stuck, m

LEMMA CalledHold ==
  ASSUME Parts, HoldInv, NEW c \in Callers, Called(c)
  PROVE  HoldInv'
<1> DEFINE label == IF Msg(c).copy = 0 THEN "saving" ELSE "restore"
<1>1. Msg(c) \in Row /\ Msg(c).copy \in 0..MaxCopies /\ Settled(Msg(c).copy)
  BY CallerNow DEF Called, SettledAt, At
<1>2. Write(Msg(c)) /\ Goto(c, label) /\ UNCHANGED <<place, subs, composer, moving>>
  BY DEF Called, server, person
<1>3. label \notin {"handing", "holding"}
  OBVIOUS
<1> HIDE DEF label
<1>4. Forward => RowSettled'
  BY <1>1, <1>2, StaysSettled, NewRow
<1> QED
  BY <1>1, <1>2, <1>3, <1>4, StepHere, GotoSettled, SameComposer

LEMMA RestoreHold ==
  ASSUME Parts, HoldInv, NEW c \in Callers, Restore(c)
  PROVE  HoldInv'
<1>1. Msg(c) \in Row /\ Msg(c).copy \in 0..MaxCopies /\ Settled(Msg(c).copy)
  BY CallerNow DEF Restore, SettledAt, At
<1>2. UNCHANGED <<composer, moving>>
  BY DEF Restore, person
<1>3. ASSUME NEW k \in Copies, SaveOver(k, Msg(c).copy), UNCHANGED store,
             IF Job(c) = "edit" THEN Carry(c, [Msg(c) EXCEPT !.copy = k], "put")
                                ELSE Goto(c, "remove")
      PROVE  HoldInv'
  <2>1. ServerInv' /\ Forward /\ Settled(k)'
    BY <1>1, <1>3, SaveOverServer DEF Parts, HoldInv
  <2>2. k \in 0..MaxCopies
    BY SendLaterAssumption DEF Copies
  <2>3. [Msg(c) EXCEPT !.copy = k] \in Row /\ [Msg(c) EXCEPT !.copy = k].copy = k
    BY <1>1, <2>2 DEF Row
  <2>4. CASE Job(c) = "edit"
    <3>1. LeavesOthers(c) /\ CallerSettled(c)'
      BY <1>3, <2>1, <2>3, <2>4, CarryNew
    <3> QED
      BY <1>2, <1>3, <2>1, <3>1, HoldFrame, SameRow, SameComposer DEF store
  <2>5. CASE Job(c) # "edit"
    <3>1. LeavesOthers(c) /\ CallerSettled(c)'
      BY <1>3, <2>1, <2>5, GotoSettled DEF SettledAt
    <3> QED
      BY <1>2, <1>3, <2>1, <3>1, HoldFrame, SameRow, SameComposer DEF store
  <2> QED
    BY <2>4, <2>5
<1>4. ASSUME UNCHANGED server, UNCHANGED store, NEW l \in {"put", "unsaved"}, Goto(c, l)
      PROVE  HoldInv'
  BY <1>1, <1>2, <1>4, GotoHold DEF server, store
<1>5. ASSUME UNCHANGED server, Write(Unheld(Msg(c))), Goto(c, "unsaved")
      PROVE  HoldInv'
  <2>1. Unheld(Msg(c)) \in Row /\ Unheld(Msg(c)).copy = Msg(c).copy
    BY <1>1, UnheldType, HoldOf
  <2>2. Forward => RowSettled'
    BY <1>1, <1>5, <2>1, StaysSettled, NewRow
  <2>3. Forward => LeavesOthers(c) /\ CallerSettled(c)'
    BY <1>5, GotoSettled DEF SettledAt
  <2> QED
    BY <1>2, <1>5, <2>2, <2>3, StepHere, SameComposer DEF server
<1>6. \/ \E k \in Copies : /\ SaveOver(k, Msg(c).copy) /\ UNCHANGED store
                          /\ IF Job(c) = "edit" THEN Carry(c, [Msg(c) EXCEPT !.copy = k], "put")
                                                ELSE Goto(c, "remove")
      \/ UNCHANGED server /\ UNCHANGED store /\ \E l \in {"put", "unsaved"} : Goto(c, l)
      \/ UNCHANGED server /\ Write(Unheld(Msg(c))) /\ Goto(c, "unsaved")
  BY Zenon DEF Restore
<1> QED
  BY <1>3, <1>4, <1>5, <1>6

LEMMA ReopenedHold ==
  ASSUME Parts, HoldInv, NEW c \in Callers, Reopened(c)
  PROVE  HoldInv'
<1>1. composer' = 0 /\ Done(c) /\ UNCHANGED <<place, subs, moving>> /\ (Write(NoRow) \/ UNCHANGED row)
  BY DEF Reopened, server, store
<1>2. Forward => RowSettled'
  BY <1>1, NewRow, SameRow
<1>3. Forward => ComposerSettled'
  BY <1>1, OpensSettled DEF Settled
<1> QED
  BY <1>1, <1>2, <1>3, StepHere, DoneSettled DEF Parts

LEMMA RemoveRowHold ==
  ASSUME Parts, HoldInv, NEW c \in Callers, RemoveRow(c)
  PROVE  HoldInv'
<1>1. Write(NoRow) /\ Done(c) /\ UNCHANGED <<place, subs, composer, moving>>
  BY DEF RemoveRow, server
<1> QED
  BY <1>1, WrittenHold

LEMMA TryHold ==
  ASSUME Parts, HoldInv, NEW c \in Callers, Try(c)
  PROVE  HoldInv'
<1> DEFINE label == IF Msg(c).raw /\ Msg(c).tried THEN "lookSent" ELSE "send"
<1>1. Settled(Msg(c).copy) /\ Goto(c, label) /\ UNCHANGED <<place, subs, composer, moving>>
  BY CallerNow DEF Try, SettledAt, At, server, person
<1>2. label \notin {"handing", "holding"}
  OBVIOUS
<1>3. row' = row \/ (row # NoRow /\ row' = [row EXCEPT !.tried = TRUE])
  BY DEF Try
<1> HIDE DEF label
<1>4. row # NoRow => row \in Row /\ row.copy \in 0..MaxCopies
  BY DEF Parts, StoreOK, Row
<1>5. Forward => RowSettled'
  <2>1. CASE row' = row
    BY <2>1, SameRow
  <2>2. CASE row # NoRow /\ row' = [row EXCEPT !.tried = TRUE]
    BY <1>4, <2>2, CopyKept, StaysSettled DEF RowSettled, HoldInv
  <2> QED
    BY <1>3, <2>1, <2>2
<1> QED
  BY <1>1, <1>2, <1>5, StepHere, GotoSettled, SameComposer

\* A copy that is settled goes, and the caller goes on.
LEMMA DestroyHold ==
  ASSUME Parts, HoldInv, NEW c \in Callers, Settled(Msg(c).copy), place' = Destroyed(Msg(c).copy),
         NEW l, l \notin {"handing", "holding"}, Goto(c, l), UNCHANGED <<subs, row, composer, moving>>
  PROVE  HoldInv'
<1>1. Msg(c).copy \in 0..MaxCopies
  BY CallerNow
<1>2. ServerInv' /\ Forward
  BY <1>1, DestroyedServer DEF Parts, HoldInv
<1>3. LeavesOthers(c) /\ CallerSettled(c)'
  BY <1>2, GotoSettled
<1> QED
  BY <1>2, <1>3, HoldFrame, SameRow, SameComposer

LEMMA LookSentHold ==
  ASSUME Parts, HoldInv, NEW c \in Callers, LookSent(c)
  PROVE  HoldInv'
<1>1. Settled(Msg(c).copy) /\ UNCHANGED <<subs, row, composer, moving>>
  BY CallerNow DEF LookSent, SettledAt, At, store, person
<1>2. \E l \in {"forget", "send", "keep", "stick"} :
         Goto(c, l) /\ (place' = Destroyed(Msg(c).copy) \/ UNCHANGED place)
  BY DEF LookSent
<1> QED
  BY <1>1, <1>2, DestroyHold, GotoHold

LEMMA SendHold ==
  ASSUME Parts, HoldInv, NEW c \in Callers, Send(c)
  PROVE  HoldInv'
<1>1. Settled(Msg(c).copy) /\ UNCHANGED <<subs, row, composer, moving>>
  BY CallerNow DEF Send, SettledAt, At, store, person
<1>2. \E l \in {"forget", "keep", "stick"} :
         Goto(c, l) /\ (place' = Destroyed(Msg(c).copy) \/ UNCHANGED place)
  BY DEF Send
<1> QED
  BY <1>1, <1>2, DestroyHold, GotoHold

LEMMA ForgetHold ==
  ASSUME Parts, HoldInv, NEW c \in Callers, Forget(c)
  PROVE  HoldInv'
<1>1. Done(c) /\ UNCHANGED <<place, subs, composer, moving>> /\ (Write(NoRow) \/ UNCHANGED store)
  BY DEF Forget, server, person
<1> QED
  BY <1>1, WrittenHold, DoneHold DEF store

LEMMA KeepHold ==
  ASSUME Parts, HoldInv, NEW c \in Callers, Keep(c)
  PROVE  HoldInv'
<1> DEFINE problem == IF At(c, "keep") THEN "retry" ELSE "stuck"
           at == IF now < MaxTime THEN now + 1 ELSE MaxTime
           m == [Unheld(Msg(c)) EXCEPT !.tried = TRUE, !.problem = problem, !.at = at]
<1>1. Msg(c) \in Row /\ Msg(c).copy \in 0..MaxCopies /\ Settled(Msg(c).copy)
  BY CallerNow DEF Keep, SettledAt
<1>2. Done(c) /\ UNCHANGED <<place, subs, moving>>
  BY DEF Keep, server
<1>3. CASE composer' = Msg(c).copy /\ UNCHANGED store
  <2>1. Forward => ComposerSettled'
    BY <1>1, <1>2, <1>3, StaysSettled, OpensSettled
  <2> QED
    BY <1>1, <1>2, <1>3, <2>1, StepHere, DoneSettled, SameRow DEF Parts, store
<1>4. CASE Write(m) /\ UNCHANGED composer
  <2>1. Unheld(Msg(c)) \in Row /\ Unheld(Msg(c)).copy = Msg(c).copy
    BY <1>1, UnheldType, HoldOf
  <2>2. at \in Time
    BY SendLaterAssumption DEF Parts, RestOK, Time
  <2>3. problem \in Problems
    BY DEF Problems
  <2> HIDE DEF at, problem
  <2>4. m \in Row /\ m.copy = Msg(c).copy
    BY <2>1, <2>2, <2>3 DEF Row
  <2> QED
    BY <1>1, <1>2, <1>4, <2>4, WrittenHold
<1> QED
  BY <1>3, <1>4 DEF Keep

\* What the server says of a hold, and what its copy and submission are.
LEMMA StandingIs ==
  ASSUME ServerOK, ServerInv, NEW k \in 0..MaxCopies, NEW a
  PROVE  /\ k = 0 => Standing(k, a) = "unknown"
         /\ Standing(k, a) = "pending" => k \in Copies /\ subs[k] = "pending" /\ place[k] = "held"
         /\ k \in Copies /\ Standing(k, a) # "pending" => subs[k] # "pending"
         /\ Standing(k, a) = "notSent" => k \in Copies /\ place[k] # "unmade"
<1>1. k = 0 => Standing(k, a) = "unknown"
  BY DEF Standing
<1>2. CASE k = 0
  BY <1>1, <1>2 DEF Copies
<1>3. CASE k # 0
  <2>1. k \in Copies /\ subs[k] \in Standings /\ place[k] \in Places
    BY <1>3, SendLaterAssumption DEF Copies, ServerOK
  <2>2. Fate(k, a) \in {"sent", "notSent", "unknown"}
        /\ (Fate(k, a) = "notSent" => place[k] # "unmade")
    BY DEF Fate
  <2>3. /\ subs[k] = "pending" => place[k] = "held" /\ Standing(k, a) = "pending"
        /\ subs[k] # "none" => place[k] # "unmade"
    BY <2>1, <1>3 DEF ServerInv, HoldsShow, Made, Standing
  <2>4. subs[k] # "pending" =>
          Standing(k, a) = IF subs[k] = "final" THEN "sent"
                           ELSE IF subs[k] \in {"canceled", "theirs"} THEN "notSent" ELSE Fate(k, a)
    BY <1>3 DEF Standing
  <2> QED
    BY <1>3, <2>1, <2>2, <2>3, <2>4
<1> QED
  BY <1>2, <1>3

LEMMA AnsweredHold ==
  ASSUME Parts, HoldInv, Forward, ServerInv', UNCHANGED <<row, composer, moving>>, NEW c \in Callers,
         NEW standing, Answered(c, standing),
         NEW k, k = Msg(c).copy, standing = "notSent" => Settled(k)'
  PROVE  HoldInv'
<1>1. PICK l \in {"remove", "forget", "fate", "unsure"} :
         Goto(c, l) /\ (l = "fate" => standing = "notSent")
  BY DEF Answered
<1>2. LeavesOthers(c) /\ Becomes(c, l, Job(c), Msg(c)) /\ Msg(c).copy \in 0..MaxCopies
  BY <1>1, GotoIs, CallerNow DEF Parts
<1>3. Msg(c)' = Msg(c)
  BY <1>2 DEF Becomes, Msg
<1>4. CallerSettled(c)'
  <2>1. Msg(c).hold # "held" => Settled(k)'
    BY <1>2, CallerNow, StaysSettled
  <2>2. l = "fate" => Settled(k)'
    BY <1>1
  <2>3. Msg(c)'.copy = k
    BY <1>3
  <2> QED
    BY <1>1, <1>2, <1>3, <2>1, <2>2, <2>3 DEF CallerSettled, Becomes, Msg, Job, At, SettledAt
<1> QED
  BY <1>2, <1>4, HoldFrame, SameRow, SameComposer

LEMMA TakenOffServer ==
  ASSUME ServerOK, ServerInv, NEW k \in Copies, place[k] # "unmade",
         subs' = [subs EXCEPT ![k] = "canceled"] \/ (UNCHANGED subs /\ subs[k] # "pending"),
         place' \in {place, TakenOff(k), Filed(k)}
  PROVE  ServerInv' /\ Forward /\ Settled(k)'
BY DEF ServerOK, ServerInv, HoldsShow, Made, TakenOff, Filed, Forward, Settled

LEMMA AskHold ==
  ASSUME Parts, HoldInv, NEW c \in Callers, Ask(c)
  PROVE  HoldInv'
<1>k. PICK k : k = Msg(c).copy
  OBVIOUS
<1>says. PICK standing : standing = Standing(k, Msg(c).at)
  OBVIOUS
<1>1. /\ k \in 0..MaxCopies /\ ServerOK /\ ServerInv
      /\ UNCHANGED <<row, composer, moving>> \/ LetGo(c)
      /\ UNCHANGED <<composer, moving>>
  BY <1>k, CallerNow DEF Ask, Parts, HoldInv, store, person
<1>2. /\ k = 0 => standing = "unknown"
      /\ standing = "pending" => k \in Copies /\ subs[k] = "pending" /\ place[k] = "held"
      /\ k \in Copies /\ standing # "pending" => subs[k] # "pending"
      /\ standing = "notSent" => k \in Copies /\ place[k] # "unmade"
  BY <1>1, <1>says, StandingIs
<1>3. ASSUME LetGo(c), UNCHANGED <<place, subs>> PROVE HoldInv'
  BY <1>1, <1>3, LetGoHold
<1>4. ASSUME standing = "pending", subs' = [subs EXCEPT ![k] = "canceled"],
             place' \in {place, TakenOff(k)}
      PROVE  ServerInv' /\ Forward /\ Settled(k)'
  BY <1>1, <1>2, <1>4, TakenOffServer
<1>5. ASSUME standing = "pending", subs' = [subs EXCEPT ![k] = "canceled"], place' = TakenOff(k),
             Answered(c, "notSent"), UNCHANGED store
      PROVE  HoldInv'
  BY <1>1, <1>4, <1>5, <1>k, AnsweredHold DEF store
<1>6. ASSUME standing \in {"sent", "notSent", "unknown"}, Answered(c, standing), UNCHANGED store,
             UNCHANGED subs,
             \/ place' = CASE standing = "sent" -> Filed(k)
                           [] standing = "notSent" -> TakenOff(k)
                           [] OTHER -> place
             \/ standing = "sent" /\ UNCHANGED place
      PROVE  HoldInv'
  <2>1. CASE standing = "sent"
    <3>1. k \in Copies /\ subs[k] # "pending" /\ (place' = Filed(k) \/ place' = place)
      BY <1>1, <1>2, <1>6, <2>1, SendLaterAssumption DEF Copies
    <3>2. ServerInv' /\ Forward
      BY <1>1, <1>6, <3>1 DEF ServerOK, ServerInv, HoldsShow, Made, Filed, Forward
    <3> QED
      BY <1>1, <1>6, <2>1, <3>2, <1>k, AnsweredHold DEF store
  <2>2. CASE standing = "notSent"
    <3>1. ServerInv' /\ Forward /\ Settled(k)'
      BY <1>1, <1>2, <1>6, <2>2, TakenOffServer
    <3> QED
      BY <1>6, <2>2, <3>1, <1>1, <1>k, AnsweredHold DEF store
  <2>3. CASE standing = "unknown"
    <3>1. ServerInv' /\ Forward
      BY <1>1, <1>6, <2>3, SameServer
    <3> QED
      BY <1>1, <1>6, <2>3, <3>1, <1>k, AnsweredHold DEF store
  <2> QED
    BY <1>6, <2>1, <2>2, <2>3
<1>7. ASSUME UNCHANGED <<place, subs>> \/ (/\ standing = "pending"
                                          /\ subs' = [subs EXCEPT ![k] = "canceled"]
                                          /\ place' \in {place, TakenOff(k)}),
             LetGo(c) \/ (Goto(c, "remove") /\ UNCHANGED store)
      PROVE  HoldInv'
  <2>1. ServerInv' /\ Forward
    BY <1>1, <1>4, <1>7, SameServer
  <2>2. LeavesOthers(c) /\ CallerSettled(c)'
    BY <1>7, <2>1, DoneSettled, GotoSettled DEF LetGo, SettledAt, Parts
  <2>3. UNCHANGED row
    BY <1>7 DEF LetGo, store
  <2> QED
    BY <1>1, <2>1, <2>2, <2>3, HoldFrame, SameRow, SameComposer
<1>8. \/ LetGo(c) /\ UNCHANGED <<place, subs>>
      \/ /\ standing = "pending" /\ subs' = [subs EXCEPT ![k] = "canceled"]
         /\ place' = TakenOff(k) /\ Answered(c, "notSent") /\ UNCHANGED store
      \/ /\ standing \in {"sent", "notSent", "unknown"} /\ Answered(c, standing)
         /\ UNCHANGED store /\ UNCHANGED subs
         /\ \/ place' = CASE standing = "sent" -> Filed(k)
                            [] standing = "notSent" -> TakenOff(k)
                            [] OTHER -> place
            \/ standing = "sent" /\ UNCHANGED place
      \/ /\ UNCHANGED <<place, subs>> \/ (/\ standing = "pending"
                                         /\ subs' = [subs EXCEPT ![k] = "canceled"]
                                         /\ place' \in {place, TakenOff(k)})
         /\ LetGo(c) \/ (Goto(c, "remove") /\ UNCHANGED store)
  BY <1>k, <1>says DEF Ask, server, store
<1> QED
  BY <1>3, <1>5, <1>6, <1>7, <1>8

----------------------------------------------------------------------------
(* The pass, the person and the world.                                     *)

LEMMA PassStartHold == ASSUME Parts, HoldInv, PassStart PROVE HoldInv'
<1>1. Pass \in Callers /\ UNCHANGED <<place, subs, row, composer, moving>>
  BY DEF PassStart, Callers, store, server, person
<1>2. Start(Pass, "listed", "pass", row, now) /\ row \in Row /\ (row.hold # "held" => Settled(row.copy))
  BY DEF PassStart, Parts, StoreOK, HoldInv, RowSettled
<1> QED
  BY <1>1, <1>2, StepHere, StartSettled, SameRow, SameComposer DEF SettledAt

LEMMA PassClaimHold == ASSUME Parts, HoldInv, PassClaim PROVE HoldInv'
<1>1. Pass \in Callers /\ UNCHANGED <<place, subs, row, composer, moving>>
  BY DEF PassClaim, Callers, store, server, person
<1>2. CASE Claimable
  <2>1. row \in Row /\ (row.hold # "held" => Settled(row.copy)) /\ row.hold \in {"none", "mark", "held"}
    BY <1>2 DEF Claimable, Parts, StoreOK, HoldInv, RowSettled, Row
  <2>2. /\ Route(row) \in {"look", "ask", "due"}
        /\ Route(row) \in {"look", "due"} => row.hold # "held"
    BY <2>1 DEF Route
  <2>3. Carry(Pass, row, Route(row))
    BY <1>2 DEF PassClaim
  <2> QED
    BY <1>1, <2>1, <2>2, <2>3, CarryHold DEF SettledAt
<1>3. CASE ~Claimable
  BY <1>1, <1>3, DoneHold DEF PassClaim
<1> QED
  BY <1>2, <1>3

LEMMA AdoptHold == ASSUME Parts, HoldInv, NEW k \in Copies, Adopt(k) PROVE HoldInv'
<1>1. Pass \in Callers /\ UNCHANGED <<subs, row, composer, moving>> /\ place[k] = "held"
  BY DEF Adopt, Callers, store, person
<1>2. CASE subs[k] = "pending"
  <2>1. Start(Pass, "put", "pass", Adopted(Plain(hour[k], k), k), now) /\ UNCHANGED place
    BY <1>2 DEF Adopt
  <2>2. hour[k] \in Time /\ k \in 0..MaxCopies
    BY SendLaterAssumption DEF Parts, ServerOK, Copies
  <2>3. Adopted(Plain(hour[k], k), k) \in Row /\ Adopted(Plain(hour[k], k), k).hold = "held"
    BY <2>2, PlainType, AdoptedType, HoldOf
  <2> QED
    BY <1>1, <2>1, <2>3, StepHere, StartSettled, SameRow, SameComposer DEF SettledAt
<1>3. CASE subs[k] # "pending"
  <2>1. place' \in {Filed(k), TakenOff(k)} /\ UNCHANGED task
    BY <1>3 DEF Adopt
  <2>2. ServerInv' /\ Forward
    BY <1>1, <1>3, <2>1, TakenOffServer DEF Parts, HoldInv
  <2> QED
    BY <1>1, <2>1, <2>2, WorldHold
<1> QED
  BY <1>2, <1>3

LEMMA ScheduleHold ==
  ASSUME Parts, HoldInv, NEW c \in People, NEW at \in Time, Schedule(c, at)
  PROVE  HoldInv'
<1> DEFINE m == Marked(Plain(at, composer), now)
<1>1. /\ c \in Callers /\ composer # Closed /\ composer \in 0..MaxCopies /\ Settled(composer)
      /\ now \in Time
  BY DEF Schedule, Callers, Parts, PersonOK, RestOK, HoldInv, ComposerSettled
<1>2. m \in Row /\ m.copy = composer
  BY <1>1, PlainType, MarkedType, HoldOf
<1>3. /\ Write(m) /\ Start(c, "handing", "schedule", m, at) /\ composer' = Closed
      /\ UNCHANGED <<place, subs, moving>>
  BY DEF Schedule, server
<1> HIDE DEF m
<1>4. Forward => RowSettled'
  BY <1>1, <1>2, <1>3, StaysSettled, NewRow
<1>5. Forward => LeavesOthers(c) /\ CallerSettled(c)'
  BY <1>1, <1>2, <1>3, StartSettled
<1>6. Forward => ComposerSettled'
  BY <1>3, OpensSettled
<1> QED
  BY <1>1, <1>3, <1>4, <1>5, <1>6, StepHere

LEMMA HoldUnchangedHold ==
  ASSUME Parts, HoldInv, NEW c \in People, HoldUnchanged(c)
  PROVE  HoldInv'
<1>1. c \in Callers /\ row \in Row /\ row.copy \in 0..MaxCopies /\ now \in Time
  BY DEF HoldUnchanged, Callers, Parts, StoreOK, RestOK, Row
<1>2. composer' = Closed /\ UNCHANGED <<place, subs, moving>>
  BY DEF HoldUnchanged, server
<1>3. Forward => ComposerSettled'
  BY <1>2, OpensSettled
<1>4. CASE row.hold = "none" /\ Write(Marked(row, now))
           /\ Start(c, "handing", "unchanged", Marked(row, now), row.at)
  <2>1. Marked(row, now) \in Row /\ Marked(row, now).copy = row.copy /\ Settled(row.copy)
    BY <1>1, <1>4, MarkedType, HoldOf DEF HoldInv, RowSettled, HoldUnchanged
  <2>2. Forward => RowSettled'
    BY <1>1, <1>4, <2>1, StaysSettled, NewRow
  <2>3. Forward => LeavesOthers(c) /\ CallerSettled(c)'
    BY <1>1, <1>4, <2>1, StartSettled
  <2> QED
    BY <1>1, <1>2, <1>3, <2>2, <2>3, StepHere
<1>5. CASE UNCHANGED <<store, task>>
  <2>1. LeavesOthers(c) /\ (Forward => CallerSettled(c)')
    <3>1. CallerSettled(c) /\ Msg(c).copy \in 0..MaxCopies
      BY <1>1, CallerNow DEF HoldInv
    <3> QED
      BY <1>5, <3>1, StaysSettled DEF CallerSettled, Msg, Job, At, LeavesOthers
  <2> QED
    BY <1>1, <1>2, <1>3, <1>5, <2>1, StepHere, SameRow DEF store
<1> QED
  BY <1>4, <1>5 DEF HoldUnchanged

LEMMA NameHold ==
  ASSUME Parts, HoldInv, NEW c, NEW job, NEW want, Name(c, job, want)
  PROVE  HoldInv'
<1>1. c \in Callers /\ UNCHANGED <<place, subs, row, composer, moving>>
  BY DEF Name, Callers, store, server
<1>2. Start(c, "named", job, row, want) /\ row \in Row /\ (row.hold # "held" => Settled(row.copy))
  BY DEF Name, Parts, StoreOK, HoldInv, RowSettled
<1> QED
  BY <1>1, <1>2, StepHere, StartSettled, SameRow, SameComposer DEF SettledAt

LEMMA PostHold == ASSUME Parts, HoldInv, NEW c \in People, Post(c) PROVE HoldInv'
<1>1. /\ c \in Callers /\ composer # Closed /\ composer \in 0..MaxCopies /\ Settled(composer)
      /\ now \in Time
  BY DEF Post, Callers, Parts, PersonOK, RestOK, HoldInv, ComposerSettled
<1>2. Plain(now, composer) \in Row /\ Plain(now, composer).copy = composer
  BY <1>1, PlainType, HoldOf
<1>3. /\ Start(c, "try", "post", Plain(now, composer), 0) /\ composer' = Closed
      /\ UNCHANGED <<place, subs, row, moving>>
  BY DEF Post, server, store
<1>4. Forward => LeavesOthers(c) /\ CallerSettled(c)'
  BY <1>1, <1>2, <1>3, StartSettled
<1>5. Forward => ComposerSettled'
  BY <1>3, OpensSettled
<1> QED
  BY <1>1, <1>3, <1>4, <1>5, StepHere, SameRow

LEMMA SaveEditHold == ASSUME Parts, HoldInv, SaveEdit PROVE HoldInv'
<1>1. composer \in 0..MaxCopies /\ Settled(composer) /\ UNCHANGED <<task, row>>
  BY DEF SaveEdit, Parts, PersonOK, HoldInv, ComposerSettled, store
<1>2. PICK k \in Copies : /\ SaveOver(k, composer) /\ composer' = k
                          /\ moving' \subseteq moving \cup {<<composer, k>>}
  BY DEF SaveEdit
<1>3. ServerInv' /\ Forward /\ Settled(k)'
  BY <1>1, <1>2, SaveOverServer DEF Parts, HoldInv
<1>4. \A saved \in moving' : Settled(saved[2])'
  <2>1. \A saved \in moving : saved[2] \in 0..MaxCopies /\ Settled(saved[2])
    BY DEF Parts, PersonOK, Copies, HoldInv, ComposerSettled
  <2>2. \A j \in 0..MaxCopies : Settled(j) => Settled(j)'
    BY <1>3, StaysSettled
  <2>3. TAKE saved \in moving'
  <2>4. CASE saved = <<composer, k>>
    BY <1>3, <2>4
  <2>5. CASE saved \in moving
    BY <2>1, <2>2, <2>5
  <2> QED
    BY <1>2, <2>4, <2>5
<1>5. ComposerSettled'
  BY <1>2, <1>3, <1>4 DEF ComposerSettled
<1>6. Pass \in Callers /\ LeavesOthers(Pass)
  BY <1>1 DEF Callers, LeavesOthers
<1>7. CallerSettled(Pass)'
  <2>1. CallerSettled(Pass) /\ Msg(Pass).copy \in 0..MaxCopies
    BY <1>6, CallerNow DEF HoldInv
  <2> QED
    BY <1>1, <1>3, <2>1, StaysSettled DEF CallerSettled, Msg, Job, At
<1> QED
  BY <1>1, <1>3, <1>5, <1>6, <1>7, HoldFrame, SameRow

LEMMA DraftSavedHold == ASSUME Parts, HoldInv, DraftSaved PROVE HoldInv'
<1>1. /\ UNCHANGED <<task, composer, place, subs>> /\ moving' \subseteq moving
      /\ UNCHANGED row \/ \E saved \in moving : row'.copy = saved[2]
  BY DraftSavedRow
<1>2. ServerInv' /\ Forward
  BY <1>1, SameServer DEF HoldInv
<1>3. \A k : Settled(k)' <=> Settled(k)
  BY <1>1 DEF Settled
<1>4. ComposerSettled'
  BY <1>1, <1>3 DEF HoldInv, ComposerSettled
<1>5. RowSettled'
  BY <1>1, <1>2, <1>3, SameRow DEF HoldInv, RowSettled, ComposerSettled
<1>6. Pass \in Callers /\ LeavesOthers(Pass) /\ CallerSettled(Pass)'
  BY <1>1, <1>3 DEF Callers, LeavesOthers, HoldInv, CallerSettled, Msg, Job, At
<1> QED
  BY <1>2, <1>4, <1>5, <1>6, HoldFrame

LEMMA ServerStepHold ==
  ASSUME Parts, HoldInv, NEW k \in Copies,
         ServerSends(k) \/ ServerForgets(k) \/ OtherCancels(k) \/ OtherDeletes(k) \/ OtherSends(k)
  PROVE  HoldInv'
<1>1. UNCHANGED <<task, row, composer, moving>>
  BY DEF ServerSends, ServerForgets, OtherCancels, OtherDeletes, OtherSends, store, person
<1>2. k \in 0..MaxCopies /\ ServerOK /\ ServerInv
  BY SendLaterAssumption DEF Copies, Parts, HoldInv
<1>3. ServerSends(k) => ServerInv' /\ Forward
  BY <1>2 DEF ServerSends, ServerOK, ServerInv, HoldsShow, Made, Forward
<1>4. ServerForgets(k) => ServerInv' /\ Forward
  BY <1>2 DEF ServerForgets, ServerOK, ServerInv, HoldsShow, Made, Forward
<1>5. OtherCancels(k) => ServerInv' /\ Forward
  BY <1>2 DEF OtherCancels, TakenOff, ServerOK, ServerInv, HoldsShow, Made, Forward
<1>6. OtherDeletes(k) \/ OtherSends(k) => ServerInv' /\ Forward
  <2> SUFFICES ASSUME OtherDeletes(k) \/ OtherSends(k) PROVE ServerInv' /\ Forward
    OBVIOUS
  <2>1. Settled(k) /\ place' = Destroyed(k) /\ UNCHANGED subs
    BY DEF OtherDeletes, OtherSends, Settled
  <2> QED
    BY <1>2, <2>1, DestroyedServer
<1>7. ServerInv' /\ Forward
  BY <1>3, <1>4, <1>5, <1>6
<1> QED
  BY <1>1, <1>7, WorldHold

LEMMA TickHold == ASSUME Parts, HoldInv, Tick PROVE HoldInv'
<1>1. UNCHANGED <<task, row, composer, moving, place, subs>>
  BY DEF Tick, store, person, server
<1> QED
  BY <1>1, SameServer, WorldHold DEF HoldInv

LEMMA CallerDiesHold == ASSUME Parts, HoldInv, NEW c \in Callers, CallerDies(c) PROVE HoldInv'
BY DoneHold DEF CallerDies, store, person, server

LEMMA CrashHold == ASSUME Parts, HoldInv, Crash PROVE HoldInv'
<1>1. UNCHANGED <<row, place, subs>> /\ composer' = Closed /\ moving' = {} /\ task' = [c \in Callers |-> Idle]
  BY DEF Crash, store, server
<1>2. ServerInv' /\ Forward
  BY <1>1, SameServer DEF HoldInv
<1>3. \A c \in Callers : CallerSettled(c)'
  BY <1>1 DEF CallerSettled, Idle, Plain, Msg, Job, At, Settled
<1> QED
  BY <1>1, <1>2, <1>3, SameRow DEF HoldInv, ComposerSettled

LEMMA InitHold == Init => HoldInv
<1> SUFFICES ASSUME Init PROVE HoldInv
  OBVIOUS
<1>1. PICK start \in Starts :
        /\ place = [k \in Copies |-> IF k # 1 \/ start = "unsaved" THEN "unmade"
                                     ELSE IF start = "draft" THEN "draft" ELSE "held"]
        /\ composer = CASE start = "unsaved" -> 0 [] start = "draft" -> 1 [] OTHER -> Closed
  BY DEF Init
<1>2. subs = [k \in Copies |-> IF place[k] = "held" THEN "pending" ELSE "none"]
  BY DEF Init
<1>3. ServerInv
  BY <1>2 DEF ServerInv, HoldsShow, Made
<1>4. RowSettled
  BY DEF Init, RowSettled
<1>5. 1 \in Copies
  BY SendLaterAssumption DEF Copies
<1>6. ComposerSettled
  <2>1. moving = {}
    BY DEF Init
  <2> QED
    BY <1>1, <1>2, <1>5, <2>1, SendLaterAssumption DEF ComposerSettled, Settled, Closed
<1>7. \A c \in Callers : CallerSettled(c)
  BY DEF Init, CallerSettled, Idle, Plain, Msg, Job, At, Settled
<1> QED
  BY <1>3, <1>4, <1>6, <1>7 DEF HoldInv

LEMMA StepHold == ASSUME Parts, HoldInv, NEW c \in Callers, Step(c) PROVE HoldInv'
BY TakeNamedHold, HandOverHold, TakeHoldHold, PutRowHold, SaveScheduledHold, ScheduleRefusedHold,
   PassDueHold, LookHold, AskHold, CalledBackHold, StoreHold, ReclaimHold, StuckHold,
   CalledHold, RestoreHold, ReopenedHold, RemoveRowHold, TryHold, LookSentHold, SendHold,
   ForgetHold, KeepHold DEF Step

LEMMA NextHold == Parts /\ HoldInv /\ [Next]_vars => HoldInv'
<1> SUFFICES ASSUME Parts, HoldInv, [Next]_vars PROVE HoldInv'
  OBVIOUS
<1>1. CASE PassStep
  BY <1>1, PassStartHold, PassClaimHold, AdoptHold DEF PassStep
<1>2. CASE \E c \in Callers : Step(c)
  BY <1>2, StepHold
<1>3. CASE Asked
  <2> USE DEF Asked
  <2>1. CASE \E c \in People : \/ SendNow(c) \/ Cancel(c) \/ Edit(c) \/ Drop(c)
                               \/ \E at \in Time : NewHour(c, at)
    BY <2>1, NameHold DEF SendNow, Cancel, Edit, Drop, NewHour
  <2>2. CASE \E c \in People : Post(c) \/ HoldUnchanged(c) \/ \E at \in Time : Schedule(c, at)
    BY <2>2, PostHold, HoldUnchangedHold, ScheduleHold
  <2>3. CASE SaveEdit \/ DraftSaved
    BY <2>3, SaveEditHold, DraftSavedHold
  <2> QED
    BY <1>3, <2>1, <2>2, <2>3
<1>4. CASE Environment
  BY <1>4, TickHold, CrashHold, CallerDiesHold, ServerStepHold DEF Environment
<1>5. CASE UNCHANGED vars
  <2>1. UNCHANGED <<task, row, composer, moving, place, subs>>
    BY <1>5 DEF vars
  <2> QED
    BY <2>1, SameServer, WorldHold DEF HoldInv
<1> QED
  BY <1>1, <1>2, <1>3, <1>4, <1>5 DEF Next

LEMMA AlwaysHold == Spec => [](Parts /\ HoldInv)
<1>1. Parts /\ HoldInv /\ [Next]_vars => (Parts /\ HoldInv)'
  BY NextType, NextHold
<1> QED
  BY <1>1, InitType, InitHold, PTL DEF Spec

\* What the server will still send shows in Drafts, with its keyword, whatever
\* the callers, the person and other installs do and whatever fails: nothing in
\* outbox.rs or held.rs destroys a copy before its submission is called back.
THEOREM HoldsAlwaysShow == Spec => []HoldsShow
<1>1. HoldInv => HoldsShow
  BY DEF HoldInv, ServerInv
<1> QED
  BY <1>1, AlwaysHold, PTL

\* What a row stands for without a hold, and what a composer has open, is no
\* copy the server will send: outbox.rs calls a hold back before its row loses
\* the handle, so that sending from here never meets a send over there. Nor is a
\* draft saved again, of which such a row is told later (draft_saved).
THEOREM OnlyHeldRowsWait == Spec => [](RowSettled /\ ComposerSettled)
<1>1. HoldInv => RowSettled /\ ComposerSettled
  BY DEF HoldInv
<1> QED
  BY <1>1, AlwaysHold, PTL
=============================================================================
