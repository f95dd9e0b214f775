---------------------------- MODULE EventsProofs ----------------------------
(***************************************************************************)
(* What holds of Events for every number of accounts, ids and events, and  *)
(* every size of the channel.                                              *)
(***************************************************************************)
EXTENDS Events, TLAPS

----------------------------------------------------------------------------
(* Sequences.                                                              *)

LEMMA AppendIs ==
  ASSUME NEW S, NEW q \in Seq(S), NEW e \in S
  PROVE  /\ Append(q, e) \in Seq(S) /\ Len(Append(q, e)) = Len(q) + 1
         /\ DOMAIN Append(q, e) = DOMAIN q \cup {Len(q) + 1}
         /\ \A i \in DOMAIN q : Append(q, e)[i] = q[i]
         /\ Append(q, e)[Len(q) + 1] = e
OBVIOUS

LEMMA AppendElements ==
  ASSUME NEW S, NEW q \in Seq(S), NEW e \in S
  PROVE  Elements(Append(q, e)) = Elements(q) \cup {e}
<1>1. \A f \in Elements(Append(q, e)) : f \in Elements(q) \cup {e}
  BY AppendIs DEF Elements
<1>2. \A f \in Elements(q) \cup {e} : f \in Elements(Append(q, e))
  BY AppendIs DEF Elements
<1> QED
  BY <1>1, <1>2

LEMMA TailElements ==
  ASSUME NEW S, NEW q \in Seq(S), q # <<>>
  PROVE  /\ Tail(q) \in Seq(S) /\ Head(q) \in S /\ Len(Tail(q)) = Len(q) - 1
         /\ \A i \in DOMAIN Tail(q) : i + 1 \in DOMAIN q /\ Tail(q)[i] = q[i + 1]
         /\ Elements(q) = {Head(q)} \cup Elements(Tail(q))
<1>1. /\ Len(q) \in Nat \ {0} /\ Len(Tail(q)) = Len(q) - 1 /\ Head(q) = q[1]
      /\ Tail(q) \in Seq(S) /\ DOMAIN q = 1..Len(q) /\ DOMAIN Tail(q) = 1..(Len(q) - 1)
      /\ \A i \in 1..(Len(q) - 1) : Tail(q)[i] = q[i + 1]
  OBVIOUS
<1>2. \A f \in Elements(q) : f \in {Head(q)} \cup Elements(Tail(q))
  <2> TAKE f \in Elements(q)
  <2>1. PICK i \in 1..Len(q) : f = q[i]
    BY <1>1 DEF Elements
  <2>2. CASE i = 1
    BY <1>1, <2>1, <2>2
  <2>3. CASE i # 1
    <3>1. i - 1 \in 1..(Len(q) - 1) /\ Tail(q)[i - 1] = q[(i - 1) + 1] /\ (i - 1) + 1 = i
      BY <1>1, <2>1, <2>3
    <3> QED
      BY <1>1, <2>1, <3>1 DEF Elements
  <2> QED
    BY <2>2, <2>3
<1>3. \A f \in {Head(q)} \cup Elements(Tail(q)) : f \in Elements(q)
  BY <1>1 DEF Elements
<1> QED
  BY <1>1, <1>2, <1>3

\* What RemoveAt leaves, and where.
LEMMA RemoveAtIs ==
  ASSUME NEW S, NEW q \in Seq(S), NEW i \in DOMAIN q
  PROVE  /\ RemoveAt(q, i) \in Seq(S)
         /\ DOMAIN RemoveAt(q, i) = 1..(Len(q) - 1)
         /\ \A k \in 1..(Len(q) - 1) :
               RemoveAt(q, i)[k] = IF k < i THEN q[k] ELSE q[k + 1]
<1> DEFINE before == SubSeq(q, 1, i - 1)
           after  == SubSeq(q, i + 1, Len(q))
<1>1. i \in 1..Len(q) /\ Len(q) \in Nat
  OBVIOUS
<1>2. /\ before \in Seq(S) /\ Len(before) = i - 1
      /\ \A k \in 1..(i - 1) : before[k] = q[k]
  BY <1>1
<1>3. /\ after \in Seq(S) /\ Len(after) = Len(q) - i
      /\ \A k \in 1..(Len(q) - i) : after[k] = q[i + k]
  BY <1>1
<1> HIDE DEF before, after
<1>4. /\ before \o after \in Seq(S) /\ Len(before \o after) = Len(q) - 1
      /\ \A k \in 1..(Len(q) - 1) :
            (before \o after)[k] = IF k <= i - 1 THEN before[k] ELSE after[k - (i - 1)]
  <2>1. before \in Seq(S) /\ after \in Seq(S) /\ Len(before) + Len(after) = Len(q) - 1
    BY <1>1, <1>2, <1>3
  <2>2. before \o after \in Seq(S) /\ Len(before \o after) = Len(before) + Len(after)
    BY <2>1
  <2>3. \A k \in 1..(Len(before) + Len(after)) :
            (before \o after)[k] = IF k <= Len(before) THEN before[k] ELSE after[k - Len(before)]
    BY <2>1
  <2> QED
    BY <1>2, <2>1, <2>2, <2>3
<1>5. \A k \in 1..(Len(q) - 1) : (before \o after)[k] = IF k < i THEN q[k] ELSE q[k + 1]
  <2> TAKE k \in 1..(Len(q) - 1)
  <2>1. CASE k < i
    BY <1>1, <1>2, <1>4, <2>1
  <2>2. CASE ~(k < i)
    <3>1. k - (i - 1) \in 1..(Len(q) - i) /\ i + (k - (i - 1)) = k + 1 /\ ~(k <= i - 1)
      BY <1>1, <2>2
    <3> QED
      BY <1>3, <1>4, <2>2, <3>1
  <2> QED
    BY <2>1, <2>2
<1>6. RemoveAt(q, i) = before \o after
  BY DEF RemoveAt, before, after
<1> QED
  BY <1>1, <1>4, <1>5, <1>6

----------------------------------------------------------------------------
(* The queue.                                                              *)

\* One account's events, at most one of each kind but the notice.
Queue(q, a) ==
    /\ q \in Seq(Event)
    /\ \A i \in DOMAIN q : q[i].account = a
    /\ \A i, j \in DOMAIN q : q[i].kind = q[j].kind /\ q[i].kind # "notice" => i = j

\* What the events of a sequence name.
Names(q) == UNION {About(e) : e \in Elements(q)}

LEMMA AppendQueue ==
  ASSUME NEW a \in Accounts, NEW q, Queue(q, a), NEW e \in Event, e.account = a,
         e.kind # "notice" => \A i \in DOMAIN q : q[i].kind # e.kind
  PROVE  Queue(Append(q, e), a) /\ Names(Append(q, e)) = Names(q) \cup About(e)
<1>1. q \in Seq(Event)
  BY DEF Queue
<1>2. Names(Append(q, e)) = Names(q) \cup About(e)
  BY <1>1, AppendElements DEF Names
<1>3. Queue(Append(q, e), a)
  BY <1>1, AppendIs DEF Queue
<1> QED
  BY <1>2, <1>3

\* A wait names nothing to read again, so the one that is dropped loses nothing.
LEMMA WithoutWait ==
  ASSUME NEW a \in Accounts, NEW q, Queue(q, a), NEW i \in DOMAIN q, q[i].kind = "wait"
  PROVE  /\ Queue(RemoveAt(q, i), a)
         /\ \A k \in DOMAIN RemoveAt(q, i) : RemoveAt(q, i)[k].kind # "wait"
         /\ Names(q) \subseteq Names(RemoveAt(q, i))
<1> DEFINE r == RemoveAt(q, i)
           From(k) == IF k < i THEN k ELSE k + 1
<1>1. /\ q \in Seq(Event) /\ Len(q) \in Nat /\ i \in 1..Len(q) /\ DOMAIN q = 1..Len(q)
  BY DEF Queue
<1>2. r \in Seq(Event) /\ DOMAIN r = 1..(Len(q) - 1)
  BY <1>1, RemoveAtIs
<1>3. \A k \in DOMAIN r : r[k] = q[From(k)] /\ From(k) \in DOMAIN q /\ From(k) # i
  <2>1. \A k \in 1..(Len(q) - 1) : r[k] = IF k < i THEN q[k] ELSE q[k + 1]
    BY <1>1, RemoveAtIs
  <2>2. \A k \in 1..(Len(q) - 1) : From(k) \in 1..Len(q) /\ From(k) # i
    BY <1>1
  <2> HIDE DEF r
  <2> QED
    BY <1>1, <1>2, <2>1, <2>2
<1>4. \A j, k \in DOMAIN r : From(j) = From(k) => j = k
  BY <1>1, <1>2
<1>5. \A k \in DOMAIN q \ {i} : \E j \in DOMAIN r : From(j) = k
  <2> TAKE k \in DOMAIN q \ {i}
  <2>1. CASE k < i
    BY <1>1, <1>2, <2>1
  <2>2. CASE ~(k < i)
    <3>1. k - 1 \in DOMAIN r /\ From(k - 1) = k
      BY <1>1, <1>2, <2>2
    <3> QED
      BY <3>1
  <2> QED
    BY <2>1, <2>2
<1> HIDE DEF From, r
<1>6. Queue(r, a)
  BY <1>2, <1>3, <1>4 DEF Queue
<1>7. \A k \in DOMAIN r : r[k].kind # "wait"
  BY <1>3 DEF Queue
<1>8. ASSUME NEW e \in Elements(q), NEW part \in About(e) PROVE part \in Names(r)
  <2>1. PICK k \in DOMAIN q : e = q[k]
    BY <1>8 DEF Elements
  <2>2. k # i
    <3> SUFFICES ASSUME k = i PROVE FALSE
      OBVIOUS
    <3>1. e.kind = "wait"
      BY <2>1
    <3> QED
      BY <1>8, <3>1, EventsAssumption DEF About
  <2>3. PICK j \in DOMAIN r : From(j) = k
    BY <1>5, <2>2
  <2>4. e \in Elements(r)
    BY <1>3, <2>1, <2>3 DEF Elements
  <2> QED
    BY <1>8, <2>4 DEF Names
<1>9. Names(q) \subseteq Names(r)
  BY <1>8 DEF Names
<1> QED
  BY <1>6, <1>7, <1>9 DEF r

\* merge keeps a queue a queue and names all that was named, and the new event's.
LEMMA MergeKeeps ==
  ASSUME NEW a \in Accounts, NEW q, Queue(q, a), NEW e \in Event, e.account = a
  PROVE  Queue(Merge(q, e), a) /\ Names(q) \cup About(e) \subseteq Names(Merge(q, e))
<1>1. CASE e.kind = "wait"
  <2>1. Merge(q, e) = NewWait(q, e)
    BY <1>1 DEF Merge
  <2>2. CASE \E i \in DOMAIN q : SameWait(q[i], e)
    <3> DEFINE i == CHOOSE i \in DOMAIN q : SameWait(q[i], e)
    <3>1. i \in DOMAIN q /\ SameWait(q[i], e)
      BY <2>2
    <3>2. Merge(q, e) = Append(RemoveAt(q, i), e)
      BY <2>1, <2>2 DEF NewWait
    <3> HIDE DEF i
    <3>3. /\ Queue(RemoveAt(q, i), a) /\ Names(q) \subseteq Names(RemoveAt(q, i))
          /\ \A k \in DOMAIN RemoveAt(q, i) : RemoveAt(q, i)[k].kind # "wait"
      BY <3>1, WithoutWait DEF SameWait
    <3> QED
      BY <1>1, <3>2, <3>3, AppendQueue
  <2>3. CASE ~\E i \in DOMAIN q : SameWait(q[i], e)
    <3>1. Merge(q, e) = Append(q, e)
      BY <2>1, <2>3 DEF NewWait
    <3>2. \A i \in DOMAIN q : q[i].kind # "wait"
      BY <1>1, <2>3 DEF SameWait, Queue
    <3> QED
      BY <1>1, <3>1, <3>2, AppendQueue
  <2> QED
    BY <2>2, <2>3
<1>2. CASE e.kind # "wait" /\ \E i \in DOMAIN q : SameHint(q[i], e)
  <2> DEFINE i == CHOOSE i \in DOMAIN q : SameHint(q[i], e)
  <2>1. i \in DOMAIN q /\ SameHint(q[i], e)
    BY <1>2
  <2>2. Merge(q, e) = Joined(q, i, e)
    BY <1>2 DEF Merge
  <2> HIDE DEF i
  <2> DEFINE f == [q[i] EXCEPT !.ids = @ \cup e.ids]
             r == [q EXCEPT ![i] = f]
  <2>3. q \in Seq(Event) /\ q[i] \in Event
    BY <2>1 DEF Queue
  <2>4. f \in Event /\ f.kind = q[i].kind /\ f.account = q[i].account /\ f.ids = q[i].ids \cup e.ids
    BY <2>3 DEF Event
  <2>5. Merge(q, e) = r
    BY <2>2 DEF Joined
  <2> HIDE DEF f
  <2>6. r \in Seq(Event) /\ DOMAIN r = DOMAIN q /\ r[i] = f
        /\ \A k \in DOMAIN q \ {i} : r[k] = q[k]
    BY <2>1, <2>3, <2>4
  <2> HIDE DEF r
  <2>7. Queue(r, a)
    BY <2>1, <2>4, <2>6 DEF Queue
  <2>8. About(q[i]) \cup About(e) \subseteq About(f)
    BY <2>1, <2>4, EventsAssumption DEF About, SameHint, Hints
  <2>9. f \in Elements(r)
    BY <2>1, <2>6 DEF Elements
  <2>10. ASSUME NEW g \in Elements(q) PROVE About(g) \subseteq Names(r)
    <3>1. PICK k \in DOMAIN q : g = q[k]
      BY <2>10 DEF Elements
    <3>2. CASE k = i
      BY <2>8, <2>9, <3>1, <3>2 DEF Names
    <3>3. CASE k # i
      BY <2>6, <3>1, <3>3 DEF Names, Elements
    <3> QED
      BY <3>2, <3>3
  <2>11. Names(q) \cup About(e) \subseteq Names(r)
    BY <2>8, <2>9, <2>10 DEF Names
  <2> QED
    BY <2>5, <2>7, <2>11
<1>3. CASE e.kind # "wait" /\ ~\E i \in DOMAIN q : SameHint(q[i], e)
  <2>1. Merge(q, e) = Append(q, e)
    BY <1>3 DEF Merge
  <2>2. e.kind # "notice" => e.kind \in Hints
    BY <1>3 DEF Event
  <2>3. e.kind # "notice" => \A i \in DOMAIN q : q[i].kind # e.kind
    BY <1>3, <2>2 DEF SameHint, Queue
  <2> QED
    BY <2>1, <2>3, AppendQueue
<1> QED
  BY <1>1, <1>2, <1>3

----------------------------------------------------------------------------
(* The inductive invariant.                                                *)

\* Each account's queue, and what its flush holds, are its own events.
Queues == \A a \in Accounts : Queue(waiting[a], a)

Inv == TypeOK /\ Queues /\ NothingMissed

\* What is unread is named on its way, in terms of names.
OnWay == Names(channel) \cup UNION {Names(hand[a]) \cup Names(waiting[a]) : a \in Accounts}

LEMMA OnWayIs == UNION {About(e) : e \in Travelling} = OnWay
BY DEF Travelling, OnWay, Names

\* Send keeps every queue, and everything named before it and by its event is
\* on its way after it.
LEMMA SendKeeps ==
  ASSUME TypeOK, Queues, NEW e \in Event, Send(e), hand' = hand, open' = open
  PROVE  /\ channel' \in Seq(Event) /\ Len(channel') <= Room
         /\ waiting' \in [Accounts -> Seq(Event)] /\ flushing' \in [Accounts -> BOOLEAN]
         /\ Queues'
         /\ open => OnWay \cup About(e) \subseteq OnWay'
<1> DEFINE a == e.account
<1>0. a \in Accounts
  BY DEF Event
<1>a. /\ channel \in Seq(Event) /\ Len(channel) <= Room
      /\ waiting \in [Accounts -> Seq(Event)] /\ flushing \in [Accounts -> BOOLEAN]
  BY DEF TypeOK
<1>1. CASE UNCHANGED <<channel, waiting, flushing>> /\ ~open
  BY <1>1, <1>a DEF Queues
<1>2. CASE open /\ Direct(a) /\ channel' = Append(channel, e) /\ UNCHANGED <<waiting, flushing>>
  <2>1. Len(channel) < Room
    BY <1>2 DEF Direct
  <2>2. channel' \in Seq(Event) /\ Len(channel') <= Room
    BY <1>2, <1>a, <2>1, EventsAssumption
  <2>3. Names(channel') = Names(channel) \cup About(e)
    BY <1>2, <1>a, AppendElements DEF Names
  <2> QED
    BY <1>2, <1>a, <2>2, <2>3 DEF Queues, OnWay
<1>3. CASE /\ waiting' = [waiting EXCEPT ![a] = Merge(@, e)]
           /\ flushing' = [flushing EXCEPT ![a] = TRUE]
           /\ UNCHANGED channel
  <2>1. /\ Queue(Merge(waiting[a], e), a)
        /\ Names(waiting[a]) \cup About(e) \subseteq Names(Merge(waiting[a], e))
    BY <1>0, MergeKeeps DEF Queues
  <2>2. waiting' \in [Accounts -> Seq(Event)] /\ flushing' \in [Accounts -> BOOLEAN]
    BY <1>0, <1>3, <1>a, <2>1 DEF Queue
  <2>3. waiting'[a] = Merge(waiting[a], e) /\ \A b \in Accounts \ {a} : waiting'[b] = waiting[b]
    BY <1>0, <1>3, <1>a
  <2>4. Queues'
    BY <1>0, <2>1, <2>3 DEF Queues
  <2>5. /\ \A b \in Accounts : Names(waiting[b]) \subseteq Names(waiting'[b])
        /\ About(e) \subseteq Names(waiting'[a])
    BY <2>1, <2>3
  <2>6. OnWay \cup About(e) \subseteq OnWay'
    BY <1>0, <1>3, <2>5 DEF OnWay
  <2> QED
    BY <1>3, <1>a, <2>2, <2>4, <2>6
<1> QED
  BY <1>1, <1>2, <1>3 DEF Send

\* The queues that start a fresh run, or are given up.
LEMMA EmptyQueue == ASSUME NEW a PROVE Queue(<<>>, a) /\ Names(<<>>) = {}
BY DEF Queue, Names, Elements

LEMMA InitInv == Init => Inv
<1> SUFFICES ASSUME Init PROVE Inv
  OBVIOUS
<1>1. <<>> \in Seq(Event) /\ <<>> \in Seq(Numbers) /\ 0 \in Numbers
  BY EventsAssumption DEF Numbers
<1>2. TypeOK
  BY <1>1, EventsAssumption DEF Init, TypeOK
<1>3. Queues
  BY EmptyQueue DEF Init, Queues
<1> QED
  BY <1>2, <1>3 DEF Init, Inv, NothingMissed

\* The events that carry a number, and those that carry ids, are well formed.
LEMMA PlainTyped ==
  /\ \A a \in Accounts, kind \in Hints, ids \in SUBSET Ids :
        [Plain(a, kind) EXCEPT !.ids = ids] \in Event
  /\ \A a \in Accounts, kind \in {"wait", "notice"}, n \in Numbers :
        [Plain(a, kind) EXCEPT !.n = n] \in Event
BY EventsAssumption DEF Plain, Event, Numbers

\* What a change of the store is about is what its hint names.
LEMMA AboutTyped ==
  ASSUME NEW e \in Event
  PROVE  About(e) \subseteq (Accounts \X Named \X Ids) \cup (Accounts \X {"labels"} \X {"all"})
BY EventsAssumption DEF About, Event, Hints

\* A change, a notice and a wait: what is sent, the history and the rest of TypeOK.
LEMMA SentInv ==
  ASSUME Inv, NEW e \in Event, Send(e), UNCHANGED <<hand, open, heard, lastWait>>,
         unread' = unread \cup About(e),
         sent' \in [Accounts -> Numbers], waits' \in [Accounts -> Numbers]
  PROVE  Inv'
<1>1. /\ channel' \in Seq(Event) /\ Len(channel') <= Room
      /\ waiting' \in [Accounts -> Seq(Event)] /\ flushing' \in [Accounts -> BOOLEAN]
      /\ Queues'
      /\ open => OnWay \cup About(e) \subseteq OnWay'
  BY SendKeeps DEF Inv
<1>2. TypeOK'
  <2>1. unread' \subseteq (Accounts \X Named \X Ids) \cup (Accounts \X {"labels"} \X {"all"})
    BY AboutTyped DEF Inv, TypeOK
  <2> QED
    BY <1>1, <2>1 DEF Inv, TypeOK
<1>3. open => unread \subseteq OnWay
  BY OnWayIs DEF Inv, NothingMissed
<1>4. open' => unread' \subseteq OnWay'
  BY <1>1, <1>3
<1>5. (UNION {About(f) : f \in Travelling})' = OnWay'
  BY DEF Travelling, OnWay, Names
<1>6. NothingMissed'
  BY <1>4, <1>5 DEF NothingMissed
<1> QED
  BY <1>1, <1>2, <1>6 DEF Inv

\* A step that only moves events along keeps them on their way.
LEMMA MovedInv ==
  ASSUME Inv, TypeOK', Queues', UNCHANGED unread, open' => open /\ OnWay \subseteq OnWay'
  PROVE  Inv'
<1>1. open => unread \subseteq OnWay
  BY OnWayIs DEF Inv, NothingMissed
<1>2. (UNION {About(f) : f \in Travelling})' = OnWay'
  BY DEF Travelling, OnWay, Names
<1> QED
  BY <1>1, <1>2 DEF Inv, NothingMissed

LEMMA TakeInv == ASSUME Inv, NEW a \in Accounts, Take(a) PROVE Inv'
<1>a. TypeOK /\ Queues /\ waiting \in [Accounts -> Seq(Event)] /\ hand \in [Accounts -> Seq(Event)]
      /\ flushing \in [Accounts -> BOOLEAN]
  BY DEF Inv, TypeOK
<1>0. flushing' \in [Accounts -> BOOLEAN]
  BY <1>a DEF Take, Over
<1>1. CASE waiting[a] = <<>>
  <2>1. UNCHANGED <<waiting, hand, channel, open, unread, sent, waits, heard, lastWait>>
    BY <1>1 DEF Take
  <2>2. TypeOK' /\ Queues' /\ OnWay' = OnWay
    BY <1>a, <1>0, <2>1 DEF TypeOK, Queues, OnWay
  <2> QED
    BY <2>1, <2>2, MovedInv
<1>2. CASE waiting[a] # <<>>
  <2>1. /\ hand' = [hand EXCEPT ![a] = <<Head(waiting[a])>>]
        /\ waiting' = [waiting EXCEPT ![a] = Tail(@)]
        /\ UNCHANGED <<channel, open, unread, sent, waits, heard, lastWait>>
    BY <1>2 DEF Take
  <2>2. waiting[a] \in Seq(Event)
    BY <1>a
  <2>3. /\ Tail(waiting[a]) \in Seq(Event) /\ Head(waiting[a]) \in Event
        /\ \A i \in DOMAIN Tail(waiting[a]) :
              i + 1 \in DOMAIN waiting[a] /\ Tail(waiting[a])[i] = waiting[a][i + 1]
        /\ Elements(waiting[a]) = {Head(waiting[a])} \cup Elements(Tail(waiting[a]))
    BY <1>2, <2>2, TailElements
  <2>4. /\ hand' \in [Accounts -> Seq(Event)] /\ waiting' \in [Accounts -> Seq(Event)]
        /\ hand'[a] = <<Head(waiting[a])>> /\ waiting'[a] = Tail(waiting[a])
        /\ \A b \in Accounts \ {a} : hand'[b] = hand[b] /\ waiting'[b] = waiting[b]
    BY <1>a, <2>1, <2>3
  <2>5. TypeOK'
    <3> HIDE DEF TypeOK
    <3>0. \A b \in Accounts : Len(hand[b]) <= 1
      BY <1>a DEF TypeOK
    <3>00. Len(<<Head(waiting[a])>>) = 1
      BY <2>3
    <3>1. ASSUME NEW b \in Accounts PROVE Len(hand'[b]) <= 1
      <4>1. CASE b = a
        <5>1. hand'[b] = <<Head(waiting[a])>>
          BY <2>4, <4>1
        <5> QED
          BY <5>1, <3>00
      <4>2. CASE b # a
        BY <3>0, <2>4, <4>2
      <4> QED
        BY <4>1, <4>2
    <3> QED
      BY <1>a, <1>0, <2>1, <2>4, <3>1 DEF TypeOK
  <2>6. Queue(Tail(waiting[a]), a)
    <3>1. Queue(waiting[a], a)
      BY <1>a DEF Queues
    <3>2. \A i \in DOMAIN Tail(waiting[a]) : Tail(waiting[a])[i].account = a
      BY <2>3, <3>1 DEF Queue
    <3>3. \A i, j \in DOMAIN Tail(waiting[a]) : i \in Nat /\ j \in Nat
      BY <2>3
    <3>4. \A i, j \in DOMAIN Tail(waiting[a]) :
            Tail(waiting[a])[i].kind = Tail(waiting[a])[j].kind
              /\ Tail(waiting[a])[i].kind # "notice" => i + 1 = j + 1
      BY <2>3, <3>1 DEF Queue
    <3>5. \A i, j \in DOMAIN Tail(waiting[a]) : i + 1 = j + 1 => i = j
      BY <3>3
    <3> HIDE DEF Queue
    <3> QED
      BY <2>3, <3>2, <3>4, <3>5 DEF Queue
  <2>7. Queues'
    BY <1>a, <2>4, <2>6 DEF Queues
  <2>8. hand[a] = <<>>
    BY DEF Take
  <2>9. Head(waiting[a]) \in Elements(hand'[a])
    BY <2>4 DEF Elements
  <2>10. Names(waiting[a]) \subseteq Names(hand'[a]) \cup Names(waiting'[a])
    BY <2>3, <2>4, <2>9 DEF Names
  <2>11. Names(hand[a]) = {}
    BY <2>8, EmptyQueue
  <2>12. OnWay \subseteq OnWay'
    BY <2>1, <2>4, <2>10, <2>11 DEF OnWay
  <2> QED
    BY <2>1, <2>5, <2>7, <2>12, MovedInv
<1> QED
  BY <1>1, <1>2

(* A queue of at most one element that is not empty holds one, and makes a    *)
(* queue it joins one longer.                                                 *)
LEMMA OneMore == ASSUME NEW S, NEW p \in Seq(S), NEW q \in Seq(S), Len(q) <= 1, q # <<>>
                 PROVE  Len(q) = 1 /\ p \o q \in Seq(S) /\ Len(p \o q) = Len(p) + 1
<1>1. Len(q) \in Nat /\ Len(q) # 0
  OBVIOUS
<1>a. \A n \in Nat : n # 0 /\ n <= 1 => n = 1
  OBVIOUS
<1>2. Len(q) = 1
  BY <1>1, <1>a
<1>3. p \o q \in Seq(S) /\ Len(p \o q) = Len(p) + Len(q)
  OBVIOUS
<1> QED
  BY <1>2, <1>3

LEMMA HandInv == ASSUME Inv, NEW a \in Accounts, Hand(a) PROVE Inv'
<1>1. TypeOK
  BY DEF Inv
<1>2. /\ open /\ Len(channel) < Room /\ channel' = channel \o hand[a]
      /\ hand' = [hand EXCEPT ![a] = <<>>]
      /\ UNCHANGED <<waiting, flushing, open, unread, sent, waits, heard, lastWait>>
  BY DEF Hand
<1>3. hand[a] \in Seq(Event) /\ channel \in Seq(Event) /\ Len(hand[a]) <= 1 /\ hand[a] # <<>>
  BY <1>1 DEF TypeOK, Hand
<1>31. Len(hand[a]) = 1 /\ channel \o hand[a] \in Seq(Event)
       /\ Len(channel \o hand[a]) = Len(channel) + 1
  BY <1>3, OneMore
<1>32. Len(channel) \in Nat /\ Room \in Nat
  BY <1>3, EventsAssumption
<1>4. channel' \in Seq(Event) /\ Len(channel') <= Room
  BY <1>2, <1>31, <1>32
<1>5. /\ hand' \in [Accounts -> Seq(Event)] /\ hand'[a] = <<>>
      /\ \A b \in Accounts \ {a} : hand'[b] = hand[b]
  BY <1>1, <1>2 DEF TypeOK
<1>6. TypeOK'
  <2>1. ASSUME NEW b \in Accounts PROVE Len(hand'[b]) <= 1
    <3>1. CASE b = a
      BY <1>5, <3>1
    <3>2. CASE b # a
      <4>1. Len(hand[b]) <= 1
        BY <1>1 DEF TypeOK
      <4> QED
        BY <1>5, <3>2, <4>1
    <3> QED
      BY <3>1, <3>2
  <2> QED
    BY <1>1, <1>2, <1>4, <1>5, <2>1 DEF TypeOK
<1>7. Elements(channel') = Elements(channel) \cup Elements(hand[a])
  <2>1. /\ Len(channel') = Len(channel) + 1 /\ channel'[Len(channel) + 1] = hand[a][1]
        /\ \A i \in 1..Len(channel) : channel'[i] = channel[i]
    BY <1>2, <1>3, <1>31
  <2>2. DOMAIN channel' = 1..(Len(channel) + 1) /\ DOMAIN channel = 1..Len(channel)
        /\ DOMAIN hand[a] = {1} /\ Len(channel) \in Nat
    BY <1>3, <1>31, <1>4, <2>1
  <2>3. Elements(hand[a]) = {hand[a][1]}
    BY <2>2 DEF Elements
  <2>4. \A e \in Elements(channel') : e \in Elements(channel) \cup {hand[a][1]}
    BY <2>1, <2>2 DEF Elements
  <2>5. \A e \in Elements(channel) \cup {hand[a][1]} : e \in Elements(channel')
    BY <2>1, <2>2 DEF Elements
  <2> QED
    BY <2>3, <2>4, <2>5
<1>8. OnWay \subseteq OnWay'
  <2>1. Names(channel') = Names(channel) \cup Names(hand[a])
    BY <1>7 DEF Names
  <2> QED
    BY <1>2, <1>5, <2>1 DEF OnWay
<1>9. Queues'
  BY <1>2 DEF Inv, Queues
<1> QED
  BY <1>2, <1>6, <1>8, <1>9, MovedInv

LEMMA GivesUpInv == ASSUME Inv, NEW a \in Accounts, GivesUp(a) PROVE Inv'
<1>1. TypeOK /\ Queues /\ <<>> \in Seq(Event) /\ Len(<<>>) = 0
  BY DEF Inv
<1>2. /\ ~open /\ ~open' /\ hand' = [hand EXCEPT ![a] = <<>>]
      /\ waiting' = [waiting EXCEPT ![a] = <<>>] /\ flushing' = [flushing EXCEPT ![a] = FALSE]
      /\ UNCHANGED <<channel, open, unread, sent, waits, heard, lastWait>>
  BY DEF GivesUp
<1>3. TypeOK'
  BY <1>1, <1>2 DEF TypeOK
<1>4. Queues'
  BY <1>1, <1>2, EmptyQueue DEF Queues, TypeOK
<1> QED
  BY <1>2, <1>3, <1>4, MovedInv

LEMMA ReadInv == ASSUME Inv, Read PROVE Inv'
<1> DEFINE e == Head(channel)
<1>1. /\ open /\ channel # <<>> /\ channel' = Tail(channel)
      /\ unread' = unread \ About(e)
      /\ heard' = IF e.kind = "notice" THEN [heard EXCEPT ![e.account] = Append(@, e.n)] ELSE heard
      /\ lastWait' = IF e.kind = "wait" THEN [lastWait EXCEPT ![e.account] = e.n] ELSE lastWait
      /\ UNCHANGED <<waiting, flushing, hand, open, sent, waits>>
  BY DEF Read
<1>2. TypeOK /\ Queues /\ channel \in Seq(Event)
  BY DEF Inv, TypeOK
<1>3. /\ Tail(channel) \in Seq(Event) /\ e \in Event /\ Len(Tail(channel)) = Len(channel) - 1
      /\ Elements(channel) = {e} \cup Elements(Tail(channel))
  BY <1>1, <1>2, TailElements
<1> HIDE DEF e
<1>4. e.account \in Accounts /\ e.n \in Numbers
  BY <1>3 DEF Event
<1>5. heard' \in [Accounts -> Seq(Numbers)] /\ lastWait' \in [Accounts -> Numbers]
  <2>1. /\ heard \in [Accounts -> Seq(Numbers)] /\ lastWait \in [Accounts -> Numbers]
    BY <1>2 DEF TypeOK
  <2>2. Append(heard[e.account], e.n) \in Seq(Numbers)
    BY <1>4, <2>1
  <2> QED
    BY <1>1, <1>4, <2>1, <2>2
<1>6. TypeOK'
  <2>1. Len(channel') <= Room
    BY <1>1, <1>2, <1>3, EventsAssumption DEF TypeOK
  <2> QED
    BY <1>1, <1>2, <1>3, <1>5, <2>1 DEF TypeOK
<1>7. Queues'
  BY <1>1, <1>2 DEF Queues
<1>8. unread \subseteq OnWay
  BY <1>1, OnWayIs DEF Inv, NothingMissed
<1>9. Names(channel) = About(e) \cup Names(channel')
  BY <1>1, <1>3 DEF Names
<1>10. unread' \subseteq OnWay'
  BY <1>1, <1>8, <1>9 DEF OnWay
<1>11. (UNION {About(f) : f \in Travelling})' = OnWay'
  BY DEF Travelling, OnWay, Names
<1> QED
  BY <1>6, <1>7, <1>10, <1>11 DEF Inv, NothingMissed

LEMMA NextInv == Inv /\ [Next]_vars => Inv'
<1> SUFFICES ASSUME Inv, [Next]_vars PROVE Inv'
  OBVIOUS
<1>a. /\ sent \in [Accounts -> Numbers] /\ waits \in [Accounts -> Numbers]
      /\ \A n \in Numbers : n < MaxNotices => n + 1 \in Numbers
  BY EventsAssumption DEF Inv, TypeOK, Numbers
<1>1. ASSUME NEW a \in Accounts, Notice(a) PROVE Inv'
  <2>1. sent[a] + 1 \in Numbers /\ sent' \in [Accounts -> Numbers]
    BY <1>1, <1>a DEF Notice
  <2> DEFINE e == [Plain(a, "notice") EXCEPT !.n = sent[a] + 1]
  <2>2. e \in Event /\ About(e) = {}
    BY <2>1, PlainTyped, EventsAssumption DEF About, Plain
  <2>3. Send(e) /\ UNCHANGED <<hand, open, unread, waits, heard, lastWait>>
    BY <1>1 DEF Notice
  <2> HIDE DEF e
  <2> QED
    BY <1>a, <2>1, <2>2, <2>3, SentInv
<1>2. ASSUME NEW a \in Accounts, Wait(a) PROVE Inv'
  <2>1. waits[a] + 1 \in Numbers /\ waits' \in [Accounts -> Numbers]
    BY <1>2, <1>a DEF Wait
  <2> DEFINE e == [Plain(a, "wait") EXCEPT !.n = waits[a] + 1]
  <2>2. e \in Event /\ About(e) = {}
    BY <2>1, PlainTyped, EventsAssumption DEF About, Plain
  <2>3. Send(e) /\ UNCHANGED <<hand, open, unread, sent, heard, lastWait>>
    BY <1>2 DEF Wait
  <2> HIDE DEF e
  <2> QED
    BY <1>a, <2>1, <2>2, <2>3, SentInv
<1>3. ASSUME NEW a \in Accounts, NEW kind \in Hints, NEW ids \in SUBSET Ids, Changed(a, kind, ids)
      PROVE  Inv'
  <2> DEFINE e == [Plain(a, kind) EXCEPT !.ids = ids]
  <2>1. e \in Event
    BY PlainTyped
  <2>2. /\ Send(e) /\ unread' = unread \cup About(e)
        /\ UNCHANGED <<hand, open, sent, waits, heard, lastWait>>
    BY <1>3 DEF Changed
  <2> HIDE DEF e
  <2> QED
    BY <1>a, <2>1, <2>2, SentInv
<1>4. ASSUME NEW a \in Accounts, Flush(a) PROVE Inv'
  BY <1>4, TakeInv, HandInv, GivesUpInv DEF Flush
<1>5. CASE Read
  BY <1>5, ReadInv
<1>6. CASE Close
  <2>1. /\ ~open' /\ channel' = <<>>
        /\ UNCHANGED <<waiting, flushing, hand, unread, sent, waits, heard, lastWait>>
    BY <1>6 DEF Close
  <2>a. Room \in Nat /\ <<>> \in Seq(Event) /\ Len(<<>>) = 0
    BY EventsAssumption
  <2>b. Len(channel') <= Room
    BY <2>1, <2>a
  <2>e. channel' \in Seq(Event) /\ open' = FALSE
    BY <1>6, <2>1, <2>a DEF Close
  <2>c. TypeOK'
    BY <2>1, <2>b, <2>e DEF Inv, TypeOK
  <2>d. Queues'
    BY <2>1 DEF Inv, Queues
  <2>2. TypeOK' /\ Queues'
    BY <2>c, <2>d
  <2> QED
    BY <2>1, <2>2, MovedInv
<1>7. CASE UNCHANGED vars
  <2>1. TypeOK' /\ Queues' /\ OnWay' = OnWay
    BY <1>7 DEF vars, Inv, TypeOK, Queues, OnWay
  <2> QED
    BY <1>7, <2>1, MovedInv DEF vars
<1> QED
  BY <1>1, <1>2, <1>3, <1>4, <1>5, <1>6, <1>7 DEF Next, Hints

----------------------------------------------------------------------------
(* The theorems.                                                           *)

LEMMA SpecInv == Spec => []Inv
BY InitInv, NextInv, PTL DEF Spec

\* The channel never holds more than its room, and every queue is well formed,
\* for every number of accounts and every size of the channel.
THEOREM EventsTyped == Spec => []TypeOK
<1>1. Inv => TypeOK
  BY DEF Inv
<1> QED
  BY <1>1, SpecInv, PTL

\* However many accounts change whatever they change while the channel is full,
\* everything unread is named by an event on its way.
THEOREM NothingMissedHolds == Spec => []NothingMissed
<1>1. Inv => NothingMissed
  BY DEF Inv
<1> QED
  BY <1>1, SpecInv, PTL

\* A burst of any length waits as one event of each kind but the notices.
THEOREM FewWaitHolds == Spec => []FewWait
<1>1. Inv => FewWait
  BY DEF Inv, Queues, Queue, FewWait
<1> QED
  BY <1>1, SpecInv, PTL

----------------------------------------------------------------------------
(* The numbers of one account's notices, or of its waits, along a sequence. *)

\* They go up from `lo` to `hi`; notices leave no number out, and of waits the
\* last one is there.
Rise(q, a, kind, lo, hi) ==
    /\ lo <= hi
    /\ Ascends(q, a, kind, lo, hi)
    /\ \A n \in (lo + 1)..hi : kind = "notice" \/ n = hi =>
          \E i \in Where(q, a, kind) : q[i].n = n

LEMMA NoneRise ==
  ASSUME NEW q, NEW a, NEW kind, NEW lo \in Nat, Where(q, a, kind) = {}
  PROVE  Rise(q, a, kind, lo, lo)
BY DEF Rise, Ascends

LEMMA NumbersOf ==
  ASSUME NEW q \in Seq(Event), NEW a, NEW kind
  PROVE  \A i \in Where(q, a, kind) : q[i].n \in Nat /\ i \in Nat
<1> TAKE i \in Where(q, a, kind)
<1>1. i \in DOMAIN q /\ i \in Nat
  BY DEF Where
<1>2. q[i] \in Event
  BY <1>1
<1>3. q[i].n \in Numbers
  BY <1>2 DEF Event
<1> QED
  BY <1>1, <1>3 DEF Numbers

LEMMA RiseConcat ==
  ASSUME NEW p \in Seq(Event), NEW q \in Seq(Event), NEW a, NEW kind,
         NEW lo \in Nat, NEW mid \in Nat, NEW hi \in Nat,
         Rise(p, a, kind, lo, mid), Rise(q, a, kind, mid, hi)
  PROVE  p \o q \in Seq(Event) /\ Rise(p \o q, a, kind, lo, hi)
<1> DEFINE r == p \o q
<1>1. /\ r \in Seq(Event) /\ Len(r) = Len(p) + Len(q) /\ Len(p) \in Nat /\ Len(q) \in Nat
      /\ DOMAIN r = 1..(Len(p) + Len(q)) /\ DOMAIN p = 1..Len(p) /\ DOMAIN q = 1..Len(q)
      /\ \A i \in DOMAIN r : r[i] = IF i <= Len(p) THEN p[i] ELSE q[i - Len(p)]
  OBVIOUS
<1> HIDE DEF r
<1>2. \A i \in Where(r, a, kind) :
        \/ i <= Len(p) /\ i \in Where(p, a, kind) /\ r[i] = p[i]
        \/ i > Len(p) /\ i - Len(p) \in Where(q, a, kind) /\ r[i] = q[i - Len(p)]
  <2> TAKE i \in Where(r, a, kind)
  <2>1. i \in DOMAIN r /\ r[i].account = a /\ r[i].kind = kind
    BY DEF Where
  <2>2. CASE i <= Len(p)
    BY <1>1, <2>1, <2>2 DEF Where
  <2>3. CASE ~(i <= Len(p))
    <3>1. i - Len(p) \in DOMAIN q /\ r[i] = q[i - Len(p)] /\ i > Len(p)
      BY <1>1, <2>1, <2>3
    <3> QED
      BY <2>1, <3>1 DEF Where
  <2> QED
    BY <2>2, <2>3
<1>3. \A i \in Where(p, a, kind) : i \in Where(r, a, kind) /\ r[i] = p[i]
  <2> TAKE i \in Where(p, a, kind)
  <2>1. i \in DOMAIN p /\ p[i].account = a /\ p[i].kind = kind
    BY DEF Where
  <2>2. i \in DOMAIN r /\ r[i] = p[i]
    BY <1>1, <2>1
  <2> QED
    BY <2>1, <2>2 DEF Where
<1>4. \A i \in Where(q, a, kind) : i + Len(p) \in Where(r, a, kind) /\ r[i + Len(p)] = q[i]
  <2> TAKE i \in Where(q, a, kind)
  <2>1. i \in DOMAIN q /\ q[i].account = a /\ q[i].kind = kind
    BY DEF Where
  <2>2. i + Len(p) \in DOMAIN r /\ (i + Len(p)) - Len(p) = i /\ ~(i + Len(p) <= Len(p))
    BY <1>1, <2>1
  <2>3. r[i + Len(p)] = q[i]
    BY <1>1, <2>2
  <2> QED
    BY <2>1, <2>2, <2>3 DEF Where
<1>5. \A i \in Where(p, a, kind) : p[i].n \in Nat /\ i \in Nat
  BY NumbersOf
<1>6. \A i \in Where(q, a, kind) : q[i].n \in Nat /\ i \in Nat
  BY NumbersOf
<1>7. Ascends(r, a, kind, lo, hi)
  <2>0. lo <= mid /\ mid <= hi
    BY DEF Rise
  <2>1. \A i \in Where(r, a, kind) : lo < r[i].n /\ r[i].n <= hi /\ i \in Nat
    <3> TAKE i \in Where(r, a, kind)
    <3>0. i \in Nat
      BY <1>1 DEF Where
    <3>1. CASE i <= Len(p)
      <4>1. i \in Where(p, a, kind) /\ r[i] = p[i]
        BY <1>1, <1>2, <3>0, <3>1
      <4>2. lo < p[i].n /\ p[i].n <= mid
        BY <4>1 DEF Rise, Ascends
      <4> QED
        BY <1>5, <2>0, <3>0, <4>1, <4>2
    <3>2. CASE i > Len(p)
      <4>1. PICK k \in Where(q, a, kind) : r[i] = q[k]
        BY <1>1, <1>2, <3>0, <3>2
      <4>2. mid < q[k].n /\ q[k].n <= hi
        BY <4>1 DEF Rise, Ascends
      <4>3. q[k].n \in Nat
        BY <1>6
      <4>4. lo < q[k].n
        BY <2>0, <4>2, <4>3
      <4> QED
        BY <3>0, <4>1, <4>2, <4>4
    <3> QED
      BY <1>1, <3>0, <3>1, <3>2
  <2>2. ASSUME NEW i \in Where(r, a, kind), NEW j \in Where(r, a, kind), i < j
        PROVE  r[i].n < r[j].n
    <3>1. CASE j <= Len(p)
      <4>1. i \in Where(p, a, kind) /\ j \in Where(p, a, kind) /\ r[i] = p[i] /\ r[j] = p[j]
        BY <1>1, <1>2, <2>1, <2>2, <3>1
      <4> QED
        BY <2>2, <4>1 DEF Rise, Ascends
    <3>2. CASE i > Len(p)
      <4>1. /\ i - Len(p) \in Where(q, a, kind) /\ j - Len(p) \in Where(q, a, kind)
            /\ r[i] = q[i - Len(p)] /\ r[j] = q[j - Len(p)] /\ i - Len(p) < j - Len(p)
        BY <1>1, <1>2, <2>1, <2>2, <3>2
      <4> QED
        BY <4>1 DEF Rise, Ascends
    <3>3. CASE i <= Len(p) /\ j > Len(p)
      <4>1. /\ i \in Where(p, a, kind) /\ j - Len(p) \in Where(q, a, kind)
            /\ r[i] = p[i] /\ r[j] = q[j - Len(p)]
        BY <1>1, <1>2, <2>1, <3>3
      <4>2. p[i].n <= mid /\ mid < q[j - Len(p)].n
        BY <4>1 DEF Rise, Ascends
      <4> QED
        BY <1>5, <1>6, <4>1, <4>2
    <3> QED
      BY <1>1, <2>1, <3>1, <3>2, <3>3
  <2> QED
    BY <2>1, <2>2 DEF Ascends
<1>8. ASSUME NEW n \in (lo + 1)..hi, kind = "notice" \/ n = hi
      PROVE  \E i \in Where(r, a, kind) : r[i].n = n
  <2>1. lo <= mid /\ mid <= hi
    BY DEF Rise
  <2>2. CASE n > mid
    <3>1. PICK i \in Where(q, a, kind) : q[i].n = n
      BY <1>8, <2>2 DEF Rise
    <3> QED
      BY <1>4, <3>1
  <2>3. CASE n <= mid
    <3>1. PICK i \in Where(p, a, kind) : p[i].n = n
      <4>1. n \in (lo + 1)..mid /\ (kind = "notice" \/ n = mid)
        BY <1>8, <2>1, <2>3
      <4> QED
        BY <4>1 DEF Rise
    <3> QED
      BY <1>3, <3>1
  <2> QED
    BY <2>2, <2>3
<1>9. lo <= hi
  BY DEF Rise
<1> QED
  BY <1>1, <1>7, <1>8, <1>9 DEF Rise, r

\* The first event goes up from `lo` to `mid`, and what comes after it from there.
Splits(q, a, kind, lo, mid, hi) ==
    /\ Rise(<<Head(q)>>, a, kind, lo, mid) /\ Rise(Tail(q), a, kind, mid, hi)
    /\ IF Head(q).account = a /\ Head(q).kind = kind
       THEN mid = Head(q).n /\ (kind = "notice" => mid = lo + 1)
       ELSE mid = lo

LEMMA RiseSplit ==
  ASSUME NEW q \in Seq(Event), q # <<>>, NEW a, NEW kind \in {"notice", "wait"},
         NEW lo \in Nat, NEW hi \in Nat, Rise(q, a, kind, lo, hi)
  PROVE  \E mid \in Nat : Splits(q, a, kind, lo, mid, hi)
<1> DEFINE e == Head(q)
           t == Tail(q)
           h == <<e>>
<1>1. /\ e = q[1] /\ 1 \in DOMAIN q /\ Len(q) \in Nat
      /\ DOMAIN q = 1..Len(q) /\ DOMAIN t = 1..(Len(q) - 1) /\ t \in Seq(Event)
      /\ \A i \in DOMAIN t : t[i] = q[i + 1] /\ i + 1 \in DOMAIN q
      /\ e \in Event /\ DOMAIN h = {1} /\ h[1] = e
  OBVIOUS
<1> HIDE DEF e, t, h
<1>2. \A i \in Where(t, a, kind) : i + 1 \in Where(q, a, kind) /\ t[i] = q[i + 1] /\ i \in Nat
  BY <1>1 DEF Where
<1>3. \A i \in Where(q, a, kind) : i # 1 => i - 1 \in Where(t, a, kind) /\ t[i - 1] = q[i]
  <2> SUFFICES ASSUME NEW i \in Where(q, a, kind), i # 1
               PROVE  i - 1 \in Where(t, a, kind) /\ t[i - 1] = q[i]
    OBVIOUS
  <2>1. i \in DOMAIN q /\ q[i].account = a /\ q[i].kind = kind
    BY DEF Where
  <2>2. i - 1 \in DOMAIN t /\ (i - 1) + 1 = i
    BY <1>1, <2>1
  <2>3. t[i - 1] = q[i]
    BY <1>1, <2>2
  <2> QED
    BY <2>1, <2>2, <2>3 DEF Where
<1>4. \A i \in Where(q, a, kind) : q[i].n \in Nat /\ i \in Nat
  BY NumbersOf
<1>5. lo <= hi /\ Ascends(q, a, kind, lo, hi)
  BY DEF Rise
<1>6. \A i, j \in Where(t, a, kind) : i < j => t[i].n < t[j].n
  <2> SUFFICES ASSUME NEW i \in Where(t, a, kind), NEW j \in Where(t, a, kind), i < j PROVE t[i].n < t[j].n
    OBVIOUS
  <2>1. i + 1 < j + 1
    BY <1>2
  <2> QED
    BY <1>2, <1>5, <2>1 DEF Ascends
<1>7. CASE ~(e.account = a /\ e.kind = kind)
  <2>1. Where(h, a, kind) = {} /\ 1 \notin Where(q, a, kind)
    BY <1>1, <1>7 DEF Where
  <2>2. Rise(h, a, kind, lo, lo)
    BY <2>1, NoneRise
  <2>3. Ascends(t, a, kind, lo, hi)
    BY <1>2, <1>5, <1>6 DEF Ascends
  <2>4. ASSUME NEW n \in (lo + 1)..hi, kind = "notice" \/ n = hi
        PROVE  \E i \in Where(t, a, kind) : t[i].n = n
    <3>1. PICK i \in Where(q, a, kind) : q[i].n = n
      BY <2>4 DEF Rise
    <3> QED
      BY <1>3, <2>1, <3>1
  <2>5. Rise(t, a, kind, lo, hi)
    BY <1>5, <2>3, <2>4 DEF Rise
  <2> QED
    BY <1>7, <2>2, <2>5 DEF Splits, e, h, t
<1>8. CASE e.account = a /\ e.kind = kind
  <2> DEFINE mid == e.n
  <2>1. 1 \in Where(q, a, kind) /\ q[1].n = mid /\ Where(h, a, kind) = {1} /\ mid \in Nat
    BY <1>1, <1>4, <1>8 DEF Where
  <2>2. lo < mid /\ mid <= hi
    BY <1>5, <2>1 DEF Ascends
  <2>3. \A i \in Where(q, a, kind) : i # 1 => mid < q[i].n
    <3>1. \A i \in Where(q, a, kind) : i # 1 => 1 < i
      BY <1>1 DEF Where
    <3> QED
      BY <1>5, <2>1, <3>1 DEF Ascends
  <2> HIDE DEF mid
  <2>4. kind = "notice" => mid = lo + 1
    <3> SUFFICES ASSUME kind = "notice" PROVE mid = lo + 1
      OBVIOUS
    <3>1. PICK i \in Where(q, a, kind) : q[i].n = lo + 1
      <4>1. lo + 1 \in (lo + 1)..hi
        BY <2>1, <2>2
      <4> QED
        BY <4>1 DEF Rise
    <3>2. CASE i = 1
      BY <2>1, <3>1, <3>2
    <3>3. CASE i # 1
      BY <2>1, <2>2, <2>3, <3>1, <3>3
    <3> QED
      BY <3>2, <3>3
  <2>5. Rise(h, a, kind, lo, mid)
    <3>1. h[1].n = mid
      BY <1>1 DEF mid
    <3>2. Ascends(h, a, kind, lo, mid)
      BY <2>1, <2>2, <3>1 DEF Ascends
    <3>3. \A n \in (lo + 1)..mid : kind = "notice" \/ n = mid => n = mid
      BY <2>1, <2>4
    <3> QED
      BY <2>1, <2>2, <3>1, <3>2, <3>3 DEF Rise
  <2>6. Ascends(t, a, kind, mid, hi)
    <3>1. \A i \in Where(t, a, kind) : mid < t[i].n /\ t[i].n <= hi
      <4> TAKE i \in Where(t, a, kind)
      <4>0. i \in Nat /\ i >= 1
        BY <1>1 DEF Where
      <4>1. i + 1 # 1 /\ i + 1 \in Where(q, a, kind) /\ t[i] = q[i + 1]
        BY <1>2, <4>0
      <4> QED
        BY <1>5, <2>3, <4>1 DEF Ascends
    <3> QED
      BY <1>6, <3>1 DEF Ascends
  <2>7. ASSUME NEW n \in (mid + 1)..hi, kind = "notice" \/ n = hi
        PROVE  \E i \in Where(t, a, kind) : t[i].n = n
    <3>1. PICK i \in Where(q, a, kind) : q[i].n = n
      <4>1. n \in (lo + 1)..hi
        BY <2>1, <2>2
      <4> QED
        BY <2>7, <4>1 DEF Rise
    <3>2. i # 1
      BY <2>1, <3>1
    <3> QED
      BY <1>3, <3>1, <3>2
  <2>8. Rise(t, a, kind, mid, hi)
    BY <2>2, <2>6, <2>7 DEF Rise
  <2> QED
    BY <1>8, <2>1, <2>4, <2>5, <2>8 DEF Splits, mid, e, h, t
<1> QED
  BY <1>7, <1>8

LEMMA SingleRise ==
  ASSUME NEW e \in Event, NEW kind, NEW lo \in Nat, e.kind = kind, lo < e.n,
         kind = "notice" => e.n = lo + 1
  PROVE  Rise(<<e>>, e.account, kind, lo, e.n)
<1>1. Where(<<e>>, e.account, kind) = {1} /\ <<e>>[1] = e
  BY DEF Where
<1>2. e.n \in Nat
  BY DEF Event, Numbers
<1>3. \A n \in (lo + 1)..e.n : kind = "notice" \/ n = e.n => n = e.n
  BY <1>2
<1> QED
  BY <1>1, <1>2, <1>3 DEF Rise, Ascends

LEMMA AppendRise ==
  ASSUME NEW q \in Seq(Event), NEW e \in Event, NEW a, NEW kind,
         NEW lo \in Nat, NEW hi \in Nat, Rise(q, a, kind, lo, hi)
  PROVE  /\ ~(e.account = a /\ e.kind = kind) => Rise(Append(q, e), a, kind, lo, hi)
         /\ e.account = a /\ e.kind = kind /\ e.n = hi + 1 => Rise(Append(q, e), a, kind, lo, hi + 1)
<1>1. Append(q, e) = q \o <<e>> /\ <<e>> \in Seq(Event)
  OBVIOUS
<1>2. ~(e.account = a /\ e.kind = kind) => Rise(<<e>>, a, kind, hi, hi)
  <2>1. ~(e.account = a /\ e.kind = kind) => Where(<<e>>, a, kind) = {}
    BY DEF Where
  <2> QED
    BY <2>1, NoneRise
<1>3. e.account = a /\ e.kind = kind /\ e.n = hi + 1 => Rise(<<e>>, a, kind, hi, hi + 1)
  <2> SUFFICES ASSUME e.account = a, e.kind = kind, e.n = hi + 1
               PROVE  Rise(<<e>>, e.account, kind, hi, e.n)
    OBVIOUS
  <2> QED
    BY SingleRise
<1>4. hi + 1 \in Nat
  OBVIOUS
<1>5. ASSUME ~(e.account = a /\ e.kind = kind) PROVE Rise(q \o <<e>>, a, kind, lo, hi)
  BY <1>1, <1>2, <1>5, RiseConcat
<1>6. ASSUME e.account = a, e.kind = kind, e.n = hi + 1 PROVE Rise(q \o <<e>>, a, kind, lo, hi + 1)
  <2>1. Rise(<<e>>, a, kind, hi, hi + 1)
    BY <1>3, <1>6
  <2> QED
    BY <1>1, <1>4, <2>1, RiseConcat
<1> QED
  BY <1>1, <1>5, <1>6

\* The same events as far as anyone counts them.
LEMMA SameRise ==
  ASSUME NEW q, NEW r, DOMAIN r = DOMAIN q, NEW a, NEW kind, NEW lo, NEW hi,
         \A i \in DOMAIN q : r[i].account = q[i].account /\ r[i].kind = q[i].kind /\ r[i].n = q[i].n,
         Rise(q, a, kind, lo, hi)
  PROVE  Rise(r, a, kind, lo, hi)
<1>1. Where(r, a, kind) = Where(q, a, kind) /\ \A i \in Where(q, a, kind) : r[i].n = q[i].n
  BY DEF Where
<1> QED
  BY <1>1 DEF Rise, Ascends

\* One of another kind is taken out.
LEMMA WithoutRise ==
  ASSUME NEW q \in Seq(Event), NEW i \in DOMAIN q, NEW a, NEW kind, q[i].kind # kind,
         NEW lo \in Nat, NEW hi \in Nat, Rise(q, a, kind, lo, hi)
  PROVE  Rise(RemoveAt(q, i), a, kind, lo, hi)
<1> DEFINE r == RemoveAt(q, i)
           From(k) == IF k < i THEN k ELSE k + 1
<1>0. Len(q) \in Nat /\ i \in 1..Len(q) /\ DOMAIN q = 1..Len(q)
  OBVIOUS
<1>a. /\ DOMAIN r = 1..(Len(q) - 1)
      /\ \A k \in 1..(Len(q) - 1) : r[k] = IF k < i THEN q[k] ELSE q[k + 1]
  BY RemoveAtIs
<1>1. /\ Len(q) \in Nat /\ i \in 1..Len(q) /\ DOMAIN q = 1..Len(q) /\ DOMAIN r = 1..(Len(q) - 1)
      /\ \A k \in 1..(Len(q) - 1) : r[k] = IF k < i THEN q[k] ELSE q[k + 1]
  BY <1>0, <1>a
<1> HIDE DEF r
<1>2. \A k \in DOMAIN r : r[k] = q[From(k)] /\ From(k) \in DOMAIN q
  BY <1>1
<1>3. \A j, k \in DOMAIN r : j < k => From(j) < From(k)
  BY <1>1
<1>4. \A k \in DOMAIN q \ {i} : \E j \in DOMAIN r : From(j) = k
  <2> TAKE k \in DOMAIN q \ {i}
  <2>1. CASE k < i
    BY <1>1, <2>1
  <2>2. CASE ~(k < i)
    <3>1. k - 1 \in DOMAIN r /\ From(k - 1) = k
      BY <1>1, <2>2
    <3> QED
      BY <3>1
  <2> QED
    BY <2>1, <2>2
<1> HIDE DEF From
<1>5. \A k \in Where(r, a, kind) : k \in DOMAIN r /\ From(k) \in Where(q, a, kind) /\ r[k] = q[From(k)]
  BY <1>2 DEF Where
<1>6. \A k \in Where(q, a, kind) : \E j \in Where(r, a, kind) : r[j] = q[k]
  <2> TAKE k \in Where(q, a, kind)
  <2>1. k \in DOMAIN q \ {i} /\ q[k].account = a /\ q[k].kind = kind
    BY DEF Where
  <2>2. PICK j \in DOMAIN r : From(j) = k
    BY <1>4, <2>1
  <2> QED
    BY <1>2, <2>1, <2>2 DEF Where
<1>7. Ascends(r, a, kind, lo, hi)
  BY <1>3, <1>5 DEF Rise, Ascends
<1>8. ASSUME NEW n \in (lo + 1)..hi, kind = "notice" \/ n = hi
      PROVE  \E j \in Where(r, a, kind) : r[j].n = n
  <2>1. PICK k \in Where(q, a, kind) : q[k].n = n
    BY <1>8 DEF Rise
  <2> QED
    BY <1>6, <2>1
<1> QED
  BY <1>7, <1>8 DEF Rise, r

\* What merge does to the numbers: those of another kind it leaves, and the next
\* of this kind comes last, in place of a wait that waits already.
LEMMA MergeRise ==
  ASSUME NEW a \in Accounts, NEW q, Queue(q, a), NEW e \in Event, e.account = a,
         NEW kind \in {"notice", "wait"}, NEW lo \in Nat, NEW hi \in Nat, Rise(q, a, kind, lo, hi)
  PROVE  /\ e.kind # kind => Rise(Merge(q, e), a, kind, lo, hi)
         /\ e.kind = kind /\ e.n = hi + 1 => Rise(Merge(q, e), a, kind, lo, hi + 1)
<1>0. q \in Seq(Event)
  BY DEF Queue
<1>1. CASE Merge(q, e) = Append(q, e)
  BY <1>0, <1>1, AppendRise
<1>2. CASE e.kind = "wait" /\ \E i \in DOMAIN q : SameWait(q[i], e)
  <2> DEFINE i == CHOOSE i \in DOMAIN q : SameWait(q[i], e)
  <2>1. i \in DOMAIN q /\ SameWait(q[i], e)
    BY <1>2
  <2>2. Merge(q, e) = Append(RemoveAt(q, i), e)
    BY <1>2 DEF Merge, NewWait
  <2> HIDE DEF i
  <2>3. q[i].kind = "wait"
    BY <2>1 DEF SameWait
  <2>4. /\ RemoveAt(q, i) \in Seq(Event)
        /\ \A k \in DOMAIN RemoveAt(q, i) : RemoveAt(q, i)[k].kind # "wait"
    BY <2>1, <2>3, WithoutWait DEF Queue
  <2>5. CASE kind = "notice"
    <3>1. Rise(RemoveAt(q, i), a, kind, lo, hi)
      BY <1>0, <2>1, <2>3, <2>5, WithoutRise
    <3> QED
      BY <1>2, <2>2, <2>4, <2>5, <3>1, AppendRise
  <2>6. CASE kind = "wait" /\ e.n = hi + 1
    <3>1. Where(RemoveAt(q, i), a, kind) = {}
      BY <2>4, <2>6 DEF Where
    <3>2. Rise(RemoveAt(q, i), a, kind, lo, lo)
      BY <3>1, NoneRise
    <3>3. lo < e.n
      BY <2>6 DEF Rise
    <3>4. Rise(<<e>>, a, kind, lo, hi + 1)
      <4>1. Rise(<<e>>, e.account, kind, lo, e.n)
        BY <1>2, <2>6, <3>3, SingleRise
      <4> QED
        BY <2>6, <4>1
    <3>5. Append(RemoveAt(q, i), e) = RemoveAt(q, i) \o <<e>> /\ <<e>> \in Seq(Event) /\ hi + 1 \in Nat
      BY <2>4
    <3>6. Rise(RemoveAt(q, i) \o <<e>>, a, kind, lo, hi + 1)
      BY <2>4, <3>2, <3>4, <3>5, RiseConcat
    <3> QED
      BY <1>2, <2>2, <2>6, <3>5, <3>6
  <2>7. CASE kind = "wait" /\ e.n # hi + 1
    BY <1>2, <2>7
  <2> QED
    BY <2>5, <2>6, <2>7
<1>3. CASE e.kind # "wait" /\ \E i \in DOMAIN q : SameHint(q[i], e)
  <2> DEFINE i == CHOOSE i \in DOMAIN q : SameHint(q[i], e)
  <2>1. i \in DOMAIN q /\ SameHint(q[i], e)
    BY <1>3
  <2>2. Merge(q, e) = [q EXCEPT ![i].ids = @ \cup e.ids]
    BY <1>3 DEF Merge, Joined
  <2> HIDE DEF i
  <2>3. e.kind # kind
    BY <2>1, EventsAssumption DEF SameHint, Hints
  <2>4. q[i] \in Event
    BY <1>0, <2>1
  <2> DEFINE r == [q EXCEPT ![i].ids = @ \cup e.ids]
  <2>5. DOMAIN r = DOMAIN q /\ \A k \in DOMAIN q : r[k] = IF k = i THEN [q[i] EXCEPT !.ids = @ \cup e.ids] ELSE q[k]
    BY <2>1
  <2>6. \A k \in DOMAIN q : r[k].account = q[k].account /\ r[k].kind = q[k].kind /\ r[k].n = q[k].n
    BY <2>4, <2>5 DEF Event
  <2>7. Rise(r, a, kind, lo, hi)
    <3> HIDE DEF r
    <3> QED
      BY <2>5, <2>6, SameRise
  <2> QED
    BY <2>2, <2>3, <2>7
<1>4. CASE /\ ~(e.kind = "wait" /\ \E i \in DOMAIN q : SameWait(q[i], e))
           /\ ~(e.kind # "wait" /\ \E i \in DOMAIN q : SameHint(q[i], e))
  BY <1>1, <1>4 DEF Merge, NewWait
<1> QED
  BY <1>2, <1>3, <1>4

----------------------------------------------------------------------------
(* The numbers along the way, from the channel past the flush to the queue. *)

Line(c, h, w, a, kind, lo, hi) ==
    \E m1, m2 \in Nat :
       Rise(c, a, kind, lo, m1) /\ Rise(h, a, kind, m1, m2) /\ Rise(w, a, kind, m2, hi)

Kinds == {"notice", "wait"}

LEMMA EmptyRise ==
  ASSUME NEW q, NEW a, NEW kind, NEW lo \in Nat, NEW hi \in Nat, Rise(q, a, kind, lo, hi),
         Where(q, a, kind) = {}
  PROVE  lo = hi
<1> SUFFICES ASSUME lo # hi PROVE FALSE
  OBVIOUS
<1>1. hi \in (lo + 1)..hi
  BY DEF Rise
<1> QED
  BY <1>1 DEF Rise

LEMMA LineBounds ==
  ASSUME NEW c, NEW h, NEW w, NEW a, NEW kind, NEW lo \in Nat, NEW hi \in Nat,
         Line(c, h, w, a, kind, lo, hi)
  PROVE  lo <= hi
BY DEF Line, Rise

\* What a line says of the whole way.
LEMMA LineIsRise ==
  ASSUME NEW c \in Seq(Event), NEW h \in Seq(Event), NEW w \in Seq(Event), NEW a, NEW kind,
         NEW lo \in Nat, NEW hi \in Nat, Line(c, h, w, a, kind, lo, hi)
  PROVE  Rise(c \o h \o w, a, kind, lo, hi)
<1>1. PICK m1 \in Nat, m2 \in Nat :
         Rise(c, a, kind, lo, m1) /\ Rise(h, a, kind, m1, m2) /\ Rise(w, a, kind, m2, hi)
  BY DEF Line
<1>2. c \o h \in Seq(Event) /\ Rise(c \o h, a, kind, lo, m2)
  BY <1>1, RiseConcat
<1> QED
  BY <1>1, <1>2, RiseConcat

\* An event goes straight to the channel when nothing of its account is before it.
LEMMA LineSentOn ==
  ASSUME NEW c \in Seq(Event), NEW h, NEW w, NEW a, NEW kind, NEW lo \in Nat, NEW hi \in Nat,
         Line(c, h, w, a, kind, lo, hi), NEW e \in Event, e.account = a => h = <<>> /\ w = <<>>
  PROVE  /\ ~(e.account = a /\ e.kind = kind) => Line(Append(c, e), h, w, a, kind, lo, hi)
         /\ e.account = a /\ e.kind = kind /\ e.n = hi + 1 => Line(Append(c, e), h, w, a, kind, lo, hi + 1)
<1>1. PICK m1 \in Nat, m2 \in Nat :
         Rise(c, a, kind, lo, m1) /\ Rise(h, a, kind, m1, m2) /\ Rise(w, a, kind, m2, hi)
  BY DEF Line
<1>2. ASSUME ~(e.account = a /\ e.kind = kind) PROVE Line(Append(c, e), h, w, a, kind, lo, hi)
  BY <1>1, <1>2, AppendRise DEF Line
<1>3. ASSUME e.account = a, e.kind = kind, e.n = hi + 1
      PROVE  Line(Append(c, e), h, w, a, kind, lo, hi + 1)
  <2>1. h = <<>> /\ w = <<>> /\ Where(<<>>, a, kind) = {}
    BY <1>3 DEF Where
  <2>2. m1 = m2 /\ m2 = hi
    BY <1>1, <2>1, EmptyRise
  <2>3. Rise(Append(c, e), a, kind, lo, hi + 1)
    BY <1>1, <1>3, <2>2, AppendRise
  <2>4. hi + 1 \in Nat
    OBVIOUS
  <2>5. Rise(<<>>, a, kind, hi + 1, hi + 1)
    BY <2>1, <2>4, NoneRise
  <2> QED
    BY <2>1, <2>3, <2>4, <2>5 DEF Line
<1> QED
  BY <1>2, <1>3

\* It waits behind what waits, and merges with it.
LEMMA LineMerged ==
  ASSUME NEW a \in Accounts, NEW c, NEW h, NEW w, Queue(w, a), NEW kind \in Kinds,
         NEW lo \in Nat, NEW hi \in Nat, Line(c, h, w, a, kind, lo, hi), NEW e \in Event, e.account = a
  PROVE  /\ e.kind # kind => Line(c, h, Merge(w, e), a, kind, lo, hi)
         /\ e.kind = kind /\ e.n = hi + 1 => Line(c, h, Merge(w, e), a, kind, lo, hi + 1)
<1>1. PICK m1 \in Nat, m2 \in Nat :
         Rise(c, a, kind, lo, m1) /\ Rise(h, a, kind, m1, m2) /\ Rise(w, a, kind, m2, hi)
  BY DEF Line
<1>2. /\ e.kind # kind => Rise(Merge(w, e), a, kind, m2, hi)
      /\ e.kind = kind /\ e.n = hi + 1 => Rise(Merge(w, e), a, kind, m2, hi + 1)
  BY <1>1, MergeRise DEF Kinds
<1> QED
  BY <1>1, <1>2 DEF Line

\* The flush takes the first that waits.
LEMMA LineTaken ==
  ASSUME NEW c, NEW w \in Seq(Event), w # <<>>, NEW a, NEW kind \in Kinds,
         NEW lo \in Nat, NEW hi \in Nat, Line(c, <<>>, w, a, kind, lo, hi)
  PROVE  Line(c, <<Head(w)>>, Tail(w), a, kind, lo, hi)
<1>1. PICK m1 \in Nat, m2 \in Nat :
         Rise(c, a, kind, lo, m1) /\ Rise(<<>>, a, kind, m1, m2) /\ Rise(w, a, kind, m2, hi)
  BY DEF Line
<1>2. m1 = m2
  <2>1. Where(<<>>, a, kind) = {}
    BY DEF Where
  <2> QED
    BY <1>1, <2>1, EmptyRise
<1>a. kind \in {"notice", "wait"} /\ Rise(w, a, kind, m2, hi)
  BY <1>1 DEF Kinds
<1>3. PICK m \in Nat : Splits(w, a, kind, m2, m, hi)
  BY <1>a, RiseSplit
<1> QED
  BY <1>1, <1>2, <1>3 DEF Line, Splits

\* It hands on what it took.
LEMMA LineHanded ==
  ASSUME NEW c \in Seq(Event), NEW h \in Seq(Event), NEW w, NEW a, NEW kind,
         NEW lo \in Nat, NEW hi \in Nat, Line(c, h, w, a, kind, lo, hi)
  PROVE  Line(c \o h, <<>>, w, a, kind, lo, hi)
<1>1. PICK m1 \in Nat, m2 \in Nat :
         Rise(c, a, kind, lo, m1) /\ Rise(h, a, kind, m1, m2) /\ Rise(w, a, kind, m2, hi)
  BY DEF Line
<1>2. Rise(c \o h, a, kind, lo, m2)
  BY <1>1, RiseConcat
<1>3. Rise(<<>>, a, kind, m2, m2)
  BY NoneRise DEF Where
<1> QED
  BY <1>1, <1>2, <1>3 DEF Line

\* Another account's flush does.
LEMMA LineBehind ==
  ASSUME NEW c \in Seq(Event), NEW g \in Seq(Event), NEW h, NEW w, NEW a, NEW kind,
         \A i \in DOMAIN g : g[i].account # a,
         NEW lo \in Nat, NEW hi \in Nat, Line(c, h, w, a, kind, lo, hi)
  PROVE  Line(c \o g, h, w, a, kind, lo, hi)
<1>1. PICK m1 \in Nat, m2 \in Nat :
         Rise(c, a, kind, lo, m1) /\ Rise(h, a, kind, m1, m2) /\ Rise(w, a, kind, m2, hi)
  BY DEF Line
<1>2. Where(g, a, kind) = {}
  BY DEF Where
<1>3. Rise(g, a, kind, m1, m1)
  BY <1>2, NoneRise
<1>4. Rise(c \o g, a, kind, lo, m1)
  BY <1>1, <1>3, RiseConcat
<1> QED
  BY <1>1, <1>4 DEF Line

\* The window reads the first event of the channel.
LEMMA LineRead ==
  ASSUME NEW c \in Seq(Event), c # <<>>, NEW h, NEW w, NEW a, NEW kind \in Kinds,
         NEW lo \in Nat, NEW hi \in Nat, Line(c, h, w, a, kind, lo, hi)
  PROVE  LET own == Head(c).account = a /\ Head(c).kind = kind IN
         /\ ~own => Line(Tail(c), h, w, a, kind, lo, hi)
         /\ own => Line(Tail(c), h, w, a, kind, Head(c).n, hi)
         /\ own /\ kind = "notice" => Head(c).n = lo + 1
<1>1. PICK m1 \in Nat, m2 \in Nat :
         Rise(c, a, kind, lo, m1) /\ Rise(h, a, kind, m1, m2) /\ Rise(w, a, kind, m2, hi)
  BY DEF Line
<1>a. kind \in {"notice", "wait"} /\ Rise(c, a, kind, lo, m1)
  BY <1>1 DEF Kinds
<1>2. PICK m \in Nat : Splits(c, a, kind, lo, m, m1)
  BY <1>a, RiseSplit
<1>3. Line(Tail(c), h, w, a, kind, m, hi)
  BY <1>1, <1>2 DEF Line, Splits
<1> QED
  BY <1>2, <1>3 DEF Splits

----------------------------------------------------------------------------
(* The inductive invariant of the order.                                   *)

\* Without a flush nothing waits, and a flush holds its own account's event.
Idle == \A a \in Accounts :
    /\ ~flushing[a] => waiting[a] = <<>> /\ hand[a] = <<>>
    /\ \A i \in DOMAIN hand[a] : hand[a][i].account = a

\* What was heard is 1, 2, 3..., and what is on its way goes on from there to the
\* newest that was sent.
Ordered == open => \A a \in Accounts :
    /\ \A i \in DOMAIN heard[a] : heard[a][i] = i
    /\ Line(channel, hand[a], waiting[a], a, "notice", Len(heard[a]), sent[a])
    /\ Line(channel, hand[a], waiting[a], a, "wait", lastWait[a], waits[a])

OInv == Inv /\ Idle /\ Ordered

\* The facts every step starts from.
LEMMA Known ==
  ASSUME Inv
  PROVE  /\ channel \in Seq(Event) /\ hand \in [Accounts -> Seq(Event)]
         /\ waiting \in [Accounts -> Seq(Event)] /\ flushing \in [Accounts -> BOOLEAN]
         /\ sent \in [Accounts -> Nat] /\ waits \in [Accounts -> Nat]
         /\ lastWait \in [Accounts -> Nat] /\ heard \in [Accounts -> Seq(Nat)]
         /\ \A a \in Accounts : Len(heard[a]) \in Nat /\ Queue(waiting[a], a)
<1>1. Numbers \subseteq Nat
  BY DEF Numbers
<1>2. sent \in [Accounts -> Numbers] /\ waits \in [Accounts -> Numbers]
      /\ lastWait \in [Accounts -> Numbers] /\ heard \in [Accounts -> Seq(Numbers)]
  BY DEF Inv, TypeOK
<1>3. \A q \in Seq(Numbers) : q \in Seq(Nat) /\ Len(q) \in Nat
  <2> SUFFICES ASSUME NEW q \in Seq(Numbers) PROVE q \in Seq(Nat) /\ Len(q) \in Nat
    OBVIOUS
  <2>1. Len(q) \in Nat /\ q \in [1..Len(q) -> Numbers]
    OBVIOUS
  <2>2. q \in [1..Len(q) -> Nat]
    BY <1>1, <2>1
  <2> QED
    BY <2>1, <2>2
<1>4. heard \in [Accounts -> Seq(Nat)] /\ \A a \in Accounts : Len(heard[a]) \in Nat
  BY <1>2, <1>3
<1>5. sent \in [Accounts -> Nat] /\ waits \in [Accounts -> Nat] /\ lastWait \in [Accounts -> Nat]
  BY <1>1, <1>2
<1> QED
  BY <1>4, <1>5 DEF Inv, TypeOK, Queues

LEMMA InitOInv == Init => OInv
<1> SUFFICES ASSUME Init PROVE OInv
  OBVIOUS
<1>1. ASSUME NEW a \in Accounts, NEW kind PROVE Line(<<>>, <<>>, <<>>, a, kind, 0, 0)
  <2>1. Rise(<<>>, a, kind, 0, 0)
    BY NoneRise DEF Where
  <2> QED
    BY <2>1 DEF Line
<1>2. Len(<<>>) = 0 /\ DOMAIN <<>> = {}
  OBVIOUS
<1>3. Idle
  BY <1>2 DEF Init, Idle
<1>4. Ordered
  BY <1>1, <1>2 DEF Init, Ordered
<1> QED
  BY <1>3, <1>4, InitInv DEF OInv

\* What Send does to a line: nothing, but for the one its event goes on.
LEMMA SendLine ==
  ASSUME Inv, Idle, open, NEW e \in Event, Send(e), hand' = hand,
         NEW a \in Accounts, NEW kind \in Kinds, NEW lo \in Nat, NEW hi \in Nat,
         Line(channel, hand[a], waiting[a], a, kind, lo, hi)
  PROVE  /\ ~(e.account = a /\ e.kind = kind) => Line(channel', hand'[a], waiting'[a], a, kind, lo, hi)
         /\ e.account = a /\ e.kind = kind /\ e.n = hi + 1
              => Line(channel', hand'[a], waiting'[a], a, kind, lo, hi + 1)
<1>1. e.account \in Accounts
  BY DEF Event
<1>2. CASE Direct(e.account)
  <2>1. channel' = Append(channel, e) /\ waiting' = waiting
    BY <1>2 DEF Send, Direct
  <2>2. e.account = a => hand[a] = <<>> /\ waiting[a] = <<>>
    BY <1>2 DEF Direct, Idle
  <2> QED
    BY <2>1, <2>2, Known, LineSentOn
<1>3. CASE ~Direct(e.account)
  <2>1. waiting' = [waiting EXCEPT ![e.account] = Merge(@, e)] /\ channel' = channel
    BY <1>3 DEF Send
  <2>2. CASE e.account = a
    <3>1. waiting'[a] = Merge(waiting[a], e)
      BY <2>1, <2>2, Known
    <3>2. Queue(waiting[a], a)
      BY Known
    <3> QED
      BY <2>1, <2>2, <3>1, <3>2, LineMerged
  <2>3. CASE e.account # a
    <3>1. waiting'[a] = waiting[a]
      BY <2>1, <2>3, Known
    <3> QED
      BY <2>1, <2>3, <3>1
  <2> QED
    BY <2>2, <2>3
<1> QED
  BY <1>2, <1>3

LEMMA SendIdle ==
  ASSUME Inv, Idle, NEW e \in Event, Send(e), hand' = hand
  PROVE  Idle'
<1>1. CASE UNCHANGED <<waiting, flushing>>
  BY <1>1 DEF Idle
<1>2. CASE /\ waiting' = [waiting EXCEPT ![e.account] = Merge(@, e)]
           /\ flushing' = [flushing EXCEPT ![e.account] = TRUE]
  <2>1. /\ flushing' \in [Accounts -> BOOLEAN]
        /\ \A a \in Accounts : ~flushing'[a] => ~flushing[a] /\ waiting'[a] = waiting[a]
    BY <1>2, Known
  <2> QED
    BY <2>1 DEF Idle
<1> QED
  BY <1>1, <1>2 DEF Send

\* A change, which carries no number: no line goes on.
LEMMA ChangedOrdered ==
  ASSUME OInv, NEW a \in Accounts, NEW kind \in Hints, NEW ids \in SUBSET Ids, Changed(a, kind, ids)
  PROVE  Idle' /\ Ordered'
<1> DEFINE e == [Plain(a, kind) EXCEPT !.ids = ids]
<1>1. e \in Event /\ e.kind \notin Kinds
  BY PlainTyped, EventsAssumption DEF Hints, Kinds, Plain
<1>2. Send(e) /\ UNCHANGED <<hand, open, sent, waits, heard, lastWait>>
  BY DEF Changed
<1> HIDE DEF e
<1>3. Idle'
  BY <1>1, <1>2, SendIdle DEF OInv
<1>4. ASSUME open, NEW b \in Accounts
      PROVE  /\ Line(channel', hand'[b], waiting'[b], b, "notice", Len(heard[b]), sent[b])
             /\ Line(channel', hand'[b], waiting'[b], b, "wait", lastWait[b], waits[b])
  <2>1. /\ "notice" \in Kinds /\ "wait" \in Kinds /\ e.kind # "notice" /\ e.kind # "wait"
        /\ Inv /\ Idle
    BY <1>1 DEF Kinds, OInv
  <2>2. /\ Line(channel, hand[b], waiting[b], b, "notice", Len(heard[b]), sent[b])
        /\ Line(channel, hand[b], waiting[b], b, "wait", lastWait[b], waits[b])
    BY <1>4 DEF OInv, Ordered
  <2>3. Len(heard[b]) \in Nat /\ sent[b] \in Nat /\ lastWait[b] \in Nat /\ waits[b] \in Nat
    BY <2>1, Known
  <2> QED
    BY <1>1, <1>2, <1>4, <2>1, <2>2, <2>3, SendLine
<1>5. Ordered'
  BY <1>2, <1>4 DEF OInv, Ordered
<1> QED
  BY <1>3, <1>5

\* A notice goes on the line of its account's notices.
LEMMA NoticeOrdered == ASSUME OInv, NEW a \in Accounts, Notice(a) PROVE Idle' /\ Ordered'
<1> DEFINE e == [Plain(a, "notice") EXCEPT !.n = sent[a] + 1]
<1>0. Inv /\ Idle /\ sent[a] + 1 \in Numbers
  <2>1. sent[a] < MaxNotices /\ sent[a] \in Nat /\ MaxNotices \in Nat /\ Inv /\ Idle
    BY Known, EventsAssumption DEF OInv, Notice
  <2> QED
    BY <2>1 DEF Numbers
<1>1. e \in Event /\ e.kind = "notice" /\ e.account = a /\ e.n = sent[a] + 1
  BY <1>0, PlainTyped DEF Plain
<1>2. /\ Send(e) /\ sent' = [sent EXCEPT ![a] = @ + 1]
      /\ UNCHANGED <<hand, open, waits, heard, lastWait>>
  BY DEF Notice
<1> HIDE DEF e
<1>3. Idle'
  BY <1>0, <1>1, <1>2, SendIdle
<1>4. ASSUME open, NEW b \in Accounts
      PROVE  /\ Line(channel', hand'[b], waiting'[b], b, "notice", Len(heard[b]), sent'[b])
             /\ Line(channel', hand'[b], waiting'[b], b, "wait", lastWait[b], waits[b])
  <2>1. "notice" \in Kinds /\ "wait" \in Kinds /\ e.kind # "wait"
    BY <1>1 DEF Kinds
  <2>2. /\ Line(channel, hand[b], waiting[b], b, "notice", Len(heard[b]), sent[b])
        /\ Line(channel, hand[b], waiting[b], b, "wait", lastWait[b], waits[b])
    BY <1>4 DEF OInv, Ordered
  <2>3. /\ Len(heard[b]) \in Nat /\ sent[b] \in Nat /\ lastWait[b] \in Nat /\ waits[b] \in Nat
        /\ sent'[b] = IF b = a THEN sent[b] + 1 ELSE sent[b]
    BY <1>0, <1>2, Known
  <2>4. Line(channel', hand'[b], waiting'[b], b, "wait", lastWait[b], waits[b])
    BY <1>0, <1>1, <1>2, <1>4, <2>1, <2>2, <2>3, SendLine
  <2>5. CASE b = a
    <3>1. Line(channel', hand'[b], waiting'[b], b, "notice", Len(heard[b]), sent[b] + 1)
      BY <1>0, <1>1, <1>2, <1>4, <2>1, <2>2, <2>3, <2>5, SendLine
    <3> QED
      BY <2>3, <2>4, <2>5, <3>1
  <2>6. CASE b # a
    <3>1. Line(channel', hand'[b], waiting'[b], b, "notice", Len(heard[b]), sent[b])
      BY <1>0, <1>1, <1>2, <1>4, <2>1, <2>2, <2>3, <2>6, SendLine
    <3> QED
      BY <2>3, <2>4, <2>6, <3>1
  <2> QED
    BY <2>5, <2>6
<1>5. Ordered'
  BY <1>2, <1>4 DEF OInv, Ordered
<1> QED
  BY <1>3, <1>5

\* A wait goes on the line of its account's waits.
LEMMA WaitOrdered == ASSUME OInv, NEW a \in Accounts, Wait(a) PROVE Idle' /\ Ordered'
<1> DEFINE e == [Plain(a, "wait") EXCEPT !.n = waits[a] + 1]
<1>0. Inv /\ Idle /\ waits[a] + 1 \in Numbers
  <2>1. waits[a] < MaxNotices /\ waits[a] \in Nat /\ MaxNotices \in Nat /\ Inv /\ Idle
    BY Known, EventsAssumption DEF OInv, Wait
  <2> QED
    BY <2>1 DEF Numbers
<1>1. e \in Event /\ e.kind = "wait" /\ e.account = a /\ e.n = waits[a] + 1
  BY <1>0, PlainTyped DEF Plain
<1>2. /\ Send(e) /\ waits' = [waits EXCEPT ![a] = @ + 1]
      /\ UNCHANGED <<hand, open, sent, heard, lastWait>>
  BY DEF Wait
<1> HIDE DEF e
<1>3. Idle'
  BY <1>0, <1>1, <1>2, SendIdle
<1>4. ASSUME open, NEW b \in Accounts
      PROVE  /\ Line(channel', hand'[b], waiting'[b], b, "notice", Len(heard[b]), sent[b])
             /\ Line(channel', hand'[b], waiting'[b], b, "wait", lastWait[b], waits'[b])
  <2>1. "notice" \in Kinds /\ "wait" \in Kinds /\ e.kind # "notice"
    BY <1>1 DEF Kinds
  <2>2. /\ Line(channel, hand[b], waiting[b], b, "notice", Len(heard[b]), sent[b])
        /\ Line(channel, hand[b], waiting[b], b, "wait", lastWait[b], waits[b])
    BY <1>4 DEF OInv, Ordered
  <2>3. /\ Len(heard[b]) \in Nat /\ sent[b] \in Nat /\ lastWait[b] \in Nat /\ waits[b] \in Nat
        /\ waits'[b] = IF b = a THEN waits[b] + 1 ELSE waits[b]
    BY <1>0, <1>2, Known
  <2>4. Line(channel', hand'[b], waiting'[b], b, "notice", Len(heard[b]), sent[b])
    BY <1>0, <1>1, <1>2, <1>4, <2>1, <2>2, <2>3, SendLine
  <2>5. CASE b = a
    <3>1. Line(channel', hand'[b], waiting'[b], b, "wait", lastWait[b], waits[b] + 1)
      BY <1>0, <1>1, <1>2, <1>4, <2>1, <2>2, <2>3, <2>5, SendLine
    <3> QED
      BY <2>3, <2>4, <2>5, <3>1
  <2>6. CASE b # a
    <3>1. Line(channel', hand'[b], waiting'[b], b, "wait", lastWait[b], waits[b])
      BY <1>0, <1>1, <1>2, <1>4, <2>1, <2>2, <2>3, <2>6, SendLine
    <3> QED
      BY <2>3, <2>4, <2>6, <3>1
  <2> QED
    BY <2>5, <2>6
<1>5. Ordered'
  BY <1>2, <1>4 DEF OInv, Ordered
<1> QED
  BY <1>3, <1>5

\* The lines of one account, as they stand and with their numbers given.
LEMMA Lines ==
  ASSUME OInv, open, NEW a \in Accounts
  PROVE  /\ \A i \in DOMAIN heard[a] : heard[a][i] = i
         /\ Line(channel, hand[a], waiting[a], a, "notice", Len(heard[a]), sent[a])
         /\ Line(channel, hand[a], waiting[a], a, "wait", lastWait[a], waits[a])
         /\ Len(heard[a]) \in Nat /\ sent[a] \in Nat /\ lastWait[a] \in Nat /\ waits[a] \in Nat
         /\ channel \in Seq(Event) /\ hand[a] \in Seq(Event) /\ waiting[a] \in Seq(Event)
         /\ "notice" \in Kinds /\ "wait" \in Kinds
BY Known DEF OInv, Ordered, Kinds

\* The flush takes the first that waits: it goes ahead of the rest.
LEMMA TakeOrdered == ASSUME OInv, NEW a \in Accounts, Take(a) PROVE Idle' /\ Ordered'
<1>0. /\ hand \in [Accounts -> Seq(Event)] /\ waiting \in [Accounts -> Seq(Event)]
      /\ flushing \in [Accounts -> BOOLEAN] /\ Idle /\ Queue(waiting[a], a)
  BY Known DEF OInv
<1>1. /\ flushing[a] /\ hand[a] = <<>> /\ UNCHANGED <<channel, open, sent, waits, heard, lastWait>>
      /\ flushing' = [flushing EXCEPT ![a] = waiting[a] # <<>>]
  BY DEF Take, Over
<1>2. CASE waiting[a] = <<>>
  <2>1. UNCHANGED <<hand, waiting>> /\ flushing' = [flushing EXCEPT ![a] = FALSE]
    BY <1>1, <1>2 DEF Take
  <2>2. Idle'
    BY <1>0, <1>1, <1>2, <2>1 DEF Idle
  <2>3. Ordered'
    BY <1>1, <2>1 DEF OInv, Ordered
  <2> QED
    BY <2>2, <2>3
<1>3. CASE waiting[a] # <<>>
  <2>1. /\ hand' = [hand EXCEPT ![a] = <<Head(waiting[a])>>]
        /\ waiting' = [waiting EXCEPT ![a] = Tail(@)]
        /\ flushing' = [flushing EXCEPT ![a] = TRUE]
    BY <1>1, <1>3 DEF Take
  <2>2. /\ hand'[a] = <<Head(waiting[a])>> /\ waiting'[a] = Tail(waiting[a]) /\ flushing'[a]
        /\ \A b \in Accounts \ {a} :
              hand'[b] = hand[b] /\ waiting'[b] = waiting[b] /\ flushing'[b] = flushing[b]
    BY <1>0, <2>1
  <2>3. \A i \in DOMAIN hand'[a] : hand'[a][i].account = a
    <3>1. waiting[a] \in Seq(Event) /\ waiting[a][1].account = a
      BY <1>0, <1>3 DEF Queue
    <3> QED
      BY <1>3, <2>2, <3>1
  <2>4. Idle'
    <3>1. ASSUME NEW b \in Accounts
          PROVE  /\ ~flushing'[b] => waiting'[b] = <<>> /\ hand'[b] = <<>>
                 /\ \A i \in DOMAIN hand'[b] : hand'[b][i].account = b
      <4>1. CASE b = a
        BY <2>2, <2>3, <4>1
      <4>2. CASE b # a
        BY <1>0, <2>2, <4>2 DEF Idle
      <4> QED
        BY <4>1, <4>2
    <3> QED
      BY <3>1 DEF Idle
  <2>5. ASSUME open, NEW b \in Accounts
        PROVE  /\ Line(channel, hand'[b], waiting'[b], b, "notice", Len(heard[b]), sent[b])
               /\ Line(channel, hand'[b], waiting'[b], b, "wait", lastWait[b], waits[b])
    <3>1. CASE b = a
      <4>1. /\ Line(channel, <<>>, waiting[a], a, "notice", Len(heard[a]), sent[a])
            /\ Line(channel, <<>>, waiting[a], a, "wait", lastWait[a], waits[a])
            /\ Len(heard[a]) \in Nat /\ sent[a] \in Nat /\ lastWait[a] \in Nat /\ waits[a] \in Nat
            /\ waiting[a] \in Seq(Event) /\ "notice" \in Kinds /\ "wait" \in Kinds
        BY <1>1, <2>5, Lines
      <4> QED
        BY <1>3, <2>2, <3>1, <4>1, LineTaken
    <3>2. CASE b # a
      BY <2>2, <2>5, <3>2, Lines
    <3> QED
      BY <3>1, <3>2
  <2>6. Ordered'
    BY <1>1, <2>5, Lines DEF Ordered
  <2> QED
    BY <2>4, <2>6
<1> QED
  BY <1>2, <1>3

\* It hands on what it took, behind everything in the channel.
LEMMA HandOrdered == ASSUME OInv, NEW a \in Accounts, Hand(a) PROVE Idle' /\ Ordered'
<1>0. hand \in [Accounts -> Seq(Event)] /\ Idle
  BY Known DEF OInv
<1>1. /\ open /\ channel' = channel \o hand[a] /\ hand' = [hand EXCEPT ![a] = <<>>]
      /\ UNCHANGED <<waiting, flushing, open, sent, waits, heard, lastWait>>
  BY DEF Hand
<1>2. /\ hand'[a] = <<>> /\ \A b \in Accounts \ {a} : hand'[b] = hand[b]
  BY <1>0, <1>1
<1>3. Idle'
  <2>1. ASSUME NEW b \in Accounts
        PROVE  /\ ~flushing[b] => waiting[b] = <<>> /\ hand'[b] = <<>>
               /\ \A i \in DOMAIN hand'[b] : hand'[b][i].account = b
    <3>1. CASE b = a
      BY <1>0, <1>2, <3>1 DEF Idle
    <3>2. CASE b # a
      BY <1>0, <1>2, <3>2 DEF Idle
    <3> QED
      BY <3>1, <3>2
  <2> QED
    BY <1>1, <2>1 DEF Idle
<1>4. ASSUME NEW b \in Accounts
      PROVE  /\ Line(channel', hand'[b], waiting[b], b, "notice", Len(heard[b]), sent[b])
             /\ Line(channel', hand'[b], waiting[b], b, "wait", lastWait[b], waits[b])
  <2>1. /\ Line(channel, hand[b], waiting[b], b, "notice", Len(heard[b]), sent[b])
        /\ Line(channel, hand[b], waiting[b], b, "wait", lastWait[b], waits[b])
        /\ Len(heard[b]) \in Nat /\ sent[b] \in Nat /\ lastWait[b] \in Nat /\ waits[b] \in Nat
        /\ channel \in Seq(Event) /\ hand[a] \in Seq(Event)
    BY <1>0, <1>1, Lines
  <2>2. CASE b = a
    BY <1>1, <1>2, <2>1, <2>2, LineHanded
  <2>3. CASE b # a
    <3>1. \A i \in DOMAIN hand[a] : hand[a][i].account # b
      BY <1>0, <2>3 DEF Idle
    <3> QED
      BY <1>1, <1>2, <2>1, <2>3, <3>1, LineBehind
  <2> QED
    BY <2>2, <2>3
<1>5. Ordered'
  BY <1>1, <1>4, Lines DEF Ordered
<1> QED
  BY <1>3, <1>5

\* Nobody listens, and nothing of the account waits any more.
LEMMA GivesUpOrdered == ASSUME OInv, NEW a \in Accounts, GivesUp(a) PROVE Idle' /\ Ordered'
<1>0. /\ hand \in [Accounts -> Seq(Event)] /\ waiting \in [Accounts -> Seq(Event)]
      /\ flushing \in [Accounts -> BOOLEAN] /\ Idle
  BY Known DEF OInv
<1>1. /\ ~open' /\ hand' = [hand EXCEPT ![a] = <<>>] /\ waiting' = [waiting EXCEPT ![a] = <<>>]
      /\ flushing' = [flushing EXCEPT ![a] = FALSE]
  BY DEF GivesUp
<1>2. /\ hand'[a] = <<>> /\ waiting'[a] = <<>>
      /\ \A b \in Accounts \ {a} :
            hand'[b] = hand[b] /\ waiting'[b] = waiting[b] /\ flushing'[b] = flushing[b]
  BY <1>0, <1>1
<1>3. Idle'
  <2>1. ASSUME NEW b \in Accounts
        PROVE  /\ ~flushing'[b] => waiting'[b] = <<>> /\ hand'[b] = <<>>
               /\ \A i \in DOMAIN hand'[b] : hand'[b][i].account = b
    <3>1. CASE b = a
      BY <1>2, <3>1
    <3>2. CASE b # a
      BY <1>0, <1>2, <3>2 DEF Idle
    <3> QED
      BY <3>1, <3>2
  <2> QED
    BY <2>1 DEF Idle
<1> QED
  BY <1>1, <1>3 DEF Ordered

\* The window reads the first event of the channel, the next of its line.
LEMMA ReadOrdered == ASSUME OInv, Read PROVE Idle' /\ Ordered'
<1> DEFINE e == Head(channel)
<1>0. /\ channel \in Seq(Event) /\ heard \in [Accounts -> Seq(Nat)] /\ lastWait \in [Accounts -> Nat] /\ Idle
  BY Known DEF OInv
<1>1. /\ open /\ channel # <<>> /\ channel' = Tail(channel)
      /\ heard' = IF e.kind = "notice" THEN [heard EXCEPT ![e.account] = Append(@, e.n)] ELSE heard
      /\ lastWait' = IF e.kind = "wait" THEN [lastWait EXCEPT ![e.account] = e.n] ELSE lastWait
      /\ UNCHANGED <<waiting, flushing, hand, open, sent, waits>>
  BY DEF Read
<1>2. e \in Event
  BY <1>0, <1>1
<1>3. e.account \in Accounts /\ e.n \in Nat
  BY <1>2 DEF Event, Numbers
<1>4. Idle'
  BY <1>0, <1>1 DEF Idle
<1>5. ASSUME NEW a \in Accounts
      PROVE  /\ \A i \in DOMAIN heard'[a] : heard'[a][i] = i
             /\ Line(channel', hand[a], waiting[a], a, "notice", Len(heard'[a]), sent[a])
  <2>1. /\ \A i \in DOMAIN heard[a] : heard[a][i] = i
        /\ Line(channel, hand[a], waiting[a], a, "notice", Len(heard[a]), sent[a])
        /\ Len(heard[a]) \in Nat /\ sent[a] \in Nat /\ "notice" \in Kinds /\ heard[a] \in Seq(Nat)
    BY <1>0, <1>1, Lines
  <2>2. LET own == e.account = a /\ e.kind = "notice" IN
        /\ ~own => Line(Tail(channel), hand[a], waiting[a], a, "notice", Len(heard[a]), sent[a])
        /\ own => Line(Tail(channel), hand[a], waiting[a], a, "notice", e.n, sent[a])
        /\ own => e.n = Len(heard[a]) + 1
    BY <1>0, <1>1, <2>1, LineRead
  <2> HIDE DEF e
  <2>3. CASE e.account = a /\ e.kind = "notice"
    <3>1. heard'[a] = Append(heard[a], e.n) /\ e.n = Len(heard[a]) + 1
      BY <1>0, <1>1, <2>2, <2>3
    <3>2. Len(heard'[a]) = e.n /\ \A i \in DOMAIN heard'[a] : heard'[a][i] = i
      BY <2>1, <3>1
    <3> QED
      BY <1>1, <2>2, <2>3, <3>2
  <2>4. CASE ~(e.account = a /\ e.kind = "notice")
    <3>1. heard'[a] = heard[a]
      BY <1>0, <1>1, <1>3, <2>4
    <3> QED
      BY <1>1, <2>1, <2>2, <2>4, <3>1
  <2> QED
    BY <2>3, <2>4
<1>6. ASSUME NEW a \in Accounts
      PROVE  Line(channel', hand[a], waiting[a], a, "wait", lastWait'[a], waits[a])
  <2>1. /\ Line(channel, hand[a], waiting[a], a, "wait", lastWait[a], waits[a])
        /\ lastWait[a] \in Nat /\ waits[a] \in Nat /\ "wait" \in Kinds
    BY <1>1, Lines
  <2>2. LET own == e.account = a /\ e.kind = "wait" IN
        /\ ~own => Line(Tail(channel), hand[a], waiting[a], a, "wait", lastWait[a], waits[a])
        /\ own => Line(Tail(channel), hand[a], waiting[a], a, "wait", e.n, waits[a])
    BY <1>0, <1>1, <2>1, LineRead
  <2> HIDE DEF e
  <2>3. lastWait'[a] = IF e.account = a /\ e.kind = "wait" THEN e.n ELSE lastWait[a]
    BY <1>0, <1>1, <1>3
  <2> QED
    BY <1>1, <2>2, <2>3
<1>7. Ordered'
  BY <1>1, <1>5, <1>6 DEF Ordered
<1> QED
  BY <1>4, <1>7

LEMMA NextOInv == OInv /\ [Next]_vars => OInv'
<1> SUFFICES ASSUME OInv, [Next]_vars PROVE OInv'
  OBVIOUS
<1>1. Inv'
  BY NextInv DEF OInv
<1>2. Idle' /\ Ordered'
  <2>1. ASSUME NEW a \in Accounts, Flush(a) PROVE Idle' /\ Ordered'
    BY <2>1, TakeOrdered, HandOrdered, GivesUpOrdered DEF Flush
  <2>2. ASSUME NEW a \in Accounts, NEW kind \in Hints, NEW ids \in SUBSET Ids, Changed(a, kind, ids)
        PROVE  Idle' /\ Ordered'
    BY <2>2, ChangedOrdered
  <2>3. CASE Close
    BY <2>3 DEF Close, OInv, Idle, Ordered
  <2>4. CASE UNCHANGED vars
    BY <2>4 DEF vars, OInv, Idle, Ordered
  <2> QED
    BY <2>1, <2>2, <2>3, <2>4, NoticeOrdered, WaitOrdered, ReadOrdered DEF Next, Hints
<1> QED
  BY <1>1, <1>2 DEF OInv

LEMMA SpecOInv == Spec => []OInv
BY InitOInv, NextOInv, PTL DEF Spec

\* The window hears each notice of a failed write or of the account's state once
\* and in the order they were said, however full the channel was and however the
\* flushes of other accounts went between.
THEOREM NoticesInOrderHolds == Spec => []NoticesInOrder
<1>1. ASSUME OInv, open, NEW a \in Accounts
      PROVE  /\ \A i \in DOMAIN heard[a] : heard[a][i] = i
             /\ Ascends(OnTheWay(a), a, "notice", Len(heard[a]), sent[a])
             /\ \A n \in (Len(heard[a]) + 1)..sent[a] :
                   \E i \in Where(OnTheWay(a), a, "notice") : OnTheWay(a)[i].n = n
  <2>1. Rise(OnTheWay(a), a, "notice", Len(heard[a]), sent[a])
    BY <1>1, Lines, LineIsRise DEF OnTheWay
  <2> QED
    BY <1>1, <2>1, Lines DEF Rise
<1>2. OInv => NoticesInOrder
  BY <1>1 DEF NoticesInOrder
<1> QED
  BY <1>2, SpecOInv, PTL

\* The window's last word of a wait is the newest on its way or the newest there
\* is: a wait that was replaced is never read after the one that replaced it.
THEOREM NewestWaitLastHolds == Spec => []NewestWaitLast
<1>1. ASSUME OInv, open, NEW a \in Accounts
      PROVE  /\ Ascends(OnTheWay(a), a, "wait", lastWait[a], waits[a])
             /\ waits[a] = lastWait[a]
                   \/ \E i \in Where(OnTheWay(a), a, "wait") : OnTheWay(a)[i].n = waits[a]
  <2>1. Rise(OnTheWay(a), a, "wait", lastWait[a], waits[a])
    BY <1>1, Lines, LineIsRise DEF OnTheWay
  <2>2. lastWait[a] \in Nat /\ waits[a] \in Nat
    BY <1>1, Lines
  <2>3. ASSUME waits[a] # lastWait[a]
        PROVE  \E i \in Where(OnTheWay(a), a, "wait") : OnTheWay(a)[i].n = waits[a]
    <3>1. waits[a] \in (lastWait[a] + 1)..waits[a]
      BY <2>1, <2>2, <2>3 DEF Rise
    <3> QED
      BY <2>1, <3>1 DEF Rise
  <2> QED
    BY <2>1, <2>3 DEF Rise
<1>2. OInv => NewestWaitLast
  BY <1>1 DEF NewestWaitLast
<1> QED
  BY <1>2, SpecOInv, PTL
=============================================================================
