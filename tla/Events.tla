------------------------------- MODULE Events -------------------------------
(***************************************************************************)
(* How the accounts tell the window what changed. The channel is bounded.  *)
(* When it is full, or something waits already, an event waits in its      *)
(* account's sender, where hints of one kind merge into one; a task hands  *)
(* what waits to the channel, one event at a time, as the window reads.    *)
(*                                                                         *)
(*   src/sync/src/events.rs            Outgoing, flush, next, merge        *)
(*   src/sync/src/account/mod.rs       emit                                *)
(***************************************************************************)
EXTENDS Naturals, Sequences, SequencesExt

CONSTANTS
    Accounts,
    Ids,         \* thread and message ids
    Named,       \* the kinds of hint that name ids: ThreadsChanged, NewMail
    Room,        \* CHANNEL_EVENTS
    MaxNotices   \* bound: how many notices, and how many waits, each account sends

VARIABLES
    channel,   \* the bounded channel all accounts send to
    waiting,   \* Waiting::events of each account
    flushing,  \* Waiting::flushing of each account
    hand,      \* what each account's flush has taken and not sent yet, if anything
    open,      \* the window listens
    unread,    \* history: what changed in the store since the window read it
    sent,      \* history: how many notices each account has sent
    waits,     \* history: how many waits each account has sent
    heard,     \* history: the notices the window heard, by account
    lastWait   \* history: the last wait it heard, by account

vars == <<channel, waiting, flushing, hand, open, unread, sent, waits, heard, lastWait>>

Numbers == 0..MaxNotices

\* The hints that name what to read again, and the one that names nothing.
Hints == Named \cup {"labels"}

\* ChangeEvent, with `n` to tell one notice or wait from the next.
Event == [account : Accounts, kind : Hints \cup {"wait", "notice"},
          ids : SUBSET Ids, n : Numbers]

ASSUME EventsAssumption ==
    /\ Room \in Nat \ {0} /\ MaxNotices \in Nat
    /\ Named \cap {"labels", "wait", "notice"} = {}

\* The parts of the store a hint is about.
About(e) == CASE e.kind \in Named -> {<<e.account, e.kind, i>> : i \in e.ids}
              [] e.kind = "labels" -> {<<e.account, "labels", "all">>}
              [] OTHER -> {}

----------------------------------------------------------------------------
(* The queue.                                                              *)

SameHint(e, f) == e.kind \in Hints /\ e.kind = f.kind /\ e.account = f.account

SameWait(e, f) == e.kind = "wait" /\ f.kind = "wait" /\ e.account = f.account

\* Mutant of Joined: the newer hint takes the older one's place.
JoinedOver(q, i, e) == [q EXCEPT ![i] = e]

Joined(q, i, e) == [q EXCEPT ![i].ids = @ \cup e.ids]

\* Mutant of NewWait: the wait stays where the first one was.
NewWaitInPlace(q, e) ==
    IF \E i \in DOMAIN q : q[i].kind = "wait"
    THEN q ELSE Append(q, e)

\* A newer wait goes to the end, and the one it follows is dropped (retain; there
\* is never more than one, as FewWait says).
NewWait(q, e) ==
    IF \E i \in DOMAIN q : SameWait(q[i], e)
    THEN Append(RemoveAt(q, CHOOSE i \in DOMAIN q : SameWait(q[i], e)), e)
    ELSE Append(q, e)

Merge(q, e) ==
    IF e.kind = "wait" THEN NewWait(q, e)
    ELSE IF \E i \in DOMAIN q : SameHint(q[i], e)
         THEN Joined(q, CHOOSE i \in DOMAIN q : SameHint(q[i], e), e)
         ELSE Append(q, e)

\* Mutant of Direct: a channel with room takes the event, whatever waits.
DirectAnyway(a) == Len(channel) < Room

\* Mutant of Direct: the channel is not bounded.
DirectPastRoom(a) == waiting[a] = <<>> /\ ~flushing[a]

\* An event goes straight to the channel when nothing is before it.
Direct(a) == waiting[a] = <<>> /\ ~flushing[a] /\ Len(channel) < Room

\* Outgoing::send, under the sender's lock. A flush is started when none runs.
Send(e) ==
    LET a == e.account IN
    IF ~open /\ waiting[a] = <<>> /\ ~flushing[a]
    THEN UNCHANGED <<channel, waiting, flushing>>
    ELSE IF open /\ Direct(a)
    THEN channel' = Append(channel, e) /\ UNCHANGED <<waiting, flushing>>
    ELSE /\ waiting' = [waiting EXCEPT ![a] = Merge(@, e)]
         /\ flushing' = [flushing EXCEPT ![a] = TRUE]
         /\ UNCHANGED channel

Plain(a, kind) == [account |-> a, kind |-> kind, ids |-> {}, n |-> 0]

----------------------------------------------------------------------------
(* What the accounts send.                                                 *)

\* The store changed, and a hint says where.
Changed(a, kind, ids) ==
    LET e == [Plain(a, kind) EXCEPT !.ids = ids] IN
    /\ Send(e)
    /\ unread' = unread \cup About(e)
    /\ UNCHANGED <<hand, open, sent, waits, heard, lastWait>>

\* A failed write or a state change, said once and in order.
Notice(a) ==
    /\ sent[a] < MaxNotices
    /\ sent' = [sent EXCEPT ![a] = @ + 1]
    /\ Send([Plain(a, "notice") EXCEPT !.n = sent[a] + 1])
    /\ UNCHANGED <<hand, open, unread, waits, heard, lastWait>>

\* An action waits for the server.
Wait(a) ==
    /\ waits[a] < MaxNotices
    /\ waits' = [waits EXCEPT ![a] = @ + 1]
    /\ Send([Plain(a, "wait") EXCEPT !.n = waits[a] + 1])
    /\ UNCHANGED <<hand, open, unread, sent, heard, lastWait>>

----------------------------------------------------------------------------
(* flush and flush_blocking.                                               *)

\* Mutant of Over: a flush is over after each event.
OverAtOnce(a) == TRUE

\* The flush ends with this look at the queue.
Over(a) == waiting[a] = <<>>

\* next: the flush takes the first event, or is over.
Take(a) ==
    /\ flushing[a] /\ hand[a] = <<>>
    /\ IF waiting[a] = <<>>
       THEN UNCHANGED <<waiting, hand>>
       ELSE /\ hand' = [hand EXCEPT ![a] = <<Head(waiting[a])>>]
            /\ waiting' = [waiting EXCEPT ![a] = Tail(@)]
    /\ flushing' = [flushing EXCEPT ![a] = ~Over(a)]
    /\ UNCHANGED <<channel, open, unread, sent, waits, heard, lastWait>>

\* sender.send, when the channel has room.
Hand(a) ==
    /\ open /\ hand[a] # <<>> /\ Len(channel) < Room
    /\ channel' = channel \o hand[a]
    /\ hand' = [hand EXCEPT ![a] = <<>>]
    /\ UNCHANGED <<waiting, flushing, open, unread, sent, waits, heard, lastWait>>

\* closed: nobody listens any more, so nothing waits either.
GivesUp(a) ==
    /\ ~open /\ hand[a] # <<>>
    /\ hand' = [hand EXCEPT ![a] = <<>>]
    /\ waiting' = [waiting EXCEPT ![a] = <<>>]
    /\ flushing' = [flushing EXCEPT ![a] = FALSE]
    /\ UNCHANGED <<channel, open, unread, sent, waits, heard, lastWait>>

----------------------------------------------------------------------------
(* The window (outside events.rs): it reads an event and the store again.  *)

Read ==
    /\ open /\ channel # <<>>
    /\ LET e == Head(channel) IN
       /\ unread' = unread \ About(e)
       /\ heard' = IF e.kind = "notice" THEN [heard EXCEPT ![e.account] = Append(@, e.n)] ELSE heard
       /\ lastWait' = IF e.kind = "wait" THEN [lastWait EXCEPT ![e.account] = e.n] ELSE lastWait
    /\ channel' = Tail(channel)
    /\ UNCHANGED <<waiting, flushing, hand, open, sent, waits>>

Close ==
    /\ open /\ open' = FALSE /\ channel' = <<>>
    /\ UNCHANGED <<waiting, flushing, hand, unread, sent, waits, heard, lastWait>>

----------------------------------------------------------------------------
Init ==
    /\ channel = <<>> /\ open = TRUE /\ unread = {}
    /\ waiting = [a \in Accounts |-> <<>>]
    /\ flushing = [a \in Accounts |-> FALSE]
    /\ hand = [a \in Accounts |-> <<>>]
    /\ sent = [a \in Accounts |-> 0] /\ waits = [a \in Accounts |-> 0]
    /\ heard = [a \in Accounts |-> <<>>] /\ lastWait = [a \in Accounts |-> 0]

Flush(a) == Take(a) \/ Hand(a) \/ GivesUp(a)

Next ==
    \/ \E a \in Accounts :
          \/ Notice(a) \/ Wait(a) \/ Flush(a) \/ Changed(a, "labels", {})
          \/ \E kind \in Named, ids \in SUBSET Ids : ids # {} /\ Changed(a, kind, ids)
    \/ Read \/ Close

Spec == Init /\ [][Next]_vars

\* A flush runs as long as the channel takes events, and an open window reads.
FairSpec == Spec /\ WF_vars(Read) /\ \A a \in Accounts : WF_vars(Take(a)) /\ SF_vars(Hand(a))

----------------------------------------------------------------------------
(* Properties.                                                             *)

\* Every variable has its type.
TypeOK ==
    /\ channel \in Seq(Event) /\ Len(channel) <= Room
    /\ waiting \in [Accounts -> Seq(Event)]
    /\ flushing \in [Accounts -> BOOLEAN] /\ open \in BOOLEAN
    /\ hand \in [Accounts -> Seq(Event)] /\ \A a \in Accounts : Len(hand[a]) <= 1
    /\ sent \in [Accounts -> Numbers] /\ waits \in [Accounts -> Numbers]
    /\ heard \in [Accounts -> Seq(Numbers)] /\ lastWait \in [Accounts -> Numbers]
    /\ unread \subseteq (Accounts \X Named \X Ids) \cup (Accounts \X {"labels"} \X {"all"})

Elements(q) == {q[i] : i \in DOMAIN q}

\* What is on its way when an account's newest event goes, in the order the
\* window will read it.
OnTheWay(a) == channel \o hand[a] \o waiting[a]

\* Where one account's events of a kind are.
Where(q, a, kind) == {i \in DOMAIN q : q[i].account = a /\ q[i].kind = kind}

\* They go up, and are all above the first number and none above the last.
Ascends(q, a, kind, first, last) ==
    /\ \A i \in Where(q, a, kind) : first < q[i].n /\ q[i].n <= last
    /\ \A i, j \in Where(q, a, kind) : i < j => q[i].n < q[j].n

\* Every event on its way, from whichever account.
Travelling == Elements(channel) \cup
    UNION {Elements(hand[a]) \cup Elements(waiting[a]) : a \in Accounts}

\* Whatever changed and was not read since is named by an event on its way: a
\* window that stops reading for a while loses nothing ("or lose one").
NothingMissed == open => unread \subseteq UNION {About(e) : e \in Travelling}

\* Notices are heard once each and in the order they were said, past a full
\* channel and a flush that starts or ends meanwhile.
NoticesInOrder == open => \A a \in Accounts :
    /\ \A i \in DOMAIN heard[a] : heard[a][i] = i
    /\ Ascends(OnTheWay(a), a, "notice", Len(heard[a]), sent[a])
    /\ \A n \in (Len(heard[a]) + 1)..sent[a] :
          \E i \in Where(OnTheWay(a), a, "notice") : OnTheWay(a)[i].n = n

\* The window's last word of a wait is the newest one, and never goes back.
NewestWaitLast == open => \A a \in Accounts :
    /\ Ascends(OnTheWay(a), a, "wait", lastWait[a], waits[a])
    /\ waits[a] = lastWait[a]
          \/ \E i \in Where(OnTheWay(a), a, "wait") : OnTheWay(a)[i].n = waits[a]

\* A burst of any length waits as a few entries: one of each kind of hint, one
\* wait, and the notices.
FewWait == \A a \in Accounts : \A i, j \in DOMAIN waiting[a] :
    waiting[a][i].kind = waiting[a][j].kind /\ waiting[a][i].kind # "notice" => i = j

\* The window comes to read each change, also past a full channel.
EverythingRead == \A a \in Accounts, kind \in Named, i \in Ids :
    <<a, kind, i>> \in unread ~> <<a, kind, i>> \notin unread \/ ~open
=============================================================================
