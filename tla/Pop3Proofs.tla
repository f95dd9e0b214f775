----------------------------- MODULE Pop3Proofs -----------------------------
(***************************************************************************)
(* Of the check of a POP3 account, for every number of messages, faults and*)
(* turns, on a server that gives a UIDL to one message at a time and to a  *)
(* new one only when the old row is done with: no mail is lost, none comes *)
(* down twice, the window knows of all a check told, and no old mail is said*)
(* to be new.                                                              *)
(***************************************************************************)
EXTENDS Pop3, FiniteSetTheorems, WellFoundedInduction, TLAPS

----------------------------------------------------------------------------
(* The least number of a set, and the first id that is free.               *)

Less == {ss \in Nat \X Nat : ss[1] < ss[2]}

LEMMA LessFounded == IsWellFoundedOn(Less, Nat)
BY NatLessThanWellFounded DEF OpToRel, Less

LEMMA MinIs ==
  ASSUME NEW S \in SUBSET Nat, S # {}
  PROVE  Min(S) \in S /\ \A n \in S : Min(S) =< n
<1>1. PICK x \in S : \A y \in S : <<y, x>> \notin Less
  BY LessFounded, WFMin
<1>2. ASSUME NEW y \in S PROVE x =< y
  <2>1. x \in Nat /\ y \in Nat /\ <<y, x>> \notin Less
    BY <1>1
  <2> QED
    BY <2>1 DEF Less
<1> QED
  BY <1>2 DEF Min

\* There is always a number the ids of a UIDL do not use yet.
LEMMA FreeNumber ==
  ASSUME NEW K, IsFiniteSet(K), NEW u
  PROVE  \E n \in 1..Cardinality(K) + 1 : \A k \in K : k.id # <<u, n>>
<1> DEFINE N == 1..Cardinality(K) + 1
           f == [n \in N |-> CHOOSE k \in K : k.id = <<u, n>>]
<1> SUFFICES ASSUME \A n \in N : \E k \in K : k.id = <<u, n>> PROVE FALSE
  OBVIOUS
<1>1. Cardinality(K) \in Nat
  BY FS_CardinalityType
<1>2. \A n \in N : f[n] \in K /\ f[n].id = <<u, n>>
  OBVIOUS
<1>3. f \in [N -> K]
  BY <1>2
<1>4. ASSUME NEW m \in N, NEW n \in N, f[m] = f[n] PROVE m = n
  <2>1. <<u, m>> = <<u, n>>
    BY <1>2, <1>4
  <2> QED
    BY <2>1
<1>5. IsFiniteSet(N) /\ Cardinality(N) = Cardinality(K) + 1
  BY <1>1, FS_Interval
<1> HIDE DEF f, N
<1>6. Cardinality(K) < Cardinality(N)
  BY <1>1, <1>5
<1>7. \E m, n \in N : m # n /\ f[m] = f[n]
  BY <1>3, <1>5, <1>6, FS_PigeonHole
<1> QED
  BY <1>4, <1>7

LEMMA DownloadIdFree ==
  ASSUME IsFiniteSet(db.kept), NEW u \in Uidls
  PROVE  /\ DownloadId(u) \in Uidls \X Nat
         /\ \A k \in db.kept : k.id # DownloadId(u)
<1> DEFINE free(n) == \A k \in db.kept : k.id # <<u, n>>
           N == 1..Cardinality(db.kept) + 1
           S == {n \in N : free(n)}
<1>1. N \subseteq Nat
  BY FS_CardinalityType
<1>2. \E n \in N : free(n)
  BY FreeNumber
<1>3. DownloadId(u) = <<u, Min(S)>>
  BY DEF DownloadId
<1> HIDE DEF free, N
<1>4. S \in SUBSET Nat /\ S # {}
  BY <1>1, <1>2
<1>5. Min(S) \in S
  BY <1>4, MinIs
<1>6. Min(S) \in Nat /\ free(Min(S))
  BY <1>4, <1>5
<1>7. \A k \in db.kept : k.id # <<u, Min(S)>>
  BY <1>6 DEF free
<1> QED
  BY <1>3, <1>6, <1>7

----------------------------------------------------------------------------
(* The inductive invariant.                                                *)

\* What a store has had and not lost.
Here(d) == {k.mail : k \in d.kept} \cup d.erased

Finite == IsFiniteSet(db.kept) /\ IsFiniteSet(disk.kept) /\ IsFiniteSet(came)

\* A place is new for each message that comes.
Places == DOMAIN server \subseteq 1..Cardinality(came)

UidlsApart == \A i, j \in DOMAIN server : server[i].uidl = server[j].uidl => i = j

\* Only a session has numbers.
Sessions ==
    /\ ~chk.session => chk.listed = {} /\ chk.deleted = {}
    /\ chk.pc = "list" => chk.session

\* A message whose UIDL counts as seen is here, or was.
Known(d) == \A i \in DOMAIN server : Live(d, server[i].uidl) => server[i].mail \in Here(d)

\* What a DELE was said to, and what one will be said to, is on the disk.
DelesSafe == \A i \in chk.deleted : server[i].mail \in Here(disk)
PageSafe == chk.pc = "dele" =>
    /\ chk.page # {}
    /\ \A u \in chk.page, i \in chk.listed : server[i].uidl = u => server[i].mail \in Here(disk)

DiskFailingNotLive == \A u \in Uidls : disk.failures[u] # None => ~Live(disk, u)

Inv ==
    /\ TypeOK /\ Finite /\ Places /\ UidlsApart /\ Sessions
    /\ Here(disk) \subseteq Here(db)
    /\ Known(db) /\ Known(disk) /\ DiskFailingNotLive
    /\ DelesSafe /\ PageSafe
    /\ off \subseteq Here(disk)

LEMMA InvSafe == Inv => NothingLost
BY DEF Inv, NothingLost, Here

----------------------------------------------------------------------------
(* The store's writes.                                                     *)

LEMMA WantKeeps ==
  ASSUME NEW d \in Store, NEW us
  PROVE  /\ Want(d, us) \in Store
         /\ Want(d, us).kept = d.kept /\ Want(d, us).erased = d.erased
         /\ Want(d, us).failures = d.failures
         /\ \A u \in Uidls : Live(Want(d, us), u) => Live(d, u)
<1> DEFINE seen == [u \in Uidls |-> IF u \in us /\ Live(d, u)
                                    THEN [d.seen[u] EXCEPT !.wanted = TRUE] ELSE d.seen[u]]
<1>1. \A u \in Uidls : d.seen[u] \in Row \cup {None}
  BY DEF Store
<1>2. \A u \in Uidls : Live(d, u) => d.seen[u] \in Row
  BY <1>1 DEF Live
<1>3. seen \in [Uidls -> Row \cup {None}]
  BY <1>1, <1>2 DEF Row
<1>4. Want(d, us) = [d EXCEPT !.seen = seen]
  BY DEF Want
<1>5. /\ Want(d, us) \in Store /\ Want(d, us).seen = seen
      /\ Want(d, us).kept = d.kept /\ Want(d, us).erased = d.erased
      /\ Want(d, us).failures = d.failures
  BY <1>3, <1>4 DEF Store
<1>6. \A u \in Uidls : Live(Want(d, us), u) => Live(d, u)
  BY <1>5 DEF Live
<1> QED
  BY <1>5, <1>6

LEMMA KeepKeeps ==
  ASSUME db \in Store, IsFiniteSet(db.kept), NEW m \in Mails, NEW u \in Uidls, NEW setting
  PROVE  /\ Keep(m, u, setting) \in Store
         /\ IsFiniteSet(Keep(m, u, setting).kept)
         /\ Here(Keep(m, u, setting)) = Here(db) \cup {m}
         /\ \A v \in Uidls : v # u => (Live(Keep(m, u, setting), v) => Live(db, v))
         /\ Keep(m, u, setting).failures = [db.failures EXCEPT ![u] = None]
<1> DEFINE id == DownloadId(u)
           row == [mid |-> id, wanted |-> FALSE, removed |-> FALSE]
           new == [id |-> id, mail |-> m]
           d == [db EXCEPT !.kept = {k \in @ : k.id # id} \cup {new},
                           !.seen[u] = row, !.failures[u] = None]
<1>1. id \in Uidls \X Nat /\ \A k \in db.kept : k.id # id
  BY DownloadIdFree
<1> HIDE DEF id
<1>2. {k \in db.kept : k.id # id} = db.kept
  BY <1>1
<1>3. row \in Row /\ new \in [id : Uidls \X Nat, mail : Mails] /\ new.mail = m
  BY <1>1 DEF Row
<1> HIDE DEF row, new
<1>4. /\ d.kept = db.kept \cup {new} /\ d.seen = [db.seen EXCEPT ![u] = row]
      /\ d.failures = [db.failures EXCEPT ![u] = None] /\ d.erased = db.erased
      /\ d \in Store
  BY <1>2, <1>3 DEF Store
<1> HIDE DEF d
<1>5. IsFiniteSet(d.kept)
  BY <1>4, FS_AddElement
<1>6. Here(d) = Here(db) \cup {m}
  BY <1>3, <1>4 DEF Here
<1>7. \A v \in Uidls : v # u => (Live(d, v) => Live(db, v))
  BY <1>4 DEF Live, Store
<1>8. Keep(m, u, setting) = IF setting = "downloaded" THEN Want(d, {u}) ELSE d
  BY DEF Keep, d, row, new, id
<1>9. CASE setting = "downloaded"
  <2>1. Keep(m, u, setting) = Want(d, {u})
    BY <1>8, <1>9
  <2>2. /\ Want(d, {u}) \in Store
        /\ Want(d, {u}).kept = d.kept /\ Want(d, {u}).erased = d.erased
        /\ Want(d, {u}).failures = d.failures
        /\ \A v \in Uidls : Live(Want(d, {u}), v) => Live(d, v)
    BY <1>4, WantKeeps
  <2>3. Here(Want(d, {u})) = Here(d)
    BY <2>2 DEF Here
  <2> QED
    BY <1>4, <1>5, <1>6, <1>7, <2>1, <2>2, <2>3
<1>10. CASE setting # "downloaded"
  BY <1>4, <1>5, <1>6, <1>7, <1>8, <1>10
<1> QED
  BY <1>9, <1>10

LEMMA CountKeeps ==
  ASSUME db \in Store, NEW u \in Uidls, NEW large \in BOOLEAN
  PROVE  /\ Count(u, large) \in Store
         /\ Count(u, large).kept = db.kept /\ Count(u, large).erased = db.erased
         /\ Count(u, large).seen = db.seen
         /\ \A v \in Uidls : v # u => Count(u, large).failures[v] = db.failures[v]
<1> DEFINE n == IF db.failures[u] = None THEN 1 ELSE db.failures[u].n + 1
           f == [n |-> IF n > ShownAfter THEN ShownAfter + 1 ELSE n, large |-> large]
<1>1. db.failures[u] \in Failure \cup {None} /\ ShownAfter \in Nat \ {0}
  BY Pop3Assumption DEF Store
<1>2. n \in Nat \ {0}
  BY <1>1 DEF Failure
<1> HIDE DEF n
<1>3. f \in Failure
  BY <1>1, <1>2 DEF Failure
<1>4. Count(u, large) = [db EXCEPT !.failures[u] = f]
  BY DEF Count, n
<1> HIDE DEF f
<1> QED
  BY <1>3, <1>4 DEF Store

LEMMA ConfirmedKeeps ==
  ASSUME db \in Store, NEW listed, NEW removed
  PROVE  /\ Confirmed(listed, removed) \in Store
         /\ Confirmed(listed, removed).kept = db.kept
         /\ Confirmed(listed, removed).erased = db.erased
         /\ \A u \in Uidls : Live(Confirmed(listed, removed), u) => Live(db, u)
         /\ \A u \in Uidls : Confirmed(listed, removed).failures[u] # None =>
                Confirmed(listed, removed).failures[u] = db.failures[u]
<1> DEFINE seen == [u \in Uidls |-> IF u \in removed /\ db.seen[u] # None
                       THEN [db.seen[u] EXCEPT !.removed = TRUE] ELSE db.seen[u]]
           d == [db EXCEPT !.seen = seen]
<1>1. \A u \in Uidls : db.seen[u] \in Row \cup {None}
  BY DEF Store
<1>2. /\ seen \in [Uidls -> Row \cup {None}]
      /\ \A u \in Uidls : seen[u] # None /\ ~seen[u].removed => db.seen[u] # None /\ ~db.seen[u].removed
  BY <1>1 DEF Row
<1> HIDE DEF seen
<1>3. /\ d \in Store /\ d.seen = seen /\ d.kept = db.kept /\ d.erased = db.erased
      /\ d.failures = db.failures
  BY <1>2 DEF Store
<1>4. \A u \in Uidls : Live(d, u) => Live(db, u)
  BY <1>2, <1>3 DEF Live
<1>5. Confirmed(listed, removed) = IF listed = {} THEN d ELSE Forgotten(d, listed)
  BY DEF Confirmed, d, seen
<1> HIDE DEF d
<1>6. /\ Forgotten(d, listed) \in Store /\ Forgotten(d, listed).kept = d.kept
      /\ Forgotten(d, listed).erased = d.erased
      /\ Forgotten(d, listed).seen = [u \in Uidls |-> IF u \in listed THEN d.seen[u] ELSE None]
      /\ Forgotten(d, listed).failures = [u \in Uidls |-> IF u \in listed THEN d.failures[u] ELSE None]
  BY <1>3 DEF Forgotten, Store
<1>7. \A u \in Uidls : Live(Forgotten(d, listed), u) => Live(d, u)
  BY <1>6 DEF Live
<1> QED
  BY <1>3, <1>4, <1>5, <1>6, <1>7

----------------------------------------------------------------------------
(* The steps of a check.                                                   *)

\* The variables the safety argument does not look at.
Rest == <<remove, quiet, menu, told, missed, reported, heard, notified, excused, faults, turns>>

RestTyped ==
    /\ remove \in Settings /\ quiet \in Quiet \cup {None}
    /\ menu \subseteq Uidls /\ told \cup missed \subseteq Mails /\ notified \subseteq Mails
    /\ reported \in {"none", "ok", "backing_off", "offline"} /\ heard \in BOOLEAN
    /\ faults \in 0..MaxFaults /\ turns \in 0..MaxTurns

\* A message that keeps failing has not come down.
FailingNotLive == \A u \in Uidls : db.failures[u] # None => ~Live(db, u)

\* A check's record after a step that says no DELE: it is a check, knows no
\* number it did not know, and is in no page it was not in.
Narrows ==
    /\ chk' \in Check /\ Sessions'
    /\ chk'.listed \subseteq DOMAIN server /\ chk'.deleted \subseteq chk.deleted
    /\ chk'.pc # "dele"

\* Such a step, whatever it adds to the store.
LEMMA StoreStep ==
  ASSUME Inv, RestTyped', Narrows, UNCHANGED <<server, came, disk, off>>,
         db' \in Store, IsFiniteSet(db'.kept), FailingNotLive',
         Here(db) \subseteq Here(db'), Known(db)'
  PROVE  Inv'
<1>1. TypeOK'
  BY DEF Inv, TypeOK, RestTyped, Narrows, FailingNotLive
<1>2. Finite' /\ Places' /\ UidlsApart' /\ Sessions'
  BY DEF Inv, Finite, Places, UidlsApart, Narrows
<1>3. /\ Here(disk)' \subseteq Here(db)' /\ Known(disk)' /\ (off \subseteq Here(disk))'
      /\ DiskFailingNotLive'
  BY DEF Inv, Known, Live, Here, DiskFailingNotLive
<1>4. DelesSafe' /\ PageSafe'
  BY DEF Inv, DelesSafe, PageSafe, Narrows, Here
<1> QED
  BY <1>1, <1>2, <1>3, <1>4 DEF Inv

LEMMA CheckStep ==
  ASSUME Inv, RestTyped', Narrows, UNCHANGED <<server, came, disk, off, db>>
  PROVE  Inv'
<1>1. db' \in Store /\ IsFiniteSet(db'.kept) /\ FailingNotLive'
  BY DEF Inv, TypeOK, Finite, FailingNotLive, Live
<1>2. Here(db) \subseteq Here(db') /\ Known(db)'
  BY DEF Inv, Known, Live, Here
<1> QED
  BY <1>1, <1>2, StoreStep

\* What the invariant says of the check's record and of the rest.
LEMMA InvParts ==
  ASSUME Inv
  PROVE  /\ chk \in Check /\ Sessions /\ chk.listed \subseteq DOMAIN server
         /\ chk.deleted \subseteq DOMAIN server /\ RestTyped /\ FailingNotLive
         /\ db \in Store /\ disk \in Store /\ IsFiniteSet(db.kept)
         /\ DOMAIN server \subseteq Nat /\ Cardinality(came) \in Nat
         /\ Known(db)
         /\ \A i \in DOMAIN server : server[i].uidl \in Uidls /\ server[i].mail \in Mails
<1>1. Cardinality(came) \in Nat
  BY FS_CardinalityType DEF Inv, Finite
<1> QED
  BY <1>1 DEF Inv, TypeOK, RestTyped, FailingNotLive, Places, Finite

LEMMA IdleIs ==
  Idle \in Check /\ Idle.listed = {} /\ Idle.deleted = {} /\ Idle.pc = "idle"
  /\ Idle.session = FALSE
BY DEF Idle, Check

LEMMA StartInv == ASSUME Inv, Start PROVE Inv'
<1>1. PICK owed \in BOOLEAN :
          chk' = [Idle EXCEPT !.pc = "connect", !.remove = remove, !.owed = owed, !.last = quiet]
  <2>1. RetryDue \in BOOLEAN
    BY DEF RetryDue
  <2> QED
    BY <2>1, InvParts DEF Start
<1>2. remove \in {"never", "downloaded", "days"} /\ quiet \in Quiet \cup {None}
  BY InvParts, Pop3Assumption DEF RestTyped
<1>3. Narrows
  BY <1>1, <1>2, IdleIs DEF Narrows, Check, Sessions
<1>4. RestTyped'
  BY InvParts DEF Start, SameWorld, SameWindow, RestTyped
<1> QED
  BY <1>3, <1>4, CheckStep DEF Start, SameWorld, SameWindow

LEMMA FaultTyped == ASSUME Inv, Fault \/ UNCHANGED faults PROVE faults' \in 0..MaxFaults
BY Pop3Assumption DEF Inv, TypeOK, Fault

LEMMA OpenInv == ASSUME Inv, Open PROVE Inv'
<1>1. chk \in Check /\ chk.pc = "connect" /\ RestTyped
  BY InvParts DEF Open, Going
<1>2. PICK stat \in {Stat, None} :
          \/ chk.last # None /\ chk' = [Idle EXCEPT !.pc = "end"] /\ quiet' = chk.last
          \/ chk' = [Idle EXCEPT !.pc = "list", !.remove = chk.remove, !.stat = stat,
                                 !.first = FirstCheck, !.session = TRUE] /\ UNCHANGED quiet
  BY DEF Open, SameMaildrop
<1>3. stat \in [size : Nat] \cup {None} /\ FirstCheck \in BOOLEAN
  <2>1. Cardinality(DOMAIN server) \in Nat
    <3>1. IsFiniteSet(1..Cardinality(came))
      BY InvParts, FS_Interval
    <3> QED
      BY <3>1, FS_Subset, FS_CardinalityType DEF Inv, Places
  <2> QED
    BY <2>1, InvParts DEF Stat, FirstCheck, Store
<1>4. Narrows /\ quiet' \in Quiet \cup {None}
  <2>1. ASSUME chk' = [Idle EXCEPT !.pc = "end"] PROVE Narrows
    BY <2>1, IdleIs DEF Narrows, Check, Sessions
  <2>2. ASSUME chk' = [Idle EXCEPT !.pc = "list", !.remove = chk.remove, !.stat = stat,
                                   !.first = FirstCheck, !.session = TRUE]
        PROVE  Narrows
    <3>1. chk.remove \in {"never", "downloaded", "days"}
      BY <1>1 DEF Check
    <3>2. chk' \in Check /\ chk'.listed = {} /\ chk'.deleted = {} /\ chk'.pc = "list"
          /\ chk'.session = TRUE
      BY <1>3, <2>2, <3>1, IdleIs DEF Check
    <3> QED
      BY <3>2 DEF Narrows, Sessions
  <2>3. chk.last \in Quiet \cup {None} /\ quiet \in Quiet \cup {None}
    BY <1>1 DEF Check, RestTyped
  <2> QED
    BY <1>2, <2>1, <2>2, <2>3
<1>5. faults' \in 0..MaxFaults
  BY FaultTyped DEF Open
<1>6. RestTyped'
  BY <1>1, <1>4, <1>5 DEF Open, SameWorld, SameWindow, RestTyped
<1> QED
  BY <1>4, <1>6, CheckStep DEF Open, SameWorld, SameWindow

LEMMA ReopenInv == ASSUME Inv, Reopen PROVE Inv'
<1>1. Narrows
  BY InvParts DEF Reopen, Narrows, Check, Sessions
<1>2. RestTyped'
  BY InvParts DEF Reopen, SameWorld, SameWindow, RestTyped
<1> QED
  BY <1>1, <1>2, CheckStep DEF Reopen, SameWorld, SameWindow

\* A session that is over.
LEMMA DroppedIs ==
  ASSUME NEW c \in Check, NEW pc \in {"reopen", "quit"}
  PROVE  /\ Dropped(c, pc) \in Check /\ Dropped(c, pc).pc = pc
         /\ Dropped(c, pc).listed = {} /\ Dropped(c, pc).deleted = {}
BY DEF Dropped, Check

LEMMA DroppedNarrows ==
  ASSUME NEW c \in Check, NEW pc \in {"reopen", "quit"}, chk' = Dropped(c, pc)
  PROVE  Narrows
BY DroppedIs DEF Narrows, Sessions

LEMMA FailsInv == ASSUME Inv, Fails PROVE Inv'
<1> DEFINE c == [chk EXCEPT !.failed = TRUE]
<1>1. /\ c \in Check /\ c.listed = chk.listed /\ c.deleted = chk.deleted
      /\ c.session = chk.session
      /\ chk' \in {Dropped(c, "quit"), [c EXCEPT !.pc = "quit"]}
  BY InvParts DEF Check, Fails
<1> HIDE DEF c
<1>2. ASSUME chk' = Dropped(c, "quit") PROVE Narrows
  BY <1>1, <1>2, DroppedNarrows
<1>3. ASSUME chk' = [c EXCEPT !.pc = "quit"] PROVE Narrows
  <2>1. /\ chk' \in Check /\ chk'.listed = chk.listed /\ chk'.deleted = chk.deleted
        /\ chk'.session = chk.session /\ chk'.pc = "quit"
    BY <1>1, <1>3 DEF Check
  <2> QED
    BY <2>1, InvParts DEF Narrows, Sessions
<1>4. Narrows
  BY <1>1, <1>2, <1>3
<1>5. RestTyped'
  BY InvParts, FaultTyped DEF Fails, SameWorld, SameWindow, RestTyped
<1> QED
  BY <1>4, <1>5, CheckStep DEF Fails, SameWorld, SameWindow

\* What a step that gives the failing message its name makes of the record.
LEMMA NameForms ==
  ASSUME Inv, Name
  PROVE  /\ chk.pc = "name" /\ chk' \in Check /\ chk'.pc \in {"get", "reopen", "quit"}
         /\ chk'.names = chk.names /\ chk'.removed = chk.removed /\ chk'.first = chk.first
         /\ chk'.stored = chk.stored /\ chk'.handled = chk.handled /\ chk'.whole = chk.whole
         /\ chk'.menuChanged \/ chk'.failed
         /\ \/ /\ chk'.listed = chk.listed /\ chk'.deleted = chk.deleted
               /\ chk'.session = chk.session
            \/ chk'.listed = {} /\ chk'.deleted = {} /\ ~chk'.session
<1> DEFINE shown == [chk EXCEPT !.menuChanged = TRUE]
<1>1. /\ chk \in Check /\ shown \in Check /\ shown.names = chk.names
      /\ shown.removed = chk.removed /\ shown.first = chk.first /\ shown.stored = chk.stored
      /\ shown.handled = chk.handled /\ shown.whole = chk.whole /\ shown.menuChanged
  BY InvParts DEF Check
<1>2. CASE chk' = [shown EXCEPT !.pc = "get"]
  BY <1>1, <1>2 DEF Check, Name, Going
<1>3. CASE chk' = Dropped(shown, "reopen")
  <2> HIDE DEF shown
  <2>1. /\ chk' \in Check /\ chk'.pc = "reopen" /\ chk'.listed = {} /\ chk'.deleted = {}
        /\ ~chk'.session /\ chk'.names = shown.names /\ chk'.removed = shown.removed
        /\ chk'.first = shown.first /\ chk'.stored = shown.stored
        /\ chk'.handled = shown.handled /\ chk'.whole = shown.whole
        /\ chk'.menuChanged = shown.menuChanged
    BY <1>1, <1>3 DEF Check, Dropped
  <2> QED
    BY <1>1, <2>1 DEF Name, Going
<1>4. CASE chk' = [chk EXCEPT !.pc = "quit", !.failed = TRUE]
  BY <1>1, <1>4 DEF Check, Name, Going
<1> QED
  BY <1>2, <1>3, <1>4 DEF Name

LEMMA NameInv == ASSUME Inv, Name PROVE Inv'
<1>1. Narrows
  BY NameForms, InvParts DEF Narrows, Sessions
<1>2. RestTyped'
  BY InvParts, FaultTyped DEF Name, SameWorld, SameWindow, RestTyped
<1> QED
  BY <1>1, <1>2, CheckStep DEF Name, SameWorld, SameWindow

LEMMA ListInv == ASSUME Inv, List PROVE Inv'
<1>1. chk \in Check /\ chk.session /\ DOMAIN server \subseteq Nat /\ chk.deleted \subseteq DOMAIN server
  BY InvParts DEF List, Going, Sessions
<1>2. ASSUME NEW listed \in SUBSET DOMAIN server, NEW whole \in BOOLEAN,
             chk' = [chk EXCEPT !.pc = "get", !.listed = listed, !.whole = whole, !.unnamed = FALSE]
      PROVE  Narrows
  BY <1>1, <1>2 DEF Narrows, Check, Sessions
<1>3. ASSUME chk' = Dropped([chk EXCEPT !.unnamed = FALSE], "reopen") PROVE Narrows
  <2>1. [chk EXCEPT !.unnamed = FALSE] \in Check
    BY <1>1 DEF Check
  <2> QED
    BY <1>3, <2>1, DroppedNarrows
<1>4. Narrows
  BY <1>2, <1>3 DEF List
<1>5. RestTyped'
  BY InvParts, FaultTyped DEF List, SameWorld, SameWindow, RestTyped
<1> QED
  BY <1>4, <1>5, CheckStep DEF List, SameWorld, SameWindow

\* A step that only counts, or keeps what came down.
LEMMA DownloadsInv ==
  ASSUME Inv, chk.pc = "get", NEW i \in DOMAIN server, Downloads(i),
         SameWorld, SameWindow, UNCHANGED <<disk, quiet>>
  PROVE  Inv'
<1> DEFINE e == server[i]
<1>1. /\ e.uidl \in Uidls /\ e.mail \in Mails /\ chk \in Check /\ db \in Store
      /\ IsFiniteSet(db.kept)
  BY InvParts
<1>2. /\ db' = Keep(e.mail, e.uidl, chk.remove) /\ UNCHANGED <<faults, server, came, off>>
      /\ chk' = [chk EXCEPT !.stored = @ \cup {e.mail}]
  BY DEF Downloads, SameWorld
<1>3. /\ db' \in Store /\ IsFiniteSet(db'.kept)
      /\ Here(db') = Here(db) \cup {e.mail}
      /\ \A u \in Uidls : u # e.uidl => (Live(db', u) => Live(db, u))
      /\ db'.failures = [db.failures EXCEPT ![e.uidl] = None]
  <2> DEFINE m == e.mail
             u == e.uidl
  <2>1. m \in Mails /\ u \in Uidls /\ db' = Keep(m, u, chk.remove)
    BY <1>1, <1>2
  <2> HIDE DEF m, u
  <2>2. /\ db' \in Store /\ IsFiniteSet(db'.kept)
        /\ Here(db') = Here(db) \cup {m}
        /\ \A v \in Uidls : v # u => (Live(db', v) => Live(db, v))
        /\ db'.failures = [db.failures EXCEPT ![u] = None]
    BY <1>1, <2>1, KeepKeeps
  <2> QED
    BY <2>2 DEF m, u
<1>4. FailingNotLive'
  <2>1. db.failures \in [Uidls -> Failure \cup {None}] /\ FailingNotLive
    BY <1>1, InvParts DEF Store
  <2> QED
    BY <1>3, <2>1 DEF FailingNotLive
<1>5. Known(db)'
  <2> SUFFICES ASSUME NEW j \in DOMAIN server, Live(db', server[j].uidl)
               PROVE  server[j].mail \in Here(db')
    BY <1>2 DEF Known
  <2>1. CASE server[j].uidl = e.uidl
    BY <1>3, <2>1 DEF Inv, UidlsApart
  <2>2. CASE server[j].uidl # e.uidl
    BY <1>3, <2>2, InvParts DEF Known
  <2> QED
    BY <2>1, <2>2
<1>6. Narrows
  BY <1>1, <1>2, InvParts DEF Narrows, Check, Sessions
<1>7. RestTyped'
  BY <1>2, InvParts DEF RestTyped, SameWorld, SameWindow
<1> QED
  BY <1>2, <1>3, <1>4, <1>5, <1>6, <1>7, StoreStep

LEMMA CountInv ==
  ASSUME Inv, NEW i \in Due, NEW large \in BOOLEAN,
         db' = Count(server[i].uidl, large), Narrows, faults' \in 0..MaxFaults,
         SameWorld, SameWindow, UNCHANGED <<disk, quiet>>
  PROVE  Inv'
<1> DEFINE u == server[i].uidl
<1>1. u \in Uidls /\ ~Live(db, u)
  BY InvParts DEF Due, Unseen
<1>2. /\ db' \in Store /\ db'.kept = db.kept /\ db'.erased = db.erased
      /\ db'.seen = db.seen
      /\ \A v \in Uidls : v # u => db'.failures[v] = db.failures[v]
  BY <1>1, InvParts, CountKeeps
<1>3. FailingNotLive' /\ IsFiniteSet(db'.kept)
  BY <1>1, <1>2, InvParts DEF FailingNotLive, Live
<1>4. Here(db') = Here(db) /\ Known(db)'
  BY <1>2, InvParts DEF Known, Here, Live, SameWorld
<1>5. RestTyped'
  BY InvParts DEF RestTyped, SameWorld, SameWindow
<1> QED
  BY <1>2, <1>3, <1>4, <1>5, StoreStep DEF SameWorld

LEMMA GetInv == ASSUME Inv, Get PROVE Inv'
<1>1. PICK i \in Due : Downloads(i) \/ TooLarge(i) \/ Refused(i) \/ Breaks(i)
  BY DEF Get
<1>2. /\ SameWorld /\ SameWindow /\ UNCHANGED <<disk, quiet>> /\ chk.pc = "get"
      /\ i \in DOMAIN server /\ server[i].uidl \in Uidls /\ chk \in Check
  BY InvParts DEF Get, Due, Going
<1>3. CASE Downloads(i)
  BY <1>2, <1>3, DownloadsInv
<1> DEFINE u == server[i].uidl
           shown == chk.menuChanged \/ JustShown(u)
           unnamed == chk.unnamed \/ JustShown(u)
           next == IF JustShown(u) THEN "name" ELSE "get"
           counted == [chk EXCEPT !.handled = @ \cup {u}, !.pc = next]
           broken == [chk EXCEPT !.handled = @ \cup {u}, !.menuChanged = shown, !.unnamed = unnamed]
<1>4. shown \in BOOLEAN /\ unnamed \in BOOLEAN /\ next \in {"name", "get"}
  BY <1>2 DEF JustShown, Check
<1> HIDE DEF shown, unnamed, next
<1>5. /\ counted \in Check /\ broken \in Check
      /\ counted.listed = chk.listed /\ counted.deleted = chk.deleted
      /\ counted.pc = next /\ counted.session = chk.session
  BY <1>2, <1>4 DEF Check
<1>6. ASSUME NEW large \in BOOLEAN, Counts(i, large), faults' \in 0..MaxFaults PROVE Inv'
  <2>1. chk' = counted
    BY <1>6 DEF Counts, next
  <2>2. Narrows
    BY <1>4, <1>5, <2>1, InvParts, <1>2 DEF Narrows, Sessions
  <2> QED
    BY <1>2, <1>6, <2>2, CountInv DEF Counts
<1>7. CASE TooLarge(i)
  BY <1>6, <1>7, FaultTyped DEF TooLarge
<1>8. CASE Refused(i)
  BY <1>6, <1>8, FaultTyped DEF Refused
<1>9. CASE Breaks(i)
  <2>1. PICK large \in BOOLEAN : db' = Count(u, large)
    BY <1>9 DEF Breaks
  <2>2. Narrows
    <3>1. chk' = Dropped(broken, "reopen")
      BY <1>9 DEF Breaks, shown, unnamed
    <3> QED
      BY <1>5, <3>1, DroppedNarrows
  <2> QED
    BY <1>2, <1>9, <2>1, <2>2, CountInv, FaultTyped DEF Breaks
<1> QED
  BY <1>1, <1>3, <1>7, <1>8, <1>9

LEMMA FinishFirstInv == ASSUME Inv, FinishFirst PROVE Inv'
<1>1. db' = [db EXCEPT !.firstDone = TRUE] /\ UNCHANGED chk /\ chk.pc = "get"
  BY DEF FinishFirst, Going
<1>2. /\ db' \in Store /\ db'.kept = db.kept /\ db'.erased = db.erased
      /\ db'.seen = db.seen /\ db'.failures = db.failures
  BY <1>1, InvParts DEF Store
<1>3. FailingNotLive' /\ Here(db') = Here(db) /\ IsFiniteSet(db'.kept)
  BY <1>2, InvParts DEF FailingNotLive, Live, Here
<1>4. Known(db)'
  BY <1>2, InvParts DEF Known, Here, Live, FinishFirst, SameWorld
<1>5. RestTyped' /\ Narrows
  BY <1>1, InvParts DEF RestTyped, Narrows, Sessions, FinishFirst, SameWorld
<1> QED
  BY <1>2, <1>3, <1>4, <1>5, StoreStep DEF FinishFirst, SameWorld

LEMMA PassedInv == ASSUME Inv, Passed PROVE Inv'
<1>1. PICK aged \in SUBSET Uidls : db' = IF chk.remove = "days" THEN Want(db, aged) ELSE db
  BY DEF Passed
<1>2. /\ db' \in Store /\ db'.kept = db.kept /\ db'.erased = db.erased
      /\ db'.failures = db.failures /\ \A u \in Uidls : Live(db', u) => Live(db, u)
  BY <1>1, InvParts, WantKeeps
<1>3. FailingNotLive' /\ Here(db') = Here(db) /\ IsFiniteSet(db'.kept)
  BY <1>2, InvParts DEF FailingNotLive, Here
<1>4. Known(db)'
  BY <1>2, <1>3, InvParts DEF Known, Passed, SameWorld
<1>5. Narrows
  BY InvParts DEF Passed, Narrows, Check, Sessions
<1>6. RestTyped'
  BY InvParts DEF RestTyped, Passed, SameWorld, SameWindow
<1> QED
  BY <1>2, <1>3, <1>4, <1>5, <1>6, StoreStep DEF Passed, SameWorld

LEMMA ConfirmInv == ASSUME Inv, Confirm PROVE Inv'
<1>1. /\ quiet' = IF chk.stat # None /\ chk.removed = {} /\ chk.whole
                  THEN [stat |-> chk.stat, lapsed |-> FALSE] ELSE None
      /\ \/ /\ db' = Confirmed(chk.names, chk.removed)
            /\ \E b \in BOOLEAN : chk' = [chk EXCEPT !.pc = "end", !.menuChanged = @ \/ b]
         \/ chk' = [chk EXCEPT !.pc = "end", !.failed = TRUE] /\ UNCHANGED db
  <2>1. (Failing(db) \ Failing(db') # {}) \in BOOLEAN
    OBVIOUS
  <2> QED
    BY <2>1 DEF Confirm
<1>2. RestTyped'
  <2>1. quiet' \in Quiet \cup {None}
    BY <1>1, InvParts DEF Check, Quiet
  <2>2. faults' \in 0..MaxFaults
    BY FaultTyped DEF Confirm
  <2> QED
    BY <2>1, <2>2, InvParts DEF RestTyped, Confirm, SameWorld, SameWindow
<1>3. CASE chk' = [chk EXCEPT !.pc = "end", !.failed = TRUE] /\ UNCHANGED db
  <2>1. Narrows
    BY <1>3, InvParts DEF Narrows, Check, Sessions
  <2> QED
    BY <1>2, <1>3, <2>1, CheckStep DEF Confirm, SameWorld
<1>4. CASE /\ db' = Confirmed(chk.names, chk.removed)
           /\ \E b \in BOOLEAN : chk' = [chk EXCEPT !.pc = "end", !.menuChanged = @ \/ b]
  <2>1. /\ db' \in Store /\ db'.kept = db.kept /\ db'.erased = db.erased
        /\ \A u \in Uidls : Live(db', u) => Live(db, u)
        /\ \A u \in Uidls : db'.failures[u] # None => db'.failures[u] = db.failures[u]
    BY <1>4, InvParts, ConfirmedKeeps
  <2>2. FailingNotLive' /\ Here(db') = Here(db) /\ IsFiniteSet(db'.kept)
    BY <2>1, InvParts DEF FailingNotLive, Here
  <2>3. Known(db)'
    BY <2>1, <2>2, InvParts DEF Known, Confirm, SameWorld
  <2>4. Narrows
    BY <1>4, InvParts DEF Narrows, Check, Sessions
  <2> QED
    BY <1>2, <2>1, <2>2, <2>3, <2>4, StoreStep DEF Confirm, SameWorld
<1> QED
  BY <1>1, <1>3, <1>4

LEMMA AnnounceInv == ASSUME Inv, Announce PROVE Inv'
<1>1. Narrows
  BY IdleIs DEF Announce, Narrows, Sessions
<1>2. told' \cup missed' \subseteq Mails /\ notified' \subseteq Mails /\ menu' \subseteq Uidls
  <2>1. chk.stored \subseteq Mails /\ Stored \subseteq Mails
    BY InvParts DEF Check, Stored, Store
  <2> QED
    BY <2>1, InvParts DEF Announce, Looked, Failing, RestTyped
<1>3. reported' \in {"none", "ok", "backing_off", "offline"} /\ heard' \in BOOLEAN
  <2>1. heard \in BOOLEAN
    BY InvParts DEF RestTyped
  <2> QED
    BY <2>1 DEF Announce, Outcomes
<1>4. faults' \in 0..MaxFaults
  BY FaultTyped DEF Announce
<1>5. RestTyped'
  BY <1>2, <1>3, <1>4, InvParts DEF RestTyped, Announce, SameWorld
<1> QED
  BY <1>1, <1>5, CheckStep DEF Announce, SameWorld

\* The check is gone, and the store as it is.
LEMMA StoppedInv == ASSUME Inv, Stopped PROVE Inv'
<1>1. Narrows
  BY IdleIs DEF Stopped, Narrows, Sessions
<1>2. missed' \subseteq Mails
  BY InvParts DEF Stopped, RestTyped, Check
<1>3. RestTyped'
  BY <1>2, FaultTyped, InvParts DEF RestTyped, Stopped, SameWorld
<1> QED
  BY <1>1, <1>3, CheckStep DEF Stopped, SameWorld

\* A checkpoint leaves the disk with everything there is.
LEMMA Synced ==
  ASSUME Inv, RestTyped', disk' = db, UNCHANGED <<server, came, off, db>>,
         chk' \in Check, Sessions', chk'.listed \subseteq DOMAIN server,
         chk'.deleted \subseteq chk.deleted,
         PageSafe'
  PROVE  Inv'
<1>1. TypeOK'
  BY DEF Inv, TypeOK, RestTyped, Live
<1>2. Finite' /\ Places' /\ UidlsApart' /\ Known(db)' /\ Known(disk)'
  BY DEF Inv, Finite, Places, UidlsApart, Known, Live, Here
<1>3. Here(disk) \subseteq Here(disk') /\ Here(disk)' = Here(db)'
  BY DEF Inv, Here
<1>4. DelesSafe' /\ (off \subseteq Here(disk))' /\ DiskFailingNotLive'
  BY <1>3, InvParts DEF Inv, DelesSafe, Here, DiskFailingNotLive, FailingNotLive, Live
<1> QED
  BY <1>1, <1>2, <1>3, <1>4 DEF Inv

LEMMA PendingInv == ASSUME Inv, Pending PROVE Inv'
<1>1. /\ chk \in Check /\ Sessions /\ chk.listed \subseteq DOMAIN server /\ chk.pc = "pending"
      /\ UNCHANGED <<server, came, off, db, remove, quiet, menu, told, missed, reported, heard, notified, turns>>
      /\ DOMAIN server \subseteq Nat
  BY InvParts DEF Pending, SameWorld, SameWindow, Going
<1>2. Wanted \subseteq Uidls
  BY DEF Wanted
<1>3. /\ [chk EXCEPT !.pc = "quit"] \in Check
      /\ [chk EXCEPT !.pc = "dele", !.page = Wanted] \in Check
  BY <1>1, <1>2 DEF Check
<1>4. RestTyped'
  BY <1>1, InvParts, FaultTyped DEF Pending, RestTyped
<1>5. ASSUME chk' = [chk EXCEPT !.pc = "quit"]
      PROVE  Narrows /\ PageSafe'
  BY <1>1, <1>3, <1>5, InvParts DEF Narrows, Sessions, PageSafe, Check
<1>6. ASSUME chk' = [chk EXCEPT !.pc = "dele", !.page = Wanted], disk' = db, Wanted # {}
      PROVE  /\ chk' \in Check /\ Sessions' /\ chk'.listed \subseteq DOMAIN server
             /\ chk'.deleted \subseteq chk.deleted /\ PageSafe'
  <2>1. /\ chk' \in Check /\ chk'.listed = chk.listed /\ chk'.deleted = chk.deleted
        /\ chk'.session = chk.session /\ chk'.pc = "dele" /\ chk'.page = Wanted
    BY <1>1, <1>3, <1>6 DEF Check
  <2>2. PageSafe'
    <3> SUFFICES ASSUME NEW u \in Wanted, NEW i \in chk.listed, server[i].uidl = u
                 PROVE  server[i].mail \in Here(db)
      BY <1>1, <1>6, <2>1 DEF PageSafe, Here
    <3>1. i \in DOMAIN server /\ Live(db, u)
      BY <1>1 DEF Wanted
    <3> QED
      BY <3>1, InvParts DEF Known
  <2> QED
    BY <1>1, <2>1, <2>2 DEF Sessions
<1>7. CASE chk' = [chk EXCEPT !.pc = "quit"] /\ UNCHANGED disk
  BY <1>1, <1>4, <1>5, <1>7, CheckStep
<1>8. CASE chk' = [chk EXCEPT !.pc = "quit"] /\ disk' = db
  BY <1>1, <1>4, <1>5, <1>8, Synced DEF Narrows
<1>9. CASE chk' = [chk EXCEPT !.pc = "dele", !.page = Wanted] /\ disk' = db /\ Wanted # {}
  BY <1>1, <1>4, <1>6, <1>9, Synced
<1> QED
  BY <1>7, <1>8, <1>9 DEF Pending, OnDisk

LEMMA DeleInv == ASSUME Inv, Dele PROVE Inv'
<1> DEFINE u == Min(chk.page)
           next == IF chk.page = {u} THEN "quit" ELSE "dele"
           rest == [chk EXCEPT !.page = @ \ {u}, !.pc = next]
           said == [rest EXCEPT !.deleted = @ \cup {NumberOf(u)}, !.removed = @ \cup {u}]
<1>1. /\ chk \in Check /\ Sessions /\ chk.listed \subseteq DOMAIN server
      /\ chk.deleted \subseteq DOMAIN server /\ DOMAIN server \subseteq Nat
      /\ chk.pc = "dele" /\ DelesSafe /\ PageSafe
      /\ UNCHANGED <<server, came, off, db, disk, remove, quiet, menu, told, missed, reported, heard, notified, turns>>
  BY InvParts DEF Dele, SameWorld, SameWindow, Going, Inv
<1>2. u \in chk.page /\ u \in Uidls
  <2>1. chk.page \subseteq Uidls /\ chk.page # {} /\ Uidls \subseteq Nat
    BY <1>1, Pop3Assumption DEF Check, PageSafe
  <2> QED
    BY <2>1, MinIs, SMTT(30)
<1> HIDE DEF u
<1>3. /\ rest \in Check /\ rest.listed = chk.listed /\ rest.deleted = chk.deleted
      /\ rest.page = chk.page \ {u} /\ rest.pc = next /\ rest.session = chk.session
  BY <1>1 DEF Check
<1>4. ASSUME \E i \in chk.listed : server[i].uidl = u
      PROVE  /\ said \in Check /\ said.listed = chk.listed /\ said.page = chk.page \ {u}
             /\ said.pc = next /\ said.session = chk.session
             /\ said.deleted \subseteq DOMAIN server
             /\ \A i \in said.deleted : server[i].mail \in Here(disk)
             /\ chk.session
  <2> DEFINE S == {i \in chk.listed : server[i].uidl = u}
  <2>1. S \in SUBSET Nat /\ S # {}
    BY <1>1, <1>4
  <2>2. NumberOf(u) \in S
    BY <2>1, MinIs DEF NumberOf, FirstOf
  <2>3. NumberOf(u) \in chk.listed /\ server[NumberOf(u)].uidl = u
    BY <2>2
  <2> HIDE DEF rest
  <2>4. /\ said \in Check /\ said.listed = rest.listed /\ said.page = rest.page
        /\ said.pc = rest.pc /\ said.session = rest.session
        /\ said.deleted = rest.deleted \cup {NumberOf(u)}
    BY <1>1, <1>2, <1>3, <2>3 DEF Check
  <2>5. server[NumberOf(u)].mail \in Here(disk)
    BY <1>1, <1>2, <2>3 DEF PageSafe
  <2> QED
    BY <1>1, <1>3, <2>3, <2>4, <2>5 DEF DelesSafe, Sessions
<1>5. chk' = rest \/ (chk' = said /\ \E i \in chk.listed : server[i].uidl = u)
  BY DEF Dele, u
<1>6. /\ chk' \in Check /\ chk'.listed = chk.listed /\ chk'.page = chk.page \ {u}
      /\ chk'.pc = next /\ chk'.session = chk.session
      /\ chk'.deleted \subseteq DOMAIN server
      /\ \A i \in chk'.deleted : server[i].mail \in Here(disk)
      /\ ~chk'.session => chk'.listed = {} /\ chk'.deleted = {}
  <2> HIDE DEF rest, said
  <2> QED
    BY <1>1, <1>3, <1>4, <1>5 DEF DelesSafe, Sessions
<1>7. Sessions' /\ DelesSafe' /\ PageSafe'
  BY <1>1, <1>2, <1>6 DEF Sessions, DelesSafe, PageSafe, Here
<1>8. RestTyped' /\ FailingNotLive'
  <2>1. faults' \in 0..MaxFaults
    BY FaultTyped DEF Dele
  <2> QED
    BY <1>1, <2>1, InvParts DEF RestTyped, FailingNotLive, Live
<1>9. TypeOK'
  BY <1>1, <1>6, <1>8 DEF Inv, TypeOK, RestTyped, FailingNotLive
<1> QED
  BY <1>1, <1>7, <1>9 DEF Inv, Finite, Places, UidlsApart, Known, Live, Here, DiskFailingNotLive

LEMMA QuitInv == ASSUME Inv, Quit PROVE Inv'
<1>1. PICK answered \in BOOLEAN, carried \in BOOLEAN :
          /\ server' = IF carried THEN Left ELSE server
          /\ off' = IF carried THEN off \cup {server[i].mail : i \in chk.deleted} ELSE off
          /\ chk' = [Over EXCEPT !.pc = IF ~chk.failed /\ answered THEN "confirm" ELSE "end"]
          /\ Fault \/ UNCHANGED faults
  BY DEF Quit
<1>2. /\ chk \in Check /\ DOMAIN server \subseteq Nat
      /\ chk.listed \subseteq DOMAIN server /\ chk.deleted \subseteq DOMAIN server
      /\ \A i \in DOMAIN server : server[i].uidl \in Uidls /\ server[i].mail \in Mails
      /\ UNCHANGED <<came, db, disk, remove, quiet, menu, told, missed, reported, heard, notified, turns>>
  BY InvParts DEF Quit, SameWindow
<1>3. /\ DOMAIN server' \subseteq DOMAIN server
      /\ \A i \in DOMAIN server' : server'[i] = server[i]
      /\ server' \in [DOMAIN server' -> [mail : Mails, uidl : Uidls]]
  BY <1>1 DEF Left, Inv, TypeOK
<1>4. chk' \in Check /\ chk'.listed = {} /\ chk'.deleted = {} /\ chk'.pc \in {"confirm", "end"}
  <2>1. Listed \subseteq Uidls
    BY <1>2 DEF Listed
  <2>2. Over \in Check /\ Over.listed = {} /\ Over.deleted = {}
    BY <1>2, <2>1, IdleIs DEF Over, Check
  <2> HIDE DEF Over
  <2> QED
    BY <1>1, <2>2 DEF Check
<1>5. off' \subseteq Here(disk')
  BY <1>1, <1>2 DEF Inv, DelesSafe, Here
<1>6. RestTyped' /\ FailingNotLive'
  BY <1>1, <1>2, InvParts, FaultTyped DEF RestTyped, FailingNotLive, Live
<1>7. TypeOK'
  BY <1>2, <1>3, <1>4, <1>6 DEF Inv, TypeOK, RestTyped, FailingNotLive
<1>8. Finite' /\ Places' /\ UidlsApart' /\ Known(db)' /\ Known(disk)'
  BY <1>2, <1>3 DEF Inv, Finite, Places, UidlsApart, Known, Live, Here
<1>9. Sessions' /\ DelesSafe' /\ PageSafe' /\ (Here(disk) \subseteq Here(db))'
  BY <1>2, <1>4 DEF Inv, Sessions, DelesSafe, PageSafe, Here
<1>10. DiskFailingNotLive'
  BY <1>2 DEF Inv, DiskFailingNotLive, Live
<1> QED
  BY <1>5, <1>7, <1>8, <1>9, <1>10 DEF Inv

----------------------------------------------------------------------------
(* The person, the server, the others and the computer.                    *)

\* The same check goes on beside a step of the others.
LEMMA CheckSame ==
  ASSUME Inv, UNCHANGED <<chk, server>>
  PROVE  /\ chk' \in Check /\ Sessions' /\ chk'.listed \subseteq DOMAIN server
         /\ chk'.deleted \subseteq chk.deleted
BY InvParts DEF Sessions

\* The store and its disk after a step of a person's.
LEMMA PersonStep ==
  ASSUME Inv, RestTyped', UNCHANGED <<chk, server, came, disk, off>>,
         db' \in Store, IsFiniteSet(db'.kept), FailingNotLive',
         Here(db) \subseteq Here(db'), Known(db)'
  PROVE  Inv'
<1>1. TypeOK'
  BY DEF Inv, TypeOK, RestTyped, FailingNotLive
<1>2. Finite' /\ Places' /\ UidlsApart' /\ Sessions'
  BY DEF Inv, Finite, Places, UidlsApart, Sessions
<1>3. /\ Here(disk)' \subseteq Here(db)' /\ Known(disk)' /\ (off \subseteq Here(disk))'
      /\ DiskFailingNotLive'
  BY DEF Inv, Known, Live, Here, DiskFailingNotLive
<1>4. DelesSafe' /\ PageSafe'
  BY DEF Inv, DelesSafe, PageSafe, Here
<1> QED
  BY <1>1, <1>2, <1>3, <1>4 DEF Inv

LEMMA IdlePersonStep ==
  ASSUME Inv, RestTyped', UNCHANGED <<chk, server, came, disk, off, db>>
  PROVE  Inv'
<1>1. db' \in Store /\ IsFiniteSet(db'.kept) /\ FailingNotLive'
  BY InvParts DEF FailingNotLive, Live
<1>2. Here(db) \subseteq Here(db') /\ Known(db)'
  BY InvParts DEF Known, Live, Here
<1> QED
  BY <1>1, <1>2, PersonStep

LEMMA SetRemoveInv == ASSUME Inv, NEW setting \in Settings, SetRemove(setting) PROVE Inv'
<1>1. RestTyped'
  BY InvParts, Pop3Assumption DEF RestTyped, SetRemove, SameWindow
<1> QED
  BY <1>1, IdlePersonStep DEF SetRemove, SameWindow

LEMMA DestroyInv == ASSUME Inv, NEW k \in db.kept, Destroy(k) PROVE Inv'
<1> DEFINE us == {u \in Uidls : Live(db, u) /\ db.seen[u].mid = k.id}
           d == IF remove = "never" THEN db ELSE Want(db, us)
<1>1. /\ d \in Store /\ d.kept = db.kept /\ d.erased = db.erased
      /\ d.failures = db.failures /\ \A u \in Uidls : Live(d, u) => Live(db, u)
  BY InvParts, WantKeeps
<1>2. /\ db' = d \/ db' = [d EXCEPT !.kept = @ \ {k}, !.erased = @ \cup {k.mail}]
      /\ UNCHANGED <<server, came, off, chk, disk, remove, quiet, menu, missed, reported, heard, notified, faults, turns>>
      /\ told' \subseteq told
  BY DEF Destroy, SameWorld
<1> HIDE DEF d
<1>3. k.mail \in Mails
  BY InvParts DEF Store
<1>4. /\ db' \in Store /\ db'.seen = d.seen /\ db'.failures = d.failures
      /\ \/ db'.kept = db.kept /\ db'.erased = db.erased
         \/ db'.kept = db.kept \ {k} /\ db'.erased = db.erased \cup {k.mail}
  <2>1. CASE db' = d
    BY <1>1, <2>1
  <2>2. CASE db' = [d EXCEPT !.kept = @ \ {k}, !.erased = @ \cup {k.mail}]
    <3>1. d.kept \ {k} \in SUBSET [id : Uidls \X Nat, mail : Mails]
      BY <1>1 DEF Store
    <3>2. d.erased \cup {k.mail} \in SUBSET Mails
      BY <1>1, <1>3 DEF Store
    <3> QED
      BY <1>1, <2>2, <3>1, <3>2 DEF Store
  <2> QED
    BY <1>2, <2>1, <2>2
<1>5. IsFiniteSet(db'.kept)
  <2>1. IsFiniteSet(db.kept) /\ IsFiniteSet(db.kept \ {k})
    BY InvParts, FS_RemoveElement
  <2> QED
    BY <1>4, <2>1
<1>6. FailingNotLive' /\ \A u \in Uidls : Live(db', u) => Live(db, u)
  BY <1>1, <1>4, InvParts DEF FailingNotLive, Live
<1>7. Here(db) \subseteq Here(db')
  BY <1>4 DEF Here
<1>8. Known(db)'
  BY <1>2, <1>6, <1>7, InvParts DEF Known
<1>9. RestTyped'
  BY <1>2, InvParts DEF RestTyped
<1> QED
  BY <1>2, <1>4, <1>5, <1>6, <1>7, <1>8, <1>9, PersonStep

LEMMA HourInv == ASSUME Inv, Hour PROVE Inv'
<1>1. RestTyped'
  BY InvParts DEF RestTyped, Hour, SameWorld, SameWindow, Quiet
<1> QED
  BY <1>1, IdlePersonStep DEF Hour, SameWorld

LEMMA SyncInv == ASSUME Inv, Sync PROVE Inv'
<1>1. RestTyped'
  BY InvParts DEF RestTyped, Sync, SameWorld, SameWindow
<1>2. PageSafe'
  BY DEF Inv, PageSafe, Here, Sync, SameWorld
<1> QED
  BY <1>1, <1>2, CheckSame, Synced DEF Sync, SameWorld

LEMMA RestartInv == ASSUME Inv, NEW d \in {db, disk}, Restart(d) PROVE Inv'
<1>1. /\ db' = d /\ quiet' = None /\ chk' = Idle /\ menu' = Failing(d)
      /\ told' = {k.mail : k \in d.kept} /\ missed' = {} /\ reported' = "none" /\ heard' = TRUE
      /\ UNCHANGED <<server, came, remove, turns, off, disk, notified>>
  BY DEF Restart, SameWorld
<1>2. RestTyped'
  <2>1. told' \cup missed' \subseteq Mails /\ menu' \subseteq Uidls
    BY <1>1, InvParts DEF Store, Failing
  <2>2. faults' \in 0..MaxFaults
    BY FaultTyped DEF Restart
  <2> QED
    BY <1>1, <2>1, <2>2, InvParts DEF RestTyped
<1>3. Idle \in Check /\ Sessions' /\ DelesSafe' /\ PageSafe'
  BY <1>1, IdleIs DEF Sessions, DelesSafe, PageSafe
<1>4. /\ db' \in Store /\ IsFiniteSet(db'.kept)
      /\ FailingNotLive' /\ DiskFailingNotLive' /\ Known(db)' /\ Known(disk)'
  <2>1. CASE d = db
    BY <1>1, <2>1, InvParts DEF Inv, FailingNotLive, DiskFailingNotLive, Known, Live, Here
  <2>2. CASE d = disk
    BY <1>1, <2>2, InvParts DEF Inv, Finite, FailingNotLive, DiskFailingNotLive, Known, Live, Here
  <2> QED
    BY <2>1, <2>2
<1>5. TypeOK'
  BY <1>1, <1>2, <1>3, <1>4, IdleIs DEF Inv, TypeOK, RestTyped, FailingNotLive
<1>6. Here(disk') \subseteq Here(db') /\ off' \subseteq Here(disk')
  BY <1>1 DEF Inv
<1>7. (Here(disk) \subseteq Here(db))' /\ (off \subseteq Here(disk))'
  BY <1>6 DEF Here
<1>8. Finite' /\ Places' /\ UidlsApart'
  BY <1>1, <1>4 DEF Inv, Finite, Places, UidlsApart
<1> QED
  BY <1>3, <1>4, <1>5, <1>7, <1>8 DEF Inv

LEMMA ArriveInv ==
  ASSUME ~Twice, ~Anytime, Inv, NEW m \in Mails, NEW u \in Uidls, Arrive(m, u)
  PROVE  Inv'
<1> DEFINE last == Cardinality(came) + 1
<1>1. /\ m \notin came /\ came' = came \cup {m}
      /\ server' = [i \in DOMAIN server \cup {last} |->
                       IF i = last THEN [mail |-> m, uidl |-> u] ELSE server[i]]
      /\ \A i \in DOMAIN server : server[i].uidl # u
      /\ ~Live(db, u) /\ ~Live(disk, u)
      /\ UNCHANGED <<remove, turns, off, db, disk, quiet, chk, faults, menu, told, missed, reported, heard, notified>>
  BY DEF Arrive, Free, SameWindow
<1>2. Cardinality(came') = last /\ IsFiniteSet(came') /\ Cardinality(came) \in Nat
  BY <1>1, InvParts, FS_AddElement DEF Inv, Finite
<1>3. last \notin DOMAIN server /\ DOMAIN server \subseteq 1..Cardinality(came)
  BY <1>2 DEF Inv, Places
<1> HIDE DEF last
<1>4. /\ DOMAIN server' = DOMAIN server \cup {last}
      /\ \A i \in DOMAIN server : server'[i] = server[i]
      /\ server'[last].mail = m /\ server'[last].uidl = u
      /\ server' \in [DOMAIN server' -> [mail : Mails, uidl : Uidls]]
  BY <1>1, <1>3 DEF Inv, TypeOK
<1>5. Places' /\ Finite'
  BY <1>1, <1>2, <1>3, <1>4 DEF Inv, Places, Finite, last
<1>6. UidlsApart' /\ Known(db)' /\ Known(disk)'
  <2>1. UidlsApart /\ Known(db) /\ Known(disk)
    BY DEF Inv
  <2>2. UidlsApart'
    BY <1>1, <1>4, <2>1 DEF UidlsApart
  <2>3. Known(db)'
    BY <1>1, <1>4, <2>1 DEF Known, Live, Here
  <2>4. Known(disk)'
    BY <1>1, <1>4, <2>1 DEF Known, Live, Here
  <2> QED
    BY <2>2, <2>3, <2>4
<1>7. RestTyped' /\ FailingNotLive' /\ came' \subseteq Mails
  BY <1>1, InvParts DEF RestTyped, FailingNotLive, Live, Inv, TypeOK
<1>8. TypeOK'
  BY <1>1, <1>4, <1>7, InvParts DEF Inv, TypeOK, RestTyped, FailingNotLive
<1>9. Sessions' /\ DelesSafe' /\ PageSafe' /\ (Here(disk) \subseteq Here(db))'
  <2>1. /\ Sessions /\ DelesSafe /\ PageSafe /\ Here(disk) \subseteq Here(db)
        /\ chk.listed \subseteq DOMAIN server /\ chk.deleted \subseteq DOMAIN server
    BY InvParts DEF Inv
  <2>2. chk' = chk /\ Here(disk)' = Here(disk) /\ Here(db)' = Here(db)
    BY <1>1 DEF Here
  <2>3. Sessions' /\ (Here(disk) \subseteq Here(db))'
    BY <2>1, <2>2 DEF Sessions
  <2>4. DelesSafe'
    BY <1>4, <2>1, <2>2 DEF DelesSafe
  <2>5. PageSafe'
    BY <1>4, <2>1, <2>2 DEF PageSafe
  <2> QED
    BY <2>3, <2>4, <2>5
<1> QED
  BY <1>1, <1>5, <1>6, <1>8, <1>9 DEF Inv, Here, DiskFailingNotLive, Live

LEMMA OtherRemovesInv == ASSUME Inv, NEW j \in DOMAIN server, OtherRemoves(j) PROVE Inv'
<1>1. /\ ~chk.session /\ server' = [i \in DOMAIN server \ {j} |-> server[i]]
      /\ UNCHANGED <<came, remove, turns, off, db, disk, quiet, chk, faults, menu, told, missed, reported, heard, notified>>
  BY DEF OtherRemoves, SameWindow
<1>2. /\ DOMAIN server' \subseteq DOMAIN server
      /\ \A i \in DOMAIN server' : server'[i] = server[i]
      /\ server' \in [DOMAIN server' -> [mail : Mails, uidl : Uidls]]
  BY <1>1 DEF Inv, TypeOK
<1>3. chk.listed = {} /\ chk.deleted = {} /\ chk \in Check
  BY <1>1, InvParts DEF Sessions
<1>4. RestTyped' /\ FailingNotLive'
  BY <1>1, InvParts DEF RestTyped, FailingNotLive, Live
<1>5. TypeOK'
  BY <1>1, <1>2, <1>3, <1>4 DEF Inv, TypeOK, RestTyped, FailingNotLive
<1>6. Finite' /\ Places' /\ UidlsApart' /\ Known(db)' /\ Known(disk)'
  BY <1>1, <1>2 DEF Inv, Finite, Places, UidlsApart, Known, Live, Here
<1>7. Sessions' /\ DelesSafe' /\ PageSafe' /\ (Here(disk) \subseteq Here(db))'
  BY <1>1, <1>3 DEF Inv, Sessions, DelesSafe, PageSafe, Here
<1> QED
  BY <1>1, <1>5, <1>6, <1>7 DEF Inv, Here, DiskFailingNotLive, Live

----------------------------------------------------------------------------
(* The theorems.                                                           *)

\* A server that gives a UIDL to one message at a time, and to a new one only
\* when the row of the old one is done with.
Orderly ==
    /\ ~Twice /\ ~Anytime
    /\ \A i, j \in DOMAIN Before : Before[i].uidl = Before[j].uidl => i = j

LEMMA InitInv == Orderly /\ Init => Inv
<1> SUFFICES ASSUME Orderly, Init PROVE Inv
  OBVIOUS
<1>1. /\ server = Before /\ came = Old /\ db = NewStore /\ disk = NewStore /\ chk = Idle
      /\ off = {} /\ quiet = None /\ menu = {} /\ told = {} /\ missed = {} /\ notified = {}
      /\ reported = "none" /\ heard = TRUE /\ faults = 0 /\ turns = 0 /\ remove \in Settings
  BY Pop3Assumption DEF Init
<1>2. /\ DOMAIN Before = 1..Len(Before) /\ Old \subseteq Mails
      /\ Before \in [DOMAIN Before -> [mail : Mails, uidl : Uidls]]
  <2> DEFINE E == [mail : Mails, uidl : Uidls]
  <2>1. Before \in Seq(E)
    BY Pop3Assumption
  <2> HIDE DEF E
  <2>2. DOMAIN Before = 1..Len(Before) /\ \A i \in DOMAIN Before : Before[i] \in E
    BY <2>1
  <2>3. Before \in [DOMAIN Before -> E]
    <3>1. Before \in [1..Len(Before) -> E]
      BY <2>1
    <3> QED
      BY <2>2, <3>1
  <2>4. Old \subseteq Mails
    BY <2>2 DEF Old, E
  <2> QED
    BY <2>2, <2>3, <2>4 DEF E
<1>3. /\ NewStore \in Store /\ NewStore.kept = {} /\ Here(NewStore) = {}
      /\ \A u \in Uidls : ~Live(NewStore, u)
  <2>1. NewStore \in Store /\ NewStore.kept = {} /\ NewStore.erased = {}
    BY DEF NewStore, Store
  <2>2. \A u \in Uidls : NewStore.seen[u] = None
    BY DEF NewStore
  <2>3. Here(NewStore) = {} /\ \A u \in Uidls : ~Live(NewStore, u)
    BY <2>1, <2>2 DEF Here, Live
  <2> QED
    BY <2>1, <2>3
<1>4. TypeOK
  BY <1>1, <1>2, <1>3, IdleIs, Pop3Assumption DEF TypeOK
<1>5. Finite /\ Places
  BY <1>1, <1>2, <1>3, FS_EmptySet, Pop3Assumption DEF Finite, Places
<1>6. Sessions /\ DelesSafe /\ PageSafe
  BY <1>1, IdleIs DEF Sessions, DelesSafe, PageSafe
<1>7. UidlsApart
  BY <1>1 DEF Orderly, UidlsApart
<1>8. Known(db) /\ Known(disk) /\ DiskFailingNotLive
  BY <1>1, <1>2, <1>3 DEF Known, DiskFailingNotLive
<1> QED
  BY <1>1, <1>3, <1>4, <1>5, <1>6, <1>7, <1>8 DEF Inv

LEMMA NextInv == ASSUME Orderly, Inv, Next PROVE Inv'
<1>1. CASE CheckSteps
  BY <1>1, StartInv, OpenInv, ReopenInv, ListInv, GetInv, FinishFirstInv, PassedInv,
     PendingInv, DeleInv, QuitInv, ConfirmInv, AnnounceInv, NameInv DEF CheckSteps
<1>2. CASE Fails \/ Stopped \/ Hour \/ Sync
  BY <1>2, FailsInv, StoppedInv, HourInv, SyncInv
<1>3. CASE Crash \/ PowerCut
  BY <1>3, RestartInv DEF Crash, PowerCut
<1>4. CASE \E setting \in Settings : SetRemove(setting)
  BY <1>4, SetRemoveInv
<1>5. CASE \E k \in db.kept : Destroy(k)
  BY <1>5, DestroyInv
<1>6. CASE \E m \in Mails, u \in Uidls : Arrive(m, u)
  BY <1>6, ArriveInv DEF Orderly
<1>7. CASE \E i \in DOMAIN server : OtherRemoves(i)
  BY <1>7, OtherRemovesInv
<1> QED
  BY <1>1, <1>2, <1>3, <1>4, <1>5, <1>6, <1>7 DEF Next

LEMMA StutterInv == ASSUME Inv, UNCHANGED vars PROVE Inv'
<1>1. RestTyped' /\ UNCHANGED <<chk, server, came, disk, off, db>>
  BY InvParts DEF RestTyped, vars
<1> QED
  BY <1>1, IdlePersonStep

LEMMA InvHolds == Orderly => (Spec => []Inv)
<1> SUFFICES ASSUME Orderly PROVE Spec => []Inv
  OBVIOUS
<1>1. Init => Inv
  BY InitInv
<1>2. Inv /\ [Next]_vars => Inv'
  BY NextInv, StutterInv
<1> QED
  BY <1>1, <1>2, PTL DEF Spec

\* Every variable keeps its type, and no message is failing and downloaded
\* (record_failure, mark_downloaded).
THEOREM Pop3Typed == Orderly => (Spec => []TypeOK)
<1>1. Inv => TypeOK
  BY DEF Inv
<1> QED
  BY <1>1, InvHolds, PTL

\* What a DELE of ours takes off the server is on this computer's disk, or was
\* erased by the person: for every list, fault, power cut and other client.
THEOREM NothingLostHolds == Orderly => (Spec => []NothingLost)
<1>1. Inv => NothingLost
  BY InvSafe
<1> QED
  BY <1>1, InvHolds, PTL

----------------------------------------------------------------------------
(* What the rows say of the mail that is on the server.                    *)

\* A message on the server that is here, or was, counts as seen (Known is the
\* other way).
RowOf(d) == \A i \in DOMAIN server : server[i].mail \in Here(d) => Live(d, server[i].uidl)

\* A mail is here once.
KeptOnce(d) == \A k, l \in d.kept : k.mail = l.mail => k = l

MailsApart == \A i, j \in DOMAIN server : server[i].mail = server[j].mail => i = j

\* Nothing is on the server or here that never came.
AllCame == Here(db) \cup {server[i].mail : i \in DOMAIN server} \subseteq came

\* What a QUIT confirms as removed has left the server with it.
Deletes ==
    /\ chk.session => \A i \in DOMAIN server : server[i].uidl \in chk.removed => i \in chk.deleted
    /\ chk.pc = "confirm" => \A i \in DOMAIN server : server[i].uidl \notin chk.removed

\* A whole list names every message that is down, and so does what is left of it.
NamesAll ==
    /\ chk.whole /\ chk.listed # {} =>
          \A i \in DOMAIN server : server[i].mail \in Here(db) => i \in chk.listed
    /\ chk.names # {} =>
          \A i \in DOMAIN server : server[i].mail \in Here(db) => server[i].uidl \in chk.names

\* What a check has done and what it has not, by how far it is.
SoFar ==
    /\ chk.pc \in {"idle", "connect"} => chk.stored = {} /\ ~chk.menuChanged /\ ~chk.failed
    /\ chk.pc \in {"list", "reopen", "get", "name"} => chk.removed = {} /\ (~chk.first => db.firstDone)
    /\ chk.pc \notin {"confirm", "end"} => chk.names = {}

Rows ==
    /\ RowOf(db) /\ RowOf(disk) /\ KeptOnce(db) /\ KeptOnce(disk)
    /\ MailsApart /\ AllCame /\ Deletes /\ NamesAll /\ SoFar

----------------------------------------------------------------------------
(* What the window is told.                                                *)

\* A check at whose end the window reads the menu, or the loop reports a failure.
Unsure == chk.menuChanged \/ chk.failed \/ chk.pc = "name"

\* The window knows of what is stored, or this check tells it at its end.
Tells ==
    /\ Stored \subseteq told \cup missed \cup chk.stored
    /\ Unsure \/ reported # "ok" \/ ~heard \/ Failing(db) \subseteq menu

\* A message a check has asked for in vain keeps a failure while it may be asked
\* for again.
Handled ==
    /\ \A u \in chk.handled : db.failures[u] # None
    /\ chk.pc = "confirm" => chk.handled = {}

\* Once a first check is finished, the old mail is down, gone or excused.
OldDown(d) == d.firstDone => Old \subseteq excused \cup Here(d)

\* Old mail a later check stores is excused.
OldStored == ~chk.first => chk.stored \cap Old \subseteq excused

Window ==
    /\ Tells /\ Handled /\ OldDown(db) /\ OldDown(disk) /\ OldStored
    /\ notified \cap Old \subseteq excused

----------------------------------------------------------------------------
(* What the store's writes leave of the rows.                              *)

LEMMA WantLive ==
  ASSUME NEW d \in Store, NEW us
  PROVE  \A u \in Uidls : Live(d, u) => Live(Want(d, us), u)
<1> DEFINE seen == [u \in Uidls |-> IF u \in us /\ Live(d, u)
                                    THEN [d.seen[u] EXCEPT !.wanted = TRUE] ELSE d.seen[u]]
<1>1. \A u \in Uidls : Live(d, u) => d.seen[u] \in Row
  BY DEF Live, Store
<1>2. \A u \in Uidls : Live(d, u) => seen[u] \in Row /\ ~seen[u].removed
  BY <1>1 DEF Live, Row
<1>3. \A u \in Uidls : Live(d, u) => seen[u] # None
  <2>1. None \notin Row
    BY DEF None, Row
  <2> QED
    BY <1>2, <2>1
<1>4. Want(d, us).seen = seen
  BY DEF Want, Store
<1> QED
  BY <1>2, <1>3, <1>4 DEF Live

LEMMA KeepRow ==
  ASSUME db \in Store, IsFiniteSet(db.kept), NEW m \in Mails, NEW u \in Uidls, NEW setting
  PROVE  /\ Keep(m, u, setting).kept = db.kept \cup {[id |-> DownloadId(u), mail |-> m]}
         /\ Keep(m, u, setting).erased = db.erased
         /\ Keep(m, u, setting).firstDone = db.firstDone
         /\ \A v \in Uidls : v = u \/ Live(db, v) => Live(Keep(m, u, setting), v)
<1> DEFINE id == DownloadId(u)
           row == [mid |-> id, wanted |-> FALSE, removed |-> FALSE]
           new == [id |-> id, mail |-> m]
           d == [db EXCEPT !.kept = {k \in @ : k.id # id} \cup {new},
                           !.seen[u] = row, !.failures[u] = None]
<1>1. id \in Uidls \X Nat /\ \A k \in db.kept : k.id # id
  BY DownloadIdFree
<1> HIDE DEF id
<1>2. {k \in db.kept : k.id # id} = db.kept
  BY <1>1
<1>3. row \in Row /\ new \in [id : Uidls \X Nat, mail : Mails] /\ ~row.removed /\ row # None
  BY <1>1 DEF Row, None
<1> HIDE DEF row, new
<1>4. /\ d.kept = db.kept \cup {new} /\ d.seen = [db.seen EXCEPT ![u] = row]
      /\ d.erased = db.erased /\ d.firstDone = db.firstDone
      /\ d \in Store
  BY <1>2, <1>3 DEF Store
<1> HIDE DEF d
<1>5. \A v \in Uidls : v = u \/ Live(db, v) => Live(d, v)
  <2>1. db.seen \in [Uidls -> Row \cup {None}]
    BY DEF Store
  <2>2. \A v \in Uidls : d.seen[v] = IF v = u THEN row ELSE db.seen[v]
    BY <1>4, <2>1
  <2> QED
    BY <1>3, <2>2 DEF Live
<1>6. Keep(m, u, setting) = IF setting = "downloaded" THEN Want(d, {u}) ELSE d
  BY DEF Keep, d, row, new, id
<1>7. Want(d, {u}).firstDone = d.firstDone
  BY <1>4 DEF Want, Store
<1>8. CASE setting = "downloaded"
  BY <1>4, <1>5, <1>6, <1>7, <1>8, WantKeeps, WantLive DEF new, id
<1>9. CASE setting # "downloaded"
  BY <1>4, <1>5, <1>6, <1>9 DEF new, id
<1> QED
  BY <1>8, <1>9

LEMMA ConfirmedLive ==
  ASSUME db \in Store, NEW listed, NEW removed
  PROVE  /\ \A u \in Uidls : Live(db, u) /\ u \notin removed /\ (listed = {} \/ u \in listed)
                => Live(Confirmed(listed, removed), u)
         /\ Confirmed(listed, removed).firstDone = db.firstDone
<1> DEFINE seen == [u \in Uidls |-> IF u \in removed /\ db.seen[u] # None
                       THEN [db.seen[u] EXCEPT !.removed = TRUE] ELSE db.seen[u]]
           d == [db EXCEPT !.seen = seen]
<1>1. \A u \in Uidls : u \notin removed => seen[u] = db.seen[u]
  OBVIOUS
<1> HIDE DEF seen
<1>2. d.seen = seen /\ d.firstDone = db.firstDone
  BY DEF Store
<1>3. Confirmed(listed, removed) = IF listed = {} THEN d ELSE Forgotten(d, listed)
  BY DEF Confirmed, d, seen
<1>4. DOMAIN d = DOMAIN db
  OBVIOUS
<1>5. /\ Forgotten(d, listed).seen = [u \in Uidls |-> IF u \in listed THEN d.seen[u] ELSE None]
      /\ Forgotten(d, listed).firstDone = d.firstDone
  BY DEF Forgotten, Store
<1> HIDE DEF d
<1> QED
  BY <1>1, <1>2, <1>3, <1>5 DEF Live

----------------------------------------------------------------------------
(* The rows through every step.                                            *)

LEMMA RowsParts ==
  ASSUME Inv, Rows
  PROVE  /\ RowOf(db) /\ RowOf(disk) /\ KeptOnce(db) /\ KeptOnce(disk) /\ MailsApart /\ AllCame
         /\ Deletes /\ NamesAll /\ SoFar /\ chk \in Check /\ Sessions /\ db \in Store
         /\ disk \in Store /\ UidlsApart /\ Known(db) /\ Known(disk)
         /\ Here(disk) \subseteq Here(db)
         /\ \A i \in DOMAIN server : server[i].uidl \in Uidls /\ server[i].mail \in Mails
BY InvParts DEF Inv, Rows

\* A step after which nothing new is on the server or here, and no row of what
\* is on the server is lost.
LEMMA WorldKept ==
  ASSUME Inv, Rows, UNCHANGED came,
         DOMAIN server' \subseteq DOMAIN server, \A i \in DOMAIN server' : server'[i] = server[i],
         Here(db') = Here(db), KeptOnce(db'),
         \A i \in DOMAIN server' : server[i].mail \in Here(db) /\ Live(db, server[i].uidl)
            => Live(db', server[i].uidl),
         disk' = disk \/ (disk' = db /\ db' = db)
  PROVE  /\ RowOf(db)' /\ RowOf(disk)' /\ KeptOnce(db)' /\ KeptOnce(disk)'
         /\ MailsApart' /\ AllCame'
<1>1. RowOf(db)'
  BY RowsParts DEF RowOf, Here
<1>2. RowOf(disk)'
  BY RowsParts DEF RowOf, Here, Live
<1>3. KeptOnce(db)' /\ KeptOnce(disk)'
  BY RowsParts DEF KeptOnce
<1>4. MailsApart'
  BY RowsParts DEF MailsApart
<1>5. Here(db)' = Here(db)
  BY DEF Here
<1>6. AllCame'
  BY <1>5, RowsParts DEF AllCame
<1> QED
  BY <1>1, <1>2, <1>3, <1>4, <1>6

\* A step of the check's own record.
LEMMA WorldSame ==
  ASSUME Inv, Rows, UNCHANGED <<came, server, db>>, disk' = disk \/ disk' = db
  PROVE  /\ RowOf(db)' /\ RowOf(disk)' /\ KeptOnce(db)' /\ KeptOnce(disk)'
         /\ MailsApart' /\ AllCame'
  BY RowsParts, WorldKept

LEMMA OverRows == 
  ASSUME ~chk'.session, chk'.listed = {}, chk'.names = {}, chk'.pc # "confirm"
  PROVE  Deletes' /\ NamesAll'
BY DEF Deletes, NamesAll

LEMMA IdleFields ==
  /\ Idle.names = {} /\ Idle.stored = {} /\ Idle.removed = {} /\ ~Idle.menuChanged
  /\ Idle.handled = {} /\ ~Idle.first /\ ~Idle.failed /\ ~Idle.whole
BY DEF Idle

LEMMA CountFirst ==
  ASSUME NEW u, NEW large
  PROVE  db \in Store => Count(u, large).firstDone = db.firstDone
BY DEF Count, Store

LEMMA StartRows == ASSUME Inv, Rows, Start PROVE Rows'
<1>1. \E owed : chk' = [Idle EXCEPT !.pc = "connect", !.remove = remove, !.owed = owed, !.last = quiet]
  BY DEF Start
<1>2. /\ chk'.pc = "connect" /\ chk'.stored = {} /\ ~chk'.menuChanged /\ ~chk'.failed
      /\ chk'.names = {} /\ chk'.listed = {} /\ ~chk'.session
  BY <1>1 DEF Idle
<1>3. SoFar' /\ Deletes' /\ NamesAll'
  BY <1>2, OverRows DEF SoFar
<1> QED
  BY <1>3, WorldSame DEF Rows, Start, SameWorld

LEMMA OpenRows == ASSUME Inv, Rows, Open PROVE Rows'
<1>1. \/ chk' = [Idle EXCEPT !.pc = "end"]
      \/ \E stat : chk' = [Idle EXCEPT !.pc = "list", !.remove = chk.remove, !.stat = stat,
                                       !.first = FirstCheck, !.session = TRUE]
  BY DEF Open
<1>2. UNCHANGED <<server, came, db, disk>>
  BY DEF Open, SameWorld
<1>3. CASE chk' = [Idle EXCEPT !.pc = "end"]
  <2>1. chk'.pc = "end" /\ chk'.names = {} /\ chk'.listed = {} /\ ~chk'.session
    BY <1>3 DEF Idle
  <2>2. SoFar' /\ Deletes' /\ NamesAll'
    BY <2>1, OverRows DEF SoFar
  <2> QED
    BY <1>2, <2>2, WorldSame DEF Rows
<1>4. CASE \E stat : chk' = [Idle EXCEPT !.pc = "list", !.remove = chk.remove, !.stat = stat,
                                         !.first = FirstCheck, !.session = TRUE]
  <2>1. /\ chk'.pc = "list" /\ chk'.names = {} /\ chk'.listed = {} /\ chk'.removed = {}
        /\ chk'.first = FirstCheck
    BY <1>4 DEF Idle
  <2>2. SoFar' /\ Deletes' /\ NamesAll'
    BY <1>2, <2>1 DEF SoFar, Deletes, NamesAll, FirstCheck
  <2> QED
    BY <1>2, <2>2, WorldSame DEF Rows
<1> QED
  BY <1>1, <1>3, <1>4

LEMMA ReopenRows == ASSUME Inv, Rows, Reopen PROVE Rows'
<1>1. /\ chk' = [chk EXCEPT !.pc = "list", !.session = TRUE] /\ chk.pc = "reopen"
      /\ UNCHANGED <<server, came, db, disk>>
  BY DEF Reopen, SameWorld, Going
<1>2. /\ chk'.pc = "list" /\ chk'.names = chk.names /\ chk'.listed = chk.listed
      /\ chk'.removed = chk.removed /\ chk'.whole = chk.whole /\ chk'.first = chk.first
  BY <1>1, RowsParts DEF Check
<1>3. chk.removed = {} /\ (~chk.first => db.firstDone) /\ chk.names = {}
  BY <1>1, RowsParts DEF SoFar
<1>4. SoFar' /\ Deletes'
  BY <1>1, <1>2, <1>3 DEF SoFar, Deletes
<1>5. NamesAll'
  BY <1>1, <1>2, RowsParts DEF NamesAll, Here
<1> QED
  BY <1>1, <1>4, <1>5, WorldSame DEF Rows

\* The client dropped the session.
LEMMA DroppedRows ==
  ASSUME Inv, Rows, NEW c \in Check, NEW pc \in {"reopen", "quit"}, chk' = Dropped(c, pc),
         c.names = {}, c.removed = chk.removed, c.first = chk.first,
         pc = "reopen" => chk.removed = {} /\ (~chk.first => db'.firstDone)
  PROVE  Deletes' /\ NamesAll' /\ SoFar'
<1>1. /\ chk'.pc = pc /\ ~chk'.session /\ chk'.listed = {} /\ chk'.names = {}
      /\ chk'.removed = chk.removed /\ chk'.first = chk.first
  BY DEF Dropped, Check
<1> QED
  BY <1>1, OverRows DEF SoFar

LEMMA FailsRows == ASSUME Inv, Rows, Fails PROVE Rows'
<1> DEFINE c == [chk EXCEPT !.failed = TRUE]
<1>1. /\ chk' = Dropped(c, "quit") \/ chk' = [c EXCEPT !.pc = "quit"]
      /\ UNCHANGED <<server, came, db, disk>> /\ chk.pc \notin {"confirm", "end"}
  BY DEF Fails, SameWorld
<1>2. /\ c \in Check /\ c.names = chk.names /\ c.removed = chk.removed /\ c.first = chk.first
      /\ c.session = chk.session /\ c.deleted = chk.deleted /\ c.listed = chk.listed
      /\ c.whole = chk.whole
  BY RowsParts DEF Check
<1>3. chk.names = {}
  BY <1>1, RowsParts DEF SoFar
<1> HIDE DEF c
<1>4. ASSUME chk' = Dropped(c, "quit") PROVE Deletes' /\ NamesAll' /\ SoFar'
  BY <1>2, <1>3, <1>4, DroppedRows
<1>5. ASSUME chk' = [c EXCEPT !.pc = "quit"] PROVE Deletes' /\ NamesAll' /\ SoFar'
  <2>1. /\ chk'.pc = "quit" /\ chk'.names = {} /\ chk'.removed = chk.removed
        /\ chk'.session = chk.session /\ chk'.deleted = chk.deleted /\ chk'.listed = chk.listed
        /\ chk'.whole = chk.whole
    BY <1>2, <1>3, <1>5 DEF Check
  <2>2. Deletes' /\ SoFar'
    BY <1>1, <2>1, RowsParts DEF Deletes, SoFar
  <2>3. NamesAll'
    BY <1>1, <2>1, RowsParts DEF NamesAll, Here
  <2> QED
    BY <2>2, <2>3
<1>6. Deletes' /\ NamesAll' /\ SoFar'
  BY <1>1, <1>4, <1>5
<1> QED
  BY <1>1, <1>6, WorldSame DEF Rows

LEMMA NameRows == ASSUME Inv, Rows, Name PROVE Rows'
<1>1. UNCHANGED <<server, came, db, disk>>
  BY DEF Name, SameWorld
<1>2. chk.removed = {} /\ chk.names = {} /\ (~chk.first => db.firstDone)
  BY NameForms, RowsParts DEF SoFar
<1>3. Deletes' /\ SoFar'
  BY <1>1, <1>2, NameForms DEF Deletes, SoFar
<1>4. NamesAll'
  BY <1>1, <1>2, NameForms, RowsParts DEF NamesAll, Here
<1> QED
  BY <1>1, <1>3, <1>4, WorldSame DEF Rows

LEMMA ListRows == ASSUME Inv, Rows, List PROVE Rows'
<1>1. UNCHANGED <<server, came, db, disk>> /\ chk.pc = "list"
  BY DEF List, SameWorld, Going
<1>2. /\ chk.removed = {} /\ chk.names = {} /\ (~chk.first => db.firstDone) /\ chk \in Check
  BY <1>1, RowsParts DEF SoFar
<1>3. ASSUME NEW listed, NEW whole,
             chk' = [chk EXCEPT !.pc = "get", !.listed = listed, !.whole = whole, !.unnamed = FALSE],
             ~whole \/ listed = {} \/ listed = DOMAIN server
      PROVE  Deletes' /\ NamesAll' /\ SoFar'
  <2>1. /\ chk'.pc = "get" /\ chk'.names = {} /\ chk'.listed = listed /\ chk'.removed = {}
        /\ chk'.whole = whole /\ chk'.first = chk.first
    BY <1>2, <1>3 DEF Check
  <2> QED
    BY <1>1, <1>2, <1>3, <2>1 DEF Deletes, NamesAll, SoFar
<1>4. ASSUME chk' = Dropped([chk EXCEPT !.unnamed = FALSE], "reopen")
      PROVE  Deletes' /\ NamesAll' /\ SoFar'
  <2> DEFINE c == [chk EXCEPT !.unnamed = FALSE]
  <2>1. c \in Check /\ c.names = chk.names /\ c.removed = chk.removed /\ c.first = chk.first
    BY <1>2 DEF Check
  <2>2. chk' = Dropped(c, "reopen") /\ db'.firstDone = db.firstDone
    BY <1>1, <1>4
  <2> HIDE DEF c
  <2> QED
    BY <1>2, <2>1, <2>2, DroppedRows
<1>5. Deletes' /\ NamesAll' /\ SoFar'
  BY <1>3, <1>4 DEF List
<1> QED
  BY <1>1, <1>5, WorldSame DEF Rows

\* What comes down was not here, and its row says now that it is.
LEMMA DownloadsRows ==
  ASSUME Inv, Rows, chk.pc = "get", NEW i \in Due, Downloads(i), SameWorld, UNCHANGED disk
  PROVE  Rows' /\ server[i].mail \notin Here(db)
<1> DEFINE m == server[i].mail
           u == server[i].uidl
           id == DownloadId(u)
<1>1. /\ i \in DOMAIN server /\ i \in chk.listed /\ ~Live(db, u)
  BY InvParts DEF Due, Unseen
<1>2. m \in Mails /\ u \in Uidls /\ db \in Store /\ IsFiniteSet(db.kept)
  BY <1>1, InvParts
<1>3. /\ db' = Keep(m, u, chk.remove) /\ chk' = [chk EXCEPT !.stored = @ \cup {m}]
      /\ UNCHANGED <<server, came, disk>>
  BY DEF Downloads, SameWorld
<1>4. m \notin Here(db)
  BY <1>1, RowsParts DEF RowOf
<1> HIDE DEF m, u, id
<1>5. /\ db'.kept = db.kept \cup {[id |-> DownloadId(u), mail |-> m]} /\ db'.erased = db.erased
      /\ db'.firstDone = db.firstDone
      /\ \A v \in Uidls : v = u \/ Live(db, v) => Live(db', v)
  BY <1>2, <1>3, KeepRow
<1>6. Here(db') = Here(db) \cup {m}
  BY <1>2, <1>3, KeepKeeps
<1>7. \A j \in DOMAIN server : server[j].mail = m => j = i
  BY <1>1, RowsParts DEF MailsApart, m
<1>8. RowOf(db)'
  <2> SUFFICES ASSUME NEW j \in DOMAIN server, server[j].mail \in Here(db')
               PROVE  Live(db', server[j].uidl)
    BY <1>3 DEF RowOf, Here
  <2>1. CASE server[j].mail = m
    BY <1>2, <1>5, <1>7, <2>1 DEF u
  <2>2. CASE server[j].mail # m
    BY <1>5, <1>6, <2>2, RowsParts DEF RowOf
  <2> QED
    BY <2>1, <2>2
<1>9. KeptOnce(db)'
  <2>1. \A k \in db.kept : k.mail # m
    BY <1>4 DEF Here
  <2> QED
    BY <1>5, <2>1, RowsParts DEF KeptOnce
<1>10. MailsApart' /\ KeptOnce(disk)' /\ RowOf(disk)'
  BY <1>3, RowsParts DEF MailsApart, KeptOnce, RowOf, Live, Here
<1>11. AllCame'
  <2>1. m \in came
    BY <1>1, RowsParts DEF AllCame, m
  <2>2. Here(db)' = Here(db) \cup {m}
    BY <1>6 DEF Here
  <2> QED
    BY <1>3, <2>1, <2>2, RowsParts DEF AllCame
<1>12. /\ chk'.pc = "get" /\ chk'.names = chk.names /\ chk'.listed = chk.listed
       /\ chk'.removed = chk.removed /\ chk'.whole = chk.whole /\ chk'.first = chk.first
  BY <1>3, RowsParts DEF Check
<1>13. chk.removed = {} /\ chk.names = {} /\ (~chk.first => db.firstDone)
  BY RowsParts DEF SoFar
<1>14. SoFar' /\ Deletes'
  BY <1>5, <1>12, <1>13 DEF SoFar, Deletes
<1>15. NamesAll'
  <2>1. ASSUME chk.whole, chk.listed # {}, NEW j \in DOMAIN server, server[j].mail \in Here(db')
        PROVE  j \in chk.listed
    <3>1. CASE server[j].mail = m
      BY <1>1, <1>7, <3>1
    <3>2. CASE server[j].mail # m
      BY <1>6, <2>1, <3>2, RowsParts DEF NamesAll
    <3> QED
      BY <3>1, <3>2
  <2> QED
    BY <1>3, <1>12, <1>13, <2>1 DEF NamesAll, Here
<1> QED
  BY <1>4, <1>8, <1>9, <1>10, <1>11, <1>14, <1>15 DEF Rows, m

LEMMA CountsRows ==
  ASSUME Inv, Rows, chk.pc = "get", NEW i \in Due, NEW large \in BOOLEAN,
         db' = Count(server[i].uidl, large), SameWorld, UNCHANGED disk,
         NEW c \in Check, c.names = chk.names, c.removed = chk.removed, c.first = chk.first,
         c.listed = chk.listed, c.whole = chk.whole, c.pc \in {"get", "name"},
         chk' = c \/ chk' = Dropped(c, "reopen")
  PROVE  Rows'
<1>1. server[i].uidl \in Uidls /\ db \in Store /\ UNCHANGED <<server, came>>
  BY InvParts DEF Due, SameWorld
<1>2. /\ db'.kept = db.kept /\ db'.erased = db.erased /\ db'.seen = db.seen
      /\ db'.firstDone = db.firstDone
  BY <1>1, CountKeeps, CountFirst
<1>3. Here(db') = Here(db) /\ KeptOnce(db') /\ \A u \in Uidls : Live(db, u) => Live(db', u)
  BY <1>2, RowsParts DEF Here, KeptOnce, Live
<1>4. chk.removed = {} /\ chk.names = {} /\ (~chk.first => db.firstDone)
  BY RowsParts DEF SoFar
<1>5. Deletes' /\ NamesAll' /\ SoFar'
  <2>1. CASE chk' = c
    <3>1. NamesAll'
      BY <1>1, <1>2, <1>4, <2>1, RowsParts DEF NamesAll, Here
    <3> QED
      BY <1>2, <1>4, <2>1, <3>1 DEF Deletes, SoFar
  <2>2. CASE chk' = Dropped(c, "reopen")
    BY <1>2, <1>4, <2>2, DroppedRows
  <2> QED
    BY <2>1, <2>2
<1> QED
  BY <1>1, <1>3, <1>5, RowsParts, WorldKept DEF Rows

\* What a failure leaves of the check's record.
LEMMA GetForms ==
  ASSUME Inv, NEW i \in Due, TooLarge(i) \/ Refused(i) \/ Breaks(i), chk.pc = "get"
  PROVE  \E large \in BOOLEAN, c \in Check :
            /\ db' = Count(server[i].uidl, large)
            /\ c.names = chk.names /\ c.removed = chk.removed /\ c.first = chk.first
            /\ c.listed = chk.listed /\ c.whole = chk.whole /\ c.stored = chk.stored
            /\ c.failed = chk.failed /\ c.handled = chk.handled \cup {server[i].uidl}
            /\ chk.menuChanged => c.menuChanged
            /\ \/ c.pc = "get" /\ (JustShown(server[i].uidl) => c.menuChanged)
                  /\ chk' \in {c, Dropped(c, "reopen")}
               \/ c.pc = "name" /\ chk' = c
<1> DEFINE u == server[i].uidl
           shown == chk.menuChanged \/ JustShown(u)
           unnamed == chk.unnamed \/ JustShown(u)
           next == IF JustShown(u) THEN "name" ELSE "get"
           counted == [chk EXCEPT !.handled = @ \cup {u}, !.pc = next]
           broken == [chk EXCEPT !.handled = @ \cup {u}, !.menuChanged = shown, !.unnamed = unnamed]
<1>1. /\ chk \in Check /\ u \in Uidls /\ shown \in BOOLEAN /\ unnamed \in BOOLEAN
      /\ next \in {"get", "name"} /\ (chk.menuChanged => shown) /\ (JustShown(u) => shown)
      /\ (JustShown(u) => next = "name")
  BY InvParts DEF Due, JustShown, Check
<1>2. CASE Breaks(i)
  <2>1. PICK large \in BOOLEAN : db' = Count(u, large)
    BY <1>2 DEF Breaks
  <2>2. chk' = Dropped(broken, "reopen")
    BY <1>2 DEF Breaks
  <2> HIDE DEF shown, unnamed, u
  <2>3. /\ broken \in Check /\ broken.names = chk.names /\ broken.removed = chk.removed
        /\ broken.first = chk.first /\ broken.listed = chk.listed /\ broken.whole = chk.whole
        /\ broken.pc = "get" /\ broken.stored = chk.stored /\ broken.failed = chk.failed
        /\ broken.handled = chk.handled \cup {u} /\ broken.menuChanged = shown
    BY <1>1, <1>2 DEF Check
  <2> HIDE DEF broken
  <2>4. (chk.menuChanged => broken.menuChanged) /\ (JustShown(u) => broken.menuChanged)
    BY <1>1, <2>3
  <2> QED
    BY <2>1, <2>2, <2>3, <2>4 DEF u
<1>3. CASE TooLarge(i) \/ Refused(i)
  <2>1. PICK large \in BOOLEAN : Counts(i, large)
    BY <1>3 DEF TooLarge, Refused
  <2>2. db' = Count(u, large) /\ chk' = counted
    BY <2>1 DEF Counts
  <2> HIDE DEF shown, unnamed, u, next
  <2>3. /\ counted \in Check /\ counted.names = chk.names /\ counted.removed = chk.removed
        /\ counted.first = chk.first /\ counted.listed = chk.listed /\ counted.whole = chk.whole
        /\ counted.pc = next /\ counted.stored = chk.stored /\ counted.failed = chk.failed
        /\ counted.handled = chk.handled \cup {u} /\ counted.menuChanged = chk.menuChanged
    BY <1>1 DEF Check
  <2> HIDE DEF counted
  <2>4. CASE next = "get"
    BY <1>1, <2>2, <2>3, <2>4 DEF u
  <2>5. CASE next = "name"
    BY <2>2, <2>3, <2>5 DEF u
  <2> QED
    BY <1>1, <2>4, <2>5
<1> QED
  BY <1>2, <1>3

LEMMA GetRows == ASSUME Inv, Rows, Get PROVE Rows'
<1>1. PICK i \in Due : Downloads(i) \/ TooLarge(i) \/ Refused(i) \/ Breaks(i)
  BY DEF Get
<1>2. SameWorld /\ UNCHANGED disk /\ chk.pc = "get"
  BY DEF Get, Going
<1>3. CASE Downloads(i)
  BY <1>2, <1>3, DownloadsRows
<1>4. CASE TooLarge(i) \/ Refused(i) \/ Breaks(i)
  BY <1>2, <1>4, GetForms, CountsRows
<1> QED
  BY <1>1, <1>3, <1>4

LEMMA FinishFirstRows == ASSUME Inv, Rows, FinishFirst PROVE Rows'
<1>1. /\ db' = [db EXCEPT !.firstDone = TRUE] /\ UNCHANGED <<chk, server, came, disk>>
  BY DEF FinishFirst, SameWorld
<1>2. /\ db'.kept = db.kept /\ db'.erased = db.erased /\ db'.seen = db.seen /\ db'.firstDone
  BY <1>1, RowsParts DEF Store
<1>3. Here(db') = Here(db) /\ KeptOnce(db') /\ \A u \in Uidls : Live(db, u) => Live(db', u)
  BY <1>2, RowsParts DEF Here, KeptOnce, Live
<1>4. Deletes' /\ SoFar'
  BY <1>1, <1>2, RowsParts DEF Deletes, SoFar
<1>5. NamesAll'
  BY <1>1, <1>2, RowsParts DEF NamesAll, Here
<1> QED
  BY <1>1, <1>3, <1>4, <1>5, RowsParts, WorldKept DEF Rows

LEMMA PassedRows == ASSUME Inv, Rows, Passed PROVE Rows'
<1>1. /\ \E aged \in SUBSET Uidls : db' = IF chk.remove = "days" THEN Want(db, aged) ELSE db
      /\ chk' = [chk EXCEPT !.pc = "pending"] /\ UNCHANGED <<server, came, disk>> /\ chk.pc = "get"
  BY DEF Passed, SameWorld, Going
<1>2. /\ db'.kept = db.kept /\ db'.erased = db.erased /\ \A u \in Uidls : Live(db, u) => Live(db', u)
  BY <1>1, RowsParts, WantKeeps, WantLive
<1>3. Here(db') = Here(db) /\ KeptOnce(db')
  BY <1>2, RowsParts DEF Here, KeptOnce
<1>4. /\ chk'.pc = "pending" /\ chk'.names = chk.names /\ chk'.listed = chk.listed
      /\ chk'.removed = chk.removed /\ chk'.whole = chk.whole
  BY <1>1, RowsParts DEF Check
<1>5. chk.removed = {} /\ chk.names = {}
  BY <1>1, RowsParts DEF SoFar
<1>6. Deletes' /\ SoFar'
  BY <1>4, <1>5 DEF Deletes, SoFar
<1>7. NamesAll'
  BY <1>1, <1>3, <1>4, <1>5, RowsParts DEF NamesAll, Here
<1> QED
  BY <1>1, <1>2, <1>3, <1>6, <1>7, RowsParts, WorldKept DEF Rows

LEMMA PendingRows == ASSUME Inv, Rows, Pending PROVE Rows'
<1>1. /\ chk.pc = "pending" /\ UNCHANGED <<server, came, db>> /\ (disk' = disk \/ disk' = db)
      /\ chk' = [chk EXCEPT !.pc = "quit"] \/ chk' = [chk EXCEPT !.pc = "dele", !.page = Wanted]
  BY DEF Pending, SameWorld, Going
<1>2. /\ chk'.pc \in {"quit", "dele"} /\ chk'.names = chk.names /\ chk'.listed = chk.listed
      /\ chk'.removed = chk.removed /\ chk'.whole = chk.whole /\ chk'.session = chk.session
      /\ chk'.deleted = chk.deleted
  BY <1>1, RowsParts DEF Check
<1>3. chk.names = {}
  BY <1>1, RowsParts DEF SoFar
<1>4. Deletes' /\ SoFar'
  BY <1>1, <1>2, <1>3, RowsParts DEF Deletes, SoFar
<1>5. NamesAll'
  BY <1>1, <1>2, <1>3, RowsParts DEF NamesAll, Here
<1> QED
  BY <1>1, <1>4, <1>5, WorldSame DEF Rows

LEMMA DeleRows == ASSUME Inv, Rows, Dele PROVE Rows'
<1> DEFINE u == Min(chk.page)
           next == IF chk.page = {u} THEN "quit" ELSE "dele"
           rest == [chk EXCEPT !.page = @ \ {u}, !.pc = next]
           said == [rest EXCEPT !.deleted = @ \cup {NumberOf(u)}, !.removed = @ \cup {u}]
<1>1. /\ chk.pc = "dele" /\ UNCHANGED <<server, came, db, disk>> /\ chk \in Check
      /\ chk' = rest \/ (chk' = said /\ \E i \in chk.listed : server[i].uidl = u)
  BY RowsParts DEF Dele, SameWorld, Going
<1>2. chk.names = {} /\ next \in {"quit", "dele"}
  BY <1>1, RowsParts DEF SoFar
<1> HIDE DEF u, next
<1>3. /\ rest.pc = next /\ rest.names = chk.names /\ rest.listed = chk.listed
      /\ rest.removed = chk.removed /\ rest.whole = chk.whole /\ rest.session = chk.session
      /\ rest.deleted = chk.deleted
      /\ said.pc = next /\ said.names = chk.names /\ said.listed = chk.listed
      /\ said.removed = chk.removed \cup {u} /\ said.whole = chk.whole
      /\ said.session = chk.session /\ said.deleted = chk.deleted \cup {NumberOf(u)}
  BY <1>1 DEF Check
<1> HIDE DEF rest, said
<1>4. ASSUME \E i \in chk.listed : server[i].uidl = u
      PROVE  \A i \in DOMAIN server : server[i].uidl = u => i = NumberOf(u)
  <2> DEFINE S == {i \in chk.listed : server[i].uidl = u}
  <2>1. S \in SUBSET Nat /\ S # {} /\ chk.listed \subseteq DOMAIN server
    BY <1>4, InvParts
  <2>2. NumberOf(u) \in S
    BY <2>1, MinIs DEF NumberOf, FirstOf
  <2> QED
    BY <2>1, <2>2, RowsParts DEF UidlsApart
<1>5. Deletes'
  BY <1>1, <1>2, <1>3, <1>4, RowsParts DEF Deletes
<1>6. NamesAll'
  BY <1>1, <1>2, <1>3, RowsParts DEF NamesAll, Here
<1>7. SoFar'
  BY <1>1, <1>2, <1>3 DEF SoFar
<1> QED
  BY <1>1, <1>5, <1>6, <1>7, WorldSame DEF Rows

LEMMA QuitRows == ASSUME Inv, Rows, Quit PROVE Rows'
<1>1. PICK answered \in BOOLEAN, carried \in BOOLEAN :
         /\ chk.session \/ (~answered /\ ~carried)
         /\ answered => carried
         /\ server' = IF carried THEN Left ELSE server
         /\ chk' = [Over EXCEPT !.pc = IF ~chk.failed /\ answered THEN "confirm" ELSE "end"]
  BY DEF Quit
<1>2. UNCHANGED <<came, db, disk>> /\ chk \in Check
  BY RowsParts DEF Quit
<1>3. /\ DOMAIN server' \subseteq DOMAIN server
      /\ \A i \in DOMAIN server' : server'[i] = server[i]
      /\ carried => \A i \in DOMAIN server' : i \notin chk.deleted
  BY <1>1 DEF Left
<1>4. /\ chk'.pc = IF ~chk.failed /\ answered THEN "confirm" ELSE "end"
      /\ chk'.listed = {} /\ ~chk'.session /\ chk'.names = Listed /\ chk'.removed = chk.removed
  BY <1>1 DEF Over, Idle
<1>5. Deletes'
  <2>1. CASE answered
    <3>1. carried /\ chk.session
      BY <1>1, <2>1
    <3> QED
      BY <1>3, <1>4, <3>1, RowsParts DEF Deletes
  <2>2. CASE ~answered
    BY <1>4, <2>2 DEF Deletes
  <2> QED
    BY <2>1, <2>2
<1>6. NamesAll'
  <2> SUFFICES ASSUME Listed # {}, NEW i \in DOMAIN server', server'[i].mail \in Here(db)
               PROVE  server'[i].uidl \in Listed
    BY <1>2, <1>4 DEF NamesAll, Here
  <2>1. chk.whole /\ chk.listed # {}
    BY DEF Listed
  <2>2. i \in chk.listed
    BY <1>3, <2>1, RowsParts DEF NamesAll
  <2> QED
    BY <1>3, <2>1, <2>2 DEF Listed
<1>7. SoFar'
  BY <1>4 DEF SoFar
<1>8. Here(db') = Here(db) /\ KeptOnce(db')
  BY <1>2, RowsParts
<1> QED
  BY <1>2, <1>3, <1>5, <1>6, <1>7, <1>8, RowsParts, WorldKept DEF Rows

\* What a QUIT confirmed has left the server, and what is left out of the names
\* has not come down, so no row of a message on the server goes.
LEMMA ConfirmedRows ==
  ASSUME Inv, Rows, Confirm, db' = Confirmed(chk.names, chk.removed),
         \E b : chk' = [chk EXCEPT !.pc = "end", !.menuChanged = b]
  PROVE  Rows'
<1>1. /\ db' = Confirmed(chk.names, chk.removed) /\ chk.pc = "confirm"
      /\ UNCHANGED <<server, came, disk>>
      /\ \E b : chk' = [chk EXCEPT !.pc = "end", !.menuChanged = b]
  BY DEF Confirm, SameWorld, Going
<1>2. db'.kept = db.kept /\ db'.erased = db.erased
  BY <1>1, RowsParts, ConfirmedKeeps
<1>3. Here(db') = Here(db) /\ KeptOnce(db')
  BY <1>2, RowsParts DEF Here, KeptOnce
<1>4. /\ chk'.pc = "end" /\ chk'.names = chk.names /\ chk'.listed = chk.listed
      /\ chk'.removed = chk.removed /\ chk'.whole = chk.whole /\ chk'.session = chk.session
      /\ chk'.deleted = chk.deleted
  BY <1>1, RowsParts DEF Check
<1>5. ASSUME NEW i \in DOMAIN server, server[i].mail \in Here(db), Live(db, server[i].uidl)
      PROVE  Live(db', server[i].uidl)
  <2>1. server[i].uidl \in Uidls /\ server[i].uidl \notin chk.removed
    BY <1>1, RowsParts DEF Deletes
  <2>2. chk.names = {} \/ server[i].uidl \in chk.names
    BY <1>5, RowsParts DEF NamesAll
  <2> QED
    BY <1>1, <1>5, <2>1, <2>2, RowsParts, ConfirmedLive
<1>6. Deletes' /\ SoFar'
  BY <1>1, <1>4, RowsParts DEF Deletes, SoFar
<1>7. NamesAll'
  BY <1>1, <1>3, <1>4, RowsParts DEF NamesAll, Here
<1> QED
  BY <1>1, <1>3, <1>5, <1>6, <1>7, WorldKept DEF Rows

LEMMA ConfirmRows == ASSUME Inv, Rows, Confirm PROVE Rows'
<1>1. \/ /\ db' = Confirmed(chk.names, chk.removed)
         /\ \E b : chk' = [chk EXCEPT !.pc = "end", !.menuChanged = b]
      \/ UNCHANGED db /\ chk' = [chk EXCEPT !.pc = "end", !.failed = TRUE]
  BY DEF Confirm
<1>2. CASE UNCHANGED db /\ chk' = [chk EXCEPT !.pc = "end", !.failed = TRUE]
  <2>1. /\ chk'.pc = "end" /\ chk'.names = chk.names /\ chk'.listed = chk.listed
        /\ chk'.removed = chk.removed /\ chk'.whole = chk.whole /\ chk'.session = chk.session
        /\ chk'.deleted = chk.deleted
    BY <1>2, RowsParts DEF Check
  <2>2. UNCHANGED <<server, came, disk>>
    BY DEF Confirm, SameWorld
  <2>3. Deletes' /\ SoFar'
    BY <1>2, <2>1, <2>2, RowsParts DEF Deletes, SoFar
  <2>4. NamesAll'
    BY <1>2, <2>1, <2>2, RowsParts DEF NamesAll, Here
  <2> QED
    BY <1>2, <2>2, <2>3, <2>4, WorldSame DEF Rows
<1> QED
  BY <1>1, <1>2, ConfirmedRows

LEMMA IdleRows ==
  ASSUME Inv, Rows, chk' = Idle, UNCHANGED <<server, came, db, disk>>
  PROVE  Rows'
<1>1. Deletes' /\ NamesAll' /\ SoFar'
  BY IdleIs, IdleFields, OverRows DEF SoFar
<1> QED
  BY <1>1, WorldSame DEF Rows

\* Steps beside the check, of what is on the server and here nothing.
LEMMA BesideRows ==
  ASSUME Inv, Rows, UNCHANGED <<chk, server, came, db>>, disk' = disk \/ disk' = db
  PROVE  Rows'
<1>1. Deletes' /\ SoFar' /\ NamesAll'
  BY RowsParts DEF Deletes, SoFar, NamesAll, Here
<1> QED
  BY <1>1, WorldSame DEF Rows

LEMMA DestroyRows == ASSUME Inv, Rows, NEW k \in db.kept, Destroy(k) PROVE Rows'
<1> DEFINE us == {u \in Uidls : Live(db, u) /\ db.seen[u].mid = k.id}
           d == IF remove = "never" THEN db ELSE Want(db, us)
<1>1. /\ d \in Store /\ d.kept = db.kept /\ d.erased = db.erased /\ d.firstDone = db.firstDone
      /\ \A u \in Uidls : Live(db, u) => Live(d, u)
  <2>1. Want(db, us).firstDone = db.firstDone
    BY RowsParts DEF Want, Store
  <2> QED
    BY <2>1, RowsParts, WantKeeps, WantLive
<1>2. /\ db' = d \/ db' = [d EXCEPT !.kept = @ \ {k}, !.erased = @ \cup {k.mail}]
      /\ UNCHANGED <<server, came, chk, disk>>
  BY DEF Destroy, SameWorld
<1> HIDE DEF d
<1>3. /\ db'.seen = d.seen /\ db'.firstDone = d.firstDone
      /\ \/ db'.kept = db.kept /\ db'.erased = db.erased
         \/ db'.kept = db.kept \ {k} /\ db'.erased = db.erased \cup {k.mail}
  BY <1>1, <1>2 DEF Store
<1>4. Here(db') = Here(db) /\ KeptOnce(db')
  BY <1>3, RowsParts DEF Here, KeptOnce
<1>5. \A u \in Uidls : Live(db, u) => Live(db', u)
  BY <1>1, <1>3 DEF Live
<1>6. Deletes' /\ SoFar'
  BY <1>1, <1>2, <1>3, RowsParts DEF Deletes, SoFar
<1>7. NamesAll'
  <2>1. Here(db)' = Here(db)
    BY <1>4 DEF Here
  <2> QED
    BY <1>2, <2>1, RowsParts DEF NamesAll
<1> QED
  BY <1>2, <1>4, <1>5, <1>6, <1>7, RowsParts, WorldKept DEF Rows

LEMMA RestartRows == ASSUME Inv, Rows, NEW d \in {db, disk}, Restart(d) PROVE Rows'
<1>1. db' = d /\ chk' = Idle /\ UNCHANGED <<server, came, disk>>
  BY DEF Restart, SameWorld
<1>2. Deletes' /\ NamesAll' /\ SoFar'
  BY <1>1, IdleIs, IdleFields, OverRows DEF SoFar
<1>3. RowOf(db)' /\ RowOf(disk)' /\ KeptOnce(db)' /\ KeptOnce(disk)' /\ MailsApart'
  BY <1>1, RowsParts DEF RowOf, KeptOnce, MailsApart, Live, Here
<1>4. AllCame'
  BY <1>1, RowsParts DEF AllCame, Here
<1> QED
  BY <1>2, <1>3, <1>4 DEF Rows

LEMMA ArriveRows ==
  ASSUME ~Twice, ~Anytime, Inv, Rows, NEW m \in Mails, NEW u \in Uidls, Arrive(m, u)
  PROVE  Rows'
<1> DEFINE last == Cardinality(came) + 1
<1>1. /\ m \notin came /\ came' = came \cup {m}
      /\ server' = [i \in DOMAIN server \cup {last} |->
                       IF i = last THEN [mail |-> m, uidl |-> u] ELSE server[i]]
      /\ u \notin chk.removed \/ \E i \in DOMAIN server : server[i].uidl = u
      /\ \A i \in DOMAIN server : server[i].uidl # u
      /\ UNCHANGED <<db, disk, chk>>
  BY DEF Arrive, Free
<1>3. last \notin DOMAIN server
  BY InvParts DEF Inv, Places
<1> HIDE DEF last
<1>4. /\ DOMAIN server' = DOMAIN server \cup {last}
      /\ \A i \in DOMAIN server : server'[i] = server[i]
      /\ server'[last].mail = m /\ server'[last].uidl = u
  BY <1>1, <1>3
<1>5. \A i \in DOMAIN server : server[i].mail # m
  BY <1>1, RowsParts DEF AllCame
<1>6. m \notin Here(db) /\ m \notin Here(disk)
  BY <1>1, RowsParts DEF AllCame
<1>7. RowOf(db)' /\ RowOf(disk)' /\ KeptOnce(db)' /\ KeptOnce(disk)'
  BY <1>1, <1>4, <1>6, RowsParts DEF RowOf, KeptOnce, Live, Here
<1>8. MailsApart'
  BY <1>4, <1>5, RowsParts DEF MailsApart
<1>9. AllCame'
  <2>1. Here(db)' = Here(db)
    BY <1>1 DEF Here
  <2>2. \A i \in DOMAIN server' : server'[i].mail \in came'
    BY <1>1, <1>4, RowsParts DEF AllCame
  <2> QED
    BY <1>1, <2>1, <2>2, RowsParts DEF AllCame
<1>10. Deletes'
  BY <1>1, <1>4, RowsParts DEF Deletes
<1>11. NamesAll'
  <2>1. Here(db)' = Here(db)
    BY <1>1 DEF Here
  <2> QED
    BY <1>1, <1>4, <1>6, <2>1, RowsParts DEF NamesAll
<1>12. SoFar'
  BY <1>1, RowsParts DEF SoFar
<1> QED
  BY <1>7, <1>8, <1>9, <1>10, <1>11, <1>12 DEF Rows

LEMMA OtherRemovesRows == ASSUME Inv, Rows, NEW j \in DOMAIN server, OtherRemoves(j) PROVE Rows'
<1>1. /\ server' = [i \in DOMAIN server \ {j} |-> server[i]]
      /\ UNCHANGED <<came, db, disk, chk>>
  BY DEF OtherRemoves
<1>2. /\ DOMAIN server' \subseteq DOMAIN server
      /\ \A i \in DOMAIN server' : server'[i] = server[i]
  BY <1>1
<1>3. Deletes' /\ NamesAll' /\ SoFar'
  BY <1>1, <1>2, RowsParts DEF Deletes, NamesAll, SoFar, Here
<1>4. Here(db') = Here(db) /\ KeptOnce(db')
  BY <1>1, RowsParts
<1> QED
  BY <1>1, <1>2, <1>3, <1>4, RowsParts, WorldKept DEF Rows

LEMMA NextRows == ASSUME Orderly, Inv, Rows, [Next]_vars PROVE Rows'
<1>1. CASE CheckSteps
  BY <1>1, StartRows, OpenRows, ReopenRows, ListRows, GetRows, FinishFirstRows, PassedRows,
     PendingRows, DeleRows, QuitRows, ConfirmRows, IdleRows, NameRows
     DEF CheckSteps, Announce, SameWorld
<1>2. CASE Fails \/ Stopped
  BY <1>2, FailsRows, IdleRows DEF Stopped, SameWorld
<1>3. CASE Crash \/ PowerCut
  BY <1>3, RestartRows DEF Crash, PowerCut
<1>4. CASE Hour \/ Sync \/ (\E setting \in Settings : SetRemove(setting)) \/ UNCHANGED vars
  <2>1. UNCHANGED <<chk, server, came, db>> /\ (disk' = disk \/ disk' = db)
    BY <1>4 DEF Hour, Sync, SetRemove, SameWorld, SameWindow, vars
  <2> QED
    BY <2>1, BesideRows
<1>5. CASE \E k \in db.kept : Destroy(k)
  BY <1>5, DestroyRows
<1>6. CASE \E m \in Mails, u \in Uidls : Arrive(m, u)
  BY <1>6, ArriveRows DEF Orderly
<1>7. CASE \E i \in DOMAIN server : OtherRemoves(i)
  BY <1>7, OtherRemovesRows
<1> QED
  BY <1>1, <1>2, <1>3, <1>4, <1>5, <1>6, <1>7 DEF Next

----------------------------------------------------------------------------
(* The start of the rows.                                                  *)

\* As many mails as places: each mail is at one place.
LEMMA BeforeOnce == \A i, j \in DOMAIN Before : Before[i].mail = Before[j].mail => i = j
<1> DEFINE S == 1..Len(Before)
           f == [i \in S |-> Before[i].mail]
<1>1. S = DOMAIN Before /\ Len(Before) \in Nat
  BY Pop3Assumption
<1>2. IsFiniteSet(S) /\ Cardinality(S) = Len(Before)
  <2>1. Len(Before) \in Nat /\ Len(Before) \in Int /\ 1 \in Int
    BY <1>1
  <2>2. /\ IsFiniteSet(1..Len(Before))
        /\ Cardinality(1..Len(Before)) = IF 1 > Len(Before) THEN 0 ELSE Len(Before) - 1 + 1
    BY <2>1, FS_Interval
  <2> QED
    BY <2>1, <2>2
<1>3. f \in Surjection(S, Old)
  BY <1>1 DEF Old, Surjection
<1> HIDE DEF S, f
<1>4. Cardinality(Old) = Cardinality(S)
  BY <1>2, Pop3Assumption
<1>5. f \in Injection(S, Old)
  BY <1>2, <1>3, <1>4, FS_Surjection
<1>6. \A i, j \in S : f[i] = f[j] => i = j
  BY <1>5 DEF Injection, IsInjective
<1> QED
  BY <1>1, <1>6 DEF f

LEMMA InitRows == Init => Rows
<1> SUFFICES ASSUME Init PROVE Rows
  OBVIOUS
<1>1. server = Before /\ came = Old /\ db = NewStore /\ disk = NewStore /\ chk = Idle
  BY DEF Init
<1>2. NewStore.kept = {} /\ Here(NewStore) = {}
  BY DEF NewStore, Here
<1>3. RowOf(db) /\ RowOf(disk) /\ KeptOnce(db) /\ KeptOnce(disk)
  BY <1>1, <1>2 DEF RowOf, KeptOnce
<1>4. MailsApart /\ AllCame
  BY <1>1, <1>2, BeforeOnce DEF MailsApart, AllCame, Old
<1>5. Deletes /\ NamesAll /\ SoFar
  BY <1>1, IdleIs, IdleFields DEF Deletes, NamesAll, SoFar
<1> QED
  BY <1>3, <1>4, <1>5 DEF Rows

LEMMA InitWindow == Init => Window
<1> SUFFICES ASSUME Init PROVE Window
  OBVIOUS
<1>1. /\ db = NewStore /\ disk = NewStore /\ chk = Idle /\ told = {} /\ menu = {}
      /\ missed = {} /\ notified = {} /\ excused = {}
  BY DEF Init
<1>2. /\ NewStore.kept = {} /\ ~NewStore.firstDone
      /\ \A u \in Uidls : NewStore.failures[u] = None
  BY DEF NewStore
<1>3. Tells
  BY <1>1, <1>2, IdleFields DEF Tells, Stored, Failing
<1>4. Handled /\ OldDown(db) /\ OldDown(disk) /\ OldStored
  BY <1>1, <1>2, IdleFields DEF Handled, OldDown, OldStored
<1> QED
  BY <1>1, <1>3, <1>4 DEF Window

----------------------------------------------------------------------------
(* The window through every step.                                          *)

\* A step after which there is nothing more to tell.
LEMMA WindowKept ==
  ASSUME Window, SameWindow,
         db'.kept \subseteq db.kept, Failing(db') \subseteq Failing(db),
         Here(db) \subseteq Here(db'), db'.firstDone = db.firstDone,
         disk' = disk \/ (disk' = db /\ db' = db),
         chk'.stored = chk.stored, Unsure => Unsure',
         chk'.first = chk.first \/ chk.stored = {}, Handled'
  PROVE  Window'
<1>1. Tells'
  BY DEF Window, Tells, Stored, Failing, SameWindow
<1>2. OldDown(db)' /\ OldDown(disk)'
  BY DEF Window, OldDown, Here, SameWindow
<1>3. OldStored'
  BY DEF Window, OldStored, SameWindow
<1> QED
  BY <1>1, <1>2, <1>3 DEF Window, SameWindow

\* A step of the check's own record, that keeps what it has stored.
LEMMA RecordKept ==
  ASSUME Window, SameWindow, UNCHANGED db, disk' = disk \/ disk' = db,
         chk'.stored = chk.stored, Unsure => Unsure',
         chk'.first = chk.first \/ chk.stored = {},
         chk'.handled = {} \/ (chk'.handled = chk.handled /\ chk'.pc # "confirm")
  PROVE  Window'
<1>1. Handled'
  BY DEF Window, Handled
<1> QED
  BY <1>1, WindowKept

LEMMA StartWindow == ASSUME Inv, Rows, Window, Start PROVE Window'
<1>1. /\ chk.pc = "idle" /\ UNCHANGED <<db, disk>> /\ SameWindow
      /\ \E owed : chk' = [Idle EXCEPT !.pc = "connect", !.remove = remove, !.owed = owed, !.last = quiet]
  BY DEF Start, SameWorld, Going
<1>2. chk'.stored = {} /\ chk'.handled = {}
  BY <1>1 DEF Idle
<1>3. chk.stored = {} /\ ~Unsure
  BY <1>1, RowsParts DEF SoFar, Unsure
<1> QED
  BY <1>1, <1>2, <1>3, RecordKept

LEMMA OpenWindow == ASSUME Inv, Rows, Window, Open PROVE Window'
<1>1. /\ chk.pc = "connect" /\ UNCHANGED <<db, disk>> /\ SameWindow
      /\ \/ chk' = [Idle EXCEPT !.pc = "end"]
         \/ \E stat : chk' = [Idle EXCEPT !.pc = "list", !.remove = chk.remove, !.stat = stat,
                                          !.first = FirstCheck, !.session = TRUE]
  BY DEF Open, SameWorld, Going
<1>2. chk'.stored = {} /\ chk'.handled = {}
  BY <1>1 DEF Idle
<1>3. chk.stored = {} /\ ~Unsure
  BY <1>1, RowsParts DEF SoFar, Unsure
<1> QED
  BY <1>1, <1>2, <1>3, RecordKept

LEMMA ReopenWindow == ASSUME Inv, Rows, Window, Reopen PROVE Window'
<1>1. /\ chk' = [chk EXCEPT !.pc = "list", !.session = TRUE] /\ chk.pc = "reopen"
      /\ UNCHANGED <<db, disk>> /\ SameWindow
  BY DEF Reopen, SameWorld, Going
<1>2. /\ chk'.pc = "list" /\ chk'.stored = chk.stored /\ chk'.menuChanged = chk.menuChanged
      /\ chk'.first = chk.first /\ chk'.handled = chk.handled /\ chk'.failed = chk.failed
  BY <1>1, RowsParts DEF Check
<1>3. Unsure => Unsure'
  BY <1>1, <1>2 DEF Unsure
<1> QED
  BY <1>1, <1>2, <1>3, RecordKept

LEMMA DroppedKeeps ==
  ASSUME NEW c \in Check, NEW pc
  PROVE  /\ Dropped(c, pc).pc = pc /\ Dropped(c, pc).stored = c.stored
         /\ Dropped(c, pc).menuChanged = c.menuChanged /\ Dropped(c, pc).first = c.first
         /\ Dropped(c, pc).handled = c.handled /\ Dropped(c, pc).failed = c.failed
BY DEF Dropped, Check

LEMMA FailsWindow == ASSUME Inv, Rows, Window, Fails PROVE Window'
<1> DEFINE c == [chk EXCEPT !.failed = TRUE]
<1>1. /\ chk' \in {Dropped(c, "quit"), [c EXCEPT !.pc = "quit"]}
      /\ UNCHANGED <<db, disk>> /\ SameWindow
  BY DEF Fails, SameWorld
<1>2. /\ c \in Check /\ c.stored = chk.stored /\ c.failed
      /\ c.first = chk.first /\ c.handled = chk.handled
  BY RowsParts DEF Check
<1> HIDE DEF c
<1>3. /\ chk'.pc = "quit" /\ chk'.stored = chk.stored /\ chk'.failed
      /\ chk'.first = chk.first /\ chk'.handled = chk.handled
  <2>1. CASE chk' = Dropped(c, "quit")
    BY <1>2, <2>1, DroppedKeeps
  <2>2. CASE chk' = [c EXCEPT !.pc = "quit"]
    BY <1>2, <2>2 DEF Check
  <2> QED
    BY <1>1, <2>1, <2>2
<1>4. Unsure'
  BY <1>3 DEF Unsure
<1> QED
  BY <1>1, <1>3, <1>4, RecordKept

LEMMA NameWindow == ASSUME Inv, Rows, Window, Name PROVE Window'
<1>1. UNCHANGED <<db, disk>> /\ SameWindow
  BY DEF Name, SameWorld
<1>2. Unsure'
  BY NameForms DEF Unsure
<1> QED
  BY <1>1, <1>2, NameForms, RecordKept

\* The window is told nothing, and the loop that starts has reported nothing.
LEMMA StoppedWindow == ASSUME Inv, Rows, Window, Stopped PROVE Window'
<1>1. /\ missed' = missed \cup chk.stored /\ chk' = Idle /\ reported' = "none"
      /\ UNCHANGED <<db, disk, menu, told, notified, excused>>
  BY DEF Stopped
<1>2. Tells'
  BY <1>1 DEF Window, Tells, Stored
<1>3. Handled' /\ OldStored'
  BY <1>1, IdleFields DEF Handled, OldStored
<1>4. OldDown(db)' /\ OldDown(disk)'
  BY <1>1 DEF Window, OldDown, Here
<1> QED
  BY <1>1, <1>2, <1>3, <1>4 DEF Window

LEMMA ListWindow == ASSUME Inv, Rows, Window, List PROVE Window'
<1> DEFINE c == [chk EXCEPT !.unnamed = FALSE]
<1>1. /\ UNCHANGED <<db, disk>> /\ SameWindow /\ chk.pc = "list"
      /\ \/ \E listed, whole : chk' = [chk EXCEPT !.pc = "get", !.listed = listed, !.whole = whole,
                                                  !.unnamed = FALSE]
         \/ chk' = Dropped(c, "reopen")
  BY DEF List, SameWorld, Going
<1>2. /\ c \in Check /\ c.stored = chk.stored /\ c.menuChanged = chk.menuChanged
      /\ c.first = chk.first /\ c.handled = chk.handled /\ c.failed = chk.failed
  BY RowsParts DEF Check
<1> HIDE DEF c
<1>3. /\ chk'.pc # "confirm" /\ chk'.stored = chk.stored /\ chk'.menuChanged = chk.menuChanged
      /\ chk'.first = chk.first /\ chk'.handled = chk.handled /\ chk'.failed = chk.failed
  <2>1. CASE chk' = Dropped(c, "reopen")
    BY <1>2, <2>1, DroppedKeeps
  <2>2. CASE \E listed, whole : chk' = [chk EXCEPT !.pc = "get", !.listed = listed,
                                                   !.whole = whole, !.unnamed = FALSE]
    BY <2>2, RowsParts DEF Check
  <2> QED
    BY <1>1, <2>1, <2>2
<1>4. Unsure => Unsure'
  BY <1>1, <1>3 DEF Unsure
<1> QED
  BY <1>1, <1>3, <1>4, RecordKept

\* Only the failure that shows a message for the first time adds it to the menu's.
LEMMA CountFailing ==
  ASSUME db \in Store, NEW u \in Uidls, NEW large \in BOOLEAN, db' = Count(u, large)
  PROVE  /\ db'.failures[u] # None
         /\ \A v \in Uidls : v # u => db'.failures[v] = db.failures[v]
         /\ ~JustShown(u) => Failing(db') \subseteq Failing(db)
<1> DEFINE n == IF db.failures[u] = None THEN 1 ELSE db.failures[u].n + 1
           top == IF n > ShownAfter THEN ShownAfter + 1 ELSE n
           f == [n |-> top, large |-> large]
<1>1. db.failures \in [Uidls -> Failure \cup {None}] /\ ShownAfter \in Nat \ {0}
  BY Pop3Assumption DEF Store
<1>2. db.failures[u] # None => db.failures[u].n \in Nat
  BY <1>1 DEF Failure
<1>3. db' = [db EXCEPT !.failures[u] = f]
  BY DEF Count
<1>4. f # None /\ f.n = top
  BY DEF None
<1>5. top >= ShownAfter /\ top # ShownAfter => db.failures[u] # None /\ db.failures[u].n >= ShownAfter
  BY <1>1, <1>2
<1> HIDE DEF top, f
<1>6. db'.failures = [db.failures EXCEPT ![u] = f]
  BY <1>3 DEF Store
<1>7. db'.failures[u] = f /\ \A v \in Uidls : v # u => db'.failures[v] = db.failures[v]
  BY <1>1, <1>6
<1>8. ASSUME ~JustShown(u), NEW v \in Failing(db') PROVE v \in Failing(db)
  <2>1. CASE v = u
    <3>1. top >= ShownAfter /\ top # ShownAfter
      BY <1>4, <1>7, <1>8, <2>1 DEF Failing, JustShown
    <3> QED
      BY <1>5, <2>1, <3>1 DEF Failing
  <2>2. CASE v # u
    BY <1>7, <1>8, <2>2 DEF Failing
  <2> QED
    BY <2>1, <2>2
<1> QED
  BY <1>4, <1>7, <1>8

LEMMA CountsWindow ==
  ASSUME Inv, Rows, Window, chk.pc = "get", NEW i \in Due,
         TooLarge(i) \/ Refused(i) \/ Breaks(i), SameWindow, UNCHANGED disk
  PROVE  Window'
<1> DEFINE u == server[i].uidl
<1>1. PICK large \in BOOLEAN, c \in Check :
            /\ db' = Count(u, large)
            /\ c.first = chk.first /\ c.stored = chk.stored
            /\ c.failed = chk.failed /\ c.handled = chk.handled \cup {u}
            /\ chk.menuChanged => c.menuChanged
            /\ \/ c.pc = "get" /\ (JustShown(u) => c.menuChanged)
                  /\ chk' \in {c, Dropped(c, "reopen")}
               \/ c.pc = "name" /\ chk' = c
  BY GetForms
<1>2. u \in Uidls /\ db \in Store
  BY InvParts DEF Due
<1> HIDE DEF u
<1>3. /\ chk'.pc # "confirm" /\ chk'.stored = chk.stored /\ chk'.first = chk.first
      /\ chk'.handled = chk.handled \cup {u}
      /\ Unsure \/ JustShown(u) => Unsure'
  BY <1>1, DroppedKeeps DEF Unsure
<1>4. /\ db'.kept = db.kept /\ db'.erased = db.erased /\ db'.firstDone = db.firstDone
  BY <1>1, <1>2, CountKeeps, CountFirst
<1>5. /\ db'.failures[u] # None
      /\ \A v \in Uidls : v # u => db'.failures[v] = db.failures[v]
      /\ ~JustShown(u) => Failing(db') \subseteq Failing(db)
  BY <1>1, <1>2, CountFailing
<1>6. Handled'
  <2>1. \A v \in chk.handled : v \in Uidls /\ db.failures[v] # None
    BY RowsParts DEF Window, Handled, Check
  <2> QED
    BY <1>3, <1>5, <2>1 DEF Handled
<1>7. Tells'
  <2>1. (Failing(db))' = Failing(db')
    BY DEF Failing
  <2> QED
    BY <1>3, <1>4, <1>5, <2>1 DEF Window, Tells, Stored, SameWindow
<1>8. OldDown(db)' /\ OldDown(disk)' /\ OldStored'
  BY <1>3, <1>4 DEF Window, OldDown, OldStored, Here, SameWindow
<1> QED
  BY <1>6, <1>7, <1>8 DEF Window, SameWindow

LEMMA DownloadsWindow ==
  ASSUME Inv, Rows, Window, chk.pc = "get", NEW i \in Due, Downloads(i), SameWorld, SameWindow,
         UNCHANGED disk
  PROVE  Window'
<1> DEFINE m == server[i].mail
           u == server[i].uidl
<1>1. m \in Mails /\ u \in Uidls /\ db \in Store /\ IsFiniteSet(db.kept) /\ u \notin chk.handled
  BY InvParts DEF Due, NotHandled
<1>2. /\ db' = Keep(m, u, chk.remove) /\ chk' = [chk EXCEPT !.stored = @ \cup {m}]
  BY DEF Downloads
<1>3. m \notin Here(db)
  BY DownloadsRows
<1> HIDE DEF m, u
<1>4. /\ db'.kept = db.kept \cup {[id |-> DownloadId(u), mail |-> m]}
      /\ db'.firstDone = db.firstDone /\ Here(db') = Here(db) \cup {m}
      /\ db'.failures = [db.failures EXCEPT ![u] = None]
  BY <1>1, <1>2, KeepRow, KeepKeeps
<1>5. /\ chk'.pc = "get" /\ chk'.stored = chk.stored \cup {m} /\ chk'.first = chk.first
      /\ chk'.handled = chk.handled /\ chk'.menuChanged = chk.menuChanged
      /\ chk'.failed = chk.failed
  BY <1>2, <1>3, RowsParts DEF Check
<1>6. \A v \in Uidls : db'.failures[v] = IF v = u THEN None ELSE db.failures[v]
  BY <1>1, <1>4 DEF Store
<1>7. Handled'
  BY <1>1, <1>5, <1>6, RowsParts DEF Window, Handled, Check
<1>8. Tells'
  <2>1. Failing(db)' \subseteq Failing(db)
    BY <1>6 DEF Failing
  <2>2. Unsure => Unsure'
    BY <1>5 DEF Unsure
  <2> QED
    BY <1>4, <1>5, <2>1, <2>2 DEF Window, Tells, Stored, SameWindow
<1>9. OldDown(db)' /\ OldDown(disk)'
  <2>1. Here(db)' = Here(db) \cup {m}
    BY <1>4 DEF Here
  <2> QED
    BY <1>4, <2>1 DEF Window, OldDown, Here, SameWindow
<1>10. OldStored'
  <2>1. ~chk.first => db.firstDone
    BY RowsParts DEF SoFar
  <2>2. ~chk.first => m \notin Old \/ m \in excused
    BY <1>3, <2>1 DEF Window, OldDown
  <2> QED
    BY <1>5, <2>2 DEF Window, OldStored, SameWindow
<1> QED
  BY <1>7, <1>8, <1>9, <1>10 DEF Window, SameWindow

LEMMA GetWindow == ASSUME Inv, Rows, Window, Get PROVE Window'
<1>1. PICK i \in Due : Downloads(i) \/ TooLarge(i) \/ Refused(i) \/ Breaks(i)
  BY DEF Get
<1>2. SameWorld /\ SameWindow /\ UNCHANGED disk /\ chk.pc = "get"
  BY DEF Get, Going
<1> QED
  BY <1>1, <1>2, DownloadsWindow, CountsWindow

\* A first check is finished once each old message it listed is down or failed.
LEMMA FinishFirstWindow == ASSUME Inv, Rows, Window, FinishFirst PROVE Window'
<1>1. /\ db' = [db EXCEPT !.firstDone = TRUE] /\ NewDue = {}
      /\ excused' = excused \cup {m \in Old \ (Stored \cup db.erased) :
           \A i \in chk.listed : server[i].mail = m => db.failures[server[i].uidl] # None}
      /\ UNCHANGED <<chk, told, missed, reported, heard, menu, notified, disk>>
  BY DEF FinishFirst, PassDone
<1>2. /\ db'.kept = db.kept /\ db'.erased = db.erased /\ db'.failures = db.failures /\ db'.firstDone
  BY <1>1, RowsParts DEF Store
<1>3. ASSUME NEW i \in chk.listed, server[i].mail \notin Here(db),
             db.failures[server[i].uidl] = None
      PROVE  FALSE
  <2> DEFINE u == server[i].uidl
             S == {j \in chk.listed : server[j].uidl = u}
  <2>1. i \in DOMAIN server /\ chk.listed \subseteq DOMAIN server /\ DOMAIN server \subseteq Nat
    BY InvParts
  <2>2. NotHandled(u) /\ Unseen(u)
    BY <1>3, <2>1, RowsParts DEF NotHandled, Unseen, Window, Handled, Known
  <2>3. S \in SUBSET Nat /\ S # {}
    BY <2>1
  <2>4. Min(S) \in S
    BY <2>3, MinIs
  <2>5. FirstOf(u, chk.listed) = i
    BY <2>1, <2>4, RowsParts DEF UidlsApart, FirstOf
  <2>6. i \in Due
    BY <2>2, <2>5 DEF Due
  <2> QED
    BY <1>1, <1>3, <2>6 DEF NewDue
<1>4. OldDown(db)'
  <2>1. Stored \cup db.erased = Here(db) /\ Here(db)' = Here(db)
    BY <1>2 DEF Stored, Here
  <2>2. Old \subseteq excused' \cup Here(db)
    BY <1>1, <1>3, <2>1
  <2> QED
    BY <2>1, <2>2 DEF OldDown
<1>5. OldDown(disk)' /\ OldStored'
  BY <1>1 DEF Window, OldDown, OldStored, Here
<1>6. Tells' /\ Handled'
  BY <1>1, <1>2 DEF Window, Tells, Handled, Stored, Failing, Unsure
<1> QED
  BY <1>1, <1>4, <1>5, <1>6 DEF Window

\* A step that changes only what the store owes the server.
LEMMA PassedWindow == ASSUME Inv, Rows, Window, Passed PROVE Window'
<1>1. /\ \E aged \in SUBSET Uidls : db' = IF chk.remove = "days" THEN Want(db, aged) ELSE db
      /\ chk' = [chk EXCEPT !.pc = "pending"]
      /\ UNCHANGED disk /\ SameWindow /\ chk.pc = "get"
  BY DEF Passed, Going
<1>2. \A us : Want(db, us).firstDone = db.firstDone
  BY RowsParts DEF Want, Store
<1>3. /\ db'.kept = db.kept /\ db'.erased = db.erased /\ db'.failures = db.failures
      /\ db'.firstDone = db.firstDone
  BY <1>1, <1>2, RowsParts, WantKeeps
<1>4. /\ chk'.pc = "pending" /\ chk'.stored = chk.stored /\ chk'.menuChanged = chk.menuChanged
      /\ chk'.first = chk.first /\ chk'.handled = chk.handled /\ chk'.failed = chk.failed
  BY <1>1, RowsParts DEF Check
<1>5. Handled'
  BY <1>3, <1>4 DEF Window, Handled
<1>6. Failing(db') \subseteq Failing(db) /\ Here(db) \subseteq Here(db')
  BY <1>3 DEF Failing, Here
<1>7. Unsure => Unsure'
  BY <1>1, <1>4 DEF Unsure
<1> QED
  BY <1>1, <1>3, <1>4, <1>5, <1>6, <1>7, WindowKept

LEMMA PendingWindow == ASSUME Inv, Rows, Window, Pending PROVE Window'
<1>1. /\ (disk' = disk \/ disk' = db) /\ UNCHANGED db /\ SameWindow /\ chk.pc = "pending"
      /\ chk' = [chk EXCEPT !.pc = "quit"] \/ chk' = [chk EXCEPT !.pc = "dele", !.page = Wanted]
  BY DEF Pending, Going
<1>2. /\ chk'.pc # "confirm" /\ chk'.stored = chk.stored /\ chk'.menuChanged = chk.menuChanged
      /\ chk'.first = chk.first /\ chk'.handled = chk.handled /\ chk'.failed = chk.failed
  BY <1>1, RowsParts DEF Check
<1>3. Unsure => Unsure'
  BY <1>1, <1>2 DEF Unsure
<1> QED
  BY <1>1, <1>2, <1>3, RecordKept

LEMMA DeleWindow == ASSUME Inv, Rows, Window, Dele PROVE Window'
<1> DEFINE u == Min(chk.page)
           next == IF chk.page = {u} THEN "quit" ELSE "dele"
           rest == [chk EXCEPT !.page = @ \ {u}, !.pc = next]
           said == [rest EXCEPT !.deleted = @ \cup {NumberOf(u)}, !.removed = @ \cup {u}]
<1>1. /\ UNCHANGED <<db, disk>> /\ SameWindow /\ chk \in Check /\ chk.pc = "dele"
      /\ chk' = rest \/ chk' = said
  BY RowsParts DEF Dele, Going, SameWorld
<1>2. next # "confirm"
  OBVIOUS
<1> HIDE DEF u, next
<1>3. /\ rest.pc = next /\ rest.stored = chk.stored /\ rest.menuChanged = chk.menuChanged
      /\ rest.first = chk.first /\ rest.handled = chk.handled /\ rest.failed = chk.failed
      /\ said.pc = next /\ said.stored = chk.stored /\ said.menuChanged = chk.menuChanged
      /\ said.first = chk.first /\ said.handled = chk.handled /\ said.failed = chk.failed
  BY <1>1 DEF Check
<1> HIDE DEF rest, said
<1>4. Unsure => Unsure'
  BY <1>1, <1>3 DEF Unsure
<1> QED
  BY <1>1, <1>2, <1>3, <1>4, RecordKept

LEMMA QuitWindow == ASSUME Inv, Rows, Window, Quit PROVE Window'
<1>1. /\ UNCHANGED <<db, disk>> /\ SameWindow /\ chk.pc = "quit"
      /\ \E pc : chk' = [Over EXCEPT !.pc = pc]
  BY DEF Quit, Going
<1>2. /\ chk'.stored = chk.stored /\ chk'.menuChanged = chk.menuChanged
      /\ chk'.first = chk.first /\ chk'.handled = {} /\ chk'.failed = chk.failed
  BY <1>1 DEF Over, Idle
<1>3. Unsure => Unsure'
  BY <1>1, <1>2 DEF Unsure
<1> QED
  BY <1>1, <1>2, <1>3, RecordKept

\* What is forgotten is one failing message less.
LEMMA ConfirmWindow == ASSUME Inv, Rows, Window, Confirm PROVE Window'
<1> DEFINE b == Failing(db) \ Failing(db') # {}
<1>1. /\ chk.pc = "confirm" /\ UNCHANGED disk /\ SameWindow
      /\ \/ /\ db' = Confirmed(chk.names, chk.removed)
            /\ chk' = [chk EXCEPT !.pc = "end", !.menuChanged = @ \/ b]
         \/ db' = db /\ chk' = [chk EXCEPT !.pc = "end", !.failed = TRUE]
  BY DEF Confirm, Going
<1>2. /\ db'.kept = db.kept /\ db'.erased = db.erased /\ db'.firstDone = db.firstDone
      /\ \A u \in Uidls : db'.failures[u] # None => db'.failures[u] = db.failures[u]
  BY <1>1, RowsParts, ConfirmedKeeps, ConfirmedLive
<1> HIDE DEF b
<1>3. /\ chk'.pc = "end" /\ chk'.stored = chk.stored /\ (chk.menuChanged => chk'.menuChanged)
      /\ chk'.first = chk.first /\ chk'.handled = chk.handled /\ (chk.failed => chk'.failed)
  BY <1>1, RowsParts DEF Check
<1>4. Handled'
  BY <1>1, <1>3 DEF Window, Handled
<1>5. Failing(db') \subseteq Failing(db) /\ Here(db) \subseteq Here(db')
  BY <1>2 DEF Failing, Here
<1>6. Unsure => Unsure'
  BY <1>1, <1>3 DEF Unsure
<1> QED
  BY <1>1, <1>2, <1>3, <1>4, <1>5, <1>6, WindowKept

\* The end of the check tells what it stored and what changed in the menu, and
\* a report of another state makes the window read the menu if it hears of it.
LEMMA AnnounceWindow == ASSUME Inv, Rows, Window, Announce PROVE Window'
<1>1. /\ chk.pc = "end" /\ chk' = Idle /\ UNCHANGED <<db, disk, excused>>
      /\ \/ told' = Stored
         \/ told' = told \cup chk.stored /\ missed' = missed
      /\ notified' = IF chk.first THEN notified ELSE notified \cup chk.stored
  BY DEF Announce, Looked, Going
<1>2. Stored' \subseteq told' \cup missed'
  BY <1>1 DEF Window, Tells, Stored
<1>3. reported' # "ok" \/ ~heard' \/ Failing(db) \subseteq menu'
  <2> SUFFICES ASSUME reported' = "ok", heard' PROVE Failing(db) \subseteq menu'
    OBVIOUS
  <2>1. ~chk.failed
    BY DEF Announce, Outcomes
  <2>2. /\ heard' = (reported' # reported \/ heard)
        /\ menu' = IF chk.menuChanged \/ reported' # reported THEN Failing(db) ELSE menu
    BY DEF Announce
  <2>3. CASE chk.menuChanged \/ reported' # reported
    BY <2>2, <2>3
  <2>4. CASE ~chk.menuChanged /\ reported' = reported
    BY <1>1, <2>1, <2>2, <2>4 DEF Window, Tells, Unsure
  <2> QED
    BY <2>3, <2>4
<1>4. Tells'
  <2>1. Failing(db)' = Failing(db)
    BY <1>1 DEF Failing
  <2> QED
    BY <1>2, <1>3, <2>1 DEF Tells
<1>5. Handled' /\ OldStored'
  BY <1>1, IdleFields DEF Handled, OldStored
<1>6. OldDown(db)' /\ OldDown(disk)'
  BY <1>1 DEF Window, OldDown, Here
<1>7. notified' \cap Old \subseteq excused'
  BY <1>1 DEF Window, OldStored
<1> QED
  BY <1>4, <1>5, <1>6, <1>7 DEF Window

LEMMA DestroyWindow == ASSUME Inv, Rows, Window, NEW k \in db.kept, Destroy(k) PROVE Window'
<1> DEFINE us == {u \in Uidls : Live(db, u) /\ db.seen[u].mid = k.id}
           d == IF remove = "never" THEN db ELSE Want(db, us)
<1>1. /\ d \in Store /\ d.kept = db.kept /\ d.erased = db.erased /\ d.firstDone = db.firstDone
      /\ d.failures = db.failures
  <2>1. Want(db, us).firstDone = db.firstDone
    BY RowsParts DEF Want, Store
  <2> QED
    BY <2>1, RowsParts, WantKeeps
<1>2. /\ \/ db' = d /\ UNCHANGED told
         \/ /\ db' = [d EXCEPT !.kept = @ \ {k}, !.erased = @ \cup {k.mail}]
            /\ told' = told \ {k.mail}
      /\ UNCHANGED <<disk, chk, menu, missed, reported, heard, notified, excused>>
  BY DEF Destroy
<1> HIDE DEF d
<1>3. /\ db'.firstDone = db.firstDone /\ db'.failures = db.failures
      /\ \/ db'.kept = db.kept /\ db'.erased = db.erased /\ told' = told
         \/ /\ db'.kept = db.kept \ {k} /\ db'.erased = db.erased \cup {k.mail}
            /\ told' = told \ {k.mail}
  BY <1>1, <1>2 DEF Store
<1>4. Stored' \subseteq told' \cup missed \cup chk.stored
  <2>1. \A l \in db.kept : l # k => l.mail # k.mail
    BY RowsParts DEF KeptOnce
  <2>2. \A l \in db.kept : l.mail \in told \cup missed \cup chk.stored
    BY DEF Window, Tells, Stored
  <2> QED
    BY <1>3, <2>1, <2>2 DEF Stored
<1>5. Tells'
  BY <1>2, <1>3, <1>4 DEF Window, Tells, Failing, Unsure
<1>6. Handled' /\ OldStored'
  BY <1>2, <1>3 DEF Window, Handled, OldStored
<1>7. OldDown(db)' /\ OldDown(disk)'
  <2>1. Here(db)' = Here(db)
    BY <1>3 DEF Here
  <2> QED
    BY <1>2, <1>3, <2>1 DEF Window, OldDown, Here
<1> QED
  BY <1>2, <1>5, <1>6, <1>7 DEF Window

\* The window reads the mail and the menu again.
LEMMA RestartWindow ==
  ASSUME Inv, Rows, Window, NEW d \in {db, disk}, Restart(d) PROVE Window'
<1>1. /\ db' = d /\ chk' = Idle /\ menu' = Failing(d) /\ told' = {k.mail : k \in d.kept}
      /\ UNCHANGED <<disk, notified, excused>>
  BY DEF Restart
<1>2. Tells'
  BY <1>1 DEF Tells, Stored, Failing
<1>3. Handled' /\ OldStored'
  BY <1>1, IdleFields DEF Handled, OldStored
<1>4. OldDown(db)' /\ OldDown(disk)'
  BY <1>1 DEF Window, OldDown, Here
<1> QED
  BY <1>1, <1>2, <1>3, <1>4 DEF Window

\* Steps beside the check and the window.
LEMMA BesideWindow ==
  ASSUME Inv, Rows, Window, UNCHANGED <<chk, db>>, SameWindow, disk' = disk \/ disk' = db
  PROVE  Window'
<1>1. Handled' /\ (Unsure => Unsure')
  BY DEF Window, Handled, Unsure
<1> QED
  BY <1>1, WindowKept

LEMMA NextWindow == ASSUME Inv, Rows, Window, [Next]_vars PROVE Window'
<1>1. CASE CheckSteps
  BY <1>1, StartWindow, OpenWindow, ReopenWindow, ListWindow, GetWindow, FinishFirstWindow,
     PassedWindow, PendingWindow, DeleWindow, QuitWindow, ConfirmWindow, AnnounceWindow,
     NameWindow DEF CheckSteps
<1>2. CASE Fails \/ Stopped
  BY <1>2, FailsWindow, StoppedWindow
<1>3. CASE Crash \/ PowerCut
  BY <1>3, RestartWindow DEF Crash, PowerCut
<1>4. CASE \E k \in db.kept : Destroy(k)
  BY <1>4, DestroyWindow
<1>5. CASE \/ Hour \/ Sync \/ (\E setting \in Settings : SetRemove(setting)) \/ UNCHANGED vars
           \/ (\E m \in Mails, u \in Uidls : Arrive(m, u))
           \/ (\E i \in DOMAIN server : OtherRemoves(i))
  <2>1. UNCHANGED <<chk, db>> /\ SameWindow /\ (disk' = disk \/ disk' = db)
    BY <1>5 DEF Hour, Sync, SetRemove, Arrive, OtherRemoves, SameWindow, vars
  <2> QED
    BY <2>1, BesideWindow
<1> QED
  BY <1>1, <1>2, <1>3, <1>4, <1>5 DEF Next

----------------------------------------------------------------------------
(* What follows.                                                           *)

AllInv == Inv /\ Rows /\ Window

LEMMA NextAllInv == Orderly /\ AllInv /\ [Next]_vars => AllInv'
BY NextInv, StutterInv, NextRows, NextWindow DEF AllInv

LEMMA AllInvHolds == Orderly => (Spec => []AllInv)
<1> SUFFICES ASSUME Orderly PROVE Spec => []AllInv
  OBVIOUS
<1>1. Init => AllInv
  BY InitInv, InitRows, InitWindow DEF AllInv
<1>2. AllInv /\ [Next]_vars => AllInv'
  BY NextAllInv
<1> QED
  BY <1>1, <1>2, PTL DEF Spec

\* Between checks the window knows of all the mail there is, save what a check
\* stored that the engine stopped, till news make the window list its mail again
\* (start_account, stop_account, shutdown); and once the loop's report of a good
\* look has reached it, the menu has every message that keeps failing, whatever
\* write was refused and whichever check was stopped (look_for_mail, report).
THEOREM WindowKnowsHolds == Orderly => (Spec => []WindowKnows)
<1>1. AllInv => WindowKnows
  BY RowsParts DEF AllInv, Window, Tells, SoFar, WindowKnows, Going, Unsure
<1> QED
  BY <1>1, AllInvHolds, PTL

\* No mail the server held when the account was added is announced as new, save
\* what the first finished check left out or counted as failed
\* (finish_first_check, look_for_mail).
THEOREM OldMailQuietHolds == Orderly => (Spec => []OldMailQuiet)
<1>1. AllInv => OldMailQuiet
  BY DEF AllInv, Window, OldMailQuiet
<1> QED
  BY <1>1, AllInvHolds, PTL

----------------------------------------------------------------------------
(* A mail comes down once.                                                 *)

\* Only a download adds mail, and a power cut only what is on the disk.
LEMMA NextOnce ==
  ASSUME Inv, Rows, [Next]_vars
  PROVE  \A k \in db'.kept \ db.kept : k \in disk.kept \/ k.mail \notin Stored \cup db.erased
<1>1. CASE Get
  <2>1. PICK i \in Due : Downloads(i) \/ TooLarge(i) \/ Refused(i) \/ Breaks(i)
    BY <1>1 DEF Get
  <2>2. SameWorld /\ UNCHANGED disk /\ chk.pc = "get"
    BY <1>1 DEF Get, Going
  <2> DEFINE m == server[i].mail
             u == server[i].uidl
  <2>3. m \in Mails /\ u \in Uidls /\ db \in Store /\ IsFiniteSet(db.kept)
    BY InvParts DEF Due
  <2>4. CASE Downloads(i)
    <3>1. m \notin Here(db)
      BY <2>2, <2>4, DownloadsRows
    <3>2. db' = Keep(m, u, chk.remove)
      BY <2>4 DEF Downloads
    <3> HIDE DEF m, u
    <3>3. db'.kept = db.kept \cup {[id |-> DownloadId(u), mail |-> m]}
      BY <2>3, <3>2, KeepRow
    <3> QED
      BY <3>1, <3>3 DEF Here, Stored
  <2>5. CASE TooLarge(i) \/ Refused(i) \/ Breaks(i)
    <3>1. PICK large \in BOOLEAN : db' = Count(u, large)
      BY <2>2, <2>5, GetForms
    <3> QED
      BY <2>3, <3>1, CountKeeps
  <2> QED
    BY <2>1, <2>4, <2>5
<1>2. CASE FinishFirst
  BY <1>2, RowsParts DEF FinishFirst, Store
<1>3. CASE Passed
  BY <1>3, RowsParts, WantKeeps DEF Passed
<1>4. CASE Confirm
  <2>1. db' = Confirmed(chk.names, chk.removed) \/ UNCHANGED db
    BY <1>4 DEF Confirm
  <2> QED
    BY <2>1, RowsParts, ConfirmedKeeps
<1>5. CASE Crash \/ PowerCut
  BY <1>5 DEF Crash, PowerCut, Restart
<1>6. ASSUME NEW k \in db.kept, Destroy(k) PROVE db'.kept \subseteq db.kept
  <2> DEFINE d == IF remove = "never" THEN db
                  ELSE Want(db, {u \in Uidls : Live(db, u) /\ db.seen[u].mid = k.id})
  <2>1. d \in Store /\ d.kept = db.kept
    BY RowsParts, WantKeeps
  <2>2. db' = d \/ db' = [d EXCEPT !.kept = @ \ {k}, !.erased = @ \cup {k.mail}]
    BY <1>6 DEF Destroy
  <2> HIDE DEF d
  <2> QED
    BY <2>1, <2>2 DEF Store
<1>7. CASE UNCHANGED db
  BY <1>7
<1>8. \/ Get \/ FinishFirst \/ Passed \/ Confirm \/ Crash \/ PowerCut
      \/ (\E k \in db.kept : Destroy(k)) \/ UNCHANGED db
  BY DEF Next, CheckSteps, Start, Open, Reopen, List, Pending, Dele, Quit, Announce, Fails, Name, Stopped,
         Hour, Sync, SetRemove, Arrive, OtherRemoves, vars
<1> QED
  BY <1>1, <1>2, <1>3, <1>4, <1>5, <1>6, <1>7, <1>8

\* No mail that is here, or was erased here, comes down again: for every list,
\* every answer of a QUIT and every power cut (unseen, forget_gone,
\* mark_removed).
THEOREM DownloadedOnceHolds == Orderly => (Spec => DownloadedOnce)
<1> SUFFICES ASSUME Orderly PROVE Spec => DownloadedOnce
  OBVIOUS
<1>1. AllInv /\ [Next]_vars =>
          [\A k \in db'.kept \ db.kept : k \in disk.kept \/ k.mail \notin Stored \cup db.erased]_vars
  BY NextOnce DEF AllInv
<1> QED
  BY <1>1, AllInvHolds, PTL DEF Spec, DownloadedOnce
=============================================================================
