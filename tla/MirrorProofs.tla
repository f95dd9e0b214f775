---------------------------- MODULE MirrorProofs ----------------------------
(***************************************************************************)
(* The store is the server's mirror, for every number of messages, labels, *)
(* writers, changes and faults.                                            *)
(***************************************************************************)
EXTENDS Mirror, FiniteSetTheorems, WellFoundedInduction, TLAPS

----------------------------------------------------------------------------
(* What a write does to a message and to one of its labels.                *)

On(c, m, l) == <<m, l>> \in c.on

LEMMA MsgsAreNumbers ==
  \E n \in Nat : n >= 1 /\ Msgs = 1..n
<1>1. Cardinality(Msgs) \in Nat
  BY MirrorAssumption, FS_CardinalityType
<1> QED
  BY <1>1, MirrorAssumption

LEMMA NoMailIsMail == NoMail \in Mail
BY DEF NoMail, Mail

LEMMA UpsertWrites ==
  ASSUME NEW c \in Mail, NEW found \in Mail, NEW ms
  PROVE  /\ Upsert(c, found, ms) \in Mail
         /\ Upsert(c, found, ms).there = c.there \cup (ms \cap found.there)
         /\ \A m \in Msgs, l \in Labels : On(Upsert(c, found, ms), m, l) <=>
               IF m \in ms \cap found.there THEN On(found, m, l) ELSE On(c, m, l)
BY DEF Upsert, Mail, Of, On

LEMMA DropWrites ==
  ASSUME NEW c \in Mail, NEW ms
  PROVE  /\ Drop(c, ms) \in Mail
         /\ Drop(c, ms).there = c.there \ ms
         /\ \A m \in Msgs, l \in Labels : On(Drop(c, ms), m, l) <=> m \notin ms /\ On(c, m, l)
BY DEF Drop, Mail, Of, On

LEMMA LabelWrites ==
  ASSUME NEW c \in Mail, NEW ms, NEW l \in Labels, NEW on \in BOOLEAN
  PROVE  /\ Label(c, ms, l, on) \in Mail
         /\ Label(c, ms, l, on).there = c.there
         /\ \A m \in Msgs, k \in Labels : On(Label(c, ms, l, on), m, k) <=>
               IF m \in ms \cap c.there /\ k = l THEN on ELSE On(c, m, k)
<1>1. CASE on
  BY <1>1 DEF Label, Mail, On
<1>2. CASE ~on
  BY <1>2 DEF Label, Mail, On
<1> QED
  BY <1>1, <1>2

\* Mail is known by what is there and by the labels of it.
LEMMA OnIsThere ==
  ASSUME NEW c \in Mail, NEW m, NEW l, On(c, m, l)
  PROVE  m \in c.there /\ m \in Msgs /\ l \in Labels
BY DEF Mail, On

LEMMA SameMail ==
  ASSUME NEW c \in Mail, NEW d \in Mail, c.there = d.there,
         \A m \in Msgs, l \in Labels : On(c, m, l) <=> On(d, m, l)
  PROVE  c = d
<1>1. c.on = d.on
  BY DEF Mail, On
<1> QED
  BY <1>1 DEF Mail

LEMMA StampedTyped ==
  ASSUME gen \in [Msgs -> Nat], NEW ms, NEW g \in Nat
  PROVE  /\ Stamped(ms, g) \in [Msgs -> Nat]
         /\ \A m \in Msgs : Stamped(ms, g)[m] = IF m \in ms THEN g ELSE gen[m]
BY DEF Stamped

----------------------------------------------------------------------------
(* What a history `h` says of mail `v` at the server, after place `s`.     *)

Histories == Seq(Change)

\* A message came or went; it did, or one of its labels was set.
Moved(h, m, s) == \E i \in DOMAIN h : i > s /\ h[i].id = m /\ h[i].kind \in {"added", "deleted"}

Told(h, m, l, s) ==
    \E i \in DOMAIN h :
        i > s /\ h[i].id = m /\ (h[i].kind \in {"added", "deleted"} \/ h[i].label = l)

\* What is held of a message is what the server has, or the history has yet to
\* tell the difference: of its being there, of a label, and of all of it.
Place(h, v, held, m, s) == (m \in held <=> m \in v.there) \/ Moved(h, m, s)
Same(h, v, c, m, l, s) == (On(c, m, l) <=> On(v, m, l)) \/ Told(h, m, l, s)
Fits(h, v, c, m, s) == Place(h, v, c.there, m, s) /\ \A l \in Labels : Same(h, v, c, m, l, s)

\* The server went on from one history and mail to others, and the history
\* tells what changed.
Later(h, v, g, w) ==
    /\ \A i \in DOMAIN h : i \in DOMAIN g /\ g[i] = h[i]
    /\ \A m \in Msgs : (m \in v.there <=> m \in w.there) \/ Moved(g, m, Len(h))
    /\ \A m \in Msgs, l \in Labels : (On(v, m, l) <=> On(w, m, l)) \/ Told(g, m, l, Len(h))

LEMMA LaterKeeps ==
  ASSUME NEW h \in Histories, NEW v, NEW g \in Histories, NEW w, Later(h, v, g, w),
         NEW s \in Int, s <= Len(h), NEW m \in Msgs
  PROVE  /\ Moved(h, m, s) => Moved(g, m, s)
         /\ \A l \in Labels : Told(h, m, l, s) => Told(g, m, l, s)
         /\ \A held : Place(h, v, held, m, s) => Place(g, w, held, m, s)
         /\ \A c : \A l \in Labels : Same(h, v, c, m, l, s) => Same(g, w, c, m, l, s)
         /\ \A c : Fits(h, v, c, m, s) => Fits(g, w, c, m, s)
         /\ (m \in v.there <=> m \in w.there) \/ Moved(g, m, s)
         /\ \A l \in Labels : (On(v, m, l) <=> On(w, m, l)) \/ Told(g, m, l, s)
<1>1. Moved(h, m, s) => Moved(g, m, s)
  BY DEF Moved, Later
<1>2. \A l \in Labels : Told(h, m, l, s) => Told(g, m, l, s)
  BY DEF Told, Later
<1>3. Len(h) \in Nat
  BY DEF Histories
<1>4. Moved(g, m, Len(h)) => Moved(g, m, s)
  BY <1>3 DEF Moved, Histories
<1>5. \A l \in Labels : Told(g, m, l, Len(h)) => Told(g, m, l, s)
  BY <1>3 DEF Told, Histories
<1>6. (m \in v.there <=> m \in w.there) \/ Moved(g, m, s)
  BY <1>4 DEF Later
<1>7. \A l \in Labels : (On(v, m, l) <=> On(w, m, l)) \/ Told(g, m, l, s)
  BY <1>5 DEF Later
<1>8. \A held : Place(h, v, held, m, s) => Place(g, w, held, m, s)
  BY <1>1, <1>6 DEF Place
<1>9. \A c : \A l \in Labels : Same(h, v, c, m, l, s) => Same(g, w, c, m, l, s)
  BY <1>2, <1>7 DEF Same
<1>10. \A c : Fits(h, v, c, m, s) => Fits(g, w, c, m, s)
  BY <1>8, <1>9 DEF Fits
<1> QED
  BY <1>1, <1>2, <1>6, <1>7, <1>8, <1>9, <1>10

LEMMA LaterSame ==
  ASSUME NEW h, NEW v
  PROVE  Later(h, v, h, v)
BY DEF Later

LEMMA Entry ==
  ASSUME NEW h \in Histories, NEW i \in DOMAIN h
  PROVE  /\ h[i] \in Change /\ h[i].id \in Msgs /\ h[i].label \in Labels
         /\ h[i].kind \in {"added", "deleted", "gained", "lost"}
<1>1. h[i] \in Change
  BY DEF Histories
<1> QED
  BY <1>1 DEF Change

\* One more entry, that tells what the server changed.
LEMMA Recorded ==
  ASSUME NEW h \in Histories, NEW e \in Change
  PROVE  LET g == Append(h, e) IN
         /\ g \in Histories /\ Len(g) = Len(h) + 1 /\ Len(h) \in Nat
         /\ DOMAIN g = DOMAIN h \cup {Len(h) + 1} /\ DOMAIN h = 1..Len(h)
         /\ g[Len(h) + 1] = e
         /\ \A i \in DOMAIN h : g[i] = h[i]
BY DEF Histories

----------------------------------------------------------------------------
(* The history is true of the server: what it tells last holds there, and  *)
(* it has told of every message the server has.                            *)

Came(h, m) == m \in Before \/ \E i \in DOMAIN h : h[i].id = m /\ h[i].kind = "added"

True(h, v) ==
    /\ \A m \in v.there : Came(h, m)
    /\ \A i \in DOMAIN h : Came(h, h[i].id)
    /\ \A i \in DOMAIN h : h[i].kind = "deleted" => h[i].id \notin v.there
    /\ \A i \in DOMAIN h : h[i].kind = "added" /\ h[i].id \notin v.there =>
          \E j \in DOMAIN h : j > i /\ h[j].id = h[i].id /\ h[j].kind = "deleted"
    /\ \A i \in DOMAIN h : h[i].kind = "lost" /\ On(v, h[i].id, h[i].label) =>
          \E j \in DOMAIN h : j > i /\ h[j].id = h[i].id /\ h[j].kind = "gained" /\ h[j].label = h[i].label
    /\ \A i \in DOMAIN h : h[i].kind = "gained" /\ ~On(v, h[i].id, h[i].label) =>
          \E j \in DOMAIN h : j > i /\ h[j].id = h[i].id /\
              (h[j].kind = "deleted" \/ (h[j].kind = "lost" /\ h[j].label = h[i].label))

\* What a step of the server leaves: mail and a history that are of their kinds,
\* go on from what they were, and are true of each other.
GoesOn ==
    /\ srv' \in Mail /\ log' \in Histories /\ Len(log') >= Len(log)
    /\ Later(log, srv, log', srv') /\ True(log', srv')

Server == srv \in Mail /\ log \in Histories /\ True(log, srv)

LEMMA LabelsGoOn ==
  ASSUME Server, NEW m \in Msgs, NEW l \in Labels, NEW on \in BOOLEAN,
         m \in srv.there, ServerLabels(m, l, on)
  PROVE  /\ GoesOn
         /\ srv'.there = srv.there
         /\ \A n \in Msgs, k \in Labels : On(srv', n, k) <=>
               IF n = m /\ k = l THEN on ELSE On(srv, n, k)
         /\ \A i \in DOMAIN log' : i > Len(log) => log'[i].id = m /\ log'[i].label = l
<1> DEFINE e == [kind |-> IF on THEN "gained" ELSE "lost", id |-> m, label |-> l]
<1> USE DEF Server, Histories
<1>1. /\ srv' \in Mail /\ srv'.there = srv.there
      /\ \A n \in Msgs, k \in Labels : On(srv', n, k) <=>
            IF n = m /\ k = l THEN on ELSE On(srv, n, k)
  BY LabelWrites DEF ServerLabels
<1>2. e \in Change
  BY DEF Change
<1>3. CASE srv' = srv
  <2>1. log' = log
    BY <1>3 DEF ServerLabels
  <2>2. \A i \in DOMAIN log' : ~(i > Len(log))
    BY <2>1
  <2> QED
    BY <1>1, <1>3, <2>1, <2>2, LaterSame DEF GoesOn
<1>4. CASE srv' # srv
  <2>1. log' = Append(log, e)
    BY <1>4 DEF ServerLabels, Record
  <2> HIDE DEF e
  <2>2. /\ log' \in Histories /\ Len(log') = Len(log) + 1 /\ Len(log) \in Nat
        /\ DOMAIN log' = DOMAIN log \cup {Len(log) + 1} /\ DOMAIN log = 1..Len(log)
        /\ log'[Len(log) + 1] = e
        /\ \A i \in DOMAIN log : log'[i] = log[i]
    BY <1>2, <2>1, Recorded
  <2>3. e.kind = (IF on THEN "gained" ELSE "lost") /\ e.id = m /\ e.label = l
    BY DEF e
  <2>4. \E i \in DOMAIN log' : i > Len(log) /\ log'[i].id = m /\ log'[i].label = l
    BY <2>2, <2>3
  <2>5. Later(log, srv, log', srv')
    BY <1>1, <2>2, <2>4 DEF Later, Told
  <2>6. \A n : Came(log, n) => Came(log', n)
    BY <2>2 DEF Came
  <2>7. True(log', srv')
    <3>1. /\ \A n \in srv'.there : Came(log', n)
          /\ \A i \in DOMAIN log' : Came(log', log'[i].id)
      BY <1>1, <2>2, <2>3, <2>6 DEF True
    <3>2. \A i \in DOMAIN log' : log'[i].kind = "deleted" => log'[i].id \notin srv'.there
      BY <1>1, <2>2, <2>3 DEF True
    <3>3. \A i \in DOMAIN log' : log'[i].kind = "added" /\ log'[i].id \notin srv'.there =>
            \E j \in DOMAIN log' : j > i /\ log'[j].id = log'[i].id /\ log'[j].kind = "deleted"
      BY <1>1, <2>2, <2>3 DEF True
    <3>4. \A i \in DOMAIN log : log[i].id \in Msgs /\ log[i].label \in Labels
      BY Entry
    <3>5. ASSUME NEW i \in DOMAIN log', log'[i].kind = "lost", On(srv', log'[i].id, log'[i].label)
          PROVE  \E j \in DOMAIN log' : j > i /\ log'[j].id = log'[i].id /\
                     log'[j].kind = "gained" /\ log'[j].label = log'[i].label
      <4>1. CASE log'[i].id = m /\ log'[i].label = l
        BY <1>1, <2>2, <2>3, <3>5, <4>1
      <4>2. CASE ~(log'[i].id = m /\ log'[i].label = l)
        <5>1. i \in DOMAIN log /\ log'[i] = log[i] /\ On(srv, log[i].id, log[i].label)
          BY <1>1, <2>2, <2>3, <3>4, <3>5, <4>2
        <5> QED
          BY <2>2, <3>5, <5>1 DEF True
      <4> QED
        BY <4>1, <4>2
    <3>6. ASSUME NEW i \in DOMAIN log', log'[i].kind = "gained", ~On(srv', log'[i].id, log'[i].label)
          PROVE  \E j \in DOMAIN log' : j > i /\ log'[j].id = log'[i].id /\
                     (log'[j].kind = "deleted" \/ (log'[j].kind = "lost" /\ log'[j].label = log'[i].label))
      <4>1. CASE log'[i].id = m /\ log'[i].label = l
        BY <1>1, <2>2, <2>3, <3>6, <4>1
      <4>2. CASE ~(log'[i].id = m /\ log'[i].label = l)
        <5>1. i \in DOMAIN log /\ log'[i] = log[i] /\ ~On(srv, log[i].id, log[i].label)
          BY <1>1, <2>2, <2>3, <3>4, <3>6, <4>2
        <5> QED
          BY <2>2, <3>6, <5>1 DEF True
      <4> QED
        BY <4>1, <4>2
    <3> QED
      BY <3>1, <3>2, <3>3, <3>5, <3>6 DEF True
  <2>8. \A i \in DOMAIN log' : i > Len(log) => log'[i].id = m /\ log'[i].label = l
    BY <2>2, <2>3
  <2> QED
    BY <1>1, <2>2, <2>5, <2>7, <2>8 DEF GoesOn
<1> QED
  BY <1>3, <1>4

LEMMA DeletesGoOn ==
  ASSUME Server, NEW m \in Msgs, m \in srv.there, ServerDeletes(m), "inbox" \in Labels
  PROVE  /\ GoesOn
         /\ srv'.there = srv.there \ {m}
         /\ \A n \in Msgs, k \in Labels : On(srv', n, k) <=> n # m /\ On(srv, n, k)
         /\ \A i \in DOMAIN log' : i > Len(log) => log'[i].id = m
<1> DEFINE e == [kind |-> "deleted", id |-> m, label |-> "inbox"]
<1> USE DEF Server, Histories
<1>1. /\ srv' \in Mail /\ srv'.there = srv.there \ {m}
      /\ \A n \in Msgs, k \in Labels : On(srv', n, k) <=> n # m /\ On(srv, n, k)
  BY DropWrites DEF ServerDeletes
<1>2. e \in Change
  BY DEF Change
<1>3. log' = Append(log, e)
  BY DEF ServerDeletes, Record
<1> HIDE DEF e
<1>4. /\ log' \in Histories /\ Len(log') = Len(log) + 1 /\ Len(log) \in Nat
      /\ DOMAIN log' = DOMAIN log \cup {Len(log) + 1} /\ DOMAIN log = 1..Len(log)
      /\ log'[Len(log) + 1] = e
      /\ \A i \in DOMAIN log : log'[i] = log[i]
  BY <1>2, <1>3, Recorded
<1>5. e.kind = "deleted" /\ e.id = m
  BY DEF e
<1>6. \E i \in DOMAIN log' : i > Len(log) /\ log'[i].id = m /\ log'[i].kind = "deleted"
  BY <1>4, <1>5
<1>7. Later(log, srv, log', srv')
  BY <1>1, <1>4, <1>6 DEF Later, Told, Moved
<1>8. \A n : Came(log, n) => Came(log', n)
  BY <1>4 DEF Came
<1>9. True(log', srv')
  <2>1. /\ \A n \in srv'.there : Came(log', n)
        /\ \A i \in DOMAIN log' : Came(log', log'[i].id)
    BY <1>1, <1>4, <1>5, <1>8 DEF True
  <2>2. \A i \in DOMAIN log' : log'[i].kind = "deleted" => log'[i].id \notin srv'.there
    BY <1>1, <1>4, <1>5 DEF True
  <2>3. \A i \in DOMAIN log' : log'[i].kind = "added" /\ log'[i].id \notin srv'.there =>
          \E j \in DOMAIN log' : j > i /\ log'[j].id = log'[i].id /\ log'[j].kind = "deleted"
    BY <1>1, <1>4, <1>5 DEF True
  <2>4. \A i \in DOMAIN log : log[i].id \in Msgs /\ log[i].label \in Labels
    BY Entry
  <2>5. ASSUME NEW i \in DOMAIN log', log'[i].kind = "lost", On(srv', log'[i].id, log'[i].label)
        PROVE  \E j \in DOMAIN log' : j > i /\ log'[j].id = log'[i].id /\
                   log'[j].kind = "gained" /\ log'[j].label = log'[i].label
    <3>1. i \in DOMAIN log /\ log'[i] = log[i] /\ On(srv, log[i].id, log[i].label)
      BY <1>1, <1>4, <1>5, <2>4, <2>5
    <3> QED
      BY <1>4, <2>5, <3>1 DEF True
  <2>6. ASSUME NEW i \in DOMAIN log', log'[i].kind = "gained", ~On(srv', log'[i].id, log'[i].label)
        PROVE  \E j \in DOMAIN log' : j > i /\ log'[j].id = log'[i].id /\
                   (log'[j].kind = "deleted" \/ (log'[j].kind = "lost" /\ log'[j].label = log'[i].label))
    <3>1. i \in DOMAIN log /\ log'[i] = log[i]
      BY <1>4, <1>5, <2>6
    <3>2. CASE log[i].id = m
      BY <1>4, <1>5, <3>1, <3>2
    <3>3. CASE log[i].id # m
      <4>1. ~On(srv, log[i].id, log[i].label)
        BY <1>1, <2>4, <2>6, <3>1, <3>3
      <4> QED
        BY <1>4, <2>6, <3>1, <4>1 DEF True
    <3> QED
      BY <3>2, <3>3
  <2> QED
    BY <2>1, <2>2, <2>3, <2>5, <2>6 DEF True
<1>10. \A i \in DOMAIN log' : i > Len(log) => log'[i].id = m
  BY <1>4, <1>5
<1> QED
  BY <1>1, <1>4, <1>7, <1>9, <1>10 DEF GoesOn

LEMMA ArrivesGoesOn ==
  ASSUME Server, NEW m \in Msgs, Arrives(m), "inbox" \in Labels
  PROVE  /\ GoesOn
         /\ m \notin srv.there
         /\ srv'.there = srv.there \cup {m}
         /\ \A n \in Msgs, k \in Labels : n # m => (On(srv', n, k) <=> On(srv, n, k))
         /\ \A i \in DOMAIN log' : i > Len(log) => log'[i].id = m
<1> DEFINE e == [kind |-> "added", id |-> m, label |-> "inbox"]
<1> USE DEF Server, Histories
<1>1. ~Came(log, m) /\ m \notin srv.there
  BY DEF Arrives, Came, True
<1>2. \A k \in Labels : ~On(srv, m, k)
  BY <1>1 DEF On, Mail
<1>3. srv'.there = srv.there \cup {m} /\ srv'.on = srv.on \cup {<<m, "inbox">>}
  BY DEF Arrives
<1>4. srv' \in Mail
  BY DEF Arrives, Mail
<1>5. \A n \in Msgs, k \in Labels : n # m => (On(srv', n, k) <=> On(srv, n, k))
  BY <1>3 DEF On
<1>6. e \in Change
  BY DEF Change
<1>7. log' = Append(log, e)
  BY DEF Arrives, Record
<1> HIDE DEF e
<1>8. /\ log' \in Histories /\ Len(log') = Len(log) + 1 /\ Len(log) \in Nat
      /\ DOMAIN log' = DOMAIN log \cup {Len(log) + 1} /\ DOMAIN log = 1..Len(log)
      /\ log'[Len(log) + 1] = e
      /\ \A i \in DOMAIN log : log'[i] = log[i]
  BY <1>6, <1>7, Recorded
<1>9. e.kind = "added" /\ e.id = m
  BY DEF e
<1>10. \E i \in DOMAIN log' : i > Len(log) /\ log'[i].id = m /\ log'[i].kind = "added"
  BY <1>8, <1>9
<1>11. Later(log, srv, log', srv')
  BY <1>3, <1>5, <1>8, <1>10 DEF Later, Told, Moved
<1>12. Came(log', m) /\ \A n : Came(log, n) => Came(log', n)
  BY <1>8, <1>10 DEF Came
<1>13. \A i \in DOMAIN log : log[i].id # m /\ log[i].id \in Msgs /\ log[i].label \in Labels
  BY <1>1, Entry DEF True
<1>14. True(log', srv')
  <2>1. /\ \A n \in srv'.there : Came(log', n)
        /\ \A i \in DOMAIN log' : Came(log', log'[i].id)
    BY <1>3, <1>8, <1>9, <1>12 DEF True
  <2>2. \A i \in DOMAIN log' : log'[i].kind = "deleted" => log'[i].id \notin srv'.there
    BY <1>3, <1>8, <1>9, <1>13 DEF True
  <2>3. \A i \in DOMAIN log' : log'[i].kind = "added" /\ log'[i].id \notin srv'.there =>
          \E j \in DOMAIN log' : j > i /\ log'[j].id = log'[i].id /\ log'[j].kind = "deleted"
    BY <1>3, <1>8, <1>9 DEF True
  <2>4. ASSUME NEW i \in DOMAIN log', log'[i].kind # "added"
        PROVE  /\ i \in DOMAIN log /\ log'[i] = log[i]
               /\ On(srv', log[i].id, log[i].label) <=> On(srv, log[i].id, log[i].label)
    BY <1>5, <1>8, <1>9, <1>13, <2>4
  <2>5. ASSUME NEW i \in DOMAIN log', log'[i].kind = "lost", On(srv', log'[i].id, log'[i].label)
        PROVE  \E j \in DOMAIN log' : j > i /\ log'[j].id = log'[i].id /\
                   log'[j].kind = "gained" /\ log'[j].label = log'[i].label
    BY <1>8, <2>4, <2>5 DEF True
  <2>6. ASSUME NEW i \in DOMAIN log', log'[i].kind = "gained", ~On(srv', log'[i].id, log'[i].label)
        PROVE  \E j \in DOMAIN log' : j > i /\ log'[j].id = log'[i].id /\
                   (log'[j].kind = "deleted" \/ (log'[j].kind = "lost" /\ log'[j].label = log'[i].label))
    BY <1>8, <2>4, <2>6 DEF True
  <2> QED
    BY <2>1, <2>2, <2>3, <2>5, <2>6 DEF True
<1>15. \A i \in DOMAIN log' : i > Len(log) => log'[i].id = m
  BY <1>8, <1>9
<1> QED
  BY <1>1, <1>3, <1>4, <1>5, <1>8, <1>11, <1>14, <1>15 DEF GoesOn

----------------------------------------------------------------------------
(* The replay's changes, one upon the other.                               *)

Less == {ss \in Nat \X Nat : ss[1] < ss[2]}

LEMMA LessFounded == IsWellFoundedOn(Less, Nat)
BY NatLessThanWellFounded DEF OpToRel, Less

LEMMA LeastOf ==
  ASSUME NEW S \in SUBSET Nat, S # {}
  PROVE  \E x \in S : \A y \in S : x <= y
<1>1. PICK x \in S : \A y \in S : <<y, x>> \notin Less
  BY LessFounded, WFMin
<1>2. ASSUME NEW y \in S PROVE x <= y
  <2>1. x \in Nat /\ y \in Nat /\ <<y, x>> \notin Less
    BY <1>1
  <2> QED
    BY <2>1 DEF Less
<1> QED
  BY <1>2

\* What stands after each of the batch's changes.
Upon(f, n) == f = [i \in 0..n |->
    IF i = 0 THEN mail ELSE Written(f[i - 1], log[cur.state + i], mail.there)]

LEMMA UponIs ==
  ASSUME NEW n \in Nat
  PROVE  \E f : Upon(f, n)
<1> DEFINE S == {k \in Nat : ~\E f : Upon(f, k)}
<1> SUFFICES ASSUME S # {} PROVE FALSE
  OBVIOUS
<1>1. PICK k \in S : \A y \in S : k <= y
  BY LeastOf
<1>2. k # 0
  <2> DEFINE f == [i \in 0..0 |-> mail]
  <2>1. Upon(f, 0)
    BY DEF Upon
  <2> QED
    BY <2>1
<1>3. PICK g : Upon(g, k - 1)
  <2>1. k - 1 \in Nat /\ k - 1 \notin S
    BY <1>1, <1>2
  <2> QED
    BY <2>1
<1> DEFINE f == [i \in 0..k |->
        IF i = k THEN Written(g[k - 1], log[cur.state + k], mail.there) ELSE g[i]]
<1>4. Upon(f, k)
  <2>1. \A i \in 0..(k - 1) : f[i] = g[i]
    BY <1>1
  <2>2. ASSUME NEW i \in 0..k
        PROVE  f[i] = IF i = 0 THEN mail ELSE Written(f[i - 1], log[cur.state + i], mail.there)
    <3>1. CASE i = k
      <4>1. f[k - 1] = g[k - 1]
        BY <1>1, <1>2, <2>1
      <4> QED
        BY <1>2, <3>1, <4>1
    <3>2. CASE i # k
      <4>1. i \in 0..(k - 1)
        BY <1>1, <3>2
      <4>2. g[i] = IF i = 0 THEN mail ELSE Written(g[i - 1], log[cur.state + i], mail.there)
        BY <1>3, <4>1 DEF Upon
      <4>3. CASE i = 0
        BY <2>1, <4>1, <4>2, <4>3
      <4>4. CASE i # 0
        <5>1. i - 1 \in 0..(k - 1)
          BY <4>1, <4>4
        <5> QED
          BY <2>1, <4>1, <4>2, <4>4, <5>1
      <4> QED
        BY <4>3, <4>4
    <3> QED
      BY <3>1, <3>2
  <2> QED
    BY <2>2 DEF Upon
<1> QED
  BY <1>1, <1>4

LEMMA AppliedIs ==
  ASSUME NEW n \in Nat, eng.upTo - cur.state = n
  PROVE  \E f : Upon(f, n) /\ Applied = f[n]
<1> DEFINE f == CHOOSE f : Upon(f, n)
<1>1. Upon(f, n)
  BY UponIs
<1>2. Applied = f[n]
  BY DEF Applied, Upon
<1> QED
  BY <1>1, <1>2

\* The person's own change, on its way to the server or being taken back, is
\* why the store says otherwise of this label.
Ahead(m, l) ==
    \E w \in Writers :
        /\ act[w].pc \in {"send", "back"} /\ act[w].label = l
        /\ m \in NotTaken(w) /\ (On(srv, m, l) <=> ~act[w].on)

FitsBut(c, m, s) ==
    /\ Place(log, srv, c.there, m, s)
    /\ \A l \in Labels : Same(log, srv, c, m, l, s) \/ Ahead(m, l)

LEMMA Earlier ==
  ASSUME log \in Histories, NEW s \in Int, NEW t \in Int, s <= t, NEW m
  PROVE  /\ Moved(log, m, t) => Moved(log, m, s)
         /\ \A l : Told(log, m, l, t) => Told(log, m, l, s)
BY DEF Moved, Told, Histories

LEMMA NextEntry ==
  ASSUME log \in Histories, NEW s \in Nat, NEW m
  PROVE  /\ Moved(log, m, s) =>
               Moved(log, m, s + 1) \/ (log[s + 1].id = m /\ log[s + 1].kind \in {"added", "deleted"})
         /\ \A l : Told(log, m, l, s) =>
               \/ Told(log, m, l, s + 1)
               \/ log[s + 1].id = m /\ (log[s + 1].kind \in {"added", "deleted"} \/ log[s + 1].label = l)
<1>1. \A i \in DOMAIN log : i > s => i > s + 1 \/ i = s + 1
  BY DEF Histories
<1> QED
  BY <1>1 DEF Moved, Told

\* The changes from one place to another name this message, as one to fetch.
Names(h, held, s, t, m) ==
    \E i \in (s + 1)..t :
        /\ h[i].id = m
        /\ h[i].kind = "added" \/ (h[i].kind = "gained" /\ h[i].label = "inbox" /\ m \notin held)

\* A batch: the engine holds the changes up to a place the history has, and
\* what the server has of the messages they name.
Batch ==
    /\ Server /\ mail \in Mail /\ eng.got \in Mail
    /\ cur.state \in Nat /\ eng.upTo \in Nat /\ cur.state <= eng.upTo /\ eng.upTo <= Len(log)
    /\ \A m \in Msgs : m \in eng.want <=> Names(log, mail.there, cur.state, eng.upTo, m)
    /\ eng.want \subseteq Msgs /\ eng.got.there \subseteq eng.want
    /\ \A m \in eng.want : Fits(log, srv, eng.got, m, eng.upTo)

\* The entry writes what the server has of the message.
Upserts(e, m) ==
    /\ e.id = m /\ m \in eng.got.there
    /\ e.kind = "added" \/ (e.kind = "gained" /\ m \notin mail.there)

LEMMA WantedIs ==
  ASSUME log \in Histories, NEW s \in Nat, NEW t \in Nat, s <= t, t <= Len(log), NEW m
  PROVE  m \in Wanted(Entries(s, t)) <=> Names(log, mail.there, s, t, m)
<1> DEFINE es == Entries(s, t)
           IsSuch(e) ==
               /\ e.id = m
               /\ e.kind = "added" \/ (e.kind = "gained" /\ e.label = "inbox" /\ m \notin mail.there)
<1>1. DOMAIN es = 1..(t - s) /\ \A j \in 1..(t - s) : es[j] = log[s + j]
  BY DEF Entries, Histories
<1>2. m \in Wanted(es) <=> \E j \in DOMAIN es : IsSuch(es[j])
  BY DEF Wanted
<1>3. Names(log, mail.there, s, t, m) <=> \E i \in (s + 1)..t : IsSuch(log[i])
  BY DEF Names
<1> HIDE DEF es, IsSuch
<1>4. ASSUME NEW j \in DOMAIN es, IsSuch(es[j])
      PROVE  \E i \in (s + 1)..t : IsSuch(log[i])
  <2>1. s + j \in (s + 1)..t /\ es[j] = log[s + j]
    BY <1>1
  <2> QED
    BY <1>4, <2>1
<1>5. ASSUME NEW i \in (s + 1)..t, IsSuch(log[i])
      PROVE  \E j \in DOMAIN es : IsSuch(es[j])
  <2>1. i - s \in DOMAIN es /\ s + (i - s) = i
    BY <1>1
  <2>2. es[i - s] = log[i]
    BY <1>1, <2>1
  <2> QED
    BY <1>5, <2>1, <2>2
<1> QED
  BY <1>2, <1>3, <1>4, <1>5 DEF es

\* A message of which nothing is there agrees as soon as its place does.
LEMMA AbsentFits ==
  ASSUME Server, NEW c \in Mail, NEW m \in Msgs, m \notin c.there, NEW s,
         Place(log, srv, c.there, m, s)
  PROVE  FitsBut(c, m, s)
<1>1. \A l \in Labels : ~On(c, m, l)
  BY OnIsThere
<1>2. m \notin srv.there => \A l \in Labels : ~On(srv, m, l)
  BY OnIsThere DEF Server
<1>3. Moved(log, m, s) => \A l \in Labels : Told(log, m, l, s)
  BY DEF Moved, Told
<1> QED
  BY <1>1, <1>2, <1>3 DEF FitsBut, Place, Same

LEMMA WrittenFits ==
  ASSUME Batch, NEW c \in Mail, NEW i \in Nat, cur.state <= i, i < eng.upTo,
         c.there \subseteq mail.there \cup eng.got.there
  PROVE  LET e == log[i + 1]
             d == Written(c, e, mail.there)
         IN /\ d \in Mail /\ d.there \subseteq mail.there \cup eng.got.there
            /\ \A m \in Msgs : FitsBut(c, m, i) \/ Upserts(e, m) => FitsBut(d, m, i + 1)
<1> DEFINE e == log[i + 1]
           d == Written(c, e, mail.there)
<1>1. /\ i + 1 \in DOMAIN log /\ i + 1 \in Nat /\ i + 1 <= eng.upTo /\ log \in Histories
      /\ i + 1 \in (cur.state + 1)..eng.upTo
  BY DEF Batch, Server, Histories
<1>2. /\ e \in Change /\ e.id \in Msgs /\ e.label \in Labels
      /\ e.kind \in {"added", "deleted", "gained", "lost"}
  BY <1>1, Entry
<1>3. /\ e.kind = "added" => d = Upsert(c, eng.got, {e.id})
      /\ e.kind = "deleted" => d = Drop(c, {e.id})
      /\ e.kind = "gained" /\ e.id \in mail.there => d = Label(c, {e.id}, e.label, TRUE)
      /\ e.kind = "gained" /\ e.id \notin mail.there => d = Upsert(c, eng.got, {e.id})
      /\ e.kind = "lost" => d = Label(c, {e.id}, e.label, FALSE)
  BY DEF Written
<1> HIDE DEF e, d
<1>4. eng.got \in Mail /\ mail \in Mail /\ srv \in Mail
  BY DEF Batch, Server
<1>5. /\ Upsert(c, eng.got, {e.id}) \in Mail
      /\ Upsert(c, eng.got, {e.id}).there = c.there \cup ({e.id} \cap eng.got.there)
      /\ \A m \in Msgs, l \in Labels : On(Upsert(c, eng.got, {e.id}), m, l) <=>
            IF m \in {e.id} \cap eng.got.there THEN On(eng.got, m, l) ELSE On(c, m, l)
  BY <1>4, UpsertWrites
<1>6. /\ Drop(c, {e.id}) \in Mail
      /\ Drop(c, {e.id}).there = c.there \ {e.id}
      /\ \A m \in Msgs, l \in Labels : On(Drop(c, {e.id}), m, l) <=> m \notin {e.id} /\ On(c, m, l)
  BY DropWrites
<1>7. \A on \in BOOLEAN :
      /\ Label(c, {e.id}, e.label, on) \in Mail
      /\ Label(c, {e.id}, e.label, on).there = c.there
      /\ \A m \in Msgs, k \in Labels : On(Label(c, {e.id}, e.label, on), m, k) <=>
            IF m \in {e.id} \cap c.there /\ k = e.label THEN on ELSE On(c, m, k)
  BY <1>2, LabelWrites
<1>8. d \in Mail /\ d.there \subseteq mail.there \cup eng.got.there
  BY <1>2, <1>3, <1>5, <1>6, <1>7
<1>9. ASSUME NEW m \in Msgs
      PROVE  /\ Moved(log, m, i) => Moved(log, m, i + 1) \/ (e.id = m /\ e.kind \in {"added", "deleted"})
             /\ \A l : Told(log, m, l, i) =>
                   \/ Told(log, m, l, i + 1)
                   \/ e.id = m /\ (e.kind \in {"added", "deleted"} \/ e.label = l)
  BY <1>1, NextEntry DEF e
<1>10. ASSUME NEW m \in Msgs, e.id # m, FitsBut(c, m, i)
       PROVE  FitsBut(d, m, i + 1)
  <2>1. (m \in d.there <=> m \in c.there) /\ \A l \in Labels : On(d, m, l) <=> On(c, m, l)
    <3>1. \A on \in BOOLEAN, l \in Labels :
             On(Label(c, {e.id}, e.label, on), m, l) <=> On(c, m, l)
      BY <1>7, <1>10
    <3>2. CASE e.kind = "added" \/ (e.kind = "gained" /\ e.id \notin mail.there)
      <4>1. d = Upsert(c, eng.got, {e.id})
        BY <1>3, <3>2
      <4>2. m \notin {e.id}
        BY <1>10
      <4> QED
        BY <1>5, <4>1, <4>2
    <3>3. CASE e.kind = "deleted"
      BY <1>3, <1>6, <1>10, <3>3
    <3>4. CASE e.kind = "gained" /\ e.id \in mail.there
      BY <1>3, <1>7, <3>1, <3>4
    <3>5. CASE e.kind = "lost"
      BY <1>3, <1>7, <3>1, <3>5
    <3> QED
      BY <1>2, <3>2, <3>3, <3>4, <3>5
  <2> QED
    BY <1>9, <1>10, <2>1 DEF FitsBut, Place, Same
<1>11. ASSUME NEW m \in Msgs, e.id = m, m \in eng.got.there, d = Upsert(c, eng.got, {e.id})
       PROVE  FitsBut(d, m, i + 1)
  <2>1. Fits(log, srv, eng.got, m, eng.upTo)
    BY <1>11 DEF Batch
  <2>2. m \in d.there /\ \A l \in Labels : On(d, m, l) <=> On(eng.got, m, l)
    BY <1>5, <1>11
  <2>3. /\ Moved(log, m, eng.upTo) => Moved(log, m, i + 1)
        /\ \A l : Told(log, m, l, eng.upTo) => Told(log, m, l, i + 1)
    BY <1>1, Earlier DEF Batch
  <2> QED
    BY <1>11, <2>1, <2>2, <2>3 DEF Fits, FitsBut, Place, Same
<1>12. ASSUME NEW m \in Msgs, e.id = m, e.kind = "added", m \notin eng.got.there, FitsBut(c, m, i)
       PROVE  FitsBut(d, m, i + 1)
  <2>1. m \in eng.want
    BY <1>1, <1>12 DEF Batch, Names, e
  <2>2. Fits(log, srv, eng.got, m, eng.upTo)
    BY <2>1 DEF Batch
  <2>3. m \notin srv.there \/ Moved(log, m, i + 1)
    BY <1>1, <1>12, <2>2, Earlier DEF Fits, Place, Batch
  <2>4. m \notin srv.there => \E j \in DOMAIN log : j > i + 1 /\ log[j].id = m /\ log[j].kind = "deleted"
    BY <1>1, <1>12 DEF Batch, Server, True, e
  <2>5. Moved(log, m, i + 1)
    BY <2>3, <2>4 DEF Moved
  <2>6. \A l : Told(log, m, l, i + 1)
    BY <2>5 DEF Moved, Told
  <2> QED
    BY <2>5, <2>6 DEF FitsBut, Place, Same
<1>13. ASSUME NEW m \in Msgs, e.id = m, e.kind = "deleted"
       PROVE  FitsBut(d, m, i + 1)
  <2>1. m \notin d.there /\ m \notin srv.there
    BY <1>1, <1>3, <1>6, <1>13 DEF Batch, Server, True, e
  <2> QED
    BY <1>8, <2>1, AbsentFits DEF Batch, Place
<1>14. ASSUME NEW m \in Msgs, e.id = m, e.kind \in {"gained", "lost"}, FitsBut(c, m, i),
              m \in d.there <=> m \in c.there,
              m \in c.there => \A l \in Labels : On(d, m, l) <=> IF l = e.label THEN e.kind = "gained" ELSE On(c, m, l)
       PROVE  FitsBut(d, m, i + 1)
  <2>1. Place(log, srv, d.there, m, i + 1)
    BY <1>9, <1>14 DEF FitsBut, Place
  <2>2. CASE m \notin d.there
    BY <1>8, <2>1, <2>2, AbsentFits DEF Batch
  <2>3. CASE m \in d.there
    <3>1. \A l \in Labels : l # e.label => Same(log, srv, d, m, l, i + 1) \/ Ahead(m, l)
      BY <1>9, <1>14, <2>3 DEF FitsBut, Same
    <3>2. (On(srv, m, e.label) <=> e.kind = "gained") \/ Told(log, m, e.label, i + 1)
      <4>1. CASE e.kind = "gained"
        <5>1. ~On(srv, m, e.label) => \E j \in DOMAIN log : j > i + 1 /\ log[j].id = m /\
                (log[j].kind = "deleted" \/ (log[j].kind = "lost" /\ log[j].label = e.label))
          BY <1>1, <1>14, <4>1 DEF Batch, Server, True, e
        <5> QED
          BY <4>1, <5>1 DEF Told
      <4>2. CASE e.kind = "lost"
        <5>1. On(srv, m, e.label) => \E j \in DOMAIN log : j > i + 1 /\ log[j].id = m /\
                log[j].kind = "gained" /\ log[j].label = e.label
          BY <1>1, <1>14, <4>2 DEF Batch, Server, True, e
        <5> QED
          BY <4>2, <5>1 DEF Told
      <4> QED
        BY <1>14, <4>1, <4>2
    <3>3. Same(log, srv, d, m, e.label, i + 1)
      BY <1>2, <1>14, <2>3, <3>2 DEF Same
    <3> QED
      BY <2>1, <3>1, <3>3 DEF FitsBut
  <2> QED
    BY <2>2, <2>3
<1>15. ASSUME NEW m \in Msgs, FitsBut(c, m, i) \/ Upserts(e, m)
       PROVE  FitsBut(d, m, i + 1)
  <2>1. CASE e.id # m
    BY <1>10, <1>15, <2>1 DEF Upserts
  <2>2. CASE e.id = m /\ e.kind = "added"
    BY <1>3, <1>11, <1>12, <1>15, <2>2 DEF Upserts
  <2>3. CASE e.id = m /\ e.kind = "deleted"
    BY <1>13, <2>3
  <2>4. CASE e.id = m /\ e.kind = "gained" /\ m \in mail.there
    BY <1>3, <1>7, <1>14, <1>15, <2>4 DEF Upserts
  <2>5. CASE e.id = m /\ e.kind = "gained" /\ m \notin mail.there
    <3>1. CASE m \in eng.got.there
      BY <1>3, <1>11, <2>5, <3>1
    <3>2. CASE m \notin eng.got.there
      <4>1. m \notin c.there /\ m \notin d.there
        BY <1>8, <2>5, <3>2
      <4> QED
        BY <1>14, <1>15, <2>5, <3>2, <4>1 DEF Upserts
    <3> QED
      BY <3>1, <3>2
  <2>6. CASE e.id = m /\ e.kind = "lost"
    BY <1>3, <1>7, <1>14, <1>15, <2>6 DEF Upserts
  <2> QED
    BY <1>2, <2>1, <2>2, <2>3, <2>4, <2>5, <2>6
<1> QED
  BY <1>8, <1>15 DEF e, d

LEMMA BatchSteps ==
  ASSUME Batch, NEW n \in Nat, n = eng.upTo - cur.state, NEW f, Upon(f, n)
  PROVE  \A k \in 0..n :
           /\ f[k] \in Mail /\ f[k].there \subseteq mail.there \cup eng.got.there
           /\ \A m \in Msgs :
                 \/ FitsBut(mail, m, cur.state)
                 \/ \E j \in 1..k : Upserts(log[cur.state + j], m)
                 => FitsBut(f[k], m, cur.state + k)
<1> DEFINE Good(k) ==
             /\ f[k] \in Mail /\ f[k].there \subseteq mail.there \cup eng.got.there
             /\ \A m \in Msgs :
                   \/ FitsBut(mail, m, cur.state)
                   \/ \E j \in 1..k : Upserts(log[cur.state + j], m)
                   => FitsBut(f[k], m, cur.state + k)
           S == {k \in 0..n : ~Good(k)}
<1> SUFFICES ASSUME S # {} PROVE FALSE
  OBVIOUS
<1> HIDE DEF Good
<1>1. PICK k \in S : \A y \in S : k <= y
  <2>1. S \in SUBSET Nat
    OBVIOUS
  <2> QED
    BY <2>1, LeastOf
<1>2. CASE k = 0
  <2>1. f[0] = mail
    BY DEF Upon
  <2>2. cur.state + 0 = cur.state /\ mail \in Mail
    BY DEF Batch
  <2>3. Good(0)
    BY <2>1, <2>2 DEF Good
  <2> QED
    BY <1>1, <1>2, <2>3
<1>3. CASE k # 0
  <2> DEFINE i == cur.state + (k - 1)
             e == log[i + 1]
  <2>1. k - 1 \in 0..n /\ k \in 0..n /\ k - 1 \notin S
    BY <1>1, <1>3
  <2>2. Good(k - 1)
    BY <2>1
  <2>3. i \in Nat /\ cur.state <= i /\ i < eng.upTo /\ i + 1 = cur.state + k
    BY <2>1 DEF Batch
  <2>4. f[k] = Written(f[k - 1], e, mail.there)
    BY <1>3, <2>1, <2>3 DEF Upon
  <2> HIDE DEF i, e
  <2>5. /\ f[k] \in Mail /\ f[k].there \subseteq mail.there \cup eng.got.there
        /\ \A m \in Msgs : FitsBut(f[k - 1], m, i) \/ Upserts(e, m) => FitsBut(f[k], m, i + 1)
    BY <2>2, <2>3, <2>4, WrittenFits DEF e, Good
  <2>6. ASSUME NEW m \in Msgs,
               FitsBut(mail, m, cur.state) \/ \E j \in 1..k : Upserts(log[cur.state + j], m)
        PROVE  FitsBut(f[k - 1], m, i) \/ Upserts(e, m)
    <3>1. \A j \in 1..k : j = k \/ j \in 1..(k - 1)
      BY <2>1
    <3>2. CASE Upserts(log[cur.state + k], m)
      BY <2>3, <3>2 DEF e
    <3>3. CASE ~Upserts(log[cur.state + k], m)
      <4>1. FitsBut(f[k - 1], m, cur.state + (k - 1))
        BY <2>2, <2>6, <3>1, <3>3 DEF Good
      <4> QED
        BY <4>1 DEF i
    <3> QED
      BY <3>2, <3>3
  <2>7. Good(k)
    BY <2>3, <2>5, <2>6 DEF Good
  <2> QED
    BY <1>1, <2>7
<1> QED
  BY <1>2, <1>3

LEMMA AppliedFits ==
  ASSUME Batch
  PROVE  /\ Applied \in Mail
         /\ \A m \in Msgs : FitsBut(mail, m, cur.state) \/ m \in eng.got.there
               => FitsBut(Applied, m, eng.upTo)
<1> DEFINE n == eng.upTo - cur.state
<1>1. n \in Nat /\ cur.state + n = eng.upTo
  BY DEF Batch
<1>2. PICK f : Upon(f, n) /\ Applied = f[n]
  BY <1>1, AppliedIs
<1>3. /\ f[n] \in Mail
      /\ \A m \in Msgs :
            \/ FitsBut(mail, m, cur.state)
            \/ \E j \in 1..n : Upserts(log[cur.state + j], m)
            => FitsBut(f[n], m, cur.state + n)
  BY <1>1, <1>2, BatchSteps
<1>4. ASSUME NEW m \in Msgs, m \in eng.got.there
      PROVE  \E j \in 1..n : Upserts(log[cur.state + j], m)
  <2>1. Names(log, mail.there, cur.state, eng.upTo, m)
    BY <1>4 DEF Batch
  <2>2. PICK i \in (cur.state + 1)..eng.upTo :
            /\ log[i].id = m
            /\ log[i].kind = "added" \/ (log[i].kind = "gained" /\ m \notin mail.there)
    BY <2>1 DEF Names
  <2>3. i - cur.state \in 1..n /\ cur.state + (i - cur.state) = i
    BY DEF Batch
  <2>4. Upserts(log[cur.state + (i - cur.state)], m)
    BY <1>4, <2>2, <2>3 DEF Upserts
  <2> QED
    BY <2>3, <2>4
<1> QED
  BY <1>1, <1>2, <1>3, <1>4

\* What a person had the server take is what some mail says.
Says(c, m, l, on) == m \in c.there => (On(c, m, l) <=> on)

\* The entry says what the person asked, or the opposite.
Grants(e, m, l, on) == e.id = m /\ e.label = l /\ e.kind = IF on THEN "gained" ELSE "lost"
Opposes(e, m, l, on) == e.id = m /\ e.label = l /\ e.kind = IF on THEN "lost" ELSE "gained"

LEMMA AppliedSays ==
  ASSUME Batch, NEW m \in Msgs, NEW l \in Labels, NEW on \in BOOLEAN,
         m \in srv.there, On(srv, m, l) <=> on, Says(eng.got, m, l, on),
         \A i \in DOMAIN log : i > eng.upTo => ~Grants(log[i], m, l, on),
         Says(mail, m, l, on)
  PROVE  Says(Applied, m, l, on)
<1> DEFINE n == eng.upTo - cur.state
           Due(k) == \E j \in 1..n : j > k /\ Grants(log[cur.state + j], m, l, on)
<1>1. n \in Nat /\ cur.state + n = eng.upTo /\ cur.state \in Nat /\ eng.upTo <= Len(log)
  BY DEF Batch
<1>2. PICK f : Upon(f, n) /\ Applied = f[n]
  BY <1>1, AppliedIs
<1> DEFINE Good(k) == Says(f[k], m, l, on) \/ Due(k)
           S == {k \in 0..n : ~Good(k)}
<1>3. ASSUME NEW i \in DOMAIN log, Opposes(log[i], m, l, on)
      PROVE  \E j \in DOMAIN log : j > i /\ Grants(log[j], m, l, on)
  <2>1. CASE on
    BY <1>3, <2>1 DEF Opposes, Grants, Batch, Server, True
  <2>2. CASE ~on
    BY <1>3, <2>2 DEF Opposes, Grants, Batch, Server, True
  <2> QED
    BY <2>1, <2>2
<1>4. ASSUME S # {} PROVE FALSE
  <2> HIDE DEF Good
  <2>1. S \in SUBSET Nat
    OBVIOUS
  <2>2. PICK k \in S : \A y \in S : k <= y
    BY <1>4, <2>1, LeastOf
  <2>3. CASE k = 0
    <3>1. f[0] = mail
      BY <1>1, <1>2 DEF Upon
    <3> QED
      BY <2>2, <2>3, <3>1 DEF Good
  <2>4. CASE k # 0
    <3> DEFINE i == cur.state + k
               e == log[i]
    <3>1. k - 1 \in 0..n /\ k \in 0..n /\ k - 1 \notin S
      BY <1>1, <2>2, <2>4
    <3>2. Good(k - 1)
      BY <3>1
    <3>3. /\ i \in DOMAIN log /\ log \in Histories
          /\ f[k] = Written(f[k - 1], e, mail.there)
          /\ f[k - 1] \in Mail /\ eng.got \in Mail
          /\ f[k - 1].there \subseteq mail.there \cup eng.got.there
      <4>1. i \in DOMAIN log /\ log \in Histories
        BY <1>1, <3>1, <2>4 DEF Batch, Server, Histories
      <4>2. f[k] = Written(f[k - 1], e, mail.there)
        BY <1>2, <2>4, <3>1 DEF Upon
      <4>3. /\ f[k - 1] \in Mail
            /\ f[k - 1].there \subseteq mail.there \cup eng.got.there
        BY <1>1, <1>2, <3>1, BatchSteps
      <4> QED
        BY <4>1, <4>2, <4>3 DEF Batch
    <3>4. e.id \in Msgs /\ e.label \in Labels /\ e.kind \in {"added", "deleted", "gained", "lost"}
      BY <3>3, Entry
    <3>5. Due(k - 1) => Due(k) \/ Grants(e, m, l, on)
      <4>1. \A j \in 1..n : j > k - 1 => j = k \/ j > k
        BY <3>1
      <4> QED
        BY <4>1
    <3>6. Opposes(e, m, l, on) => Due(k)
      <4>1. SUFFICES ASSUME Opposes(e, m, l, on) PROVE Due(k)
        OBVIOUS
      <4>2. PICK j \in DOMAIN log : j > i /\ Grants(log[j], m, l, on)
        BY <1>3, <3>3, <4>1
      <4>3. j \in Int /\ j <= eng.upTo
        BY <1>1, <3>3, <4>2 DEF Histories
      <4>4. j - cur.state \in 1..n /\ j - cur.state > k /\ cur.state + (j - cur.state) = j
        BY <1>1, <3>1, <4>2, <4>3
      <4>5. Grants(log[cur.state + (j - cur.state)], m, l, on)
        BY <4>2, <4>4
      <4> QED
        BY <4>4, <4>5
    <3> HIDE DEF Due, i, e
    <3>7. Says(f[k], m, l, on) \/ Opposes(e, m, l, on)
          \/ ((Says(f[k - 1], m, l, on) => Says(f[k], m, l, on)) /\ ~Grants(e, m, l, on))
      <4>2. CASE e.kind = "added" \/ (e.kind = "gained" /\ e.id \notin mail.there)
        <5>0. f[k] = Upsert(f[k - 1], eng.got, {e.id})
          BY <3>3, <4>2 DEF Written
        <5>1. /\ f[k].there = f[k - 1].there \cup ({e.id} \cap eng.got.there)
              /\ On(f[k], m, l) <=>
                   IF m \in {e.id} \cap eng.got.there THEN On(eng.got, m, l) ELSE On(f[k - 1], m, l)
          BY <3>3, <5>0, UpsertWrites
        <5>2. CASE m \in {e.id} \cap eng.got.there
          <6>1. m \in eng.got.there /\ (On(f[k], m, l) <=> On(eng.got, m, l))
            BY <5>1, <5>2
          <6>2. On(f[k], m, l) <=> on
            BY <6>1 DEF Says
          <6> QED
            BY <6>2 DEF Says
        <5>3. CASE m \notin {e.id} \cap eng.got.there
          <6>1. /\ m \in f[k].there <=> m \in f[k - 1].there
                /\ On(f[k], m, l) <=> On(f[k - 1], m, l)
            BY <5>1, <5>3
          <6>2. Says(f[k - 1], m, l, on) => Says(f[k], m, l, on)
            BY <6>1 DEF Says
          <6>3. CASE ~Grants(e, m, l, on)
            BY <6>2, <6>3
          <6>4. CASE Grants(e, m, l, on)
            <7>1. e.id = m /\ e.id \notin mail.there
              BY <4>2, <6>4 DEF Grants
            <7>2. m \notin f[k].there
              BY <3>3, <5>3, <6>1, <7>1
            <7> QED
              BY <7>2 DEF Says
          <6> QED
            BY <6>3, <6>4
        <5> QED
          BY <5>2, <5>3
      <4>3. CASE e.kind = "deleted"
        <5>1. /\ f[k].there = f[k - 1].there \ {e.id}
              /\ On(f[k], m, l) <=> m # e.id /\ On(f[k - 1], m, l)
          BY <3>3, <4>3, DropWrites DEF Written
        <5> QED
          BY <4>3, <5>1 DEF Says, Grants
      <4>4. CASE (e.kind = "gained" /\ e.id \in mail.there) \/ e.kind = "lost"
        <5> DEFINE c == f[k - 1]
        <5>0. \A b \in BOOLEAN :
              /\ Label(c, {e.id}, e.label, b).there = c.there
              /\ On(Label(c, {e.id}, e.label, b), m, l) <=>
                   IF m \in {e.id} \cap c.there /\ l = e.label THEN b ELSE On(c, m, l)
          <6>1. c \in Mail
            BY <3>3
          <6> HIDE DEF c
          <6>2. \A b \in BOOLEAN :
                /\ Label(c, {e.id}, e.label, b).there = c.there
                /\ \A x \in Msgs, y \in Labels : On(Label(c, {e.id}, e.label, b), x, y) <=>
                      IF x \in {e.id} \cap c.there /\ y = e.label THEN b ELSE On(c, x, y)
            BY <3>4, <6>1, LabelWrites
          <6> QED
            BY <6>2
        <5>1. CASE e.kind = "gained" /\ e.id \in mail.there
          <6>1. f[k] = Label(f[k - 1], {e.id}, e.label, TRUE)
            BY <3>3, <5>1 DEF Written
          <6>2. /\ f[k].there = f[k - 1].there
                /\ On(f[k], m, l) <=>
                     IF m \in {e.id} \cap f[k - 1].there /\ l = e.label THEN TRUE ELSE On(f[k - 1], m, l)
            BY <5>0, <6>1
          <6>3. CASE e.id = m /\ l = e.label
            <7>1. m \in f[k].there => On(f[k], m, l)
              BY <6>2, <6>3
            <7>2. CASE on
              BY <7>1, <7>2 DEF Says
            <7>3. CASE ~on
              BY <5>1, <6>3, <7>3 DEF Opposes
            <7> QED
              BY <7>2, <7>3
          <6>4. CASE ~(e.id = m /\ l = e.label)
            <7>1. /\ m \in f[k].there <=> m \in f[k - 1].there
                  /\ On(f[k], m, l) <=> On(f[k - 1], m, l)
              BY <6>2, <6>4
            <7> QED
              BY <6>4, <7>1 DEF Says, Grants
          <6> QED
            BY <6>3, <6>4
        <5>2. CASE e.kind = "lost"
          <6>1. f[k] = Label(f[k - 1], {e.id}, e.label, FALSE)
            BY <3>3, <5>2 DEF Written
          <6>2. /\ f[k].there = f[k - 1].there
                /\ On(f[k], m, l) <=>
                     IF m \in {e.id} \cap f[k - 1].there /\ l = e.label THEN FALSE ELSE On(f[k - 1], m, l)
            BY <5>0, <6>1
          <6>3. CASE e.id = m /\ l = e.label
            <7>1. m \in f[k].there => ~On(f[k], m, l)
              BY <6>2, <6>3
            <7>2. CASE on
              BY <5>2, <6>3, <7>2 DEF Opposes
            <7>3. CASE ~on
              BY <7>1, <7>3 DEF Says
            <7> QED
              BY <7>2, <7>3
          <6>4. CASE ~(e.id = m /\ l = e.label)
            <7>1. /\ m \in f[k].there <=> m \in f[k - 1].there
                  /\ On(f[k], m, l) <=> On(f[k - 1], m, l)
              BY <6>2, <6>4
            <7> QED
              BY <6>4, <7>1 DEF Says, Grants
          <6> QED
            BY <6>3, <6>4
        <5> QED
          BY <4>4, <5>1, <5>2
      <4> QED
        BY <3>4, <4>2, <4>3, <4>4
    <3>8. Good(k)
      BY <3>2, <3>5, <3>6, <3>7 DEF Good
    <3> QED
      BY <2>2, <3>8
  <2> QED
    BY <2>3, <2>4
<1>5. Good(n)
  BY <1>1, <1>4
<1>6. ~Due(n)
  BY <1>1
<1> QED
  BY <1>2, <1>5, <1>6

----------------------------------------------------------------------------
(* The types, the lock, and what each stage of the engine and of a writer   *)
(* implies.                                                                *)

Engines ==
    [pc : {"idle", "begin", "fetch", "write", "page", "pagewrite", "list", "refetch", "rewrite",
           "differ", "repair"},
     upTo : Int, want : SUBSET Msgs, got : Mail, whole : BOOLEAN]

Actions ==
    [pc : {"idle", "send", "back", "erased"}, todo : SUBSET Msgs, label : Labels, on : BOOLEAN,
     did : SUBSET Msgs, taken : SUBSET Msgs, met : BOOLEAN]

Readings == [pc : {"idle", "write"}, id : Msgs, got : Mail]

Kinds ==
    /\ srv \in Mail /\ mail \in Mail /\ log \in Histories
    /\ floor \in 0..Len(log) /\ gen \in [Msgs -> Nat] /\ cur \in Cursor
    /\ cur.state \in NoState..Len(log)
    /\ lock \in {"free", "engine", "reader"} \cup Writers
    /\ eng \in Engines /\ act \in [Writers -> Actions] /\ reader \in Readings
    /\ asked \in SUBSET (Msgs \X Labels \X BOOLEAN)
    /\ torn \subseteq {"stopped", "met"} /\ acts \in 0..MaxActs /\ faults \in 0..MaxFaults

Locks ==
    /\ lock = "engine" <=> (eng.pc \notin {"idle", "pagewrite"} \/ eng.whole)
    /\ \A w \in Writers : lock = w <=> act[w].pc \in {"send", "erased"}
    /\ lock = "reader" <=> reader.pc = "write"

EngineStages ==
    /\ eng.pc = "idle" => ~eng.whole
    /\ eng.pc = "begin" => eng.upTo \in 0..Len(log)
    /\ eng.pc \in {"fetch", "write"} =>
          cur.state \in Nat /\ eng.upTo \in cur.state..Len(log)
    /\ eng.pc \in {"page", "pagewrite", "list", "refetch", "rewrite"} => cur.state # NoState /\ ~cur.done
    /\ \A m \in Msgs : gen[m] <= cur.gen
    /\ eng.pc \in {"list", "refetch", "rewrite"} => \A m \in Msgs : gen[m] < cur.gen

\* What a writer's action holds is what it has still to do or has done.
Coherent(a) ==
    /\ a.pc \in {"send", "back"} => a.did \subseteq a.todo \cup a.taken
    /\ a.pc \in {"idle", "erased"} => a.did \subseteq a.taken
    /\ a.pc = "send" => a.todo # {}

Deleted(h, m) == \E i \in DOMAIN h : h[i].id = m /\ h[i].kind = "deleted"

WriterStages ==
    /\ \A w \in Writers : Coherent(act[w])
    /\ \A w \in Writers : act[w].pc = "erased" =>
          \A m \in act[w].todo : Deleted(log, m)
    /\ \A w, v \in Writers : act[w].pc = "send" /\ act[v].pc = "back" => act[v].met

Typed == Kinds /\ Locks /\ EngineStages /\ WriterStages /\ True(log, srv)

LEMMA TypedServer == Typed => Server
BY DEF Typed, Kinds, Server

LEMMA TypedIsTypeOK == Typed => TypeOK
BY DEF Typed, Kinds, Locks, TypeOK, Histories

LEMMA AppliedTyped ==
  ASSUME Kinds, cur.state \in Nat, eng.upTo \in cur.state..Len(log)
  PROVE  Applied \in Mail
<1> DEFINE n == eng.upTo - cur.state
<1>1. n \in Nat /\ log \in Histories /\ mail \in Mail /\ eng.got \in Mail
  BY DEF Kinds, Engines, Histories
<1>2. PICK f : Upon(f, n) /\ Applied = f[n]
  BY <1>1, AppliedIs
<1> DEFINE S == {k \in 0..n : f[k] \notin Mail}
<1>3. ASSUME S # {} PROVE FALSE
  <2>0. S \in SUBSET Nat
    BY <1>1
  <2>1. PICK k \in S : \A y \in S : k <= y
    <3> HIDE DEF S
    <3> QED
      BY <1>3, <2>0, LeastOf
  <2>2. f[0] = mail
    BY <1>1, <1>2 DEF Upon
  <2>3. k # 0 /\ k \in 0..n
    BY <1>1, <2>1, <2>2
  <2>4. k - 1 \in 0..n /\ k - 1 \notin S
    BY <1>1, <2>1, <2>3
  <2>5. f[k - 1] \in Mail
    BY <2>4
  <2>6. f[k] = Written(f[k - 1], log[cur.state + k], mail.there)
    BY <1>1, <1>2, <2>3 DEF Upon
  <2>7. cur.state + k \in DOMAIN log
    BY <2>3 DEF Kinds, Histories
  <2> DEFINE e == log[cur.state + k]
  <2>8. e.label \in Labels /\ e.kind \in {"added", "deleted", "gained", "lost"}
    BY <1>1, <2>7, Entry
  <2>9. \A c \in Mail : Written(c, e, mail.there) \in Mail
    <3> HIDE DEF e
    <3> TAKE c \in Mail
    <3>1. Upsert(c, eng.got, {e.id}) \in Mail
      BY <1>1, UpsertWrites
    <3>2. Drop(c, {e.id}) \in Mail
      BY DropWrites
    <3>3. Label(c, {e.id}, e.label, TRUE) \in Mail /\ Label(c, {e.id}, e.label, FALSE) \in Mail
      BY <2>8, LabelWrites
    <3> QED
      BY <2>8, <3>1, <3>2, <3>3 DEF Written
  <2>10. f[k] \in Mail
    BY <2>5, <2>6, <2>9
  <2> QED
    BY <2>1, <2>10
<1> QED
  BY <1>1, <1>2, <1>3

LEMMA MetIs ==
  ASSUME act \in [Writers -> Actions]
  PROVE  /\ Met \in [Writers -> Actions]
         /\ \A w \in Writers :
               /\ Met[w].pc = act[w].pc /\ Met[w].todo = act[w].todo /\ Met[w].label = act[w].label
               /\ Met[w].on = act[w].on /\ Met[w].did = act[w].did /\ Met[w].taken = act[w].taken
               /\ Met[w].met <=> (act[w].met \/ act[w].pc \in {"send", "back"})
<1>1. ASSUME NEW w \in Writers, NEW b \in BOOLEAN
      PROVE  LET a == [act[w] EXCEPT !.met = b] IN
             /\ a \in Actions
             /\ a.pc = act[w].pc /\ a.todo = act[w].todo /\ a.label = act[w].label
             /\ a.on = act[w].on /\ a.did = act[w].did /\ a.taken = act[w].taken /\ a.met = b
  <2>1. act[w] \in Actions
    OBVIOUS
  <2> QED
    BY <2>1 DEF Actions
<1>2. \A w \in Writers : Met[w] = [act[w] EXCEPT !.met = act[w].met \/ act[w].pc \in {"send", "back"}]
  BY DEF Met
<1>3. DOMAIN Met = Writers /\ Met = [w \in Writers |-> Met[w]]
  BY DEF Met
<1>4. ASSUME NEW w \in Writers
      PROVE  /\ Met[w] \in Actions
             /\ Met[w].pc = act[w].pc /\ Met[w].todo = act[w].todo /\ Met[w].label = act[w].label
             /\ Met[w].on = act[w].on /\ Met[w].did = act[w].did /\ Met[w].taken = act[w].taken
             /\ Met[w].met <=> (act[w].met \/ act[w].pc \in {"send", "back"})
  <2> DEFINE b == act[w].met \/ act[w].pc \in {"send", "back"}
  <2>1. b \in BOOLEAN /\ Met[w] = [act[w] EXCEPT !.met = b]
    BY <1>2
  <2> HIDE DEF b
  <2>2. /\ Met[w] \in Actions
        /\ Met[w].pc = act[w].pc /\ Met[w].todo = act[w].todo /\ Met[w].label = act[w].label
        /\ Met[w].on = act[w].on /\ Met[w].did = act[w].did /\ Met[w].taken = act[w].taken
        /\ Met[w].met = b
    BY <1>1, <2>1
  <2> QED
    BY <2>2 DEF b
<1> QED
  BY <1>3, <1>4

LEMMA RestingTyped == Resting \in Engines /\ NoReader \in Readings /\ NoState = -1
BY MirrorAssumption, NoMailIsMail DEF Resting, Engines, NoState, NoReader, Readings

LEMMA NoActTyped == NoAct \in Actions /\ Coherent(NoAct)
BY MirrorAssumption DEF NoAct, Actions, Coherent

LEMMA InitTyped == Init => Typed
<1> SUFFICES ASSUME Init PROVE Typed
  OBVIOUS
<1>1. Kinds
  BY MirrorAssumption, RestingTyped, NoActTyped, NoMailIsMail
  DEF Init, Kinds, Cursor, Mail, Histories
<1>2. Locks
  BY MirrorAssumption DEF Init, Locks, Resting, NoAct, NoReader
<1>3. EngineStages
  BY DEF Init, EngineStages, Resting
<1>4. WriterStages
  BY NoActTyped DEF Init, WriterStages, NoAct
<1>5. True(log, srv)
  BY DEF Init, True, Came
<1> QED
  BY <1>1, <1>2, <1>3, <1>4, <1>5 DEF Typed

LEMMA StaysGoesOn ==
  ASSUME Typed, SameServer
  PROVE  GoesOn
<1>1. srv' = srv /\ log' = log
  BY DEF SameServer
<1> QED
  BY <1>1, LaterSame DEF Typed, Kinds, GoesOn, Histories

LEMMA GrowsTyped ==
  ASSUME Typed, GoesOn
  PROVE  /\ Len(log') \in Nat /\ Len(log) \in Nat /\ Len(log) <= Len(log')
         /\ floor \in 0..Len(log') /\ cur.state \in NoState..Len(log')
         /\ \A m : Deleted(log, m) => Deleted(log', m)
<1>1. Len(log') \in Nat /\ Len(log) \in Nat
  BY DEF Typed, Kinds, GoesOn, Histories
<1>2. \A m : Deleted(log, m) => Deleted(log', m)
  BY DEF Deleted, GoesOn, Later
<1>3. floor \in 0..Len(log') /\ cur.state \in NoState..Len(log')
  BY <1>1, RestingTyped DEF Typed, Kinds, GoesOn
<1> QED
  BY <1>1, <1>2, <1>3 DEF GoesOn

\* The server goes on and none of the actors does.
LEMMA ServerTyped ==
  ASSUME Typed, GoesOn, SameStore, SameActors, UNCHANGED <<torn, acts>>,
         floor' \in 0..Len(log'), asked' \subseteq asked, faults' \in 0..MaxFaults
  PROVE  Typed'
<1>1. Kinds'
  BY GrowsTyped DEF Typed, Kinds, GoesOn, SameStore, SameActors
<1>2. Locks'
  BY DEF Typed, Locks, SameActors
<1>3. EngineStages'
  BY GrowsTyped DEF Typed, EngineStages, Kinds, Engines, SameStore, SameActors
<1>4. WriterStages'
  BY GrowsTyped DEF Typed, WriterStages, SameActors
<1> QED
  BY <1>1, <1>2, <1>3, <1>4 DEF Typed, GoesOn

LEMMA FaultTyped == Typed /\ Fault => faults' \in 0..MaxFaults
BY MirrorAssumption DEF Fault, Typed, Kinds

LEMMA OtherLabelsTyped ==
  ASSUME Typed, NEW m \in Msgs, NEW l \in Labels, NEW on \in BOOLEAN, OtherLabels(m, l, on)
  PROVE  Typed' /\ GoesOn
<1>1. GoesOn
  BY TypedServer, LabelsGoOn DEF OtherLabels
<1>2. Typed'
  BY <1>1, GrowsTyped, ServerTyped DEF OtherLabels, Forget, Typed, Kinds
<1> QED
  BY <1>1, <1>2

LEMMA OtherDeletesTyped ==
  ASSUME Typed, NEW m \in Msgs, OtherDeletes(m)
  PROVE  Typed' /\ GoesOn
<1>1. GoesOn
  BY TypedServer, DeletesGoOn, MirrorAssumption DEF OtherDeletes
<1>2. Typed'
  BY <1>1, GrowsTyped, ServerTyped DEF OtherDeletes, Forget, Typed, Kinds
<1> QED
  BY <1>1, <1>2

LEMMA ArrivesTyped ==
  ASSUME Typed, NEW m \in Msgs, Arrives(m)
  PROVE  Typed' /\ GoesOn
<1>1. GoesOn
  BY TypedServer, ArrivesGoesOn, MirrorAssumption
<1>2. Typed'
  BY <1>1, GrowsTyped, ServerTyped DEF Arrives, Typed, Kinds
<1> QED
  BY <1>1, <1>2

LEMMA LosesPlaceTyped ==
  ASSUME Typed, LosesPlace
  PROVE  Typed' /\ GoesOn
<1>1. srv' = srv /\ log' = log
  BY DEF LosesPlace
<1>2. GoesOn
  BY <1>1, LaterSame DEF Typed, Kinds, GoesOn, Histories
<1>3. Len(log) \in Nat /\ floor' = Len(log)
  BY DEF LosesPlace, Typed, Kinds, Histories
<1>4. Typed'
  BY <1>1, <1>2, <1>3, FaultTyped, ServerTyped DEF LosesPlace
<1> QED
  BY <1>2, <1>4

LEMMA Fetched ==
  ASSUME Typed, NEW ms
  PROVE  /\ Upsert(NoMail, srv, ms) \in Mail
         /\ Upsert(NoMail, srv, ms).there = ms \cap srv.there
         /\ \A m \in Msgs, l \in Labels :
               m \in ms => (On(Upsert(NoMail, srv, ms), m, l) <=> On(srv, m, l))
<1> DEFINE got == Upsert(NoMail, srv, ms)
<1>1. srv \in Mail
  BY DEF Typed, Kinds
<1>2. /\ got \in Mail /\ got.there = NoMail.there \cup (ms \cap srv.there)
      /\ \A m \in Msgs, l \in Labels :
            On(got, m, l) <=> IF m \in ms \cap srv.there THEN On(srv, m, l) ELSE On(NoMail, m, l)
  BY <1>1, NoMailIsMail, UpsertWrites
<1>3. NoMail.there = {} /\ \A m, l : ~On(NoMail, m, l)
  BY DEF NoMail, On
<1>4. \A m \in Msgs, l \in Labels : On(srv, m, l) => m \in srv.there
  BY <1>1, OnIsThere
<1> HIDE DEF got
<1>5. got.there = ms \cap srv.there
  BY <1>2, <1>3
<1>6. \A m \in Msgs, l \in Labels : m \in ms => (On(got, m, l) <=> On(srv, m, l))
  BY <1>2, <1>3, <1>4
<1> QED
  BY <1>2, <1>5, <1>6 DEF got

\* A step of the engine alone, which reads.
LEMMA ReadsTyped ==
  ASSUME Typed, SameServer, SameStore,
         UNCHANGED <<act, reader, asked, torn, acts>>, faults' \in 0..MaxFaults,
         eng' \in Engines, lock' \in {"free", "engine"} \/ lock' = lock,
         lock \in {"free", "engine"} \/ lock' = lock,
         lock' = "engine" <=> (eng'.pc \notin {"idle", "pagewrite"} \/ eng'.whole),
         EngineStages'
  PROVE  Typed' /\ GoesOn
<1>1. GoesOn
  BY StaysGoesOn
<1>2. Kinds'
  BY DEF Typed, Kinds, SameServer, SameStore
<1>3. Locks'
  BY MirrorAssumption DEF Typed, Kinds, Locks
<1>4. WriterStages'
  BY DEF Typed, WriterStages, SameServer
<1> QED
  BY <1>1, <1>2, <1>3, <1>4 DEF Typed, GoesOn

LEMMA LookTyped ==
  ASSUME Typed, Look
  PROVE  Typed' /\ GoesOn
<1> DEFINE now == Len(log)
<1>1. now \in Nat /\ eng.pc = "idle" /\ lock = "free" /\ lock' = "engine"
  BY DEF Look, LookMayStart, Hold, Doing, Typed, Kinds, Histories
<1>2. CASE cur.state = NoState \/ cur.state < floor
  <2>1. eng' = [Resting EXCEPT !.pc = "begin", !.upTo = now, !.whole = cur.state # NoState /\ cur.done]
    BY <1>2 DEF Look
  <2>2. eng' \in Engines /\ eng'.pc = "begin" /\ eng'.upTo = now
    <3> DEFINE whole == cur.state # NoState /\ cur.done
    <3>1. now \in Int /\ whole \in BOOLEAN
      BY <1>1
    <3>2. eng' = [Resting EXCEPT !.pc = "begin", !.upTo = now, !.whole = whole]
      BY <2>1
    <3> HIDE DEF now, whole
    <3>3. eng' = [pc |-> "begin", upTo |-> now, want |-> {}, got |-> NoMail, whole |-> whole]
      BY <3>2 DEF Resting
    <3> QED
      BY <3>1, <3>3, NoMailIsMail DEF Engines
  <2>3. EngineStages'
    BY <1>1, <2>2 DEF EngineStages, Typed, Look, SameStore, SameServer
  <2> QED
    BY <1>1, <2>2, <2>3, ReadsTyped DEF Look, Typed, Kinds
<1>3. CASE ~(cur.state = NoState \/ cur.state < floor)
  <2>1. eng' = [Resting EXCEPT !.pc = "fetch", !.upTo = now, !.want = Wanted(Entries(cur.state, now))]
    BY <1>3 DEF Look
  <2>2. cur.state \in Nat /\ cur.state < now
    BY <1>1, <1>3, RestingTyped DEF Look, Typed, Kinds
  <2>3. Wanted(Entries(cur.state, now)) \subseteq Msgs
    <3>1. log \in Histories
      BY DEF Typed, Kinds
    <3>2. ASSUME NEW m \in Wanted(Entries(cur.state, now)) PROVE m \in Msgs
      <4>1. \E i \in (cur.state + 1)..now : log[i].id = m
        BY <1>1, <2>2, <3>1, <3>2, WantedIs DEF Names
      <4>2. \A i \in (cur.state + 1)..now : i \in DOMAIN log
        BY <2>2, <3>1 DEF Histories
      <4> QED
        BY <3>1, <4>1, <4>2, Entry
    <3> QED
      BY <3>2
  <2>4. eng' \in Engines /\ eng'.pc = "fetch" /\ eng'.upTo = now
    <3> DEFINE want == Wanted(Entries(cur.state, now))
    <3>1. now \in Int /\ want \subseteq Msgs
      BY <1>1, <2>3
    <3>2. eng' = [Resting EXCEPT !.pc = "fetch", !.upTo = now, !.want = want]
      BY <2>1
    <3> HIDE DEF now, want
    <3>3. eng' = [pc |-> "fetch", upTo |-> now, want |-> want, got |-> NoMail, whole |-> FALSE]
      BY <3>2 DEF Resting
    <3> QED
      BY <3>1, <3>3, NoMailIsMail DEF Engines
  <2>5. EngineStages'
    BY <1>1, <2>2, <2>4 DEF EngineStages, Typed, Look, SameStore, SameServer
  <2> QED
    BY <1>1, <2>4, <2>5, ReadsTyped DEF Look, Typed, Kinds
<1> QED
  BY <1>2, <1>3

LEMMA FetchTyped ==
  ASSUME Typed, Fetch
  PROVE  Typed' /\ GoesOn
<1>1. /\ eng' \in Engines /\ eng.pc = "fetch" /\ eng'.pc = "write" /\ eng'.upTo = eng.upTo
  BY Fetched DEF Fetch, Doing, Typed, Kinds, Engines
<1>2. EngineStages'
  BY <1>1 DEF EngineStages, Typed, Fetch, SameStore, SameServer
<1> QED
  BY <1>1, <1>2, ReadsTyped DEF Fetch, Typed, Kinds, Locks

LEMMA ListTyped ==
  ASSUME Typed, List
  PROVE  Typed' /\ GoesOn
<1> DEFINE want == {m \in srv.there : m \notin mail.there
                                   \/ srv.on \cap Of({m}) # mail.on \cap Of({m})}
<1>1. want \subseteq Msgs /\ srv \in Mail
  BY DEF Typed, Kinds, Mail
<1>2. eng' = [eng EXCEPT !.pc = "refetch", !.got = srv, !.want = want] /\ eng.pc = "list"
  BY DEF List, Doing
<1> HIDE DEF want
<1>3. eng' \in Engines /\ eng'.pc = "refetch" /\ eng.pc = "list"
  BY <1>1, <1>2 DEF Typed, Kinds, Engines
<1>4. EngineStages'
  BY <1>3 DEF EngineStages, Typed, List, SameStore, SameServer
<1> QED
  BY <1>3, <1>4, ReadsTyped DEF List, Typed, Kinds, Locks

LEMMA RefetchTyped ==
  ASSUME Typed, Refetch
  PROVE  Typed' /\ GoesOn
<1>1. eng \in Engines /\ eng.got.there \subseteq Msgs
  BY DEF Typed, Kinds, Engines, Mail
<1>2. eng' \in Engines /\ eng'.pc = "rewrite" /\ eng.pc = "refetch"
  BY <1>1, Fetched DEF Refetch, Doing, Engines
<1>3. EngineStages'
  BY <1>2 DEF EngineStages, Typed, Refetch, SameStore, SameServer
<1> QED
  BY <1>2, <1>3, ReadsTyped DEF Refetch, Typed, Kinds, Locks

LEMMA PageReadTyped ==
  ASSUME Typed, PageRead
  PROVE  Typed' /\ GoesOn
<1> DEFINE got == Upsert(NoMail, srv, {cur.pos})
<1>1. got \in Mail
  BY Fetched
<1>2. eng' = [Resting EXCEPT !.pc = "pagewrite", !.got = got, !.whole = Doing("page")]
  BY DEF PageRead
<1> HIDE DEF got
<1>3. eng' \in Engines /\ eng'.pc = "pagewrite" /\ (eng'.whole <=> eng.pc = "page")
  BY <1>1, <1>2, RestingTyped DEF Resting, Engines, Doing
<1>4. EngineStages'
  BY <1>3 DEF EngineStages, Typed, PageRead, Doing, SameStore, SameServer
<1>5. eng.pc \in {"page", "idle"}
  BY DEF PageRead, Doing
<1>6. lock' = "engine" <=> (eng'.pc \notin {"idle", "pagewrite"} \/ eng'.whole)
  BY <1>3, <1>5 DEF PageRead, Typed, Locks, EngineStages
<1> QED
  BY <1>3, <1>4, <1>6, ReadsTyped DEF PageRead, Typed, Kinds

LEMMA CompareTyped ==
  ASSUME Typed, Compare
  PROVE  Typed' /\ GoesOn
<1>1. Apart \subseteq Msgs
  BY DEF Apart, ApartHere, Inbox, Typed, Kinds, Mail
<1>2. eng' \in Engines /\ eng'.pc = "differ" /\ lock = "free" /\ lock' = "engine"
  BY <1>1, RestingTyped DEF Compare, Hold, Resting, Engines
<1>3. EngineStages'
  BY <1>2 DEF EngineStages, Typed, Compare, SameStore, SameServer
<1> QED
  BY <1>2, <1>3, ReadsTyped DEF Compare, Typed, Kinds

LEMMA DifferTyped ==
  ASSUME Typed, Differ
  PROVE  Typed' /\ GoesOn
<1>1. eng' \in Engines /\ eng'.pc = "repair" /\ eng.pc = "differ"
  BY Fetched DEF Differ, Doing, Typed, Kinds, Engines
<1>2. EngineStages'
  BY <1>1 DEF EngineStages, Typed, Differ, SameStore, SameServer
<1> QED
  BY <1>1, <1>2, ReadsTyped DEF Differ, Typed, Kinds, Locks

LEMMA EngineFailsTyped ==
  ASSUME Typed, EngineFails
  PROVE  Typed' /\ GoesOn
<1>1. /\ eng' \in Engines /\ eng'.pc = "idle" /\ ~eng'.whole
      /\ eng.pc \notin {"idle", "pagewrite"}
  BY RestingTyped DEF EngineFails, Rests, Resting
<1>2. EngineStages'
  BY <1>1 DEF EngineStages, Typed, EngineFails, SameStore, SameServer
<1>3. lock = "engine" /\ lock' = "free"
  BY <1>1 DEF EngineFails, Free, Typed, Locks
<1> QED
  BY <1>1, <1>2, <1>3, FaultTyped, ReadsTyped DEF EngineFails

LEMMA CoherentMet ==
  ASSUME act \in [Writers -> Actions], NEW w \in Writers
  PROVE  Coherent(act[w]) => Coherent(Met[w])
BY MetIs DEF Coherent

LEMMA OvertakenTyped ==
  ASSUME Typed, Overtakes, log' = log
  PROVE  /\ act' \in [Writers -> Actions] /\ WriterStages'
         /\ \A w \in Writers : act'[w].pc = act[w].pc
<1>1. /\ act' = Met /\ act \in [Writers -> Actions]
  BY DEF Overtakes, Typed, Kinds
<1>2. \A w \in Writers : Coherent(act'[w])
  BY <1>1, CoherentMet DEF Typed, WriterStages
<1>3. WriterStages'
  BY <1>1, <1>2, MetIs DEF Typed, WriterStages
<1> QED
  BY <1>1, <1>3, MetIs

\* A step of the engine or of the reader that writes the store.
LEMMA WritesTyped ==
  ASSUME Typed, SameServer, Overtakes, UNCHANGED <<asked, torn, acts>>, faults' \in 0..MaxFaults,
         mail' \in Mail, gen' \in [Msgs -> Nat], cur' \in Cursor, cur'.state \in NoState..Len(log),
         eng' \in Engines, reader' \in Readings, lock \notin Writers, lock' \in {"free", lock},
         lock' = "engine" <=> (eng'.pc \notin {"idle", "pagewrite"} \/ eng'.whole),
         lock' = "reader" <=> reader'.pc = "write",
         EngineStages'
  PROVE  Typed' /\ GoesOn
<1>1. GoesOn
  BY StaysGoesOn
<1>2. srv' = srv /\ log' = log /\ floor' = floor
  BY DEF SameServer
<1>3. /\ act' \in [Writers -> Actions] /\ WriterStages'
      /\ \A w \in Writers : act'[w].pc = act[w].pc
  BY <1>2, OvertakenTyped
<1>4. Kinds'
  BY <1>2, <1>3 DEF Typed, Kinds
<1>5. Locks'
  BY <1>3, MirrorAssumption DEF Typed, Kinds, Locks
<1> QED
  BY <1>1, <1>2, <1>3, <1>4, <1>5 DEF Typed

LEMMA BeginTyped ==
  ASSUME Typed, Begin
  PROVE  Typed' /\ GoesOn
<1>1. eng.pc = "begin" /\ eng.upTo \in 0..Len(log) /\ cur \in Cursor /\ eng.whole \in BOOLEAN
  BY DEF Begin, Doing, Typed, EngineStages, Kinds, Engines
<1>2. /\ cur' \in Cursor /\ cur'.state \in 0..Len(log) /\ cur'.gen = cur.gen + 1 /\ ~cur'.done
      /\ cur.gen \in Nat
  BY <1>1, MirrorAssumption DEF Begin, Cursor
<1>3. eng' \in Engines /\ eng'.pc \in {"list", "page"}
  BY <1>1, RestingTyped DEF Begin, Resting, Engines
<1>4. srv' = srv /\ log' = log /\ floor' = floor /\ mail' = mail /\ gen' = gen /\ act' = act
  BY DEF Begin, SameServer
<1>5. EngineStages'
  <2>1. cur'.state # NoState
    BY <1>2, RestingTyped
  <2>2. \A m \in Msgs : gen'[m] < cur'.gen /\ gen'[m] <= cur'.gen
    BY <1>2, <1>4 DEF Typed, EngineStages, Kinds
  <2> QED
    BY <1>2, <1>3, <1>4, <2>1, <2>2 DEF EngineStages
<1>6. Kinds'
  BY <1>2, <1>3, <1>4, RestingTyped DEF Typed, Kinds, Begin, Histories
<1>7. Locks'
  BY <1>1, <1>3, <1>4 DEF Typed, Locks, Begin
<1>8. WriterStages'
  BY <1>4 DEF Typed, WriterStages
<1> QED
  BY <1>4, <1>5, <1>6, <1>7, <1>8, StaysGoesOn DEF Typed, Begin

LEMMA PageRefusedTyped ==
  ASSUME Typed, PageRefused
  PROVE  Typed' /\ GoesOn
<1>1. /\ cur' \in Cursor /\ cur'.state = cur.state /\ cur'.gen = cur.gen /\ cur'.done = cur.done
      /\ eng' = eng /\ gen' = gen
  BY MirrorAssumption DEF PageRefused, Typed, Kinds, Cursor
<1>2. faults' \in 0..MaxFaults
  BY FaultTyped DEF PageRefused
<1>3. srv' = srv /\ log' = log /\ floor' = floor
  BY DEF PageRefused, SameServer
<1>4. Kinds'
  BY <1>1, <1>2, <1>3 DEF Typed, Kinds, PageRefused
<1>5. Locks' /\ WriterStages'
  BY <1>3 DEF Typed, Locks, WriterStages, PageRefused
<1>6. EngineStages'
  BY <1>1, <1>3 DEF Typed, EngineStages
<1> QED
  BY <1>3, <1>4, <1>5, <1>6, StaysGoesOn DEF Typed, PageRefused

\* The engine's task ends, and with it the lock if it held it.
LEMMA EngineRests ==
  ASSUME Rests
  PROVE  eng' \in Engines /\ eng'.pc = "idle" /\ ~eng'.whole
BY RestingTyped DEF Rests, Resting

\* The generation that a write leaves.
LEMMA StampedStages ==
  ASSUME Typed, Rests, log' = log, NEW ms, gen' = Stamped(ms, cur.gen), cur'.gen = cur.gen
  PROVE  gen' \in [Msgs -> Nat] /\ EngineStages'
<1>1. cur.gen \in Nat /\ gen \in [Msgs -> Nat]
  BY DEF Typed, Kinds, Cursor
<1>2. gen' \in [Msgs -> Nat] /\ \A m \in Msgs : gen'[m] = IF m \in ms THEN cur.gen ELSE gen[m]
  BY <1>1, StampedTyped
<1>3. \A m \in Msgs : gen'[m] <= cur'.gen
  BY <1>1, <1>2 DEF Typed, EngineStages
<1> QED
  BY <1>2, <1>3, EngineRests DEF EngineStages

LEMMA LockHeld ==
  ASSUME Typed
  PROVE  /\ eng.pc \notin {"idle", "pagewrite"} => lock = "engine"
         /\ eng.whole => lock = "engine"
         /\ eng.pc = "pagewrite" /\ ~eng.whole => lock # "engine"
         /\ reader.pc = "write" => lock = "reader"
         /\ "engine" \notin Writers /\ "reader" \notin Writers /\ "free" \notin Writers
BY MirrorAssumption DEF Typed, Locks

LEMMA ReplayTyped ==
  ASSUME Typed, Replay
  PROVE  Typed' /\ GoesOn
<1>1. /\ eng.pc = "write" /\ lock = "engine" /\ lock' = "free" /\ reader.pc # "write"
      /\ cur.state \in Nat /\ eng.upTo \in cur.state..Len(log) /\ reader' = reader
  BY LockHeld DEF Replay, Doing, Free, Typed, EngineStages
<1>2. mail' \in Mail
  BY <1>1, AppliedTyped DEF Replay, Typed
<1>3. /\ cur' \in Cursor /\ cur'.state = eng.upTo /\ cur'.gen = cur.gen
  BY <1>1 DEF Replay, NextPlace, Cursor, Typed, Kinds
<1>4. log' = log /\ Rests
  BY DEF Replay, SameServer
<1>5. gen' \in [Msgs -> Nat] /\ EngineStages'
  BY <1>3, <1>4, StampedStages DEF Replay
<1>6. eng.upTo \in NoState..Len(log)
  BY <1>1, RestingTyped DEF Typed, Kinds, Histories
<1>7. /\ SameServer /\ Overtakes /\ UNCHANGED <<asked, torn, acts>> /\ faults' \in 0..MaxFaults
      /\ reader' \in Readings
  BY DEF Replay, Typed, Kinds
<1> QED
  BY <1>1, <1>2, <1>3, <1>4, <1>5, <1>6, <1>7, EngineRests, LockHeld, WritesTyped

LEMMA RewriteTyped ==
  ASSUME Typed, Rewrite
  PROVE  Typed' /\ GoesOn
<1>1. /\ eng.pc = "rewrite" /\ lock = "engine" /\ lock' = "free" /\ reader.pc # "write"
      /\ reader' = reader
  BY LockHeld DEF Rewrite, Doing, Free
<1>2. mail' \in Mail
  BY UpsertWrites, DropWrites DEF Rewrite, Typed, Kinds, Engines
<1>3. /\ cur' \in Cursor /\ cur'.state = cur.state /\ cur'.gen = cur.gen
  BY MirrorAssumption DEF Rewrite, Cursor, Typed, Kinds
<1>4. log' = log /\ Rests
  BY DEF Rewrite, SameServer
<1>5. gen' \in [Msgs -> Nat] /\ EngineStages'
  BY <1>3, <1>4, StampedStages DEF Rewrite
<1>6. /\ SameServer /\ Overtakes /\ UNCHANGED <<asked, torn, acts>> /\ faults' \in 0..MaxFaults
      /\ reader' \in Readings /\ cur.state \in NoState..Len(log)
  BY DEF Rewrite, Typed, Kinds
<1> QED
  BY <1>1, <1>2, <1>3, <1>4, <1>5, <1>6, EngineRests, LockHeld, WritesTyped

LEMMA RepairTyped ==
  ASSUME Typed, Repair
  PROVE  Typed' /\ GoesOn
<1>1. /\ eng.pc = "repair" /\ lock = "engine" /\ lock' = "free" /\ reader.pc # "write"
      /\ reader' = reader
  BY LockHeld DEF Repair, Doing, Free
<1>2. mail' \in Mail
  BY UpsertWrites, DropWrites DEF Repair, Typed, Kinds, Engines
<1>3. cur' = cur /\ cur \in Cursor
  BY DEF Repair, Typed, Kinds
<1>4. log' = log /\ Rests
  BY DEF Repair, SameServer
<1>5. gen' \in [Msgs -> Nat] /\ EngineStages'
  BY <1>3, <1>4, StampedStages DEF Repair
<1>6. /\ SameServer /\ Overtakes /\ UNCHANGED <<asked, torn, acts>> /\ faults' \in 0..MaxFaults
      /\ reader' \in Readings /\ cur.state \in NoState..Len(log)
  BY DEF Repair, Typed, Kinds
<1> QED
  BY <1>1, <1>2, <1>3, <1>4, <1>5, <1>6, EngineRests, LockHeld, WritesTyped

LEMMA PageWriteTyped ==
  ASSUME Typed, PageWrite
  PROVE  Typed' /\ GoesOn
<1>1. eng.pc = "pagewrite" /\ reader' = reader
  BY DEF PageWrite, Doing
<1>2. mail' \in Mail
  <2>1. Upsert(mail, eng.got, Msgs) \in Mail
    BY UpsertWrites DEF Typed, Kinds, Engines
  <2>2. \A ms : Drop(Upsert(mail, eng.got, Msgs), ms) \in Mail
    BY <2>1, DropWrites
  <2> QED
    BY <2>1, <2>2 DEF PageWrite
<1>3. /\ cur' \in Cursor /\ cur'.state = cur.state /\ cur'.gen = cur.gen
  BY MirrorAssumption DEF PageWrite, LastPage, Cursor, Typed, Kinds
<1>4. log' = log /\ Rests
  BY DEF PageWrite, SameServer
<1>5. gen' \in [Msgs -> Nat] /\ EngineStages'
  BY <1>3, <1>4, StampedStages DEF PageWrite
<1>6. /\ SameServer /\ Overtakes /\ UNCHANGED <<asked, torn, acts>> /\ faults' \in 0..MaxFaults
      /\ reader' \in Readings /\ cur.state \in NoState..Len(log)
  BY DEF PageWrite, Typed, Kinds
<1>7. CASE eng.whole
  <2>1. lock = "engine" /\ lock' = "free" /\ reader.pc # "write"
    BY <1>7, LockHeld DEF PageWrite, Free
  <2> QED
    BY <1>1, <1>2, <1>3, <1>4, <1>5, <1>6, <2>1, EngineRests, LockHeld, WritesTyped
<1>8. CASE ~eng.whole
  <2>1. lock # "engine" /\ lock' = lock /\ act \in [Writers -> Actions]
    BY <1>1, <1>8, LockHeld DEF PageWrite, Typed, Kinds
  <2>2. srv' = srv /\ log' = log /\ floor' = floor
    BY DEF PageWrite, SameServer
  <2>3. /\ act' \in [Writers -> Actions] /\ WriterStages'
        /\ \A w \in Writers : act'[w].pc = act[w].pc
    BY <1>6, <2>2, OvertakenTyped
  <2>4. Kinds'
    BY <1>2, <1>3, <1>4, <1>5, <1>6, <2>1, <2>2, <2>3, EngineRests DEF Typed, Kinds
  <2>5. Locks'
    BY <1>1, <1>4, <2>1, <2>3, EngineRests DEF Typed, Locks
  <2> QED
    BY <1>5, <1>6, <2>2, <2>3, <2>4, <2>5, StaysGoesOn DEF Typed
<1> QED
  BY <1>7, <1>8

LEMMA StoreThreadTyped ==
  ASSUME Typed, StoreThread
  PROVE  Typed' /\ GoesOn
<1>1. /\ reader.pc = "write" /\ lock = "reader" /\ lock' = "free"
      /\ eng.pc \in {"idle", "pagewrite"} /\ ~eng.whole /\ eng' = eng
  BY LockHeld DEF StoreThread, Free
<1>2. mail' \in Mail
  BY UpsertWrites, DropWrites DEF StoreThread, Typed, Kinds, Readings
<1>3. cur' = cur /\ cur \in Cursor /\ cur.gen \in Nat /\ gen \in [Msgs -> Nat]
  BY DEF StoreThread, Typed, Kinds, Cursor
<1>4. log' = log
  BY DEF StoreThread, SameServer
<1>5. /\ gen' \in [Msgs -> Nat]
      /\ \A m \in Msgs : gen'[m] = IF m \in reader.got.there THEN cur.gen ELSE gen[m]
  BY <1>3, StampedTyped DEF StoreThread
<1>6. EngineStages'
  <2>1. \A m \in Msgs : gen'[m] <= cur.gen
    BY <1>3, <1>5 DEF Typed, EngineStages
  <2> QED
    BY <1>1, <1>3, <1>4, <2>1 DEF Typed, EngineStages
<1>7. reader' \in Readings /\ reader'.pc = "idle"
  BY RestingTyped DEF StoreThread, NoReader
<1>8. /\ SameServer /\ Overtakes /\ UNCHANGED <<asked, torn, acts>> /\ faults' \in 0..MaxFaults
      /\ eng' \in Engines /\ cur.state \in NoState..Len(log)
  BY DEF StoreThread, Typed, Kinds
<1> QED
  BY <1>1, <1>2, <1>3, <1>5, <1>6, <1>7, <1>8, LockHeld, WritesTyped

LEMMA ForgetIs ==
  ASSUME Typed, NEW pairs
  PROVE  /\ Forget(pairs) \subseteq asked
         /\ Forget(pairs) \in SUBSET (Msgs \X Labels \X BOOLEAN)
BY DEF Forget, Typed, Kinds

LEMMA ActTyped ==
  ASSUME Typed, NEW w \in Writers, NEW ms \in SUBSET Msgs, NEW l \in Labels, NEW on \in BOOLEAN,
         Act(w, ms, l, on)
  PROVE  Typed' /\ GoesOn
<1> DEFINE did == {m \in ms : (<<m, l>> \in mail.on) # on}
           a == [NoAct EXCEPT !.pc = "send", !.todo = ms, !.label = l, !.on = on, !.did = did]
<1>1. /\ act[w].pc = "idle" /\ lock = "free" /\ lock' = w /\ ms # {}
      /\ act' = [Met EXCEPT ![w] = a] /\ eng' = eng /\ reader' = reader
      /\ srv' = srv /\ log' = log /\ floor' = floor /\ gen' = gen /\ cur' = cur
  BY DEF Act, Is, Hold, SameServer
<1>2. did \subseteq ms
  OBVIOUS
<1> HIDE DEF did
<1>3. /\ a \in Actions /\ a.pc = "send" /\ Coherent(a)
  BY <1>1, <1>2, NoActTyped DEF NoAct, Actions, Coherent
<1> HIDE DEF a
<1>4. act \in [Writers -> Actions]
  BY DEF Typed, Kinds
<1>5. /\ act' \in [Writers -> Actions] /\ act'[w] = a
      /\ \A v \in Writers : v # w => act'[v] = Met[v]
  BY <1>1, <1>3, <1>4, MetIs
<1>6. mail' \in Mail /\ acts' \in 0..MaxActs /\ asked' \in SUBSET (Msgs \X Labels \X BOOLEAN)
  <2>1. mail' = Label(mail, ms, l, on) /\ mail \in Mail
    BY DEF Act, Typed, Kinds
  <2>2. acts' \in 0..MaxActs
    BY MirrorAssumption DEF Act, Typed, Kinds
  <2>3. asked' = Forget(ms \X {l})
    BY DEF Act
  <2> QED
    BY <2>1, <2>2, <2>3, LabelWrites, ForgetIs
<1>7. Kinds'
  BY <1>1, <1>5, <1>6 DEF Typed, Kinds, Act
<1>8. Locks'
  BY <1>1, <1>3, <1>4, <1>5, MetIs, LockHeld DEF Typed, Locks
<1>9. WriterStages'
  <2>1. \A v \in Writers : Coherent(act'[v])
    BY <1>3, <1>4, <1>5, CoherentMet DEF Typed, WriterStages
  <2>2. \A v \in Writers : act[v].pc # "send"
    BY <1>1, LockHeld DEF Typed, Locks
  <2>3. \A v \in Writers : v # w => /\ act'[v].pc = act[v].pc /\ act'[v].todo = act[v].todo
                                    /\ act'[v].pc = "back" => act'[v].met
    BY <1>4, <1>5, MetIs
  <2> QED
    BY <1>1, <1>3, <1>5, <2>1, <2>2, <2>3 DEF Typed, WriterStages
<1>10. EngineStages'
  BY <1>1 DEF Typed, EngineStages
<1> QED
  BY <1>1, <1>7, <1>8, <1>9, <1>10, StaysGoesOn DEF Typed, Act

\* A writer of whom the server has the next message.
LEMMA NextOfTodo ==
  ASSUME Typed, NEW w \in Writers, act[w].pc = "send"
  PROVE  (CHOOSE x \in act[w].todo : \A y \in act[w].todo : x <= y) \in act[w].todo
<1>1. act[w].todo # {} /\ act[w].todo \subseteq Msgs
  BY DEF Typed, WriterStages, Coherent, Kinds, Actions
<1>2. act[w].todo \in SUBSET Nat
  BY <1>1, MsgsAreNumbers
<1>3. \E x \in act[w].todo : \A y \in act[w].todo : x <= y
  BY <1>1, <1>2, LeastOf
<1> QED
  BY <1>3

\* A step of one writer, who holds the lock before it and lets it go or keeps it.
LEMMA WriterTyped ==
  ASSUME Typed, GoesOn, NEW w \in Writers, NEW a \in Actions, act' = [act EXCEPT ![w] = a],
         Coherent(a), a.pc = "erased" => \A m \in a.todo : Deleted(log', m),
         a.pc = "send" => act[w].pc = "send",
         a.pc = "back" => act[w].pc = "send" \/ (act[w].pc = "back" /\ a.met = act[w].met),
         SameStore, floor' = floor, eng' = eng, reader' = reader, torn' = torn,
         asked' \in SUBSET (Msgs \X Labels \X BOOLEAN),
         acts' \in 0..MaxActs, faults' \in 0..MaxFaults,
         lock \in {"free", w}, lock' \in {"free", w},
         lock' = w <=> a.pc \in {"send", "erased"}
  PROVE  Typed'
<1>1. /\ act \in [Writers -> Actions] /\ act' \in [Writers -> Actions] /\ act'[w] = a
      /\ \A v \in Writers : v # w => act'[v] = act[v]
  BY DEF Typed, Kinds
<1>2. Kinds'
  BY <1>1, GrowsTyped DEF Typed, Kinds, SameStore, GoesOn
<1>3. Locks'
  BY <1>1, LockHeld DEF Typed, Locks
<1>4. EngineStages'
  BY GrowsTyped DEF Typed, EngineStages, Kinds, Engines, SameStore
<1>5. WriterStages'
  <2>1. \A v \in Writers : Coherent(act'[v])
    BY <1>1 DEF Typed, WriterStages
  <2>2. \A v \in Writers : act'[v].pc = "erased" => \A m \in act'[v].todo : Deleted(log', m)
    BY <1>1, GrowsTyped DEF Typed, WriterStages
  <2>3. ASSUME NEW u \in Writers, NEW v \in Writers, act'[u].pc = "send", act'[v].pc = "back"
        PROVE  act'[v].met
    <3>1. act[u].pc = "send"
      BY <1>1, <2>3
    <3>2. lock = u /\ \A x \in Writers : act[x].pc = "send" => x = u
      BY <3>1 DEF Typed, Locks
    <3>3. act[v].pc = "back" /\ act'[v].met = act[v].met
      BY <1>1, <2>3, <3>2, LockHeld
    <3>4. act[v].met
      BY <3>1, <3>3 DEF Typed, WriterStages
    <3> QED
      BY <3>3, <3>4
  <2> QED
    BY <2>1, <2>2, <2>3 DEF WriterStages
<1> QED
  BY <1>2, <1>3, <1>4, <1>5 DEF Typed, GoesOn

LEMMA TakeTyped ==
  ASSUME Typed, NEW w \in Writers, Take(w)
  PROVE  Typed' /\ GoesOn
<1> DEFINE a == act[w]
           m == CHOOSE x \in a.todo : \A y \in a.todo : x <= y
           next == [a EXCEPT !.todo = a.todo \ {m}, !.taken = a.taken \cup {m}]
           b == IF next.todo = {} THEN NoAct ELSE next
<1>1. a.pc = "send" /\ m \in srv.there /\ ServerLabels(m, a.label, a.on)
  BY DEF Take, Is
<1>2. m \in a.todo
  BY <1>1, NextOfTodo
<1>3. a \in Actions /\ Coherent(a)
  BY DEF Typed, Kinds, WriterStages
<1>4. m \in Msgs /\ a.label \in Labels /\ a.on \in BOOLEAN
  BY <1>2, <1>3 DEF Actions
<1>5. GoesOn
  BY <1>1, <1>4, TypedServer, LabelsGoOn
<1>6. /\ asked' = Forget({<<m, a.label>>}) \cup {<<m, a.label, a.on>>}
      /\ IF next.todo = {} THEN Becomes(w, NoAct) /\ Free ELSE Becomes(w, next) /\ UNCHANGED lock
  BY DEF Take
<1>7. SameStore /\ UNCHANGED <<floor, eng, reader, torn, acts, faults>>
  BY DEF Take
<1> HIDE DEF m
<1>8. next \in Actions /\ next.pc = "send" /\ (next.todo # {} => Coherent(next))
  BY <1>1, <1>2, <1>3, <1>4 DEF Actions, Coherent
<1>9. lock = w
  BY <1>1 DEF Typed, Locks
<1>10. b \in Actions /\ Coherent(b) /\ act' = [act EXCEPT ![w] = b]
       /\ lock' \in {"free", w} /\ (lock' = w <=> b.pc \in {"send", "erased"}) /\ b.pc \in {"idle", "send"}
  <2>1. CASE next.todo = {}
    BY <1>6, <1>8, <2>1, NoActTyped, LockHeld DEF Becomes, Free, NoAct
  <2>2. CASE next.todo # {}
    BY <1>6, <1>8, <1>9, <2>2 DEF Becomes
  <2> QED
    BY <2>1, <2>2
<1>11. asked' \in SUBSET (Msgs \X Labels \X BOOLEAN)
  BY <1>4, <1>6, ForgetIs
<1> HIDE DEF a, next, b
<1>12. acts' \in 0..MaxActs /\ faults' \in 0..MaxFaults
  BY <1>7 DEF Typed, Kinds
<1>13. Typed'
  BY <1>1, <1>5, <1>7, <1>9, <1>10, <1>11, <1>12, WriterTyped DEF a
<1> QED
  BY <1>5, <1>13

LEMMA GiveUpTyped ==
  ASSUME Typed, NEW w \in Writers, GiveUp(w)
  PROVE  Typed' /\ GoesOn
<1> DEFINE a == act[w]
           b == [a EXCEPT !.pc = "back"]
<1>1. lock = w
  BY DEF GiveUp, Is, Typed, Locks
<1>2. a \in Actions /\ Coherent(a) /\ a.pc = "send"
  BY DEF Typed, Kinds, WriterStages, GiveUp, Is
<1>3. /\ GoesOn /\ faults' \in 0..MaxFaults
  <2>1. CASE UNCHANGED <<srv, log>>
    <3>1. SameServer
      BY <2>1 DEF GiveUp, SameServer
    <3>2. faults' \in 0..MaxFaults
      BY FaultTyped DEF GiveUp, Typed, Kinds
    <3> QED
      BY <3>1, <3>2, StaysGoesOn
  <2>2. CASE \E m \in a.todo : m \in srv.there /\ Fault /\ ServerLabels(m, a.label, a.on)
    <3>1. PICK m \in a.todo : m \in srv.there /\ Fault /\ ServerLabels(m, a.label, a.on)
      BY <2>2
    <3>2. m \in Msgs /\ a.label \in Labels /\ a.on \in BOOLEAN
      BY <1>2 DEF Actions
    <3> QED
      BY <3>1, <3>2, TypedServer, LabelsGoOn, FaultTyped
  <2> QED
    BY <2>1, <2>2 DEF GiveUp
<1>4. b \in Actions /\ b.pc = "back" /\ Coherent(b)
  BY <1>2 DEF Actions, Coherent
<1>5. act' = [act EXCEPT ![w] = b] /\ lock' = "free"
  BY DEF GiveUp, Becomes, Free
<1>6. /\ SameStore /\ floor' = floor /\ eng' = eng /\ reader' = reader /\ torn' = torn
      /\ acts' \in 0..MaxActs /\ asked' \in SUBSET (Msgs \X Labels \X BOOLEAN)
  BY DEF GiveUp, Typed, Kinds
<1> HIDE DEF b
<1>7. Typed'
  BY <1>1, <1>2, <1>3, <1>4, <1>5, <1>6, LockHeld, WriterTyped
<1> QED
  BY <1>3, <1>7

LEMMA TakeBackTyped ==
  ASSUME Typed, NEW w \in Writers, TakeBack(w)
  PROVE  Typed' /\ GoesOn
<1>1. /\ act[w].pc = "back" /\ act' = [act EXCEPT ![w] = NoAct] /\ act \in [Writers -> Actions]
      /\ srv' = srv /\ log' = log /\ floor' = floor /\ gen' = gen /\ cur' = cur /\ eng' = eng
  BY DEF TakeBack, Is, Becomes, SameServer, Typed, Kinds
<1>2. act[w].label \in Labels /\ act[w].on \in BOOLEAN /\ (~act[w].on) \in BOOLEAN
  <2>1. act[w] \in Actions
    BY <1>1
  <2> QED
    BY <2>1 DEF Actions
<1>3. mail' \in Mail
  BY <1>2, LabelWrites DEF TakeBack, Typed, Kinds
<1>4. /\ act' \in [Writers -> Actions] /\ act'[w] = NoAct
      /\ \A v \in Writers : v # w => act'[v] = act[v]
  BY <1>1, NoActTyped
<1>5. Kinds'
  BY <1>1, <1>3, <1>4 DEF Typed, Kinds, TakeBack
<1>6. Locks'
  BY <1>1, <1>4 DEF Typed, Locks, TakeBack, NoAct
<1>7. WriterStages'
  BY <1>1, <1>4, NoActTyped DEF Typed, WriterStages, NoAct
<1>8. EngineStages'
  BY <1>1 DEF Typed, EngineStages
<1> QED
  BY <1>1, <1>5, <1>6, <1>7, <1>8, StaysGoesOn DEF Typed, TakeBack

LEMMA EraseTyped ==
  ASSUME Typed, NEW w \in Writers, NEW m \in Msgs, Erase(w, m)
  PROVE  Typed' /\ GoesOn
<1> DEFINE a == [NoAct EXCEPT !.pc = "erased", !.todo = {m}]
<1>1. /\ act[w].pc = "idle" /\ lock = "free" /\ lock' = w /\ act' = [act EXCEPT ![w] = a]
      /\ m \in srv.there /\ ServerDeletes(m)
  BY DEF Erase, Is, Hold, Becomes
<1>2. GoesOn
  BY <1>1, MirrorAssumption, TypedServer, DeletesGoOn
<1>3. a \in Actions /\ Coherent(a) /\ a.pc = "erased" /\ a.todo = {m}
  BY NoActTyped DEF NoAct, Actions, Coherent
<1>4. Deleted(log', m)
  <2> DEFINE e == [kind |-> "deleted", id |-> m, label |-> "inbox"]
  <2>1. log' = Append(log, e) /\ log \in Histories /\ e \in Change
    BY <1>1, MirrorAssumption DEF ServerDeletes, Record, Typed, Kinds, Change
  <2>2. e.id = m /\ e.kind = "deleted"
    OBVIOUS
  <2> HIDE DEF e
  <2>3. Len(log) + 1 \in DOMAIN log' /\ log'[Len(log) + 1] = e
    BY <2>1, Recorded
  <2> QED
    BY <2>2, <2>3 DEF Deleted
<1>5. /\ SameStore /\ floor' = floor /\ eng' = eng /\ reader' = reader /\ torn' = torn
      /\ acts' \in 0..MaxActs /\ asked' \in SUBSET (Msgs \X Labels \X BOOLEAN)
      /\ faults' \in 0..MaxFaults
  BY ForgetIs, MirrorAssumption DEF Erase, Typed, Kinds
<1> HIDE DEF a
<1>6. Typed'
  BY <1>1, <1>2, <1>3, <1>4, <1>5, WriterTyped
<1> QED
  BY <1>2, <1>6

LEMMA EraseHereTyped ==
  ASSUME Typed, NEW w \in Writers, EraseHere(w)
  PROVE  Typed' /\ GoesOn
<1>1. /\ act[w].pc = "erased" /\ lock = w /\ lock' = "free"
      /\ act' = [Met EXCEPT ![w] = NoAct] /\ act \in [Writers -> Actions]
      /\ srv' = srv /\ log' = log /\ floor' = floor /\ gen' = gen /\ cur' = cur /\ eng' = eng
  BY DEF EraseHere, Is, Free, SameServer, Typed, Kinds, Locks
<1>2. mail' \in Mail
  BY DropWrites DEF EraseHere, Typed, Kinds
<1>3. /\ act' \in [Writers -> Actions] /\ act'[w] = NoAct
      /\ \A v \in Writers : v # w => act'[v] = Met[v]
  BY <1>1, NoActTyped, MetIs
<1>4. Kinds'
  BY <1>1, <1>2, <1>3 DEF Typed, Kinds, EraseHere
<1>5. Locks'
  BY <1>1, <1>3, MetIs, LockHeld DEF Typed, Locks, EraseHere, NoAct
<1>6. \A v \in Writers : Coherent(act'[v])
  BY <1>1, <1>3, NoActTyped, CoherentMet DEF Typed, WriterStages
<1>7. WriterStages'
  BY <1>1, <1>3, <1>6, NoActTyped, MetIs DEF Typed, WriterStages, NoAct
<1>8. EngineStages'
  BY <1>1 DEF Typed, EngineStages
<1> QED
  BY <1>1, <1>4, <1>5, <1>7, <1>8, StaysGoesOn DEF Typed, EraseHere

LEMMA OpenThreadTyped ==
  ASSUME Typed, NEW m \in Msgs, OpenThread(m)
  PROVE  Typed' /\ GoesOn
<1>1. /\ reader' \in Readings /\ reader'.pc = "write" /\ lock = "free" /\ lock' = "reader"
  BY Fetched DEF OpenThread, Hold, Readings
<1>2. acts' \in 0..MaxActs
  BY MirrorAssumption DEF OpenThread, Typed, Kinds
<1>3. /\ SameServer /\ SameStore /\ UNCHANGED <<eng, act, asked, torn, faults>>
  BY DEF OpenThread
<1>4. Kinds'
  BY <1>1, <1>2, <1>3 DEF Typed, Kinds, SameServer, SameStore
<1>5. Locks'
  BY <1>1, <1>3, LockHeld DEF Typed, Locks
<1>6. WriterStages' /\ EngineStages'
  BY <1>3 DEF Typed, WriterStages, EngineStages, SameServer, SameStore
<1> QED
  BY <1>3, <1>4, <1>5, <1>6, StaysGoesOn DEF Typed, SameServer

LEMMA CrashTyped ==
  ASSUME Typed, Crash
  PROVE  Typed' /\ GoesOn
<1>1. /\ act' = [w \in Writers |-> NoAct] /\ reader' = NoReader /\ lock' = "free" /\ eng' = Resting
      /\ SameServer /\ SameStore /\ UNCHANGED <<asked, acts>>
  BY DEF Crash, Free, Rests
<1>2. /\ act' \in [Writers -> Actions] /\ \A w \in Writers : act'[w] = NoAct
  BY <1>1, NoActTyped
<1>3. Kinds'
  BY <1>1, <1>2, RestingTyped, FaultTyped DEF Typed, Kinds, SameServer, SameStore, Crash
<1>4. Locks'
  BY <1>1, <1>2, LockHeld DEF Locks, Resting, NoReader, NoAct
<1>5. WriterStages'
  <2>1. NoAct.pc = "idle"
    BY DEF NoAct
  <2> QED
    BY <1>2, <2>1, NoActTyped DEF WriterStages
<1>6. EngineStages'
  BY <1>1 DEF Typed, EngineStages, Resting, SameStore
<1> QED
  BY <1>1, <1>3, <1>4, <1>5, <1>6, StaysGoesOn DEF Typed, SameServer

LEMMA NextTyped == Typed /\ [Next]_vars => Typed' /\ GoesOn
<1> SUFFICES ASSUME Typed, [Next]_vars PROVE Typed' /\ GoesOn
  OBVIOUS
<1>1. CASE UNCHANGED vars
  <2>1. SameServer
    BY <1>1 DEF vars, SameServer
  <2>2. Kinds' /\ Locks' /\ EngineStages' /\ WriterStages' /\ True(log', srv')
    BY <1>1 DEF vars, Typed, Kinds, Locks, EngineStages, WriterStages
  <2> QED
    BY <2>1, <2>2, StaysGoesOn DEF Typed
<1>2. CASE Next
  <2>1. CASE Look \/ Compare \/ EngineFails \/ PageRefused
    BY <2>1, LookTyped, CompareTyped, EngineFailsTyped, PageRefusedTyped
  <2>2. CASE EngineGoesOn
    BY <2>2, FetchTyped, ReplayTyped, BeginTyped, ListTyped, RefetchTyped, RewriteTyped,
       PageReadTyped, PageWriteTyped, DifferTyped, RepairTyped DEF EngineGoesOn
  <2>3. CASE \E m \in Msgs : OtherDeletes(m) \/ Arrives(m) \/ OpenThread(m)
    BY <2>3, OtherDeletesTyped, ArrivesTyped, OpenThreadTyped
  <2>4. CASE \E m \in Msgs, l \in Labels, on \in BOOLEAN : OtherLabels(m, l, on)
    BY <2>4, OtherLabelsTyped
  <2>5. CASE \E w \in Writers : WriterGoesOn(w) \/ \E m \in Msgs : Erase(w, m)
    BY <2>5, TakeTyped, GiveUpTyped, TakeBackTyped, EraseHereTyped, EraseTyped DEF WriterGoesOn
  <2>6. CASE \E w \in Writers, ms \in SUBSET Msgs, l \in Labels, on \in BOOLEAN : Act(w, ms, l, on)
    BY <2>6, ActTyped
  <2>7. CASE StoreThread \/ LosesPlace \/ Crash
    BY <2>7, StoreThreadTyped, LosesPlaceTyped, CrashTyped
  <2> QED
    BY <1>2, <2>1, <2>2, <2>3, <2>4, <2>5, <2>6, <2>7 DEF Next
<1> QED
  BY <1>1, <1>2

----------------------------------------------------------------------------
(* What the engine and the reader hold is what the server has, or the      *)
(* history has yet to tell; so is what a load has gone past and not found.  *)

EngineHolds ==
    /\ eng.pc \in {"fetch", "write"} => \A m \in Msgs :
          m \in eng.want <=> Names(log, mail.there, cur.state, eng.upTo, m)
    /\ eng.pc \in {"write", "repair"} => eng.got.there \subseteq eng.want
    /\ eng.pc = "write" => \A m \in eng.want : Fits(log, srv, eng.got, m, eng.upTo)
    /\ eng.pc = "repair" => \A m \in eng.want : Fits(log, srv, eng.got, m, cur.state)
    /\ eng.pc = "pagewrite" =>
          eng.got.there \subseteq {cur.pos} /\ Fits(log, srv, eng.got, cur.pos, cur.state)
    /\ eng.pc = "rewrite" => \A m \in eng.got.there : Fits(log, srv, eng.got, m, cur.state)
    /\ eng.pc = "refetch" => \A m \in Msgs : Place(log, srv, eng.got.there, m, cur.state)
    /\ eng.pc = "rewrite" => \A m \in Msgs : Place(log, srv, eng.got.there \cup eng.want, m, cur.state)

ReaderHolds ==
    reader.pc = "write" =>
        reader.got.there \subseteq {reader.id} /\ Fits(log, srv, reader.got, reader.id, cur.state)

Passed ==
    cur.state # NoState /\ ~cur.done => \A m \in Msgs :
        m < cur.pos /\ gen[m] < cur.gen => Place(log, srv, {}, m, cur.state)

Reads == EngineHolds /\ ReaderHolds /\ Passed

LEMMA KeepsFit ==
  ASSUME Typed, GoesOn, NEW s \in Int, s <= Len(log), NEW m \in Msgs
  PROVE  /\ \A held : Place(log, srv, held, m, s) => Place(log', srv', held, m, s)
         /\ \A c : \A l \in Labels : Same(log, srv, c, m, l, s) => Same(log', srv', c, m, l, s)
         /\ \A c : Fits(log, srv, c, m, s) => Fits(log', srv', c, m, s)
         /\ \A l \in Labels : (On(srv, m, l) <=> On(srv', m, l)) \/ Told(log', m, l, s)
         /\ \A l \in Labels : Told(log, m, l, s) => Told(log', m, l, s)
BY LaterKeeps DEF Typed, Kinds, GoesOn

LEMMA StateIsPlace ==
  ASSUME Typed
  PROVE  /\ cur.state \in Int /\ cur.state <= Len(log) /\ Len(log) \in Nat
         /\ cur.state # NoState => cur.state \in Nat
         /\ eng.upTo \in Int /\ cur.pos \in Msgs /\ Msgs \subseteq Nat
BY RestingTyped, MsgsAreNumbers DEF Typed, Kinds, Histories, Cursor, Engines

LEMMA KeepsNames ==
  ASSUME Typed, GoesOn, eng.pc \in {"fetch", "write"}, NEW held, NEW m \in Msgs
  PROVE  Names(log, held, cur.state, eng.upTo, m) <=> Names(log', held, cur.state, eng.upTo, m)
<1>1. \A i \in (cur.state + 1)..eng.upTo : i \in DOMAIN log
  BY DEF Typed, Kinds, EngineStages, Histories
<1>2. \A i \in (cur.state + 1)..eng.upTo : log'[i] = log[i]
  BY <1>1 DEF GoesOn, Later
<1> QED
  BY <1>2 DEF Names

LEMMA EngineHoldsOn ==
  ASSUME Typed, GoesOn, EngineHolds, eng' = eng, cur'.state = cur.state,
         eng.pc = "pagewrite" => cur'.pos = cur.pos,
         eng.pc \in {"fetch", "write"} => mail'.there = mail.there
  PROVE  EngineHolds'
<1> USE StateIsPlace
<1>1. eng.pc \in {"fetch", "write"} => \A m \in Msgs :
          m \in eng.want <=> Names(log', mail'.there, cur.state, eng.upTo, m)
  BY KeepsNames DEF EngineHolds
<1>2. eng.pc = "write" => eng.upTo <= Len(log) /\ eng.want \subseteq Msgs
  BY DEF Typed, EngineStages, Kinds, Engines
<1>3. eng.pc = "write" => \A m \in eng.want : Fits(log', srv', eng.got, m, eng.upTo)
  BY <1>2, KeepsFit DEF EngineHolds
<1>4. eng.want \subseteq Msgs /\ eng.got.there \subseteq Msgs
  BY DEF Typed, Kinds, Engines, Mail
<1>5. /\ eng.pc = "repair" => \A m \in eng.want : Fits(log', srv', eng.got, m, cur.state)
      /\ eng.pc = "pagewrite" => Fits(log', srv', eng.got, cur.pos, cur.state)
      /\ eng.pc = "rewrite" => \A m \in eng.got.there : Fits(log', srv', eng.got, m, cur.state)
  BY <1>4, KeepsFit DEF EngineHolds
<1>6. /\ eng.pc = "refetch" => \A m \in Msgs : Place(log', srv', eng.got.there, m, cur.state)
      /\ eng.pc = "rewrite" => \A m \in Msgs : Place(log', srv', eng.got.there \cup eng.want, m, cur.state)
  BY <1>4, KeepsFit DEF EngineHolds
<1> QED
  BY <1>1, <1>3, <1>5, <1>6 DEF EngineHolds

LEMMA ReaderHoldsOn ==
  ASSUME Typed, GoesOn, ReaderHolds, reader' = reader,
         reader.pc = "write" => cur'.state = cur.state
  PROVE  ReaderHolds'
<1>1. reader.id \in Msgs
  BY DEF Typed, Kinds, Readings
<1> QED
  BY <1>1, StateIsPlace, KeepsFit DEF ReaderHolds

LEMMA PassedOn ==
  ASSUME Typed, GoesOn, Passed, cur'.state = cur.state, cur'.gen = cur.gen,
         cur'.done = cur.done, cur'.pos <= cur.pos, cur'.pos \in Nat,
         \A m \in Msgs : gen'[m] \in {gen[m], cur.gen}
  PROVE  Passed'
<1>1. cur.gen \in Nat
  BY DEF Typed, Kinds, Cursor
<1>2. \A m \in Msgs : gen'[m] < cur.gen => gen[m] < cur.gen
  BY <1>1
<1>3. \A m \in Msgs : m < cur'.pos => m < cur.pos
  BY StateIsPlace
<1> QED
  BY <1>2, <1>3, StateIsPlace, KeepsFit DEF Passed

\* What was just read of the server is what it has.
LEMMA JustRead ==
  ASSUME Typed, NEW ms, NEW m \in Msgs, m \in ms, NEW s
  PROVE  Fits(log, srv, Upsert(NoMail, srv, ms), m, s)
BY Fetched DEF Fits, Place, Same

LEMMA ReadsOn ==
  ASSUME Typed, GoesOn, Reads, eng' = eng, reader' = reader, cur' = cur,
         eng.pc \in {"fetch", "write"} => mail'.there = mail.there,
         \A m \in Msgs : gen'[m] \in {gen[m], cur.gen}
  PROVE  Reads'
<1>1. cur'.pos <= cur.pos /\ cur'.pos \in Nat
  BY StateIsPlace
<1> QED
  BY <1>1, EngineHoldsOn, ReaderHoldsOn, PassedOn DEF Reads

\* A step of the engine that reads.
LEMMA LookReads ==
  ASSUME Typed, Reads, Look
  PROVE  Reads'
<1> DEFINE now == Len(log)
<1>1. GoesOn /\ Typed'
  BY LookTyped
<1>2. cur' = cur /\ gen' = gen /\ reader' = reader /\ log' = log /\ mail' = mail
  BY DEF Look, SameStore, SameServer
<1>3. ReaderHolds' /\ Passed'
  BY <1>1, <1>2, StateIsPlace, ReaderHoldsOn, PassedOn DEF Reads
<1>4. EngineHolds'
  <2>1. CASE cur.state = NoState \/ cur.state < floor
    <3>1. eng'.pc = "begin"
      BY <2>1 DEF Look, Resting
    <3> QED
      BY <3>1 DEF EngineHolds
  <2>2. CASE ~(cur.state = NoState \/ cur.state < floor)
    <3>1. eng' = [Resting EXCEPT !.pc = "fetch", !.upTo = now, !.want = Wanted(Entries(cur.state, now))]
      BY <2>2 DEF Look
    <3>2. cur.state \in Nat /\ cur.state < now /\ now \in Nat /\ log \in Histories
      BY <2>2, StateIsPlace DEF Look, Typed, Kinds
    <3>3. eng'.pc = "fetch" /\ eng'.upTo = now /\ eng'.want = Wanted(Entries(cur.state, now))
      BY <3>1 DEF Resting
    <3>4. \A m : m \in eng'.want <=> Names(log, mail.there, cur.state, now, m)
      BY <3>2, <3>3, WantedIs
    <3> QED
      BY <1>2, <3>3, <3>4 DEF EngineHolds
  <2> QED
    BY <2>1, <2>2
<1> QED
  BY <1>3, <1>4 DEF Reads

LEMMA FetchReads ==
  ASSUME Typed, Reads, Fetch
  PROVE  Reads'
<1> DEFINE got == Upsert(NoMail, srv, eng.want)
<1>1. GoesOn
  BY FetchTyped
<1>2. cur' = cur /\ gen' = gen /\ reader' = reader /\ log' = log /\ mail' = mail /\ srv' = srv
  BY DEF Fetch, SameStore, SameServer
<1>3. ReaderHolds' /\ Passed'
  BY <1>1, <1>2, StateIsPlace, ReaderHoldsOn, PassedOn DEF Reads
<1>4. /\ eng.pc = "fetch" /\ eng'.pc = "write" /\ eng'.upTo = eng.upTo /\ eng'.want = eng.want
      /\ eng'.got = got /\ eng.want \subseteq Msgs
  BY DEF Fetch, Doing, Typed, Kinds, Engines
<1>5. got.there \subseteq eng.want /\ \A m \in eng.want : Fits(log, srv, got, m, eng.upTo)
  BY <1>4, Fetched, JustRead
<1> HIDE DEF got
<1>6. EngineHolds'
  BY <1>2, <1>4, <1>5 DEF EngineHolds, Reads
<1> QED
  BY <1>3, <1>6 DEF Reads

LEMMA ListReads ==
  ASSUME Typed, Reads, List
  PROVE  Reads'
<1>1. GoesOn
  BY ListTyped
<1>2. cur' = cur /\ gen' = gen /\ reader' = reader /\ log' = log /\ mail' = mail /\ srv' = srv
  BY DEF List, SameStore, SameServer
<1>3. ReaderHolds' /\ Passed'
  BY <1>1, <1>2, StateIsPlace, ReaderHoldsOn, PassedOn DEF Reads
<1>4. eng'.pc = "refetch" /\ eng'.got = srv
  BY DEF List, Typed, Kinds, Engines
<1>5. EngineHolds'
  BY <1>2, <1>4 DEF EngineHolds, Place
<1> QED
  BY <1>3, <1>5 DEF Reads

LEMMA RefetchReads ==
  ASSUME Typed, Reads, Refetch
  PROVE  Reads'
<1> DEFINE got == Upsert(NoMail, srv, eng.want)
<1>1. GoesOn
  BY RefetchTyped
<1>2. cur' = cur /\ gen' = gen /\ reader' = reader /\ log' = log /\ mail' = mail /\ srv' = srv
  BY DEF Refetch, SameStore, SameServer
<1>3. ReaderHolds' /\ Passed'
  BY <1>1, <1>2, StateIsPlace, ReaderHoldsOn, PassedOn DEF Reads
<1>4. /\ eng.pc = "refetch" /\ eng'.pc = "rewrite" /\ eng'.got = got
      /\ eng'.want = eng.got.there \ eng.want
  BY DEF Refetch, Doing, Typed, Kinds, Engines
<1>5. got.there = eng.want \cap srv.there /\ srv.there \subseteq Msgs
  BY Fetched DEF Typed, Kinds, Mail
<1>6. \A m \in got.there : Fits(log, srv, got, m, cur.state)
  BY <1>5, JustRead
<1>7. \A m \in Msgs : Place(log, srv, got.there \cup eng'.want, m, cur.state)
  BY <1>4, <1>5 DEF Reads, EngineHolds, Place
<1> HIDE DEF got
<1>8. EngineHolds'
  BY <1>2, <1>4, <1>6, <1>7 DEF EngineHolds
<1> QED
  BY <1>3, <1>8 DEF Reads

LEMMA PageReadReads ==
  ASSUME Typed, Reads, PageRead
  PROVE  Reads'
<1> DEFINE got == Upsert(NoMail, srv, {cur.pos})
<1>1. GoesOn
  BY PageReadTyped
<1>2. cur' = cur /\ gen' = gen /\ reader' = reader /\ log' = log /\ mail' = mail /\ srv' = srv
  BY DEF PageRead, SameStore, SameServer
<1>3. ReaderHolds' /\ Passed'
  BY <1>1, <1>2, StateIsPlace, ReaderHoldsOn, PassedOn DEF Reads
<1>4. eng'.pc = "pagewrite" /\ eng'.got = got
  BY DEF PageRead, Resting
<1>5. got.there \subseteq {cur.pos} /\ Fits(log, srv, got, cur.pos, cur.state)
  BY StateIsPlace, Fetched, JustRead
<1> HIDE DEF got
<1>6. EngineHolds'
  BY <1>2, <1>4, <1>5 DEF EngineHolds
<1> QED
  BY <1>3, <1>6 DEF Reads

LEMMA CompareReads ==
  ASSUME Typed, Reads, Compare
  PROVE  Reads'
<1>1. GoesOn
  BY CompareTyped
<1>2. cur' = cur /\ gen' = gen /\ reader' = reader
  BY DEF Compare, SameStore, SameServer
<1>3. ReaderHolds' /\ Passed'
  BY <1>1, <1>2, StateIsPlace, ReaderHoldsOn, PassedOn DEF Reads
<1>4. eng'.pc = "differ"
  BY DEF Compare, Resting
<1>5. EngineHolds'
  BY <1>4 DEF EngineHolds
<1> QED
  BY <1>3, <1>5 DEF Reads

LEMMA DifferReads ==
  ASSUME Typed, Reads, Differ
  PROVE  Reads'
<1> DEFINE got == Upsert(NoMail, srv, eng.want)
<1>1. GoesOn
  BY DifferTyped
<1>2. cur' = cur /\ gen' = gen /\ reader' = reader /\ log' = log /\ mail' = mail /\ srv' = srv
  BY DEF Differ, SameStore, SameServer
<1>3. ReaderHolds' /\ Passed'
  BY <1>1, <1>2, StateIsPlace, ReaderHoldsOn, PassedOn DEF Reads
<1>4. eng'.pc = "repair" /\ eng'.want = eng.want /\ eng'.got = got /\ eng.want \subseteq Msgs
  BY DEF Differ, Typed, Kinds, Engines
<1>5. got.there \subseteq eng.want /\ \A m \in eng.want : Fits(log, srv, got, m, cur.state)
  BY <1>4, Fetched, JustRead
<1> HIDE DEF got
<1>6. EngineHolds'
  BY <1>2, <1>4, <1>5 DEF EngineHolds
<1> QED
  BY <1>3, <1>6 DEF Reads

LEMMA EngineFailsReads ==
  ASSUME Typed, Reads, EngineFails
  PROVE  Reads'
<1>1. GoesOn
  BY EngineFailsTyped
<1>2. cur' = cur /\ gen' = gen /\ reader' = reader
  BY DEF EngineFails, SameStore, SameServer
<1>3. ReaderHolds' /\ Passed'
  BY <1>1, <1>2, StateIsPlace, ReaderHoldsOn, PassedOn DEF Reads
<1>4. EngineHolds'
  BY EngineRests DEF EngineFails, EngineHolds
<1> QED
  BY <1>3, <1>4 DEF Reads

LEMMA RestedHolds == Rests => EngineHolds'
BY EngineRests DEF EngineHolds

LEMMA BeginReads ==
  ASSUME Typed, Reads, Begin
  PROVE  Reads'
<1>1. /\ reader' = reader /\ reader.pc # "write" /\ eng'.pc \in {"list", "page"} /\ cur'.pos = 1
  BY LockHeld DEF Begin, Doing, Resting
<1>2. EngineHolds' /\ ReaderHolds'
  BY <1>1 DEF EngineHolds, ReaderHolds
<1>3. Passed'
  BY <1>1, MsgsAreNumbers DEF Passed
<1> QED
  BY <1>2, <1>3 DEF Reads

LEMMA PageRefusedReads ==
  ASSUME Typed, Reads, PageRefused
  PROVE  Reads'
<1>1. GoesOn
  BY PageRefusedTyped
<1>2. /\ cur'.pos = 1 /\ cur'.state = cur.state /\ cur'.gen = cur.gen /\ cur'.done = cur.done
      /\ gen' = gen /\ eng' = eng /\ reader' = reader /\ mail' = mail /\ eng.pc = "idle"
  BY DEF PageRefused, Doing, Typed, Kinds, Cursor
<1>3. EngineHolds' /\ ReaderHolds'
  BY <1>1, <1>2, EngineHoldsOn, ReaderHoldsOn DEF Reads
<1>4. Passed'
  BY <1>2, MsgsAreNumbers DEF Passed
<1> QED
  BY <1>3, <1>4 DEF Reads

LEMMA BatchHeld == Typed /\ Reads /\ eng.pc = "write" => Batch
BY TypedServer DEF Typed, Reads, EngineHolds, EngineStages, Kinds, Engines, Batch, Server, Histories

LEMMA ReplayReads ==
  ASSUME Typed, Reads, Replay
  PROVE  Reads'
<1>1. /\ eng.pc = "write" /\ reader' = reader /\ reader.pc # "write" /\ Rests
      /\ srv' = srv /\ log' = log /\ mail' = Applied
      /\ cur'.state = eng.upTo /\ cur'.gen = cur.gen /\ cur'.done = cur.done /\ cur'.pos = cur.pos
      /\ gen' = Stamped(mail'.there \cap eng.got.there, cur.gen)
  BY LockHeld DEF Replay, Doing, SameServer, NextPlace, Typed, Kinds, Cursor
<1>2. EngineHolds' /\ ReaderHolds'
  BY <1>1, RestedHolds DEF ReaderHolds
<1>3. Batch
  BY <1>1, BatchHeld
<1>4. ASSUME cur'.state # NoState, ~cur'.done, NEW m \in Msgs, m < cur'.pos, gen'[m] < cur'.gen,
             m \in srv.there, ~Moved(log, m, eng.upTo)
      PROVE  FALSE
  <2>1. cur.gen \in Nat /\ gen \in [Msgs -> Nat]
    BY DEF Typed, Kinds, Cursor
  <2>2. gen'[m] = IF m \in mail'.there \cap eng.got.there THEN cur.gen ELSE gen[m]
    BY <1>1, <2>1, StampedTyped
  <2>3. m \notin mail'.there \cap eng.got.there /\ gen[m] < cur.gen
    BY <1>1, <1>4, <2>1, <2>2
  <2>4. cur.state # NoState
    BY RestingTyped, <1>3 DEF Batch
  <2>5. Moved(log, m, cur.state)
    BY <1>1, <1>4, <2>3, <2>4 DEF Reads, Passed, Place
  <2>6. PICK i \in DOMAIN log : i > cur.state /\ log[i].id = m /\ log[i].kind \in {"added", "deleted"}
    BY <2>5 DEF Moved
  <2>7. i \in (cur.state + 1)..eng.upTo
    BY <1>3, <1>4, <2>6 DEF Moved, Batch, Server, Histories
  <2>8. log[i].kind = "added"
    BY <1>4, <2>6 DEF Typed, True
  <2>9. m \in eng.want
    BY <1>3, <2>6, <2>7, <2>8 DEF Batch, Names
  <2>10. m \in eng.got.there
    BY <1>3, <1>4, <2>9 DEF Batch, Fits, Place
  <2>11. FitsBut(Applied, m, eng.upTo)
    BY <1>3, <2>10, AppliedFits
  <2>12. m \in Applied.there
    BY <1>4, <2>11 DEF FitsBut, Place
  <2> QED
    BY <1>1, <2>3, <2>10, <2>12
<1>5. Passed'
  BY <1>1, <1>4 DEF Passed, Place
<1> QED
  BY <1>2, <1>5 DEF Reads

LEMMA RewriteReads ==
  ASSUME Typed, Reads, Rewrite
  PROVE  Reads'
<1>1. reader' = reader /\ reader.pc # "write" /\ Rests /\ cur'.done
  BY LockHeld DEF Rewrite, Doing, Typed, Kinds, Cursor
<1> QED
  BY <1>1, RestedHolds DEF Reads, ReaderHolds, Passed

LEMMA RepairReads ==
  ASSUME Typed, Reads, Repair
  PROVE  Reads'
<1>1. GoesOn
  BY RepairTyped
<1>2. /\ reader' = reader /\ cur' = cur /\ Rests /\ gen' = Stamped(eng.got.there, cur.gen)
      /\ gen \in [Msgs -> Nat] /\ cur.gen \in Nat
  BY DEF Repair, Typed, Kinds, Cursor
<1>3. \A m \in Msgs : gen'[m] \in {gen[m], cur.gen}
  BY <1>2, StampedTyped
<1>4. ReaderHolds' /\ Passed'
  BY <1>1, <1>2, <1>3, StateIsPlace, ReaderHoldsOn, PassedOn DEF Reads
<1> QED
  BY <1>2, <1>4, RestedHolds DEF Reads

LEMMA PageWriteReads ==
  ASSUME Typed, Reads, PageWrite
  PROVE  Reads'
<1>1. GoesOn
  BY PageWriteTyped
<1>2. /\ eng.pc = "pagewrite" /\ reader' = reader /\ Rests /\ gen' = Stamped(eng.got.there, cur.gen)
      /\ srv' = srv /\ log' = log
      /\ cur'.state = cur.state /\ cur'.gen = cur.gen
      /\ cur'.done \/ (cur'.done = cur.done /\ cur'.pos = cur.pos + 1)
      /\ gen \in [Msgs -> Nat] /\ cur.gen \in Nat
  BY DEF PageWrite, Doing, SameServer, Typed, Kinds, Cursor
<1>3. ReaderHolds'
  BY <1>1, <1>2, ReaderHoldsOn DEF Reads
<1>4. ASSUME cur'.state # NoState, ~cur'.done, NEW m \in Msgs, m < cur'.pos, gen'[m] < cur'.gen
      PROVE  Place(log', srv', {}, m, cur'.state)
  <2>1. gen'[m] = IF m \in eng.got.there THEN cur.gen ELSE gen[m]
    BY <1>2, StampedTyped
  <2>2. m \notin eng.got.there /\ gen[m] < cur.gen
    BY <1>2, <1>4, <2>1
  <2>3. ~cur.done /\ cur'.pos = cur.pos + 1
    BY <1>2, <1>4
  <2>4. m < cur.pos \/ m = cur.pos
    BY <1>4, <2>3, StateIsPlace
  <2>5. CASE m < cur.pos
    BY <1>2, <1>4, <2>2, <2>3, <2>5 DEF Reads, Passed
  <2>6. CASE m = cur.pos
    BY <1>2, <2>2, <2>6 DEF Reads, EngineHolds, Fits, Place
  <2> QED
    BY <2>4, <2>5, <2>6
<1>5. Passed'
  BY <1>4 DEF Passed
<1> QED
  BY <1>2, <1>3, <1>5, RestedHolds DEF Reads

LEMMA StoreThreadReads ==
  ASSUME Typed, Reads, StoreThread
  PROVE  Reads'
<1>1. GoesOn
  BY StoreThreadTyped
<1>2. /\ reader'.pc = "idle" /\ cur' = cur /\ eng' = eng
      /\ eng.pc \in {"idle", "pagewrite"}
      /\ gen' = Stamped(reader.got.there, cur.gen) /\ gen \in [Msgs -> Nat] /\ cur.gen \in Nat
  BY LockHeld DEF StoreThread, NoReader, Typed, Kinds, Cursor
<1>3. \A m \in Msgs : gen'[m] \in {gen[m], cur.gen}
  BY <1>2, StampedTyped
<1>4. EngineHolds' /\ Passed'
  BY <1>1, <1>2, <1>3, StateIsPlace, EngineHoldsOn, PassedOn DEF Reads
<1> QED
  BY <1>2, <1>4 DEF Reads, ReaderHolds

LEMMA OpenThreadReads ==
  ASSUME Typed, Reads, NEW m \in Msgs, OpenThread(m)
  PROVE  Reads'
<1> DEFINE got == Upsert(NoMail, srv, {m})
<1>1. GoesOn
  BY OpenThreadTyped
<1>2. /\ cur' = cur /\ eng' = eng /\ gen' = gen /\ mail' = mail /\ srv' = srv /\ log' = log
      /\ reader' = [pc |-> "write", id |-> m, got |-> got]
  BY DEF OpenThread, SameStore, SameServer
<1>3. EngineHolds' /\ Passed'
  BY <1>1, <1>2, StateIsPlace, EngineHoldsOn, PassedOn DEF Reads
<1>4. got.there \subseteq {m} /\ Fits(log, srv, got, m, cur.state)
  BY Fetched, JustRead
<1> HIDE DEF got
<1>5. ReaderHolds'
  BY <1>2, <1>4 DEF ReaderHolds
<1> QED
  BY <1>3, <1>5 DEF Reads

\* The store's list of messages stands while the engine holds a batch.
LEMMA WritersRead ==
  ASSUME Typed, Reads, NEW w \in Writers,
         \/ Take(w) \/ GiveUp(w) \/ TakeBack(w) \/ EraseHere(w)
         \/ \E m \in Msgs : Erase(w, m)
         \/ \E ms \in SUBSET Msgs, l \in Labels, on \in BOOLEAN : Act(w, ms, l, on)
  PROVE  Reads'
<1>1. GoesOn
  BY TakeTyped, GiveUpTyped, TakeBackTyped, EraseHereTyped, EraseTyped, ActTyped
<1>2. cur' = cur /\ eng' = eng /\ gen' = gen /\ reader' = reader
  BY DEF Take, GiveUp, TakeBack, EraseHere, Erase, Act, SameStore
<1>3. eng.pc \in {"fetch", "write"} => mail'.there = mail.there
  <2>1. CASE Take(w) \/ GiveUp(w) \/ \E m \in Msgs : Erase(w, m)
    BY <2>1 DEF Take, GiveUp, Erase, SameStore
  <2>2. CASE TakeBack(w)
    <3>1. mail' = Label(mail, NotTaken(w), act[w].label, ~act[w].on)
      BY <2>2 DEF TakeBack
    <3>2. \A ms, l, on : Label(mail, ms, l, on).there = mail.there
      BY DEF Label, Typed, Kinds, Mail
    <3> QED
      BY <3>1, <3>2
  <2>3. CASE EraseHere(w)
    BY <2>3, LockHeld DEF EraseHere, Is, Typed, Locks
  <2>4. CASE \E ms \in SUBSET Msgs, l \in Labels, on \in BOOLEAN : Act(w, ms, l, on)
    BY <2>4, LockHeld DEF Act, Hold
  <2> QED
    BY <2>1, <2>2, <2>3, <2>4
<1> QED
  BY <1>1, <1>2, <1>3, ReadsOn

LEMMA OthersRead ==
  ASSUME Typed, Reads,
         \/ LosesPlace
         \/ \E m \in Msgs : OtherDeletes(m) \/ Arrives(m)
         \/ \E m \in Msgs, l \in Labels, on \in BOOLEAN : OtherLabels(m, l, on)
  PROVE  Reads'
<1>1. GoesOn
  BY LosesPlaceTyped, OtherDeletesTyped, ArrivesTyped, OtherLabelsTyped
<1>2. cur' = cur /\ eng' = eng /\ gen' = gen /\ reader' = reader /\ mail' = mail
  BY DEF LosesPlace, OtherDeletes, Arrives, OtherLabels, SameStore, SameActors
<1> QED
  BY <1>1, <1>2, ReadsOn

LEMMA CrashReads ==
  ASSUME Typed, Reads, Crash
  PROVE  Reads'
<1>1. GoesOn
  BY CrashTyped
<1>2. cur' = cur /\ gen' = gen /\ Rests /\ reader'.pc = "idle"
  BY DEF Crash, SameStore, NoReader
<1>3. Passed'
  BY <1>1, <1>2, StateIsPlace, PassedOn DEF Reads
<1> QED
  BY <1>2, <1>3, RestedHolds DEF Reads, ReaderHolds

LEMMA InitReads == Init => Reads
BY DEF Init, Reads, EngineHolds, ReaderHolds, Passed, Resting, NoReader

LEMMA NextReads == Typed /\ Reads /\ [Next]_vars => Reads'
<1> SUFFICES ASSUME Typed, Reads, [Next]_vars PROVE Reads'
  OBVIOUS
<1>1. CASE UNCHANGED vars
  BY <1>1 DEF vars, Reads, EngineHolds, ReaderHolds, Passed
<1>2. CASE Next
  <2>1. CASE Look \/ Compare \/ EngineFails \/ PageRefused
    BY <2>1, LookReads, CompareReads, EngineFailsReads, PageRefusedReads
  <2>2. CASE EngineGoesOn
    BY <2>2, FetchReads, ReplayReads, BeginReads, ListReads, RefetchReads, RewriteReads,
       PageReadReads, PageWriteReads, DifferReads, RepairReads DEF EngineGoesOn
  <2>3. CASE \E m \in Msgs : OtherDeletes(m) \/ Arrives(m) \/ OpenThread(m)
    BY <2>3, OthersRead, OpenThreadReads
  <2>4. CASE \E m \in Msgs, l \in Labels, on \in BOOLEAN : OtherLabels(m, l, on)
    BY <2>4, OthersRead
  <2>5. CASE \E w \in Writers : WriterGoesOn(w) \/ \E m \in Msgs : Erase(w, m)
    BY <2>5, WritersRead DEF WriterGoesOn
  <2>6. CASE \E w \in Writers, ms \in SUBSET Msgs, l \in Labels, on \in BOOLEAN : Act(w, ms, l, on)
    BY <2>6, WritersRead
  <2>7. CASE StoreThread \/ LosesPlace \/ Crash
    BY <2>7, StoreThreadReads, OthersRead, CrashReads
  <2> QED
    BY <1>2, <2>1, <2>2, <2>3, <2>4, <2>5, <2>6, <2>7 DEF Next
<1> QED
  BY <1>1, <1>2

----------------------------------------------------------------------------
(* The store agrees with the server, but for what the history has yet to   *)
(* tell, for what a person's action is on its way with, and for messages a *)
(* load has yet to come to: as long as no crash cut a write short and no   *)
(* pass met a rollback.                                                    *)

Calm == torn = {} /\ \A w \in Writers : act[w].pc = "back" /\ act[w].met => ~Owes(w)

Unloaded(m) == cur.state = NoState \/ (~cur.done /\ gen[m] < cur.gen)

\* What the comparison of the window leaves as it is.
Left(m) == m \in mail.there /\ \A l \in Labels : Same(log, srv, mail, m, l, cur.state)

Kept ==
    /\ eng.pc = "refetch" => \A m \in eng.got.there \ eng.want : Left(m)
    /\ eng.pc = "rewrite" => \A m \in eng.want \ eng.got.there : Left(m)

\* Taken back, an action leaves what the server has.
Undone(w, m) ==
    \/ On(srv, m, act[w].label) <=> ~act[w].on
    \/ Told(log, m, act[w].label, cur.state)
    \/ Unloaded(m)

Undoable ==
    \A w \in Writers : act[w].pc \in {"send", "back"} /\ ~act[w].met =>
        \A m \in NotTaken(w) : Undone(w, m)

Mirrors == \A m \in Msgs : Unloaded(m) \/ FitsBut(mail, m, cur.state)

Mirrored == Calm => Kept /\ Undoable /\ Mirrors

LEMMA WasCalm ==
  ASSUME Calm', torn \subseteq torn',
         \A w \in Writers : act[w].pc = "back" =>
             /\ act'[w].pc = "back"
             /\ act[w].met => act'[w].met
             /\ act'[w].did = act[w].did /\ act'[w].taken = act[w].taken
  PROVE  Calm
BY DEF Calm, Owes

\* An action still under way is still why, and one the server took is told.
LEMMA StillAhead ==
  ASSUME Typed, GoesOn, NEW m \in Msgs, NEW l \in Labels, Ahead(m, l),
         \A w \in Writers :
            /\ act[w].pc \in {"send", "back"} /\ act[w].label = l /\ m \in NotTaken(w)
            /\ On(srv, m, l) <=> ~act[w].on
            => \/ Told(log', m, l, cur.state)
               \/ /\ act'[w].pc \in {"send", "back"} /\ act'[w].label = l /\ act'[w].on = act[w].on
                  /\ m \in NotTaken(w)'
  PROVE  Ahead(m, l)' \/ Told(log', m, l, cur.state)
<1>1. PICK w \in Writers :
        /\ act[w].pc \in {"send", "back"} /\ act[w].label = l
        /\ m \in NotTaken(w) /\ (On(srv, m, l) <=> ~act[w].on)
  BY DEF Ahead
<1>2. (On(srv, m, l) <=> On(srv', m, l)) \/ Told(log', m, l, cur.state)
  BY StateIsPlace, KeepsFit
<1>3. CASE Told(log', m, l, cur.state)
  BY <1>3
<1>4. CASE ~Told(log', m, l, cur.state)
  BY <1>1, <1>2, <1>4 DEF Ahead
<1> QED
  BY <1>3, <1>4

\* The actions are where they were.
Alike ==
    \A w \in Writers :
        /\ act'[w].pc = act[w].pc /\ act'[w].label = act[w].label /\ act'[w].on = act[w].on
        /\ act'[w].did = act[w].did /\ act'[w].taken = act[w].taken

LEMMA AlikeAhead ==
  ASSUME Typed, GoesOn, Alike, NEW m \in Msgs, NEW l \in Labels, Ahead(m, l)
  PROVE  Ahead(m, l)' \/ Told(log', m, l, cur.state)
BY StillAhead DEF Alike, NotTaken

LEMMA FitsOn ==
  ASSUME Typed, GoesOn, NEW m \in Msgs, FitsBut(mail, m, cur.state), mail' = mail, cur'.state = cur.state,
         \A l \in Labels : Ahead(m, l) => Ahead(m, l)' \/ Told(log', m, l, cur.state)
  PROVE  FitsBut(mail, m, cur.state)'
<1>1. Place(log', srv', mail'.there, m, cur'.state)
  BY StateIsPlace, KeepsFit DEF FitsBut
<1>2. ASSUME NEW l \in Labels
      PROVE  Same(log', srv', mail', m, l, cur'.state) \/ Ahead(m, l)'
  <2>1. Same(log, srv, mail, m, l, cur.state) => Same(log', srv', mail', m, l, cur'.state)
    BY StateIsPlace, KeepsFit
  <2>2. Told(log', m, l, cur.state) => Same(log', srv', mail', m, l, cur'.state)
    BY DEF Same
  <2> QED
    BY <2>1, <2>2 DEF FitsBut
<1> QED
  BY <1>1, <1>2 DEF FitsBut

LEMMA UndoneOn ==
  ASSUME Typed, GoesOn, NEW w \in Writers, NEW m \in Msgs, Undone(w, m),
         act'[w].label = act[w].label, act'[w].on = act[w].on, act[w].label \in Labels,
         cur'.state = cur.state, Unloaded(m) => Unloaded(m)'
  PROVE  Undone(w, m)'
BY StateIsPlace, KeepsFit DEF Undone

\* The labels of the actions, and what they have yet to do.
LEMMA ActsAre ==
  ASSUME Typed, NEW w \in Writers
  PROVE  /\ act[w] \in Actions /\ act[w].label \in Labels /\ act[w].on \in BOOLEAN
         /\ NotTaken(w) \subseteq Msgs
         /\ act[w].pc \in {"idle", "erased"} => NotTaken(w) = {}
         /\ NotTaken(w) # {} => Owes(w)
BY DEF Typed, Kinds, WriterStages, Coherent, Actions, NotTaken, Owes

\* Neither the store nor an action changes; the server may, and what is read.
LEMMA StoreStays ==
  ASSUME Typed, GoesOn, Mirrored, Calm', mail' = mail, gen' = gen, act' = act, torn' = torn,
         cur'.state = cur.state, cur'.gen = cur.gen, cur'.done = cur.done
  PROVE  Calm /\ Undoable' /\ Mirrors'
<1>1. Calm
  BY WasCalm
<1>2. \A m \in Msgs : Unloaded(m)' <=> Unloaded(m)
  BY DEF Unloaded
<1>3. Mirrors'
  <2>1. Alike
    BY DEF Alike
  <2>2. \A m \in Msgs : FitsBut(mail, m, cur.state) => FitsBut(mail, m, cur.state)'
    BY <2>1, AlikeAhead, FitsOn
  <2> QED
    BY <1>1, <1>2, <2>2 DEF Mirrors, Mirrored
<1>4. Undoable'
  <2> SUFFICES ASSUME NEW w \in Writers, act'[w].pc \in {"send", "back"}, ~act'[w].met,
                      NEW m \in NotTaken(w)'
               PROVE  Undone(w, m)'
    BY DEF Undoable
  <2>1. m \in NotTaken(w) /\ m \in Msgs /\ act[w].label \in Labels
    BY ActsAre DEF NotTaken
  <2>2. Undone(w, m)
    BY <1>1, <2>1 DEF Mirrored, Undoable
  <2> QED
    BY <1>2, <2>1, <2>2, UndoneOn
<1> QED
  BY <1>1, <1>3, <1>4

LEMMA LeftOn ==
  ASSUME Typed, GoesOn, NEW m \in Msgs, Left(m), mail' = mail, cur'.state = cur.state
  PROVE  Left(m)'
BY StateIsPlace, KeepsFit DEF Left

LEMMA KeptOn ==
  ASSUME Typed, GoesOn, Kept, mail' = mail, cur'.state = cur.state,
         eng' = eng \/ eng'.pc \notin {"refetch", "rewrite"}
  PROVE  Kept'
<1>1. eng.want \subseteq Msgs /\ eng.got.there \subseteq Msgs
  BY DEF Typed, Kinds, Engines, Mail
<1>2. \A m \in Msgs : Left(m) => Left(m)'
  BY LeftOn
<1>3. CASE eng' = eng
  BY <1>1, <1>2, <1>3 DEF Kept
<1>4. CASE eng'.pc \notin {"refetch", "rewrite"}
  BY <1>4 DEF Kept
<1> QED
  BY <1>3, <1>4

LEMMA StaysMirrored ==
  ASSUME Typed, GoesOn, Mirrored, mail' = mail, gen' = gen, act' = act, torn' = torn,
         cur'.state = cur.state, cur'.gen = cur.gen, cur'.done = cur.done,
         eng' = eng \/ eng'.pc \notin {"refetch", "rewrite"}
  PROVE  Mirrored'
<1> SUFFICES ASSUME Calm' PROVE Kept' /\ Undoable' /\ Mirrors'
  BY DEF Mirrored
<1>1. Calm /\ Undoable' /\ Mirrors'
  BY StoreStays
<1>2. Kept'
  BY <1>1, KeptOn DEF Mirrored
<1> QED
  BY <1>1, <1>2

\* The server goes on, or the engine or the reader reads.
LEMMA OthersMirrored ==
  ASSUME Typed, Mirrored,
         \/ LosesPlace \/ Look \/ Compare \/ EngineFails \/ PageRefused \/ Fetch \/ PageRead \/ Differ
         \/ \E m \in Msgs : OtherDeletes(m) \/ Arrives(m) \/ OpenThread(m)
         \/ \E m \in Msgs, l \in Labels, on \in BOOLEAN : OtherLabels(m, l, on)
  PROVE  Mirrored'
<1>1. CASE \/ LosesPlace
           \/ \E m \in Msgs : OtherDeletes(m) \/ Arrives(m) \/ OpenThread(m)
           \/ \E m \in Msgs, l \in Labels, on \in BOOLEAN : OtherLabels(m, l, on)
  <2>1. GoesOn
    BY <1>1, LosesPlaceTyped, OtherDeletesTyped, ArrivesTyped, OtherLabelsTyped, OpenThreadTyped
  <2>2. cur' = cur /\ eng' = eng /\ gen' = gen /\ mail' = mail /\ act' = act /\ torn' = torn
    BY <1>1 DEF LosesPlace, OtherDeletes, Arrives, OtherLabels, OpenThread, SameStore, SameActors
  <2> QED
    BY <2>1, <2>2, StaysMirrored
<1>2. CASE Look \/ Compare \/ EngineFails \/ Fetch \/ PageRead \/ Differ
  <2>1. GoesOn
    BY <1>2, LookTyped, CompareTyped, EngineFailsTyped, FetchTyped, PageReadTyped, DifferTyped
  <2>2. cur' = cur /\ gen' = gen /\ mail' = mail /\ act' = act /\ torn' = torn
    BY <1>2 DEF Look, Compare, EngineFails, Fetch, PageRead, Differ, SameStore
  <2>3. eng'.pc \notin {"refetch", "rewrite"}
    <3>1. CASE Look
      BY <3>1 DEF Look, Resting
    <3>2. CASE Compare
      BY <3>2 DEF Compare, Resting
    <3>4. CASE EngineFails
      BY <3>4, EngineRests DEF EngineFails
    <3>5. CASE PageRead
      BY <3>5 DEF PageRead, Resting
    <3>3. CASE Fetch \/ Differ
      BY <3>3 DEF Fetch, Differ, Typed, Kinds, Engines
    <3> QED
      BY <1>2, <3>1, <3>2, <3>3, <3>4, <3>5
  <2> QED
    BY <2>1, <2>2, <2>3, StaysMirrored
<1>3. CASE PageRefused
  <2>1. GoesOn
    BY <1>3, PageRefusedTyped
  <2>2. /\ cur'.state = cur.state /\ cur'.gen = cur.gen /\ cur'.done = cur.done
        /\ eng' = eng /\ gen' = gen /\ mail' = mail /\ act' = act /\ torn' = torn
    BY <1>3 DEF PageRefused, Typed, Kinds, Cursor
  <2> QED
    BY <2>1, <2>2, StaysMirrored
<1> QED
  BY <1>1, <1>2, <1>3

LEMMA BeginMirrored ==
  ASSUME Typed, Mirrored, Begin
  PROVE  Mirrored'
<1>1. /\ cur'.gen = cur.gen + 1 /\ cur'.done = FALSE /\ gen' = gen
      /\ eng'.pc \in {"list", "page"} /\ cur.gen \in Nat
  BY DEF Begin, Resting, Typed, Kinds, Cursor
<1>2. \A m \in Msgs : Unloaded(m)'
  BY <1>1 DEF Typed, EngineStages, Kinds, Unloaded
<1>3. Kept'
  BY <1>1 DEF Kept
<1>4. Undoable'
  <2> SUFFICES ASSUME NEW w \in Writers, NEW m \in NotTaken(w)'
               PROVE  Undone(w, m)'
    BY DEF Undoable
  <2>1. act' = act
    BY DEF Begin
  <2>2. m \in Msgs
    BY <2>1, ActsAre DEF NotTaken
  <2> QED
    BY <1>2, <2>2 DEF Undone
<1> QED
  BY <1>2, <1>3, <1>4 DEF Mirrored, Mirrors

LEMMA ListMirrored ==
  ASSUME Typed, Mirrored, List
  PROVE  Mirrored'
<1> SUFFICES ASSUME Calm' PROVE Kept' /\ Undoable' /\ Mirrors'
  BY DEF Mirrored
<1>1. GoesOn
  BY ListTyped
<1>2. /\ cur' = cur /\ gen' = gen /\ mail' = mail /\ act' = act /\ torn' = torn
      /\ srv' = srv /\ log' = log
  BY DEF List, SameStore, SameServer
<1>3. Calm /\ Undoable' /\ Mirrors'
  BY <1>1, <1>2, StoreStays
<1>4. /\ eng'.pc = "refetch" /\ eng'.got = srv
      /\ eng'.want = {m \in srv.there : m \notin mail.there
                                   \/ srv.on \cap Of({m}) # mail.on \cap Of({m})}
  BY DEF List, Typed, Kinds, Engines
<1>5. ASSUME NEW m \in srv.there, m \notin eng'.want
      PROVE  Left(m)'
  <2>1. m \in mail.there /\ srv.on \cap Of({m}) = mail.on \cap Of({m})
    BY <1>4, <1>5
  <2>2. \A l \in Labels : On(srv, m, l) <=> On(mail, m, l)
    BY <2>1 DEF On, Of
  <2> QED
    BY <1>2, <2>1, <2>2 DEF Left, Same
<1>6. Kept'
  BY <1>4, <1>5 DEF Kept
<1> QED
  BY <1>3, <1>6

LEMMA RefetchMirrored ==
  ASSUME Typed, Mirrored, Refetch
  PROVE  Mirrored'
<1> SUFFICES ASSUME Calm' PROVE Kept' /\ Undoable' /\ Mirrors'
  BY DEF Mirrored
<1>1. GoesOn
  BY RefetchTyped
<1>2. cur' = cur /\ gen' = gen /\ mail' = mail /\ act' = act /\ torn' = torn
  BY DEF Refetch, SameStore
<1>3. Calm /\ Undoable' /\ Mirrors'
  BY <1>1, <1>2, StoreStays
<1>4. /\ eng.pc = "refetch" /\ eng'.pc = "rewrite" /\ eng'.want = eng.got.there \ eng.want
      /\ eng.got.there \subseteq Msgs
  BY DEF Refetch, Doing, Typed, Kinds, Engines, Mail
<1>5. \A m \in eng'.want : m \in Msgs /\ Left(m)
  BY <1>3, <1>4 DEF Mirrored, Kept
<1>6. \A m \in eng'.want : Left(m)'
  BY <1>1, <1>2, <1>5, LeftOn
<1>7. Kept'
  BY <1>4, <1>6 DEF Kept
<1> QED
  BY <1>3, <1>7

\* A pass or a read writes the store: every action under way is met.
LEMMA OvertakenMirrored ==
  ASSUME Typed, SameServer, Overtakes, torn' = torn, eng'.pc \notin {"refetch", "rewrite"},
         Calm => \A m \in Msgs : Unloaded(m)' \/ FitsBut(mail', m, cur'.state)
  PROVE  Mirrored'
<1> SUFFICES ASSUME Calm' PROVE Kept' /\ Undoable' /\ Mirrors'
  BY DEF Mirrored
<1>1. /\ act' = Met /\ act \in [Writers -> Actions] /\ srv' = srv /\ log' = log
  BY DEF Overtakes, SameServer, Typed, Kinds
<1>2. /\ Alike
      /\ \A w \in Writers : act'[w].met <=> (act[w].met \/ act[w].pc \in {"send", "back"})
  BY <1>1, MetIs DEF Alike
<1>3. Calm
  BY <1>2, WasCalm DEF Alike
<1>4. Undoable' /\ Kept'
  BY <1>2 DEF Undoable, Kept, Alike
<1>5. \A m, l : Ahead(m, l) => Ahead(m, l)'
  BY <1>1, <1>2 DEF Ahead, Alike, NotTaken
<1>6. \A m : FitsBut(mail', m, cur'.state) => FitsBut(mail, m, cur.state)'
  BY <1>1, <1>5 DEF FitsBut
<1> QED
  BY <1>3, <1>4, <1>6 DEF Mirrors

LEMMA FitsIsFitsBut ==
  ASSUME NEW c, NEW m, NEW s, Fits(log, srv, c, m, s)
  PROVE  FitsBut(c, m, s)
BY DEF Fits, FitsBut

\* One mail in place of another which says the same of the message.
LEMMA FitsAlike ==
  ASSUME NEW c, NEW d, NEW m, NEW s, FitsBut(c, m, s), m \in c.there <=> m \in d.there,
         \A l \in Labels : On(c, m, l) <=> On(d, m, l)
  PROVE  FitsBut(d, m, s)
BY DEF FitsBut, Place, Same

LEMMA ReplayMirrored ==
  ASSUME Typed, Reads, Mirrored, Replay
  PROVE  Mirrored'
<1>1. /\ eng.pc = "write" /\ Rests /\ mail' = Applied /\ SameServer /\ Overtakes /\ torn' = torn
      /\ cur'.state = eng.upTo /\ cur'.gen = cur.gen /\ cur'.done = cur.done
      /\ gen' = Stamped(mail'.there \cap eng.got.there, cur.gen)
      /\ gen \in [Msgs -> Nat] /\ cur.gen \in Nat
  BY DEF Replay, Doing, NextPlace, Typed, Kinds, Cursor
<1>2. Batch
  BY <1>1, BatchHeld
<1>3. ASSUME Calm, NEW m \in Msgs
      PROVE  Unloaded(m)' \/ FitsBut(mail', m, cur'.state)
  <2>1. CASE m \in eng.got.there \/ ~Unloaded(m)
    <3>1. m \in eng.got.there \/ FitsBut(mail, m, cur.state)
      BY <1>3, <2>1 DEF Mirrored, Mirrors
    <3> QED
      BY <1>1, <1>2, <3>1, AppliedFits
  <2>2. CASE m \notin eng.got.there /\ Unloaded(m)
    <3>1. gen'[m] = gen[m]
      BY <1>1, <2>2, StampedTyped
    <3>2. cur.state # NoState
      BY <1>2, RestingTyped DEF Batch
    <3> QED
      BY <1>1, <2>2, <3>1, <3>2 DEF Unloaded
  <2> QED
    BY <2>1, <2>2
<1>4. eng'.pc \notin {"refetch", "rewrite"}
  BY <1>1, EngineRests
<1> QED
  BY <1>1, <1>3, <1>4, OvertakenMirrored

LEMMA RewriteMirrored ==
  ASSUME Typed, Reads, Mirrored, Rewrite
  PROVE  Mirrored'
<1> DEFINE now == Stamped(eng.got.there \cup eng.want, cur.gen)
           both == Upsert(mail, eng.got, Msgs)
<1>1. /\ eng.pc = "rewrite" /\ Rests /\ SameServer /\ Overtakes /\ torn' = torn
      /\ mail' = Drop(both, Stale(now, cur.gen))
      /\ cur'.state = cur.state /\ cur'.done /\ gen \in [Msgs -> Nat] /\ cur.gen \in Nat
      /\ mail \in Mail /\ eng.got \in Mail /\ eng.got.there \subseteq Msgs
  BY DEF Rewrite, Doing, Typed, Kinds, Engines, Cursor, Mail
<1>2. ASSUME NEW m \in Msgs
      PROVE  m \in Stale(now, cur.gen) <=> m \notin eng.got.there \cup eng.want
  <2>1. gen[m] < cur.gen
    BY <1>1 DEF Typed, EngineStages
  <2>2. now[m] = IF m \in eng.got.there \cup eng.want THEN cur.gen ELSE gen[m]
    BY <1>1, StampedTyped
  <2> HIDE DEF now
  <2> QED
    BY <1>1, <2>1, <2>2 DEF Stale
<1> HIDE DEF now
<1>3. /\ both \in Mail /\ both.there = mail.there \cup (Msgs \cap eng.got.there)
      /\ \A m \in Msgs, l \in Labels :
            On(both, m, l) <=> IF m \in Msgs \cap eng.got.there THEN On(eng.got, m, l) ELSE On(mail, m, l)
  BY <1>1, UpsertWrites
<1> HIDE DEF both
<1>4. /\ mail' \in Mail /\ mail'.there = both.there \ Stale(now, cur.gen)
      /\ \A m \in Msgs, l \in Labels : On(mail', m, l) <=> m \notin Stale(now, cur.gen) /\ On(both, m, l)
  BY <1>1, <1>3, DropWrites
<1>5. ASSUME Calm, NEW m \in Msgs
      PROVE  FitsBut(mail', m, cur.state)
  <2>1. CASE m \in eng.got.there
    <3>1. m \in mail'.there /\ \A l \in Labels : On(mail', m, l) <=> On(eng.got, m, l)
      BY <1>2, <1>3, <1>4, <2>1
    <3>2. FitsBut(eng.got, m, cur.state)
      BY <1>1, <2>1, FitsIsFitsBut DEF Reads, EngineHolds
    <3> QED
      BY <2>1, <3>1, <3>2, FitsAlike
  <2>2. CASE m \in eng.want /\ m \notin eng.got.there
    <3>1. m \in mail.there /\ \A l \in Labels : Same(log, srv, mail, m, l, cur.state)
      BY <1>1, <1>5, <2>2 DEF Mirrored, Kept, Left
    <3>2. m \in mail'.there /\ \A l \in Labels : On(mail', m, l) <=> On(mail, m, l)
      BY <1>2, <1>3, <1>4, <2>2, <3>1
    <3>3. Place(log, srv, eng.got.there \cup eng.want, m, cur.state)
      BY <1>1 DEF Reads, EngineHolds
    <3> QED
      BY <2>2, <3>1, <3>2, <3>3 DEF FitsBut, Place, Same
  <2>3. CASE m \notin eng.got.there \cup eng.want
    <3>1. m \notin mail'.there
      BY <1>2, <1>4, <2>3
    <3>2. Place(log, srv, eng.got.there \cup eng.want, m, cur.state)
      BY <1>1 DEF Reads, EngineHolds
    <3>3. Place(log, srv, mail'.there, m, cur.state)
      BY <2>3, <3>1, <3>2 DEF Place
    <3> QED
      BY <1>4, <3>1, <3>3, TypedServer, AbsentFits
  <2> QED
    BY <2>1, <2>2, <2>3
<1>6. eng'.pc \notin {"refetch", "rewrite"}
  BY <1>1, EngineRests
<1> QED
  BY <1>1, <1>5, <1>6, OvertakenMirrored

LEMMA RepairMirrored ==
  ASSUME Typed, Reads, Mirrored, Repair
  PROVE  Mirrored'
<1> DEFINE both == Upsert(mail, eng.got, Msgs)
           gone == eng.want \ eng.got.there
<1>1. /\ eng.pc = "repair" /\ Rests /\ SameServer /\ Overtakes /\ torn' = torn
      /\ mail' = Drop(both, gone) /\ cur' = cur
      /\ gen' = Stamped(eng.got.there, cur.gen) /\ gen \in [Msgs -> Nat] /\ cur.gen \in Nat
      /\ mail \in Mail /\ eng.got \in Mail /\ eng.got.there \subseteq Msgs
  BY DEF Repair, Doing, Typed, Kinds, Engines, Cursor, Mail
<1>2. /\ both \in Mail /\ both.there = mail.there \cup (Msgs \cap eng.got.there)
      /\ \A m \in Msgs, l \in Labels :
            On(both, m, l) <=> IF m \in Msgs \cap eng.got.there THEN On(eng.got, m, l) ELSE On(mail, m, l)
  BY <1>1, UpsertWrites
<1> HIDE DEF both
<1>3. /\ mail' \in Mail /\ mail'.there = both.there \ gone
      /\ \A m \in Msgs, l \in Labels : On(mail', m, l) <=> m \notin gone /\ On(both, m, l)
  BY <1>1, <1>2, DropWrites
<1>4. eng.got.there \subseteq eng.want /\ \A m \in eng.want : Fits(log, srv, eng.got, m, cur.state)
  BY <1>1 DEF Reads, EngineHolds
<1>5. ASSUME Calm, NEW m \in Msgs
      PROVE  Unloaded(m)' \/ FitsBut(mail', m, cur'.state)
  <2>1. CASE m \in eng.got.there
    <3>1. m \in mail'.there /\ \A l \in Labels : On(mail', m, l) <=> On(eng.got, m, l)
      BY <1>2, <1>3, <2>1
    <3> QED
      BY <1>1, <1>4, <2>1, <3>1, FitsAlike, FitsIsFitsBut
  <2>2. CASE m \in gone
    <3>1. m \notin mail'.there
      BY <1>3, <2>2
    <3>2. Place(log, srv, mail'.there, m, cur.state)
      BY <1>4, <2>2, <3>1 DEF Fits, Place
    <3> QED
      BY <1>1, <1>3, <3>1, <3>2, TypedServer, AbsentFits
  <2>3. CASE m \notin eng.got.there /\ m \notin gone
    <3>1. /\ m \in mail.there <=> m \in mail'.there
          /\ \A l \in Labels : On(mail, m, l) <=> On(mail', m, l)
      BY <1>2, <1>3, <2>3
    <3>2. gen'[m] = gen[m]
      BY <1>1, <2>3, StampedTyped
    <3>3. Unloaded(m) => Unloaded(m)'
      BY <1>1, <3>2 DEF Unloaded
    <3>4. Unloaded(m) \/ FitsBut(mail, m, cur.state)
      BY <1>5 DEF Mirrored, Mirrors
    <3> QED
      BY <1>1, <3>1, <3>3, <3>4, FitsAlike
  <2> QED
    BY <2>1, <2>2, <2>3
<1>6. eng'.pc \notin {"refetch", "rewrite"}
  BY <1>1, EngineRests
<1> QED
  BY <1>1, <1>5, <1>6, OvertakenMirrored

LEMMA StoreThreadMirrored ==
  ASSUME Typed, Reads, Mirrored, StoreThread
  PROVE  Mirrored'
<1> DEFINE got == reader.got
           id == reader.id
<1>1. /\ reader.pc = "write" /\ SameServer /\ Overtakes /\ torn' = torn
      /\ mail' = IF got.there = {} THEN Drop(mail, {id}) ELSE Upsert(mail, got, Msgs)
      /\ cur' = cur /\ eng' = eng /\ eng.pc \in {"idle", "pagewrite"}
      /\ gen' = Stamped(got.there, cur.gen) /\ gen \in [Msgs -> Nat] /\ cur.gen \in Nat
      /\ mail \in Mail /\ got \in Mail /\ id \in Msgs
  BY LockHeld DEF StoreThread, Typed, Kinds, Readings, Cursor
<1>2. got.there \subseteq {id} /\ Fits(log, srv, got, id, cur.state)
  BY <1>1 DEF Reads, ReaderHolds
<1> HIDE DEF got, id
<1>3. /\ mail' \in Mail
      /\ id \in mail'.there <=> id \in got.there
      /\ id \in got.there => \A l \in Labels : On(mail', id, l) <=> On(got, id, l)
      /\ \A m \in Msgs : m # id => /\ m \in mail.there <=> m \in mail'.there
                                   /\ \A l \in Labels : On(mail, m, l) <=> On(mail', m, l)
  <2>1. CASE got.there = {}
    <3>1. mail' = Drop(mail, {id})
      BY <1>1, <2>1
    <3> QED
      BY <1>1, <2>1, <3>1, DropWrites
  <2>2. CASE got.there # {}
    <3>1. mail' = Upsert(mail, got, Msgs) /\ got.there = {id} /\ Msgs \cap got.there = {id}
      BY <1>1, <1>2, <2>2
    <3>2. /\ mail' \in Mail /\ mail'.there = mail.there \cup {id}
          /\ \A m \in Msgs, l \in Labels :
                On(mail', m, l) <=> IF m \in {id} THEN On(got, m, l) ELSE On(mail, m, l)
      BY <1>1, <3>1, UpsertWrites
    <3> QED
      BY <1>1, <3>1, <3>2
  <2> QED
    BY <2>1, <2>2
<1>4. ASSUME Calm, NEW m \in Msgs
      PROVE  Unloaded(m)' \/ FitsBut(mail', m, cur'.state)
  <2>1. CASE m = id /\ id \in got.there
    <3>1. FitsBut(got, id, cur.state)
      BY <1>2, FitsIsFitsBut
    <3>2. FitsBut(mail', id, cur.state)
      BY <1>3, <2>1, <3>1, FitsAlike
    <3> QED
      BY <1>1, <2>1, <3>2
  <2>2. CASE m = id /\ id \notin got.there
    <3>1. id \notin mail'.there /\ Place(log, srv, mail'.there, id, cur.state)
      BY <1>2, <1>3, <2>2 DEF Fits, Place
    <3> QED
      BY <1>1, <1>3, <2>2, <3>1, TypedServer, AbsentFits
  <2>3. CASE m # id
    <3>1. gen'[m] = gen[m]
      BY <1>1, <1>2, <2>3, StampedTyped
    <3>2. Unloaded(m) => Unloaded(m)'
      BY <1>1, <3>1 DEF Unloaded
    <3>3. Unloaded(m) \/ FitsBut(mail, m, cur.state)
      BY <1>4 DEF Mirrored, Mirrors
    <3> QED
      BY <1>1, <1>3, <2>3, <3>2, <3>3, FitsAlike
  <2> QED
    BY <2>1, <2>2, <2>3
<1>5. eng'.pc \notin {"refetch", "rewrite"}
  BY <1>1
<1> QED
  BY <1>1, <1>4, <1>5, OvertakenMirrored

LEMMA PageWriteMirrored ==
  ASSUME Typed, Reads, Mirrored, PageWrite
  PROVE  Mirrored'
<1> DEFINE paged == Upsert(mail, eng.got, Msgs)
           now == Stamped(eng.got.there, cur.gen)
           swept == IF LastPage THEN Stale(now, cur.gen) ELSE {}
<1>1. /\ eng.pc = "pagewrite" /\ Rests /\ SameServer /\ Overtakes /\ torn' = torn
      /\ mail' = (IF LastPage THEN Drop(paged, Stale(now, cur.gen)) ELSE paged) /\ gen' = now
      /\ cur'.state = cur.state /\ cur'.gen = cur.gen
      /\ cur'.done <=> LastPage
      /\ cur.state # NoState /\ ~cur.done
      /\ gen \in [Msgs -> Nat] /\ cur.gen \in Nat
      /\ mail \in Mail /\ eng.got \in Mail /\ eng.got.there \subseteq Msgs
  BY DEF PageWrite, Doing, Typed, EngineStages, Kinds, Engines, Cursor, Mail
<1>2. \A m \in Msgs : now[m] = IF m \in eng.got.there THEN cur.gen ELSE gen[m]
  BY <1>1, StampedTyped
<1> HIDE DEF now
<1>3. /\ paged \in Mail /\ paged.there = mail.there \cup (Msgs \cap eng.got.there)
      /\ \A m \in Msgs, l \in Labels :
            On(paged, m, l) <=> IF m \in Msgs \cap eng.got.there THEN On(eng.got, m, l) ELSE On(mail, m, l)
  BY <1>1, UpsertWrites
<1> HIDE DEF paged
<1>4. /\ mail' \in Mail
      /\ \A m \in Msgs :
            /\ m \in mail'.there <=> m \in paged.there /\ m \notin swept
            /\ \A l \in Labels : On(mail', m, l) <=> m \notin swept /\ On(paged, m, l)
  <2>1. CASE LastPage
    BY <1>1, <1>3, <2>1, DropWrites
  <2>2. CASE ~LastPage
    BY <1>1, <1>3, <2>2
  <2> QED
    BY <2>1, <2>2
<1>5. \A m \in Msgs : m \in swept <=> LastPage /\ m \notin eng.got.there /\ gen[m] < cur.gen
  BY <1>1, <1>2 DEF Stale
<1>6. eng.got.there \subseteq {cur.pos} /\ Fits(log, srv, eng.got, cur.pos, cur.state)
  BY <1>1 DEF Reads, EngineHolds
<1>7. ASSUME Calm, NEW m \in Msgs
      PROVE  Unloaded(m)' \/ FitsBut(mail', m, cur'.state)
  <2>1. CASE m \in eng.got.there
    <3>1. m = cur.pos /\ m \notin swept
      BY <1>5, <1>6, <2>1
    <3>2. m \in mail'.there /\ \A l \in Labels : On(mail', m, l) <=> On(eng.got, m, l)
      BY <1>3, <1>4, <2>1, <3>1
    <3> QED
      BY <1>1, <1>6, <2>1, <3>1, <3>2, FitsAlike, FitsIsFitsBut
  <2>2. CASE m \in swept
    <3>1. m \notin mail'.there /\ LastPage /\ gen[m] < cur.gen /\ m \notin eng.got.there
      BY <1>4, <1>5, <2>2
    <3>2. m < cur.pos \/ m = cur.pos
      BY <3>1, MsgsAreNumbers DEF LastPage, Typed, Kinds, Cursor
    <3>3. Place(log, srv, {}, m, cur.state)
      <4>1. CASE m < cur.pos
        BY <1>1, <3>1, <4>1 DEF Reads, Passed
      <4>2. CASE m = cur.pos
        BY <1>6, <3>1, <4>2 DEF Fits, Place
      <4> QED
        BY <3>2, <4>1, <4>2
    <3>4. Place(log, srv, mail'.there, m, cur.state)
      BY <3>1, <3>3 DEF Place
    <3> QED
      BY <1>1, <1>4, <3>1, <3>4, TypedServer, AbsentFits
  <2>3. CASE m \notin eng.got.there /\ m \notin swept
    <3>1. /\ m \in mail.there <=> m \in mail'.there
          /\ \A l \in Labels : On(mail, m, l) <=> On(mail', m, l)
      BY <1>3, <1>4, <2>3
    <3>2. gen'[m] = gen[m]
      BY <1>1, <1>2, <2>3
    <3>3. Unloaded(m) => Unloaded(m)'
      BY <1>1, <1>5, <2>3, <3>2 DEF Unloaded
    <3>4. Unloaded(m) \/ FitsBut(mail, m, cur.state)
      BY <1>7 DEF Mirrored, Mirrors
    <3> QED
      BY <1>1, <3>1, <3>3, <3>4, FitsAlike
  <2> QED
    BY <2>1, <2>2, <2>3
<1>8. eng'.pc \notin {"refetch", "rewrite"}
  BY <1>1, EngineRests
<1> QED
  BY <1>1, <1>7, <1>8, OvertakenMirrored

\* A step of a writer that leaves the store alone.
LEMMA WriterMirrored ==
  ASSUME Typed, GoesOn, Mirrored, NEW w \in Writers, NEW a \in Actions, act' = [act EXCEPT ![w] = a],
         act[w].pc # "back", SameStore, eng' = eng, torn' = torn,
         a.pc \in {"send", "back"} =>
             /\ act[w].pc = "send" /\ a.label = act[w].label /\ a.on = act[w].on /\ a.met = act[w].met
             /\ a.did \ a.taken \subseteq NotTaken(w),
         \A m \in NotTaken(w) :
             \/ On(srv, m, act[w].label) <=> act[w].on
             \/ Told(log', m, act[w].label, cur.state)
             \/ a.pc \in {"send", "back"} /\ m \in a.did \ a.taken
  PROVE  Mirrored'
<1> SUFFICES ASSUME Calm' PROVE Kept' /\ Undoable' /\ Mirrors'
  BY DEF Mirrored
<1>1. /\ act \in [Writers -> Actions] /\ act'[w] = a
      /\ \A v \in Writers : v # w => act'[v] = act[v]
      /\ mail' = mail /\ cur' = cur /\ gen' = gen
  BY DEF Typed, Kinds, SameStore
<1>2. Calm
  BY <1>1, WasCalm
<1>3. Kept'
  BY <1>1, <1>2, KeptOn DEF Mirrored
<1>4. \A m \in Msgs : Unloaded(m)' <=> Unloaded(m)
  BY <1>1 DEF Unloaded
<1>5. Undoable'
  <2> SUFFICES ASSUME NEW v \in Writers, act'[v].pc \in {"send", "back"}, ~act'[v].met,
                      NEW m \in NotTaken(v)'
               PROVE  Undone(v, m)'
    BY DEF Undoable
  <2>1. /\ act[v].pc \in {"send", "back"} /\ ~act[v].met
        /\ act'[v].label = act[v].label /\ act'[v].on = act[v].on /\ m \in NotTaken(v)
    BY <1>1 DEF NotTaken
  <2>2. Undone(v, m) /\ m \in Msgs /\ act[v].label \in Labels
    BY <1>2, <2>1, ActsAre DEF Mirrored, Undoable
  <2> QED
    BY <1>1, <1>4, <2>1, <2>2, UndoneOn
<1>6. ASSUME NEW m \in Msgs, FitsBut(mail, m, cur.state)
      PROVE  FitsBut(mail, m, cur.state)'
  <2>1. ASSUME NEW l \in Labels, Ahead(m, l)
        PROVE  Ahead(m, l)' \/ Told(log', m, l, cur.state)
    <3>1. ASSUME NEW v \in Writers, act[v].pc \in {"send", "back"}, act[v].label = l, m \in NotTaken(v),
                 On(srv, m, l) <=> ~act[v].on
          PROVE  \/ Told(log', m, l, cur.state)
                 \/ /\ act'[v].pc \in {"send", "back"} /\ act'[v].label = l /\ act'[v].on = act[v].on
                    /\ m \in NotTaken(v)'
      <4>1. CASE v # w
        BY <1>1, <3>1, <4>1 DEF NotTaken
      <4>2. CASE v = w
        BY <1>1, <3>1, <4>2 DEF NotTaken
      <4> QED
        BY <4>1, <4>2
    <3> QED
      BY <2>1, <3>1, StillAhead
  <2> QED
    BY <1>1, <1>6, <2>1, FitsOn
<1> QED
  BY <1>2, <1>4, <1>5, <1>3, <1>6 DEF Mirrors, Mirrored

LEMMA TakeMirrored ==
  ASSUME Typed, Mirrored, NEW w \in Writers, Take(w)
  PROVE  Mirrored'
<1> DEFINE a == act[w]
           m == CHOOSE x \in a.todo : \A y \in a.todo : x <= y
           next == [a EXCEPT !.todo = a.todo \ {m}, !.taken = a.taken \cup {m}]
           b == IF next.todo = {} THEN NoAct ELSE next
<1>1. /\ a.pc = "send" /\ m \in srv.there /\ ServerLabels(m, a.label, a.on) /\ m \in a.todo
      /\ SameStore /\ eng' = eng /\ torn' = torn
  BY NextOfTodo DEF Take, Is
<1>2. GoesOn
  BY TakeTyped
<1>3. a \in Actions /\ m \in Msgs /\ a.label \in Labels /\ a.on \in BOOLEAN
      /\ a.did \subseteq a.todo \cup a.taken
  BY <1>1, ActsAre DEF Typed, WriterStages, Coherent, Actions
<1>4. On(srv', m, a.label) <=> a.on
  BY <1>1, <1>3, TypedServer, LabelsGoOn
<1>5. (On(srv, m, a.label) <=> On(srv', m, a.label)) \/ Told(log', m, a.label, cur.state)
  BY <1>2, <1>3, StateIsPlace, KeepsFit
<1>6. act' = [act EXCEPT ![w] = b]
  BY DEF Take, Becomes
<1> HIDE DEF m
<1>7. /\ next \in Actions /\ next.pc = "send" /\ next.label = a.label /\ next.on = a.on
      /\ next.met = a.met /\ next.did = a.did /\ next.taken = a.taken \cup {m} /\ next.todo = a.todo \ {m}
  BY <1>1, <1>3 DEF Actions
<1> HIDE DEF next
<1>8. b \in Actions /\ b.pc \in {"idle", "send"} /\ (b.pc = "send" => b = next /\ next.todo # {})
      /\ (next.todo # {} => b = next)
  BY <1>7, NoActTyped DEF NoAct
<1>9. \A n \in NotTaken(w) : n # m => next.todo # {} /\ n \in next.did \ next.taken
  BY <1>3, <1>7 DEF NotTaken
<1>10. \A n \in NotTaken(w) :
         \/ On(srv, n, a.label) <=> a.on
         \/ Told(log', n, a.label, cur.state)
         \/ b.pc \in {"send", "back"} /\ n \in b.did \ b.taken
  BY <1>4, <1>5, <1>7, <1>8, <1>9
<1>11. b.pc \in {"send", "back"} =>
         /\ a.pc = "send" /\ b.label = a.label /\ b.on = a.on /\ b.met = a.met
         /\ b.did \ b.taken \subseteq NotTaken(w)
  BY <1>1, <1>7, <1>8 DEF NotTaken
<1> HIDE DEF b
<1> QED
  BY <1>1, <1>2, <1>6, <1>8, <1>10, <1>11, WriterMirrored

LEMMA GiveUpMirrored ==
  ASSUME Typed, Mirrored, NEW w \in Writers, GiveUp(w)
  PROVE  Mirrored'
<1> DEFINE b == [act[w] EXCEPT !.pc = "back"]
<1>1. /\ act[w].pc = "send" /\ act' = [act EXCEPT ![w] = b] /\ act[w] \in Actions
      /\ SameStore /\ eng' = eng /\ torn' = torn
  BY ActsAre DEF GiveUp, Is, Becomes
<1>2. GoesOn
  BY GiveUpTyped
<1>3. /\ b \in Actions /\ b.pc = "back" /\ b.label = act[w].label /\ b.on = act[w].on
      /\ b.met = act[w].met /\ b.did = act[w].did /\ b.taken = act[w].taken
  BY <1>1 DEF Actions
<1> HIDE DEF b
<1>4. b.did \ b.taken = NotTaken(w)
  BY <1>3 DEF NotTaken
<1> QED
  BY <1>1, <1>2, <1>3, <1>4, WriterMirrored

LEMMA EraseMirrored ==
  ASSUME Typed, Mirrored, NEW w \in Writers, NEW m \in Msgs, Erase(w, m)
  PROVE  Mirrored'
<1> DEFINE b == [NoAct EXCEPT !.pc = "erased", !.todo = {m}]
<1>1. /\ act[w].pc = "idle" /\ act' = [act EXCEPT ![w] = b]
      /\ SameStore /\ eng' = eng /\ torn' = torn
  BY DEF Erase, Is, Becomes
<1>2. GoesOn
  BY EraseTyped
<1>3. b \in Actions /\ b.pc = "erased"
  BY NoActTyped DEF NoAct, Actions
<1>4. NotTaken(w) = {}
  BY <1>1, ActsAre
<1> HIDE DEF b
<1> QED
  BY <1>1, <1>2, <1>3, <1>4, WriterMirrored

LEMMA CrashMirrored ==
  ASSUME Typed, Mirrored, Crash
  PROVE  Mirrored'
<1> SUFFICES ASSUME Calm' PROVE Kept' /\ Undoable' /\ Mirrors'
  BY DEF Mirrored
<1>1. /\ act' = [w \in Writers |-> NoAct] /\ Rests /\ mail' = mail /\ cur' = cur /\ gen' = gen
      /\ torn' = IF \E w \in Writers : Owes(w) THEN torn \cup {"stopped"} ELSE torn
  BY DEF Crash, SameStore
<1>2. torn' = {}
  BY DEF Calm
<1>3. \A w \in Writers : ~Owes(w)
  BY <1>1, <1>2
<1>4. torn = {}
  BY <1>1, <1>2, <1>3
<1>5. Calm
  BY <1>3, <1>4 DEF Calm
<1>6. \A m, l : ~Ahead(m, l)
  BY <1>3, ActsAre DEF Ahead
<1>7. GoesOn
  BY CrashTyped
<1>8. \A m \in Msgs : FitsBut(mail, m, cur.state) => FitsBut(mail, m, cur.state)'
  BY <1>1, <1>6, <1>7, FitsOn
<1>9. \A m \in Msgs : Unloaded(m)' <=> Unloaded(m)
  BY <1>1 DEF Unloaded
<1>10. Undoable'
  BY <1>1 DEF Undoable, NoAct
<1>11. Kept'
  BY <1>1, EngineRests DEF Kept
<1> QED
  BY <1>5, <1>8, <1>9, <1>10, <1>11 DEF Mirrored, Mirrors

LEMMA ActMirrored ==
  ASSUME Typed, Mirrored, NEW w \in Writers, NEW ms \in SUBSET Msgs, NEW l \in Labels, NEW on \in BOOLEAN,
         Act(w, ms, l, on)
  PROVE  Mirrored'
<1> SUFFICES ASSUME Calm' PROVE Kept' /\ Undoable' /\ Mirrors'
  BY DEF Mirrored
<1> DEFINE did == {m \in ms : On(mail, m, l) # on}
           a == [NoAct EXCEPT !.pc = "send", !.todo = ms, !.label = l, !.on = on, !.did = did]
<1>1. /\ act[w].pc = "idle" /\ lock = "free" /\ eng' = eng /\ srv' = srv /\ log' = log
      /\ gen' = gen /\ cur' = cur /\ torn' = torn /\ ms \subseteq mail.there
      /\ act' = [Met EXCEPT ![w] = a] /\ mail' = Label(mail, ms, l, on)
  BY DEF Act, Is, Hold, SameServer, On
<1>2. act \in [Writers -> Actions] /\ mail \in Mail
  BY DEF Typed, Kinds
<1>3. /\ a.pc = "send" /\ a.label = l /\ a.on = on /\ a.did = did /\ a.taken = {}
  BY DEF NoAct
<1>4. /\ act'[w] = a
      /\ \A v \in Writers : v # w => act'[v] = Met[v]
  BY <1>1, <1>2, MetIs
<1>5. /\ mail'.there = mail.there
      /\ \A m \in Msgs, k \in Labels : On(mail', m, k) <=>
            IF m \in ms \cap mail.there /\ k = l THEN on ELSE On(mail, m, k)
  BY <1>1, <1>2, LabelWrites
<1> HIDE DEF a
<1>6. \A v \in Writers : v # w =>
         /\ act'[v].pc = act[v].pc /\ act'[v].did = act[v].did /\ act'[v].taken = act[v].taken
         /\ act[v].pc = "back" => act'[v].met
         /\ act[v].met => act'[v].met
  BY <1>2, <1>4, MetIs
<1>7. Calm
  BY <1>1, <1>6, WasCalm
<1>8. \A v \in Writers : act[v].pc # "send"
  BY <1>1, LockHeld DEF Typed, Locks
<1>9. \A v \in Writers : act[v].pc = "back" => ~Owes(v)
  BY <1>1, <1>6 DEF Calm, Owes
<1>10. \A m, k : ~Ahead(m, k)
  BY <1>8, <1>9, ActsAre DEF Ahead
<1>11. \A m \in Msgs : Unloaded(m)' <=> Unloaded(m)
  BY <1>1 DEF Unloaded
<1>12. eng'.pc \notin {"refetch", "rewrite"}
  BY <1>1, LockHeld DEF Typed, Locks
<1>13. ASSUME NEW m \in did
       PROVE  Undone(w, m)' /\ (Unloaded(m) \/ (On(srv, m, l) <=> ~on) \/ Told(log, m, l, cur.state))
  <2>1. m \in Msgs /\ (On(mail, m, l) <=> ~on)
    <3>1. m \in ms /\ On(mail, m, l) # on
      BY <1>13
    <3>2. On(mail, m, l) \in BOOLEAN
      BY DEF On
    <3> QED
      BY <3>1, <3>2
  <2>2. Unloaded(m) \/ Same(log, srv, mail, m, l, cur.state)
    BY <1>7, <1>10, <2>1 DEF Mirrored, Mirrors, FitsBut
  <2>3. Unloaded(m) \/ (On(srv, m, l) <=> ~on) \/ Told(log, m, l, cur.state)
    BY <2>1, <2>2 DEF Same
  <2>4. act'[w].label = l /\ act'[w].on = on
    BY <1>3, <1>4
  <2> QED
    BY <1>1, <1>11, <2>1, <2>3, <2>4 DEF Undone
<1>14. NotTaken(w)' = did
  BY <1>3, <1>4 DEF NotTaken
<1>15. Undoable'
  <2> SUFFICES ASSUME NEW v \in Writers, act'[v].pc \in {"send", "back"}, ~act'[v].met, v # w PROVE FALSE
    BY <1>13, <1>14 DEF Undoable
  <2> QED
    BY <1>6, <1>8
<1>16. ASSUME NEW m \in Msgs, FitsBut(mail, m, cur.state)
       PROVE  FitsBut(mail, m, cur.state)'
  <2>1. Place(log', srv', mail'.there, m, cur'.state)
    BY <1>1, <1>5, <1>16 DEF FitsBut
  <2>2. ASSUME NEW k \in Labels
        PROVE  Same(log', srv', mail', m, k, cur'.state) \/ Ahead(m, k)'
    <3>0. Same(log, srv, mail, m, k, cur.state)
      BY <1>10, <1>16 DEF FitsBut
    <3>1. CASE On(mail', m, k) <=> On(mail, m, k)
      BY <1>1, <3>0, <3>1 DEF Same
    <3>2. CASE ~(On(mail', m, k) <=> On(mail, m, k))
      <4>1. m \in ms /\ k = l /\ (On(mail, m, l) <=> ~on)
        BY <1>5, <3>2
      <4>2. m \in NotTaken(w)'
        BY <1>14, <4>1 DEF did
      <4>3. (On(srv, m, l) <=> ~on) \/ Told(log, m, l, cur.state)
        BY <3>0, <4>1 DEF Same
      <4>4. CASE On(srv, m, l) <=> ~on
        <5>1. act'[w].pc \in {"send", "back"} /\ act'[w].label = k /\ act'[w].on = on
          BY <1>3, <1>4, <4>1
        <5>2. On(srv', m, k) <=> ~act'[w].on
          BY <1>1, <4>1, <4>4, <5>1
        <5> QED
          BY <4>2, <5>1, <5>2 DEF Ahead
      <4>5. CASE Told(log, m, l, cur.state)
        BY <1>1, <4>1, <4>5 DEF Same
      <4> QED
        BY <4>3, <4>4, <4>5
    <3> QED
      BY <3>1, <3>2
  <2> QED
    BY <2>1, <2>2 DEF FitsBut
<1>17. Mirrors'
  BY <1>7, <1>11, <1>16 DEF Mirrored, Mirrors
<1> QED
  BY <1>12, <1>15, <1>17 DEF Kept

LEMMA EraseHereMirrored ==
  ASSUME Typed, Mirrored, NEW w \in Writers, EraseHere(w)
  PROVE  Mirrored'
<1> SUFFICES ASSUME Calm' PROVE Kept' /\ Undoable' /\ Mirrors'
  BY DEF Mirrored
<1>1. /\ act[w].pc = "erased" /\ eng' = eng /\ srv' = srv /\ log' = log
      /\ gen' = gen /\ cur' = cur /\ torn' = torn
      /\ act' = [Met EXCEPT ![w] = NoAct] /\ mail' = Drop(mail, act[w].todo)
  BY DEF EraseHere, Is, SameServer
<1>2. act \in [Writers -> Actions] /\ mail \in Mail /\ lock = w
  BY <1>1 DEF Typed, Kinds, Locks
<1>3. /\ act'[w] = NoAct
      /\ \A v \in Writers : v # w => act'[v] = Met[v]
  BY <1>1, <1>2, MetIs
<1>4. /\ mail'.there = mail.there \ act[w].todo /\ mail' \in Mail
      /\ \A m \in Msgs, k \in Labels : On(mail', m, k) <=> m \notin act[w].todo /\ On(mail, m, k)
  BY <1>1, <1>2, DropWrites
<1>6. \A v \in Writers : v # w =>
         /\ act'[v].pc = act[v].pc /\ act'[v].did = act[v].did /\ act'[v].taken = act[v].taken
         /\ act'[v].label = act[v].label /\ act'[v].on = act[v].on
         /\ act[v].pc \in {"send", "back"} => act'[v].met
         /\ act[v].met => act'[v].met
  BY <1>2, <1>3, MetIs
<1>7. Calm
  BY <1>1, <1>6, WasCalm
<1>8. \A m, k : Ahead(m, k) => Ahead(m, k)'
  BY <1>1, <1>6 DEF Ahead, NotTaken
<1>11. \A m \in Msgs : Unloaded(m)' <=> Unloaded(m)
  BY <1>1 DEF Unloaded
<1>12. eng'.pc \notin {"refetch", "rewrite"}
  BY <1>1, <1>2, LockHeld, MirrorAssumption DEF Typed, Locks
<1>13. Undoable'
  BY <1>3, <1>6 DEF Undoable, NoAct
<1>14. \A m \in act[w].todo : m \notin srv.there /\ m \in Msgs
  BY <1>1, <1>2 DEF Typed, WriterStages, True, Deleted, Actions
<1>15. Server'
  BY <1>1, TypedServer DEF Server
<1>16. ASSUME NEW m \in Msgs, Unloaded(m) \/ FitsBut(mail, m, cur.state)
       PROVE  Unloaded(m)' \/ FitsBut(mail, m, cur.state)'
  <2>1. CASE Unloaded(m)
    BY <1>11, <2>1
  <2>2. CASE m \in act[w].todo
    <3>1. m \notin mail'.there /\ m \notin srv'.there
      BY <1>1, <1>4, <1>14, <2>2
    <3>2. Place(log', srv', mail'.there, m, cur'.state)
      BY <3>1 DEF Place
    <3>3. FitsBut(mail, m, cur.state)'
      <4>1. \A k \in Labels : ~On(mail', m, k) /\ ~On(srv', m, k)
        BY <1>4, <1>15, <3>1, OnIsThere DEF Server
      <4> QED
        BY <3>2, <4>1 DEF FitsBut, Same
    <3> QED
      BY <3>3
  <2>3. CASE FitsBut(mail, m, cur.state) /\ m \notin act[w].todo
    BY <1>1, <1>4, <1>8, <2>3 DEF FitsBut, Place, Same
  <2> QED
    BY <1>16, <2>1, <2>2, <2>3
<1> QED
  BY <1>7, <1>12, <1>13, <1>16 DEF Kept, Mirrored, Mirrors

LEMMA TakeBackMirrored ==
  ASSUME Typed, Mirrored, NEW w \in Writers, TakeBack(w)
  PROVE  Mirrored'
<1> SUFFICES ASSUME Calm' PROVE Kept' /\ Undoable' /\ Mirrors'
  BY DEF Mirrored
<1> DEFINE a == act[w]
<1>1. /\ a.pc = "back" /\ eng' = eng /\ srv' = srv /\ log' = log
      /\ gen' = gen /\ cur' = cur
      /\ act' = [act EXCEPT ![w] = NoAct] /\ mail' = Label(mail, NotTaken(w), a.label, ~a.on)
      /\ torn' = IF Owes(w) /\ (a.met \/ lock = "engine") THEN torn \cup {"met"} ELSE torn
  BY DEF TakeBack, Is, SameServer, Becomes
<1>2. act \in [Writers -> Actions] /\ mail \in Mail /\ GoesOn
  BY TakeBackTyped DEF Typed, Kinds
<1>3. /\ act'[w] = NoAct
      /\ \A v \in Writers : v # w => act'[v] = act[v]
  BY <1>1, <1>2
<1>4. a.label \in Labels /\ a.on \in BOOLEAN /\ NotTaken(w) \subseteq Msgs
  BY ActsAre
<1>5. /\ mail'.there = mail.there /\ mail' \in Mail
      /\ \A m \in Msgs, k \in Labels : On(mail', m, k) <=>
            IF m \in NotTaken(w) \cap mail.there /\ k = a.label THEN ~a.on ELSE On(mail, m, k)
  <2>1. PICK ms \in SUBSET Msgs, l \in Labels, off \in BOOLEAN : ms = NotTaken(w) /\ l = a.label /\ off = ~a.on
    BY <1>4
  <2>2. mail' = Label(mail, ms, l, off)
    BY <1>1, <2>1
  <2>3. /\ Label(mail, ms, l, off) \in Mail
        /\ Label(mail, ms, l, off).there = mail.there
        /\ \A m \in Msgs, k \in Labels : On(Label(mail, ms, l, off), m, k) <=>
              IF m \in ms \cap mail.there /\ k = l THEN off ELSE On(mail, m, k)
    BY <1>2, LabelWrites
  <2> QED
    BY <2>1, <2>2, <2>3
<1>6. torn' = {}
  BY DEF Calm
<1>7. torn = {} /\ (Owes(w) => ~a.met /\ lock # "engine")
  BY <1>1, <1>6
<1>8. Calm
  <2> SUFFICES ASSUME NEW v \in Writers, act[v].pc = "back", act[v].met PROVE ~Owes(v)
    BY <1>7 DEF Calm
  <2>1. CASE v = w
    BY <1>7, <2>1
  <2>2. CASE v # w
    BY <1>3, <2>2 DEF Calm, Owes
  <2> QED
    BY <2>1, <2>2
<1>9. \A m \in Msgs : Unloaded(m)' <=> Unloaded(m)
  BY <1>1 DEF Unloaded
<1>10. \A m \in NotTaken(w) : Undone(w, m)
  BY <1>1, <1>7, <1>8, ActsAre DEF Mirrored, Undoable
<1>11. Kept'
  <2>1. CASE Owes(w)
    BY <1>1, <1>7, <2>1, LockHeld DEF Kept
  <2>2. CASE ~Owes(w)
    <3>1. \A m \in Msgs, k \in Labels : On(mail', m, k) <=> On(mail, m, k)
      BY <1>5, <2>2, ActsAre
    <3>2. mail' = mail
      BY <1>2, <1>5, <3>1, SameMail
    <3> QED
      BY <1>1, <1>2, <1>8, <3>2, KeptOn DEF Mirrored
  <2> QED
    BY <2>1, <2>2
<1>12. Undoable'
  <2> SUFFICES ASSUME NEW v \in Writers, act'[v].pc \in {"send", "back"}, ~act'[v].met,
                      NEW m \in NotTaken(v)'
               PROVE  Undone(v, m)'
    BY DEF Undoable
  <2>1. v # w
    BY <1>3 DEF NoAct
  <2>2. act'[v] = act[v] /\ m \in NotTaken(v) /\ m \in Msgs
    BY <1>3, <2>1, ActsAre DEF NotTaken
  <2>3. Undone(v, m) /\ act[v].label \in Labels
    BY <1>8, <2>2, ActsAre DEF Mirrored, Undoable
  <2> QED
    BY <1>1, <1>2, <1>9, <2>2, <2>3, UndoneOn
<1>13. ASSUME NEW m \in Msgs, Unloaded(m) \/ FitsBut(mail, m, cur.state)
       PROVE  Unloaded(m)' \/ FitsBut(mail, m, cur.state)'
  <2>1. CASE Unloaded(m)
    BY <1>9, <2>1
  <2>2. CASE ~Unloaded(m)
    <3>1. Place(log, srv, mail.there, m, cur.state)
      BY <1>13, <2>2 DEF FitsBut
    <3>2. ASSUME NEW k \in Labels
          PROVE  Same(log, srv, mail', m, k, cur.state) \/ Ahead(m, k)'
      <4>1. CASE m \in NotTaken(w) /\ m \in mail.there /\ k = a.label
        BY <1>5, <1>10, <2>2, <4>1 DEF Undone, Same
      <4>2. CASE m \notin mail.there
        <5>1. ~On(mail', m, k)
          BY <1>5, <4>2, OnIsThere
        <5>2. m \notin srv.there => ~On(srv, m, k)
          BY OnIsThere DEF Typed, Kinds
        <5>3. Moved(log, m, cur.state) => Told(log, m, k, cur.state)
          BY DEF Moved, Told
        <5> QED
          BY <3>1, <4>2, <5>1, <5>2, <5>3 DEF Place, Same
      <4>3. CASE m \in mail.there /\ ~(m \in NotTaken(w) /\ k = a.label)
        <5>1. On(mail', m, k) <=> On(mail, m, k)
          BY <1>5, <4>3
        <5>2. CASE Same(log, srv, mail, m, k, cur.state)
          BY <5>1, <5>2 DEF Same
        <5>3. CASE Ahead(m, k)
          <6>1. PICK v \in Writers :
                  /\ act[v].pc \in {"send", "back"} /\ act[v].label = k
                  /\ m \in NotTaken(v) /\ (On(srv, m, k) <=> ~act[v].on)
            BY <5>3 DEF Ahead
          <6>2. v # w
            BY <4>3, <6>1
          <6>3. act'[v] = act[v] /\ m \in NotTaken(v)'
            BY <1>3, <6>1, <6>2 DEF NotTaken
          <6> QED
            BY <1>1, <6>1, <6>3 DEF Ahead
        <5> QED
          BY <1>13, <2>2, <5>2, <5>3 DEF FitsBut
      <4> QED
        BY <4>1, <4>2, <4>3
    <3>3. FitsBut(mail, m, cur.state)'
      BY <1>1, <1>5, <3>1, <3>2 DEF FitsBut
    <3> QED
      BY <3>3
  <2> QED
    BY <2>1, <2>2
<1> QED
  BY <1>8, <1>11, <1>12, <1>13 DEF Mirrored, Mirrors

LEMMA InitMirrored == Init => Mirrored
<1> SUFFICES ASSUME Init PROVE Mirrored
  OBVIOUS
<1>1. Kept
  BY DEF Init, Resting, Kept
<1>2. Undoable
  BY DEF Init, NoAct, Undoable
<1>3. \A m \in Msgs : Unloaded(m)
  BY DEF Init, Unloaded
<1> QED
  BY <1>1, <1>2, <1>3 DEF Mirrored, Mirrors

LEMMA NextMirrored == Typed /\ Reads /\ Mirrored /\ [Next]_vars => Mirrored'
<1> SUFFICES ASSUME Typed, Reads, Mirrored, [Next]_vars PROVE Mirrored'
  OBVIOUS
<1>1. CASE UNCHANGED vars
  <2>1. GoesOn
    BY <1>1, NextTyped
  <2> QED
    BY <1>1, <2>1, StaysMirrored DEF vars
<1>2. CASE Next
  <2>1. CASE Look \/ Compare \/ EngineFails \/ PageRefused
    BY <2>1, OthersMirrored
  <2>2. CASE EngineGoesOn
    <3>1. CASE Fetch \/ PageRead \/ Differ
      BY <3>1, OthersMirrored
    <3>2. CASE ~(Fetch \/ PageRead \/ Differ)
      BY <2>2, <3>2, ReplayMirrored, BeginMirrored, ListMirrored, RefetchMirrored, RewriteMirrored,
         PageWriteMirrored, RepairMirrored DEF EngineGoesOn
    <3> QED
      BY <3>1, <3>2
  <2>3. CASE \E m \in Msgs : OtherDeletes(m) \/ Arrives(m) \/ OpenThread(m)
    BY <2>3, OthersMirrored
  <2>4. CASE \E m \in Msgs, l \in Labels, on \in BOOLEAN : OtherLabels(m, l, on)
    BY <2>4, OthersMirrored
  <2>5. CASE \E w \in Writers : WriterGoesOn(w) \/ \E m \in Msgs : Erase(w, m)
    BY <2>5, TakeMirrored, GiveUpMirrored, TakeBackMirrored, EraseHereMirrored, EraseMirrored
       DEF WriterGoesOn
  <2>6. CASE \E w \in Writers, ms \in SUBSET Msgs, l \in Labels, on \in BOOLEAN : Act(w, ms, l, on)
    BY <2>6, ActMirrored
  <2>7. CASE StoreThread \/ LosesPlace \/ Crash
    <3>1. CASE LosesPlace
      BY <3>1, OthersMirrored
    <3> QED
      BY <2>7, <3>1, StoreThreadMirrored, CrashMirrored
  <2> QED
    BY <1>2, <2>1, <2>2, <2>3, <2>4, <2>5, <2>6, <2>7 DEF Next
<1> QED
  BY <1>1, <1>2

\* Agreeing whenever nothing is left to tell, to load or to take back.
LEMMA MirroredIsAgree == Typed /\ Mirrored => Agree
<1> SUFFICES ASSUME Typed, Mirrored, Quiet, torn = {} PROVE mail = srv
  BY DEF Agree
<1>1. \A w \in Writers : act[w].pc = "idle"
  BY DEF Quiet, Is
<1>2. Mirrors
  BY <1>1 DEF Mirrored, Calm
<1>3. cur.done /\ cur.state = Len(log) /\ cur.state # NoState /\ log \in Histories
      /\ mail \in Mail /\ srv \in Mail
  BY RestingTyped DEF Quiet, Typed, Kinds, Histories
<1>4. \A m \in Msgs : FitsBut(mail, m, cur.state)
  BY <1>2, <1>3 DEF Mirrors, Unloaded
<1>5. \A m, l : ~Moved(log, m, cur.state) /\ ~Told(log, m, l, cur.state)
  BY <1>3 DEF Moved, Told, Histories
<1>6. \A m, l : ~Ahead(m, l)
  BY <1>1 DEF Ahead
<1>7. \A m \in Msgs : m \in mail.there <=> m \in srv.there
  BY <1>4, <1>5 DEF FitsBut, Place
<1>8. mail.there = srv.there
  BY <1>3, <1>7 DEF Mail
<1>9. \A m \in Msgs, l \in Labels : On(mail, m, l) <=> On(srv, m, l)
  BY <1>4, <1>5, <1>6 DEF FitsBut, Same
<1> QED
  BY <1>3, <1>8, <1>9, SameMail

----------------------------------------------------------------------------
(* What holds of every behaviour.                                          *)

\* The types of the store, the server and the tasks over them, and who holds
\* the move lock: a task holds it exactly while its stage says so, so two of
\* them never write at once (store_mail.rs).
THEOREM MirrorTypes == Spec => []TypeOK
<1>1. Init => Typed
  BY InitTyped
<1>2. Typed /\ [Next]_vars => Typed'
  BY NextTyped
<1>3. Typed => TypeOK
  BY TypedIsTypeOK
<1> QED
  BY <1>1, <1>2, <1>3, PTL DEF Spec

LEMMA Mirroring == Spec => [](Typed /\ Reads /\ Mirrored)
<1>1. Init => Typed /\ Reads /\ Mirrored
  BY InitTyped, InitReads, InitMirrored
<1>2. Typed /\ Reads /\ Mirrored /\ [Next]_vars => (Typed /\ Reads /\ Mirrored)'
  BY NextTyped, NextReads, NextMirrored
<1> QED
  BY <1>1, <1>2, PTL DEF Spec

\* Whatever the server's other clients, the people, the passes, the page loads
\* and the readers of a thread do in between, once the history is read to its
\* end and nothing is under way, the store holds the server's messages with the
\* server's labels, unless a crash cut a write short or a pass met a rollback
\* (history.rs replay, window.rs rebootstrap and load_window_page, writes.rs
\* change_all).
THEOREM StoreIsMirror == Spec => []Agree
<1>1. Typed /\ Reads /\ Mirrored => Agree
  BY MirroredIsAgree
<1> QED
  BY <1>1, Mirroring, PTL

----------------------------------------------------------------------------
(* What people had the server take, and nobody changed since, is what the  *)
(* server has, and nothing read or held would say otherwise.               *)

\* No action under way has this label still to set or to take back.
NoneActs(m, l) ==
    \A w \in Writers : act[w].label = l =>
        /\ act[w].pc = "send" => m \notin act[w].todo
        /\ act[w].pc = "back" => act[w].met \/ m \notin NotTaken(w)

Stands(m, l, on) ==
    /\ m \in srv.there /\ (On(srv, m, l) <=> on)
    /\ eng.pc \in {"fetch", "write"} =>
          \A i \in DOMAIN log : i > eng.upTo => ~Grants(log[i], m, l, on)
    /\ eng.pc \in {"write", "rewrite", "repair"} => Says(eng.got, m, l, on)
    /\ reader.pc = "write" => Says(reader.got, m, l, on)
    /\ NoneActs(m, l)

Stood == \A m \in Msgs, l \in Labels, on \in BOOLEAN : <<m, l, on>> \in asked => Stands(m, l, on)

\* The server went on, and left this label as it was.
Undisturbed(m, l, on) ==
    /\ (m \in srv.there => m \in srv'.there) /\ (On(srv', m, l) <=> On(srv, m, l))
    /\ \A i \in DOMAIN log' : i > Len(log) => ~Grants(log'[i], m, l, on)

LEMMA SameUndisturbed ==
  ASSUME Typed, SameServer, NEW m, NEW l, NEW on
  PROVE  Undisturbed(m, l, on)
BY DEF SameServer, Undisturbed, Typed, Kinds, Histories

LEMMA StandsOn ==
  ASSUME Typed, GoesOn, NEW m \in Msgs, NEW l \in Labels, NEW on \in BOOLEAN,
         Stands(m, l, on), Undisturbed(m, l, on), NoneActs(m, l)',
         eng' = eng \/ eng'.pc \notin {"fetch", "write", "rewrite", "repair"},
         reader' = reader \/ reader'.pc # "write"
  PROVE  Stands(m, l, on)'
<1>1. m \in srv'.there /\ (On(srv', m, l) <=> on)
  BY DEF Stands, Undisturbed
<1>2. ASSUME eng.pc \in {"fetch", "write"}, NEW i \in DOMAIN log', i > eng.upTo
      PROVE  ~Grants(log'[i], m, l, on)
  <2>1. CASE i > Len(log)
    BY <2>1 DEF Undisturbed
  <2>2. CASE i <= Len(log)
    <3>1. i \in DOMAIN log /\ log'[i] = log[i]
      BY <2>2 DEF GoesOn, Later, Histories, Typed, Kinds
    <3> QED
      BY <1>2, <3>1 DEF Stands
  <2>3. i \in Nat /\ Len(log) \in Nat
    BY DEF GoesOn, Histories, Typed, Kinds
  <2> QED
    BY <2>1, <2>2, <2>3
<1>3. eng'.pc \in {"fetch", "write"} =>
          \A i \in DOMAIN log' : i > eng'.upTo => ~Grants(log'[i], m, l, on)
  BY <1>2
<1>4. eng'.pc \in {"write", "rewrite", "repair"} => Says(eng'.got, m, l, on)
  BY DEF Stands
<1>5. reader'.pc = "write" => Says(reader'.got, m, l, on)
  BY DEF Stands
<1> QED
  BY <1>1, <1>3, <1>4, <1>5 DEF Stands, NoneActs

LEMMA MetActs ==
  ASSUME Typed, NEW m \in Msgs, NEW l \in Labels, NEW on, Stands(m, l, on), act' = act \/ act' = Met
  PROVE  NoneActs(m, l)'
<1>1. NoneActs(m, l)
  BY DEF Stands, NoneActs
<1>2. CASE act' = act
  BY <1>1, <1>2 DEF NoneActs, NotTaken
<1>3. CASE act' = Met
  <2>1. \A w \in Writers :
          /\ act'[w].pc = act[w].pc /\ act'[w].todo = act[w].todo /\ act'[w].label = act[w].label
          /\ act'[w].did = act[w].did /\ act'[w].taken = act[w].taken
          /\ act[w].met => act'[w].met
    BY <1>3, MetIs DEF Typed, Kinds
  <2> QED
    BY <1>1, <2>1 DEF NoneActs, NotTaken
<1> QED
  BY <1>2, <1>3

\* Steps that leave the server alone, and read nothing that is written.
LEMMA QuietStood ==
  ASSUME Typed, Stood, SameServer, asked' = asked, act' = act \/ act' = Met,
         eng' = eng \/ eng'.pc \notin {"fetch", "write", "rewrite", "repair"},
         reader' = reader \/ reader'.pc # "write"
  PROVE  Stood'
<1> SUFFICES ASSUME NEW m \in Msgs, NEW l \in Labels, NEW on \in BOOLEAN, <<m, l, on>> \in asked
             PROVE  Stands(m, l, on)'
  BY DEF Stood
<1>1. Stands(m, l, on)
  BY DEF Stood
<1> QED
  BY <1>1, SameUndisturbed, StaysGoesOn, MetActs, StandsOn DEF Typed

LEMMA OtherLabelsStood ==
  ASSUME Typed, Stood, NEW n \in Msgs, NEW k \in Labels, NEW o \in BOOLEAN, OtherLabels(n, k, o)
  PROVE  Stood'
<1>1. GoesOn /\ eng' = eng /\ reader' = reader /\ act' = act /\ asked' = Forget({<<n, k>>})
  BY OtherLabelsTyped DEF OtherLabels, SameActors
<1>2. /\ srv'.there = srv.there
      /\ \A m \in Msgs, l \in Labels : On(srv', m, l) <=> IF m = n /\ l = k THEN o ELSE On(srv, m, l)
      /\ \A i \in DOMAIN log' : i > Len(log) => log'[i].id = n /\ log'[i].label = k
  BY TypedServer, LabelsGoOn DEF OtherLabels
<1> SUFFICES ASSUME NEW m \in Msgs, NEW l \in Labels, NEW on \in BOOLEAN, <<m, l, on>> \in asked'
             PROVE  Stands(m, l, on)'
  BY DEF Stood
<1>3. Stands(m, l, on) /\ ~(m = n /\ l = k)
  BY <1>1 DEF Stood, Forget
<1>4. Undisturbed(m, l, on)
  BY <1>2, <1>3 DEF Undisturbed, Grants
<1> QED
  BY <1>1, <1>3, <1>4, MetActs, StandsOn

LEMMA OtherDeletesStood ==
  ASSUME Typed, Stood, NEW n \in Msgs, OtherDeletes(n)
  PROVE  Stood'
<1>1. GoesOn /\ eng' = eng /\ reader' = reader /\ act' = act /\ asked' = Forget(Of({n}))
  BY OtherDeletesTyped DEF OtherDeletes, SameActors
<1>2. /\ srv'.there = srv.there \ {n}
      /\ \A m \in Msgs, l \in Labels : On(srv', m, l) <=> m # n /\ On(srv, m, l)
      /\ \A i \in DOMAIN log' : i > Len(log) => log'[i].id = n
  BY TypedServer, DeletesGoOn, MirrorAssumption DEF OtherDeletes
<1> SUFFICES ASSUME NEW m \in Msgs, NEW l \in Labels, NEW on \in BOOLEAN, <<m, l, on>> \in asked'
             PROVE  Stands(m, l, on)'
  BY DEF Stood
<1>3. Stands(m, l, on) /\ m # n
  BY <1>1 DEF Stood, Forget, Of
<1>4. Undisturbed(m, l, on)
  BY <1>2, <1>3 DEF Undisturbed, Grants
<1> QED
  BY <1>1, <1>3, <1>4, MetActs, StandsOn

LEMMA ArrivesStood ==
  ASSUME Typed, Stood, NEW n \in Msgs, Arrives(n)
  PROVE  Stood'
<1>1. GoesOn /\ eng' = eng /\ reader' = reader /\ act' = act /\ asked' = asked
  BY ArrivesTyped DEF Arrives, SameActors
<1>2. /\ n \notin srv.there /\ srv'.there = srv.there \cup {n}
      /\ \A m \in Msgs, l \in Labels : m # n => (On(srv', m, l) <=> On(srv, m, l))
      /\ \A i \in DOMAIN log' : i > Len(log) => log'[i].id = n
  BY TypedServer, ArrivesGoesOn, MirrorAssumption
<1> SUFFICES ASSUME NEW m \in Msgs, NEW l \in Labels, NEW on \in BOOLEAN, <<m, l, on>> \in asked'
             PROVE  Stands(m, l, on)'
  BY DEF Stood
<1>3. Stands(m, l, on) /\ m # n
  BY <1>1, <1>2 DEF Stood, Stands
<1>4. Undisturbed(m, l, on)
  BY <1>2, <1>3 DEF Undisturbed, Grants
<1> QED
  BY <1>1, <1>3, <1>4, MetActs, StandsOn

\* What is read of the server says what stands there.
LEMMA ReadSays ==
  ASSUME Typed, NEW ms, NEW m \in Msgs, NEW l \in Labels, NEW on \in BOOLEAN, On(srv, m, l) <=> on
  PROVE  Says(Upsert(NoMail, srv, ms), m, l, on)
BY Fetched DEF Says

LEMMA LookStood ==
  ASSUME Typed, Stood, Look
  PROVE  Stood'
<1>1. /\ SameServer /\ asked' = asked /\ act' = act /\ reader' = reader
      /\ eng'.pc \in {"begin", "fetch"}
  BY DEF Look, Resting
<1>2. eng'.pc = "fetch" => eng'.upTo = Len(log)
  BY DEF Look, Resting
<1> SUFFICES ASSUME NEW m \in Msgs, NEW l \in Labels, NEW on \in BOOLEAN, <<m, l, on>> \in asked
             PROVE  Stands(m, l, on)'
  BY <1>1 DEF Stood
<1>3. Stands(m, l, on) /\ NoneActs(m, l)' /\ Undisturbed(m, l, on)
  BY <1>1, SameUndisturbed, MetActs DEF Stood
<1>4. eng'.pc = "fetch" => \A i \in DOMAIN log' : i > eng'.upTo => ~Grants(log'[i], m, l, on)
  BY <1>2, <1>3 DEF Undisturbed
<1> QED
  BY <1>1, <1>3, <1>4 DEF Stands, NoneActs, SameServer

\* A read of the mail that is wanted.
LEMMA ReadStood ==
  ASSUME Typed, Stood, Fetch \/ Refetch \/ Differ
  PROVE  Stood'
<1>1. /\ SameServer /\ asked' = asked /\ act' = act /\ reader' = reader
      /\ eng'.got = Upsert(NoMail, srv, eng.want) /\ eng.pc \in {"fetch", "refetch", "differ"}
      /\ eng'.pc \in {"write", "rewrite", "repair"}
      /\ eng'.pc = "write" => eng.pc = "fetch" /\ eng'.upTo = eng.upTo
  BY DEF Fetch, Refetch, Differ, Doing, Typed, Kinds, Engines
<1> SUFFICES ASSUME NEW m \in Msgs, NEW l \in Labels, NEW on \in BOOLEAN, <<m, l, on>> \in asked
             PROVE  Stands(m, l, on)'
  BY <1>1 DEF Stood
<1>2. Stands(m, l, on) /\ NoneActs(m, l)' /\ Undisturbed(m, l, on)
  BY <1>1, SameUndisturbed, MetActs DEF Stood
<1>3. Says(eng'.got, m, l, on)
  BY <1>1, <1>2, ReadSays DEF Stands
<1>4. eng'.pc = "write" => \A i \in DOMAIN log' : i > eng'.upTo => ~Grants(log'[i], m, l, on)
  BY <1>1, <1>2 DEF Stands, SameServer
<1> QED
  BY <1>1, <1>2, <1>3, <1>4 DEF Stands, NoneActs, SameServer

LEMMA OpenThreadStood ==
  ASSUME Typed, Stood, NEW n \in Msgs, OpenThread(n)
  PROVE  Stood'
<1>1. /\ SameServer /\ asked' = asked /\ act' = act /\ eng' = eng
      /\ reader'.got = Upsert(NoMail, srv, {n})
  BY DEF OpenThread
<1> SUFFICES ASSUME NEW m \in Msgs, NEW l \in Labels, NEW on \in BOOLEAN, <<m, l, on>> \in asked
             PROVE  Stands(m, l, on)'
  BY <1>1 DEF Stood
<1>2. Stands(m, l, on) /\ NoneActs(m, l)' /\ Undisturbed(m, l, on)
  BY <1>1, SameUndisturbed, MetActs DEF Stood
<1>3. Says(reader'.got, m, l, on)
  BY <1>1, <1>2, ReadSays DEF Stands
<1> QED
  BY <1>1, <1>2, <1>3 DEF Stands, NoneActs, SameServer

\* Who else has the lock when a writer has it.
LEMMA WriterHolds ==
  ASSUME Typed, NEW w \in Writers, lock = w
  PROVE  /\ eng.pc \in {"idle", "pagewrite"} /\ reader.pc # "write"
         /\ \A v \in Writers : act[v].pc \in {"send", "erased"} => v = w
BY LockHeld DEF Typed, Locks, Kinds, Engines

\* A writer's step that leaves a label alone.
LEMMA WriterStands ==
  ASSUME Typed, GoesOn, NEW w \in Writers, NEW a \in Actions, act' = [act EXCEPT ![w] = a],
         eng' = eng, reader' = reader,
         NEW m \in Msgs, NEW l \in Labels, NEW on \in BOOLEAN, Stands(m, l, on), Undisturbed(m, l, on),
         a.label = l => /\ a.pc = "send" => m \notin a.todo
                        /\ a.pc = "back" => a.met \/ m \notin a.did \ a.taken
  PROVE  Stands(m, l, on)'
<1>1. /\ act'[w] = a
      /\ \A v \in Writers : v # w => act'[v] = act[v]
  BY DEF Typed, Kinds
<1>2. NoneActs(m, l)
  BY DEF Stands
<1>3. NoneActs(m, l)'
  <2> SUFFICES ASSUME NEW v \in Writers, act'[v].label = l
               PROVE  /\ act'[v].pc = "send" => m \notin act'[v].todo
                      /\ act'[v].pc = "back" => act'[v].met \/ m \notin NotTaken(v)'
    BY DEF NoneActs
  <2>1. CASE v = w
    BY <1>1, <2>1 DEF NotTaken
  <2>2. CASE v # w
    BY <1>1, <1>2, <2>2 DEF NoneActs, NotTaken
  <2> QED
    BY <2>1, <2>2
<1> QED
  BY <1>3, StandsOn

LEMMA TakeStood ==
  ASSUME Typed, Stood, NEW w \in Writers, Take(w)
  PROVE  Stood'
<1> DEFINE a == act[w]
           n == CHOOSE x \in a.todo : \A y \in a.todo : x <= y
           next == [a EXCEPT !.todo = a.todo \ {n}, !.taken = a.taken \cup {n}]
           b == IF next.todo = {} THEN NoAct ELSE next
<1>1. /\ a.pc = "send" /\ n \in srv.there /\ ServerLabels(n, a.label, a.on) /\ n \in a.todo
      /\ eng' = eng /\ reader' = reader /\ act' = [act EXCEPT ![w] = b]
      /\ asked' = Forget({<<n, a.label>>}) \cup {<<n, a.label, a.on>>}
  BY NextOfTodo DEF Take, Is, Becomes
<1>2. GoesOn /\ lock = w
  BY <1>1, TakeTyped DEF Typed, Locks
<1> HIDE DEF n
<1>3. a \in Actions /\ n \in Msgs /\ a.label \in Labels /\ a.on \in BOOLEAN
  BY <1>1, ActsAre DEF Actions
<1>4. /\ srv'.there = srv.there
      /\ \A m \in Msgs, l \in Labels :
            On(srv', m, l) <=> IF m = n /\ l = a.label THEN a.on ELSE On(srv, m, l)
      /\ \A i \in DOMAIN log' : i > Len(log) => log'[i].id = n /\ log'[i].label = a.label
  BY <1>1, <1>3, TypedServer, LabelsGoOn
<1>5. /\ next \in Actions /\ next.pc = "send" /\ next.todo = a.todo \ {n}
  BY <1>1, <1>3 DEF Actions
<1> HIDE DEF next
<1>6. b \in Actions /\ b.pc \in {"idle", "send"} /\ (b.pc = "send" => b.todo = a.todo \ {n})
  BY <1>5, NoActTyped DEF NoAct
<1> HIDE DEF b
<1>7. /\ act'[w] = b
      /\ \A v \in Writers : v # w => act'[v] = act[v]
  BY <1>1 DEF Typed, Kinds
<1> SUFFICES ASSUME NEW m \in Msgs, NEW l \in Labels, NEW on \in BOOLEAN, <<m, l, on>> \in asked'
             PROVE  Stands(m, l, on)'
  BY DEF Stood
<1>8. CASE m = n /\ l = a.label
  <2>1. on = a.on
    BY <1>1, <1>8 DEF Forget
  <2>2. NoneActs(m, l)'
    <3> SUFFICES ASSUME NEW v \in Writers
                 PROVE  /\ act'[v].pc = "send" => m \notin act'[v].todo
                        /\ act'[v].pc = "back" => act'[v].met
      BY DEF NoneActs
    <3>1. CASE v = w
      BY <1>6, <1>7, <1>8, <3>1
    <3>2. CASE v # w
      BY <1>1, <1>2, <1>7, <3>2, WriterHolds DEF Typed, WriterStages
    <3> QED
      BY <3>1, <3>2
  <2>3. eng'.pc \in {"idle", "pagewrite"} /\ reader'.pc # "write"
    BY <1>1, <1>2, WriterHolds
  <2>4. m \in srv'.there /\ (On(srv', m, l) <=> on)
    BY <1>1, <1>4, <1>8, <2>1
  <2> QED
    BY <2>2, <2>3, <2>4 DEF Stands
<1>9. CASE ~(m = n /\ l = a.label)
  <2>1. Stands(m, l, on)
    BY <1>1, <1>9 DEF Forget, Stood
  <2>2. Undisturbed(m, l, on)
    BY <1>4, <1>9 DEF Undisturbed, Grants
  <2>3. a.label = l => m \notin a.todo
    BY <1>1, <2>1 DEF Stands, NoneActs
  <2>4. b.label = l => /\ b.pc = "send" => m \notin b.todo
                       /\ b.pc = "back" => b.met \/ m \notin b.did \ b.taken
    <3>1. b.pc = "send" => b.label = a.label
      <4>1. next.label = a.label
        BY <1>3 DEF next, Actions
      <4> QED
        BY <4>1 DEF b, NoAct
    <3> QED
      BY <1>6, <2>3, <3>1
  <2>5. eng' = eng /\ reader' = reader /\ act' = [act EXCEPT ![w] = b]
    BY <1>1
  <2> QED
    BY <1>2, <1>6, <2>1, <2>2, <2>4, <2>5, WriterStands
<1> QED
  BY <1>8, <1>9

LEMMA GiveUpStood ==
  ASSUME Typed, Stood, NEW w \in Writers, GiveUp(w)
  PROVE  Stood'
<1> DEFINE a == act[w]
           b == [a EXCEPT !.pc = "back"]
<1>1. /\ a.pc = "send" /\ eng' = eng /\ reader' = reader /\ act' = [act EXCEPT ![w] = b]
      /\ asked' = asked /\ GoesOn
  BY GiveUpTyped DEF GiveUp, Is, Becomes
<1>2. a \in Actions /\ a.label \in Labels /\ a.on \in BOOLEAN /\ NotTaken(w) \subseteq a.todo
      /\ a.todo \subseteq Msgs
  BY <1>1, ActsAre DEF Typed, WriterStages, Coherent, NotTaken, Actions
<1>3. /\ b \in Actions /\ b.pc = "back" /\ b.label = a.label /\ b.did \ b.taken = NotTaken(w)
  BY <1>2 DEF Actions, NotTaken
<1> SUFFICES ASSUME NEW m \in Msgs, NEW l \in Labels, NEW on \in BOOLEAN, <<m, l, on>> \in asked
             PROVE  Stands(m, l, on)'
  BY <1>1 DEF Stood
<1>4. Stands(m, l, on) /\ (a.label = l => m \notin a.todo)
  BY <1>1 DEF Stood, Stands, NoneActs
<1>5. Undisturbed(m, l, on)
  <2>1. CASE UNCHANGED <<srv, log>>
    BY <2>1 DEF Undisturbed, Typed, Kinds, Histories
  <2>2. CASE \E n \in a.todo : n \in srv.there /\ Fault /\ ServerLabels(n, a.label, a.on)
    <3>1. PICK n \in a.todo : n \in srv.there /\ Fault /\ ServerLabels(n, a.label, a.on)
      BY <2>2
    <3>2. /\ srv'.there = srv.there
          /\ \A x \in Msgs, k \in Labels :
                On(srv', x, k) <=> IF x = n /\ k = a.label THEN a.on ELSE On(srv, x, k)
          /\ \A i \in DOMAIN log' : i > Len(log) => log'[i].id = n /\ log'[i].label = a.label
      BY <1>2, <3>1, TypedServer, LabelsGoOn
    <3>3. ~(m = n /\ l = a.label)
      BY <1>4, <3>1
    <3> QED
      BY <3>2, <3>3 DEF Undisturbed, Grants
  <2> QED
    BY <2>1, <2>2 DEF GiveUp
<1> HIDE DEF b
<1>6. b.label = l => /\ b.pc = "send" => m \notin b.todo
                     /\ b.pc = "back" => b.met \/ m \notin b.did \ b.taken
  BY <1>2, <1>3, <1>4
<1> QED
  BY <1>1, <1>3, <1>4, <1>5, <1>6, WriterStands

LEMMA EraseStood ==
  ASSUME Typed, Stood, NEW w \in Writers, NEW n \in Msgs, Erase(w, n)
  PROVE  Stood'
<1> DEFINE b == [NoAct EXCEPT !.pc = "erased", !.todo = {n}]
<1>1. /\ eng' = eng /\ reader' = reader /\ act' = [act EXCEPT ![w] = b]
      /\ asked' = Forget(Of({n})) /\ GoesOn
  BY EraseTyped DEF Erase, Becomes
<1>2. /\ srv'.there = srv.there \ {n}
      /\ \A m \in Msgs, l \in Labels : On(srv', m, l) <=> m # n /\ On(srv, m, l)
      /\ \A i \in DOMAIN log' : i > Len(log) => log'[i].id = n
  BY TypedServer, DeletesGoOn, MirrorAssumption DEF Erase
<1>3. b \in Actions /\ b.pc = "erased"
  BY NoActTyped DEF NoAct, Actions
<1> HIDE DEF b
<1> SUFFICES ASSUME NEW m \in Msgs, NEW l \in Labels, NEW on \in BOOLEAN, <<m, l, on>> \in asked'
             PROVE  Stands(m, l, on)'
  BY DEF Stood
<1>4. Stands(m, l, on) /\ m # n
  BY <1>1 DEF Stood, Forget, Of
<1>5. Undisturbed(m, l, on)
  BY <1>2, <1>4 DEF Undisturbed, Grants
<1> QED
  BY <1>1, <1>3, <1>4, <1>5, WriterStands

LEMMA ActStood ==
  ASSUME Typed, Stood, NEW w \in Writers, NEW ms \in SUBSET Msgs, NEW k \in Labels, NEW o \in BOOLEAN,
         Act(w, ms, k, o)
  PROVE  Stood'
<1> DEFINE b == [NoAct EXCEPT !.pc = "send", !.todo = ms, !.label = k, !.on = o,
                    !.did = {m \in ms : (<<m, k>> \in mail.on) # o}]
<1>1. /\ SameServer /\ eng' = eng /\ reader' = reader /\ asked' = Forget(ms \X {k})
      /\ act' = [Met EXCEPT ![w] = b] /\ GoesOn
  BY ActTyped DEF Act
<1>2. b.pc = "send" /\ b.todo = ms /\ b.label = k
  BY DEF NoAct
<1> HIDE DEF b
<1>3. /\ act'[w] = b
      /\ \A v \in Writers : v # w => act'[v] = Met[v]
  BY <1>1, MetIs DEF Typed, Kinds
<1>4. \A v \in Writers : v # w =>
         /\ act'[v].pc = act[v].pc /\ act'[v].todo = act[v].todo /\ act'[v].label = act[v].label
         /\ act'[v].did = act[v].did /\ act'[v].taken = act[v].taken
         /\ act[v].met => act'[v].met
  BY <1>3, MetIs DEF Typed, Kinds
<1> SUFFICES ASSUME NEW m \in Msgs, NEW l \in Labels, NEW on \in BOOLEAN, <<m, l, on>> \in asked'
             PROVE  Stands(m, l, on)'
  BY DEF Stood
<1>5. Stands(m, l, on) /\ ~(m \in ms /\ l = k)
  BY <1>1 DEF Stood, Forget
<1>6. NoneActs(m, l)
  BY <1>5 DEF Stands
<1>7. NoneActs(m, l)'
  <2> SUFFICES ASSUME NEW v \in Writers, act'[v].label = l
               PROVE  /\ act'[v].pc = "send" => m \notin act'[v].todo
                      /\ act'[v].pc = "back" => act'[v].met \/ m \notin NotTaken(v)'
    BY DEF NoneActs
  <2>1. CASE v = w
    BY <1>2, <1>3, <1>5, <2>1
  <2>2. CASE v # w
    BY <1>4, <1>6, <2>2 DEF NoneActs, NotTaken
  <2> QED
    BY <2>1, <2>2
<1> QED
  BY <1>1, <1>5, <1>7, SameUndisturbed, StandsOn

\* An action that is over, and others that are as they were or are met.
LEMMA OverStood ==
  ASSUME Typed, Stood, NEW w \in Writers, TakeBack(w) \/ EraseHere(w)
  PROVE  Stood'
<1>1. /\ SameServer /\ eng' = eng /\ reader' = reader /\ asked' = asked
      /\ \/ act' = [act EXCEPT ![w] = NoAct]
         \/ act' = [Met EXCEPT ![w] = NoAct]
  BY DEF TakeBack, EraseHere, Becomes
<1>2. act \in [Writers -> Actions] /\ Met \in [Writers -> Actions]
  BY MetIs DEF Typed, Kinds
<1>3. /\ act'[w] = NoAct
      /\ \A v \in Writers : v # w => act'[v] = act[v] \/ act'[v] = Met[v]
  BY <1>1, <1>2
<1>4. \A v \in Writers : v # w =>
         /\ act'[v].pc = act[v].pc /\ act'[v].todo = act[v].todo /\ act'[v].label = act[v].label
         /\ act'[v].did = act[v].did /\ act'[v].taken = act[v].taken
         /\ act[v].met => act'[v].met
  BY <1>2, <1>3, MetIs
<1> SUFFICES ASSUME NEW m \in Msgs, NEW l \in Labels, NEW on \in BOOLEAN, <<m, l, on>> \in asked
             PROVE  Stands(m, l, on)'
  BY <1>1 DEF Stood
<1>5. Stands(m, l, on) /\ NoneActs(m, l)
  BY DEF Stood, Stands
<1>6. NoneActs(m, l)'
  <2> SUFFICES ASSUME NEW v \in Writers, act'[v].label = l
               PROVE  /\ act'[v].pc = "send" => m \notin act'[v].todo
                      /\ act'[v].pc = "back" => act'[v].met \/ m \notin NotTaken(v)'
    BY DEF NoneActs
  <2>1. CASE v = w
    BY <1>3, <2>1 DEF NoAct
  <2>2. CASE v # w
    BY <1>4, <1>5, <2>2 DEF NoneActs, NotTaken
  <2> QED
    BY <2>1, <2>2
<1> QED
  BY <1>1, <1>5, <1>6, SameUndisturbed, StaysGoesOn, StandsOn DEF Typed

LEMMA CrashStood ==
  ASSUME Typed, Stood, Crash
  PROVE  Stood'
<1>1. /\ SameServer /\ Rests /\ reader' = NoReader /\ asked' = asked
      /\ act' = [w \in Writers |-> NoAct]
  BY DEF Crash
<1>2. eng'.pc = "idle" /\ reader'.pc = "idle"
  BY <1>1, EngineRests DEF NoReader
<1> SUFFICES ASSUME NEW m \in Msgs, NEW l \in Labels, NEW on \in BOOLEAN, <<m, l, on>> \in asked
             PROVE  Stands(m, l, on)'
  BY <1>1 DEF Stood
<1>3. Stands(m, l, on)
  BY DEF Stood
<1>4. NoneActs(m, l)'
  BY <1>1 DEF NoneActs, NoAct
<1> QED
  BY <1>1, <1>2, <1>3, <1>4, SameUndisturbed, StaysGoesOn, StandsOn DEF Typed

\* The engine's other steps, and the reader's write.
LEMMA PassesStood ==
  ASSUME Typed, Stood,
         \/ LosesPlace \/ Compare \/ EngineFails \/ PageRefused \/ Begin \/ List \/ PageRead
         \/ Replay \/ Rewrite \/ Repair \/ PageWrite \/ StoreThread
  PROVE  Stood'
<1>1. CASE LosesPlace
  <2>1. GoesOn
    BY <1>1, LosesPlaceTyped
  <2>2. /\ srv' = srv /\ log' = log /\ asked' = asked /\ act' = act /\ eng' = eng /\ reader' = reader
    BY <1>1 DEF LosesPlace, SameActors
  <2> SUFFICES ASSUME NEW m \in Msgs, NEW l \in Labels, NEW on \in BOOLEAN, <<m, l, on>> \in asked
               PROVE  Stands(m, l, on)'
    BY <2>2 DEF Stood
  <2>3. Stands(m, l, on)
    BY DEF Stood
  <2> QED
    BY <2>2, <2>3, MetActs DEF Stands
<1>2. CASE Replay \/ Rewrite \/ Repair \/ PageWrite \/ EngineFails
  <2>1. /\ SameServer /\ Rests /\ asked' = asked /\ reader' = reader
        /\ act' = act \/ act' = Met
    BY <1>2 DEF Replay, Rewrite, Repair, PageWrite, EngineFails, Overtakes
  <2> QED
    BY <2>1, EngineRests, QuietStood
<1>3. CASE StoreThread
  <2>1. /\ SameServer /\ asked' = asked /\ reader' = NoReader /\ act' = Met /\ eng' = eng
    BY <1>3 DEF StoreThread, Overtakes
  <2>2. reader'.pc # "write"
    BY <2>1 DEF NoReader
  <2> QED
    BY <2>1, <2>2, QuietStood
<1>4. CASE Compare \/ PageRefused \/ Begin \/ List \/ PageRead
  <2>1. /\ SameServer /\ asked' = asked /\ reader' = reader /\ act' = act
    BY <1>4 DEF Compare, PageRefused, Begin, List, PageRead
  <2>2. eng' = eng \/ eng'.pc \notin {"fetch", "write", "rewrite", "repair"}
    BY <1>4 DEF Compare, PageRefused, Begin, List, PageRead, Resting, Typed, Kinds, Engines
  <2> QED
    BY <2>1, <2>2, QuietStood
<1> QED
  BY <1>1, <1>2, <1>3, <1>4

LEMMA InitStood == Init => Stood
BY DEF Init, Stood

LEMMA NextStood == Typed /\ Stood /\ [Next]_vars => Stood'
<1> SUFFICES ASSUME Typed, Stood, [Next]_vars PROVE Stood'
  OBVIOUS
<1>1. CASE UNCHANGED vars
  <2>1. SameServer /\ asked' = asked /\ reader' = reader /\ act' = act /\ eng' = eng
    BY <1>1 DEF vars, SameServer
  <2> QED
    BY <2>1, QuietStood
<1>2. CASE Next
  <2>1. CASE Look \/ Compare \/ EngineFails \/ PageRefused
    BY <2>1, LookStood, PassesStood
  <2>2. CASE EngineGoesOn
    BY <2>2, ReadStood, PassesStood DEF EngineGoesOn
  <2>3. CASE \E m \in Msgs : OtherDeletes(m) \/ Arrives(m) \/ OpenThread(m)
    BY <2>3, OtherDeletesStood, ArrivesStood, OpenThreadStood
  <2>4. CASE \E m \in Msgs, l \in Labels, on \in BOOLEAN : OtherLabels(m, l, on)
    BY <2>4, OtherLabelsStood
  <2>5. CASE \E w \in Writers : WriterGoesOn(w) \/ \E m \in Msgs : Erase(w, m)
    BY <2>5, TakeStood, GiveUpStood, OverStood, EraseStood DEF WriterGoesOn
  <2>6. CASE \E w \in Writers, ms \in SUBSET Msgs, l \in Labels, on \in BOOLEAN : Act(w, ms, l, on)
    BY <2>6, ActStood
  <2>7. CASE StoreThread \/ LosesPlace \/ Crash
    BY <2>7, PassesStood, CrashStood
  <2> QED
    BY <1>2, <2>1, <2>2, <2>3, <2>4, <2>5, <2>6, <2>7 DEF Next
<1> QED
  BY <1>1, <1>2

LEMMA DropSays ==
  ASSUME NEW c \in Mail, NEW ms, NEW m \in Msgs, NEW l \in Labels, NEW on \in BOOLEAN, Says(c, m, l, on)
  PROVE  Says(Drop(c, ms), m, l, on) /\ Drop(c, ms) \in Mail
BY DropWrites DEF Says

LEMMA UpsertSays ==
  ASSUME NEW c \in Mail, NEW found \in Mail, NEW ms, NEW m \in Msgs, NEW l \in Labels, NEW on \in BOOLEAN,
         Says(c, m, l, on), Says(found, m, l, on)
  PROVE  Says(Upsert(c, found, ms), m, l, on) /\ Upsert(c, found, ms) \in Mail
BY UpsertWrites DEF Says

LEMMA LabelSays ==
  ASSUME NEW c \in Mail, NEW ms, NEW k \in Labels, NEW o \in BOOLEAN,
         NEW m \in Msgs, NEW l \in Labels, NEW on \in BOOLEAN, Says(c, m, l, on), ~(m \in ms /\ k = l)
  PROVE  Says(Label(c, ms, k, o), m, l, on)
BY LabelWrites DEF Says

\* A step that writes the store leaves what stands.
LEMMA StaysShown ==
  ASSUME Typed, Reads, Stood, Next,
         NEW m \in Msgs, NEW l \in Labels, NEW on \in BOOLEAN,
         <<m, l, on>> \in asked, <<m, l, on>> \in asked', Says(mail, m, l, on),
         torn' = {}, ~PageStores
  PROVE  Says(mail', m, l, on)
<1>1. Stands(m, l, on) /\ NoneActs(m, l)
  BY DEF Stood, Stands
<1>2. mail \in Mail /\ eng.got \in Mail /\ reader.got \in Mail
  BY DEF Typed, Kinds, Engines, Readings
<1>3. CASE mail' = mail
  BY <1>3
<1>4. CASE Replay
  <2>1. eng.pc = "write" /\ mail' = Applied
    BY <1>4 DEF Replay, Doing
  <2>2. Batch
    BY <2>1, BatchHeld
  <2>3. /\ m \in srv.there /\ (On(srv, m, l) <=> on) /\ Says(eng.got, m, l, on)
        /\ \A i \in DOMAIN log : i > eng.upTo => ~Grants(log[i], m, l, on)
    BY <1>1, <2>1 DEF Stands
  <2> QED
    BY <2>1, <2>2, <2>3, AppliedSays
<1>5. CASE Rewrite \/ Repair
  <2>1. Says(eng.got, m, l, on)
    BY <1>1, <1>5 DEF Stands, Rewrite, Repair, Doing
  <2>2. PICK ms : mail' = Drop(Upsert(mail, eng.got, Msgs), ms)
    BY <1>5 DEF Rewrite, Repair
  <2> QED
    BY <1>2, <2>1, <2>2, UpsertSays, DropSays
<1>6. CASE StoreThread
  <2>1. Says(reader.got, m, l, on)
    BY <1>1, <1>6 DEF Stands, StoreThread
  <2>2. mail' = Drop(mail, {reader.id}) \/ mail' = Upsert(mail, reader.got, Msgs)
    BY <1>6 DEF StoreThread
  <2> QED
    BY <1>2, <2>1, <2>2, UpsertSays, DropSays
<1>7. CASE PageWrite
  <2>1. eng.pc = "pagewrite" /\ eng'.pc = "idle"
    BY <1>7, EngineRests DEF PageWrite, Doing
  <2> QED
    BY <2>1 DEF PageStores, Doing
<1>8. ASSUME NEW w \in Writers, NEW ms \in SUBSET Msgs, NEW k \in Labels, NEW o \in BOOLEAN, Act(w, ms, k, o)
      PROVE  Says(mail', m, l, on)
  <2>1. mail' = Label(mail, ms, k, o) /\ ~(m \in ms /\ k = l)
    BY <1>8 DEF Act, Forget
  <2> QED
    BY <1>2, <2>1, LabelSays
<1>9. ASSUME NEW w \in Writers, TakeBack(w)
      PROVE  Says(mail', m, l, on)
  <2>1. /\ act[w].pc = "back" /\ mail' = Label(mail, NotTaken(w), act[w].label, ~act[w].on)
        /\ Owes(w) => ~act[w].met
    BY <1>9 DEF TakeBack, Is
  <2>2. ~(m \in NotTaken(w) /\ act[w].label = l)
    BY <1>1, <2>1, ActsAre DEF NoneActs
  <2>3. PICK k \in Labels, o \in BOOLEAN : k = act[w].label /\ o = ~act[w].on
    BY ActsAre
  <2>4. mail' = Label(mail, NotTaken(w), k, o)
    BY <2>1, <2>3
  <2> QED
    BY <1>2, <2>2, <2>3, <2>4, LabelSays
<1>10. ASSUME NEW w \in Writers, EraseHere(w)
       PROVE  Says(mail', m, l, on)
  BY <1>2, <1>10, DropSays DEF EraseHere
<1>11. CASE /\ ~(Replay \/ Rewrite \/ Repair \/ StoreThread \/ PageWrite)
            /\ \A v \in Writers : ~TakeBack(v) /\ ~EraseHere(v)
            /\ \A w \in Writers, ms \in SUBSET Msgs, k \in Labels, o \in BOOLEAN : ~Act(w, ms, k, o)
  <2>1. CASE Look \/ Compare \/ EngineFails \/ PageRefused \/ LosesPlace \/ Crash
    BY <1>3, <2>1 DEF Look, Compare, EngineFails, PageRefused, LosesPlace, Crash, SameStore
  <2>2. CASE Fetch \/ Begin \/ List \/ Refetch \/ PageRead \/ Differ
    BY <1>3, <2>2 DEF Fetch, Begin, List, Refetch, PageRead, Differ, SameStore
  <2>3. CASE \E n \in Msgs : OtherDeletes(n) \/ Arrives(n) \/ OpenThread(n)
    BY <1>3, <2>3 DEF OtherDeletes, Arrives, OpenThread, SameStore
  <2>4. CASE \E n \in Msgs, k \in Labels, o \in BOOLEAN : OtherLabels(n, k, o)
    BY <1>3, <2>4 DEF OtherLabels, SameStore
  <2>5. CASE \E w \in Writers : Take(w) \/ GiveUp(w) \/ \E n \in Msgs : Erase(w, n)
    BY <1>3, <2>5 DEF Take, GiveUp, Erase, SameStore
  <2> QED
    BY <1>11, <2>1, <2>2, <2>3, <2>4, <2>5 DEF Next, EngineGoesOn, WriterGoesOn
<1> QED
  BY <1>4, <1>5, <1>6, <1>7, <1>8, <1>9, <1>10, <1>11

\* What a person did and the server took stays as the store shows it, through
\* every pass, every read of a thread and every rollback, until somebody changes
\* it again: the move lock keeps a pass that read the server before the change
\* from writing after it (store_mail.rs, writes.rs). Only the page, which goes
\* without the lock, may put it back, and what a torn write left.
THEOREM WritesStay == Spec => WriteStays
<1> DEFINE Keeps == \A t \in asked \cap asked' : Shows(t) /\ ~Shows(t)' => PageStores \/ torn' # {}
<1>1. ASSUME Typed, Reads, Stood, [Next]_vars
      PROVE  Keeps
  <2>1. CASE UNCHANGED vars
    BY <2>1 DEF vars, Shows
  <2>2. CASE Next
    <3> SUFFICES ASSUME NEW t \in asked \cap asked', Shows(t), ~PageStores, torn' = {}
                 PROVE  Shows(t)'
      OBVIOUS
    <3>0. t \in Msgs \X Labels \X BOOLEAN
      BY <1>1 DEF Typed, Kinds
    <3>1. PICK m \in Msgs, l \in Labels, on \in BOOLEAN : t = <<m, l, on>>
      BY <3>0
    <3>2. Shows(t) <=> Says(mail, m, l, on)
      BY <3>1 DEF Shows, Says, On
    <3>3. Shows(t)' <=> Says(mail', m, l, on)
      BY <3>1 DEF Shows, Says, On
    <3>4. <<m, l, on>> \in asked /\ <<m, l, on>> \in asked'
      BY <3>1
    <3> QED
      BY <1>1, <2>2, <3>2, <3>3, <3>4, StaysShown
  <2> QED
    BY <1>1, <2>1, <2>2
<1>2. Spec => [](Typed /\ Reads /\ Stood)
  <2>1. Init => Typed /\ Reads /\ Stood
    BY InitTyped, InitReads, InitStood
  <2>2. Typed /\ Reads /\ Stood /\ [Next]_vars => (Typed /\ Reads /\ Stood)'
    BY NextTyped, NextReads, NextStood
  <2> QED
    BY <2>1, <2>2, PTL DEF Spec
<1>3. Spec => [][Keeps]_vars
  <2>1. Typed /\ Reads /\ Stood /\ [Next]_vars => [Keeps]_vars
    BY <1>1
  <2> QED
    BY <1>2, <2>1, PTL DEF Spec
<1> QED
  BY <1>3 DEF WriteStays
=============================================================================
