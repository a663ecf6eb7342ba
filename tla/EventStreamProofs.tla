------------------------- MODULE EventStreamProofs --------------------------
(***************************************************************************)
(* Theorems about the event streams, for any number of streams, threads    *)
(* and clients and any sizes of the ring and the queues.                   *)
(***************************************************************************)
EXTENDS EventStream, WellFoundedInduction, TLAPS

\* How many events of s the broker has got; the last number handed out may
\* still be on its way to it.
Published(s) ==
    IF \E p \in Publishers : pending[p] # Nil /\ pending[p].stream = s
    THEN sequence[s] - 1 ELSE sequence[s]

\* One envelope is under way at a time, and it has its stream's last number.
NumberedUnderLock ==
    \A p \in Publishers : pending[p] # Nil =>
        lock = p /\ sequence[pending[p].stream] = pending[p].nr + 1

\* What the ring holds of a stream is a run of consecutive numbers that ends
\* with the last one published.
RingChained ==
    /\ RingInOrder
    /\ \A i \in 1 .. Len(ring) :
          /\ ring[i].nr < Published(ring[i].stream)
          /\ \/ ring[i].nr + 1 = Published(ring[i].stream)
             \/ \E j \in i + 1 .. Len(ring) :
                   ring[j].stream = ring[i].stream /\ ring[j].nr = ring[i].nr + 1

\* A run of consecutive events of s.
Consecutive(q, s) ==
    \A i \in 1 .. Len(q) : q[i].stream = s /\ q[i].nr + 1 = q[1].nr + i

\* A subscriber's queue is such a run up to the last event published; when it
\* has overflowed it is full, and stays behind.
QueueFollows(c) ==
    sub[c].on =>
    /\ sub[c].stream \in Streams /\ sub[c].state # "CLOSED"
    /\ Consecutive(sub[c].queue, sub[c].stream)
    /\ (sub[c].state = "ACTIVE" /\ sub[c].queue # <<>>) =>
          sub[c].queue[1].nr + Len(sub[c].queue) = Published(sub[c].stream)
    /\ sub[c].state = "LAGGED" =>
          /\ Len(sub[c].queue) = QueueSize
          /\ sub[c].queue[1].nr + QueueSize <= Published(sub[c].stream)

\* So is what was drained, and it goes on where the client is, unless the client
\* was told of a gap.
BatchFollows(c) ==
    /\ Consecutive(batch[c], sub[c].stream)
    /\ socket[c] # "send" => batch[c] = <<>>
    /\ (got[c] # Nil /\ batch[c] # <<>>) =>
          \/ batch[c][1].nr = got[c] + 1
          \/ batch[c][1].nr > got[c] /\ noticed[c]

\* The next number that will be drained, the number that comes after what was
\* drained before, and whether a notice stands, or will, between the two.
Front(c) == IF sub[c].queue # <<>> THEN sub[c].queue[1].nr ELSE Published(sub[c].stream)
Expected(c) == IF batch[c] # <<>> THEN batch[c][1].nr + Len(batch[c]) ELSE got[c] + 1
Flagged(c) == (socket[c] = "send" /\ lagged[c]) \/ (batch[c] = <<>> /\ noticed[c])

\* The queue goes on where the batch ends, or a gap notice comes in between.
HandoverFollows(c) ==
    (sub[c].on /\ (batch[c] # <<>> \/ got[c] # Nil)) =>
    \/ Front(c) = Expected(c)
    \/ Front(c) > Expected(c) /\ Flagged(c)

\* The inductive invariant.
StreamInv ==
    /\ StreamTypeOK
    /\ NumberedUnderLock
    /\ RingChained
    /\ \A c \in Sockets : QueueFollows(c) /\ BatchFollows(c) /\ HandoverFollows(c)

-----------------------------------------------------------------------------
(* The copy of the ring that a new subscriber gets. *)

\* A nonempty set of naturals has a least element.
LEMMA LeastNumber ==
    ASSUME NEW S \in SUBSET Nat, S # {}
    PROVE  \E x \in S : \A y \in S : x <= y
<1>1. PICK x \in S : \A y \in S : ~ (<<y, x>> \in OpToRel(<, Nat))
  BY NatLessThanWellFounded, WFMin
<1>2. \A y \in S : ~ (y < x)
  BY <1>1 DEF OpToRel
<1> QED
  BY <1>2

LEMMA EventFields ==
    \A e \in Events : e.nr \in Nat /\ e.stream \in Streams /\ e.terminal \in BOOLEAN
BY DEF Events

\* The fields of the events in a sequence.
LEMMA SequenceFields ==
    ASSUME NEW q \in Seq(Events)
    PROVE  /\ Len(q) \in Nat
           /\ \A i \in 1 .. Len(q) : q[i] \in Events /\ q[i].nr \in Nat /\ q[i].stream \in Streams
<1>1. Len(q) \in Nat /\ \A i \in 1 .. Len(q) : q[i] \in Events
  OBVIOUS
<1> QED
  BY <1>1, EventFields

\* The loop of subscribe over the ring, as far as its first n events.
Selected(f, s, n) ==
    f = [i \in 0 .. n |->
            IF i = 0 THEN <<>>
            ELSE IF ring[i].stream = s THEN Append(f[i - 1], ring[i]) ELSE f[i - 1]]

\* The recursion that defines Own has a solution.
LEMMA SelectionExists ==
    ASSUME ring \in Seq(Events), NEW s
    PROVE  \E f : Selected(f, s, Len(ring))
<1> DEFINE Bad == {n \in 0 .. Len(ring) : ~ \E f : Selected(f, s, n)}
<1>0. Len(ring) \in Nat
  OBVIOUS
<1>1. SUFFICES ASSUME Bad # {} PROVE FALSE
  BY <1>0
<1>2. PICK n \in Bad : \A m \in Bad : n <= m
  <2>1. Bad \in SUBSET Nat
    OBVIOUS
  <2> QED
    BY <1>1, <2>1, LeastNumber
<1>3. n # 0
  <2>1. Selected([i \in 0 .. 0 |-> <<>>], s, 0)
    BY DEF Selected
  <2> QED
    BY <2>1
<1>4. n \in 0 .. Len(ring) /\ n - 1 \in 0 .. Len(ring) /\ n - 1 \notin Bad
  BY <1>2, <1>3
<1>5. PICK f : Selected(f, s, n - 1)
  BY <1>4
<1> DEFINE g == [i \in 0 .. n |->
                    IF i < n THEN f[i]
                    ELSE IF ring[n].stream = s THEN Append(f[n - 1], ring[n]) ELSE f[n - 1]]
<1>6. ASSUME NEW i \in 0 .. n
      PROVE  g[i] = IF i = 0 THEN <<>>
                    ELSE IF ring[i].stream = s THEN Append(g[i - 1], ring[i]) ELSE g[i - 1]
  <2>1. CASE i = n
    <3>1. g[i - 1] = f[i - 1]
      BY <1>3, <1>4, <2>1
    <3> QED
      BY <1>3, <2>1, <3>1
  <2>2. CASE i # n
    <3>1. i \in 0 .. n - 1 /\ g[i] = f[i]
      BY <1>4, <2>2
    <3>2. i # 0 => g[i - 1] = f[i - 1]
      BY <1>4, <3>1
    <3>3. f[i] = IF i = 0 THEN <<>>
                 ELSE IF ring[i].stream = s THEN Append(f[i - 1], ring[i]) ELSE f[i - 1]
      BY <1>5, <3>1 DEF Selected
    <3> QED
      BY <3>1, <3>2, <3>3
  <2> QED
    BY <2>1, <2>2
<1>7. Selected(g, s, n)
  BY <1>6 DEF Selected
<1> QED
  BY <1>2, <1>7

\* What the loop has selected after i events is a run of consecutive events of
\* s that ends with the last one of s among them.
SelectedRun(f, s, i) ==
    /\ f[i] \in Seq(Events)
    /\ Consecutive(f[i], s)
    /\ f[i] = <<>> \/ \E k \in 1 .. i :
          /\ ring[k].stream = s
          /\ f[i][1].nr + Len(f[i]) = ring[k].nr + 1
          /\ \A m \in k + 1 .. i : ring[m].stream # s

\* In a chained ring the event of s after the k-th has the next number.
LEMMA NextInRing ==
    ASSUME StreamTypeOK, RingChained, NEW s,
           NEW k \in 1 .. Len(ring), NEW i \in 1 .. Len(ring), k < i,
           ring[k].stream = s, ring[i].stream = s,
           \A m \in k + 1 .. i - 1 : ring[m].stream # s
    PROVE  ring[i].nr = ring[k].nr + 1
<1>1. /\ ring[k].nr \in Nat /\ ring[i].nr \in Nat
      /\ \A j \in 1 .. Len(ring) : ring[j].nr \in Nat
  BY SequenceFields DEF StreamTypeOK
<1>2. ring[k].nr < ring[i].nr
  BY DEF RingChained, RingInOrder
<1>3. ring[i].nr < Published(s) /\ ring[k].nr < Published(s)
  BY DEF RingChained
<1>4. CASE ring[k].nr + 1 = Published(s)
  BY <1>1, <1>2, <1>3, <1>4
<1>5. CASE \E j \in k + 1 .. Len(ring) : ring[j].stream = s /\ ring[j].nr = ring[k].nr + 1
  <2>1. PICK j \in k + 1 .. Len(ring) : ring[j].stream = s /\ ring[j].nr = ring[k].nr + 1
    BY <1>5
  <2>2. j >= i
    BY <2>1
  <2>3. j > i => ring[i].nr < ring[j].nr
    BY <2>1 DEF RingChained, RingInOrder
  <2> QED
    BY <1>1, <1>2, <2>1, <2>2, <2>3
<1> QED
  BY <1>4, <1>5 DEF RingChained

\* The events a subscriber copies are a run up to the last one published.
LEMMA OwnIsARun ==
    ASSUME StreamTypeOK, RingChained, NEW s
    PROVE  /\ Own(s) \in Seq(Events)
           /\ Consecutive(Own(s), s)
           /\ Own(s) # <<>> => Own(s)[1].nr + Len(Own(s)) = Published(s)
<1>1. PICK f : f = (CHOOSE g : Selected(g, s, Len(ring)))
  OBVIOUS
<1>2. Selected(f, s, Len(ring))
  BY <1>1, SelectionExists DEF StreamTypeOK
<1>3. Own(s) = f[Len(ring)]
  BY <1>1 DEF Own, Selected
<1>4. \A i \in 0 .. Len(ring) :
         f[i] = IF i = 0 THEN <<>>
                ELSE IF ring[i].stream = s THEN Append(f[i - 1], ring[i]) ELSE f[i - 1]
  BY <1>2 DEF Selected
<1>5. Len(ring) \in Nat /\ \A i \in 1 .. Len(ring) : ring[i] \in Events /\ ring[i].nr \in Nat
  BY SequenceFields DEF StreamTypeOK
<1>6. \A i \in 0 .. Len(ring) : SelectedRun(f, s, i)
  <2> DEFINE Bad == {i \in 0 .. Len(ring) : ~ SelectedRun(f, s, i)}
  <2>1. SUFFICES ASSUME Bad # {} PROVE FALSE
    OBVIOUS
  <2>2. PICK i \in Bad : \A m \in Bad : i <= m
    <3>1. Bad \in SUBSET Nat
      OBVIOUS
    <3> QED
      BY <2>1, <3>1, LeastNumber
  <2>3. i # 0
    <3>1. f[0] = <<>>
      BY <1>4, <1>5
    <3>2. SelectedRun(f, s, 0)
      BY <3>1 DEF SelectedRun, Consecutive
    <3> QED
      BY <3>2
  <2>4. i \in 1 .. Len(ring) /\ i - 1 \in 0 .. Len(ring) /\ SelectedRun(f, s, i - 1)
    BY <2>2, <2>3
  <2>5. PICK q : q = f[i - 1]
    OBVIOUS
  <2>6. q \in Seq(Events) /\ Consecutive(q, s)
    BY <2>4, <2>5 DEF SelectedRun
  <2>7. CASE ring[i].stream # s
    <3>1. f[i] = q
      BY <1>4, <2>4, <2>5, <2>7
    <3>2. q = <<>> \/ \E k \in 1 .. i :
             /\ ring[k].stream = s
             /\ q[1].nr + Len(q) = ring[k].nr + 1
             /\ \A m \in k + 1 .. i : ring[m].stream # s
      BY <2>4, <2>5, <2>7 DEF SelectedRun
    <3>3. SelectedRun(f, s, i)
      BY <2>6, <3>1, <3>2 DEF SelectedRun
    <3> QED
      BY <2>2, <3>3
  <2>8. CASE ring[i].stream = s
    <3>0. i \in 0 .. Len(ring) /\ i # 0
      BY <2>4
    <3>1. f[i] = Append(q, ring[i])
      BY <1>4, <2>5, <2>8, <3>0
    <3>2. f[i] \in Seq(Events) /\ Len(f[i]) = Len(q) + 1 /\ f[i][Len(q) + 1] = ring[i]
          /\ \A j \in 1 .. Len(q) : f[i][j] = q[j]
      BY <1>5, <2>4, <2>6, <3>1
    <3>3. q # <<>> => q[1].nr + Len(q) = ring[i].nr
      <4> SUFFICES ASSUME q # <<>> PROVE q[1].nr + Len(q) = ring[i].nr
        OBVIOUS
      <4>1. PICK k \in 1 .. i - 1 :
                /\ ring[k].stream = s
                /\ q[1].nr + Len(q) = ring[k].nr + 1
                /\ \A m \in k + 1 .. i - 1 : ring[m].stream # s
        BY <2>4, <2>5 DEF SelectedRun
      <4>2. k \in 1 .. Len(ring) /\ k < i
        BY <1>5, <2>4, <4>1
      <4>3. ring[i].nr = ring[k].nr + 1
        BY <2>4, <2>8, <4>1, <4>2, NextInRing
      <4> QED
        BY <4>1, <4>3
    <3>4. f[i][1].nr + Len(f[i]) = ring[i].nr + 1
      <4>1. CASE q = <<>>
        BY <1>5, <2>4, <3>2, <4>1
      <4>2. CASE q # <<>>
        <5>1. 1 \in 1 .. Len(q) /\ q[1].nr \in Nat /\ Len(q) \in Nat
          <6>1. Len(q) \in Nat /\ Len(q) # 0
            BY <2>6, <4>2
          <6> QED
            BY <2>6, <6>1, SequenceFields
        <5>2. f[i][1] = q[1]
          BY <3>2, <5>1
        <5>3. PICK x \in Nat, n \in Nat : x = q[1].nr /\ n = Len(q)
          BY <5>1
        <5>4. x + n = ring[i].nr
          BY <3>3, <4>2, <5>3
        <5>5. f[i][1].nr = x /\ Len(f[i]) = n + 1
          BY <3>2, <5>2, <5>3
        <5>6. x + (n + 1) = (x + n) + 1
          OBVIOUS
        <5> QED
          BY <5>4, <5>5, <5>6
      <4> QED
        BY <4>1, <4>2
    <3>5. Consecutive(f[i], s)
      <4> SUFFICES ASSUME NEW j \in 1 .. Len(f[i])
                   PROVE  f[i][j].stream = s /\ f[i][j].nr + 1 = f[i][1].nr + j
        BY DEF Consecutive
      <4>1. CASE j = Len(q) + 1
        BY <2>8, <3>2, <3>4, <4>1
      <4>2. CASE j # Len(q) + 1
        <5>1. j \in 1 .. Len(q) /\ 1 \in 1 .. Len(q)
          BY <2>6, <3>2, <4>2
        <5> QED
          BY <2>6, <3>2, <5>1 DEF Consecutive
      <4> QED
        BY <4>1, <4>2
    <3>6. SelectedRun(f, s, i)
      BY <2>4, <2>8, <3>2, <3>4, <3>5 DEF SelectedRun
    <3> QED
      BY <2>2, <3>6
  <2> QED
    BY <2>7, <2>8
<1>7. SelectedRun(f, s, Len(ring))
  BY <1>5, <1>6
<1>8. ASSUME f[Len(ring)] # <<>>
      PROVE  f[Len(ring)][1].nr + Len(f[Len(ring)]) = Published(s)
  <2>1. PICK k \in 1 .. Len(ring) :
            /\ ring[k].stream = s
            /\ f[Len(ring)][1].nr + Len(f[Len(ring)]) = ring[k].nr + 1
            /\ \A m \in k + 1 .. Len(ring) : ring[m].stream # s
    BY <1>7, <1>8 DEF SelectedRun
  <2>2. ring[k].nr + 1 = Published(s)
    BY <2>1 DEF RingChained
  <2> QED
    BY <2>1, <2>2
<1> QED
  BY <1>3, <1>7, <1>8 DEF SelectedRun

\* The newest part of a run is a run with the same end.
LEMMA BoundedRun ==
    ASSUME NEW q \in Seq(Events), NEW s, NEW n \in Nat \ {0}, Consecutive(q, s)
    PROVE  /\ Bounded(q, n) \in Seq(Events) /\ Len(Bounded(q, n)) <= n
           /\ Consecutive(Bounded(q, n), s)
           /\ Bounded(q, n) # <<>> =>
                 q # <<>> /\ Bounded(q, n)[1].nr + Len(Bounded(q, n)) = q[1].nr + Len(q)
<1>1. CASE Len(q) <= n
  BY <1>1 DEF Bounded
<1>2. CASE Len(q) > n
  <2>1. PICK b : b = Bounded(q, n)
    OBVIOUS
  <2>2. b = SubSeq(q, Len(q) - n + 1, Len(q))
    BY <1>2, <2>1 DEF Bounded
  <2>3. /\ Len(q) \in Nat /\ Len(q) - n + 1 \in 1 .. Len(q)
        /\ \A i \in 1 .. n : i + (Len(q) - n) \in 1 .. Len(q)
    BY <1>2
  <2>4. b \in Seq(Events) /\ Len(b) = n /\ \A i \in 1 .. n : b[i] = q[i + (Len(q) - n)]
    BY <2>2, <2>3
  <2>5. \A i \in 1 .. Len(q) : q[i].nr \in Nat /\ q[i].stream = s /\ q[i].nr + 1 = q[1].nr + i
    BY SequenceFields DEF Consecutive
  <2>6. 1 \in 1 .. n /\ b[1].nr + 1 = q[1].nr + 1 + (Len(q) - n)
    <3>1. 1 \in 1 .. n /\ 1 + (Len(q) - n) \in 1 .. Len(q) /\ 1 \in 1 .. Len(q)
      BY <2>3
    <3>2. b[1] = q[1 + (Len(q) - n)]
      BY <2>4, <3>1
    <3>3. q[1 + (Len(q) - n)].nr + 1 = q[1].nr + (1 + (Len(q) - n))
      BY <2>5, <3>1
    <3> QED
      BY <2>3, <2>5, <3>1, <3>2, <3>3
  <2>7. Consecutive(b, s)
    <3> SUFFICES ASSUME NEW i \in 1 .. n PROVE b[i].stream = s /\ b[i].nr + 1 = b[1].nr + i
      BY <2>4 DEF Consecutive
    <3>1. i + (Len(q) - n) \in 1 .. Len(q) /\ b[i] = q[i + (Len(q) - n)]
      BY <2>3, <2>4
    <3>2. b[i].stream = s /\ b[i].nr + 1 = q[1].nr + (i + (Len(q) - n))
      BY <2>5, <3>1
    <3>3. q[1].nr \in Nat /\ b[1].nr \in Nat
      <4>1. 1 \in 1 .. Len(q) /\ 1 \in 1 .. Len(b)
        BY <2>3, <2>4, <2>6
      <4> QED
        BY <2>4, <4>1, SequenceFields
    <3>4. PICK d : d = Len(q) - n
      OBVIOUS
    <3>5. d \in Nat /\ i \in Nat
      BY <2>3, <3>4
    <3>6. PICK x \in Nat, y \in Nat : x = q[1].nr /\ y = b[1].nr
      BY <3>3
    <3>7. y + 1 = x + 1 + d
      BY <2>6, <3>4, <3>6
    <3>8. x + (i + d) = y + i
      BY <3>5, <3>7
    <3> QED
      BY <3>2, <3>4, <3>6, <3>8
  <2>8. b[1].nr + Len(b) = q[1].nr + Len(q)
    <3>1. q[1].nr \in Nat /\ b[1].nr \in Nat
      <4>1. 1 \in 1 .. Len(q) /\ 1 \in 1 .. Len(b)
        BY <2>3, <2>4, <2>6
      <4> QED
        BY <2>4, <4>1, SequenceFields
    <3>2. PICK l \in Nat, x \in Nat, y \in Nat : l = Len(q) /\ x = q[1].nr /\ y = b[1].nr
      BY <2>3, <3>1
    <3>3. y + 1 = x + 1 + (l - n)
      BY <2>6, <3>2
    <3>4. y + n = x + l
      BY <3>3
    <3> QED
      BY <2>4, <3>2, <3>4
  <2>9. q # <<>>
    BY <1>2
  <2> QED
    BY <2>1, <2>4, <2>7, <2>8, <2>9
<1> QED
  BY <1>1, <1>2

-----------------------------------------------------------------------------
(* Types. *)

Subscribers ==
    [on : BOOLEAN, stream : Streams \cup {Nil}, queue : Seq(Events),
     state : {"ACTIVE", "LAGGED", "CLOSED"}]

LEMMA SubscriberFields ==
    ASSUME NEW u \in Subscribers
    PROVE  /\ u.on \in BOOLEAN /\ u.stream \in Streams \cup {Nil} /\ u.queue \in Seq(Events)
           /\ u.state \in {"ACTIVE", "LAGGED", "CLOSED"}
BY DEF Subscribers

\* What publish makes of a subscriber.
LEMMA OfferFields ==
    ASSUME NEW u \in Subscribers, NEW e \in Events, Len(u.queue) <= QueueSize
    PROVE  /\ Offer(u, e) \in Subscribers
           /\ Offer(u, e).on = u.on /\ Offer(u, e).stream = u.stream
           /\ Len(Offer(u, e).queue) <= QueueSize
           /\ u.on /\ u.stream = e.stream =>
                 \/ /\ Len(u.queue) = QueueSize
                    /\ Offer(u, e).queue = u.queue /\ Offer(u, e).state = "LAGGED"
                 \/ /\ Len(u.queue) < QueueSize
                    /\ Offer(u, e).queue = Append(u.queue, e) /\ Offer(u, e).state = u.state
           /\ u.on /\ u.stream # e.stream => Offer(u, e) = u
<1>1. u.queue \in Seq(Events) /\ Len(u.queue) \in Nat /\ QueueSize \in Nat
  BY SubscriberFields, StreamAssumption
<1>2. CASE ~ u.on \/ u.stream # e.stream
  BY <1>1, <1>2 DEF Offer
<1>3. CASE u.on /\ u.stream = e.stream /\ Len(u.queue) >= QueueSize
  <2>1. Offer(u, e) = [u EXCEPT !.state = "LAGGED"]
    BY <1>3 DEF Offer
  <2>2. /\ [u EXCEPT !.state = "LAGGED"] \in Subscribers
        /\ [u EXCEPT !.state = "LAGGED"].on = u.on
        /\ [u EXCEPT !.state = "LAGGED"].stream = u.stream
        /\ [u EXCEPT !.state = "LAGGED"].queue = u.queue
        /\ [u EXCEPT !.state = "LAGGED"].state = "LAGGED"
    BY DEF Subscribers
  <2>3. Len(u.queue) = QueueSize
    BY <1>1, <1>3
  <2> QED
    BY <1>3, <2>1, <2>2, <2>3
<1>4. CASE u.on /\ u.stream = e.stream /\ Len(u.queue) < QueueSize
  <2>1. Offer(u, e) = [u EXCEPT !.queue = Append(@, e)]
    BY <1>1, <1>4 DEF Offer
  <2>2. PICK q \in Seq(Events) : q = Append(u.queue, e)
    <3>1. Append(u.queue, e) \in Seq(Events)
      BY <1>1
    <3> QED
      BY <3>1
  <2>3. Len(q) = Len(u.queue) + 1
    BY <1>1, <2>2
  <2>4. /\ [u EXCEPT !.queue = q] \in Subscribers
        /\ [u EXCEPT !.queue = q].on = u.on
        /\ [u EXCEPT !.queue = q].stream = u.stream
        /\ [u EXCEPT !.queue = q].queue = q
        /\ [u EXCEPT !.queue = q].state = u.state
    BY DEF Subscribers
  <2>5. Offer(u, e) = [u EXCEPT !.queue = q]
    BY <2>1, <2>2
  <2>6. Len(q) <= QueueSize
    BY <1>1, <1>4, <2>3
  <2> QED
    BY <1>4, <2>2, <2>4, <2>5, <2>6
<1> QED
  BY <1>1, <1>2, <1>3, <1>4, SubscriberFields

\* The copy a new subscriber gets.
LEMMA RecentIsARun ==
    ASSUME StreamTypeOK, RingChained, NEW s
    PROVE  /\ Recent(s) \in Seq(Events) /\ Len(Recent(s)) <= QueueSize
           /\ Consecutive(Recent(s), s)
           /\ Recent(s) # <<>> => Recent(s)[1].nr + Len(Recent(s)) = Published(s)
<1>1. PICK q : q = Own(s)
  OBVIOUS
<1>2. q \in Seq(Events) /\ Consecutive(q, s) /\ (q # <<>> => q[1].nr + Len(q) = Published(s))
  BY <1>1, OwnIsARun
<1>3. Recent(s) = Bounded(q, QueueSize)
  BY <1>1 DEF Recent
<1> QED
  BY <1>2, <1>3, BoundedRun, StreamAssumption

LEMMA BoundedType ==
    ASSUME NEW q \in Seq(Events), NEW n \in Nat \ {0}
    PROVE  Bounded(q, n) \in Seq(Events) /\ Len(Bounded(q, n)) <= n
<1>1. CASE Len(q) <= n
  BY <1>1 DEF Bounded
<1>2. CASE Len(q) > n
  <2>1. Len(q) - n + 1 \in 1 .. Len(q)
    BY <1>2
  <2>2. /\ SubSeq(q, Len(q) - n + 1, Len(q)) \in Seq(Events)
        /\ Len(SubSeq(q, Len(q) - n + 1, Len(q))) = n
    BY <1>2, <2>1
  <2> QED
    BY <1>2, <2>2 DEF Bounded
<1> QED
  BY <1>1, <1>2

\* The types that only publishing changes.
PublishTypes ==
    /\ lock \in Publishers \cup {Nil}
    /\ sequence \in [Streams -> 0 .. MaxEvents]
    /\ pending \in [Publishers -> Events \cup {Nil}]
    /\ ended \subseteq Replays
    /\ ring \in Seq(Events) /\ Len(ring) <= RingSize

\* The types of the sockets and their subscribers.
SocketTypes ==
    /\ sub \in [Sockets -> Subscribers]
    /\ socket \in [Sockets -> {"closed", "drain", "send"}]
    /\ batch \in [Sockets -> Seq(Events)]
    /\ got \in [Sockets -> Nat \cup {Nil}]
    /\ lagged \in [Sockets -> BOOLEAN]
    /\ noticed \in [Sockets -> BOOLEAN]
    /\ owed \in [Sockets -> BOOLEAN]
    /\ connects \in 0 .. MaxConnects
    /\ \A c \in Sockets :
          /\ Len(sub[c].queue) <= QueueSize
          /\ sub[c].on <=> socket[c] # "closed"

LEMMA TypesSplit ==
    /\ StreamTypeOK <=> PublishTypes /\ SocketTypes
    /\ StreamTypeOK' <=> PublishTypes' /\ SocketTypes'
BY DEF StreamTypeOK, PublishTypes, SocketTypes, Subscribers

LEMMA StreamInitInv == StreamInit => StreamInv
<1> SUFFICES ASSUME StreamInit PROVE StreamInv
  OBVIOUS
<1>1. PublishTypes
  BY StreamAssumption DEF StreamInit, PublishTypes
<1>2. SocketTypes
  <2>1. NoSub \in Subscribers /\ NoSub.queue = <<>> /\ ~ NoSub.on
    BY DEF NoSub, Subscribers
  <2> QED
    BY <2>1, StreamAssumption DEF StreamInit, SocketTypes
<1>3. NumberedUnderLock /\ RingChained
  BY DEF StreamInit, NumberedUnderLock, RingChained, RingInOrder
<1>4. ASSUME NEW c \in Sockets
      PROVE  QueueFollows(c) /\ BatchFollows(c) /\ HandoverFollows(c)
  BY DEF StreamInit, NoSub, QueueFollows, BatchFollows, HandoverFollows, Consecutive
<1> QED
  BY <1>1, <1>2, <1>3, <1>4, TypesSplit DEF StreamInv

-----------------------------------------------------------------------------
(* Publishing. *)

LEMMA PublishedIsNat ==
    ASSUME StreamTypeOK, NumberedUnderLock, NEW s \in Streams
    PROVE  Published(s) \in Nat
<1>1. sequence[s] \in Nat
  BY StreamAssumption DEF StreamTypeOK
<1>2. ASSUME NEW p \in Publishers, pending[p] # Nil, pending[p].stream = s
      PROVE  sequence[s] - 1 \in Nat
  <2>1. pending[p] \in Events
    BY <1>2 DEF StreamTypeOK
  <2>2. pending[p].nr \in Nat /\ sequence[s] = pending[p].nr + 1
    BY <1>2, <2>1, EventFields DEF NumberedUnderLock
  <2> QED
    BY <2>2
<1> QED
  BY <1>1, <1>2 DEF Published

\* When nothing is published, the streams are as long as before.
LEMMA PublishedKeeps ==
    ASSUME UNCHANGED <<sequence, pending>>
    PROVE  \A s : Published(s)' = Published(s)
BY DEF Published

\* What StreamInv says of one socket.
Follows(c) == QueueFollows(c) /\ BatchFollows(c) /\ HandoverFollows(c)

\* A socket that is left alone by a step that publishes nothing.
LEMMA FollowsKeeps ==
    ASSUME NEW c \in Sockets, Follows(c), \A s \in Streams : Published(s)' = Published(s),
           sub'[c] = sub[c], socket'[c] = socket[c], batch'[c] = batch[c],
           lagged'[c] = lagged[c], got'[c] = got[c], noticed'[c] = noticed[c]
    PROVE  Follows(c)'
<1>1. sub[c].on => sub[c].stream \in Streams
  BY DEF Follows, QueueFollows
<1>2. ASSUME sub[c].on
      PROVE  Published(sub[c].stream)' = Published(sub[c].stream)
  <2>1. PICK s \in Streams : s = sub[c].stream
    BY <1>1, <1>2
  <2>2. Published(s)' = Published(s)
    OBVIOUS
  <2>3. sub'[c].stream = s
    BY <2>1
  <2> QED
    BY <2>1, <2>2, <2>3 DEF Published
<1>3. QueueFollows(c)'
  BY <1>2 DEF Follows, QueueFollows, Consecutive
<1>4. BatchFollows(c)'
  BY DEF Follows, BatchFollows, Consecutive
<1>5. HandoverFollows(c)'
  <2>1. Expected(c)' = Expected(c) /\ Flagged(c)' = Flagged(c)
    BY DEF Expected, Flagged
  <2>2. sub[c].on => Front(c)' = Front(c)
    BY <1>2 DEF Front
  <2> QED
    BY <2>1, <2>2 DEF Follows, HandoverFollows
<1> QED
  BY <1>3, <1>4, <1>5 DEF Follows

LEMMA NumberKeeps ==
    ASSUME StreamInv, NEW p \in Publishers, NEW s \in Streams, NEW t \in BOOLEAN, Number(p, s, t)
    PROVE  StreamInv'
<1> USE DEF StreamInv
<1>1. PublishTypes /\ SocketTypes
  BY TypesSplit
<1>2. PICK new : new = [stream |-> s, nr |-> sequence[s], terminal |-> t]
  OBVIOUS
<1>3. new \in Events /\ new # Nil /\ new.stream = s /\ new.nr = sequence[s]
  <2>1. sequence[s] \in Nat
    BY <1>1, StreamAssumption DEF PublishTypes
  <2>2. new \in Events
    BY <1>2, <2>1 DEF Events
  <2> QED
    BY <1>2, <2>2, StreamAssumption
<1>4. /\ lock = Nil /\ sequence[s] < MaxEvents
      /\ pending' = [pending EXCEPT ![p] = new]
      /\ sequence' = [sequence EXCEPT ![s] = @ + 1]
      /\ lock' = p
      /\ UNCHANGED <<ring, sub, socketVars, owed, connects>>
  BY <1>2 DEF Number, LockFree
<1>5. \A q \in Publishers : pending[q] = Nil
  BY <1>4, StreamAssumption DEF NumberedUnderLock
<1>6. /\ pending'[p] = new /\ \A q \in Publishers \ {p} : pending'[q] = Nil
      /\ sequence'[s] = sequence[s] + 1 /\ \A x \in Streams \ {s} : sequence'[x] = sequence[x]
      /\ sequence[s] \in Nat
  BY <1>1, <1>4, <1>5, StreamAssumption DEF PublishTypes
<1>7. PublishTypes'
  <2>1. ended' \subseteq Replays
    BY <1>1 DEF PublishTypes, Number
  <2>2. sequence' \in [Streams -> 0 .. MaxEvents]
    BY <1>1, <1>4, <1>6, StreamAssumption DEF PublishTypes
  <2>3. pending' \in [Publishers -> Events \cup {Nil}]
    BY <1>1, <1>3, <1>4 DEF PublishTypes
  <2> QED
    BY <1>1, <1>4, <2>1, <2>2, <2>3 DEF PublishTypes
<1>8. SocketTypes'
  BY <1>1, <1>4 DEF SocketTypes, socketVars
<1>9. \A x \in Streams : Published(x)' = Published(x)
  <2> TAKE x \in Streams
  <2>1. Published(x) = sequence[x]
    BY <1>5 DEF Published
  <2>2. CASE x = s
    <3>1. \E q \in Publishers : pending'[q] # Nil /\ pending'[q].stream = s
      BY <1>3, <1>6
    <3>2. Published(x)' = sequence'[s] - 1
      BY <2>2, <3>1 DEF Published
    <3> QED
      BY <1>6, <2>1, <2>2, <3>2
  <2>3. CASE x # s
    <3>1. ~ \E q \in Publishers : pending'[q] # Nil /\ pending'[q].stream = x
      BY <1>3, <1>6, <2>3
    <3> QED
      BY <1>6, <2>1, <2>3, <3>1 DEF Published
  <2> QED
    BY <2>2, <2>3
<1>10. NumberedUnderLock'
  BY <1>3, <1>4, <1>6 DEF NumberedUnderLock
<1>11. RingChained'
  <2>1. ring' = ring /\ \A i \in 1 .. Len(ring) : ring[i].stream \in Streams
    BY <1>1, <1>4, SequenceFields DEF PublishTypes
  <2>2. RingInOrder'
    BY <2>1 DEF RingChained, RingInOrder
  <2>3. ASSUME NEW i \in 1 .. Len(ring)
        PROVE  Published(ring[i].stream)' = Published(ring[i].stream)
    <3>1. PICK x \in Streams : x = ring[i].stream
      BY <2>1
    <3>2. Published(x)' = Published(x) /\ ring'[i].stream = x
      BY <1>9, <2>1, <3>1
    <3> QED
      BY <3>1, <3>2 DEF Published
  <2> QED
    BY <2>1, <2>2, <2>3 DEF RingChained
<1>12. \A c \in Sockets : Follows(c)'
  BY <1>4, <1>9, FollowsKeeps DEF Follows, socketVars
<1> QED
  BY <1>7, <1>8, <1>10, <1>11, <1>12, TypesSplit DEF Follows

\* What a publication does to the lengths of the streams.
LEMMA PublishCounts ==
    ASSUME StreamInv, NEW p \in Publishers, Publish(p), NEW e, e = pending[p]
    PROVE  /\ e \in Events /\ e.nr \in Nat /\ e.stream \in Streams
           /\ \A q \in Publishers : pending'[q] = Nil
           /\ Published(e.stream) = e.nr
           /\ \A s \in Streams : Published(s)' = IF s = e.stream THEN e.nr + 1 ELSE Published(s)
<1> USE DEF StreamInv
<1>1. e \in Events /\ e.nr \in Nat /\ e.stream \in Streams
  BY EventFields DEF Publish, StreamTypeOK
<1>2. lock = p /\ sequence[e.stream] = e.nr + 1
  BY DEF Publish, NumberedUnderLock
<1>3. \A q \in Publishers \ {p} : pending[q] = Nil
  BY <1>2 DEF NumberedUnderLock
<1>4. \A q \in Publishers : pending'[q] = Nil
  BY <1>3 DEF Publish, StreamTypeOK
<1>5. \A s : Published(s)' = sequence[s]
  BY <1>4 DEF Published, Publish
<1>6. \E q \in Publishers : pending[q] # Nil /\ pending[q].stream = e.stream
  BY DEF Publish
<1>7. Published(e.stream) = e.nr
  BY <1>1, <1>2, <1>6 DEF Published
<1>8. \A s \in Streams \ {e.stream} : Published(s) = sequence[s]
  BY <1>3 DEF Published
<1> QED
  BY <1>1, <1>2, <1>4, <1>5, <1>7, <1>8

\* The ring stays chained.
LEMMA PublishRing ==
    ASSUME StreamInv, NEW p \in Publishers, Publish(p)
    PROVE  RingChained'
<1> USE DEF StreamInv
<1>1. PICK e : e = pending[p]
  OBVIOUS
<1>2. /\ e \in Events /\ e.nr \in Nat /\ e.stream \in Streams
      /\ Published(e.stream) = e.nr
      /\ \A s \in Streams : Published(s)' = IF s = e.stream THEN e.nr + 1 ELSE Published(s)
  BY <1>1, PublishCounts
<1>3. PICK r : r = Append(ring, e)
  OBVIOUS
<1>4. PICK l \in Nat : l = Len(ring)
  BY DEF StreamTypeOK
<1>5. /\ r \in Seq(Events) /\ Len(r) = l + 1 /\ r[l + 1] = e
      /\ \A i \in 1 .. l : r[i] = ring[i]
  BY <1>2, <1>3, <1>4 DEF StreamTypeOK
<1>6. \A i \in 1 .. l + 1 : r[i].nr \in Nat /\ r[i].stream \in Streams
  BY <1>5, SequenceFields
<1>7. \A i, j \in 1 .. l + 1 : (i < j /\ r[i].stream = r[j].stream) => r[i].nr < r[j].nr
  <2> SUFFICES ASSUME NEW i \in 1 .. l + 1, NEW j \in 1 .. l + 1, i < j, r[i].stream = r[j].stream
               PROVE  r[i].nr < r[j].nr
    OBVIOUS
  <2>1. i \in 1 .. l /\ r[i] = ring[i]
    BY <1>5
  <2>2. CASE j = l + 1
    BY <1>2, <1>4, <1>5, <2>1, <2>2 DEF RingChained
  <2>3. CASE j # l + 1
    <3>1. j \in 1 .. l /\ r[j] = ring[j]
      BY <1>5, <2>3
    <3> QED
      BY <1>4, <2>1, <3>1 DEF RingChained, RingInOrder
  <2> QED
    BY <2>2, <2>3
<1>8. ASSUME NEW i \in 1 .. l + 1
      PROVE  \A s \in Streams : s = r[i].stream =>
                /\ r[i].nr < Published(s)'
                /\ \/ r[i].nr + 1 = Published(s)'
                   \/ \E j \in i + 1 .. l + 1 : r[j].stream = s /\ r[j].nr = r[i].nr + 1
  <2> SUFFICES ASSUME NEW s \in Streams, s = r[i].stream
               PROVE  /\ r[i].nr < Published(s)'
                      /\ \/ r[i].nr + 1 = Published(s)'
                         \/ \E j \in i + 1 .. l + 1 : r[j].stream = s /\ r[j].nr = r[i].nr + 1
    OBVIOUS
  <2>1. CASE i = l + 1
    BY <1>2, <1>5, <2>1
  <2>2. CASE i # l + 1
    <3>1. i \in 1 .. l /\ r[i] = ring[i] /\ r[i].nr \in Nat
      BY <1>5, <1>6, <2>2
    <3>2. /\ r[i].nr < Published(s)
          /\ \/ r[i].nr + 1 = Published(s)
             \/ \E j \in i + 1 .. l : ring[j].stream = s /\ ring[j].nr = r[i].nr + 1
      BY <1>4, <3>1 DEF RingChained
    <3>3. r[i].nr < Published(s)'
      BY <1>2, <3>1, <3>2
    <3>4. CASE r[i].nr + 1 = Published(s)
      <4>1. CASE s = e.stream
        <5>1. l + 1 \in i + 1 .. l + 1 /\ r[l + 1].stream = s /\ r[l + 1].nr = r[i].nr + 1
          BY <1>2, <1>5, <3>1, <3>4, <4>1
        <5> QED
          BY <3>3, <5>1
      <4>2. CASE s # e.stream
        BY <1>2, <3>3, <3>4, <4>2
      <4> QED
        BY <4>1, <4>2
    <3>5. CASE \E j \in i + 1 .. l : ring[j].stream = s /\ ring[j].nr = r[i].nr + 1
      <4>1. PICK j \in i + 1 .. l : ring[j].stream = s /\ ring[j].nr = r[i].nr + 1
        BY <3>5
      <4>2. j \in i + 1 .. l + 1 /\ r[j] = ring[j]
        BY <1>5, <3>1, <4>1
      <4> QED
        BY <3>3, <4>1, <4>2
    <3> QED
      BY <3>2, <3>4, <3>5
  <2> QED
    BY <2>1, <2>2
<1>9. PICK d \in Nat : /\ Len(ring') = l + 1 - d /\ d <= l
                       /\ \A i \in 1 .. Len(ring') : i + d \in 1 .. l + 1 /\ ring'[i] = r[i + d]
  <2>1. ring' = Bounded(r, RingSize)
    BY <1>1, <1>3 DEF Publish
  <2>2. CASE l + 1 <= RingSize
    <3>1. ring' = r
      BY <1>5, <2>1, <2>2, StreamAssumption DEF Bounded
    <3>2. /\ 0 \in Nat /\ Len(ring') = l + 1 - 0 /\ 0 <= l
          /\ \A i \in 1 .. Len(ring') : i + 0 \in 1 .. l + 1 /\ ring'[i] = r[i + 0]
      BY <1>5, <3>1
    <3> QED
      BY <3>2
  <2>3. CASE l + 1 > RingSize
    <3>1. PICK n \in Nat \ {0} : n = RingSize
      BY StreamAssumption
    <3>2. ring' = SubSeq(r, l + 1 - n + 1, l + 1)
      BY <1>5, <2>1, <2>3, <3>1 DEF Bounded
    <3>3. PICK d \in Nat : d = l + 1 - n
      BY <2>3, <3>1
    <3>4. l + 1 - n + 1 \in 1 .. l + 1
      BY <2>3, <3>1
    <3>5. Len(ring') = n /\ \A i \in 1 .. n : ring'[i] = r[i + (l + 1 - n)]
      BY <1>5, <3>2, <3>4
    <3>6. d <= l /\ n = l + 1 - d /\ \A i \in 1 .. n : i + d \in 1 .. l + 1
      BY <2>3, <3>1, <3>3
    <3> QED
      BY <3>3, <3>5, <3>6
  <2> QED
    BY <2>2, <2>3, StreamAssumption
<1>10. RingInOrder'
  <2> SUFFICES ASSUME NEW i \in 1 .. Len(ring'), NEW j \in 1 .. Len(ring'),
                      i < j, ring'[i].stream = ring'[j].stream
               PROVE  ring'[i].nr < ring'[j].nr
    BY DEF RingInOrder
  <2>1. /\ i + d \in 1 .. l + 1 /\ ring'[i] = r[i + d]
        /\ j + d \in 1 .. l + 1 /\ ring'[j] = r[j + d] /\ i + d < j + d
    BY <1>9
  <2> QED
    BY <1>7, <2>1
<1>11. ASSUME NEW i \in 1 .. Len(ring')
       PROVE  /\ ring'[i].nr < Published(ring[i].stream)'
              /\ \/ ring'[i].nr + 1 = Published(ring[i].stream)'
                 \/ \E j \in i + 1 .. Len(ring') :
                       ring'[j].stream = ring'[i].stream /\ ring'[j].nr = ring'[i].nr + 1
  <2>1. i + d \in 1 .. l + 1 /\ ring'[i] = r[i + d]
    BY <1>9
  <2>2. PICK s \in Streams : s = ring'[i].stream
    BY <1>6, <2>1
  <2>3. Published(ring[i].stream)' = Published(s)'
    BY <2>2 DEF Published
  <2>4. /\ ring'[i].nr < Published(s)'
        /\ \/ ring'[i].nr + 1 = Published(s)'
           \/ \E j \in (i + d) + 1 .. l + 1 : r[j].stream = s /\ r[j].nr = ring'[i].nr + 1
    <3>1. PICK k \in 1 .. l + 1 : k = i + d /\ ring'[i] = r[k]
      BY <2>1
    <3>2. s = r[k].stream
      BY <2>2, <3>1
    <3>3. /\ r[k].nr < Published(s)'
          /\ \/ r[k].nr + 1 = Published(s)'
             \/ \E j \in k + 1 .. l + 1 : r[j].stream = s /\ r[j].nr = r[k].nr + 1
      BY <1>8, <3>2
    <3> HIDE DEF StreamInv
    <3> QED
      BY <3>1, <3>3
  <2>5. ASSUME NEW j \in (i + d) + 1 .. l + 1, r[j].stream = s, r[j].nr = ring'[i].nr + 1
        PROVE  \E k \in i + 1 .. Len(ring') :
                  ring'[k].stream = ring'[i].stream /\ ring'[k].nr = ring'[i].nr + 1
    <3>1. PICK k \in Nat : k = j - d
      BY <1>9, <2>5
    <3>2. k \in i + 1 .. Len(ring') /\ k \in 1 .. Len(ring') /\ k + d = j
      BY <1>9, <2>5, <3>1
    <3>3. ring'[k] = r[j]
      BY <1>9, <3>2
    <3> QED
      BY <2>2, <2>5, <3>2, <3>3
  <2> QED
    BY <2>3, <2>4, <2>5
<1> QED
  BY <1>10, <1>11 DEF RingChained

\* The subscribers stay in step: a queue with room gets the event, a full one
\* is marked.
LEMMA PublishFollows ==
    ASSUME StreamInv, NEW p \in Publishers, Publish(p), NEW c \in Sockets
    PROVE  Follows(c)'
<1> USE DEF StreamInv
<1>1. PICK e : e = pending[p]
  OBVIOUS
<1>2. /\ e \in Events /\ e.nr \in Nat /\ e.stream \in Streams
      /\ Published(e.stream) = e.nr
      /\ \A s \in Streams : Published(s)' = IF s = e.stream THEN e.nr + 1 ELSE Published(s)
  BY <1>1, PublishCounts
<1>3. /\ sub'[c] = Offer(sub[c], e) /\ sub[c] \in Subscribers /\ Len(sub[c].queue) <= QueueSize
      /\ socket'[c] = socket[c] /\ batch'[c] = batch[c] /\ lagged'[c] = lagged[c]
      /\ got'[c] = got[c] /\ noticed'[c] = noticed[c]
  BY <1>1, TypesSplit DEF Publish, socketVars, SocketTypes
<1>4. Follows(c)
  BY DEF Follows
<1>5. sub'[c].on = sub[c].on /\ sub'[c].stream = sub[c].stream
  BY <1>2, <1>3, OfferFields
<1>6. BatchFollows(c)'
  BY <1>3, <1>4, <1>5 DEF Follows, BatchFollows, Consecutive
<1>7. CASE ~ sub[c].on
  BY <1>5, <1>6, <1>7 DEF Follows, QueueFollows, HandoverFollows
<1>8. CASE sub[c].on /\ sub[c].stream # e.stream
  <2>1. sub'[c] = sub[c] /\ sub[c].stream \in Streams
    BY <1>2, <1>3, <1>4, <1>8, OfferFields DEF Follows, QueueFollows
  <2>2. PICK s \in Streams : s = sub[c].stream
    BY <2>1
  <2>3. Published(s)' = Published(s)
    BY <1>2, <1>8, <2>2
  <2>4. Published(sub[c].stream)' = Published(sub[c].stream)
    BY <2>1, <2>2, <2>3 DEF Published
  <2>5. QueueFollows(c)'
    BY <1>4, <2>1, <2>4 DEF Follows, QueueFollows, Consecutive
  <2>6. Expected(c)' = Expected(c) /\ Flagged(c)' = Flagged(c) /\ Front(c)' = Front(c)
    BY <1>3, <2>1, <2>4 DEF Expected, Flagged, Front
  <2>7. HandoverFollows(c)'
    BY <1>3, <1>4, <2>1, <2>6 DEF Follows, HandoverFollows
  <2> QED
    BY <1>6, <2>5, <2>7 DEF Follows
<1>9. CASE sub[c].on /\ sub[c].stream = e.stream
  <2>1. PICK q, n, s, state :
            q = sub[c].queue /\ n = Len(q) /\ s = e.stream /\ state = sub[c].state
    OBVIOUS
  <2>2. q \in Seq(Events) /\ n \in Nat /\ n <= QueueSize /\ QueueSize \in Nat \ {0}
    BY <1>3, <2>1, SubscriberFields, StreamAssumption
  <2>3. /\ state \in {"ACTIVE", "LAGGED"} /\ Consecutive(q, s)
        /\ (state = "ACTIVE" /\ q # <<>>) => q[1].nr + n = e.nr
        /\ state = "LAGGED" => n = QueueSize /\ q[1].nr + n <= e.nr
    <3>1. state \in {"ACTIVE", "LAGGED", "CLOSED"}
      BY <1>3, <2>1, SubscriberFields
    <3> QED
      BY <1>2, <1>4, <1>9, <2>1, <3>1 DEF Follows, QueueFollows
  <2>4. Published(s)' = e.nr + 1 /\ Published(s) = e.nr
    BY <1>2, <2>1
  <2>5. Published(sub[c].stream)' = e.nr + 1 /\ Published(sub[c].stream) = e.nr
    BY <1>5, <1>9, <2>1, <2>4 DEF Published
  <2>6. Expected(c)' = Expected(c) /\ Flagged(c)' = Flagged(c)
    BY <1>3 DEF Expected, Flagged
  <2>7. n # 0 => q # <<>> /\ 1 \in 1 .. n /\ q[1].nr \in Nat
    BY <2>1, <2>2, SequenceFields
  <2>8. \/ n = QueueSize /\ sub'[c].queue = q /\ sub'[c].state = "LAGGED"
        \/ n < QueueSize /\ sub'[c].queue = Append(q, e) /\ sub'[c].state = state
    <3>1. PICK u \in Subscribers : u = sub[c]
      BY <1>3
    <3>2. \/ /\ Len(u.queue) = QueueSize
             /\ Offer(u, e).queue = u.queue /\ Offer(u, e).state = "LAGGED"
          \/ /\ Len(u.queue) < QueueSize
             /\ Offer(u, e).queue = Append(u.queue, e) /\ Offer(u, e).state = u.state
      BY <1>2, <1>3, <1>9, <3>1, OfferFields
    <3>3. Offer(u, e) = sub'[c] /\ u.queue = q /\ Len(u.queue) = n /\ u.state = state
      BY <1>3, <2>1, <3>1
    <3> QED
      BY <3>2, <3>3
  <2>9. CASE n = QueueSize
    <3>1. sub'[c].queue = q /\ sub'[c].state = "LAGGED"
      BY <2>2, <2>8, <2>9
    <3>2. q[1].nr + n <= e.nr
      BY <1>2, <2>2, <2>3, <2>7, <2>9
    <3>3. q[1].nr + QueueSize <= e.nr + 1
      BY <1>2, <2>2, <2>7, <2>9, <3>2
    <3>4. QueueFollows(c)'
      <4>1. sub'[c].stream = s /\ s \in Streams
        BY <1>4, <1>5, <1>9, <2>1 DEF Follows, QueueFollows
      <4>2. Consecutive(sub[c].queue, sub[c].stream)'
        BY <2>3, <3>1, <4>1 DEF Consecutive
      <4> QED
        BY <2>1, <2>5, <2>9, <3>1, <3>3, <4>1, <4>2 DEF QueueFollows
    <3>5. Front(c)' = Front(c)
      BY <2>1, <2>2, <2>7, <2>9, <3>1 DEF Front
    <3>6. HandoverFollows(c)'
      BY <1>3, <1>4, <1>5, <2>6, <3>5 DEF Follows, HandoverFollows
    <3> QED
      BY <1>6, <3>4, <3>6 DEF Follows
  <2>10. CASE n < QueueSize
    <3>1. sub'[c].queue = Append(q, e) /\ sub'[c].state = state
      BY <2>2, <2>8, <2>10
    <3>2. state = "ACTIVE"
      BY <2>2, <2>3, <2>10
    <3>3. PICK a : a = Append(q, e)
      OBVIOUS
    <3>4. /\ a \in Seq(Events) /\ Len(a) = n + 1 /\ a[n + 1] = e /\ a # <<>>
          /\ \A i \in 1 .. n : a[i] = q[i]
      BY <1>2, <2>1, <2>2, <3>3
    <3>5. a[1].nr + n = e.nr
      <4>1. CASE n = 0
        BY <1>2, <3>4, <4>1
      <4>2. CASE n # 0
        BY <2>3, <2>7, <3>2, <3>4, <4>2
      <4> QED
        BY <4>1, <4>2
    <3>6. Consecutive(a, s)
      <4> SUFFICES ASSUME NEW i \in 1 .. n + 1
                   PROVE  a[i].stream = s /\ a[i].nr + 1 = a[1].nr + i
        BY <3>4 DEF Consecutive
      <4>0. a[1].nr \in Nat
        BY <2>2, <3>4, SequenceFields
      <4>1. CASE i = n + 1
        <5>1. PICK x \in Nat, y \in Nat : x = a[1].nr /\ y = e.nr /\ x + n = y
          BY <1>2, <3>5, <4>0
        <5>2. y + 1 = x + i
          <6>1. x + n = y /\ n \in Nat
            BY <2>2, <5>1
          <6> QED
            BY <4>1, <6>1
        <5> QED
          BY <2>1, <3>4, <4>1, <5>1, <5>2
      <4>2. CASE i # n + 1
        <5>1. i \in 1 .. n /\ 1 \in 1 .. n /\ a[i] = q[i] /\ a[1] = q[1]
          BY <2>2, <3>4, <4>2
        <5> QED
          BY <2>1, <2>3, <5>1 DEF Consecutive
      <4> QED
        BY <4>1, <4>2
    <3>7. a[1].nr + Len(a) = e.nr + 1
      <4>1. a[1].nr \in Nat
        BY <2>2, <3>4, SequenceFields
      <4>2. PICK x \in Nat, y \in Nat : x = a[1].nr /\ y = e.nr /\ x + n = y
        BY <1>2, <3>5, <4>1
      <4>3. x + (n + 1) = y + 1
        <5>1. x + n = y /\ n \in Nat
          BY <2>2, <4>2
        <5> QED
          BY <5>1
      <4> QED
        BY <3>4, <4>2, <4>3
    <3>8. QueueFollows(c)'
      BY <1>4, <1>5, <1>9, <2>1, <2>5, <3>1, <3>2, <3>3, <3>6, <3>7
      DEF Follows, QueueFollows, Consecutive
    <3>9. Front(c)' = Front(c)
      <4>1. Front(c)' = a[1].nr
        BY <3>1, <3>3, <3>4 DEF Front
      <4>2. CASE n = 0
        <5>1. q = <<>>
          <6>1. q \in Seq(Events) /\ Len(q) = 0
            BY <2>1, <2>2, <4>2
          <6> QED
            BY <6>1
        <5>2. Front(c) = e.nr /\ a[1] = e
          BY <2>1, <2>5, <3>4, <4>2, <5>1 DEF Front
        <5> QED
          BY <4>1, <5>2
      <4>3. CASE n # 0
        BY <2>1, <2>7, <3>4, <4>1, <4>3 DEF Front
      <4> QED
        BY <4>2, <4>3
    <3>10. HandoverFollows(c)'
      BY <1>3, <1>4, <1>5, <2>6, <3>9 DEF Follows, HandoverFollows
    <3> QED
      BY <1>6, <3>8, <3>10 DEF Follows
  <2> QED
    BY <2>2, <2>9, <2>10
<1> QED
  BY <1>7, <1>8, <1>9

LEMMA PublishKeeps ==
    ASSUME StreamInv, NEW p \in Publishers, Publish(p)
    PROVE  StreamInv'
<1>1. PublishTypes /\ SocketTypes
  BY TypesSplit DEF StreamInv
<1>2. PICK e : e = pending[p]
  OBVIOUS
<1>3. e \in Events /\ \A q \in Publishers : pending'[q] = Nil
  BY <1>2, PublishCounts
<1>4. PublishTypes'
  <2>1. Append(ring, e) \in Seq(Events)
    BY <1>1, <1>3 DEF PublishTypes
  <2>2. ring' \in Seq(Events) /\ Len(ring') <= RingSize
    BY <1>2, <2>1, BoundedType, StreamAssumption DEF Publish
  <2>3. pending' \in [Publishers -> Events \cup {Nil}]
    BY <1>1 DEF Publish, PublishTypes
  <2> QED
    BY <1>1, <2>2, <2>3 DEF Publish, PublishTypes
<1>5. SocketTypes'
  <2>1. ASSUME NEW c \in Sockets
        PROVE  /\ sub'[c] \in Subscribers /\ Len(sub'[c].queue) <= QueueSize
               /\ sub'[c].on = sub[c].on
    <3>1. sub[c] \in Subscribers /\ Len(sub[c].queue) <= QueueSize
      BY <1>1 DEF SocketTypes
    <3>2. sub'[c] = Offer(sub[c], e)
      BY <1>2 DEF Publish
    <3> QED
      BY <1>3, <3>1, <3>2, OfferFields
  <2>2. sub' \in [Sockets -> Subscribers]
    BY <2>1 DEF Publish
  <2>3. owed' \in [Sockets -> BOOLEAN]
    BY DEF Publish
  <2> QED
    BY <1>1, <2>1, <2>2, <2>3 DEF Publish, SocketTypes, socketVars
<1>6. NumberedUnderLock'
  BY <1>3 DEF NumberedUnderLock
<1> QED
  BY <1>4, <1>5, <1>6, TypesSplit, PublishRing, PublishFollows DEF StreamInv, Follows

-----------------------------------------------------------------------------
(* The endpoint. *)

\* What a step of one socket leaves alone.
OthersKeep(c) ==
    /\ UNCHANGED <<publishVars, ring>>
    /\ \A d \in Sockets \ {c} :
          /\ sub'[d] = sub[d] /\ socket'[d] = socket[d] /\ batch'[d] = batch[d]
          /\ lagged'[d] = lagged[d] /\ got'[d] = got[d] /\ noticed'[d] = noticed[d]

LEMMA SocketStepKeeps ==
    ASSUME StreamInv, NEW c \in Sockets, OthersKeep(c), SocketTypes', Follows(c)'
    PROVE  StreamInv'
<1>1. UNCHANGED <<lock, sequence, pending, ended, ring>>
  BY DEF OthersKeep, publishVars
<1>2. \A s : Published(s)' = Published(s)
  BY <1>1, PublishedKeeps
<1>3. PublishTypes'
  BY <1>1, TypesSplit DEF StreamInv, PublishTypes
<1>4. NumberedUnderLock'
  BY <1>1 DEF StreamInv, NumberedUnderLock
<1>5. RingChained'
  <2>1. RingInOrder'
    BY <1>1 DEF StreamInv, RingChained, RingInOrder
  <2>2. \A i : Published(ring[i].stream)' = Published(ring[i].stream)
    BY <1>1 DEF Published
  <2> QED
    BY <1>1, <2>1, <2>2 DEF StreamInv, RingChained
<1>6. \A d \in Sockets \ {c} : Follows(d)'
  BY <1>2, FollowsKeeps DEF StreamInv, OthersKeep, Follows
<1> QED
  BY <1>3, <1>4, <1>5, <1>6, TypesSplit DEF StreamInv, Follows

\* The facts about one socket that its own steps start from.
LEMMA SocketFacts ==
    ASSUME StreamInv, NEW c \in Sockets
    PROVE  /\ sub[c] \in Subscribers /\ sub[c].queue \in Seq(Events) /\ batch[c] \in Seq(Events)
           /\ Len(sub[c].queue) <= QueueSize
           /\ sub[c].on <=> socket[c] # "closed"
           /\ Follows(c)
<1>1. SocketTypes
  BY TypesSplit DEF StreamInv
<1>2. sub[c] \in Subscribers /\ batch[c] \in Seq(Events) /\ Len(sub[c].queue) <= QueueSize
      /\ (sub[c].on <=> socket[c] # "closed")
  BY <1>1 DEF SocketTypes
<1> QED
  BY <1>2, SubscriberFields DEF StreamInv, Follows

LEMMA ConnectKeeps ==
    ASSUME StreamInv, NEW c \in Sockets, NEW s \in Streams, Connect(c, s)
    PROVE  StreamInv'
<1>1. SocketTypes /\ StreamTypeOK /\ RingChained
  BY TypesSplit DEF StreamInv
<1>2. PICK q : q = Recent(s)
  OBVIOUS
<1>3. /\ q \in Seq(Events) /\ Len(q) <= QueueSize /\ Consecutive(q, s)
      /\ q # <<>> => q[1].nr + Len(q) = Published(s)
  BY <1>1, <1>2, RecentIsARun
<1>4. PICK u : u = [on |-> TRUE, stream |-> s, queue |-> q, state |-> "ACTIVE"]
  OBVIOUS
<1>5. u \in Subscribers /\ u.on /\ u.stream = s /\ u.queue = q /\ u.state = "ACTIVE"
  BY <1>3, <1>4 DEF Subscribers
<1>6. /\ sub' = [sub EXCEPT ![c] = u]
      /\ socket' = [socket EXCEPT ![c] = "drain"]
      /\ batch' = [batch EXCEPT ![c] = <<>>]
      /\ lagged' = [lagged EXCEPT ![c] = FALSE]
      /\ got' = [got EXCEPT ![c] = Nil]
      /\ noticed' = [noticed EXCEPT ![c] = FALSE]
      /\ owed' = [owed EXCEPT ![c] = FALSE]
      /\ connects' = connects + 1 /\ connects < MaxConnects
      /\ UNCHANGED <<publishVars, ring>>
  BY <1>2, <1>4 DEF Connect
<1>7. SocketTypes'
  <2>1. connects' \in 0 .. MaxConnects
    BY <1>1, <1>6, StreamAssumption DEF SocketTypes
  <2>2. sub' \in [Sockets -> Subscribers] /\ batch' \in [Sockets -> Seq(Events)]
    BY <1>1, <1>5, <1>6 DEF SocketTypes
  <2>3. /\ socket' \in [Sockets -> {"closed", "drain", "send"}]
        /\ got' \in [Sockets -> Nat \cup {Nil}]
    BY <1>1, <1>6 DEF SocketTypes
  <2>4. /\ lagged' \in [Sockets -> BOOLEAN] /\ noticed' \in [Sockets -> BOOLEAN]
        /\ owed' \in [Sockets -> BOOLEAN]
    BY <1>1, <1>6 DEF SocketTypes
  <2>5. ASSUME NEW d \in Sockets
        PROVE  Len(sub'[d].queue) <= QueueSize /\ (sub'[d].on <=> socket'[d] # "closed")
    BY <1>1, <1>3, <1>5, <1>6 DEF SocketTypes
  <2> QED
    BY <2>1, <2>2, <2>3, <2>4, <2>5 DEF SocketTypes
<1>8. sub'[c] = u /\ socket'[c] = "drain" /\ batch'[c] = <<>> /\ got'[c] = Nil
  BY <1>1, <1>6 DEF SocketTypes
<1>9. Published(sub[c].stream)' = Published(s)
  BY <1>5, <1>6, <1>8 DEF Published, publishVars
<1>10. Follows(c)'
  <2>1. QueueFollows(c)'
    BY <1>3, <1>5, <1>8, <1>9 DEF QueueFollows, Consecutive
  <2>2. BatchFollows(c)'
    BY <1>8 DEF BatchFollows, Consecutive
  <2>3. HandoverFollows(c)'
    BY <1>8 DEF HandoverFollows
  <2> QED
    BY <2>1, <2>2, <2>3 DEF Follows
<1>11. OthersKeep(c)
  BY <1>1, <1>6 DEF OthersKeep, SocketTypes
<1> QED
  BY <1>7, <1>10, <1>11, SocketStepKeeps

LEMMA DrainKeeps ==
    ASSUME StreamInv, NEW c \in Sockets, Drain(c)
    PROVE  StreamInv'
<1>1. SocketTypes
  BY TypesSplit DEF StreamInv
<1>2. PICK q, u, v : q = sub[c].queue /\ u = sub[c] /\ v = [u EXCEPT !.queue = <<>>, !.state = "ACTIVE"]
  OBVIOUS
<1>3. /\ q \in Seq(Events) /\ u \in Subscribers /\ Len(q) <= QueueSize /\ Follows(c)
      /\ u.on <=> socket[c] # "closed"
  BY <1>2, SocketFacts
<1>4. v \in Subscribers /\ v.on = u.on /\ v.stream = u.stream /\ v.queue = <<>> /\ v.state = "ACTIVE"
  <2>0. <<>> \in Seq(Events)
    OBVIOUS
  <2>1. PICK e : e \in Seq(Events) /\ e = <<>>
    BY <2>0
  <2>2. v = [u EXCEPT !.queue = e, !.state = "ACTIVE"]
    BY <1>2, <2>1
  <2>3. v \in Subscribers /\ v.on = u.on /\ v.stream = u.stream /\ v.queue = e /\ v.state = "ACTIVE"
    BY <1>3, <2>1, <2>2 DEF Subscribers
  <2> QED
    BY <2>1, <2>3
<1>5. /\ socket[c] = "drain"
      /\ sub' = [sub EXCEPT ![c] = v]
      /\ socket' = [socket EXCEPT ![c] = "send"]
      /\ batch' = [batch EXCEPT ![c] = q]
      /\ lagged' = [lagged EXCEPT ![c] = u.state = "LAGGED"]
      /\ UNCHANGED <<publishVars, ring, got, noticed, owed, connects>>
  BY <1>1, <1>2 DEF Drain, SocketTypes
<1>6. SocketTypes'
  <2>1. sub' \in [Sockets -> Subscribers] /\ batch' \in [Sockets -> Seq(Events)]
    BY <1>1, <1>3, <1>4, <1>5 DEF SocketTypes
  <2>2. socket' \in [Sockets -> {"closed", "drain", "send"}]
    BY <1>1, <1>5 DEF SocketTypes
  <2>3. lagged' \in [Sockets -> BOOLEAN]
    BY <1>1, <1>5 DEF SocketTypes
  <2>4. ASSUME NEW d \in Sockets
        PROVE  Len(sub'[d].queue) <= QueueSize /\ (sub'[d].on <=> socket'[d] # "closed")
    <3>1. CASE d = c
      <4>1. sub'[d] = v /\ socket'[d] = "send" /\ u.on
        BY <1>1, <1>3, <1>5, <3>1 DEF SocketTypes
      <4>2. Len(v.queue) <= QueueSize
        <5>1. Len(v.queue) = 0
          BY <1>4
        <5> QED
          BY <5>1, StreamAssumption
      <4>3. v.on
        BY <1>4, <4>1
      <4>4. sub'[d].on <=> socket'[d] # "closed"
        BY <4>1, <4>3
      <4> QED
        BY <4>1, <4>2, <4>4
    <3>2. CASE d # c
      BY <1>1, <1>5, <3>2 DEF SocketTypes
    <3> QED
      BY <3>1, <3>2
  <2> QED
    BY <1>1, <1>5, <2>1, <2>2, <2>3, <2>4 DEF SocketTypes
<1>7. /\ sub'[c] = v /\ socket'[c] = "send" /\ batch'[c] = q /\ got'[c] = got[c]
      /\ noticed'[c] = noticed[c] /\ lagged'[c] = (u.state = "LAGGED")
  BY <1>1, <1>5 DEF SocketTypes
<1>8. u.on /\ batch[c] = <<>>
  BY <1>3, <1>5 DEF Follows, BatchFollows
<1>9. PICK s \in Streams : s = u.stream
  BY <1>2, <1>3, <1>8 DEF Follows, QueueFollows
<1>10. Published(sub[c].stream)' = Published(s) /\ Published(sub[c].stream) = Published(s)
  <2>1. sub'[c].stream = s /\ sub[c].stream = s /\ UNCHANGED <<sequence, pending>>
    BY <1>2, <1>4, <1>5, <1>7, <1>9 DEF publishVars
  <2> QED
    BY <2>1 DEF Published
<1>11. Published(s) \in Nat
  BY PublishedIsNat DEF StreamInv
<1>12. QueueFollows(c)'
  BY <1>4, <1>7, <1>9 DEF QueueFollows, Consecutive
<1>13. BatchFollows(c)'
  <2>1. Consecutive(q, s)
    BY <1>2, <1>3, <1>8, <1>9 DEF Follows, QueueFollows
  <2>2. ASSUME got[c] # Nil, q # <<>>
        PROVE  q[1].nr = got[c] + 1 \/ (q[1].nr > got[c] /\ noticed[c])
    <3>1. Front(c) = q[1].nr /\ Expected(c) = got[c] + 1
      BY <1>2, <1>8, <2>2 DEF Front, Expected
    <3>2. got[c] \in Nat /\ q[1].nr \in Nat
      <4>1. Len(q) \in Nat /\ Len(q) # 0
        BY <1>3, <2>2
      <4>2. got[c] \in Nat
        BY <1>1, <2>2 DEF SocketTypes
      <4>3. 1 \in 1 .. Len(q)
        BY <4>1
      <4> QED
        BY <1>3, <4>2, <4>3, SequenceFields
    <3>3. Front(c) = Expected(c) \/ (Front(c) > Expected(c) /\ Flagged(c))
      BY <1>2, <1>3, <1>8, <2>2 DEF Follows, HandoverFollows
    <3>4. Flagged(c) => noticed[c]
      BY <1>5 DEF Flagged
    <3> QED
      BY <3>1, <3>2, <3>3, <3>4
  <2> QED
    BY <1>4, <1>7, <1>9, <2>1, <2>2 DEF BatchFollows, Consecutive
<1>14. HandoverFollows(c)'
  <2>1. Front(c)' = Published(s)
    BY <1>4, <1>7, <1>10 DEF Front
  <2>2. CASE q = <<>>
    <3>1. Front(c) = Published(s) /\ Expected(c)' = Expected(c)
      BY <1>2, <1>7, <1>8, <1>10, <2>2 DEF Front, Expected
    <3>2. Flagged(c) => Flagged(c)'
      BY <1>5, <1>7, <1>8, <2>2 DEF Flagged
    <3> QED
      BY <1>2, <1>3, <1>7, <1>8, <2>1, <2>2, <3>1, <3>2 DEF Follows, HandoverFollows
  <2>3. CASE q # <<>>
    <3>1. Expected(c)' = q[1].nr + Len(q)
      BY <1>7, <2>3 DEF Expected
    <3>2. CASE u.state = "ACTIVE"
      BY <1>2, <1>3, <1>8, <1>10, <2>1, <2>3, <3>1, <3>2
      DEF Follows, QueueFollows, HandoverFollows
    <3>3. CASE u.state = "LAGGED"
      <4>1. Len(q) = QueueSize /\ q[1].nr + QueueSize <= Published(s)
        BY <1>2, <1>3, <1>8, <1>10, <3>3 DEF Follows, QueueFollows
      <4>2. Flagged(c)'
        BY <1>7, <3>3 DEF Flagged
      <4>3. q[1].nr \in Nat /\ Len(q) \in Nat
        <5>1. Len(q) \in Nat /\ Len(q) # 0
          BY <1>3, <2>3
        <5> QED
          BY <1>3, <5>1, SequenceFields
      <4>4. q[1].nr + Len(q) = Published(s) \/ Published(s) > q[1].nr + Len(q)
        BY <1>11, <4>1, <4>3
      <4> QED
        BY <2>1, <3>1, <4>2, <4>4 DEF HandoverFollows
    <3> QED
      BY <1>2, <1>3, <1>8, <3>2, <3>3, SubscriberFields DEF Follows, QueueFollows
  <2> QED
    BY <2>2, <2>3
<1>15. OthersKeep(c)
  BY <1>1, <1>5 DEF OthersKeep, SocketTypes
<1> QED
  BY <1>6, <1>12, <1>13, <1>14, <1>15, SocketStepKeeps DEF Follows

\* A socket that has just been closed has nothing to follow.
LEMMA ClosedFollows ==
    ASSUME NEW c \in Sockets, ~ sub'[c].on, batch'[c] = <<>>
    PROVE  Follows(c)'
BY DEF Follows, QueueFollows, BatchFollows, HandoverFollows, Consecutive

LEMMA NoSubFields == NoSub \in Subscribers /\ ~ NoSub.on /\ Len(NoSub.queue) <= QueueSize
<1>1. <<>> \in Seq(Events) /\ Len(<<>>) = 0
  OBVIOUS
<1>2. NoSub \in Subscribers /\ ~ NoSub.on /\ NoSub.queue = <<>>
  BY <1>1 DEF NoSub, Subscribers
<1> QED
  BY <1>1, <1>2, StreamAssumption

\* Closing a socket, from its own loop or because the client has gone.
LEMMA CloseKeeps ==
    ASSUME StreamInv, NEW c \in Sockets, Close(c),
           UNCHANGED <<publishVars, ring, lagged, owed, connects>>,
           NEW n \in Nat \cup {Nil}, NEW b \in BOOLEAN,
           got' = [got EXCEPT ![c] = n], noticed' = [noticed EXCEPT ![c] = b]
    PROVE  StreamInv'
<1>1. SocketTypes
  BY TypesSplit DEF StreamInv
<1>2. /\ socket' = [socket EXCEPT ![c] = "closed"]
      /\ sub' = [sub EXCEPT ![c] = NoSub]
      /\ batch' = [batch EXCEPT ![c] = <<>>]
  BY DEF Close
<1>3. SocketTypes'
  <2>1. sub' \in [Sockets -> Subscribers] /\ batch' \in [Sockets -> Seq(Events)]
    BY <1>1, <1>2, NoSubFields DEF SocketTypes
  <2>2. /\ socket' \in [Sockets -> {"closed", "drain", "send"}]
        /\ got' \in [Sockets -> Nat \cup {Nil}]
    BY <1>1, <1>2 DEF SocketTypes
  <2>3. noticed' \in [Sockets -> BOOLEAN]
    BY <1>1 DEF SocketTypes
  <2>4. ASSUME NEW d \in Sockets
        PROVE  Len(sub'[d].queue) <= QueueSize /\ (sub'[d].on <=> socket'[d] # "closed")
    <3>1. CASE d = c
      <4>1. sub'[d] = NoSub /\ socket'[d] = "closed"
        BY <1>1, <1>2, <3>1 DEF SocketTypes
      <4> QED
        BY <4>1, NoSubFields
    <3>2. CASE d # c
      BY <1>1, <1>2, <3>2 DEF SocketTypes
    <3> QED
      BY <3>1, <3>2
  <2> QED
    BY <1>1, <2>1, <2>2, <2>3, <2>4 DEF SocketTypes
<1>4. Follows(c)'
  <2>1. sub'[c] = NoSub /\ batch'[c] = <<>>
    BY <1>1, <1>2 DEF SocketTypes
  <2> QED
    BY <2>1, NoSubFields, ClosedFollows
<1>5. OthersKeep(c)
  BY <1>1, <1>2 DEF OthersKeep, SocketTypes
<1> QED
  BY <1>3, <1>4, <1>5, SocketStepKeeps

LEMMA DisconnectKeeps ==
    ASSUME StreamInv, NEW c \in Sockets, Disconnect(c)
    PROVE  StreamInv'
<1>1. SocketTypes
  BY TypesSplit DEF StreamInv
<1>2. PICK n, b : n = got[c] /\ b = noticed[c]
  OBVIOUS
<1>3. n \in Nat \cup {Nil} /\ b \in BOOLEAN
  BY <1>1, <1>2 DEF SocketTypes
<1>4. got' = [got EXCEPT ![c] = n] /\ noticed' = [noticed EXCEPT ![c] = b]
  BY <1>1, <1>2 DEF Disconnect, SocketTypes
<1> QED
  BY <1>3, <1>4, CloseKeeps DEF Disconnect

\* The rest of a run that has lost its first event.
LEMMA TailOfARun ==
    ASSUME NEW q \in Seq(Events), NEW s, Consecutive(q, s), q # <<>>
    PROVE  /\ q[1] \in Events /\ q[1].nr \in Nat /\ Len(q) \in Nat \ {0}
           /\ Tail(q) \in Seq(Events) /\ Len(Tail(q)) = Len(q) - 1
           /\ Consecutive(Tail(q), s)
           /\ Tail(q) # <<>> => Tail(q)[1].nr = q[1].nr + 1
<1>1. Len(q) \in Nat \ {0} /\ Tail(q) \in Seq(Events) /\ Len(Tail(q)) = Len(q) - 1
  OBVIOUS
<1>2. \A i \in 1 .. Len(Tail(q)) : Tail(q)[i] = q[i + 1] /\ i + 1 \in 1 .. Len(q)
  BY <1>1
<1>3. \A i \in 1 .. Len(q) : q[i] \in Events /\ q[i].nr \in Nat
  BY SequenceFields
<1>4. q[1] \in Events /\ q[1].nr \in Nat
  BY <1>1, <1>3
<1>5. ASSUME NEW i \in 1 .. Len(Tail(q))
      PROVE  Tail(q)[i].stream = s /\ Tail(q)[i].nr = q[1].nr + i
  <2>1. PICK n \in Nat, m \in Nat : n = q[1].nr /\ m = q[i + 1].nr
    BY <1>2, <1>3, <1>4
  <2>2. q[i + 1].stream = s /\ q[i + 1].nr + 1 = q[1].nr + (i + 1)
    BY <1>2 DEF Consecutive
  <2>3. m + 1 = n + (i + 1) /\ i \in Int
    BY <2>1, <2>2, <1>1
  <2>4. m = n + i
    BY <2>1, <2>3
  <2> QED
    BY <1>2, <2>1, <2>2, <2>4
<1>6. ASSUME NEW i \in 1 .. Len(Tail(q))
      PROVE  Tail(q)[i].nr + 1 = Tail(q)[1].nr + i
  <2>1. PICK n \in Nat : n = q[1].nr
    BY <1>4
  <2>2. 1 \in 1 .. Len(Tail(q)) /\ i \in Nat
    BY <1>1
  <2>3. Tail(q)[i].nr = n + i /\ Tail(q)[1].nr = n + 1
    BY <1>5, <2>1, <2>2
  <2> QED
    BY <2>2, <2>3
<1>7. Consecutive(Tail(q), s)
  BY <1>5, <1>6 DEF Consecutive
<1>8. ASSUME Tail(q) # <<>>
      PROVE  Tail(q)[1].nr = q[1].nr + 1
  <2>1. 1 \in 1 .. Len(Tail(q))
    BY <1>1, <1>8
  <2> QED
    BY <1>5, <2>1
<1> QED
  BY <1>1, <1>4, <1>7, <1>8

LEMMA SendKeeps ==
    ASSUME StreamInv, NEW c \in Sockets, Send(c)
    PROVE  StreamInv'
<1>1. SocketTypes
  BY TypesSplit DEF StreamInv
<1>2. PICK q, s, e : q = batch[c] /\ s = sub[c].stream /\ e = Head(q)
  OBVIOUS
<1>3. /\ q \in Seq(Events) /\ q # <<>> /\ Follows(c) /\ Consecutive(q, s)
      /\ sub[c].on <=> socket[c] # "closed"
  BY <1>2, SocketFacts DEF Send, Follows, BatchFollows
<1>4. /\ q[1] \in Events /\ q[1].nr \in Nat /\ Len(q) \in Nat \ {0}
      /\ Tail(q) \in Seq(Events) /\ Len(Tail(q)) = Len(q) - 1
      /\ Consecutive(Tail(q), s)
      /\ Tail(q) # <<>> => Tail(q)[1].nr = q[1].nr + 1
  BY <1>3, TailOfARun
<1>5. PICK n \in Nat : n = q[1].nr /\ n = e.nr
  <2>1. e = q[1]
    BY <1>2, <1>3
  <2> QED
    BY <1>4, <2>1
<1>6. /\ socket[c] = "send"
      /\ got' = [got EXCEPT ![c] = n]
      /\ noticed' = [noticed EXCEPT ![c] = FALSE]
      /\ UNCHANGED <<publishVars, ring, lagged, owed, connects>>
  BY <1>2, <1>5 DEF Send
<1>7. CASE Closes(e)
  <2>1. Close(c)
    BY <1>2, <1>7 DEF Send
  <2> QED
    BY <1>6, <2>1, CloseKeeps
<1>8. CASE ~ Closes(e)
  <2>1. PICK t : t = Tail(q)
    OBVIOUS
  <2>2. batch' = [batch EXCEPT ![c] = t] /\ UNCHANGED <<socket, sub>>
    BY <1>2, <1>8, <2>1 DEF Send
  <2>3. SocketTypes'
    <3>1. batch' \in [Sockets -> Seq(Events)]
      BY <1>1, <1>4, <2>1, <2>2 DEF SocketTypes
    <3>2. got' \in [Sockets -> Nat \cup {Nil}]
      BY <1>1, <1>6 DEF SocketTypes
    <3>3. noticed' \in [Sockets -> BOOLEAN]
      BY <1>1, <1>6 DEF SocketTypes
    <3> QED
      BY <1>1, <1>6, <2>2, <3>1, <3>2, <3>3 DEF SocketTypes
  <2>4. /\ sub'[c] = sub[c] /\ socket'[c] = "send" /\ batch'[c] = t /\ got'[c] = n
        /\ lagged'[c] = lagged[c]
    BY <1>1, <1>6, <2>2 DEF SocketTypes
  <2>5. Published(sub[c].stream)' = Published(sub[c].stream)
    BY <1>6, <2>2 DEF Published, publishVars
  <2>6. QueueFollows(c)'
    BY <1>3, <2>4, <2>5 DEF Follows, QueueFollows, Consecutive
  <2>7. BatchFollows(c)'
    BY <1>2, <1>4, <1>5, <2>1, <2>4 DEF BatchFollows, Consecutive
  <2>8. HandoverFollows(c)'
    <3>1. Front(c)' = Front(c)
      BY <2>4, <2>5 DEF Front
    <3>2. Expected(c) = n + Len(q)
      BY <1>2, <1>3, <1>5 DEF Expected
    <3>3. Expected(c)' = n + Len(q)
      <4>1. CASE t = <<>>
        <5>1. Len(q) = 1
          <6>1. Len(t) = 0 /\ Len(t) = Len(q) - 1
            <7>1. Len(<<>>) = 0
              OBVIOUS
            <7>2. Len(t) = 0
              BY <4>1, <7>1
            <7> QED
              BY <1>4, <2>1, <7>2
          <6>2. Len(q) \in Nat
            BY <1>4
          <6> QED
            BY <6>1, <6>2
        <5>2. Expected(c)' = n + 1
          BY <2>4, <4>1 DEF Expected
        <5> QED
          BY <5>1, <5>2
      <4>2. CASE t # <<>>
        <5>1. Expected(c)' = t[1].nr + Len(t)
          BY <2>4, <4>2 DEF Expected
        <5>2. t[1].nr = n + 1 /\ Len(t) = Len(q) - 1
          BY <1>4, <1>5, <2>1, <4>2
        <5>3. (n + 1) + (Len(q) - 1) = n + Len(q)
          BY <1>4
        <5> QED
          BY <5>1, <5>2, <5>3
      <4> QED
        BY <4>1, <4>2
    <3>4. Flagged(c) => Flagged(c)'
      BY <1>2, <1>3, <1>6, <2>4 DEF Flagged
    <3>5. sub[c].on
      BY <1>3, <1>6
    <3>6. Front(c) = Expected(c) \/ (Front(c) > Expected(c) /\ Flagged(c))
      BY <1>2, <1>3, <3>5 DEF Follows, HandoverFollows
    <3> QED
      BY <3>1, <3>2, <3>3, <3>4, <3>6 DEF HandoverFollows
  <2>9. OthersKeep(c)
    BY <1>1, <1>6, <2>2 DEF OthersKeep, SocketTypes
  <2> QED
    BY <2>3, <2>6, <2>7, <2>8, <2>9, SocketStepKeeps DEF Follows
<1> QED
  BY <1>7, <1>8

LEMMA NoticeKeeps ==
    ASSUME StreamInv, NEW c \in Sockets, Notice(c)
    PROVE  StreamInv'
<1>1. SocketTypes
  BY TypesSplit DEF StreamInv
<1>2. Follows(c) /\ (sub[c].on <=> socket[c] # "closed")
  BY SocketFacts
<1>3. PICK b, o \in BOOLEAN : b = (noticed[c] \/ lagged[c]) /\ o = (owed[c] /\ ~ lagged[c])
  BY <1>1 DEF SocketTypes
<1>4. /\ socket[c] = "send" /\ batch[c] = <<>>
      /\ noticed' = [noticed EXCEPT ![c] = b]
      /\ owed' = [owed EXCEPT ![c] = o]
      /\ socket' = [socket EXCEPT ![c] = "drain"]
      /\ UNCHANGED <<publishVars, ring, sub, batch, lagged, got, connects>>
  BY <1>3 DEF Notice
<1>5. SocketTypes'
  <2>1. noticed' \in [Sockets -> BOOLEAN] /\ owed' \in [Sockets -> BOOLEAN]
    BY <1>1, <1>4 DEF SocketTypes
  <2>2. socket' \in [Sockets -> {"closed", "drain", "send"}]
    BY <1>1, <1>4 DEF SocketTypes
  <2>3. ASSUME NEW d \in Sockets
        PROVE  Len(sub'[d].queue) <= QueueSize /\ (sub'[d].on <=> socket'[d] # "closed")
    BY <1>1, <1>4 DEF SocketTypes
  <2> QED
    BY <1>1, <1>4, <2>1, <2>2, <2>3 DEF SocketTypes
<1>6. /\ sub'[c] = sub[c] /\ socket'[c] = "drain" /\ batch'[c] = <<>> /\ got'[c] = got[c]
      /\ noticed'[c] = (noticed[c] \/ lagged[c])
  BY <1>1, <1>3, <1>4 DEF SocketTypes
<1>7. Published(sub[c].stream)' = Published(sub[c].stream)
  BY <1>4 DEF Published, publishVars
<1>8. QueueFollows(c)'
  BY <1>2, <1>6, <1>7 DEF Follows, QueueFollows, Consecutive
<1>9. BatchFollows(c)'
  BY <1>6 DEF BatchFollows, Consecutive
<1>10. HandoverFollows(c)'
  <2>1. Front(c)' = Front(c) /\ Expected(c)' = Expected(c)
    BY <1>4, <1>6, <1>7 DEF Front, Expected
  <2>2. Flagged(c) => Flagged(c)'
    BY <1>4, <1>6 DEF Flagged
  <2> QED
    BY <1>2, <1>4, <1>6, <2>1, <2>2 DEF Follows, HandoverFollows
<1>11. OthersKeep(c)
  BY <1>1, <1>4 DEF OthersKeep, SocketTypes
<1> QED
  BY <1>5, <1>8, <1>9, <1>10, <1>11, SocketStepKeeps DEF Follows

-----------------------------------------------------------------------------
(* The theorems. *)

LEMMA StreamStutters == StreamInv /\ UNCHANGED streamVars => StreamInv'
<1> SUFFICES ASSUME StreamInv, UNCHANGED streamVars
             PROVE  StreamInv'
  OBVIOUS
<1>1. /\ UNCHANGED <<lock, sequence, pending, ended, ring, sub, socket>>
      /\ UNCHANGED <<batch, lagged, got, noticed, owed, connects>>
  BY DEF streamVars
<1>2. ASSUME NEW c \in Sockets
      PROVE  StreamInv'
  <2>1. SocketTypes'
    BY <1>1, TypesSplit DEF StreamInv, SocketTypes
  <2>2. \A s : Published(s)' = Published(s)
    BY <1>1, PublishedKeeps
  <2>3. Follows(c)'
    BY <1>1, <2>2, FollowsKeeps DEF StreamInv, Follows
  <2>4. OthersKeep(c)
    BY <1>1 DEF OthersKeep, publishVars
  <2> QED
    BY <2>1, <2>3, <2>4, SocketStepKeeps
<1>3. CASE Sockets = {}
  BY <1>1, <1>3, TypesSplit
  DEF StreamInv, StreamTypeOK, NumberedUnderLock, RingChained, RingInOrder, Published
<1> QED
  BY <1>2, <1>3

LEMMA StreamNextInv == StreamInv /\ [StreamNext]_streamVars => StreamInv'
<1> SUFFICES ASSUME StreamInv, [StreamNext]_streamVars
             PROVE  StreamInv'
  OBVIOUS
<1>1. CASE \E p \in Publishers, s \in Streams, t \in BOOLEAN : Number(p, s, t)
  BY <1>1, NumberKeeps
<1>2. CASE \E p \in Publishers : Publish(p)
  BY <1>2, PublishKeeps
<1>3. CASE \E c \in Sockets, s \in Streams : Connect(c, s)
  BY <1>3, ConnectKeeps
<1>4. CASE \E c \in Sockets : Drain(c)
  BY <1>4, DrainKeeps
<1>5. CASE \E c \in Sockets : Send(c)
  BY <1>5, SendKeeps
<1>6. CASE \E c \in Sockets : Notice(c)
  BY <1>6, NoticeKeeps
<1>7. CASE \E c \in Sockets : Disconnect(c)
  BY <1>7, DisconnectKeeps
<1>8. CASE UNCHANGED streamVars
  BY <1>8, StreamStutters
<1> QED
  BY <1>1, <1>2, <1>3, <1>4, <1>5, <1>6, <1>7, <1>8 DEF StreamNext

\* The invariant holds throughout: publish under the controller's lock, the two
\* bounded deques and the drain of each socket keep every stream in one piece.
THEOREM StreamInvariant == StreamSpec => []StreamInv
BY StreamInitInv, StreamNextInv, PTL DEF StreamSpec

\* The broker's state and the endpoint's have their types; no queue outgrows
\* SUBSCRIBER_QUEUE_SIZE and the ring stays within EVENT_RING_BUFFER_SIZE.
THEOREM StreamTypes == StreamSpec => []StreamTypeOK
<1>1. StreamInv => StreamTypeOK
  BY DEF StreamInv
<1> QED
  BY <1>1, StreamInvariant, PTL

\* The ring of EventBroker is in the order of the sequence numbers, stream by
\* stream, however many threads publish.
THEOREM RingStaysInOrder == StreamSpec => []RingInOrder
<1>1. StreamInv => RingInOrder
  BY DEF StreamInv, RingChained
<1> QED
  BY <1>1, StreamInvariant, PTL

LEMMA StepsAreAnnounced ==
    ASSUME StreamInv, [StreamNext]_streamVars, NEW c \in Sockets,
           got[c] # Nil, got'[c] # got[c], got'[c] # Nil
    PROVE  got'[c] = got[c] + 1 \/ (got'[c] > got[c] /\ noticed[c])
<1>1. SocketTypes
  BY TypesSplit DEF StreamInv
<1>2. ASSUME NEW d \in Sockets, Send(d)
      PROVE  got'[c] = got[c] + 1 \/ (got'[c] > got[c] /\ noticed[c])
  <2>1. got' = [got EXCEPT ![d] = Head(batch[d]).nr] /\ batch[d] # <<>>
    BY <1>2 DEF Send
  <2>2. d = c
    BY <1>1, <2>1 DEF SocketTypes
  <2>3. got'[c] = batch[c][1].nr
    <3>1. batch[c] \in Seq(Events)
      BY SocketFacts
    <3>2. Head(batch[c]) = batch[c][1]
      BY <2>1, <2>2, <3>1
    <3> QED
      BY <1>1, <2>1, <2>2, <3>2 DEF SocketTypes
  <2>4. BatchFollows(c)
    BY DEF StreamInv
  <2> QED
    BY <2>1, <2>2, <2>3, <2>4 DEF BatchFollows
<1>3. ASSUME NEW d \in Sockets, NEW s \in Streams, Connect(d, s)
      PROVE  FALSE
  BY <1>1, <1>3 DEF Connect, SocketTypes
<1>4. ASSUME NEW d \in Sockets, Drain(d) \/ Notice(d) \/ Disconnect(d)
      PROVE  FALSE
  BY <1>4 DEF Drain, Notice, Disconnect
<1>5. ASSUME NEW p \in Publishers, Publish(p) \/ \E s \in Streams, t \in BOOLEAN : Number(p, s, t)
      PROVE  FALSE
  BY <1>5 DEF Publish, Number, socketVars
<1>6. CASE UNCHANGED streamVars
  BY <1>6 DEF streamVars
<1> QED
  BY <1>2, <1>3, <1>4, <1>5, <1>6 DEF StreamNext

\* A client of the WebSocket endpoint gets the events of its stream in the
\* order of publication, and where one is missing a gap notice comes first.
THEOREM GapsAreAnnounced == StreamSpec => NoSilentGap
<1>1. StreamInv /\ [StreamNext]_streamVars =>
        [\A c \in Sockets : (got[c] # Nil /\ got'[c] # got[c] /\ got'[c] # Nil) =>
            \/ got'[c] = got[c] + 1
            \/ got'[c] > got[c] /\ noticed[c]]_streamVars
  BY StepsAreAnnounced
<1> QED
  BY <1>1, StreamInvariant, PTL DEF StreamSpec, NoSilentGap
=============================================================================
