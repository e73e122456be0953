-------------------------- MODULE SimpleQueueProofs --------------------------
(***************************************************************************)
(* Theorems about the blocking queue with one producer, for any length of  *)
(* the ring, any number of messages and of consumers: every message has    *)
(* one owner and none is lost, and the ring implements BoundedFifo.        *)
(*                                                                         *)
(* With two producers neither holds, for a producer that waited stores     *)
(* with the cursor it computed before; so the invariant says of the one    *)
(* producer that its cursor is still right (RearInv).  The arithmetic of   *)
(* the ring is needed only to see that a push appends to Content and that  *)
(* a pop takes its head; from there on everything is about Content.        *)
(***************************************************************************)
EXTENDS SimpleQueue, SequenceTheorems, TLAPS

QueueAssumption ==
  /\ Length \in Nat /\ Length >= 2
  /\ MaxMessage \in Nat
  /\ Producer \cap Consumer = {}
  /\ \A p, q \in Producer : p = q

-----------------------------------------------------------------------------
\* The remainder of a number that is at most one ring off.
LEMMA Remainder ==
  ASSUME NEW n \in Nat, n > 0, NEW x \in Int
  PROVE  /\ 0 <= x /\ x < n => x % n = x
         /\ n <= x /\ x < 2 * n => x % n = x - n
         /\ -n <= x /\ x < 0 => x % n = x + n
<1> DEFINE q == x \div n
           r == x % n
<1>1. x = n * q + r /\ q \in Int /\ r \in 0 .. n - 1
  OBVIOUS
<1> HIDE DEF q, r
<1>2. /\ q >= 1 => n * q >= n
      /\ q >= 2 => n * q >= 2 * n
      /\ q <= -1 => n * q <= -n
      /\ q <= -2 => n * q <= -2 * n
  BY <1>1
<1>3. /\ 0 <= x /\ x < n => q = 0
      /\ n <= x /\ x < 2 * n => q = 1
      /\ -n <= x /\ x < 0 => q = -1
  BY <1>1, <1>2
<1>4. /\ q = 0 => x = r
      /\ q = 1 => x = n + r
      /\ q = -1 => x = -n + r
  BY <1>1
<1> QED BY <1>1, <1>3, <1>4 DEF r

\* The cursor after a slot.
LEMMA AfterIs ==
  ASSUME QueueAssumption, NEW i \in Cursor
  PROVE  /\ After(i) \in Cursor
         /\ After(i) = IF i = Length - 1 THEN 0 ELSE i + 1
<1>1. /\ Length \in Nat /\ Length > 0 /\ Length >= 2
      /\ i + 1 \in Int /\ i \in 0 .. Length - 1
  BY DEF QueueAssumption, Cursor
<1>2. /\ 0 <= i + 1 /\ i + 1 < Length => (i + 1) % Length = i + 1
      /\ Length <= i + 1 /\ i + 1 < 2 * Length => (i + 1) % Length = i + 1 - Length
  BY <1>1, Remainder
<1> QED BY <1>1, <1>2 DEF After, Cursor

\* How many messages lie from cursor f to cursor r.
Between(f, r) == IF f <= r THEN r - f ELSE r - f + Length
LEMMA HeldIs ==
  ASSUME QueueAssumption, NEW f \in Cursor, NEW r \in Cursor
  PROVE  (r - f) % Length = Between(f, r) /\ Between(f, r) \in 0 .. Length - 1
<1>1. /\ Length \in Nat /\ Length > 0 /\ r - f \in Int
      /\ f \in 0 .. Length - 1 /\ r \in 0 .. Length - 1
  BY DEF QueueAssumption, Cursor
<1>2. /\ 0 <= r - f /\ r - f < Length => (r - f) % Length = r - f
      /\ -Length <= r - f /\ r - f < 0 => (r - f) % Length = r - f + Length
  BY <1>1, Remainder
<1> QED BY <1>1, <1>2 DEF Between

\* The slot of the i-th of them.
Slot(f, i) == IF f + i - 1 < Length THEN f + i - 1 ELSE f + i - 1 - Length
LEMMA SlotIs ==
  ASSUME QueueAssumption, NEW f \in Cursor, NEW i \in 1 .. Length
  PROVE  (f + i - 1) % Length = Slot(f, i) /\ Slot(f, i) \in Cursor
<1>1. /\ Length \in Nat /\ Length > 0 /\ f + i - 1 \in Int /\ f \in 0 .. Length - 1
  BY DEF QueueAssumption, Cursor
<1>2. /\ 0 <= f + i - 1 /\ f + i - 1 < Length => (f + i - 1) % Length = f + i - 1
      /\ Length <= f + i - 1 /\ f + i - 1 < 2 * Length
           => (f + i - 1) % Length = f + i - 1 - Length
  BY <1>1, Remainder
<1> QED BY <1>1, <1>2 DEF Slot, Cursor

\* What lies in ring d from cursor f to cursor r, as a sequence.
Word == Message \cup {Garbage}
Messages(d, f, r) == [i \in 1 .. (r - f) % Length |-> d[(f + i - 1) % Length]]
LEMMA MessagesAre ==
  ASSUME QueueAssumption, NEW d \in [Cursor -> Word], NEW f \in Cursor, NEW r \in Cursor
  PROVE  /\ Messages(d, f, r) \in Seq(Word)
         /\ Len(Messages(d, f, r)) = Between(f, r) /\ Between(f, r) \in 0 .. Length - 1
         /\ \A i \in 1 .. Between(f, r) : Messages(d, f, r)[i] = d[Slot(f, i)]
<1> DEFINE h == Between(f, r)
<1>1. /\ h \in 0 .. Length - 1 /\ h \in Nat /\ Length \in Nat
      /\ Messages(d, f, r) = [i \in 1 .. h |-> d[(f + i - 1) % Length]]
  BY HeldIs DEF QueueAssumption, Messages
<1> HIDE DEF h
<1>2. \A i \in 1 .. h : (f + i - 1) % Length = Slot(f, i) /\ Slot(f, i) \in Cursor
  BY <1>1, SlotIs
<1>3. \A i \in 1 .. h : d[(f + i - 1) % Length] \in Word
  BY <1>2
<1>4. Messages(d, f, r) \in [1 .. h -> Word]
  BY <1>1, <1>3
<1>5. Messages(d, f, r) \in Seq(Word) /\ Len(Messages(d, f, r)) = h
  BY <1>1, <1>4
<1> QED BY <1>1, <1>2, <1>5 DEF h

\* A ring whose cursors meet is empty.
LEMMA EmptyRing ==
  ASSUME QueueAssumption, NEW d \in [Cursor -> Word], NEW f \in Cursor, NEW r \in Cursor
  PROVE  f = r <=> Messages(d, f, r) = <<>>
<1>1. f = r <=> Between(f, r) = 0
  BY DEF Between, QueueAssumption, Cursor
<1> QED BY <1>1, MessagesAre, EmptySeq

\* The next message is appended, if a slot is left besides the one it takes.
LEMMA PutAppends ==
  ASSUME QueueAssumption, NEW d \in [Cursor -> Word], NEW f \in Cursor, NEW r \in Cursor,
         After(r) # f, NEW m \in Word
  PROVE  /\ Messages([d EXCEPT ![r] = m], f, After(r)) = Append(Messages(d, f, r), m)
         /\ Len(Messages(d, f, r)) < Length - 1
<1> DEFINE e == [d EXCEPT ![r] = m]
           w == After(r)
           s == Messages(d, f, r)
           t == Messages(e, f, w)
           h == Between(f, r)
<1>0. /\ Length \in Nat /\ Length >= 2 /\ f \in 0 .. Length - 1 /\ r \in 0 .. Length - 1
  BY DEF QueueAssumption, Cursor
<1>1. w \in Cursor /\ w = (IF r = Length - 1 THEN 0 ELSE r + 1) /\ w # f
  BY AfterIs
<1>2. e \in [Cursor -> Word] /\ e[r] = m /\ \A k \in Cursor : k # r => e[k] = d[k]
  OBVIOUS
<1> HIDE DEF e, w
<1>3. /\ h \in 0 .. Length - 1 /\ h = (IF f <= r THEN r - f ELSE r - f + Length)
      /\ Between(f, w) = IF f <= w THEN w - f ELSE w - f + Length
  BY HeldIs DEF Between
<1>4. Between(f, w) = h + 1 /\ h < Length - 1 /\ h \in Nat
  BY <1>0, <1>1, <1>3
<1>5. /\ s \in Seq(Word) /\ Len(s) = h /\ \A i \in 1 .. h : s[i] = d[Slot(f, i)]
  BY MessagesAre
<1>6. /\ t \in Seq(Word) /\ Len(t) = h + 1
      /\ \A i \in 1 .. h + 1 : t[i] = e[Slot(f, i)]
  <2>1. /\ t \in Seq(Word) /\ Len(t) = Between(f, w)
        /\ \A i \in 1 .. Between(f, w) : t[i] = e[Slot(f, i)]
    BY <1>1, <1>2, MessagesAre
  <2> HIDE DEF t, h
  <2> QED BY <1>4, <2>1
<1>7. Slot(f, h + 1) = r /\ \A i \in 1 .. h : Slot(f, i) # r
  BY <1>0, <1>3, <1>4 DEF Slot
<1>8. \A i \in 1 .. h : Slot(f, i) \in Cursor
  BY <1>0, <1>4, SlotIs
<1> HIDE DEF s, t, h
<1>9. t[h + 1] = m /\ \A i \in 1 .. h : t[i] = s[i]
  BY <1>2, <1>4, <1>5, <1>6, <1>7, <1>8
<1>10. /\ Append(s, m) \in Seq(Word) /\ Len(Append(s, m)) = h + 1
       /\ Append(s, m)[h + 1] = m /\ \A i \in 1 .. h : Append(s, m)[i] = s[i]
  BY <1>5, AppendProperties
<1>11. \A i \in 1 .. h + 1 : t[i] = Append(s, m)[i]
  BY <1>4, <1>9, <1>10
<1>12. t = Append(s, m)
  BY <1>6, <1>10, <1>11, SeqEqual
<1> QED BY <1>4, <1>5, <1>12 DEF s, t, e, w

\* Taking one out takes the head.
LEMMA TakeIsHead ==
  ASSUME QueueAssumption, NEW d \in [Cursor -> Word], NEW f \in Cursor, NEW r \in Cursor,
         f # r
  PROVE  /\ Messages(d, f, r) # <<>>
         /\ Head(Messages(d, f, r)) = d[f]
         /\ Messages(d, After(f), r) = Tail(Messages(d, f, r))
<1> DEFINE g == After(f)
           s == Messages(d, f, r)
           t == Messages(d, g, r)
           h == Between(f, r)
<1>0. /\ Length \in Nat /\ Length >= 2 /\ f \in 0 .. Length - 1 /\ r \in 0 .. Length - 1
  BY DEF QueueAssumption, Cursor
<1>1. g \in Cursor /\ g = (IF f = Length - 1 THEN 0 ELSE f + 1)
  BY AfterIs
<1> HIDE DEF g
<1>2. /\ h \in 0 .. Length - 1 /\ h = (IF f <= r THEN r - f ELSE r - f + Length)
      /\ Between(g, r) = IF g <= r THEN r - g ELSE r - g + Length
  BY HeldIs DEF Between
<1>3. Between(g, r) = h - 1 /\ h >= 1 /\ h \in Nat
  BY <1>0, <1>1, <1>2
<1>4. /\ s \in Seq(Word) /\ Len(s) = h /\ \A i \in 1 .. h : s[i] = d[Slot(f, i)]
  BY MessagesAre
<1>5. /\ t \in Seq(Word) /\ Len(t) = h - 1 /\ \A i \in 1 .. h - 1 : t[i] = d[Slot(g, i)]
  <2>1. /\ t \in Seq(Word) /\ Len(t) = Between(g, r)
        /\ \A i \in 1 .. Between(g, r) : t[i] = d[Slot(g, i)]
    BY <1>1, MessagesAre
  <2> HIDE DEF t, h
  <2> QED BY <1>3, <2>1
<1>6. Slot(f, 1) = f /\ \A i \in 1 .. h - 1 : Slot(g, i) = Slot(f, i + 1)
  BY <1>0, <1>1, <1>2, <1>3 DEF Slot
<1> HIDE DEF s, t, h
<1>7. s # <<>> /\ s[1] = d[f]
  BY <1>3, <1>4, <1>6
<1>8. /\ Tail(s) \in Seq(Word) /\ Len(Tail(s)) = h - 1
      /\ \A i \in 1 .. h - 1 : Tail(s)[i] = s[i + 1]
  BY <1>4, <1>7, HeadTailProperties
<1>9. \A i \in 1 .. h - 1 : t[i] = Tail(s)[i]
  <2> SUFFICES ASSUME NEW i \in 1 .. h - 1 PROVE t[i] = Tail(s)[i]
    OBVIOUS
  <2>1. i + 1 \in 1 .. h
    BY <1>3
  <2>2. t[i] = d[Slot(f, i + 1)] /\ Tail(s)[i] = s[i + 1]
    BY <1>5, <1>6, <1>8
  <2> QED BY <1>4, <2>1, <2>2
<1>10. t = Tail(s)
  BY <1>5, <1>8, <1>9, SeqEqual
<1> QED BY <1>4, <1>7, <1>10 DEF s, t, g
-----------------------------------------------------------------------------
\* The producer that waits stores with the cursor it computed before: no other
\* producer has moved rear, and its message is not yet in anybody's hands.
RearInv ==
  \A p \in Producer : pc[p] = "full" =>
    /\ w_cursor[p] = After(rear)
    /\ message[p] \in 1 .. next - 1 /\ message[p] \notin accepted

\* The messages are different ones, and what is not alive holds none.
Distinct(s) == \A i, j \in 1 .. Len(s) : s[i] = s[j] => i = j
OwnInv == /\ accepted \subseteq 1 .. next - 1
          /\ ToSet(Content) \subseteq accepted
          /\ Distinct(Content)
          /\ NothingLost /\ OneOwner
EmptyInv == ~alive => front = rear

Locations == {"idle", "full", "empty", "signal"}
RingOK == front \in Cursor /\ rear \in Cursor /\ data \in [Cursor -> Word]
LocalOK == /\ pc \in [Thread -> Locations]
           /\ w_cursor \in [Producer -> Cursor]
           /\ message \in [Producer -> Message \cup {0}]
           /\ next \in 1 .. MaxMessage + 1
IInv == RingOK /\ LocalOK /\ RearInv /\ EmptyInv /\ OwnInv

\* What the elements of a sequence that grows or shrinks are.
LEMMA AppendOwns ==
  ASSUME NEW S, NEW s \in Seq(S), NEW m \in S
  PROVE  /\ ToSet(Append(s, m)) = ToSet(s) \cup {m}
         /\ Distinct(s) /\ m \notin ToSet(s) => Distinct(Append(s, m))
<1>1. /\ Append(s, m) \in Seq(S) /\ Len(Append(s, m)) = Len(s) + 1 /\ Len(s) \in Nat
      /\ Append(s, m)[Len(s) + 1] = m
      /\ \A i \in 1 .. Len(s) : Append(s, m)[i] = s[i]
  BY AppendProperties
<1>2. ToSet(s) = {s[i] : i \in 1 .. Len(s)}
  BY DEF ToSet
<1>3. ToSet(Append(s, m)) = {Append(s, m)[i] : i \in 1 .. Len(s) + 1}
  BY <1>1 DEF ToSet
<1>4. ToSet(Append(s, m)) \subseteq ToSet(s) \cup {m}
  BY <1>1, <1>2, <1>3
<1>5. \A i \in 1 .. Len(s) : s[i] \in ToSet(Append(s, m))
  BY <1>1, <1>3
<1>6. m \in ToSet(Append(s, m))
  BY <1>1, <1>3
<1>7. ASSUME Distinct(s), m \notin ToSet(s) PROVE Distinct(Append(s, m))
  <2> SUFFICES ASSUME NEW i \in 1 .. Len(s) + 1, NEW j \in 1 .. Len(s) + 1,
                      Append(s, m)[i] = Append(s, m)[j]
               PROVE  i = j
    BY <1>1 DEF Distinct
  <2>1. CASE i = Len(s) + 1 \/ j = Len(s) + 1
    BY <1>1, <1>2, <1>7, <2>1
  <2>2. CASE i # Len(s) + 1 /\ j # Len(s) + 1
    BY <1>1, <1>7, <2>2 DEF Distinct
  <2> QED BY <2>1, <2>2
<1> QED BY <1>2, <1>4, <1>5, <1>6, <1>7

LEMMA TailOwns ==
  ASSUME NEW S, NEW s \in Seq(S), s # <<>>
  PROVE  /\ ToSet(s) = {Head(s)} \cup ToSet(Tail(s))
         /\ Distinct(s) => Distinct(Tail(s)) /\ Head(s) \notin ToSet(Tail(s))
<1>1. /\ Tail(s) \in Seq(S) /\ Len(Tail(s)) = Len(s) - 1 /\ Len(s) \in Nat /\ Len(s) >= 1
      /\ \A i \in 1 .. Len(s) - 1 : Tail(s)[i] = s[i + 1]
      /\ Head(s) = s[1]
  BY HeadTailProperties, EmptySeq
<1>2. /\ ToSet(s) = {s[i] : i \in 1 .. Len(s)}
      /\ ToSet(Tail(s)) = {Tail(s)[i] : i \in 1 .. Len(s) - 1}
  <2>1. DOMAIN s = 1 .. Len(s) /\ DOMAIN Tail(s) = 1 .. Len(s) - 1
    BY <1>1, LenProperties
  <2> QED BY <2>1 DEF ToSet
<1>3. \A i \in 1 .. Len(s) : s[i] \in {s[1]} \cup ToSet(Tail(s))
  <2> SUFFICES ASSUME NEW i \in 1 .. Len(s), i # 1 PROVE s[i] \in ToSet(Tail(s))
    OBVIOUS
  <2>1. i - 1 \in 1 .. Len(s) - 1 /\ Tail(s)[i - 1] = s[i]
    BY <1>1
  <2> QED BY <1>2, <2>1
<1>4. \A i \in 1 .. Len(s) - 1 : Tail(s)[i] \in ToSet(s)
  BY <1>1, <1>2
<1>5. ASSUME Distinct(s) PROVE Distinct(Tail(s)) /\ s[1] \notin ToSet(Tail(s))
  <2>1. ASSUME NEW i \in 1 .. Len(s) - 1, NEW j \in 1 .. Len(s) - 1, Tail(s)[i] = Tail(s)[j]
        PROVE  i = j
    <3>1. s[i + 1] = s[j + 1] /\ i + 1 \in 1 .. Len(s) /\ j + 1 \in 1 .. Len(s)
      BY <1>1, <2>1
    <3>2. i + 1 = j + 1
      BY <1>5, <3>1 DEF Distinct
    <3> QED BY <3>2
  <2>2. ASSUME NEW i \in 1 .. Len(s) - 1, Tail(s)[i] = s[1] PROVE FALSE
    <3>1. s[i + 1] = s[1] /\ i + 1 \in 1 .. Len(s) /\ 1 \in 1 .. Len(s)
      BY <1>1, <2>2
    <3>2. i + 1 = 1
      BY <1>5, <3>1 DEF Distinct
    <3> QED BY <3>2
  <2>3. Distinct(Tail(s))
    BY <1>1, <2>1 DEF Distinct
  <2> QED BY <1>2, <2>2, <2>3
<1> QED BY <1>1, <1>2, <1>3, <1>4, <1>5

\* An empty sequence.
LEMMA NoneOwned == ToSet(<<>>) = {} /\ Distinct(<<>>)
BY DEF ToSet, Distinct

\* The sequence of the ring at each of its changes.
LEMMA ContentSteps ==
  ASSUME QueueAssumption, RingOK
  PROVE  /\ Content \in Seq(Word) /\ Len(Content) <= Length - 1
         /\ front = rear <=> Content = <<>>
         /\ UNCHANGED <<data, front, rear>> => Content' = Content
         /\ front' \in Cursor /\ rear' = front' /\ data' \in [Cursor -> Word]
              => Content' = <<>>
         /\ \A m \in Word :
              /\ After(rear) # front /\ data' = [data EXCEPT ![rear] = m]
              /\ rear' = After(rear) /\ front' = front
              => /\ Content' = Append(Content, m) /\ Len(Content) < Length - 1
                 /\ rear' \in Cursor /\ data' \in [Cursor -> Word]
         /\ front # rear /\ front' = After(front) /\ UNCHANGED <<data, rear>>
              => /\ Content # <<>> /\ data[front] = Head(Content)
                 /\ Content' = Tail(Content) /\ front' \in Cursor
<1> USE DEF RingOK
<1>1. Content = Messages(data, front, rear) /\ Content' = Messages(data', front', rear')
  BY DEF Content, Held, Messages
<1>2. /\ Content \in Seq(Word) /\ Len(Content) <= Length - 1
      /\ front = rear <=> Content = <<>>
  <2>1. /\ Content \in Seq(Word) /\ Len(Content) = Between(front, rear)
        /\ Between(front, rear) \in 0 .. Length - 1
    BY <1>1, MessagesAre
  <2>2. front = rear <=> Content = <<>>
    BY <1>1, EmptyRing
  <2>3. Between(front, rear) <= Length - 1
    BY <2>1 DEF QueueAssumption
  <2> QED BY <2>1, <2>2, <2>3
<1>3. UNCHANGED <<data, front, rear>> => Content' = Content
  BY <1>1
<1>4. front' \in Cursor /\ rear' = front' /\ data' \in [Cursor -> Word] => Content' = <<>>
  BY <1>1, EmptyRing
<1>5. ASSUME NEW m \in Word, After(rear) # front, data' = [data EXCEPT ![rear] = m],
             rear' = After(rear), front' = front
      PROVE  /\ Content' = Append(Content, m) /\ Len(Content) < Length - 1
             /\ rear' \in Cursor /\ data' \in [Cursor -> Word]
  <2>1. rear' \in Cursor /\ data' \in [Cursor -> Word]
    BY <1>5, AfterIs
  <2>2. Content' = Messages([data EXCEPT ![rear] = m], front, After(rear))
    BY <1>1, <1>5
  <2>3. /\ Messages([data EXCEPT ![rear] = m], front, After(rear)) = Append(Messages(data, front, rear), m)
        /\ Len(Messages(data, front, rear)) < Length - 1
    BY <1>5, PutAppends
  <2> QED BY <1>1, <2>1, <2>2, <2>3
<1>6. ASSUME front # rear, front' = After(front), UNCHANGED <<data, rear>>
      PROVE  /\ Content # <<>> /\ data[front] = Head(Content)
             /\ Content' = Tail(Content) /\ front' \in Cursor
  BY <1>1, <1>6, AfterIs, TakeIsHead
<1> QED BY <1>2, <1>3, <1>4, <1>5, <1>6

\* A queue that has not been created holds nothing.
LEMMA InitIInv == QueueAssumption /\ Init => IInv
<1> SUFFICES ASSUME QueueAssumption, Init PROVE IInv
  OBVIOUS
<1> USE DEF Init
<1>1. 0 \in Cursor
  BY DEF QueueAssumption, Cursor
<1>2. RingOK
  BY <1>1 DEF RingOK, Word
<1>3. Content = <<>>
  BY <1>2, ContentSteps
<1>4. LocalOK
  BY <1>1 DEF LocalOK, Locations, QueueAssumption
<1>5. RearInv
  BY DEF RearInv, Thread
<1>6. OwnInv
  BY <1>3, NoneOwned DEF OwnInv, NothingLost, OneOwner
<1> QED BY <1>2, <1>4, <1>5, <1>6 DEF IInv, EmptyInv
-----------------------------------------------------------------------------
\* Steps that leave the ring and the messages alone.
LEMMA RingUnchanged ==
  ASSUME QueueAssumption, IInv, UNCHANGED <<alive, front, rear, data, next, history>>
  PROVE  RingOK' /\ EmptyInv' /\ OwnInv' /\ UNCHANGED Fifo!vars
<1>1. Content' = Content
  BY ContentSteps DEF IInv
<1> QED BY <1>1 DEF IInv, RingOK, EmptyInv, OwnInv, NothingLost, OneOwner, history, Fifo!vars

\* The numbers of the messages so far, before and after the next is numbered.
LEMMA Numbered ==
  ASSUME NEW a \in Nat, NEW b \in Nat, a <= b, NEW m \in Nat, 1 <= m, m < b
  PROVE  1 .. a - 1 \subseteq 1 .. b - 1 /\ m \in 1 .. b - 1
OBVIOUS

\* A message that is stored passes from the producer to the queue.
LEMMA StoreStep ==
  ASSUME QueueAssumption, IInv, alive, NEW p \in Producer, NEW m \in Message,
         next' \in Nat, m < next', next <= next', m \notin accepted, After(rear) # front,
         Store(p, m, After(rear)), UNCHANGED <<alive, front, popped, freed>>
  PROVE  RingOK' /\ EmptyInv' /\ OwnInv' /\ Fifo!Put
<1>1. /\ data' = [data EXCEPT ![rear] = m] /\ rear' = After(rear)
      /\ accepted' = accepted \cup {m} /\ m \in Word
      /\ UNCHANGED <<alive, front, popped, freed>>
  BY DEF Store, Word
<1>2. /\ Content' = Append(Content, m) /\ Len(Content) < Length - 1
      /\ rear' \in Cursor /\ data' \in [Cursor -> Word] /\ Content \in Seq(Word)
  BY <1>1, ContentSteps DEF IInv
<1>3. m \notin ToSet(Content) /\ m \notin popped \cup freed
  BY DEF IInv, OwnInv, OneOwner
<1>4. ToSet(Content') = ToSet(Content) \cup {m} /\ Distinct(Content')
  BY <1>1, <1>2, <1>3, AppendOwns DEF IInv, OwnInv
<1>5. RingOK' /\ EmptyInv'
  BY <1>1, <1>2 DEF IInv, RingOK, EmptyInv
<1>6. accepted' \subseteq 1 .. next' - 1
  <2>1. next \in Nat /\ m \in Nat /\ m >= 1 /\ accepted \subseteq 1 .. next - 1
    <3>1. next \in 1 .. MaxMessage + 1 /\ m \in 1 .. MaxMessage /\ MaxMessage \in Nat
      BY DEF IInv, LocalOK, Message, QueueAssumption
    <3>2. accepted \subseteq 1 .. next - 1
      BY DEF IInv, OwnInv
    <3> QED BY <3>1, <3>2
  <2>2. 1 .. next - 1 \subseteq 1 .. next' - 1 /\ m \in 1 .. next' - 1
    BY <2>1, Numbered
  <2> QED BY <1>1, <2>1, <2>2
<1>7. OwnInv'
  BY <1>1, <1>3, <1>4, <1>6 DEF IInv, OwnInv, NothingLost, OneOwner
<1>8. Fifo!Put
  BY <1>1, <1>2 DEF Fifo!Put
<1> QED BY <1>5, <1>7, <1>8

\* A message that is taken passes from the queue to the consumer.
LEMMA TakeStep ==
  ASSUME QueueAssumption, IInv, alive, NEW c \in Consumer, front # rear, TakeOut(c),
         UNCHANGED <<alive, rear, data, next, accepted, freed>>
  PROVE  RingOK' /\ EmptyInv' /\ OwnInv' /\ Fifo!Get
<1>1. popped' = popped \cup {data[front]} /\ front' = After(front)
  BY DEF TakeOut
<1>2. /\ Content # <<>> /\ data[front] = Head(Content) /\ Content' = Tail(Content)
      /\ front' \in Cursor /\ Content \in Seq(Word)
  BY <1>1, ContentSteps DEF IInv
<1>3. /\ ToSet(Content) = {data[front]} \cup ToSet(Content')
      /\ Distinct(Content') /\ data[front] \notin ToSet(Content')
  BY <1>2, TailOwns DEF IInv, OwnInv
<1>4. RingOK' /\ EmptyInv'
  BY <1>1, <1>2 DEF IInv, RingOK, EmptyInv
<1>5. OwnInv'
  BY <1>1, <1>3 DEF IInv, OwnInv, NothingLost, OneOwner
<1>6. Fifo!Get
  BY <1>1, <1>2 DEF Fifo!Get
<1> QED BY <1>4, <1>5, <1>6

\* The locals of a step that moves only pc and, perhaps, to "signal" or "idle".
LEMMA MoveStep ==
  ASSUME QueueAssumption, LocalOK, RearInv, NEW t \in Thread, NEW l \in {"idle", "empty", "signal"},
         Goto(t, l), UNCHANGED <<rear, accepted, local>>
  PROVE  LocalOK' /\ RearInv'
<1>1. /\ pc' = [pc EXCEPT ![t] = l] /\ pc \in [Thread -> Locations]
      /\ UNCHANGED <<w_cursor, message, next, rear, accepted>>
  BY DEF Goto, LocalOK, local
<1>2. LocalOK'
  BY <1>1 DEF LocalOK, Locations
<1>3. \A u \in Thread : pc'[u] = "full" => pc[u] = "full"
  BY <1>1
<1>4. RearInv'
  BY <1>1, <1>3 DEF RearInv, Thread
<1> QED BY <1>2, <1>4

LEMMA PushStep ==
  ASSUME QueueAssumption, IInv, NEW p \in Producer, Push(p)
  PROVE  IInv' /\ [Fifo!Next]_Fifo!vars
<1>1. /\ alive /\ next \in 1 .. MaxMessage /\ next \in Nat /\ next' = next + 1
      /\ next \in Message /\ next' \in 1 .. MaxMessage + 1
      /\ MaxMessage \in Nat /\ UNCHANGED <<alive, front, popped, freed>>
  BY DEF Push, IInv, LocalOK, QueueAssumption, Message
<1>2. next \notin accepted
  BY <1>1 DEF IInv, OwnInv
<1>3. /\ pc \in [Thread -> Locations] /\ p \in Thread
      /\ w_cursor \in [Producer -> Cursor] /\ message \in [Producer -> Message \cup {0}]
      /\ rear \in Cursor
  BY DEF IInv, LocalOK, RingOK, Thread
<1>4. \A q \in Producer : q = p
  BY DEF QueueAssumption
<1>5. CASE After(rear) # front
  <2>1. Store(p, next, After(rear)) /\ UNCHANGED w_cursor
    BY <1>5 DEF Push
  <2>2. RingOK' /\ EmptyInv' /\ OwnInv' /\ Fifo!Put
    <3>1. next <= next' /\ next < next' /\ next' \in Nat
      BY <1>1
    <3> QED BY <1>1, <1>2, <1>5, <2>1, <3>1, StoreStep
  <2>3. pc' = [pc EXCEPT ![p] = "signal"] /\ message' = [message EXCEPT ![p] = 0]
    BY <2>1 DEF Store, Goto
  <2>4. LocalOK'
    BY <1>1, <1>3, <2>1, <2>3 DEF LocalOK, Locations
  <2>5. RearInv'
    BY <1>3, <1>4, <2>3 DEF RearInv
  <2> QED BY <2>2, <2>4, <2>5 DEF IInv, Fifo!Next
<1>6. CASE After(rear) = front
  <2>1. /\ w_cursor' = [w_cursor EXCEPT ![p] = After(rear)]
        /\ message' = [message EXCEPT ![p] = next]
        /\ pc' = [pc EXCEPT ![p] = "full"]
        /\ UNCHANGED <<data, rear, accepted>>
    BY <1>6 DEF Push, Goto
  <2>2. After(rear) \in Cursor
    BY <1>3, AfterIs
  <2>3. LocalOK'
    BY <1>1, <1>3, <2>1, <2>2 DEF LocalOK, Locations
  <2>4. w_cursor'[p] = After(rear) /\ message'[p] = next /\ After(rear)' = After(rear)
    BY <1>3, <2>1 DEF After
  <2>5. RearInv'
    BY <1>1, <1>2, <1>4, <2>1, <2>4 DEF RearInv
  <2>6. Content' = Content
    BY <1>1, <2>1, ContentSteps DEF IInv
  <2>7. accepted' \subseteq 1 .. next' - 1
    BY <1>1, <2>1 DEF IInv, OwnInv
  <2>8. RingOK' /\ EmptyInv' /\ OwnInv'
    BY <1>1, <2>1, <2>6, <2>7 DEF IInv, RingOK, EmptyInv, OwnInv, NothingLost, OneOwner
  <2>9. UNCHANGED Fifo!vars
    BY <1>1, <2>6 DEF Fifo!vars
  <2> QED BY <2>3, <2>5, <2>8, <2>9 DEF IInv
<1> QED BY <1>5, <1>6

LEMMA PushAgainStep ==
  ASSUME QueueAssumption, IInv, NEW p \in Producer, PushAgain(p)
  PROVE  IInv' /\ [Fifo!Next]_Fifo!vars
<1>1. /\ alive /\ pc[p] = "full" /\ UNCHANGED <<alive, front, w_cursor, next, popped, freed>>
  BY DEF PushAgain
<1>2. /\ w_cursor[p] = After(rear) /\ message[p] \in 1 .. next - 1 /\ message[p] \notin accepted
  BY <1>1 DEF IInv, RearInv
<1>3. /\ pc \in [Thread -> Locations] /\ p \in Thread
      /\ w_cursor \in [Producer -> Cursor] /\ message \in [Producer -> Message \cup {0}]
      /\ next \in 1 .. MaxMessage + 1 /\ next \in Nat /\ MaxMessage \in Nat
  BY DEF IInv, LocalOK, Thread, QueueAssumption
<1>4. \A q \in Producer : q = p
  BY DEF QueueAssumption
<1>5. message[p] \in Message /\ message[p] < next
  BY <1>2, <1>3 DEF Message
<1>6. CASE w_cursor[p] # front
  <2>1. Store(p, message[p], After(rear))
    BY <1>2, <1>6 DEF PushAgain
  <2>2. RingOK' /\ EmptyInv' /\ OwnInv' /\ Fifo!Put
    <3>1. next <= next' /\ message[p] < next' /\ next' \in Nat
      BY <1>1, <1>3, <1>5
    <3> QED BY <1>1, <1>2, <1>5, <1>6, <2>1, <3>1, StoreStep
  <2>3. pc' = [pc EXCEPT ![p] = "signal"] /\ message' = [message EXCEPT ![p] = 0]
    BY <2>1 DEF Store, Goto
  <2>4. LocalOK'
    BY <1>1, <1>3, <2>3 DEF LocalOK, Locations
  <2>5. RearInv'
    BY <1>3, <1>4, <2>3 DEF RearInv
  <2> QED BY <2>2, <2>4, <2>5 DEF IInv, Fifo!Next
<1>7. CASE w_cursor[p] = front
  <2>1. /\ message' = [message EXCEPT ![p] = 0] /\ pc' = [pc EXCEPT ![p] = "idle"]
        /\ UNCHANGED <<data, rear, accepted>>
    BY <1>7 DEF PushAgain, Goto
  <2>2. LocalOK'
    BY <1>1, <1>3, <2>1 DEF LocalOK, Locations
  <2>3. RearInv'
    BY <1>3, <1>4, <2>1 DEF RearInv
  <2>4. RingOK' /\ EmptyInv' /\ OwnInv' /\ UNCHANGED Fifo!vars
    BY <1>1, <2>1, RingUnchanged DEF history
  <2> QED BY <2>2, <2>3, <2>4 DEF IInv
<1> QED BY <1>6, <1>7

LEMMA PopStep ==
  ASSUME QueueAssumption, IInv, NEW c \in Consumer, Pop(c) \/ PopAgain(c)
  PROVE  IInv' /\ [Fifo!Next]_Fifo!vars
<1>1. alive /\ c \in Thread /\ UNCHANGED <<alive, rear, data, local, accepted, freed>>
  BY DEF Pop, PopAgain, Thread
<1>2. CASE front # rear
  <2>1. TakeOut(c)
    BY <1>2 DEF Pop, PopAgain
  <2>2. RingOK' /\ EmptyInv' /\ OwnInv' /\ Fifo!Get
    BY <1>1, <1>2, <2>1, TakeStep DEF local
  <2>3. LocalOK' /\ RearInv'
    BY <1>1, <2>1, MoveStep DEF TakeOut, IInv
  <2> QED BY <2>2, <2>3 DEF IInv, Fifo!Next
<1>3. CASE front = rear
  <2>1. (Goto(c, "empty") \/ Goto(c, "idle")) /\ UNCHANGED <<front, popped>>
    BY <1>3 DEF Pop, PopAgain
  <2>2. LocalOK' /\ RearInv'
    BY <1>1, <2>1, MoveStep DEF IInv
  <2>3. RingOK' /\ EmptyInv' /\ OwnInv' /\ UNCHANGED Fifo!vars
    BY <1>1, <2>1, RingUnchanged DEF history, local
  <2> QED BY <2>2, <2>3 DEF IInv
<1> QED BY <1>2, <1>3

LEMMA WakeStep ==
  ASSUME QueueAssumption, IInv, SpuriousWakeup \/ \E t \in Thread : Signal(t)
  PROVE  IInv' /\ [Fifo!Next]_Fifo!vars
<1>1. UNCHANGED <<alive, front, rear, data, local, history>>
  BY DEF SpuriousWakeup, Signal
<1>2. RingOK' /\ EmptyInv' /\ OwnInv' /\ UNCHANGED Fifo!vars
  BY <1>1, RingUnchanged DEF local
<1>3. CASE SpuriousWakeup
  <2>1. LocalOK' /\ RearInv'
    BY <1>1, <1>3 DEF SpuriousWakeup, local, history, IInv, LocalOK, RearInv, After
  <2> QED BY <1>2, <2>1 DEF IInv
<1>4. ASSUME NEW t \in Thread, Signal(t) PROVE IInv'
  <2>1. LocalOK' /\ RearInv'
    BY <1>1, <1>4, MoveStep DEF Signal, IInv, history
  <2> QED BY <1>2, <2>1 DEF IInv
<1> QED BY <1>2, <1>3, <1>4

\* Creating and destroying the queue.
LEMMA CreateStep ==
  ASSUME QueueAssumption, IInv, Create
  PROVE  IInv' /\ [Fifo!Next]_Fifo!vars
<1>1. /\ ~alive /\ alive' = TRUE /\ front' = 0 /\ rear' = 0
      /\ data' = [i \in Cursor |-> Garbage]
      /\ \A t \in Thread : pc[t] = "idle"
      /\ UNCHANGED <<pc, w_cursor, message, next, accepted, popped, freed>>
  BY DEF Create, local, history
<1>2. 0 \in Cursor /\ data' \in [Cursor -> Word]
  BY <1>1 DEF QueueAssumption, Cursor, Word
<1>3. Content = <<>> /\ Content' = <<>>
  BY <1>1, <1>2, ContentSteps DEF IInv, EmptyInv, RingOK
<1>4. RingOK' /\ EmptyInv' /\ LocalOK' /\ RearInv'
  BY <1>1, <1>2 DEF IInv, RingOK, EmptyInv, LocalOK, RearInv, Thread
<1>5. OwnInv'
  BY <1>1, <1>3 DEF IInv, OwnInv, NothingLost, OneOwner
<1>6. Fifo!Create
  BY <1>1, <1>3 DEF Fifo!Create
<1> QED BY <1>4, <1>5, <1>6 DEF IInv, Fifo!Next

LEMMA DestroyStep ==
  ASSUME QueueAssumption, IInv, Destroy
  PROVE  IInv' /\ [Fifo!Next]_Fifo!vars
<1>1. /\ alive /\ alive' = FALSE /\ front' = rear /\ freed' = freed \cup ToSet(Content)
      /\ UNCHANGED <<rear, data, pc, w_cursor, message, next, accepted, popped>>
  BY DEF Destroy, local
<1>2. Content' = <<>>
  BY <1>1, ContentSteps DEF IInv, RingOK
<1>3. RingOK' /\ EmptyInv' /\ LocalOK' /\ RearInv'
  BY <1>1 DEF IInv, RingOK, EmptyInv, LocalOK, RearInv, After
<1>4. OwnInv'
  BY <1>1, <1>2, NoneOwned DEF IInv, OwnInv, NothingLost, OneOwner
<1>5. Fifo!Discard
  BY <1>1, <1>2 DEF Fifo!Discard
<1> QED BY <1>3, <1>4, <1>5 DEF IInv, Fifo!Next

\* Every step keeps the invariant, and is a step of the FIFO or none.
LEMMA NextIInv ==
  ASSUME QueueAssumption
  PROVE  IInv /\ [Next]_vars => IInv' /\ [Fifo!Next]_Fifo!vars
<1> SUFFICES ASSUME IInv, [Next]_vars PROVE IInv' /\ [Fifo!Next]_Fifo!vars
  OBVIOUS
<1>1. CASE Next
  BY <1>1, PushStep, PushAgainStep, PopStep, WakeStep, CreateStep, DestroyStep DEF Next
<1>2. CASE UNCHANGED vars
  <2>1. RingOK' /\ EmptyInv' /\ OwnInv' /\ UNCHANGED Fifo!vars
    BY <1>2, RingUnchanged DEF vars, local
  <2>2. LocalOK' /\ RearInv'
    BY <1>2 DEF vars, local, history, IInv, LocalOK, RearInv, After
  <2> QED BY <2>1, <2>2 DEF IInv
<1> QED BY <1>1, <1>2

\* The invariant holds in every reachable state.
THEOREM Inductive ==
  ASSUME QueueAssumption
  PROVE  Spec => []IInv
<1>1. Init => IInv
  BY InitIInv
<1>2. IInv /\ [Next]_vars => IInv'
  BY NextIInv
<1> QED BY <1>1, <1>2, PTL DEF Spec

\* With one producer every message that was accepted is in the queue, popped or
\* freed, and in one of these places only (simple_queue.h:97 and
\* simple_queue.c:146-172).
THEOREM OwnersCorrect ==
  ASSUME QueueAssumption
  PROVE  Spec => [](NothingLost /\ OneOwner)
<1>1. IInv => NothingLost /\ OneOwner
  BY DEF IInv, OwnInv
<1> QED BY <1>1, Inductive, PTL

\* With one producer the ring implements a FIFO of one message less than it has
\* slots.
THEOREM QueueIsFifo ==
  ASSUME QueueAssumption
  PROVE  Spec => RefinesFifo
<1>1. Init => Fifo!Init
  BY DEF Init, Fifo!Init
<1>2. IInv /\ [Next]_vars => [Fifo!Next]_Fifo!vars
  BY NextIInv
<1> QED BY <1>1, <1>2, Inductive, PTL DEF Spec, RefinesFifo, Fifo!Spec

\* Where the threads are: only a thread that is blocked in push or pop waits.
WaitOK ==
  /\ \A p \in Producer : pc[p] \in {"idle", "full", "signal"}
  /\ \A c \in Consumer : pc[c] \in {"idle", "empty", "signal"}
  /\ waiting \subseteq Thread
  /\ \A t \in waiting : pc[t] \in {"full", "empty"}

LEMMA WaitNext ==
  ASSUME QueueAssumption, LocalOK, WaitOK, [Next]_vars
  PROVE  WaitOK'
<1> USE DEF WaitOK, LocalOK, QueueAssumption, Thread, Goto, local, history
<1>1. ASSUME NEW p \in Producer, Push(p) PROVE WaitOK'
  BY <1>1 DEF Push, Store
<1>2. ASSUME NEW p \in Producer, PushAgain(p) PROVE WaitOK'
  BY <1>2 DEF PushAgain, Store
<1>3. ASSUME NEW c \in Consumer, Pop(c) PROVE WaitOK'
  BY <1>3 DEF Pop, TakeOut
<1>4. ASSUME NEW c \in Consumer, PopAgain(c) PROVE WaitOK'
  BY <1>4 DEF PopAgain, TakeOut
<1>5. ASSUME NEW t \in Thread, Signal(t) PROVE WaitOK'
  BY <1>5 DEF Signal
<1>6. CASE SpuriousWakeup
  BY <1>6 DEF SpuriousWakeup
<1>7. CASE Create \/ Destroy
  BY <1>7 DEF Create, Destroy
<1>8. CASE UNCHANGED vars
  BY <1>8 DEF vars
<1> QED BY <1>1, <1>2, <1>3, <1>4, <1>5, <1>6, <1>7, <1>8 DEF Next

\* The types of the queue and of its callers' locals (simple_queue.c:29-60).
THEOREM TypeCorrect ==
  ASSUME QueueAssumption
  PROVE  Spec => []TypeOK
<1> DEFINE AliveOK == alive \in BOOLEAN
<1>1. Init => WaitOK /\ AliveOK
  <2>1. Init => WaitOK
    BY DEF Init, WaitOK, Thread
  <2>2. Init => AliveOK
    BY Zenon DEF Init
  <2> QED BY <2>1, <2>2
<1>2. IInv /\ WaitOK /\ [Next]_vars => WaitOK'
  BY WaitNext DEF IInv
<1>3. AliveOK /\ [Next]_vars => AliveOK'
  BY Zenon DEF Next, Create, Destroy, SpuriousWakeup, Push, PushAgain, Pop, PopAgain,
               Signal, vars
<1>4. IInv /\ WaitOK /\ AliveOK => TypeOK
  <2> SUFFICES ASSUME IInv, WaitOK, alive \in BOOLEAN PROVE TypeOK
    OBVIOUS
  <2>1. accepted \cup freed \subseteq Message
    <3>1. /\ accepted \subseteq 1 .. next - 1 /\ freed \subseteq accepted
          /\ next \in 1 .. MaxMessage + 1 /\ MaxMessage \in Nat
      BY DEF IInv, LocalOK, OwnInv, OneOwner, QueueAssumption
    <3>2. 1 .. next - 1 \subseteq Message
      BY <3>1 DEF Message
    <3> QED BY <3>1, <3>2
  <2> QED BY <2>1, Zenon DEF IInv, RingOK, LocalOK, WaitOK, TypeOK, Word
<1> HIDE DEF AliveOK
<1> QED BY <1>1, <1>2, <1>3, <1>4, Inductive, PTL DEF Spec
=============================================================================
