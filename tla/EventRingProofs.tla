-------------------------- MODULE EventRingProofs --------------------------
(***************************************************************************)
(* What holds of EventRing for any number of threads, any ring size and    *)
(* any number of hits.                                                     *)
(***************************************************************************)
EXTENDS EventRing, TLAPS, SequenceTheorems

-----------------------------------------------------------------------------
(* The inductive invariant *)

(* The positions between the two ends of the ring, never more than fit. *)
Window == consumer_pos .. producer_pos - 1
WindowOK ==
    /\ consumer_pos <= producer_pos /\ producer_pos <= consumer_pos + Capacity
    /\ producer_pos = Len(order)

(* A thread that writes holds a position of the window for its own hit,     *)
(* marked busy, and no two threads hold the same one.                       *)
WritersOK ==
    /\ \A t \in Writing : /\ slot[t] \in Window
                          /\ mem[Slot(slot[t])].busy
                          /\ order[slot[t] + 1] = Hit(t)
                          /\ thr[t] = "filled" => mem[Slot(slot[t])].ev = Hit(t)
    /\ \A t, u \in Writing : t # u => slot[t] # slot[u]

(* Whatever is in the window and not busy is the record accepted there.     *)
ContentsOK ==
    \A p \in Window : ~mem[Slot(p)].busy => mem[Slot(p)].ev = order[p + 1]

(* The consumer's locals: it is at the first record of the window, or one   *)
(* past it between the callback and the store.                              *)
ConsumerOK ==
    /\ cpc \in {"load", "scan", "callback"} => cons = consumer_pos
    /\ cpc = "store" => cons = consumer_pos + 1
    /\ cpc \in {"scan", "callback", "store"} => prod <= producer_pos
    /\ cpc = "callback" => cons < prod
    /\ cpc = "store" => cons <= prod
    /\ cpc \in {"callback", "store"} => ~mem[Slot(consumer_pos)].busy
    /\ Len(delivered) = consumer_pos + (IF cpc = "store" THEN 1 ELSE 0)

(* While the loop consumes, the ring stays on the ready list. *)
ListedOK == cpc \in Consuming => ready

RingInv == /\ TypeOK /\ WindowOK /\ WritersOK /\ ContentsOK /\ ConsumerOK
           /\ ListedOK /\ NoLostWakeup

-----------------------------------------------------------------------------
(* Positions and slots *)

(* Division with remainder. *)
LEMMA Division ==
    ASSUME NEW C \in Nat \ {0}, NEW a \in Nat
    PROVE  /\ a % C \in 0 .. C - 1 /\ a \div C \in Nat
           /\ a = C * (a \div C) + (a % C)
OBVIOUS

(* Two numbers less than a lap of C apart have different remainders. *)
LEMMA RemaindersApart ==
    ASSUME NEW C \in Nat \ {0}, NEW a \in Nat, NEW b \in Nat, a < b, b < a + C
    PROVE  a % C # b % C
<1>1. SUFFICES ASSUME a % C = b % C PROVE FALSE
  OBVIOUS
<1>2. PICK p \in Nat, q \in Nat, r \in 0 .. C - 1 : a = C * p + r /\ b = C * q + r
  <2>1. /\ a \div C \in Nat /\ b \div C \in Nat
        /\ a % C \in 0 .. C - 1
        /\ a = C * (a \div C) + (a % C)
        /\ b = C * (b \div C) + (b % C)
    BY Division
  <2> QED BY <1>1, <2>1
<1>3. ASSUME NEW x \in Nat, NEW y \in Nat, x <= y PROVE C * x <= C * y
  <2>1. PICK d \in Nat : y = x + d
    <3>1. y - x \in Nat /\ y = x + (y - x)
      BY <1>3
    <3> QED BY <3>1
  <2>2. C * y = C * x + C * d /\ C * d \in Nat /\ C * x \in Nat
    BY <2>1
  <2> QED BY <2>2
<1>4. C * p \in Nat /\ C * q \in Nat
  OBVIOUS
<1>5. ~(q <= p)
  BY <1>2, <1>3, <1>4
<1>6. C * (p + 1) <= C * q
  BY <1>3, <1>5
<1>7. C * (p + 1) = C * p + C
  OBVIOUS
<1> QED BY <1>2, <1>4, <1>6, <1>7

(* Two positions less than a lap apart lie in different slots. *)
LEMMA SlotsApart ==
    ASSUME NEW a \in Nat, NEW b \in Nat, a < b, b < a + Capacity
    PROVE  Slot(a) # Slot(b)
BY RemaindersApart, RingAssumption DEF Slot

(* What the slots stand for: in a ring of M bytes, whether or not M is a    *)
(* multiple of the R bytes of a record, two records less than Capacity      *)
(* apart have no byte in common.                                            *)
LEMMA BytesApart ==
    ASSUME NEW R \in Nat \ {0}, NEW M \in Nat, R * Capacity <= M,
           NEW a \in Nat, NEW b \in Nat, a < b, b < a + Capacity,
           NEW i \in 0 .. R - 1, NEW j \in 0 .. R - 1
    PROVE  (R * a + i) % M # (R * b + j) % M
<1> DEFINE d == b - (a + 1)
           e == Capacity - (d + 2)
<1>1. /\ Capacity \in Nat \ {0} /\ d \in Nat /\ b = a + 1 + d
      /\ e \in Nat /\ Capacity = d + 2 + e
  BY RingAssumption
<1> HIDE DEF d, e
<1>2. /\ R * b = R * a + R + R * d /\ R * d \in Nat /\ R * a \in Nat
      /\ R * Capacity = R * d + (R + R) + R * e /\ R * e \in Nat
  BY <1>1
<1>3. M \in Nat \ {0}
  BY <1>1, <1>2
<1> DEFINE x == R * a
           y == R * d
           z == R * e
<1>4. /\ x \in Nat /\ y \in Nat /\ z \in Nat /\ R * b = x + R + y
      /\ y + (R + R) + z <= M
  BY <1>2
<1> HIDE DEF x, y, z
<1> DEFINE u == x + i
           v == x + R + y + j
<1>5. u \in Nat /\ v \in Nat /\ u < v /\ v < u + M
  BY <1>3, <1>4
<1> HIDE DEF u, v
<1>6. u % M # v % M
  BY <1>3, <1>5, RemaindersApart
<1>7. R * a + i = u /\ R * b + j = v
  BY <1>4 DEF x, u, v
<1> QED BY <1>6, <1>7

(* So the positions of the window have a slot each. *)
LEMMA WindowSlots ==
    ASSUME TypeOK, WindowOK
    PROVE  /\ \A p \in Nat : Slot(p) \in 0 .. Capacity - 1
           /\ \A p, q \in Window : p # q => Slot(p) # Slot(q)
           /\ Window \subseteq Nat
<1>1. \A p \in Nat : Slot(p) \in 0 .. Capacity - 1
  BY Division, RingAssumption DEF Slot
<1>2. consumer_pos \in Nat /\ producer_pos \in Nat /\ Capacity \in Nat
  BY RingAssumption DEF TypeOK
<1>3. ASSUME NEW p \in Window, NEW q \in Window, p # q PROVE Slot(p) # Slot(q)
  <2>1. /\ p \in Nat /\ q \in Nat /\ p < q + Capacity /\ q < p + Capacity
        /\ p < q \/ q < p
    BY <1>2, <1>3 DEF Window, WindowOK
  <2> QED BY <2>1, SlotsApart
<1>4. Window \subseteq Nat
  BY <1>2 DEF Window
<1> QED BY <1>1, <1>3, <1>4

(* What a write to one slot does to the ring's memory. *)
LEMMA SlotWrites ==
    ASSUME TypeOK, NEW s \in 0 .. Capacity - 1, NEW b \in BOOLEAN,
           NEW e \in Hits \cup {NoHit},
           \/ mem' = [mem EXCEPT ![s].busy = b] /\ e = mem[s].ev
           \/ mem' = [mem EXCEPT ![s].ev = e] /\ b = mem[s].busy
    PROVE  /\ mem' \in [0 .. Capacity - 1 -> [ev : Hits \cup {NoHit}, busy : BOOLEAN]]
           /\ mem'[s].busy = b /\ mem'[s].ev = e
           /\ \A r \in 0 .. Capacity - 1 : r # s => mem'[r] = mem[r]
<1> DEFINE R == [ev : Hits \cup {NoHit}, busy : BOOLEAN]
           x == [ev |-> e, busy |-> b]
<1>1. mem \in [0 .. Capacity - 1 -> R] /\ mem[s] \in R
  BY DEF TypeOK
<1>2. mem[s] = [ev |-> mem[s].ev, busy |-> mem[s].busy]
  BY <1>1
<1>3. mem' = [mem EXCEPT ![s] = x]
  BY <1>1, <1>2
<1>4. x \in R /\ x.busy = b /\ x.ev = e
  OBVIOUS
<1> HIDE DEF x, R
<1>5. /\ mem' \in [0 .. Capacity - 1 -> R] /\ mem'[s] = x
      /\ \A r \in 0 .. Capacity - 1 : r # s => mem'[r] = mem[r]
  BY <1>1, <1>3, <1>4
<1> QED BY <1>4, <1>5 DEF R

-----------------------------------------------------------------------------
(* The steps of a thread *)

(* A fresh ring satisfies the invariant. *)
LEMMA RingInit == Init => RingInv
<1> SUFFICES ASSUME Init PROVE RingInv
  OBVIOUS
<1>1. TypeOK
  <2>1. order \in Seq(Hits) /\ delivered \in Seq(Hits)
    BY EmptySeq DEF Init
  <2>2. mem \in [0 .. Capacity - 1 -> [ev : Hits \cup {NoHit}, busy : BOOLEAN]]
    BY DEF Init
  <2>3. /\ thr \in [Threads -> {"user", "reserved", "filled", "committed"}]
        /\ slot \in [Threads -> Nat] /\ issued \in [Threads -> 0 .. MaxHits]
    BY RingAssumption DEF Init
  <2> QED BY <2>1, <2>2, <2>3 DEF Init, TypeOK
<1>2. WindowOK /\ WritersOK /\ ContentsOK /\ ConsumerOK
  BY RingAssumption DEF Init, WindowOK, WritersOK, Writing, ContentsOK, Window,
     ConsumerOK
<1>3. ListedOK /\ NoLostWakeup
  BY DEF Init, ListedOK, Consuming, NoLostWakeup
<1> QED BY <1>1, <1>2, <1>3 DEF RingInv

(* A hit that is dropped touches nothing but the count of its thread, which *)
(* is not writing.                                                          *)
LEMMA ReserveFailsInv ==
    ASSUME RingInv, NEW t \in Threads, ReserveFails(t)
    PROVE  RingInv'
<1> USE DEF RingInv
<1>1. /\ UNCHANGED <<mem, producer_pos, consumer_pos, thr, slot, irq, ready,
                     cpc, cons, prod, got, cnt, order, delivered>>
      /\ issued' = [issued EXCEPT ![t] = @ + 1] /\ thr[t] = "user"
      /\ issued[t] < MaxHits
      /\ dropped' = dropped \cup {[thread |-> t, n |-> issued[t] + 1]}
  BY DEF ReserveFails, shared, consumer
<1>2. TypeOK'
  <2>1. issued[t] \in 0 .. MaxHits /\ issued[t] + 1 \in 1 .. MaxHits
    BY <1>1, RingAssumption DEF TypeOK
  <2>2. [thread |-> t, n |-> issued[t] + 1] \in Hits
    BY <2>1 DEF Hits
  <2>3. issued' \in [Threads -> 0 .. MaxHits] /\ dropped' \in SUBSET Hits
    BY <1>1, <2>1, <2>2 DEF TypeOK
  <2> HIDE DEF Hits
  <2> QED BY <1>1, <2>3 DEF TypeOK
<1>3. WindowOK' /\ ContentsOK' /\ ConsumerOK' /\ ListedOK' /\ NoLostWakeup'
  BY <1>1 DEF WindowOK, ContentsOK, Window, ConsumerOK, ListedOK, NoLostWakeup,
     Avail, Busy
<1>4. WritersOK'
  <2>1. Writing' = Writing /\ \A u \in Writing : Hit(u)' = Hit(u)
    BY <1>1 DEF Writing, Hit, TypeOK
  <2> QED BY <1>1, <2>1 DEF WritersOK, Window
<1> QED BY <1>2, <1>3, <1>4

(* The position a thread reserves is in no other thread's hands, and its    *)
(* slot not that of any record still in the window.                         *)
LEMMA ReserveInv ==
    ASSUME RingInv, NEW t \in Threads, Reserve(t)
    PROVE  RingInv'
<1> USE DEF RingInv
<1> DEFINE s == Slot(producer_pos)
           e == [thread |-> t, n |-> issued[t] + 1]
<1>1. /\ thr[t] = "user" /\ issued[t] < MaxHits
      /\ producer_pos - consumer_pos < Capacity
      /\ issued' = [issued EXCEPT ![t] = @ + 1]
      /\ mem' = [mem EXCEPT ![s].busy = TRUE]
      /\ producer_pos' = producer_pos + 1
      /\ slot' = [slot EXCEPT ![t] = producer_pos]
      /\ thr' = [thr EXCEPT ![t] = "reserved"]
      /\ order' = Append(order, e)
      /\ UNCHANGED <<consumer_pos, irq, ready, cpc, cons, prod, got, cnt,
                     delivered, dropped>>
  BY DEF Reserve, consumer
<1>2. /\ producer_pos \in Nat /\ consumer_pos \in Nat /\ Capacity \in Nat
      /\ consumer_pos <= producer_pos /\ producer_pos = Len(order)
      /\ order \in Seq(Hits)
  BY RingAssumption DEF TypeOK, WindowOK
<1>3. issued[t] + 1 \in 1 .. MaxHits /\ e \in Hits
  <2>1. issued[t] + 1 \in 1 .. MaxHits
    BY <1>1, RingAssumption DEF TypeOK
  <2> QED BY <2>1 DEF Hits
<1>4. s \in 0 .. Capacity - 1
  BY <1>2, WindowSlots
<1>5. /\ mem' \in [0 .. Capacity - 1 -> [ev : Hits \cup {NoHit}, busy : BOOLEAN]]
      /\ mem'[s].busy
      /\ \A r \in 0 .. Capacity - 1 : r # s => mem'[r] = mem[r]
  <2>1. mem[s].ev \in Hits \cup {NoHit}
    BY <1>4 DEF TypeOK
  <2> HIDE DEF s, Hits
  <2> QED BY <1>1, <1>4, <2>1, SlotWrites
<1> HIDE DEF s, e, Hits
<1>6. /\ order' \in Seq(Hits) /\ Len(order') = Len(order) + 1
      /\ order'[producer_pos + 1] = e
      /\ \A p \in 0 .. producer_pos - 1 : order'[p + 1] = order[p + 1]
  BY <1>1, <1>2, <1>3
<1>7. /\ WindowOK' /\ producer_pos \in Window'
      /\ Window' = Window \cup {producer_pos} /\ Window \subseteq 0 .. producer_pos - 1
  BY <1>1, <1>2, <1>6 DEF WindowOK, Window
<1>8. \A p \in Window : mem'[Slot(p)] = mem[Slot(p)]
  <2>1. \A p \in Window : Slot(p) # s
    BY <1>1, <1>2, SlotsApart DEF Window, s
  <2> QED BY <1>5, <2>1, WindowSlots
<1>9. TypeOK'
  <2>1. issued' \in [Threads -> 0 .. MaxHits]
    BY <1>1, <1>3, RingAssumption DEF TypeOK
  <2>2. slot' \in [Threads -> Nat] /\ producer_pos' \in Nat
    BY <1>1, <1>2 DEF TypeOK
  <2>3. thr' \in [Threads -> {"user", "reserved", "filled", "committed"}]
    BY <1>1 DEF TypeOK
  <2> QED BY <1>1, <1>5, <1>6, <2>1, <2>2, <2>3 DEF TypeOK
<1>10. WritersOK'
  <2>1. /\ Writing' = Writing \cup {t} /\ t \notin Writing
        /\ \A u \in Writing : Hit(u)' = Hit(u) /\ slot'[u] = slot[u] /\ thr'[u] = thr[u]
        /\ Hit(t)' = e /\ slot'[t] = producer_pos /\ thr'[t] = "reserved"
    BY <1>1 DEF Writing, Hit, TypeOK, e
  <2>2. \A u \in Writing : slot[u] \in Window
    BY DEF WritersOK
  <2>3. ASSUME NEW u \in Writing'
        PROVE  /\ slot'[u] \in Window' /\ mem'[Slot(slot'[u])].busy
               /\ order'[slot'[u] + 1] = Hit(u)'
               /\ thr'[u] = "filled" => mem'[Slot(slot'[u])].ev = Hit(u)'
    <3>1. CASE u = t
      BY <1>5, <1>6, <1>7, <2>1, <3>1 DEF s
    <3>2. CASE u # t
      <4>1. u \in Writing /\ slot[u] \in Window
        BY <2>1, <2>2, <3>2
      <4>2. /\ slot'[u] = slot[u] /\ Hit(u)' = Hit(u) /\ thr'[u] = thr[u]
            /\ mem'[Slot(slot[u])] = mem[Slot(slot[u])]
            /\ order'[slot[u] + 1] = order[slot[u] + 1]
        BY <1>6, <1>7, <1>8, <2>1, <4>1
      <4> HIDE DEF Window
      <4> QED BY <1>7, <4>1, <4>2 DEF WritersOK
    <3> QED BY <3>1, <3>2
  <2>4. \A u, v \in Writing' : u # v => slot'[u] # slot'[v]
    <3>1. producer_pos \notin Window
      BY <1>2 DEF Window
    <3> QED BY <2>1, <2>2, <3>1 DEF WritersOK
  <2> QED BY <2>3, <2>4 DEF WritersOK
<1>11. ContentsOK'
  BY <1>5, <1>6, <1>7, <1>8 DEF ContentsOK, s
<1>12. ConsumerOK'
  <2>1. cpc \in {"callback", "store"} => consumer_pos \in Window
    BY <1>2 DEF ConsumerOK, Window, TypeOK
  <2>2. prod <= producer_pos => prod <= producer_pos + 1
    BY <1>2 DEF TypeOK
  <2> QED BY <1>1, <1>8, <2>1, <2>2 DEF ConsumerOK
<1>13. ListedOK'
  BY <1>1 DEF ListedOK
<1>14. NoLostWakeup'
  <2>1. CASE consumer_pos = producer_pos
    BY <1>1, <1>5, <2>1 DEF NoLostWakeup, Busy, s
  <2>2. CASE consumer_pos # producer_pos
    <3>1. consumer_pos \in Window
      BY <1>2, <2>2 DEF Window
    <3>2. \A u \in Threads : thr[u] = "committed" =>
             thr'[u] = "committed" /\ slot'[u] = slot[u]
      BY <1>1 DEF TypeOK
    <3> QED BY <1>1, <1>8, <2>2, <3>1, <3>2 DEF NoLostWakeup, Busy, Avail
  <2> QED BY <2>1, <2>2
<1> QED BY <1>7, <1>9, <1>10, <1>11, <1>12, <1>13, <1>14

(* A thread that writes, and only its slot: what the others hold and the    *)
(* record the consumer is at stay as they are.                              *)
LEMMA OtherSlots ==
    ASSUME RingInv, NEW t \in Writing
    PROVE  /\ slot[t] \in Window /\ Slot(slot[t]) \in 0 .. Capacity - 1
           /\ \A p \in Window : p # slot[t] => Slot(p) # Slot(slot[t])
           /\ \A p \in Window : Slot(p) \in 0 .. Capacity - 1
           /\ \A u \in Writing : u # t => slot[u] # slot[t]
           /\ cpc \in {"callback", "store"} =>
                 consumer_pos \in Window /\ consumer_pos # slot[t]
           /\ Hit(t) \in Hits
<1> USE DEF RingInv
<1>1. slot[t] \in Window
  BY DEF WritersOK
<1>2. cpc \in {"callback", "store"} =>
         consumer_pos \in Window /\ consumer_pos # slot[t]
  <2>1. cpc \in {"callback", "store"} => consumer_pos \in Window
    BY DEF ConsumerOK, Window, TypeOK
  <2>2. cpc \in {"callback", "store"} => consumer_pos # slot[t]
    BY DEF ConsumerOK, WritersOK
  <2> QED BY <2>1, <2>2
<1>3. Hit(t) \in Hits
  <2>1. /\ order \in Seq(Hits) /\ producer_pos = Len(order)
        /\ consumer_pos \in Nat /\ producer_pos \in Nat
    BY DEF TypeOK, WindowOK
  <2>2. slot[t] + 1 \in 1 .. Len(order)
    BY <1>1, <2>1 DEF Window
  <2>3. order[slot[t] + 1] = Hit(t)
    BY DEF WritersOK
  <2> HIDE DEF Hits
  <2> QED BY <2>1, <2>2, <2>3
<1> QED BY <1>1, <1>2, <1>3, WindowSlots DEF WritersOK

(* Filling the record of a busy slot. *)
LEMMA FillInv ==
    ASSUME RingInv, NEW t \in Threads, Fill(t)
    PROVE  RingInv'
<1> USE DEF RingInv
<1> DEFINE s == Slot(slot[t])
<1>1. /\ thr[t] = "reserved" /\ mem' = [mem EXCEPT ![s].ev = Hit(t)]
      /\ thr' = [thr EXCEPT ![t] = "filled"]
      /\ UNCHANGED <<producer_pos, consumer_pos, slot, issued, irq, ready,
                     cpc, cons, prod, got, cnt, order, delivered, dropped>>
  BY DEF Fill, consumer, history
<1>2. t \in Writing
  BY <1>1 DEF Writing
<1>3. /\ slot[t] \in Window /\ s \in 0 .. Capacity - 1
      /\ \A p \in Window : p # slot[t] => Slot(p) # s
      /\ \A p \in Window : Slot(p) \in 0 .. Capacity - 1
      /\ \A u \in Writing : u # t => slot[u] # slot[t]
      /\ Hit(t) \in Hits
  BY <1>2, OtherSlots
<1>4. mem[s].busy
  BY <1>2 DEF WritersOK
<1>5. /\ mem' \in [0 .. Capacity - 1 -> [ev : Hits \cup {NoHit}, busy : BOOLEAN]]
      /\ mem'[s].busy = mem[s].busy /\ mem'[s].ev = Hit(t)
      /\ \A r \in 0 .. Capacity - 1 : r # s => mem'[r] = mem[r]
  <2>1. mem[s].busy \in BOOLEAN
    BY <1>3 DEF TypeOK
  <2> HIDE DEF s, Hits
  <2> QED BY <1>1, <1>3, <2>1, SlotWrites
<1> HIDE DEF s, Hits
<1>6. TypeOK'
  <2>1. thr' \in [Threads -> {"user", "reserved", "filled", "committed"}]
    BY <1>1 DEF TypeOK
  <2> QED BY <1>1, <1>5, <2>1 DEF TypeOK
<1>7. WindowOK' /\ ListedOK' /\ Window' = Window
  BY <1>1 DEF WindowOK, ListedOK, Window
<1>8. WritersOK'
  <2>1. /\ Writing' = Writing
        /\ \A u \in Threads : Hit(u)' = Hit(u)
        /\ \A u \in Threads : u # t => thr'[u] = thr[u]
    BY <1>1 DEF Writing, Hit, TypeOK
  <2>2. ASSUME NEW u \in Writing
        PROVE  /\ mem'[Slot(slot[u])].busy
               /\ thr'[u] = "filled" => mem'[Slot(slot[u])].ev = Hit(u)
    <3>1. CASE u = t
      BY <1>4, <1>5, <3>1 DEF s
    <3>2. CASE u # t
      <4>1. slot[u] \in Window /\ slot[u] # slot[t]
        BY <1>3, <3>2 DEF WritersOK
      <4>2. mem'[Slot(slot[u])] = mem[Slot(slot[u])]
        BY <1>3, <1>5, <4>1
      <4> QED BY <2>1, <3>2, <4>2 DEF WritersOK, Writing
    <3> QED BY <3>1, <3>2
  <2>3. \A u \in Writing : u \in Threads
    BY DEF Writing
  <2> QED BY <1>1, <1>7, <2>1, <2>2, <2>3 DEF WritersOK
<1>9. \A p \in Window : p # slot[t] => mem'[Slot(p)] = mem[Slot(p)]
  BY <1>3, <1>5
<1>10. ContentsOK'
  <2>1. ASSUME NEW p \in Window, ~mem'[Slot(p)].busy
        PROVE  mem'[Slot(p)].ev = order[p + 1]
    <3>1. p # slot[t]
      BY <1>4, <1>5, <2>1 DEF s
    <3> QED BY <1>9, <2>1, <3>1 DEF ContentsOK
  <2> QED BY <1>1, <1>7, <2>1 DEF ContentsOK
<1>11. ConsumerOK'
  <2>1. cpc \in {"callback", "store"} =>
           mem'[Slot(consumer_pos)] = mem[Slot(consumer_pos)]
    BY <1>2, <1>9, OtherSlots
  <2> QED BY <1>1, <2>1 DEF ConsumerOK
<1>12. NoLostWakeup'
  <2>1. ASSUME Avail, ~mem'[Slot(consumer_pos)].busy
        PROVE  ~mem[Slot(consumer_pos)].busy
    <3>1. consumer_pos \in Window
      BY <2>1 DEF Avail, Window, WindowOK, TypeOK
    <3>2. consumer_pos # slot[t]
      BY <1>4, <1>5, <2>1 DEF s
    <3> QED BY <1>9, <2>1, <3>1, <3>2
  <2>2. \A u \in Threads : thr[u] = "committed" => thr'[u] = "committed"
    BY <1>1 DEF TypeOK
  <2> QED BY <1>1, <2>1, <2>2 DEF NoLostWakeup, Avail, Busy
<1> QED BY <1>6, <1>7, <1>8, <1>10, <1>11, <1>12

(* Clearing the busy bit: the record is whole, and if the consumer waits    *)
(* for it, the thread has yet to look at consumer_pos.                      *)
LEMMA SubmitInv ==
    ASSUME RingInv, NEW t \in Threads, Submit(t)
    PROVE  RingInv'
<1> USE DEF RingInv
<1> DEFINE s == Slot(slot[t])
<1>1. /\ thr[t] = "filled" /\ mem' = [mem EXCEPT ![s].busy = FALSE]
      /\ thr' = [thr EXCEPT ![t] = "committed"]
      /\ UNCHANGED <<producer_pos, consumer_pos, slot, issued, irq, ready,
                     cpc, cons, prod, got, cnt, order, delivered, dropped>>
  BY DEF Submit, consumer, history
<1>2. t \in Writing
  BY <1>1 DEF Writing
<1>3. /\ slot[t] \in Window /\ s \in 0 .. Capacity - 1
      /\ \A p \in Window : p # slot[t] => Slot(p) # s
      /\ \A p \in Window : Slot(p) \in 0 .. Capacity - 1
      /\ \A u \in Writing : u # t => slot[u] # slot[t]
  BY <1>2, OtherSlots
<1>4. mem[s].ev = Hit(t) /\ order[slot[t] + 1] = Hit(t)
  BY <1>1, <1>2 DEF WritersOK
<1>5. /\ mem' \in [0 .. Capacity - 1 -> [ev : Hits \cup {NoHit}, busy : BOOLEAN]]
      /\ mem'[s].busy = FALSE /\ mem'[s].ev = mem[s].ev
      /\ \A r \in 0 .. Capacity - 1 : r # s => mem'[r] = mem[r]
  <2>1. mem[s].ev \in Hits \cup {NoHit}
    BY <1>3 DEF TypeOK
  <2> HIDE DEF s, Hits
  <2> QED BY <1>1, <1>3, <2>1, SlotWrites
<1> HIDE DEF s, Hits
<1>6. TypeOK'
  <2>1. thr' \in [Threads -> {"user", "reserved", "filled", "committed"}]
    BY <1>1 DEF TypeOK
  <2> QED BY <1>1, <1>5, <2>1 DEF TypeOK
<1>7. WindowOK' /\ ListedOK' /\ Window' = Window
  BY <1>1 DEF WindowOK, ListedOK, Window
<1>8. \A p \in Window : p # slot[t] => mem'[Slot(p)] = mem[Slot(p)]
  BY <1>3, <1>5
<1>9. WritersOK'
  <2>1. /\ Writing' = Writing \ {t}
        /\ \A u \in Threads : Hit(u)' = Hit(u)
        /\ \A u \in Threads : u # t => thr'[u] = thr[u]
        /\ \A u \in Writing : u \in Threads
    BY <1>1 DEF Writing, Hit, TypeOK
  <2>2. ASSUME NEW u \in Writing, u # t
        PROVE  mem'[Slot(slot[u])] = mem[Slot(slot[u])]
    <3>1. slot[u] \in Window /\ slot[u] # slot[t]
      BY <1>3, <2>2 DEF WritersOK
    <3> QED BY <1>8, <3>1
  <2>3. ASSUME NEW u \in Writing'
        PROVE  /\ slot'[u] \in Window' /\ mem'[Slot(slot'[u])].busy
               /\ order'[slot'[u] + 1] = Hit(u)'
               /\ thr'[u] = "filled" => mem'[Slot(slot'[u])].ev = Hit(u)'
    <3>1. u \in Writing /\ u # t /\ Hit(u)' = Hit(u) /\ thr'[u] = thr[u]
      BY <2>1
    <3>2. mem'[Slot(slot[u])] = mem[Slot(slot[u])]
      BY <2>2, <3>1
    <3> HIDE DEF Window
    <3> QED BY <1>1, <1>7, <3>1, <3>2 DEF WritersOK
  <2>4. \A u, v \in Writing' : u # v => slot'[u] # slot'[v]
    BY <1>1, <2>1 DEF WritersOK
  <2> QED BY <2>3, <2>4 DEF WritersOK
<1>10. ContentsOK'
  <2>1. ASSUME NEW p \in Window, ~mem'[Slot(p)].busy
        PROVE  mem'[Slot(p)].ev = order[p + 1]
    <3>1. CASE p = slot[t]
      BY <1>4, <1>5, <3>1 DEF s
    <3>2. CASE p # slot[t]
      BY <1>8, <2>1, <3>2 DEF ContentsOK
    <3> QED BY <3>1, <3>2
  <2> QED BY <1>1, <1>7, <2>1 DEF ContentsOK
<1>11. ConsumerOK'
  <2>1. cpc \in {"callback", "store"} =>
           mem'[Slot(consumer_pos)] = mem[Slot(consumer_pos)]
    BY <1>2, <1>8, OtherSlots
  <2> QED BY <1>1, <2>1 DEF ConsumerOK
<1>12. NoLostWakeup'
  <2>1. CASE consumer_pos = slot[t]
    <3>1. thr'[t] = "committed" /\ slot'[t] = consumer_pos'
      BY <1>1, <2>1 DEF TypeOK
    <3> QED BY <3>1 DEF NoLostWakeup
  <2>2. CASE consumer_pos # slot[t]
    <3>1. Avail => mem'[Slot(consumer_pos)] = mem[Slot(consumer_pos)]
      <4>1. Avail => consumer_pos \in Window
        BY DEF Avail, Window, WindowOK, TypeOK
      <4> QED BY <1>8, <2>2, <4>1
    <3>2. \A u \in Threads : thr[u] = "committed" => thr'[u] = "committed"
      BY <1>1 DEF TypeOK
    <3> QED BY <1>1, <3>1, <3>2 DEF NoLostWakeup, Avail, Busy
  <2> QED BY <2>1, <2>2
<1> QED BY <1>6, <1>7, <1>9, <1>10, <1>11, <1>12

(* The wake-up test: a thread that committed the record the consumer waits  *)
(* for finds consumer_pos there and queues the wake-up.                     *)
LEMMA NotifyInv ==
    ASSUME RingInv, NEW t \in Threads, Notify(t)
    PROVE  RingInv'
<1> USE DEF RingInv
<1>1. /\ thr[t] = "committed" /\ thr' = [thr EXCEPT ![t] = "user"]
      /\ irq' = (irq \/ Slot(consumer_pos) = Slot(slot[t]))
      /\ UNCHANGED <<mem, producer_pos, consumer_pos, slot, issued, ready,
                     cpc, cons, prod, got, cnt, order, delivered, dropped>>
  BY DEF Notify, shared, consumer, history
<1>2. TypeOK'
  <2>1. thr' \in [Threads -> {"user", "reserved", "filled", "committed"}]
    BY <1>1 DEF TypeOK
  <2>2. irq' \in BOOLEAN
    BY <1>1, Zenon
  <2> HIDE DEF Hits
  <2> QED BY <1>1, <2>1, <2>2 DEF TypeOK
<1>3. WindowOK' /\ ContentsOK' /\ ConsumerOK' /\ ListedOK'
  BY <1>1 DEF WindowOK, ContentsOK, Window, ConsumerOK, ListedOK
<1>4. WritersOK'
  <2>1. /\ Writing' = Writing /\ t \notin Writing
        /\ \A u \in Writing : Hit(u)' = Hit(u) /\ thr'[u] = thr[u]
    BY <1>1 DEF Writing, Hit, TypeOK
  <2> QED BY <1>1, <2>1 DEF WritersOK, Window
<1>5. NoLostWakeup'
  <2>1. CASE slot[t] = consumer_pos
    BY <1>1, <2>1 DEF NoLostWakeup
  <2>2. CASE slot[t] # consumer_pos
    <3>1. \A u \in Threads : thr[u] = "committed" /\ slot[u] = consumer_pos =>
             thr'[u] = "committed"
      BY <1>1, <2>2 DEF TypeOK
    <3>2. irq => irq'
      BY <1>1
    <3> QED BY <1>1, <3>1, <3>2 DEF NoLostWakeup, Avail, Busy
  <2> QED BY <2>1, <2>2
<1> QED BY <1>2, <1>3, <1>4, <1>5

-----------------------------------------------------------------------------
(* The steps of the event loop *)

(* A step that leaves the ring and its threads alone. *)
LEMMA RingUntouched ==
    ASSUME RingInv,
           UNCHANGED <<mem, producer_pos, consumer_pos, thr, slot, issued,
                       order, dropped>>
    PROVE  /\ WindowOK' /\ WritersOK' /\ ContentsOK' /\ Window' = Window
           /\ irq' \in BOOLEAN /\ ready' \in BOOLEAN /\ got' \in BOOLEAN
              /\ cpc' \in Consuming \cup {"setup", "wait"}
              /\ cons' \in Nat /\ prod' \in Nat /\ cnt' \in Nat
              /\ delivered' \in Seq(Hits)
              => TypeOK'
<1>1. WindowOK' /\ ContentsOK' /\ Window' = Window
  BY DEF RingInv, WindowOK, ContentsOK, Window
<1>2. Writing' = Writing /\ \A u \in Threads : Hit(u)' = Hit(u)
  BY DEF Writing, Hit
<1>3. WritersOK'
  BY <1>1, <1>2 DEF RingInv, WritersOK, Writing
<1>4. ASSUME irq' \in BOOLEAN, ready' \in BOOLEAN, got' \in BOOLEAN,
             cpc' \in Consuming \cup {"setup", "wait"},
             cons' \in Nat, prod' \in Nat, cnt' \in Nat, delivered' \in Seq(Hits)
      PROVE  TypeOK'
  <2> HIDE DEF Hits
  <2> QED BY <1>4 DEF RingInv, TypeOK, Consuming
<1> QED BY <1>1, <1>3, <1>4

(* The wake-up, the registration, epoll_wait() and its timeout. *)
LEMMA WakeInv ==
    ASSUME RingInv, IrqWork \/ Register \/ EpollWait \/ EpollTimeout
    PROVE  RingInv'
<1> USE DEF RingInv
<1>1. UNCHANGED <<mem, producer_pos, consumer_pos, thr, slot, issued, cons, prod,
                  got, cnt, order, delivered, dropped>>
  BY DEF IrqWork, Register, EpollWait, EpollTimeout, vars, shared, producers,
         consumer, history
<1>2. irq' \in BOOLEAN /\ ready' \in BOOLEAN
  <2>1. irq \in BOOLEAN /\ ready \in BOOLEAN
    BY DEF TypeOK
  <2>2. UNCHANGED vars => UNCHANGED <<irq, ready>>
    BY DEF vars
  <2> QED BY <2>1, <2>2, Zenon
          DEF IrqWork, Register, EpollWait, EpollTimeout,
              StillListed, Avail
<1>3. \/ cpc' = cpc /\ (ready => ready') /\ (irq => irq' \/ ready' \/ cpc = "setup")
      \/ cpc' = "wait" /\ cpc \in {"setup", "wait"} /\ irq' = irq /\ ready' = Avail
      \/ cpc' = "consume" /\ cpc = "wait" /\ ready' = Avail /\ Avail
  BY DEF IrqWork, Register, EpollWait, EpollTimeout, vars, consumer,
         StillListed
<1>4. cpc' \in Consuming \cup {"setup", "wait"}
  BY <1>3 DEF TypeOK, Consuming
<1>5. TypeOK' /\ WindowOK' /\ WritersOK' /\ ContentsOK'
  <2>1. /\ cons' \in Nat /\ prod' \in Nat /\ cnt' \in Nat /\ got' \in BOOLEAN
        /\ delivered' \in Seq(Hits)
    BY <1>1 DEF TypeOK
  <2> HIDE DEF Hits
  <2> QED BY <1>1, <1>2, <1>4, <2>1, RingUntouched
<1>6. ConsumerOK'
  BY <1>1, <1>3 DEF ConsumerOK
<1>7. ListedOK' /\ NoLostWakeup'
  BY <1>1, <1>3 DEF ListedOK, Consuming, NoLostWakeup, Avail, Busy
<1> QED BY <1>5, <1>6, <1>7

(* ringbuf_process_ring up to the callback: only the locals change. *)
LEMMA ScanInv ==
    ASSUME RingInv, Consume \/ LoadProducer \/ ScanBusy \/ ScanRecord \/ ScanEnd
    PROVE  RingInv'
<1> USE DEF RingInv
<1>1. UNCHANGED <<mem, producer_pos, consumer_pos, thr, slot, issued, irq, ready,
                  order, delivered, dropped>>
  BY DEF Consume, LoadProducer, ScanBusy, ScanRecord, ScanEnd, shared, producers,
         history
<1>2. cpc \in Consuming /\ ready
  BY DEF Consume, LoadProducer, ScanBusy, ScanRecord, ScanEnd, Consuming, ListedOK
<1>3. /\ consumer_pos \in Nat /\ producer_pos \in Nat /\ cons \in Nat
      /\ prod \in Nat /\ cnt \in Nat /\ got \in BOOLEAN
  BY DEF TypeOK
<1>4. TypeOK' /\ WindowOK' /\ WritersOK' /\ ContentsOK'
  <2>1. /\ cons' \in Nat /\ prod' \in Nat /\ cnt' \in Nat
        /\ cpc' \in Consuming \cup {"setup", "wait"}
    BY <1>3 DEF Consume, LoadProducer, ScanBusy, ScanRecord, ScanEnd, Consuming
  <2>2. got' \in BOOLEAN
    <3>1. got' \in {got, TRUE, FALSE}
      BY DEF Consume, LoadProducer, ScanBusy, ScanRecord, ScanEnd
    <3> QED BY <1>3, <3>1, Zenon
  <2>3. delivered' \in Seq(Hits) /\ irq' \in BOOLEAN /\ ready' \in BOOLEAN
    BY <1>1 DEF TypeOK
  <2> HIDE DEF Hits
  <2> QED BY <1>1, <2>1, <2>2, <2>3, RingUntouched
<1>5. ConsumerOK'
  <2>1. CASE Consume
    BY <1>1, <2>1 DEF ConsumerOK, Consume
  <2>2. CASE LoadProducer
    BY <1>1, <1>3, <2>2 DEF ConsumerOK, LoadProducer
  <2>3. CASE ScanBusy
    BY <1>1, <2>3 DEF ConsumerOK, ScanBusy
  <2>4. CASE ScanRecord
    BY <1>1, <2>4 DEF ConsumerOK, ScanRecord, Busy
  <2>5. CASE ScanEnd
    BY <1>1, <2>5 DEF ConsumerOK, ScanEnd
  <2> QED BY <2>1, <2>2, <2>3, <2>4, <2>5
<1>6. ListedOK' /\ NoLostWakeup'
  BY <1>1, <1>2 DEF ListedOK, NoLostWakeup
<1> QED BY <1>4, <1>5, <1>6

(* The record under the callback is the next one that was accepted. *)
LEMMA CallbackRecord ==
    ASSUME RingInv, cpc = "callback"
    PROVE  /\ Len(delivered) = cons /\ cons < Len(order) /\ cons = consumer_pos
           /\ mem[Slot(cons)].ev = order[cons + 1] /\ order[cons + 1] \in Hits
<1> USE DEF RingInv
<1>1. /\ cons = consumer_pos /\ cons < prod /\ prod <= producer_pos
      /\ Len(delivered) = cons /\ ~mem[Slot(cons)].busy
      /\ cons \in Nat /\ prod \in Nat /\ producer_pos \in Nat
      /\ producer_pos = Len(order) /\ order \in Seq(Hits)
  BY DEF ConsumerOK, TypeOK, WindowOK
<1>2. cons \in Window /\ cons + 1 \in 1 .. Len(order)
  BY <1>1 DEF Window
<1>3. mem[Slot(cons)].ev = order[cons + 1]
  BY <1>1, <1>2 DEF ContentsOK
<1> HIDE DEF Hits
<1> QED BY <1>1, <1>2, <1>3

(* The callback delivers it. *)
LEMMA CallbackInv == ASSUME RingInv, Callback PROVE RingInv'
<1> USE DEF RingInv
<1>1. /\ cpc = "callback" /\ cpc' = "store" /\ cons' = cons + 1 /\ cnt' = cnt + 1
      /\ delivered' = Append(delivered, mem[Slot(cons)].ev)
      /\ UNCHANGED <<mem, producer_pos, consumer_pos, thr, slot, issued, irq,
                     ready, prod, got, order, dropped>>
  BY DEF Callback, shared, producers
<1>2. /\ Len(delivered) = cons /\ cons = consumer_pos
      /\ mem[Slot(cons)].ev \in Hits
  BY <1>1, CallbackRecord
<1>3. /\ cons \in Nat /\ prod \in Nat /\ cnt \in Nat /\ got \in BOOLEAN
      /\ irq \in BOOLEAN /\ ready \in BOOLEAN /\ delivered \in Seq(Hits)
  BY DEF TypeOK
<1> HIDE DEF Hits
<1>4. delivered' \in Seq(Hits) /\ Len(delivered') = Len(delivered) + 1
  BY <1>1, <1>2, <1>3
<1>5. TypeOK' /\ WindowOK' /\ WritersOK' /\ ContentsOK'
  <2>1. cons' \in Nat /\ cnt' \in Nat /\ cpc' \in Consuming \cup {"setup", "wait"}
    BY <1>1, <1>3 DEF Consuming
  <2> QED BY <1>1, <1>3, <1>4, <2>1, RingUntouched
<1>6. ConsumerOK'
  BY <1>1, <1>2, <1>3, <1>4 DEF ConsumerOK
<1>7. ListedOK' /\ NoLostWakeup'
  BY <1>1 DEF ListedOK, Consuming, NoLostWakeup
<1> QED BY <1>5, <1>6, <1>7

(* Releasing a record: no thread writes it, so the window shrinks by one    *)
(* position nobody holds.                                                   *)
LEMMA StoreInv == ASSUME RingInv, StoreConsumer PROVE RingInv'
<1> USE DEF RingInv
<1>1. /\ cpc = "store" /\ consumer_pos' = cons /\ cpc' \in {"wait", "scan"}
      /\ UNCHANGED <<mem, producer_pos, thr, slot, issued, irq, ready, cons, prod,
                     got, cnt, order, delivered, dropped>>
  BY DEF StoreConsumer, Handled, producers, history
<1>2. /\ cons = consumer_pos + 1 /\ cons <= prod /\ prod <= producer_pos
      /\ ~mem[Slot(consumer_pos)].busy /\ Len(delivered) = consumer_pos + 1
      /\ consumer_pos \in Nat /\ producer_pos \in Nat /\ cons \in Nat
      /\ prod \in Nat /\ Capacity \in Nat
  BY <1>1, RingAssumption DEF ConsumerOK, TypeOK
<1>3. TypeOK'
  <2> HIDE DEF Hits
  <2> QED BY <1>1, <1>2 DEF TypeOK
<1>4. WindowOK' /\ Window' = Window \ {consumer_pos}
  BY <1>1, <1>2 DEF WindowOK, Window
<1>5. WritersOK'
  <2>1. Writing' = Writing /\ \A u \in Writing : Hit(u)' = Hit(u)
    BY <1>1 DEF Writing, Hit
  <2>2. \A u \in Writing : slot[u] # consumer_pos /\ slot[u] \in Window
    BY <1>2 DEF WritersOK
  <2> HIDE DEF Window
  <2> QED BY <1>1, <1>4, <2>1, <2>2 DEF WritersOK
<1>6. ContentsOK'
  BY <1>1, <1>4 DEF ContentsOK
<1>7. ConsumerOK'
  BY <1>1, <1>2 DEF ConsumerOK
<1>8. ListedOK' /\ NoLostWakeup'
  BY <1>1 DEF ListedOK, Consuming, NoLostWakeup
<1> QED BY <1>3, <1>4, <1>5, <1>6, <1>7, <1>8

(* Every step keeps the invariant. *)
LEMMA RingStep == RingInv /\ [Next]_vars => RingInv'
<1> SUFFICES ASSUME RingInv, [Next]_vars PROVE RingInv'
  OBVIOUS
<1>1. CASE Next
  BY <1>1, ReserveFailsInv, ReserveInv, FillInv, SubmitInv, NotifyInv, WakeInv,
     ScanInv, CallbackInv, StoreInv DEF Next, ProducerStep, ConsumerStep
<1>2. CASE UNCHANGED vars
  <2>1. UNCHANGED <<mem, producer_pos, consumer_pos, thr, slot, issued, irq, ready,
                    cpc, cons, prod, got, cnt, order, delivered, dropped>>
    BY <1>2 DEF vars, shared, producers, consumer, history
  <2>2. TypeOK' /\ WindowOK' /\ WritersOK' /\ ContentsOK'
    <3>1. /\ cons \in Nat /\ prod \in Nat /\ cnt \in Nat /\ got \in BOOLEAN
          /\ irq \in BOOLEAN /\ ready \in BOOLEAN /\ delivered \in Seq(Hits)
          /\ cpc \in Consuming \cup {"setup", "wait"}
      BY DEF RingInv, TypeOK, Consuming
    <3> HIDE DEF Hits
    <3> QED BY <2>1, <3>1, RingUntouched
  <2>3. ConsumerOK' /\ ListedOK' /\ NoLostWakeup'
    BY <2>1 DEF RingInv, ConsumerOK, ListedOK, NoLostWakeup, Avail, Busy
  <2> QED BY <2>2, <2>3 DEF RingInv
<1> QED BY <1>1, <1>2

-----------------------------------------------------------------------------
(* What is left in the ring at rest *)

(* A busy record is in the hands of a thread that has yet to complete it,   *)
(* and what was delivered are the first records accepted.                   *)
BusyOK ==
    \A p \in Window : mem[Slot(p)].busy => \E t \in Writing : slot[t] = p
PrefixOK == \A i \in 1 .. Len(delivered) : delivered[i] = order[i]

(* A busy bit is set with a writer and cleared with it. *)
LEMMA BusyStep == RingInv /\ BusyOK /\ [Next]_vars => BusyOK'
<1> SUFFICES ASSUME RingInv, BusyOK, [Next]_vars PROVE BusyOK'
  OBVIOUS
<1>1. ASSUME NEW t \in Threads, Reserve(t) PROVE BusyOK'
  <2>1. /\ thr[t] = "user" /\ producer_pos - consumer_pos < Capacity
        /\ mem' = [mem EXCEPT ![Slot(producer_pos)].busy = TRUE]
        /\ producer_pos' = producer_pos + 1 /\ consumer_pos' = consumer_pos
        /\ slot' = [slot EXCEPT ![t] = producer_pos]
        /\ thr' = [thr EXCEPT ![t] = "reserved"]
    BY <1>1 DEF Reserve
  <2>2. producer_pos \in Nat /\ consumer_pos \in Nat /\ consumer_pos <= producer_pos
        /\ Capacity \in Nat /\ TypeOK /\ WindowOK
    BY RingAssumption DEF RingInv, TypeOK, WindowOK
  <2>3. Window' = Window \cup {producer_pos}
    BY <2>1, <2>2 DEF Window
  <2>4. \A p \in Window : Slot(p) # Slot(producer_pos) /\ Slot(p) \in 0 .. Capacity - 1
    BY <2>1, <2>2, SlotsApart, WindowSlots DEF Window
  <2>5. \A p \in Window : mem'[Slot(p)] = mem[Slot(p)]
    BY <2>1, <2>2, <2>4 DEF TypeOK
  <2>6. /\ t \in Writing' /\ slot'[t] = producer_pos
        /\ \A u \in Writing : u \in Writing' /\ slot'[u] = slot[u]
    BY <2>1, <2>2 DEF Writing, TypeOK
  <2> HIDE DEF Window, Writing
  <2> QED BY <2>3, <2>5, <2>6 DEF BusyOK
<1>2. ASSUME NEW t \in Threads, Fill(t) \/ Submit(t) PROVE BusyOK'
  <2> DEFINE s == Slot(slot[t])
  <2>1. /\ t \in Writing /\ Window' = Window /\ slot' = slot
        /\ \A u \in Writing : u # t => u \in Writing'
    BY <1>2 DEF Fill, Submit, Writing, Window, RingInv, TypeOK
  <2>2. /\ slot[t] \in Window /\ s \in 0 .. Capacity - 1
        /\ \A p \in Window : p # slot[t] => Slot(p) # s
        /\ \A p \in Window : Slot(p) \in 0 .. Capacity - 1
    BY <2>1, OtherSlots
  <2>3. ASSUME NEW p \in Window, p # slot[t], mem'[Slot(p)].busy
        PROVE  \E u \in Writing' : slot'[u] = p
    <3>1. mem'[Slot(p)] = mem[Slot(p)]
      BY <1>2, <2>2, <2>3 DEF Fill, Submit, RingInv, TypeOK
    <3>2. PICK u \in Writing : slot[u] = p
      BY <2>3, <3>1 DEF BusyOK
    <3> QED BY <2>1, <2>3, <3>2
  <2>4. mem'[s].busy => t \in Writing'
    <3>1. CASE Fill(t)
      BY <2>1, <3>1 DEF Fill, Writing, RingInv, TypeOK
    <3>2. CASE Submit(t)
      <4>1. ~mem'[s].busy
        BY <2>2, <3>2 DEF Submit, RingInv, TypeOK
      <4> QED BY <4>1
    <3> QED BY <1>2, <3>1, <3>2
  <2> HIDE DEF s, Window, Writing
  <2> QED BY <2>1, <2>3, <2>4 DEF BusyOK, s
<1>3. CASE StoreConsumer
  <2>1. /\ consumer_pos' = consumer_pos + 1 /\ producer_pos' = producer_pos
        /\ mem' = mem /\ thr' = thr /\ slot' = slot
    BY <1>3 DEF StoreConsumer, Handled, producers, RingInv, ConsumerOK
  <2>2. Window' \subseteq Window /\ Writing' = Writing
    BY <2>1 DEF Window, Writing, RingInv, TypeOK
  <2> HIDE DEF Window, Writing
  <2> QED BY <2>1, <2>2 DEF BusyOK
<1>4. ASSUME UNCHANGED shared, UNCHANGED slot,
             \A t \in Threads : thr[t] \in {"reserved", "filled"} => thr'[t] = thr[t]
      PROVE  BusyOK'
  <2>1. Window' = Window /\ mem' = mem /\ slot' = slot /\ Writing \subseteq Writing'
    BY <1>4 DEF shared, Window, Writing
  <2> HIDE DEF Window, Writing
  <2> QED BY <2>1 DEF BusyOK
<1>5. ASSUME NEW t \in Threads, Notify(t) PROVE BusyOK'
  BY <1>4, <1>5 DEF Notify, RingInv, TypeOK
<1>6. CASE UNCHANGED <<shared, thr, slot>>
  BY <1>4, <1>6
<1>7. \/ \E t \in Threads : Reserve(t) \/ Fill(t) \/ Submit(t) \/ Notify(t)
      \/ StoreConsumer
      \/ UNCHANGED <<shared, thr, slot>>
  BY DEF Next, ProducerStep, ConsumerStep, ReserveFails, IrqWork, Register,
     EpollWait, EpollTimeout, Consume, LoadProducer, ScanBusy, ScanRecord, ScanEnd,
     Callback, vars, producers
<1> QED BY <1>1, <1>2, <1>3, <1>5, <1>6, <1>7

(* The callback is given the next record accepted, and a record that is     *)
(* accepted later stands behind those delivered.                            *)
LEMMA PrefixStep == RingInv /\ PrefixOK /\ [Next]_vars => PrefixOK'
<1> SUFFICES ASSUME RingInv, PrefixOK, [Next]_vars PROVE PrefixOK'
  OBVIOUS
<1>1. /\ order \in Seq(Hits) /\ delivered \in Seq(Hits)
      /\ Len(order) \in Nat /\ Len(delivered) \in Nat /\ Len(delivered) <= Len(order)
  <2> HIDE DEF Hits
  <2>1. order \in Seq(Hits) /\ delivered \in Seq(Hits)
    BY DEF RingInv, TypeOK
  <2>2. /\ consumer_pos \in Nat /\ producer_pos \in Nat /\ cons \in Nat /\ prod \in Nat
        /\ Len(order) = producer_pos /\ consumer_pos <= producer_pos
    BY DEF RingInv, TypeOK, WindowOK
  <2>3. CASE cpc = "store"
    BY <2>1, <2>2, <2>3 DEF RingInv, ConsumerOK
  <2>4. CASE cpc # "store"
    BY <2>1, <2>2, <2>4 DEF RingInv, ConsumerOK
  <2> QED BY <2>1, <2>3, <2>4
<1> HIDE DEF Hits
<1>2. ASSUME NEW t \in Threads, Reserve(t) PROVE PrefixOK'
  <2> DEFINE e == [thread |-> t, n |-> issued[t] + 1]
  <2>1. delivered' = delivered /\ order' = Append(order, e)
    BY <1>2 DEF Reserve
  <2> HIDE DEF e
  <2> QED BY <1>1, <2>1 DEF PrefixOK
<1>3. CASE Callback
  <2>1. /\ delivered' = Append(delivered, order[Len(delivered) + 1])
        /\ order' = order
    BY <1>3, CallbackRecord DEF Callback
  <2> QED BY <1>1, <2>1 DEF PrefixOK
<1>4. CASE UNCHANGED <<order, delivered>>
  BY <1>4 DEF PrefixOK
<1>5. \/ \E t \in Threads : Reserve(t)
      \/ Callback
      \/ UNCHANGED <<order, delivered>>
  BY DEF Next, ProducerStep, ConsumerStep, ReserveFails, Fill, Submit, Notify,
     IrqWork, Register, EpollWait, EpollTimeout, Consume, LoadProducer, ScanBusy,
     ScanRecord, ScanEnd, StoreConsumer, vars, history
<1> QED BY <1>2, <1>3, <1>4, <1>5

(* At rest nothing is left in the ring. *)
LEMMA RestEmpty == ASSUME RingInv, BusyOK, PrefixOK PROVE NothingLeftBehind
<1> SUFFICES ASSUME AtRest PROVE delivered = order
  BY DEF NothingLeftBehind
<1>1. /\ consumer_pos \in Nat /\ producer_pos \in Nat /\ consumer_pos <= producer_pos
      /\ Len(order) = producer_pos /\ Len(delivered) = consumer_pos
      /\ order \in Seq(Hits) /\ delivered \in Seq(Hits)
  <2> HIDE DEF Hits
  <2> QED BY DEF AtRest, RingInv, TypeOK, WindowOK, ConsumerOK
<1>2. consumer_pos = producer_pos
  <2> SUFFICES ASSUME consumer_pos # producer_pos PROVE FALSE
    OBVIOUS
  <2>1. consumer_pos \in Window
    BY <1>1 DEF Window
  <2>2. ~mem[Slot(consumer_pos)].busy
    <3> HIDE DEF Window
    <3> QED BY <2>1 DEF BusyOK, Writing, AtRest
  <2> QED BY <2>2 DEF RingInv, NoLostWakeup, AtRest, Avail, Busy
<1> HIDE DEF Hits
<1> QED BY <1>1, <1>2, SeqEqual DEF PrefixOK

-----------------------------------------------------------------------------
(* How long a call lasts *)

(* A call has not reached its limit until the record that reaches it is     *)
(* released.                                                                *)
LimitOK ==
    /\ cpc \in {"load", "scan", "callback"} => cnt < ConsumeMax
    /\ cpc = "store" => cnt <= ConsumeMax

(* The limit is tested after every record. *)
LEMMA LimitStep == TypeOK /\ LimitOK /\ [Next]_vars => LimitOK'
<1> SUFFICES ASSUME TypeOK, LimitOK, [Next]_vars PROVE LimitOK'
  OBVIOUS
<1>1. cnt \in Nat /\ ConsumeMax \in Nat \ {0}
  BY RingAssumption DEF TypeOK
<1>2. CASE ConsumerStep
  BY <1>1, <1>2 DEF ConsumerStep, LimitOK, Register, EpollWait, EpollTimeout, Consume,
     LoadProducer, ScanBusy, ScanRecord, ScanEnd, Callback, StoreConsumer,
     LimitReached, vars, consumer
<1>3. CASE UNCHANGED consumer
  BY <1>3 DEF LimitOK, consumer
<1>4. ConsumerStep \/ UNCHANGED consumer
  BY DEF Next, ProducerStep, ReserveFails, Reserve, Fill, Submit, Notify, IrqWork,
     vars
<1> QED BY <1>2, <1>3, <1>4

(* Each step of a call lowers what is left of it. *)
LEMMA CallStep ==
    ASSUME TypeOK, LimitOK, [Next]_vars, cpc \in Consuming
    PROVE  Nearer \/ cpc' = "wait" \/ UNCHANGED consumer
<1>1. cnt \in Nat /\ ConsumeMax \in Nat \ {0}
  BY RingAssumption DEF TypeOK
<1> USE DEF Nearer, StepsLeft, ToCallback, Consuming
<1>2. CASE Consume
  BY <1>1, <1>2 DEF Consume
<1>3. CASE LoadProducer
  BY <1>1, <1>3 DEF LoadProducer, LimitOK
<1>4. CASE ScanBusy
  BY <1>4 DEF ScanBusy
<1>5. CASE ScanRecord
  BY <1>1, <1>5 DEF ScanRecord, LimitOK
<1>6. CASE ScanEnd
  BY <1>1, <1>6 DEF ScanEnd, LimitOK
<1>7. CASE Callback
  BY <1>1, <1>7 DEF Callback, LimitOK
<1>8. CASE StoreConsumer
  BY <1>1, <1>8 DEF StoreConsumer, LimitOK, LimitReached
<1>9. CASE Register \/ EpollWait \/ EpollTimeout
  BY <1>9 DEF Register, EpollWait, EpollTimeout
<1>10. ConsumerStep \/ UNCHANGED consumer
  BY DEF Next, ProducerStep, ReserveFails, Reserve, Fill, Submit, Notify, IrqWork,
     vars
<1> QED BY <1>2, <1>3, <1>4, <1>5, <1>6, <1>7, <1>8, <1>9, <1>10
        DEF ConsumerStep

-----------------------------------------------------------------------------
(* The theorems *)

(* The invariant holds of every behaviour. *)
LEMMA RingInvariant == Spec => []RingInv
BY RingInit, RingStep, PTL DEF Spec

(* For any number of threads the ring, its producers and its consumer keep  *)
(* their types: no unwritten slot is ever delivered.                        *)
THEOREM RingTypeCorrect == Spec => []TypeOK
<1>1. RingInv => TypeOK
  BY DEF RingInv
<1> QED BY <1>1, RingInvariant, PTL

(* The loop never sleeps on a complete record without a wake-up under way.  *)
THEOREM WakeupNotLost == Spec => []NoLostWakeup
<1>1. RingInv => NoLostWakeup
  BY DEF RingInv
<1> QED BY <1>1, RingInvariant, PTL

(* No slot is written by two threads, or by one while it is being read.     *)
THEOREM SlotsNeverShared == Spec => []SlotsDisjoint
<1>1. RingInv => SlotsDisjoint
  <2> SUFFICES ASSUME RingInv PROVE SlotsDisjoint
    OBVIOUS
  <2>1. \A t, u \in Writing : t # u => Slot(slot[t]) # Slot(slot[u])
    BY OtherSlots
  <2>2. cpc = "callback" => \A t \in Writing : Slot(slot[t]) # Slot(cons)
    BY OtherSlots, CallbackRecord
  <2> QED BY <2>1, <2>2 DEF SlotsDisjoint
<1> QED BY <1>1, RingInvariant, PTL

(* The ring implements the lossy FIFO, whatever the threads' interleaving.  *)
THEOREM RingIsLossyFifo == Spec => IsLossyFifo
<1>1. Init => Fifo!Init
  BY DEF Init, Fifo!Init
<1>2. RingInv /\ [Next]_vars => [Fifo!Next]_<<order, delivered, dropped>>
  <2> SUFFICES ASSUME RingInv, [Next]_vars
               PROVE  [Fifo!Next]_<<order, delivered, dropped>>
    OBVIOUS
  <2>1. /\ Len(delivered) \in {consumer_pos, consumer_pos + 1}
        /\ producer_pos = Len(order) /\ Capacity \in Nat
        /\ consumer_pos \in Nat /\ producer_pos \in Nat
    BY RingAssumption DEF RingInv, ConsumerOK, WindowOK, TypeOK
  <2>2. ASSUME NEW t \in Threads, issued[t] < MaxHits
        PROVE  [thread |-> t, n |-> issued[t] + 1] \in Hits
    BY <2>2, RingAssumption DEF RingInv, TypeOK, Hits
  <2>3. ASSUME NEW t \in Threads, ReserveFails(t)
        PROVE  Fifo!Next
    <3>1. Fifo!Drop([thread |-> t, n |-> issued[t] + 1])
      BY <2>1, <2>3 DEF ReserveFails, Fifo!Drop, Fifo!UnderWay
    <3> HIDE DEF Hits
    <3> QED BY <2>2, <2>3, <3>1 DEF ReserveFails, Fifo!Next
  <2>4. ASSUME NEW t \in Threads, Reserve(t)
        PROVE  Fifo!Next
    <3>1. Fifo!Accept([thread |-> t, n |-> issued[t] + 1])
      BY <2>1, <2>4 DEF Reserve, Fifo!Accept, Fifo!UnderWay
    <3> HIDE DEF Hits
    <3> QED BY <2>2, <2>4, <3>1 DEF Reserve, Fifo!Next
  <2>5. CASE Callback
    <3>1. Fifo!Deliver
      BY <2>5, CallbackRecord DEF Callback, Fifo!Deliver
    <3> QED BY <3>1 DEF Fifo!Next
  <2>6. \/ \E t \in Threads : ReserveFails(t) \/ Reserve(t)
        \/ Callback
        \/ UNCHANGED <<order, delivered, dropped>>
    BY DEF Next, ProducerStep, ConsumerStep, Fill, Submit, Notify, IrqWork,
       Register, EpollWait, EpollTimeout, Consume, LoadProducer, ScanBusy,
       ScanRecord, ScanEnd, StoreConsumer, vars, history
  <2> QED BY <2>3, <2>4, <2>5, <2>6
<1> QED BY <1>1, <1>2, RingInvariant, PTL DEF Spec, IsLossyFifo, Fifo!Spec

(* When the programs have returned and the loop sleeps with no wake-up      *)
(* under way, every accepted record has been delivered, in ring order.      *)
THEOREM RestLeavesNothing == Spec => []NothingLeftBehind
<1>1. Init => BusyOK /\ PrefixOK
  BY DEF Init, BusyOK, PrefixOK, Window
<1>2. RingInv /\ BusyOK /\ PrefixOK => NothingLeftBehind
  BY RestEmpty
<1> QED BY <1>1, <1>2, BusyStep, PrefixStep, RingInvariant, PTL DEF Spec

(* A call of ring_buffer__consume takes at most 5 * ConsumeMax + 3 steps    *)
(* from its start to its return, however many records arrive meanwhile.     *)
THEOREM ConsumeRunsDown == Spec => CallRunsDown
<1>1. Init => LimitOK
  BY DEF Init, LimitOK
<1>2. TypeOK /\ LimitOK /\ [Next]_vars
        => [(cpc \in Consuming) => Nearer \/ cpc' = "wait" \/ UNCHANGED consumer]_vars
  BY CallStep
<1> QED BY <1>1, <1>2, LimitStep, RingTypeCorrect, PTL DEF Spec, CallRunsDown
=============================================================================
