----------------------------- MODULE EventRing -----------------------------
(***************************************************************************)
(* The path of an event from a probe to its handler: one BPF ring buffer,  *)
(* filled by the threads of the monitored processes (submit_routing,       *)
(* submit_app, submit_sd) and emptied by the thread of                     *)
(* CollectorManager::run_loop through epoll and libbpf's                   *)
(* ring_buffer__consume.  The records of a ring all have the same size, so *)
(* positions count records, and a ring is taken to hold a whole number of  *)
(* them.  The epoll instance libbpf keeps for it (ring_buffer__epoll_fd)   *)
(* and the one of run_loop that watches it are both level-triggered and    *)
(* folded into one.  The kernel's half of the ring (reserve, commit,       *)
(* wake-up, poll) is external to the repository and modelled from the      *)
(* calls the BPF programs and libbpf make.                                 *)
(***************************************************************************)
EXTENDS Integers, Sequences, FiniteSets

CONSTANTS
    Threads,        \* threads that run through a probed function
    Capacity,       \* records that fit in max_entries bytes
    MaxHits,        \* bound: probe hits of one thread
    ConsumeMax      \* INT_MAX: records of one ring_buffer__consume call

ASSUME RingAssumption ==
    /\ Capacity \in Nat \ {0}
    /\ MaxHits \in Nat
    /\ ConsumeMax \in Nat \ {0}

Hits == [thread : Threads, n : 1 .. MaxHits]

NoHit == [thread |-> "none", n |-> 0]    \* what a fresh ring's memory holds

VARIABLES
    mem,            \* the ring: what each slot holds, and its busy bit
    producer_pos,   \* the two positions in the pages shared with the kernel
    consumer_pos,
    thr,            \* where each thread is in submit_*()
    slot,           \* the position of the record it has reserved
    issued,         \* its number of hits
    irq,            \* irq_work that will wake the ring's waiters is queued
    ready,          \* the ring is on the ready list of the epoll instance
    cpc,            \* where the consumer is
    cons, prod,     \* locals cons_pos, prod_pos, got_new_data and cnt of
    got, cnt,       \*   ringbuf_process_ring
    order,          \* history: the hits that got a record, in ring order
    delivered,      \* history: what was handed to ringbuf_callback
    dropped         \* history: the hits that found the ring full

producers == <<thr, slot, issued>>
consumer  == <<cpc, cons, prod, got, cnt>>
shared    == <<mem, producer_pos, consumer_pos>>
history   == <<order, delivered, dropped>>
vars == <<shared, producers, irq, ready, consumer, history>>

(* Faulty variants, each of the definition it is named after: the busy bit  *)
(* is not looked at; one record too many is released; the limit of a call   *)
(* is tested off by one; the ring is watched with EPOLLET.                  *)
BusyNever(p)    == FALSE
HandledOneMore  == cons + 1
LimitExceeded   == cnt > ConsumeMax
StillListedEdge == FALSE

Slot(p) == p % Capacity
Busy(p) == mem[Slot(p)].busy
Handled == cons                            \* cons_pos after the callback
LimitReached == cnt >= ConsumeMax          \* if (cnt >= n) goto done
Avail   == producer_pos # consumer_pos     \* ringbuf_avail_data_sz() > 0
Hit(t)  == [thread |-> t, n |-> issued[t]]

(* The events run_loop asks for are EPOLLIN, without EPOLLET: a ring that   *)
(* epoll_wait() returns stays on the ready list while it has data.          *)
StillListed == Avail

Init ==
    /\ mem = [i \in 0 .. Capacity - 1 |-> [ev |-> NoHit, busy |-> FALSE]]
    /\ producer_pos = 0 /\ consumer_pos = 0
    /\ thr = [t \in Threads |-> "user"]
    /\ slot = [t \in Threads |-> 0]
    /\ issued = [t \in Threads |-> 0]
    /\ irq = FALSE /\ ready = FALSE
    /\ cpc = "setup" /\ cons = 0 /\ prod = 0 /\ got = FALSE /\ cnt = 0
    /\ order = <<>> /\ delivered = <<>> /\ dropped = {}

-----------------------------------------------------------------------------
(* A thread in a BPF program *)

(* bpf_ringbuf_reserve returns NULL: the program returns, the hit is lost.  *)
ReserveFails(t) ==
    /\ thr[t] = "user" /\ issued[t] < MaxHits
    /\ producer_pos - consumer_pos >= Capacity
    /\ issued' = [issued EXCEPT ![t] = @ + 1]
    /\ dropped' = dropped \cup {[thread |-> t, n |-> issued[t] + 1]}
    /\ UNCHANGED <<shared, thr, slot, irq, ready, consumer, order, delivered>>

(* The slot is marked busy; its memory still holds the record of the lap    *)
(* before.                                                                  *)
Reserve(t) ==
    /\ thr[t] = "user" /\ issued[t] < MaxHits
    /\ producer_pos - consumer_pos < Capacity
    /\ issued' = [issued EXCEPT ![t] = @ + 1]
    /\ mem' = [mem EXCEPT ![Slot(producer_pos)].busy = TRUE]
    /\ producer_pos' = producer_pos + 1
    /\ slot' = [slot EXCEPT ![t] = producer_pos]
    /\ thr' = [thr EXCEPT ![t] = "reserved"]
    /\ order' = Append(order, [thread |-> t, n |-> issued[t] + 1])
    /\ UNCHANGED <<consumer_pos, irq, ready, consumer, delivered, dropped>>

(* fill_header and the module's own fields. *)
Fill(t) ==
    /\ thr[t] = "reserved"
    /\ mem' = [mem EXCEPT ![Slot(slot[t])].ev = Hit(t)]
    /\ thr' = [thr EXCEPT ![t] = "filled"]
    /\ UNCHANGED <<producer_pos, consumer_pos, slot, issued, irq, ready,
                   consumer, history>>

(* bpf_ringbuf_submit, first half: the busy bit is cleared. *)
Submit(t) ==
    /\ thr[t] = "filled"
    /\ mem' = [mem EXCEPT ![Slot(slot[t])].busy = FALSE]
    /\ thr' = [thr EXCEPT ![t] = "committed"]
    /\ UNCHANGED <<producer_pos, consumer_pos, slot, issued, irq, ready,
                   consumer, history>>

(* Second half, with flags 0: a wake-up only if the consumer has caught up  *)
(* with this record.                                                        *)
Notify(t) ==
    /\ thr[t] = "committed"
    /\ irq' = (irq \/ Slot(consumer_pos) = Slot(slot[t]))
    /\ thr' = [thr EXCEPT ![t] = "user"]
    /\ UNCHANGED <<shared, slot, issued, ready, consumer, history>>

(* wake_up_all: an epoll instance that has the ring registered lists it.    *)
IrqWork ==
    /\ irq
    /\ irq' = FALSE
    /\ ready' = (ready \/ cpc # "setup")
    /\ UNCHANGED <<shared, producers, consumer, history>>

-----------------------------------------------------------------------------
(* The consumer *)

(* The probes are attached before run_loop registers the ring with          *)
(* EPOLL_CTL_ADD, which polls it once.                                      *)
Register ==
    /\ cpc = "setup"
    /\ ready' = Avail
    /\ cpc' = "wait"
    /\ UNCHANGED <<shared, producers, irq, cons, prod, got, cnt, history>>

(* epoll_wait, level-triggered: a listed ring is polled again; it stays     *)
(* listed and is returned if it has data, and leaves the list otherwise.    *)
EpollWait ==
    /\ cpc = "wait" /\ ready
    /\ ready' = StillListed
    /\ cpc' = IF Avail THEN "consume" ELSE "wait"
    /\ UNCHANGED <<shared, producers, irq, cons, prod, got, cnt, history>>

(* The 1 s timeout of epoll_wait: it returns no event and polls nothing.    *)
EpollTimeout ==
    /\ cpc = "wait" /\ ~ready
    /\ UNCHANGED vars

(* Collector::poll -> ring_buffer__consume -> ringbuf_process_ring. *)
Consume ==
    /\ cpc = "consume"
    /\ cons' = consumer_pos
    /\ cnt' = 0
    /\ cpc' = "load"
    /\ UNCHANGED <<shared, producers, irq, ready, prod, got, history>>

LoadProducer ==
    /\ cpc = "load"
    /\ prod' = producer_pos
    /\ got' = FALSE
    /\ cpc' = "scan"
    /\ UNCHANGED <<shared, producers, irq, ready, cons, cnt, history>>

(* A busy record ends the call. *)
ScanBusy ==
    /\ cpc = "scan" /\ cons < prod
    /\ Busy(cons)
    /\ cpc' = "wait"
    /\ UNCHANGED <<shared, producers, irq, ready, cons, prod, got, cnt, history>>

ScanRecord ==
    /\ cpc = "scan" /\ cons < prod
    /\ ~Busy(cons)
    /\ got' = TRUE
    /\ cpc' = "callback"
    /\ UNCHANGED <<shared, producers, irq, ready, cons, prod, cnt, history>>

(* At the end of what was there: once more if there was anything. *)
ScanEnd ==
    /\ cpc = "scan" /\ ~(cons < prod)
    /\ cpc' = IF got THEN "load" ELSE "wait"
    /\ UNCHANGED <<shared, producers, irq, ready, cons, prod, got, cnt, history>>

(* ringbuf_callback reads the record in place. *)
Callback ==
    /\ cpc = "callback"
    /\ delivered' = Append(delivered, mem[Slot(cons)].ev)
    /\ cons' = cons + 1
    /\ cnt' = cnt + 1
    /\ cpc' = "store"
    /\ UNCHANGED <<shared, producers, irq, ready, prod, got, order, dropped>>

(* smp_store_release(consumer_pos): the slot is the kernel's again. *)
StoreConsumer ==
    /\ cpc = "store"
    /\ consumer_pos' = Handled
    /\ cpc' = IF LimitReached THEN "wait" ELSE "scan"
    /\ UNCHANGED <<mem, producer_pos, producers, irq, ready, cons, prod, got,
                   cnt, history>>

ConsumerStep ==
    \/ Register \/ EpollWait \/ EpollTimeout \/ Consume \/ LoadProducer
    \/ ScanBusy \/ ScanRecord \/ ScanEnd \/ Callback \/ StoreConsumer

ProducerStep(t) == Fill(t) \/ Submit(t) \/ Notify(t)

Next ==
    \/ \E t \in Threads : ReserveFails(t) \/ Reserve(t) \/ ProducerStep(t)
    \/ IrqWork
    \/ ConsumerStep

(* A BPF program that has started runs to its end, queued irq_work is run,  *)
(* and the event loop keeps running; nothing forces a thread to hit a probe.*)
Fairness ==
    /\ \A t \in Threads : WF_vars(ProducerStep(t))
    /\ WF_vars(IrqWork)
    /\ WF_vars(ConsumerStep)

Spec == Init /\ [][Next]_vars
FairSpec == Spec /\ Fairness

-----------------------------------------------------------------------------
(* Properties *)

(* Type invariant of the ring, its producers and its consumer; what is      *)
(* delivered is a record some program wrote, never what a fresh slot holds. *)
TypeOK ==
    /\ mem \in [0 .. Capacity - 1 -> [ev : Hits \cup {NoHit}, busy : BOOLEAN]]
    /\ producer_pos \in Nat /\ consumer_pos \in Nat
    /\ thr \in [Threads -> {"user", "reserved", "filled", "committed"}]
    /\ slot \in [Threads -> Nat]
    /\ issued \in [Threads -> 0 .. MaxHits]
    /\ irq \in BOOLEAN /\ ready \in BOOLEAN
    /\ cpc \in {"setup", "wait", "consume", "load", "scan", "callback", "store"}
    /\ cons \in Nat /\ prod \in Nat /\ got \in BOOLEAN /\ cnt \in Nat
    /\ order \in Seq(Hits) /\ delivered \in Seq(Hits)
    /\ dropped \in SUBSET Hits

(* While the event loop sleeps on a ring whose first record is complete,    *)
(* something is under way that will wake it: the ring is on the ready list, *)
(* the wake-up is queued, or the thread that completed the record has yet   *)
(* to look at consumer_pos.  submit with flags 0 wakes only a consumer that *)
(* has caught up, and the 1 s timeout of epoll_wait polls nothing, so a     *)
(* wake-up missed here would leave the events lying until the next one.     *)
NoLostWakeup ==
    cpc = "wait" /\ Avail /\ ~Busy(consumer_pos) =>
        \/ ready
        \/ irq
        \/ \E t \in Threads : thr[t] = "committed" /\ slot[t] = consumer_pos

(* No thread ever writes a slot that another thread is still writing or     *)
(* that ringbuf_callback is about to read.                                  *)
Writing == {t \in Threads : thr[t] \in {"reserved", "filled"}}
SlotsDisjoint ==
    /\ \A t, u \in Writing : t # u => Slot(slot[t]) # Slot(slot[u])
    /\ cpc = "callback" => \A t \in Writing : Slot(slot[t]) # Slot(cons)

Fifo == INSTANCE LossyFifo WITH accepted <- order

(* The ring implements the lossy FIFO: whole records, each once, in ring    *)
(* order, and a hit is dropped only when the ring is full.                  *)
IsLossyFifo == Fifo!Spec

(* When every program has returned, no wake-up is queued and the event loop *)
(* sleeps on an empty ready list, nothing lies in the ring: every hit that  *)
(* got a record has been handed to ringbuf_callback, in ring order.         *)
AtRest == /\ \A t \in Threads : thr[t] = "user"
          /\ ~irq /\ ~ready /\ cpc = "wait"
NothingLeftBehind == AtRest => delivered = order

(* The steps a call of ring_buffer__consume may still take: five for each   *)
(* record it may still handle, and those to the next callback.              *)
Consuming == {"consume", "load", "scan", "callback", "store"}
ToCallback == [consume |-> 3, load |-> 2, scan |-> IF got THEN 3 ELSE 1,
               callback |-> 0, store |-> 4]
StepsLeft == 5 * (IF cpc = "consume" THEN ConsumeMax ELSE ConsumeMax - cnt)
             + ToCallback[cpc]

(* However fast the threads add records, and whatever their programs are in *)
(* the middle of, a call of ring_buffer__consume returns: each step of it   *)
(* lowers StepsLeft, which no thread can raise and which stays a natural.   *)
Nearer == cpc' \in Consuming /\ 0 <= StepsLeft' /\ StepsLeft' < StepsLeft
CallRunsDown ==
    [][(cpc \in Consuming) => Nearer \/ cpc' = "wait" \/ UNCHANGED consumer]_vars

(* Every hit that got a record reaches ringbuf_callback. *)
EveryRecordDelivered ==
    \A n \in 1 .. MaxHits * Cardinality(Threads) :
        (Len(order) >= n) ~> (Len(delivered) >= n)
=============================================================================
