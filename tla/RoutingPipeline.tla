-------------------------- MODULE RoutingPipeline --------------------------
(***************************************************************************)
(* The routing module from end to end: the probes of routing.bpf.c, the    *)
(* ring they share and the statistics engine that reads it, composed.      *)
(* EventRing shows that the ring delivers whole records in the order of    *)
(* their reservation; here it is the sequence of the records reserved and  *)
(* not yet consumed, and what is in a record is modelled instead: its      *)
(* timestamp, read some time after the reservation, and its SOME/IP        *)
(* header, which stays unwritten when the program has no data to read it   *)
(* from.  bpf_ringbuf_reserve does not clear a record, and since the ring  *)
(* is not a whole number of records long, what lies there after the first  *)
(* lap is any part of older records.                                       *)
(*                                                                         *)
(* calls and unread are history: what the probed functions were called     *)
(* with, and the headers that records carry without having been read.      *)
(***************************************************************************)
EXTENDS StatsCollector

CONSTANTS
    Traffic,        \* the headers of the messages vsomeip handles
    Capacity        \* records that fit in max_entries bytes

(* What a header that was never written holds in a fresh ring, whose pages  *)
(* the kernel clears: SOMEIP_MT_REQUEST is 0x00.                            *)
ZeroHeader == [svc |-> 0, method |-> 0, client |-> 0, session |-> 0,
               type |-> "REQUEST"]

ASSUME PipelineAssumption ==
    /\ Probes \subseteq RoutingHooks
    /\ Traffic \subseteq Messages /\ ZeroHeader \in Messages
    /\ Capacity \in Nat \ {0}

VARIABLES
    ring,           \* the records reserved and not yet consumed, oldest first
    pos,            \* records ever reserved, counted up to Capacity
    calls,          \* history: headers read by an entry probe
    unread          \* history: headers an entry probe did not read

pipe     == <<ring, pos, calls, unread>>
pipeVars == <<vars, pipe>>

PipeInit == Init /\ ring = <<>> /\ pos = 0 /\ calls = {} /\ unread = {}

-----------------------------------------------------------------------------
(* The programs: submit_routing *)

(* bpf_ringbuf_reserve finds no room: the program returns. *)
ReserveFails == Len(ring) >= Capacity /\ UNCHANGED pipeVars

(* A record of hook h; fresh: of the first lap.  MaxEvents bounds the       *)
(* records.                                                                 *)
Reserve(h) ==
    /\ Len(ring) < Capacity /\ events + Len(ring) < MaxEvents
    /\ ring' = Append(ring, [hook |-> h, fresh |-> pos < Capacity, done |-> FALSE,
                             hdr |-> ZeroHeader, ts |-> 0, rv |-> 0])
    /\ pos' = IF pos < Capacity THEN pos + 1 ELSE pos
    /\ UNCHANGED <<vars, calls, unread>>

(* Faulty variant: bpf_ktime_get_boot_ns(), which counts suspended time. *)
KtimeBoot == clock + 1

Ktime == clock          \* bpf_ktime_get_ns() is CLOCK_MONOTONIC

Leftover(e) == IF e.fresh THEN {ZeroHeader} ELSE Messages

(* The record is completed and submitted.  Nobody reads it in between.      *)
Complete(i, m, rv) ==
    /\ i \in DOMAIN ring /\ ~ring[i].done
    /\ ring' = [ring EXCEPT ![i].done = TRUE, ![i].hdr = m, ![i].ts = Ktime,
                            ![i].rv = rv]
    /\ UNCHANGED <<vars, pos>>

(* An entry probe that reads the header. *)
FillRead(i, m) ==
    /\ Complete(i, m, 0) /\ ring[i].hook \notin RetHooks
    /\ calls' = calls \cup {[hook |-> ring[i].hook, msg |-> m, ts |-> Ktime]}
    /\ unread' = unread

(* No data, fewer than SOMEIP_HEADER_SIZE bytes, or bpf_probe_read_user     *)
(* fails; the record is submitted all the same.                             *)
FillUnread(i, m) ==
    /\ Complete(i, m, 0) /\ ring[i].hook \notin RetHooks
    /\ m \in Leftover(ring[i])
    /\ unread' = unread \cup {[hook |-> ring[i].hook, msg |-> m, ts |-> Ktime]}
    /\ calls' = calls

(* A return probe has no data, but a return value. *)
FillRet(i, m, rv) ==
    /\ Complete(i, m, rv) /\ ring[i].hook \in RetHooks
    /\ m \in Leftover(ring[i])
    /\ UNCHANGED <<calls, unread>>

-----------------------------------------------------------------------------
(* The event loop *)

(* ringbuf_callback hands the oldest record to routing_event_handler. *)
Deliver ==
    /\ ring # <<>> /\ Head(ring).done
    /\ LET e == Head(ring) IN
          \/ RoutingRequest(e.hook, e.hdr, e.ts)
          \/ RoutingAnswer(e.hook, e.hdr, e.ts)
          \/ RoutingOther(e.hook, e.hdr, e.rv, e.ts)
    /\ ring' = Tail(ring)
    /\ UNCHANGED <<pos, calls, unread>>

(* The steps of the statistics engine that no record causes. *)
StatsStep ==
    /\ SetLogWriter \/ Tick \/ FlushReport \/ EvictExpired
    /\ UNCHANGED pipe

PipeNext ==
    \/ ReserveFails
    \/ \E h \in Probes : Reserve(h)
    \/ \E i \in DOMAIN ring, m \in Traffic : FillRead(i, m)
    \/ \E i \in DOMAIN ring, m \in Messages : FillUnread(i, m)
    \/ \E i \in DOMAIN ring, m \in Messages, rv \in {-1, 0} : FillRet(i, m, rv)
    \/ Deliver
    \/ StatsStep

PipeSpec == PipeInit /\ [][PipeNext]_pipeVars

-----------------------------------------------------------------------------
(* Properties *)

(* The requests that a sending entry probe put in a record, among those in  *)
(* S, and the answers of a receiving one.                                   *)
RequestsIn(S) == {c \in S : c.hook \notin RetHooks \cup RecvHooks
                            /\ c.msg.type \in Requests}
AnswersIn(S)  == {c \in S : c.hook \in RecvHooks \ RetHooks
                            /\ c.msg.type \in Responses}

Stems(S, k) == \E c \in RequestsIn(S) : PackKey(c.msg) = k /\ c.ts = pending[k]

(* What reaches the statistics engine from the ring is what StatsCollector  *)
(* assumes of its input: headers, and timestamps that are not from the      *)
(* future, although they are read by another processor at another time.     *)
(* All that is checked and proved of StatsCollector holds of the pipeline.  *)
FeedsStats == Spec

(* Records of return probes carry leftover headers, many of which look like *)
(* requests, and on_latency() must not take them for one: an entry of the   *)
(* pending table stems from a request some thread really sent, at that      *)
(* time, or from an entry probe that could not read its header.             *)
PendingRealUnlessUnread ==
    \A k \in DOMAIN pending : Stems(calls \cup unread, k)

(* A [LATENCY] line joins a request and an answer of the same call that     *)
(* were both really made, at the times it gives, or some entry probe could  *)
(* not read the header of one of them.                                      *)
LatencyRealUnlessUnread ==
    \A l \in out : l.kind = "LATENCY" =>
        /\ \E c \in RequestsIn(calls \cup unread) :
              SameCall(c.msg, l.msg) /\ c.ts = l.send_ts
        /\ \E c \in AnswersIn(calls \cup unread) :
              c.msg = l.msg /\ c.ts = l.recv_ts

-----------------------------------------------------------------------------
(* What the comments say and the code does not do *)

(* routing_event.h: the SOME/IP header of a record is "parsed from the      *)
(* byte* argument"; stats_collector.cpp: a pending entry is made "when a    *)
(* REQUEST is sent".  So every pending entry is a request really sent.      *)
PendingReal == \A k \in DOMAIN pending : Stems(calls, k)
=============================================================================
