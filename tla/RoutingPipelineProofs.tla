----------------------- MODULE RoutingPipelineProofs -----------------------
(***************************************************************************)
(* What holds of the routing pipeline for every set of probes, headers and *)
(* traffic, every ring size and every bound.                               *)
(***************************************************************************)
EXTENDS RoutingPipeline, StatsCollectorProofs

Record == [hook : Probes, fresh : BOOLEAN, done : BOOLEAN, hdr : Messages,
           ts : Nat, rv : {-1, 0}]

CallSet == [hook : Probes, msg : Messages, ts : Nat]

CallOf(e) == [hook |-> e.hook, msg |-> e.hdr, ts |-> e.ts]

(* The ring holds records of attached hooks whose timestamps have passed.   *)
RingOK == ring \in Seq(Record) /\ \A i \in DOMAIN ring : ring[i].ts <= clock

(* Every completed record of an entry probe stems from a call it read or    *)
(* from a header it did not read.                                           *)
Traced ==
    /\ calls \cup unread \subseteq CallSet
    /\ \A i \in DOMAIN ring : ring[i].done /\ ring[i].hook \notin RetHooks =>
           CallOf(ring[i]) \in calls \cup unread

PipeTypeOK == TypeOK /\ RingOK

-----------------------------------------------------------------------------
(* The pipeline feeds the statistics engine *)

(* An empty ring in front of a fresh statistics engine. *)
LEMMA PipeTypeInit == PipeInit => PipeTypeOK
<1> SUFFICES ASSUME PipeInit PROVE PipeTypeOK
  OBVIOUS
<1>1. ring \in Seq(Record)
  BY EmptySeq DEF PipeInit
<1>2. RingOK
  BY <1>1 DEF PipeInit, RingOK
<1> QED BY <1>2, TypeInit DEF PipeInit, PipeTypeOK

(* The timestamps of the ring are not negative and not from the future. *)
LEMMA HeadRecord ==
    ASSUME PipeTypeOK, ring # <<>>
    PROVE  /\ Head(ring) \in Record /\ Head(ring).ts \in 0 .. clock
           /\ Head(ring) = ring[1] /\ 1 \in DOMAIN ring
           /\ Tail(ring) \in Seq(Record)
           /\ \A i \in DOMAIN Tail(ring) :
                 i + 1 \in DOMAIN ring /\ Tail(ring)[i] = ring[i + 1]
<1> HIDE DEF Record
<1>1. ring \in Seq(Record) /\ clock \in Nat
  BY TimeAssumption DEF PipeTypeOK, RingOK, TypeOK
<1>2. Head(ring) = ring[1] /\ 1 \in DOMAIN ring /\ Head(ring) \in Record
  BY <1>1
<1>3. Head(ring).ts \in Nat
  BY <1>2, Zenon DEF Record
<1>4. Head(ring).ts <= clock
  BY <1>2 DEF PipeTypeOK, RingOK
<1>5. /\ Tail(ring) \in Seq(Record)
      /\ \A i \in DOMAIN Tail(ring) :
            i + 1 \in DOMAIN ring /\ Tail(ring)[i] = ring[i + 1]
  BY <1>1
<1> QED BY <1>1, <1>2, <1>3, <1>4, <1>5

(* A step of the pipeline is a step of the statistics engine, or one that   *)
(* it does not notice.                                                      *)
LEMMA PipeStepIsStats == PipeTypeOK /\ [PipeNext]_pipeVars => [Next]_vars
<1> SUFFICES ASSUME PipeTypeOK, [PipeNext]_pipeVars PROVE [Next]_vars
  OBVIOUS
<1>1. CASE Deliver
  <2>1. /\ Head(ring).hook \in Probes /\ Head(ring).hdr \in Messages
        /\ Head(ring).rv \in {-1, 0}
    BY <1>1, HeadRecord, Zenon DEF Deliver, Record
  <2>2. Head(ring).ts \in 0 .. clock
    BY <1>1, HeadRecord DEF Deliver
  <2> QED BY <1>1, <2>1, <2>2 DEF Deliver, Next
<1>2. CASE StatsStep
  BY <1>2 DEF StatsStep, Next
<1>3. CASE UNCHANGED vars
  BY <1>3
<1>4. ASSUME NEW i, NEW m, NEW rv, Complete(i, m, rv)
      PROVE  UNCHANGED vars
  BY <1>4 DEF Complete
<1>5. [PipeNext]_pipeVars => Deliver \/ StatsStep \/ UNCHANGED vars
  BY <1>4 DEF PipeNext, pipeVars, ReserveFails, Reserve, FillRead, FillUnread,
              FillRet
<1> QED BY <1>1, <1>2, <1>3, <1>5

(* Completing a record keeps the ring well formed. *)
LEMMA CompleteRing ==
    ASSUME PipeTypeOK, NEW i, NEW m \in Messages, NEW rv \in {-1, 0},
           Complete(i, m, rv)
    PROVE  /\ RingOK' /\ i \in DOMAIN ring /\ DOMAIN ring' = DOMAIN ring
           /\ ring'[i].done /\ ring'[i].hook = ring[i].hook
           /\ ring'[i].hook \in Probes
           /\ ring'[i].hdr = m /\ ring'[i].ts = clock
           /\ \A j \in DOMAIN ring \ {i} : ring'[j] = ring[j]
<1> DEFINE e == [ring[i] EXCEPT !.done = TRUE, !.hdr = m, !.ts = clock, !.rv = rv]
<1>1. i \in DOMAIN ring /\ ring \in Seq(Record) /\ clock \in Nat /\ clock' = clock
  BY TimeAssumption DEF PipeTypeOK, RingOK, TypeOK, Complete, vars
<1>2. ring[i] \in Record
  <2> HIDE DEF Record
  <2> QED BY <1>1
<1>3. /\ e \in Record /\ e.done /\ e.hook = ring[i].hook /\ e.hook \in Probes
      /\ e.hdr = m /\ e.ts = clock
  BY <1>1, <1>2 DEF Record
<1>4. ring' = [ring EXCEPT ![i] = e]
  BY DEF Complete, Ktime
<1> HIDE DEF e, Record
<1>5. /\ ring' \in Seq(Record) /\ DOMAIN ring' = DOMAIN ring /\ ring'[i] = e
      /\ \A j \in DOMAIN ring \ {i} : ring'[j] = ring[j]
  BY <1>1, <1>3, <1>4
<1>6. RingOK'
  BY <1>1, <1>3, <1>5 DEF RingOK, PipeTypeOK
<1> QED BY <1>1, <1>3, <1>5, <1>6

(* Every step keeps the ring well formed; only Tick moves the clock. *)
LEMMA PipeTypeStep == PipeTypeOK /\ [PipeNext]_pipeVars => PipeTypeOK'
<1> SUFFICES ASSUME PipeTypeOK, [PipeNext]_pipeVars PROVE PipeTypeOK'
  OBVIOUS
<1>0. TypeOK'
  BY PipeStepIsStats, TypeStep DEF PipeTypeOK
<1> SUFFICES RingOK'
  BY <1>0 DEF PipeTypeOK
<1>1. CASE UNCHANGED pipeVars
  BY <1>1 DEF pipeVars, pipe, vars, PipeTypeOK, RingOK
<1>2. ASSUME NEW h \in Probes, Reserve(h) PROVE RingOK'
  <2> DEFINE e == [hook |-> h, fresh |-> pos < Capacity, done |-> FALSE,
                   hdr |-> ZeroHeader, ts |-> 0, rv |-> 0]
  <2>1. e \in Record /\ e.ts = 0
    BY PipelineAssumption DEF Record
  <2>2. ring' = Append(ring, e) /\ clock' = clock
    BY <1>2 DEF Reserve, vars
  <2>3. clock \in Nat /\ ring \in Seq(Record)
    BY TimeAssumption DEF PipeTypeOK, RingOK, TypeOK
  <2> HIDE DEF e, Record
  <2>4. /\ ring' \in Seq(Record)
        /\ \A i \in DOMAIN ring' : \/ i \in DOMAIN ring /\ ring'[i] = ring[i]
                                   \/ ring'[i] = e
    BY <2>1, <2>2, <2>3
  <2> QED BY <2>1, <2>2, <2>3, <2>4 DEF RingOK, PipeTypeOK
<1>3. ASSUME NEW i \in DOMAIN ring, NEW m \in Messages, NEW rv \in {-1, 0},
             Complete(i, m, rv)
      PROVE  RingOK'
  BY <1>3, CompleteRing
<1>4. CASE Deliver
  <2>1. ring # <<>> /\ ring' = Tail(ring) /\ clock' = clock
    BY <1>4 DEF Deliver, RoutingRequest, RoutingAnswer, RoutingOther
  <2> HIDE DEF Record
  <2> QED BY <2>1, HeadRecord DEF RingOK, PipeTypeOK
<1>5. CASE StatsStep
  <2>1. ring' = ring /\ clock \in Nat /\ clock' \in {clock, clock + 1}
    BY <1>5, TimeAssumption DEF StatsStep, SetLogWriter, Tick, FlushReport,
       EvictExpired, pipe, PipeTypeOK, TypeOK
  <2>2. \A i \in DOMAIN ring : ring[i].ts \in Nat
    <3>1. \A i \in DOMAIN ring : ring[i] \in Record
      <4> HIDE DEF Record
      <4> QED BY DEF PipeTypeOK, RingOK
    <3> QED BY <3>1, Zenon DEF Record
  <2> QED BY <2>1, <2>2 DEF RingOK, PipeTypeOK
<1>6. CASE PipeNext
  BY <1>1, <1>2, <1>3, <1>4, <1>5, <1>6, PipelineAssumption
     DEF PipeNext, ReserveFails, FillRead, FillUnread, FillRet
<1> QED BY <1>1, <1>6

(* The pipeline implements the statistics engine's specification: whatever  *)
(* the probes put in the ring is an input StatsCollector allows.            *)
THEOREM PipelineFeedsStats == PipeSpec => FeedsStats
<1>1. PipeSpec => []PipeTypeOK
  BY PipeTypeInit, PipeTypeStep, PTL DEF PipeSpec
<1>2. PipeInit => Init
  BY DEF PipeInit
<1> QED BY <1>1, <1>2, PipeStepIsStats, PTL DEF PipeSpec, FeedsStats, Spec
-----------------------------------------------------------------------------
(* Where pending entries and latency lines come from *)

Real == Traced /\ PendingRealUnlessUnread /\ LatencyRealUnlessUnread

(* The history only grows and keeps what is already explained. *)
LEMMA QuietReal ==
    ASSUME Real, Traced', calls \cup unread \subseteq calls' \cup unread',
           DOMAIN pending' \subseteq DOMAIN pending,
           \A k \in DOMAIN pending' : pending'[k] = pending[k],
           \/ out' = out
           \/ \A l \in out' : l.kind # "LATENCY"
    PROVE  Real'
<1>1. PendingRealUnlessUnread'
  BY DEF Real, PendingRealUnlessUnread, Stems, RequestsIn
<1>2. LatencyRealUnlessUnread'
  BY DEF Real, LatencyRealUnlessUnread, RequestsIn, AnswersIn
<1> QED BY <1>1, <1>2 DEF Real

(* A completed record of an entry probe is traced by the history. *)
LEMMA CompleteTraced ==
    ASSUME PipeTypeOK, Traced, NEW i, NEW m \in Messages, NEW rv \in {-1, 0},
           Complete(i, m, rv), calls \cup unread \subseteq calls' \cup unread',
           \/ ring[i].hook \in RetHooks /\ UNCHANGED <<calls, unread>>
           \/ calls' \cup unread' = calls \cup unread
                  \cup {[hook |-> ring[i].hook, msg |-> m, ts |-> Ktime]}
    PROVE  Traced'
<1> DEFINE c == [hook |-> ring[i].hook, msg |-> m, ts |-> Ktime]
<1>1. /\ DOMAIN ring' = DOMAIN ring /\ ring'[i].hook = ring[i].hook
      /\ ring'[i].hook \in Probes /\ ring'[i].hdr = m /\ ring'[i].ts = clock
      /\ \A j \in DOMAIN ring \ {i} : ring'[j] = ring[j]
  BY CompleteRing
<1>2. CallOf(ring'[i]) = c
  BY <1>1 DEF CallOf, Ktime
<1>3. c \in CallSet
  <2>1. clock \in Nat
    BY TimeAssumption DEF PipeTypeOK, TypeOK
  <2> QED BY <1>1, <2>1 DEF CallSet, Ktime
<1> HIDE DEF c
<1>4. calls' \cup unread' \subseteq CallSet
  BY <1>3 DEF Traced, c
<1>5. \A j \in DOMAIN ring' : ring'[j].done /\ ring'[j].hook \notin RetHooks =>
         CallOf(ring'[j]) \in calls' \cup unread'
  BY <1>1, <1>2 DEF Traced, c
<1> QED BY <1>4, <1>5 DEF Traced

(* What Deliver hands over is traced, unless it is of a return probe. *)
LEMMA DeliverTraced ==
    ASSUME PipeTypeOK, Traced, Deliver
    PROVE  /\ Traced' /\ UNCHANGED <<calls, unread>>
           /\ Head(ring).hook \notin RetHooks =>
                 CallOf(Head(ring)) \in calls \cup unread
<1>1. /\ ring # <<>> /\ ring' = Tail(ring) /\ Head(ring).done
      /\ UNCHANGED <<calls, unread>>
  BY DEF Deliver
<1> QED BY <1>1, HeadRecord DEF Traced

(* Every step keeps the inductive invariant Real. *)
LEMMA RealStep == PipeTypeOK /\ Real /\ [PipeNext]_pipeVars => Real'
<1> SUFFICES ASSUME PipeTypeOK, Real, [PipeNext]_pipeVars PROVE Real'
  OBVIOUS
<1>0. Traced /\ TypeOK
  BY DEF Real, PipeTypeOK
<1>1. CASE UNCHANGED pipeVars
  BY <1>1, QuietReal DEF pipeVars, pipe, vars, matching, Real, Traced
<1>2. ASSUME NEW h \in Probes, Reserve(h) PROVE Real'
  <2>1. /\ UNCHANGED <<pending, out, calls, unread>>
        /\ \E e \in Record : ~e.done /\ ring' = Append(ring, e)
    <3>1. [hook |-> h, fresh |-> pos < Capacity, done |-> FALSE,
           hdr |-> ZeroHeader, ts |-> 0, rv |-> 0] \in Record
      BY PipelineAssumption DEF Record
    <3> QED BY <1>2, <3>1 DEF Reserve, vars, matching
  <2>2. Traced'
    <3>1. ring \in Seq(Record)
      BY DEF PipeTypeOK, RingOK
    <3>2. \A i \in DOMAIN ring' : \/ i \in DOMAIN ring /\ ring'[i] = ring[i]
                                 \/ ~ring'[i].done
      <4> HIDE DEF Record
      <4> QED BY <2>1, <3>1
    <3> QED BY <1>0, <2>1, <3>2 DEF Traced
  <2> QED BY <2>1, <2>2, QuietReal
<1>3. ASSUME NEW i \in DOMAIN ring, NEW m \in Messages, NEW rv \in {-1, 0},
             FillRead(i, m) \/ FillUnread(i, m) \/ FillRet(i, m, rv)
      PROVE  Real'
  <2>1. \E v \in {-1, 0} : Complete(i, m, v)
    BY <1>3 DEF FillRead, FillUnread, FillRet
  <2>2. /\ calls \cup unread \subseteq calls' \cup unread'
        /\ \/ ring[i].hook \in RetHooks /\ UNCHANGED <<calls, unread>>
           \/ calls' \cup unread' = calls \cup unread
                  \cup {[hook |-> ring[i].hook, msg |-> m, ts |-> Ktime]}
    BY <1>3 DEF FillRead, FillUnread, FillRet
  <2>3. Traced'
    BY <1>0, <2>1, <2>2, CompleteTraced
  <2>4. UNCHANGED <<pending, out>>
    BY <2>1 DEF Complete, vars, matching
  <2> QED BY <2>2, <2>3, <2>4, QuietReal
<1>4. CASE Deliver
  <2> DEFINE e == Head(ring)
  <2>0. /\ Traced' /\ UNCHANGED <<calls, unread>>
        /\ e.hook \notin RetHooks => CallOf(e) \in calls \cup unread
    BY <1>0, <1>4, DeliverTraced
  <2>1. e.hook \in Probes /\ e.hdr \in Messages /\ e.ts \in 0 .. clock
    <3>1. e \in Record /\ e.ts \in 0 .. clock
      BY <1>4, HeadRecord DEF Deliver
    <3> QED BY <3>1, Zenon DEF Record
  <2>2. CallOf(e).hook = e.hook /\ CallOf(e).msg = e.hdr /\ CallOf(e).ts = e.ts
    BY DEF CallOf
  <2> HIDE DEF e
  <2>3. CASE RoutingRequest(e.hook, e.hdr, e.ts)
    <3>1. /\ RecordPending(e.hdr, e.ts) /\ RequestSent(e.hook, e.hdr)
          /\ \A l \in out' : l.kind # "LATENCY"
      BY <2>3 DEF RoutingRequest, EventLine
    <3>2. CallOf(e) \in RequestsIn(calls \cup unread)
      BY <2>0, <2>2, <3>1 DEF RequestSent, RequestsIn
    <3>3. /\ DOMAIN pending' = DOMAIN pending \cup {PackKey(e.hdr)}
          /\ \A k \in DOMAIN pending : pending'[k] = pending[k]
          /\ PackKey(e.hdr) \notin DOMAIN pending => pending'[PackKey(e.hdr)] = e.ts
      BY <1>0, <2>1, <3>1, RecordTypes
    <3>4. PendingRealUnlessUnread'
      BY <2>0, <2>2, <3>2, <3>3 DEF PendingRealUnlessUnread, Real, Stems, RequestsIn
    <3>5. LatencyRealUnlessUnread'
      BY <3>1 DEF LatencyRealUnlessUnread
    <3> QED BY <2>0, <3>4, <3>5 DEF Real
  <2>4. CASE RoutingAnswer(e.hook, e.hdr, e.ts)
    <3>1. /\ TryMatch(e.hdr, e.ts) /\ AnswerSeen(e.hook, e.hdr)
          /\ out' = MatchLines(e.hdr, e.ts) \cup {EventLine(e.hook)}
      BY <2>4 DEF RoutingAnswer
    <3>2. CallOf(e) \in AnswersIn(calls \cup unread)
      BY <2>0, <2>2, <3>1 DEF AnswerSeen, AnswersIn
    <3>3. /\ DOMAIN pending' \subseteq DOMAIN pending
          /\ \A k \in DOMAIN pending' : pending'[k] = pending[k]
      BY <1>0, <2>1, <3>1, MatchTypes
    <3>4. PendingRealUnlessUnread'
      BY <2>0, <3>3 DEF PendingRealUnlessUnread, Real, Stems, RequestsIn
    <3>5. ASSUME NEW l \in out', l.kind = "LATENCY"
          PROVE  /\ \E c \in RequestsIn(calls \cup unread) :
                       SameCall(c.msg, l.msg) /\ c.ts = l.send_ts
                 /\ \E c \in AnswersIn(calls \cup unread) :
                       c.msg = l.msg /\ c.ts = l.recv_ts
      <4>1. /\ PackKey(e.hdr) \in DOMAIN pending /\ l.msg = e.hdr
            /\ l.send_ts = pending[PackKey(e.hdr)] /\ l.recv_ts = e.ts
        BY <3>1, <3>5 DEF MatchLines, LatencyEvent, EventLine
      <4>2. PICK c \in RequestsIn(calls \cup unread) :
               PackKey(c.msg) = PackKey(e.hdr) /\ c.ts = pending[PackKey(e.hdr)]
        BY <4>1 DEF Real, PendingRealUnlessUnread, Stems
      <4>3. c.msg \in Messages
        BY <1>0, Zenon DEF Traced, CallSet, RequestsIn
      <4>4. SameCall(c.msg, e.hdr)
        BY <2>1, <4>2, <4>3, PackInjective, MessagesAssumption
      <4> QED BY <2>2, <3>2, <4>1, <4>2, <4>4
    <3>6. LatencyRealUnlessUnread'
      BY <2>0, <3>5 DEF LatencyRealUnlessUnread, RequestsIn, AnswersIn
    <3> QED BY <2>0, <3>4, <3>6 DEF Real
  <2>5. CASE RoutingOther(e.hook, e.hdr, e.rv, e.ts)
    <3>1. pending' = pending /\ \A l \in out' : l.kind # "LATENCY"
      BY <2>5 DEF RoutingOther, EventLine, matching
    <3> QED BY <2>0, <3>1, QuietReal
  <2> QED BY <1>4, <2>3, <2>4, <2>5 DEF Deliver, e
<1>5. CASE StatsStep
  <2>1. UNCHANGED <<ring, calls, unread>>
    BY <1>5 DEF StatsStep, pipe
  <2>2. Traced'
    BY <1>0, <2>1 DEF Traced
  <2>3. /\ DOMAIN pending' \subseteq DOMAIN pending
        /\ \A k \in DOMAIN pending' : pending'[k] = pending[k]
    BY <1>5 DEF StatsStep, SetLogWriter, Tick, FlushReport, EvictExpired, Erase,
                matching
  <2>4. \A l \in out' : l.kind # "LATENCY"
    BY <1>5 DEF StatsStep, SetLogWriter, Tick, FlushReport, EvictExpired,
       ReportLines, ModuleLine, LatencyLine, TimeoutLine
  <2> QED BY <2>1, <2>2, <2>3, <2>4, QuietReal
<1>6. CASE PipeNext
  BY <1>1, <1>2, <1>3, <1>4, <1>5, <1>6, PipelineAssumption
     DEF PipeNext, ReserveFails
<1> QED BY <1>1, <1>6

(* With nothing in the ring and nothing pending there is nothing to show. *)
LEMMA RealInit == PipeInit => Real
BY DEF PipeInit, Init, Real, Traced, PendingRealUnlessUnread,
       LatencyRealUnlessUnread

(* A pending entry is a request that was really sent at that time, or stems *)
(* from an entry probe that could not read its header: never from a return  *)
(* probe, whose records carry leftovers of others.                          *)
THEOREM PendingIsReal == PipeSpec => []PendingRealUnlessUnread
<1>1. Real => PendingRealUnlessUnread
  BY DEF Real
<1> QED BY <1>1, PipeTypeInit, PipeTypeStep, RealInit, RealStep, PTL DEF PipeSpec

(* Both ends of a [LATENCY] line were really made, or an entry probe could  *)
(* not read the header of one of them.                                      *)
THEOREM LatencyIsReal == PipeSpec => []LatencyRealUnlessUnread
<1>1. Real => LatencyRealUnlessUnread
  BY DEF Real
<1> QED BY <1>1, PipeTypeInit, PipeTypeStep, RealInit, RealStep, PTL DEF PipeSpec

(* Through the refinement, what is proved of the [LATENCY] lines of         *)
(* try_match() holds of the pipeline: each joins a request and an answer of *)
(* the same call at their true distance.                                    *)
THEOREM PipelineLatencyGenuine == PipeSpec => []LatencyLinesGenuine
BY PipelineFeedsStats, LatencyGenuine, PTL DEF FeedsStats
=============================================================================
