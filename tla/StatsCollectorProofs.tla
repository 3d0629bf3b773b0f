------------------------ MODULE StatsCollectorProofs ------------------------
(***************************************************************************)
(* What holds of StatsCollector for every set of probes and messages,      *)
(* every field width, every word size and every bound.                     *)
(***************************************************************************)
EXTENDS StatsCollector, LatencyReportProofs

(* One step of mixed-radix packing can be undone: a digit below the radix  *)
(* and the number above it are determined by the packed value.             *)
LEMMA RadixInjective ==
    ASSUME NEW B \in Nat \ {0}, NEW a \in Nat, NEW c \in Nat,
           NEW x \in 0 .. B - 1, NEW y \in 0 .. B - 1,
           a * B + x = c * B + y
    PROVE  a = c /\ x = y
<1>1. ASSUME NEW p \in Nat, NEW q \in Nat, p < q,
             NEW u \in 0 .. B - 1, NEW v \in 0 .. B - 1
      PROVE  p * B + u < q * B + v
  <2>1. PICK d \in Nat : q = p + 1 + d
    <3>1. q - p - 1 \in Nat /\ q = p + 1 + (q - p - 1)
      BY <1>1
    <3> QED BY <3>1
  <2>2. q * B = p * B + B + d * B
    BY <2>1
  <2>3. d * B \in Nat /\ p * B \in Nat /\ q * B \in Nat
    OBVIOUS
  <2> QED BY <2>2, <2>3
<1>2. ~ (a < c)
  BY <1>1
<1>3. ~ (c < a)
  BY <1>1
<1>4. a = c
  BY <1>2, <1>3
<1> QED BY <1>4

(* record_pending and try_match: two headers are packed to the same key     *)
(* only if all four of their fields agree.                                  *)
LEMMA PackInjective ==
    ASSUME NEW m \in Message, NEW n \in Message, PackKey(m) = PackKey(n)
    PROVE  SameCall(m, n)
<1> DEFINE Hi(x) == x.svc * FieldRange + x.method
           Mid(x) == Hi(x) * FieldRange + x.client
<1> USE MessagesAssumption
<1>1. ASSUME NEW x \in Message
      PROVE  /\ x.svc \in Nat /\ x.method \in 0 .. FieldRange - 1
             /\ x.client \in 0 .. FieldRange - 1
             /\ x.session \in 0 .. FieldRange - 1
             /\ Hi(x) \in Nat /\ Mid(x) \in Nat
  BY DEF Message, Fields
<1>2. Mid(m) * FieldRange + m.session = Mid(n) * FieldRange + n.session
  BY DEF PackKey
<1>3. Mid(m) = Mid(n) /\ m.session = n.session
  <2> HIDE DEF Mid
  <2> QED BY <1>1, <1>2, RadixInjective
<1>4. Hi(m) = Hi(n) /\ m.client = n.client
  <2>1. Hi(m) * FieldRange + m.client = Hi(n) * FieldRange + n.client
    BY <1>3
  <2> HIDE DEF Hi, Mid
  <2> QED BY <1>1, <2>1, RadixInjective
<1>5. m.svc = n.svc /\ m.method = n.method
  <2>1. m.svc * FieldRange + m.method = n.svc * FieldRange + n.method
    BY <1>4
  <2>2. /\ m.svc \in Nat /\ m.method \in 0 .. FieldRange - 1
        /\ n.svc \in Nat /\ n.method \in 0 .. FieldRange - 1
    BY <1>1
  <2> HIDE DEF Hi, Mid
  <2> QED BY <2>1, <2>2, RadixInjective
<1> QED BY <1>3, <1>4, <1>5 DEF SameCall

(* A packed number of two digits stays below the product of the radices. *)
LEMMA RadixBound ==
    ASSUME NEW B \in Nat \ {0}, NEW A \in Nat \ {0},
           NEW a \in 0 .. A - 1, NEW x \in 0 .. B - 1
    PROVE  a * B + x \in 0 .. A * B - 1 /\ A * B \in Nat \ {0}
<1>1. PICK d \in Nat : A = a + 1 + d
  <2>1. A - a - 1 \in Nat /\ A = a + 1 + (A - a - 1)
    OBVIOUS
  <2> QED BY <2>1
<1>2. A * B = a * B + B + d * B
  BY <1>1
<1>3. d * B \in Nat /\ a * B \in Nat
  OBVIOUS
<1> QED BY <1>2, <1>3

(* A packed header is a key: it fits the four fields' width. *)
LEMMA PackInKeys == ASSUME NEW m \in Message PROVE PackKey(m) \in Keys
<1> DEFINE B2 == FieldRange * FieldRange
           B3 == B2 * FieldRange
<1> USE MessagesAssumption
<1>1. /\ m.svc \in 0 .. FieldRange - 1 /\ m.method \in 0 .. FieldRange - 1
      /\ m.client \in 0 .. FieldRange - 1 /\ m.session \in 0 .. FieldRange - 1
  BY DEF Message, Fields
<1>2. m.svc * FieldRange + m.method \in 0 .. B2 - 1 /\ B2 \in Nat \ {0}
  BY <1>1, RadixBound
<1>3. /\ (m.svc * FieldRange + m.method) * FieldRange + m.client \in 0 .. B3 - 1
      /\ B3 \in Nat \ {0}
  <2> HIDE DEF B2
  <2> QED BY <1>1, <1>2, RadixBound DEF B3
<1>4. PackKey(m) \in 0 .. B3 * FieldRange - 1
  <2> HIDE DEF B3
  <2> QED BY <1>1, <1>3, RadixBound DEF PackKey
<1> QED BY <1>4 DEF Keys

-----------------------------------------------------------------------------
(* Type correctness *)

(* A latency that try_match believes is the true distance of timestamps     *)
(* that are in order: the 64-bit difference of others is too large.         *)
LEMMA SubInOrder ==
    ASSUME NEW a \in 0 .. MaxClock, NEW b \in 0 .. MaxClock,
           NEW L \in {SANITY_NS, TIMEOUT_NS}, Sub64(a, b) <= L
    PROVE  b <= a /\ Sub64(a, b) = a - b /\ Sub64(a, b) \in 0 .. L
BY TimeAssumption DEF Sub64

(* process_event keeps its counters natural numbers. *)
LEMMA CountTypes ==
    ASSUME TypeOK, NEW h \in Probes, NEW rv, CountEvent(h, rv)
    PROVE  /\ hook_stats' \in [Probes -> [total : Nat, succ : Nat, fail : Nat]]
           /\ mod_send' \in [Modules -> Nat] /\ mod_recv' \in [Modules -> Nat]
<1>1. ModuleOf(h) \in Modules
  BY DEF ModuleOf, Modules
<1>2. Bump(hook_stats[h], h \in RetHooks, rv)
          \in [total : Nat, succ : Nat, fail : Nat]
  BY DEF TypeOK, Bump
<1>3. hook_stats' = [hook_stats EXCEPT ![h] =
                        Bump(hook_stats[h], h \in RetHooks, rv)]
  BY DEF CountEvent, Bump
<1>4. hook_stats' \in [Probes -> [total : Nat, succ : Nat, fail : Nat]]
  <2> HIDE DEF Bump
  <2> QED BY <1>2, <1>3 DEF TypeOK
<1>5. mod_send' \in [Modules -> Nat] /\ mod_recv' \in [Modules -> Nat]
  <2>1. \/ mod_send' = mod_send
        \/ mod_send' = [mod_send EXCEPT ![ModuleOf(h)] = @ + 1]
    BY DEF CountEvent
  <2>2. \/ mod_recv' = mod_recv
        \/ mod_recv' = [mod_recv EXCEPT ![ModuleOf(h)] = @ + 1]
    BY DEF CountEvent
  <2>3. mod_send \in [Modules -> Nat] /\ mod_recv \in [Modules -> Nat]
    BY DEF TypeOK
  <2> QED BY <1>1, <2>1, <2>2, <2>3
<1> QED BY <1>4, <1>5

(* The history counters too. *)
LEMMA WitnessTypes ==
    ASSUME TypeOK, NEW h \in Probes, Witness(h)
    PROVE  /\ events' \in 0 .. MaxEvents
           /\ seen' \in [Modules -> Nat] /\ reported' \in [Modules -> Nat]
<1>1. ModuleOf(h) \in Modules
  BY DEF ModuleOf, Modules
<1>2. events' \in 0 .. MaxEvents
  <2>1. MaxEvents \in Nat
    BY TimeAssumption
  <2> QED BY <2>1 DEF Witness, TypeOK
<1>3. seen' \in [Modules -> Nat]
  <2>1. (IF h \in RetHooks THEN 0 ELSE 1) \in Nat
    OBVIOUS
  <2> QED BY <1>1, <2>1 DEF Witness, TypeOK
<1>4. reported' \in [Modules -> Nat]
  BY DEF Witness, TypeOK
<1> QED BY <1>2, <1>3, <1>4

(* A module that is skipped had counted nothing: after a report all module  *)
(* counters are zero.                                                       *)
LEMMA ReportResets ==
    /\ AfterReport(mod_send) = [m \in Modules |-> 0]
    /\ AfterReport(mod_recv) = [m \in Modules |-> 0]
<1>1. \A m \in Modules : m \notin Active => mod_send[m] = 0 /\ mod_recv[m] = 0
  BY DEF Active
<1> QED BY <1>1 DEF AfterReport

(* What the report's lines account for is a number. *)
LEMMA ReportTypes ==
    ASSUME TypeOK, NEW L \in {ReportLines, {}}
    PROVE  /\ \A m \in Modules : CountedIn(L, m) \in Nat
           /\ SamplesIn(L) \in Nat
           /\ \A l \in L : l.kind \in LineKinds
<1>1. \A m \in Active : /\ ModuleLine(m).kind = "module"
                        /\ ModuleLine(m).send \in Nat
                        /\ ModuleLine(m).recv \in Nat
  BY DEF Active, ModuleLine, TypeOK
<1>2. LatencyLine(latency).kind = "latency" /\ LatencyLine(latency).samples \in Nat
  <2>1. Len(latency) \in Nat
    BY DEF TypeOK
  <2> QED BY <2>1 DEF LatencyLine
<1>3. \A l \in L : \/ l.kind = "module" /\ l.send \in Nat /\ l.recv \in Nat
                   \/ l.kind = "latency" /\ l.samples \in Nat
  BY <1>1, <1>2 DEF ReportLines
<1>4. \A m \in Modules : CountedIn(L, m) \in Nat
  BY <1>3 DEF CountedIn
<1>5. SamplesIn(L) \in Nat
  BY <1>3 DEF SamplesIn
<1>6. \A l \in L : l.kind \in LineKinds
  BY <1>3 DEF LineKinds
<1> QED BY <1>4, <1>5, <1>6

(* Erasing keys keeps the rest of the pending table. *)
LEMMA EraseTypes ==
    ASSUME TypeOK, NEW S
    PROVE  /\ DOMAIN Erase(pending, S) = DOMAIN pending \ S
           /\ DOMAIN Erase(pending, S) \subseteq Keys
           /\ Erase(pending, S) \in [DOMAIN Erase(pending, S) -> 0 .. clock]
           /\ \A k \in DOMAIN pending \ S : Erase(pending, S)[k] = pending[k]
BY DEF Erase, TypeOK

(* Recording a request keeps the pending table well formed. *)
LEMMA RecordTypes ==
    ASSUME TypeOK, NEW m \in Messages, NEW t \in 0 .. clock, RecordPending(m, t)
    PROVE  /\ DOMAIN pending' = DOMAIN pending \cup {PackKey(m)}
           /\ DOMAIN pending' \subseteq Keys
           /\ pending' \in [DOMAIN pending' -> 0 .. clock]
           /\ \A k \in DOMAIN pending : pending'[k] = pending[k]
           /\ PackKey(m) \notin DOMAIN pending => pending'[PackKey(m)] = t
           /\ sent' \subseteq [msg : Messages, ts : 0 .. clock]
           /\ tally' \in [recorded : Nat, matched : Nat, discarded : Nat,
                          expired : Nat, summarised : Nat]
<1>1. PackKey(m) \in Keys
  BY PackInKeys, MessagesAssumption
<1>2. DOMAIN pending \subseteq Keys /\ pending \in [DOMAIN pending -> 0 .. clock]
  BY DEF TypeOK
<1>3. pending' = [j \in DOMAIN pending \cup {PackKey(m)} |->
                     IF j \in DOMAIN pending THEN pending[j] ELSE t]
  BY DEF RecordPending, Inserted
<1>4. /\ DOMAIN pending' = DOMAIN pending \cup {PackKey(m)}
      /\ DOMAIN pending' \subseteq Keys
      /\ pending' \in [DOMAIN pending' -> 0 .. clock]
      /\ \A k \in DOMAIN pending : pending'[k] = pending[k]
      /\ PackKey(m) \notin DOMAIN pending => pending'[PackKey(m)] = t
  BY <1>1, <1>2, <1>3
<1>5. sent' \subseteq [msg : Messages, ts : 0 .. clock]
  BY DEF TypeOK, RecordPending, Inserted
<1>6. tally' \in [recorded : Nat, matched : Nat, discarded : Nat,
                  expired : Nat, summarised : Nat]
  <2>1. tally \in [recorded : Nat, matched : Nat, discarded : Nat,
                   expired : Nat, summarised : Nat]
    BY DEF TypeOK
  <2>2. (IF PackKey(m) \in DOMAIN pending THEN 0 ELSE 1) \in Nat
    OBVIOUS
  <2>3. tally' = [tally EXCEPT !.recorded = tally.recorded +
                      (IF PackKey(m) \in DOMAIN pending THEN 0 ELSE 1)]
    BY DEF RecordPending, Inserted
  <2> QED BY <2>1, <2>2, <2>3
<1> QED BY <1>4, <1>5, <1>6

(* So does matching an answer, and the new sample is within 60 s. *)
LEMMA MatchTypes ==
    ASSUME TypeOK, NEW m \in Messages, NEW t \in 0 .. clock, TryMatch(m, t)
    PROVE  /\ DOMAIN pending' = DOMAIN pending \ {PackKey(m)}
           /\ DOMAIN pending' \subseteq Keys
           /\ pending' \in [DOMAIN pending' -> 0 .. clock]
           /\ \A k \in DOMAIN pending' : pending'[k] = pending[k]
           /\ latency' \in Seq(0 .. SANITY_NS)
           /\ tally' \in [recorded : Nat, matched : Nat, discarded : Nat,
                          expired : Nat, summarised : Nat]
<1> DEFINE k == PackKey(m)
           lat == Sub64(t, pending[k])
<1>1. /\ DOMAIN pending \subseteq Keys /\ pending \in [DOMAIN pending -> 0 .. clock]
      /\ latency \in Seq(0 .. SANITY_NS) /\ clock \in 0 .. MaxClock
      /\ tally \in [recorded : Nat, matched : Nat, discarded : Nat,
                    expired : Nat, summarised : Nat]
  BY DEF TypeOK
<1>2. CASE k \notin DOMAIN pending
  <2>1. UNCHANGED <<pending, latency, tally>>
    BY <1>2 DEF TryMatch
  <2>2. DOMAIN pending \ {k} = DOMAIN pending
    BY <1>2
  <2> QED BY <1>1, <2>1, <2>2
<1>3. CASE k \in DOMAIN pending
  <2>1. pending' = Erase(pending, {k})
    BY <1>3 DEF TryMatch
  <2>2. Believable(lat) => lat \in 0 .. SANITY_NS
    <3>1. t \in 0 .. MaxClock /\ pending[k] \in 0 .. MaxClock
      BY <1>1, <1>3, TimeAssumption
    <3> QED BY <3>1, SubInOrder DEF Believable
  <2>3. latency' \in Seq(0 .. SANITY_NS)
    <3>1. \/ latency' = latency
          \/ Believable(lat) /\ latency' = Append(latency, lat)
      BY <1>3 DEF TryMatch
    <3>2. CASE latency' = latency
      BY <1>1, <3>2
    <3>3. CASE Believable(lat) /\ latency' = Append(latency, lat)
      <4>1. lat \in 0 .. SANITY_NS
        BY <2>2, <3>3
      <4>2. Append(latency, lat) \in Seq(0 .. SANITY_NS)
        <5> HIDE DEF lat
        <5> QED BY <1>1, <4>1, AppendProperties
      <4> QED BY <3>3, <4>2
    <3> QED BY <3>1, <3>2, <3>3
  <2>4. \/ tally' = [tally EXCEPT !.matched = @ + 1]
        \/ tally' = [tally EXCEPT !.discarded = @ + 1]
    BY <1>3 DEF TryMatch
  <2>5. tally' \in [recorded : Nat, matched : Nat, discarded : Nat,
                    expired : Nat, summarised : Nat]
    BY <1>1, <2>4
  <2> QED BY <2>1, <2>3, <2>5, EraseTypes
<1> QED BY <1>2, <1>3

(* The pending table is finite: its keys are 64-bit numbers. *)
LEMMA PendingFinite ==
    ASSUME TypeOK
    PROVE  /\ IsFiniteSet(DOMAIN pending)
           /\ Cardinality(DOMAIN pending) \in Nat
           /\ IsFiniteSet(Expired) /\ Cardinality(Expired) \in Nat
<1>1. FieldRange * FieldRange * FieldRange * FieldRange - 1 \in Int
  BY MessagesAssumption
<1>2. IsFiniteSet(Keys)
  BY <1>1, FS_Interval DEF Keys
<1>3. DOMAIN pending \subseteq Keys /\ Expired \subseteq Keys
  BY DEF TypeOK, Expired
<1>4. IsFiniteSet(DOMAIN pending) /\ IsFiniteSet(Expired)
  BY <1>2, <1>3, FS_Subset
<1> QED BY <1>4, FS_CardinalityType

(* A step that leaves the pending table and the history alone, such as an   *)
(* event that is only counted, keeps their part of the type invariant.      *)
LEMMA CountedOnlyTypes ==
    ASSUME TypeOK, NEW h \in Probes, NEW rv, CountEvent(h, rv), Witness(h),
           out' = {EventLine(h)},
           UNCHANGED <<clock, log_writer, last_report_ns, matching, sent, tally>>
    PROVE  TypeOK'
<1>1. /\ hook_stats' \in [Probes -> [total : Nat, succ : Nat, fail : Nat]]
      /\ mod_send' \in [Modules -> Nat] /\ mod_recv' \in [Modules -> Nat]
  BY CountTypes
<1>2. /\ events' \in 0 .. MaxEvents
      /\ seen' \in [Modules -> Nat] /\ reported' \in [Modules -> Nat]
  BY WitnessTypes
<1>3. \A l \in out' : l.kind \in LineKinds
  BY DEF EventLine, LineKinds
<1> QED BY <1>1, <1>2, <1>3 DEF TypeOK, matching

(* Every step of the statistics engine keeps the type invariant. *)
LEMMA TypeStep == TypeOK /\ [Next]_vars => TypeOK'
<1> SUFFICES ASSUME TypeOK, [Next]_vars PROVE TypeOK'
  OBVIOUS
<1>0. /\ MaxClock \in Nat /\ MaxEvents \in Nat
  BY TimeAssumption
<1>1. CASE SetLogWriter
  BY <1>1 DEF SetLogWriter, TypeOK, counters, matching, history
<1>2. CASE Tick
  <2>1. clock' \in 0 .. MaxClock /\ 0 .. clock \subseteq 0 .. clock'
    BY <1>0, <1>2 DEF Tick, TypeOK
  <2>2. pending \in [DOMAIN pending -> 0 .. clock']
    BY <2>1 DEF TypeOK
  <2>3. sent \subseteq [msg : Messages, ts : 0 .. clock']
    BY <2>1 DEF TypeOK
  <2>4. last_report_ns \in 0 .. clock'
    BY <2>1 DEF TypeOK
  <2> QED BY <1>2, <2>1, <2>2, <2>3, <2>4
          DEF Tick, TypeOK, counters, matching, history
<1>3. ASSUME NEW h \in Probes, NEW m \in Messages, NEW t \in 0 .. clock,
             RoutingRequest(h, m, t)
      PROVE  TypeOK'
  <2>1. h \in Probes /\ CountEvent(h, 0) /\ Witness(h) /\ RecordPending(m, t)
    BY <1>3 DEF RoutingRequest
  <2>2. /\ hook_stats' \in [Probes -> [total : Nat, succ : Nat, fail : Nat]]
        /\ mod_send' \in [Modules -> Nat] /\ mod_recv' \in [Modules -> Nat]
    BY <2>1, CountTypes
  <2>3. /\ events' \in 0 .. MaxEvents
        /\ seen' \in [Modules -> Nat] /\ reported' \in [Modules -> Nat]
    BY <2>1, WitnessTypes
  <2>4. /\ DOMAIN pending' \subseteq Keys
        /\ pending' \in [DOMAIN pending' -> 0 .. clock]
        /\ sent' \subseteq [msg : Messages, ts : 0 .. clock]
        /\ tally' \in [recorded : Nat, matched : Nat, discarded : Nat,
                       expired : Nat, summarised : Nat]
    BY <2>1, RecordTypes
  <2>5. \A l \in out' : l.kind \in LineKinds
    BY <1>3 DEF RoutingRequest, EventLine, LineKinds
  <2>6. UNCHANGED <<clock, log_writer, last_report_ns, latency>>
    BY <1>3 DEF RoutingRequest, RecordPending, Inserted
  <2> QED BY <2>2, <2>3, <2>4, <2>5, <2>6 DEF TypeOK
<1>4. ASSUME NEW h \in Probes, NEW m \in Messages, NEW t \in 0 .. clock,
             RoutingAnswer(h, m, t)
      PROVE  TypeOK'
  <2>1. h \in Probes /\ CountEvent(h, 0) /\ Witness(h) /\ TryMatch(m, t)
    BY <1>4 DEF RoutingAnswer
  <2>2. /\ hook_stats' \in [Probes -> [total : Nat, succ : Nat, fail : Nat]]
        /\ mod_send' \in [Modules -> Nat] /\ mod_recv' \in [Modules -> Nat]
    BY <2>1, CountTypes
  <2>3. /\ events' \in 0 .. MaxEvents
        /\ seen' \in [Modules -> Nat] /\ reported' \in [Modules -> Nat]
    BY <2>1, WitnessTypes
  <2>4. /\ DOMAIN pending' \subseteq Keys
        /\ pending' \in [DOMAIN pending' -> 0 .. clock]
        /\ latency' \in Seq(0 .. SANITY_NS)
        /\ tally' \in [recorded : Nat, matched : Nat, discarded : Nat,
                       expired : Nat, summarised : Nat]
    BY <2>1, MatchTypes
  <2>5. \A l \in out' : l.kind \in LineKinds
    BY <1>4 DEF RoutingAnswer, MatchLines, LatencyEvent, EventLine, LineKinds
  <2>6. UNCHANGED <<clock, log_writer, last_report_ns, sent>>
    BY <1>4 DEF RoutingAnswer, TryMatch
  <2> QED BY <2>2, <2>3, <2>4, <2>5, <2>6 DEF TypeOK
<1>5. ASSUME NEW h \in Probes, NEW m \in Messages, NEW rv, NEW t,
             RoutingOther(h, m, rv, t)
      PROVE  TypeOK'
  BY <1>5, CountedOnlyTypes DEF RoutingOther
<1>6. ASSUME NEW h \in Probes, NEW rv, NEW t, AppEvent(h, rv, t)
      PROVE  TypeOK'
  BY <1>6, CountedOnlyTypes DEF AppEvent
<1>7. ASSUME NEW h \in Probes, NEW t, SdEvent(h, t)
      PROVE  TypeOK'
  BY <1>7, CountedOnlyTypes DEF SdEvent
<1>8. CASE FlushReport
  <2>1. out' \in {ReportLines, {}}
    BY <1>8 DEF FlushReport
  <2>2. reported' \in [Modules -> Nat]
    <3>1. \A m \in Modules : reported[m] \in Nat /\ CountedIn(out', m) \in Nat
      BY <2>1, ReportTypes DEF TypeOK
    <3>2. reported' = [m \in Modules |-> reported[m] + CountedIn(out', m)]
      BY <1>8 DEF FlushReport
    <3> HIDE DEF Modules
    <3> QED BY <3>1, <3>2
  <2>3. tally' \in [recorded : Nat, matched : Nat, discarded : Nat,
                    expired : Nat, summarised : Nat]
    <3>1. SamplesIn(out') \in Nat
      BY <2>1, ReportTypes
    <3>2. tally' = [tally EXCEPT !.summarised = tally.summarised + SamplesIn(out')]
      BY <1>8 DEF FlushReport
    <3>3. tally \in [recorded : Nat, matched : Nat, discarded : Nat,
                     expired : Nat, summarised : Nat]
      BY DEF TypeOK
    <3> QED BY <3>1, <3>2, <3>3
  <2>4. \A l \in out' : l.kind \in LineKinds
    BY <2>1, ReportTypes
  <2>5. /\ hook_stats' \in [Probes -> [total : Nat, succ : Nat, fail : Nat]]
        /\ mod_send' \in [Modules -> Nat] /\ mod_recv' \in [Modules -> Nat]
        /\ latency' \in Seq(0 .. SANITY_NS)
    <3>1. CASE log_writer
      BY <1>8, <3>1, EmptySeq, ReportResets DEF FlushReport, ResetPeriod, ZeroStats
    <3>2. CASE ~log_writer
      BY <1>8, <3>2 DEF FlushReport, counters, TypeOK
    <3> QED BY <3>1, <3>2
  <2>6. last_report_ns' \in 0 .. clock
    BY <1>0, <1>8 DEF FlushReport, TypeOK
  <2>7. UNCHANGED <<clock, log_writer, pending, events, sent, seen>>
    BY <1>8 DEF FlushReport
  <2> QED BY <2>2, <2>3, <2>4, <2>5, <2>6, <2>7 DEF TypeOK
<1>9. CASE EvictExpired
  <2>1. pending' = Erase(pending, Expired)
    BY <1>9 DEF EvictExpired
  <2>2. /\ DOMAIN pending' \subseteq Keys
        /\ pending' \in [DOMAIN pending' -> 0 .. clock]
    BY <2>1, EraseTypes
  <2>3. tally' \in [recorded : Nat, matched : Nat, discarded : Nat,
                    expired : Nat, summarised : Nat]
    <3>1. tally' = [tally EXCEPT !.expired = tally.expired + Cardinality(Expired)]
      BY <1>9 DEF EvictExpired
    <3>2. tally \in [recorded : Nat, matched : Nat, discarded : Nat,
                     expired : Nat, summarised : Nat]
      BY DEF TypeOK
    <3> QED BY <3>1, <3>2, PendingFinite
  <2>4. \A l \in out' : l.kind \in LineKinds
    BY <1>9 DEF EvictExpired, TimeoutLine, LineKinds
  <2>5. UNCHANGED <<clock, log_writer, hook_stats, mod_send, mod_recv, latency,
                    last_report_ns, events, sent, seen, reported>>
    BY <1>9 DEF EvictExpired, counters
  <2> QED BY <2>2, <2>3, <2>4, <2>5 DEF TypeOK
<1>10. CASE UNCHANGED vars
  BY <1>10 DEF TypeOK, vars, counters, matching, history
<1> QED
  BY <1>1, <1>2, <1>3, <1>4, <1>5, <1>6, <1>7, <1>8, <1>9, <1>10 DEF Next

(* A statistics engine that has seen nothing is well typed. *)
LEMMA TypeInit == Init => TypeOK
<1> SUFFICES ASSUME Init PROVE TypeOK
  OBVIOUS
<1>1. latency \in Seq(0 .. SANITY_NS)
  BY EmptySeq DEF Init
<1>2. /\ MaxClock \in Nat /\ MaxEvents \in Nat
  BY TimeAssumption
<1>3. clock \in 0 .. MaxClock /\ events \in 0 .. MaxEvents
      /\ last_report_ns \in 0 .. clock
  BY <1>2 DEF Init
<1>4. DOMAIN pending = {} /\ pending \in [DOMAIN pending -> 0 .. clock]
  BY DEF Init
<1>5. hook_stats \in [Probes -> [total : Nat, succ : Nat, fail : Nat]]
  BY DEF Init, ZeroStats
<1>6. tally \in [recorded : Nat, matched : Nat, discarded : Nat,
                 expired : Nat, summarised : Nat]
  BY DEF Init
<1> QED BY <1>1, <1>3, <1>4, <1>5, <1>6 DEF Init, TypeOK

(* The statistics engine is type correct for every choice of constants:     *)
(* among other things no pending timestamp lies in the future and no sample *)
(* exceeds 60 s, however the ring buffers reorder the events.               *)
THEOREM TypeCorrect == Spec => []TypeOK
BY TypeInit, TypeStep, PTL DEF Spec

-----------------------------------------------------------------------------
(* What the lines written say *)

(* The inductive invariant: the two line properties need that what lies in  *)
(* the pending table is the timestamp of a request with that key.           *)
Genuine == PendingGenuine /\ LatencyLinesGenuine /\ TimeoutsReal

(* A step that writes no [LATENCY] and no timeout line and takes nothing    *)
(* new into the pending table keeps Genuine.                                *)
LEMMA QuietStep ==
    ASSUME Genuine, sent \subseteq sent',
           DOMAIN pending' \subseteq DOMAIN pending,
           \A k \in DOMAIN pending' : pending'[k] = pending[k],
           \A l \in out' : l.kind \notin {"LATENCY", "timeout"}
    PROVE  Genuine'
BY DEF Genuine, PendingGenuine, LatencyLinesGenuine, TimeoutsReal

(* Every step of the statistics engine keeps Genuine. *)
LEMMA GenuineStep == TypeOK /\ Genuine /\ [Next]_vars => Genuine'
<1> SUFFICES ASSUME TypeOK, Genuine, [Next]_vars PROVE Genuine'
  OBVIOUS
<1>1. CASE SetLogWriter \/ Tick
  BY <1>1, QuietStep DEF SetLogWriter, Tick, matching, history
<1>3. ASSUME NEW h \in Probes, NEW m \in Messages, NEW t \in 0 .. clock,
             RoutingRequest(h, m, t)
      PROVE  Genuine'
  <2>1. RecordPending(m, t) /\ out' = {EventLine(h)}
    BY <1>3 DEF RoutingRequest
  <2>2. /\ DOMAIN pending' = DOMAIN pending \cup {PackKey(m)}
        /\ \A k \in DOMAIN pending : pending'[k] = pending[k]
        /\ PackKey(m) \notin DOMAIN pending => pending'[PackKey(m)] = t
    BY <2>1, RecordTypes
  <2>3. sent' = sent \cup {[msg |-> m, ts |-> t]}
    BY <2>1 DEF RecordPending, Inserted
  <2>4. PendingGenuine'
    <3> SUFFICES ASSUME NEW k \in DOMAIN pending'
                 PROVE  \E s \in sent' : PackKey(s.msg) = k /\ s.ts = pending'[k]
      BY DEF PendingGenuine
    <3>1. CASE k \in DOMAIN pending
      BY <2>2, <2>3, <3>1 DEF Genuine, PendingGenuine
    <3>2. CASE k \notin DOMAIN pending
      <4>1. k = PackKey(m) /\ pending'[k] = t
        BY <2>2, <3>2
      <4>2. [msg |-> m, ts |-> t] \in sent'
        BY <2>3
      <4> QED BY <4>1, <4>2
    <3> QED BY <3>1, <3>2
  <2>5. LatencyLinesGenuine' /\ TimeoutsReal'
    BY <2>1 DEF LatencyLinesGenuine, TimeoutsReal, EventLine
  <2> QED BY <2>4, <2>5 DEF Genuine
<1>4. ASSUME NEW h \in Probes, NEW m \in Messages, NEW t \in 0 .. clock,
             RoutingAnswer(h, m, t)
      PROVE  Genuine'
  <2>1. TryMatch(m, t) /\ out' = MatchLines(m, t) \cup {EventLine(h)}
    BY <1>4 DEF RoutingAnswer
  <2>2. /\ DOMAIN pending' \subseteq DOMAIN pending
        /\ \A k \in DOMAIN pending' : pending'[k] = pending[k]
        /\ sent' = sent
    BY <2>1, MatchTypes DEF TryMatch
  <2>3. PendingGenuine'
    BY <2>2 DEF Genuine, PendingGenuine
  <2>4. TimeoutsReal'
    BY <2>1 DEF TimeoutsReal, MatchLines, LatencyEvent, EventLine
  <2>5. LatencyLinesGenuine'
    <3> DEFINE k == PackKey(m)
    <3> SUFFICES ASSUME NEW l \in out', l.kind = "LATENCY"
                 PROVE  /\ \E s \in sent : SameCall(s.msg, l.msg) /\ s.ts = l.send_ts
                        /\ l.send_ts <= l.recv_ts
                        /\ l.lat = l.recv_ts - l.send_ts
                        /\ l.lat <= SANITY_NS
      BY <2>2 DEF LatencyLinesGenuine
    <3>1. /\ k \in DOMAIN pending /\ Believable(Sub64(t, pending[k]))
          /\ l = LatencyEvent(m, pending[k], t)
      BY <2>1 DEF MatchLines, EventLine
    <3>2. /\ l.msg = m /\ l.send_ts = pending[k] /\ l.recv_ts = t
          /\ l.lat = Sub64(t, pending[k])
      BY <3>1 DEF LatencyEvent
    <3>3. t \in 0 .. MaxClock /\ pending[k] \in 0 .. MaxClock
      <4>1. clock \in 0 .. MaxClock /\ pending \in [DOMAIN pending -> 0 .. clock]
        BY DEF TypeOK
      <4> QED BY <3>1, <4>1, TimeAssumption
    <3>4. /\ pending[k] <= t /\ Sub64(t, pending[k]) = t - pending[k]
          /\ Sub64(t, pending[k]) <= SANITY_NS
      BY <3>1, <3>3, SubInOrder DEF Believable
    <3>5. PICK s \in sent : PackKey(s.msg) = k /\ s.ts = pending[k]
      BY <3>1 DEF Genuine, PendingGenuine
    <3>6. s.msg \in Message /\ m \in Message
      BY MessagesAssumption DEF TypeOK
    <3>7. SameCall(s.msg, m)
      BY <3>5, <3>6, PackInjective
    <3> HIDE DEF k
    <3> QED BY <3>2, <3>4, <3>5, <3>7
  <2> QED BY <2>3, <2>4, <2>5 DEF Genuine
<1>5. ASSUME NEW h \in Probes, NEW m \in Messages, NEW rv, NEW t,
             RoutingOther(h, m, rv, t)
      PROVE  Genuine'
  <2>1. out' = {EventLine(h)} /\ UNCHANGED <<pending, sent>>
    BY <1>5 DEF RoutingOther, matching
  <2> QED BY <2>1, QuietStep DEF EventLine
<1>6. ASSUME NEW h \in Probes, NEW rv, NEW t, AppEvent(h, rv, t) \/ SdEvent(h, t)
      PROVE  Genuine'
  <2>1. out' = {EventLine(h)} /\ UNCHANGED <<pending, sent>>
    BY <1>6 DEF AppEvent, SdEvent, matching
  <2> QED BY <2>1, QuietStep DEF EventLine
<1>7. CASE FlushReport
  <2>1. \A l \in out' : l.kind \in {"module", "latency"}
    <3>1. LatencyLine(latency).kind = "latency"
      BY DEF LatencyLine
    <3>2. \A m \in Active : ModuleLine(m).kind = "module"
      BY DEF ModuleLine
    <3> QED BY <1>7, <3>1, <3>2 DEF FlushReport, ReportLines
  <2> QED BY <1>7, <2>1, QuietStep DEF FlushReport
<1>8. CASE EvictExpired
  <2>1. pending' = Erase(pending, Expired) /\ UNCHANGED <<clock, sent>>
    BY <1>8 DEF EvictExpired
  <2>2. PendingGenuine'
    <3>1. /\ DOMAIN pending' \subseteq DOMAIN pending
          /\ \A k \in DOMAIN pending' : pending'[k] = pending[k]
      BY <2>1, EraseTypes
    <3> QED BY <2>1, <3>1 DEF Genuine, PendingGenuine
  <2>3. LatencyLinesGenuine'
    BY <1>8 DEF EvictExpired, TimeoutLine, LatencyLinesGenuine
  <2>4. TimeoutsReal'
    <3> SUFFICES ASSUME NEW k \in Expired
                 PROVE  \E s \in sent :
                            /\ PackKey(s.msg) = TimeoutLine(k).key
                            /\ clock - s.ts > TIMEOUT_NS
                            /\ TimeoutLine(k).elapsed_ms
                                   = (clock - s.ts) \div NS_PER_MS
      BY <1>8, <2>1 DEF EvictExpired, TimeoutsReal
    <3>1. k \in DOMAIN pending /\ Sub64(clock, pending[k]) > TIMEOUT_NS
      BY DEF Expired
    <3>2. Sub64(clock, pending[k]) = clock - pending[k]
      BY <3>1, TimeAssumption DEF Sub64, TypeOK
    <3>3. PICK s \in sent : PackKey(s.msg) = k /\ s.ts = pending[k]
      BY <3>1 DEF Genuine, PendingGenuine
    <3> QED BY <3>1, <3>2, <3>3 DEF TimeoutLine
  <2> QED BY <2>2, <2>3, <2>4 DEF Genuine
<1>9. CASE UNCHANGED vars
  BY <1>9 DEF Genuine, PendingGenuine, LatencyLinesGenuine, TimeoutsReal,
              vars, counters, matching, history
<1> QED BY <1>1, <1>3, <1>4, <1>5, <1>6, <1>7, <1>8, <1>9 DEF Next

(* Initially the pending table is empty and nothing has been written. *)
LEMMA GenuineInit == Init => Genuine
BY DEF Init, Genuine, PendingGenuine, LatencyLinesGenuine, TimeoutsReal

(* record_pending: whatever the pending table holds was put there for a     *)
(* request that a sending probe saw, with the timestamp of that event.      *)
THEOREM PendingIsGenuine == Spec => []PendingGenuine
<1>1. Genuine => PendingGenuine
  BY DEF Genuine
<1> QED BY <1>1, TypeCorrect, GenuineInit, GenuineStep, PTL DEF Spec

(* try_match, whatever the messages, the key width and the order in which   *)
(* the events arrive: every [LATENCY] line pairs an answer with a request   *)
(* of the same call that was really seen, and prints their true distance.   *)
THEOREM LatencyGenuine == Spec => []LatencyLinesGenuine
<1>1. Genuine => LatencyLinesGenuine
  BY DEF Genuine
<1> QED BY <1>1, TypeCorrect, GenuineInit, GenuineStep, PTL DEF Spec

(* evict_expired: every timeout line is about a request that was seen and   *)
(* has really waited for more than 30 s.                                    *)
THEOREM TimeoutGenuine == Spec => []TimeoutsReal
<1>1. Genuine => TimeoutsReal
  BY DEF Genuine
<1> QED BY <1>1, TypeCorrect, GenuineInit, GenuineStep, PTL DEF Spec

-----------------------------------------------------------------------------
(* Conservation *)

(* The report's lines account for exactly what the counters and the sample  *)
(* vector hold: one line per active module, one for the samples.            *)
LEMMA ReportExact ==
    ASSUME TypeOK
    PROVE  /\ SamplesIn(ReportLines) = Len(latency)
           /\ \A m \in Modules : CountedIn(ReportLines, m) = mod_send[m] + mod_recv[m]
           /\ SamplesIn({}) = 0
           /\ \A m \in Modules : CountedIn({}, m) = 0
<1>1. /\ LatencyLine(latency).kind = "latency"
      /\ LatencyLine(latency).samples = Len(latency)
  BY DEF LatencyLine
<1>2. \A m \in Modules : /\ ModuleLine(m).kind = "module"
                         /\ ModuleLine(m).module = m
                         /\ ModuleLine(m).send = mod_send[m]
                         /\ ModuleLine(m).recv = mod_recv[m]
  BY DEF ModuleLine
<1>3. Active \subseteq Modules
  BY DEF Active
<1>4. SamplesIn(ReportLines) = Len(latency)
  <2>1. CASE latency = <<>>
    <3>1. {l \in ReportLines : l.kind = "latency"} = {}
      BY <1>2, <1>3, <2>1 DEF ReportLines
    <3> QED BY <2>1, <3>1, EmptySeq DEF SamplesIn
  <2>2. CASE latency # <<>>
    <3>1. {l \in ReportLines : l.kind = "latency"} = {LatencyLine(latency)}
      BY <1>1, <1>2, <1>3, <2>2 DEF ReportLines
    <3> QED BY <1>1, <3>1 DEF SamplesIn
  <2> QED BY <2>1, <2>2
<1>5. ASSUME NEW m \in Modules
      PROVE  CountedIn(ReportLines, m) = mod_send[m] + mod_recv[m]
  <2> DEFINE S == {l \in ReportLines : l.kind = "module" /\ l.module = m}
  <2>1. CASE m \in Active
    <3>1. S = {ModuleLine(m)}
      BY <1>1, <1>2, <1>3, <2>1 DEF ReportLines
    <3> QED BY <1>2, <3>1 DEF CountedIn
  <2>2. CASE m \notin Active
    <3>1. S = {}
      BY <1>1, <1>2, <1>3, <2>2 DEF ReportLines
    <3>2. mod_send[m] + mod_recv[m] = 0
      BY <2>2 DEF Active
    <3> QED BY <3>1, <3>2 DEF CountedIn
  <2> QED BY <2>1, <2>2
<1>6. SamplesIn({}) = 0 /\ \A m \in Modules : CountedIn({}, m) = 0
  BY DEF SamplesIn, CountedIn
<1> QED BY <1>4, <1>5, <1>6

(* Every step keeps the balance of the pending table and of the samples. *)
LEMMA BalanceStep ==
    TypeOK /\ PendingConservation /\ [Next]_vars => PendingConservation'
<1> SUFFICES ASSUME TypeOK, PendingConservation, [Next]_vars
             PROVE  PendingConservation'
  OBVIOUS
<1>0. /\ tally \in [recorded : Nat, matched : Nat, discarded : Nat,
                    expired : Nat, summarised : Nat]
      /\ latency \in Seq(0 .. SANITY_NS) /\ Len(latency) \in Nat
  BY DEF TypeOK
<1>1. /\ tally.recorded = tally.matched + tally.discarded + tally.expired
                            + Cardinality(DOMAIN pending)
      /\ tally.matched = tally.summarised + Len(latency)
  BY DEF PendingConservation
<1>2. ASSUME UNCHANGED <<pending, latency, tally>> PROVE PendingConservation'
  BY <1>2 DEF PendingConservation
<1>3. ASSUME NEW h \in Probes, NEW m \in Messages, NEW t \in 0 .. clock,
             RoutingRequest(h, m, t)
      PROVE  PendingConservation'
  <2>1. RecordPending(m, t)
    BY <1>3 DEF RoutingRequest
  <2>2. DOMAIN pending' = DOMAIN pending \cup {PackKey(m)}
    BY <2>1, RecordTypes
  <2>3. Cardinality(DOMAIN pending') = Cardinality(DOMAIN pending)
                + (IF PackKey(m) \in DOMAIN pending THEN 0 ELSE 1)
    <3>1. /\ IsFiniteSet(DOMAIN pending) /\ Cardinality(DOMAIN pending) \in Nat
      BY PendingFinite
    <3>2. Cardinality(DOMAIN pending \cup {PackKey(m)}) =
              IF PackKey(m) \in DOMAIN pending THEN Cardinality(DOMAIN pending)
              ELSE Cardinality(DOMAIN pending) + 1
      BY <3>1, FS_AddElement
    <3> QED BY <2>2, <3>1, <3>2
  <2>4. tally' = [tally EXCEPT !.recorded = tally.recorded
                + (IF PackKey(m) \in DOMAIN pending THEN 0 ELSE 1)]
        /\ latency' = latency
    BY <2>1 DEF RecordPending, Inserted
  <2> QED BY <1>0, <1>1, <2>3, <2>4, PendingFinite DEF PendingConservation
<1>4. ASSUME NEW h \in Probes, NEW m \in Messages, NEW t \in 0 .. clock,
             RoutingAnswer(h, m, t)
      PROVE  PendingConservation'
  <2> DEFINE k == PackKey(m)
             lat == Sub64(t, pending[k])
  <2>1. TryMatch(m, t)
    BY <1>4 DEF RoutingAnswer
  <2>2. CASE k \notin DOMAIN pending
    BY <1>2, <2>1, <2>2 DEF TryMatch
  <2>3. CASE k \in DOMAIN pending
    <3>1. Cardinality(DOMAIN pending') = Cardinality(DOMAIN pending) - 1
      <4>1. DOMAIN pending' = DOMAIN pending \ {k}
        BY <2>1, MatchTypes
      <4> HIDE DEF k
      <4> QED BY <2>3, <4>1, FS_RemoveElement, PendingFinite
    <3>2. \/ /\ tally' = [tally EXCEPT !.matched = @ + 1]
             /\ latency' = Append(latency, lat)
          \/ /\ tally' = [tally EXCEPT !.discarded = @ + 1]
             /\ latency' = latency
      BY <2>1, <2>3 DEF TryMatch
    <3>3. Len(Append(latency, lat)) = Len(latency) + 1
      <4> HIDE DEF lat
      <4> QED BY <1>0
    <3>4. Cardinality(DOMAIN pending) \in Nat
      BY PendingFinite
    <3>5. \/ /\ tally'.matched = tally.matched + 1 /\ Len(latency') = Len(latency) + 1
             /\ tally'.discarded = tally.discarded
          \/ /\ tally'.discarded = tally.discarded + 1 /\ Len(latency') = Len(latency)
             /\ tally'.matched = tally.matched
      <4> HIDE DEF lat
      <4> QED BY <1>0, <3>2, <3>3
    <3>6. /\ tally'.recorded = tally.recorded /\ tally'.expired = tally.expired
          /\ tally'.summarised = tally.summarised
      <4> HIDE DEF lat
      <4> QED BY <1>0, <3>2
    <3>7. /\ tally.recorded \in Nat /\ tally.matched \in Nat
          /\ tally.discarded \in Nat /\ tally.expired \in Nat
          /\ tally.summarised \in Nat
      BY <1>0
    <3> HIDE DEF lat, k
    <3>8. tally'.recorded = tally'.matched + tally'.discarded + tally'.expired
                            + Cardinality(DOMAIN pending')
      <4> DEFINE c == Cardinality(DOMAIN pending)
                 d == Cardinality(DOMAIN pending')
      <4>1. c \in Nat /\ d = c - 1
        BY <3>1, <3>4
      <4>2. tally.recorded = tally.matched + tally.discarded + tally.expired + c
        BY <1>1
      <4> HIDE DEF c, d
      <4>3. tally'.recorded = tally'.matched + tally'.discarded + tally'.expired + d
        <5>1. /\ tally.recorded = (tally.matched + 1) + tally.discarded
                                    + tally.expired + (c - 1)
              /\ tally.recorded = tally.matched + (tally.discarded + 1)
                                    + tally.expired + (c - 1)
          BY <3>7, <4>1, <4>2
        <5>2. \/ tally'.matched = tally.matched + 1
                 /\ tally'.discarded = tally.discarded
              \/ tally'.discarded = tally.discarded + 1
                 /\ tally'.matched = tally.matched
          BY <3>5
        <5> QED BY <3>6, <4>1, <5>1, <5>2
      <4> QED BY <4>3 DEF d
    <3>9. tally'.matched = tally'.summarised + Len(latency')
      BY <1>0, <1>1, <3>5, <3>6, <3>7
    <3> QED BY <3>8, <3>9 DEF PendingConservation
  <2> QED BY <2>2, <2>3
<1>5. CASE FlushReport
  <2>1. tally' = [tally EXCEPT !.summarised = tally.summarised + SamplesIn(out')]
        /\ pending' = pending
    BY <1>5 DEF FlushReport
  <2>2. CASE log_writer
    <3>1. SamplesIn(out') = Len(latency) /\ latency' = <<>>
      BY <1>5, <2>2, ReportExact DEF FlushReport, ResetPeriod
    <3>2. Len(latency') = 0
      BY <3>1, EmptySeq
    <3> QED BY <1>0, <1>1, <2>1, <3>1, <3>2 DEF PendingConservation
  <2>3. CASE ~log_writer
    <3>1. SamplesIn(out') = 0 /\ latency' = latency
      BY <1>5, <2>3, ReportExact DEF FlushReport
    <3> QED BY <1>0, <1>1, <2>1, <3>1 DEF PendingConservation
  <2> QED BY <2>2, <2>3
<1>6. CASE EvictExpired
  <2>1. /\ pending' = Erase(pending, Expired) /\ latency' = latency
        /\ tally' = [tally EXCEPT !.expired = tally.expired + Cardinality(Expired)]
    BY <1>6 DEF EvictExpired
  <2>2. DOMAIN pending' = DOMAIN pending \ Expired
    BY <2>1, EraseTypes
  <2>3. DOMAIN pending \cap Expired = Expired
    BY DEF Expired
  <2>4. Cardinality(DOMAIN pending')
            = Cardinality(DOMAIN pending) - Cardinality(Expired)
    BY <2>2, <2>3, FS_Difference, PendingFinite
  <2> QED BY <1>0, <1>1, <2>1, <2>4, PendingFinite DEF PendingConservation
<1>7. CASE SetLogWriter \/ Tick \/ UNCHANGED vars
  BY <1>2, <1>7 DEF SetLogWriter, Tick, vars, matching, history
<1>8. ASSUME NEW h \in Probes, NEW rv, NEW t, AppEvent(h, rv, t) \/ SdEvent(h, t)
      PROVE  PendingConservation'
  BY <1>2, <1>8 DEF AppEvent, SdEvent, matching
<1>9. ASSUME NEW h \in Probes, NEW m \in Messages, NEW rv, NEW t,
             RoutingOther(h, m, rv, t)
      PROVE  PendingConservation'
  BY <1>2, <1>9 DEF RoutingOther, matching
<1> QED BY <1>3, <1>4, <1>5, <1>6, <1>7, <1>8, <1>9 DEF Next

(* record_pending, try_match, flush_report and evict_expired together: no   *)
(* entry of the pending table is lost or counted twice, and no sample       *)
(* either.                                                                  *)
THEOREM PendingBalance == Spec => []PendingConservation
<1>1. Init => PendingConservation
  <2> SUFFICES ASSUME Init PROVE PendingConservation
    OBVIOUS
  <2>1. DOMAIN pending = {} /\ Len(latency) = 0
    BY EmptySeq DEF Init
  <2> QED BY <2>1, FS_EmptySet DEF Init, PendingConservation
<1> QED BY <1>1, TypeCorrect, BalanceStep, PTL DEF Spec

(* One processed event raises the number of events seen and the counters of *)
(* its module by the same amount.                                           *)
LEMMA CountedStep ==
    ASSUME TypeOK, CountsConserved, NEW h \in Probes, NEW rv,
           CountEvent(h, rv), Witness(h)
    PROVE  CountsConserved'
<1>0. /\ mod_send \in [Modules -> Nat] /\ mod_recv \in [Modules -> Nat]
      /\ seen \in [Modules -> Nat] /\ reported \in [Modules -> Nat]
  BY DEF TypeOK
<1>1. ModuleOf(h) \in Modules
  BY DEF ModuleOf, Modules
<1> SUFFICES ASSUME NEW m \in Modules
             PROVE  seen'[m] = reported'[m] + mod_send'[m] + mod_recv'[m]
  BY DEF CountsConserved
<1>2. seen[m] = reported[m] + mod_send[m] + mod_recv[m] /\ reported' = reported
  BY DEF CountsConserved, Witness
<1>3. CASE h \in RetHooks
  <2>1. mod_send' = mod_send /\ mod_recv' = mod_recv
    BY <1>3 DEF CountEvent
  <2>2. seen' = [seen EXCEPT ![ModuleOf(h)] = @ + 0]
    BY <1>3 DEF Witness
  <2> QED BY <1>0, <1>1, <1>2, <2>1, <2>2
<1>4. CASE h \notin RetHooks /\ h \in RecvHooks
  <2>1. mod_send' = mod_send /\ mod_recv' = [mod_recv EXCEPT ![ModuleOf(h)] = @ + 1]
    BY <1>4 DEF CountEvent
  <2>2. seen' = [seen EXCEPT ![ModuleOf(h)] = @ + 1]
    BY <1>4 DEF Witness
  <2> QED BY <1>0, <1>1, <1>2, <2>1, <2>2
<1>5. CASE h \notin RetHooks /\ h \notin RecvHooks
  <2>1. mod_recv' = mod_recv /\ mod_send' = [mod_send EXCEPT ![ModuleOf(h)] = @ + 1]
    BY <1>5 DEF CountEvent
  <2>2. seen' = [seen EXCEPT ![ModuleOf(h)] = @ + 1]
    BY <1>5 DEF Witness
  <2> QED BY <1>0, <1>1, <1>2, <2>1, <2>2
<1> QED BY <1>3, <1>4, <1>5

(* process_event and flush_report together: the module lines written and    *)
(* the counters of the running period account for every entry event.        *)
THEOREM CountsBalance == Spec => []CountsConserved
<1>1. Init => CountsConserved
  BY DEF Init, CountsConserved
<1>2. TypeOK /\ CountsConserved /\ [Next]_vars => CountsConserved'
  <2> SUFFICES ASSUME TypeOK, CountsConserved, [Next]_vars
               PROVE  CountsConserved'
    OBVIOUS
  <2>1. ASSUME NEW h \in Probes, NEW m \in Messages, NEW rv, NEW t,
               \/ RoutingRequest(h, m, t) \/ RoutingAnswer(h, m, t)
               \/ RoutingOther(h, m, rv, t)
        PROVE  CountsConserved'
    BY <2>1, CountedStep DEF RoutingRequest, RoutingAnswer, RoutingOther
  <2>2. ASSUME NEW h \in Probes, NEW rv, NEW t, AppEvent(h, rv, t) \/ SdEvent(h, t)
        PROVE  CountsConserved'
    BY <2>2, CountedStep DEF AppEvent, SdEvent
  <2>3. CASE FlushReport
    <3>1. CASE log_writer
      <4>1. ASSUME NEW m \in Modules
            PROVE  /\ seen'[m] = seen[m]
                   /\ reported'[m] = reported[m] + (mod_send[m] + mod_recv[m])
                   /\ mod_send'[m] = 0 /\ mod_recv'[m] = 0
        BY <2>3, <3>1, ReportExact, ReportResets DEF FlushReport, ResetPeriod
      <4>2. ASSUME NEW m \in Modules
            PROVE  /\ reported[m] \in Nat /\ mod_send[m] \in Nat /\ mod_recv[m] \in Nat
        BY DEF TypeOK
      <4> QED BY <4>1, <4>2 DEF CountsConserved
    <3>2. CASE ~log_writer
      <4>1. ASSUME NEW m \in Modules
            PROVE  reported'[m] = reported[m]
        <5>1. reported[m] \in Nat
          BY DEF TypeOK
        <5>2. out' = {} /\ CountedIn({}, m) = 0
          BY <2>3, <3>2, ReportExact DEF FlushReport
        <5>3. reported'[m] = reported[m] + CountedIn(out', m)
          BY <2>3 DEF FlushReport
        <5>4. reported'[m] = reported[m] + 0
          BY <5>2, <5>3
        <5> QED BY <5>1, <5>4
      <4> QED BY <2>3, <3>2, <4>1 DEF FlushReport, CountsConserved, counters
    <3> QED BY <3>1, <3>2
  <2>4. CASE SetLogWriter \/ Tick \/ EvictExpired \/ UNCHANGED vars
    BY <2>4 DEF SetLogWriter, Tick, EvictExpired, CountsConserved, vars, counters, history
  <2> QED BY <2>1, <2>2, <2>3, <2>4 DEF Next
<1> QED BY <1>1, <1>2, TypeCorrect, PTL DEF Spec

(* record_pending never overwrites: a key's send_ts stands until its answer *)
(* arrives or it has waited for more than 30 s.                             *)
THEOREM FirstTimestampStands == Spec => FirstKept
<1> DEFINE Kept ==
      \A k \in DOMAIN pending :
         \/ k \in DOMAIN pending' /\ pending'[k] = pending[k]
         \/ k \notin DOMAIN pending' /\ clock - pending[k] > TIMEOUT_NS
         \/ k \notin DOMAIN pending' /\ Answers(k)
<1>1. TypeOK /\ [Next]_vars => [Kept]_vars
  <2> SUFFICES ASSUME TypeOK, Next PROVE Kept
    BY DEF Kept
  <2>1. ASSUME pending' = pending PROVE Kept
    BY <2>1
  <2>2. ASSUME NEW h \in Probes, NEW m \in Messages, NEW t \in 0 .. clock,
               RoutingRequest(h, m, t)
        PROVE  Kept
    <3>1. /\ DOMAIN pending \subseteq DOMAIN pending'
          /\ \A k \in DOMAIN pending : pending'[k] = pending[k]
      BY <2>2, RecordTypes DEF RoutingRequest
    <3> QED BY <3>1
  <2>3. ASSUME NEW h \in Probes, NEW m \in Messages, NEW t \in 0 .. clock,
               RoutingAnswer(h, m, t)
        PROVE  Kept
    <3>1. TryMatch(m, t)
      BY <2>3 DEF RoutingAnswer
    <3>2. CASE PackKey(m) \notin DOMAIN pending
      BY <2>1, <3>1, <3>2 DEF TryMatch
    <3>3. CASE PackKey(m) \in DOMAIN pending
      <4>1. /\ DOMAIN pending' = DOMAIN pending \ {PackKey(m)}
            /\ \A k \in DOMAIN pending' : pending'[k] = pending[k]
        BY <3>1, MatchTypes
      <4>2. Answers(PackKey(m))
        BY <2>3 DEF Answers
      <4> QED BY <4>1, <4>2
    <3> QED BY <3>2, <3>3
  <2>4. CASE EvictExpired
    <3>1. /\ DOMAIN pending' = DOMAIN pending \ Expired
          /\ \A k \in DOMAIN pending' : pending'[k] = pending[k]
      BY <2>4, EraseTypes DEF EvictExpired
    <3>2. \A k \in Expired : clock - pending[k] > TIMEOUT_NS
      <4>1. \A k \in DOMAIN pending : pending[k] \in Int /\ pending[k] <= clock
        BY DEF TypeOK
      <4>2. clock \in Int
        BY DEF TypeOK
      <4> QED BY <4>1, <4>2 DEF Expired, Sub64
    <3> QED BY <3>1, <3>2
  <2>5. CASE SetLogWriter \/ Tick \/ FlushReport
    BY <2>1, <2>5 DEF SetLogWriter, Tick, FlushReport, matching
  <2>6. ASSUME NEW h \in Probes, NEW m \in Messages, NEW rv, NEW t,
               RoutingOther(h, m, rv, t)
        PROVE  Kept
    BY <2>1, <2>6 DEF RoutingOther, matching
  <2>7. ASSUME NEW h \in Probes, NEW rv, NEW t, AppEvent(h, rv, t) \/ SdEvent(h, t)
        PROVE  Kept
    BY <2>1, <2>7 DEF AppEvent, SdEvent, matching
  <2> HIDE DEF Kept
  <2> QED BY <2>2, <2>3, <2>4, <2>5, <2>6, <2>7 DEF Next
<1> QED BY <1>1, TypeCorrect, PTL DEF Spec, FirstKept

(* Twelve hooks at most: the attached ones are finitely many. *)
LEMMA ProbesFinite == IsFiniteSet(Probes)
<1>1. IsFiniteSet({})
  BY FS_EmptySet
<1>2. \A T, x : IsFiniteSet(T) => IsFiniteSet(T \cup {x})
  BY FS_AddElement
<1>3. IsFiniteSet(RoutingHooks)
  <2>1. RoutingHooks = (((({} \cup {"rm_send_entry"}) \cup {"rm_send_ret"})
                          \cup {"rm_send_to_entry"}) \cup {"rm_send_to_ret"})
                          \cup {"rm_on_message"}
    BY DEF RoutingHooks
  <2> QED BY <1>1, <1>2, <2>1, Zenon
<1>4. IsFiniteSet(AppHooks)
  <2>1. AppHooks = (({} \cup {"app_send_entry"}) \cup {"app_send_ret"})
                       \cup {"app_on_message"}
    BY DEF AppHooks
  <2> QED BY <1>1, <1>2, <2>1, Zenon
<1>5. IsFiniteSet(SdHooks)
  <2>1. SdHooks = ((({} \cup {"sd_send"}) \cup {"sd_process_offer"})
                      \cup {"sd_send_subscription"})
                      \cup {"sd_handle_subscription"}
    BY DEF SdHooks
  <2> QED BY <1>1, <1>2, <2>1, Zenon
<1>6. IsFiniteSet(Hooks)
  <2>1. IsFiniteSet(RoutingHooks \cup AppHooks)
    BY <1>3, <1>4, FS_Union
  <2> QED BY <1>5, <2>1, FS_Union DEF Hooks
<1> QED BY <1>6, ProbesAssumption, FS_Subset

Stats == [total : Nat, succ : Nat, fail : Nat]

(* The totals of hs, hook by hook. *)
TotalOf(hs) == [h \in Probes |-> hs[h].total]

(* Totals is the sum, over the hooks of S, of their totals. *)
LEMMA TotalsFold ==
    ASSUME NEW hs \in [Probes -> Stats], NEW S \in SUBSET Probes
    PROVE  \E f : IsSum(f, S, TotalOf(hs)) /\ Totals(hs, S) = f[S]
<1> DEFINE g == [h \in S |-> hs[h].total]
           Eq(f) == f = [s \in SUBSET S |->
                           IF s = {} THEN 0
                           ELSE hs[CHOOSE x \in s : TRUE].total
                                  + f[s \ {CHOOSE x \in s : TRUE}]]
           c == CHOOSE f : Eq(f)
<1>1. IsFiniteSet(S)
  BY ProbesFinite, FS_Subset
<1>2. g \in [S -> Nat]
  BY DEF Stats
<1>3. \A s \in SUBSET S : s # {} => First(s) \in s
  BY DEF First
<1>4. PICK f : IsSum(f, S, g)
  <2> HIDE DEF g
  <2> QED BY <1>1, <1>2, SumExists
<1>5. Eq(f)
  BY <1>3, <1>4 DEF First, IsSum
<1>6. Eq(c)
  <2> HIDE DEF Eq
  <2> QED BY <1>5
<1>7. Totals(hs, S) = c[S]
  BY DEF Totals, MapThenSumSet, MapThenFoldSet
<1> HIDE DEF c
<1>8. /\ c[{}] = 0
      /\ \A s \in SUBSET S :
            s # {} => c[s] = hs[First(s)].total + c[s \ {First(s)}]
  BY <1>6 DEF First
<1> DEFINE T == {s \in SUBSET S : c[s] \in Nat}
<1>9. \A s \in SUBSET S : s \in T
  <2>1. {} \in T
    BY <1>8
  <2>2. ASSUME NEW s \in SUBSET S, s # {}, s \ {First(s)} \in T PROVE s \in T
    <3>1. hs[First(s)].total \in Nat
      BY <1>3, <2>2 DEF Stats
    <3>2. c[s] = hs[First(s)].total + c[s \ {First(s)}]
      BY <1>8, <2>2
    <3> QED BY <2>2, <3>1, <3>2
  <2> HIDE DEF T
  <2> QED BY <1>1, <2>1, <2>2, TakeOut
<1>10. c \in [SUBSET S -> Nat]
  BY <1>6, <1>9
<1>11. IsSum(c, S, TotalOf(hs))
  BY <1>3, <1>8, <1>10 DEF IsSum, TotalOf
<1> QED BY <1>7, <1>11

(* Counters that are all zero, as after a report, have sum zero. *)
LEMMA TotalsZero ==
    ASSUME NEW S \in SUBSET Probes
    PROVE  Totals([h \in Probes |-> ZeroStats], S) = 0
<1> DEFINE hs == [h \in Probes |-> ZeroStats]
<1>1. hs \in [Probes -> Stats] /\ \A h \in Probes : TotalOf(hs)[h] = 0
  BY DEF Stats, ZeroStats, TotalOf
<1> HIDE DEF hs
<1>2. PICK f : IsSum(f, S, TotalOf(hs)) /\ Totals(hs, S) = f[S]
  BY <1>1, TotalsFold
<1> DEFINE T == {s \in SUBSET S : f[s] = 0}
<1>3. {} \in T
  BY <1>2 DEF IsSum
<1>4. ASSUME NEW s \in SUBSET S, s # {}, s \ {First(s)} \in T PROVE s \in T
  <2>1. First(s) \in Probes
    BY <1>4 DEF First
  <2>2. f[s] = TotalOf(hs)[First(s)] + f[s \ {First(s)}]
    BY <1>2, <1>4 DEF IsSum
  <2> QED BY <1>1, <1>4, <2>1, <2>2
<1>5. IsFiniteSet(S)
  BY ProbesFinite, FS_Subset
<1> HIDE DEF T
<1>6. S \in T
  BY <1>3, <1>4, <1>5, TakeOut
<1> QED BY <1>2, <1>6 DEF T, hs

(* An event adds one to the sums that its hook is part of, and to no other. *)
LEMMA TotalsBump ==
    ASSUME NEW hs \in [Probes -> Stats], NEW hs2 \in [Probes -> Stats],
           NEW h \in Probes, NEW S \in SUBSET Probes,
           hs2[h].total = hs[h].total + 1,
           \A x \in Probes \ {h} : hs2[x] = hs[x]
    PROVE  /\ Totals(hs, S) \in Nat
           /\ Totals(hs2, S) = Totals(hs, S) + (IF h \in S THEN 1 ELSE 0)
<1>1. PICK f : IsSum(f, S, TotalOf(hs)) /\ Totals(hs, S) = f[S]
  BY TotalsFold
<1>2. PICK f2 : IsSum(f2, S, TotalOf(hs2)) /\ Totals(hs2, S) = f2[S]
  BY TotalsFold
<1> DEFINE T == {s \in SUBSET S : f2[s] = f[s] + (IF h \in s THEN 1 ELSE 0)}
<1>3. {} \in T
  BY <1>1, <1>2 DEF IsSum
<1>4. ASSUME NEW s \in SUBSET S, s # {}, s \ {First(s)} \in T PROVE s \in T
  <2> DEFINE x == First(s)
             r == s \ {First(s)}
  <2>1. x \in s /\ x \in Probes
    BY <1>4 DEF First
  <2>2. f[s] = hs[x].total + f[r] /\ f2[s] = hs2[x].total + f2[r]
    BY <1>1, <1>2, <1>4, <2>1 DEF IsSum, TotalOf
  <2>3. /\ f[r] \in Nat /\ f2[r] = f[r] + (IF h \in r THEN 1 ELSE 0)
        /\ hs[x].total \in Nat
    BY <1>1, <1>4, <2>1 DEF IsSum, Stats
  <2>4. CASE x = h
    <3>1. h \in s /\ h \notin r
      BY <2>1, <2>4
    <3> QED BY <2>2, <2>3, <2>4, <3>1
  <2>5. CASE x # h
    <3>1. (h \in s) = (h \in r) /\ hs2[x] = hs[x]
      BY <2>1, <2>5
    <3> QED BY <2>2, <2>3, <3>1
  <2> QED BY <2>4, <2>5
<1>5. IsFiniteSet(S)
  BY ProbesFinite, FS_Subset
<1> HIDE DEF T
<1>6. S \in T
  BY <1>3, <1>4, <1>5, TakeOut
<1> QED BY <1>1, <1>2, <1>6 DEF T, IsSum

(* Counting an event keeps the hook counters and the module counters in     *)
(* step.                                                                    *)
LEMMA LedgerStep ==
    ASSUME TypeOK, TypeOK', LedgersAgree, NEW h \in Probes, NEW rv,
           CountEvent(h, rv)
    PROVE  LedgersAgree'
<1>1. /\ hook_stats \in [Probes -> Stats] /\ hook_stats' \in [Probes -> Stats]
      /\ mod_send \in [Modules -> Nat] /\ mod_recv \in [Modules -> Nat]
  BY DEF TypeOK, Stats
<1>2. /\ hook_stats'[h] = Bump(hook_stats[h], h \in RetHooks, rv)
      /\ \A x \in Probes \ {h} : hook_stats'[x] = hook_stats[x]
  BY <1>1 DEF CountEvent
<1>3. hook_stats'[h].total = hook_stats[h].total + 1
  BY <1>2 DEF Bump
<1>4. ASSUME NEW S \in SUBSET Probes
      PROVE  /\ Totals(hook_stats, S) \in Nat
             /\ Totals(hook_stats', S)
                   = Totals(hook_stats, S) + (IF h \in S THEN 1 ELSE 0)
  BY <1>1, <1>2, <1>3, TotalsBump
<1>5. ModuleOf(h) \in Modules /\ h \in Hooks
  BY ProbesAssumption DEF ModuleOf, Modules
<1>6. ASSUME NEW m \in Modules
      PROVE  mod_send'[m] = Totals(hook_stats', HooksOf(m, Hooks \ RecvHooks))
  <2> DEFINE S == HooksOf(m, Hooks \ RecvHooks)
  <2>1. S \in SUBSET Probes
    BY DEF HooksOf
  <2>2. (h \in S) = (m = ModuleOf(h) /\ h \notin RetHooks /\ h \notin RecvHooks)
    BY <1>5 DEF HooksOf
  <2>3. mod_send'[m] = mod_send[m] + (IF h \in S THEN 1 ELSE 0)
    <3> HIDE DEF S
    <3> QED BY <1>1, <1>5, <2>2 DEF CountEvent
  <2> QED BY <1>4, <2>1, <2>3 DEF LedgersAgree
<1>7. ASSUME NEW m \in Modules
      PROVE  mod_recv'[m] = Totals(hook_stats', HooksOf(m, RecvHooks))
  <2> DEFINE S == HooksOf(m, RecvHooks)
  <2>1. S \in SUBSET Probes
    BY DEF HooksOf
  <2>2. (h \in S) = (m = ModuleOf(h) /\ h \notin RetHooks /\ h \in RecvHooks)
    BY <1>5 DEF HooksOf
  <2>3. mod_recv'[m] = mod_recv[m] + (IF h \in S THEN 1 ELSE 0)
    <3> HIDE DEF S
    <3> QED BY <1>1, <1>5, <2>2 DEF CountEvent
  <2> QED BY <1>4, <2>1, <2>3 DEF LedgersAgree
<1>8. ASSUME NEW x \in Probes
      PROVE  hook_stats'[x].succ + hook_stats'[x].fail
                = IF x \in RetHooks THEN hook_stats'[x].total ELSE 0
  <2>1. hook_stats[x].succ + hook_stats[x].fail
           = IF x \in RetHooks THEN hook_stats[x].total ELSE 0
    BY DEF LedgersAgree
  <2>2. CASE x # h
    BY <1>2, <2>1, <2>2
  <2>3. CASE x = h
    BY <1>1, <1>2, <2>1, <2>3 DEF Bump, Stats
  <2> QED BY <2>2, <2>3
<1> QED BY <1>6, <1>7, <1>8 DEF LedgersAgree, HooksOf

(* process_event and flush_report keep two ledgers of the same events, the  *)
(* counters of the hooks and those of the modules; they never part.         *)
THEOREM LedgersBalance == Spec => []LedgersAgree
<1>1. Init => LedgersAgree
  <2>1. \A m \in Modules : \A dirs : HooksOf(m, dirs) \in SUBSET Probes
    BY DEF HooksOf
  <2>2. \A m \in Modules : \A dirs :
           Totals([h \in Probes |-> ZeroStats], HooksOf(m, dirs)) = 0
    BY <2>1, TotalsZero
  <2> QED BY <2>2 DEF Init, LedgersAgree, ZeroStats
<1>2. TypeOK /\ TypeOK' /\ LedgersAgree /\ [Next]_vars => LedgersAgree'
  <2> SUFFICES ASSUME TypeOK, TypeOK', LedgersAgree, [Next]_vars
               PROVE  LedgersAgree'
    OBVIOUS
  <2>1. ASSUME NEW h \in Probes, NEW m \in Messages, NEW rv, NEW t,
               \/ RoutingRequest(h, m, t) \/ RoutingAnswer(h, m, t)
               \/ RoutingOther(h, m, rv, t)
        PROVE  LedgersAgree'
    BY <2>1, LedgerStep DEF RoutingRequest, RoutingAnswer, RoutingOther
  <2>2. ASSUME NEW h \in Probes, NEW rv, NEW t, AppEvent(h, rv, t) \/ SdEvent(h, t)
        PROVE  LedgersAgree'
    BY <2>2, LedgerStep DEF AppEvent, SdEvent
  <2>3. ASSUME UNCHANGED counters PROVE LedgersAgree'
    BY <2>3 DEF counters, LedgersAgree, HooksOf
  <2>4. CASE FlushReport /\ log_writer
    <3>1. /\ hook_stats' = [h \in Probes |-> ZeroStats]
          /\ \A m \in Modules : mod_send'[m] = 0 /\ mod_recv'[m] = 0
      BY <2>4, ReportResets DEF FlushReport, ResetPeriod
    <3>2. \A m \in Modules : \A dirs : HooksOf(m, dirs) \in SUBSET Probes
      BY DEF HooksOf
    <3>3. \A m \in Modules : \A dirs :
             Totals([h \in Probes |-> ZeroStats], HooksOf(m, dirs)) = 0
      BY <3>2, TotalsZero
    <3>4. \A m \in Modules :
             /\ mod_send'[m] = Totals(hook_stats', HooksOf(m, Hooks \ RecvHooks))
             /\ mod_recv'[m] = Totals(hook_stats', HooksOf(m, RecvHooks))
      BY <3>1, <3>3
    <3>5. \A h \in Probes : hook_stats'[h].succ + hook_stats'[h].fail
             = IF h \in RetHooks THEN hook_stats'[h].total ELSE 0
      BY <3>1 DEF ZeroStats
    <3> QED BY <3>4, <3>5 DEF LedgersAgree, HooksOf
  <2>5. CASE FlushReport /\ ~log_writer
    BY <2>3, <2>5 DEF FlushReport
  <2>6. CASE SetLogWriter \/ Tick \/ EvictExpired \/ UNCHANGED vars
    BY <2>3, <2>6 DEF SetLogWriter, Tick, EvictExpired, vars
  <2> QED BY <2>1, <2>2, <2>4, <2>5, <2>6 DEF Next
<1> QED BY <1>1, <1>2, TypeCorrect, PTL DEF Spec

(* Only flush_report writes a latency line, and it is the summary of the    *)
(* samples it then drops.                                                   *)
LEMMA LatencyLineWritten ==
    ASSUME TypeOK, Next, NEW l \in out', l.kind = "latency"
    PROVE  latency \in Seq(Nat) /\ latency # <<>> /\ l = LatencyLine(latency)
<1>1. latency \in Seq(Nat)
  <2>1. 0 .. SANITY_NS \subseteq Nat
    BY TimeAssumption
  <2>2. latency \in Seq(0 .. SANITY_NS)
    BY DEF TypeOK
  <2> QED BY <2>1, <2>2, SeqMonotonic
<1>2. \A h : EventLine(h).kind # "latency"
  BY DEF EventLine
<1>3. \A m, a, b : LatencyEvent(m, a, b).kind # "latency"
  BY DEF LatencyEvent
<1>4. \A m : ModuleLine(m).kind # "latency"
  BY DEF ModuleLine
<1>5. \A k : TimeoutLine(k).kind # "latency"
  BY DEF TimeoutLine
<1>6. ASSUME NEW h, out' = {EventLine(h)} PROVE FALSE
  BY <1>2, <1>6
<1>7. ASSUME NEW h, NEW m, NEW t, RoutingAnswer(h, m, t) PROVE FALSE
  <2>1. l \in MatchLines(m, t) \/ l = EventLine(h)
    BY <1>7 DEF RoutingAnswer
  <2>2. l = LatencyEvent(m, pending[PackKey(m)], t) \/ l = EventLine(h)
    BY <2>1 DEF MatchLines
  <2> QED BY <1>2, <1>3, <2>2
<1>8. ~ EvictExpired
  BY <1>5 DEF EvictExpired
<1>9. ~ SetLogWriter /\ ~ Tick
  BY DEF SetLogWriter, Tick
<1>10. FlushReport
  BY <1>6, <1>7, <1>8, <1>9
  DEF Next, RoutingRequest, RoutingOther, AppEvent, SdEvent
<1>11. out' = ReportLines
  BY <1>10 DEF FlushReport
<1> QED BY <1>1, <1>4, <1>11 DEF ReportLines

(* flush_report: whatever the number and the order of the samples, the line *)
(* it writes gives their median and 99th percentile.                        *)
THEOREM PercentilesAreCounted == Spec => PercentilesByCount
<1>1. TypeOK /\ [Next]_vars
        => [\A l \in out' : l.kind = "latency" => PercentilesOf(l, latency)]_vars
  BY LatencyLineWritten, LinePercentiles
<1> QED BY <1>1, TypeCorrect, PTL DEF Spec, PercentilesByCount

(* flush_report: the line never contradicts itself or the samples.          *)
THEOREM SummaryAddsUp == Spec => SummaryConsistent
<1>1. TypeOK /\ [Next]_vars
        => [\A l \in out' : l.kind = "latency" => ConsistentWith(l, latency)]_vars
  BY LatencyLineWritten, LineConsistent
<1> QED BY <1>1, TypeCorrect, PTL DEF Spec, SummaryConsistent
=============================================================================
