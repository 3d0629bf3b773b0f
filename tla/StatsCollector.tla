--------------------------- MODULE StatsCollector ---------------------------
(***************************************************************************)
(* The statistics engine: the class StatsCollector together with the three *)
(* event handlers (routing, app, sd) that feed it.  All of it runs on the  *)
(* single thread of CollectorManager::run_loop, one event at a time, in    *)
(* the order in which the records lie in the ring buffers.  That order is  *)
(* not the order of the timestamps: a record is reserved before            *)
(* bpf_ktime_get_ns() is read and each module has a ring of its own, so an *)
(* event may carry any timestamp not later than the current time.          *)
(*                                                                         *)
(* out holds the lines written by the last step; sent, tally, seen and     *)
(* reported are history that the code does not keep.                       *)
(***************************************************************************)
EXTENDS Integers, Sequences, FiniteSetsExt, Hooks, LatencyReport

CONSTANTS
    Probes,         \* the hooks that are attached
    Messages,       \* the SOME/IP headers the routing probes may read
    FieldRange,     \* 2^16: values of one 16-bit header field
    WORD,           \* 2^64: values of a uint64_t
    TIMEOUT_NS,     \* 30 s: age at which evict_expired drops a request
    SANITY_NS,      \* 60 s: largest latency try_match believes
    NS_PER_MS,      \* 1000000: nanoseconds of a reported millisecond
    MaxClock,       \* bound: CLOCK_MONOTONIC never exceeds it
    MaxEvents       \* bound: number of events processed

MessageTypes == {"REQUEST", "REQUEST_NO_RETURN", "NOTIFICATION",
                 "REQUEST_ACK", "RESPONSE", "ERROR", "UNKNOWN"}

Fields == 0 .. FieldRange - 1

Message == [svc : Fields, method : Fields, client : Fields,
            session : Fields, type : MessageTypes]

ASSUME ProbesAssumption == Probes \subseteq Hooks

ASSUME MessagesAssumption ==
    FieldRange \in Nat \ {0} /\ Messages \subseteq Message

(* Time since boot stays 60 s clear of the 64-bit limit. *)
ASSUME TimeAssumption ==
    /\ {TIMEOUT_NS, SANITY_NS, MaxClock, MaxEvents, WORD} \subseteq Nat
    /\ NS_PER_MS \in Nat \ {0}
    /\ MaxClock + SANITY_NS < WORD
    /\ MaxClock + TIMEOUT_NS < WORD

VARIABLES
    clock,          \* CLOCK_MONOTONIC, shared with bpf_ktime_get_ns()
    log_writer,     \* log_writer_ # nullptr
    hook_stats,     \* hook_stats_: total, succ and fail of each hook
    mod_send,       \* mod_send_
    mod_recv,       \* mod_recv_
    pending,        \* pending_: packed key -> send_ts
    latency,        \* latency_: samples of the period, in arrival order
    last_report_ns, \* last_report_ns_
    out,            \* lines handed to the log writer by the last step
    events,         \* history: number of events processed
    sent,           \* history: the requests seen by a sending probe
    tally,          \* history: what became of the pending entries
    seen,           \* history: entry events of each module
    reported        \* history: events counted by the module lines written

counters == <<hook_stats, mod_send, mod_recv>>
matching == <<pending, latency>>
history  == <<events, sent, tally, seen, reported>>
vars == <<clock, log_writer, counters, matching, last_report_ns, out, history>>

-----------------------------------------------------------------------------
(* Helpers *)

(* Faulty variant: the fields are joined without being shifted apart. *)
PackKeyUnshifted(m) == m.svc + m.method + m.client + m.session

(* svc << 48 | method << 32 | client << 16 | session *)
PackKey(m) == ((m.svc * FieldRange + m.method) * FieldRange + m.client)
                  * FieldRange + m.session

Keys == 0 .. FieldRange * FieldRange * FieldRange * FieldRange - 1

(* a - b on uint64_t *)
Sub64(a, b) == IF a >= b THEN a - b ELSE a - b + WORD

(* Faulty variant: the entry is not erased. *)
EraseNone(f, S) == f

(* The map f without the keys in S. *)
Erase(f, S) == [k \in DOMAIN f \ S |-> f[k]]

(* Faulty variants: the time of processing instead of the event's own;      *)
(* the last timestamp of a key instead of the first.                        *)
InsertedNow(f, k, t) ==
    [j \in DOMAIN f \cup {k} |-> IF j \in DOMAIN f THEN f[j] ELSE clock]
InsertedLast(f, k, t) ==
    [j \in DOMAIN f \cup {k} |-> IF j = k THEN t ELSE f[j]]

(* The map f with t under k, unless k is in use. *)
Inserted(f, k, t) ==
    [j \in DOMAIN f \cup {k} |-> IF j \in DOMAIN f THEN f[j] ELSE t]

Requests  == {"REQUEST", "REQUEST_NO_RETURN"}
Responses == {"RESPONSE", "ERROR", "NOTIFICATION"}

ZeroStats == [total |-> 0, succ |-> 0, fail |-> 0]

-----------------------------------------------------------------------------
Init ==
    /\ clock = 0
    /\ log_writer = FALSE
    /\ hook_stats = [h \in Probes |-> ZeroStats]
    /\ mod_send = [m \in Modules |-> 0]
    /\ mod_recv = [m \in Modules |-> 0]
    /\ pending = [k \in {} |-> 0]
    /\ latency = <<>>
    /\ last_report_ns = 0
    /\ out = {}
    /\ events = 0
    /\ sent = {}
    /\ tally = [recorded |-> 0, matched |-> 0, discarded |-> 0,
                expired |-> 0, summarised |-> 0]
    /\ seen = [m \in Modules |-> 0]
    /\ reported = [m \in Modules |-> 0]

(* main() installs the writer once, with set_log_writer(). *)
SetLogWriter ==
    /\ ~log_writer
    /\ log_writer' = TRUE
    /\ out' = {}
    /\ UNCHANGED <<clock, counters, matching, last_report_ns, history>>

Tick ==
    /\ clock < MaxClock
    /\ clock' = clock + 1
    /\ out' = {}
    /\ UNCHANGED <<log_writer, counters, matching, last_report_ns, history>>

-----------------------------------------------------------------------------
(* process_event, first layer: the counters every module has *)

(* Faulty variant: an entry probe's retval 0 counts as a success. *)
BumpEntry(s, isRet, rv) ==
    [total |-> s.total + 1, succ |-> s.succ + (IF rv = 0 THEN 1 ELSE 0),
     fail |-> s.fail + (IF rv # 0 THEN 1 ELSE 0)]

Bump(s, isRet, rv) ==
    [total |-> s.total + 1,
     succ  |-> s.succ + (IF isRet /\ rv = 0 THEN 1 ELSE 0),
     fail  |-> s.fail + (IF isRet /\ rv # 0 THEN 1 ELSE 0)]

CountEvent(h, rv) ==
    LET m == ModuleOf(h)
        entry == h \notin RetHooks
    IN  /\ hook_stats' = [hook_stats EXCEPT ![h] = Bump(@, ~entry, rv)]
        /\ mod_send' = IF entry /\ h \notin RecvHooks
                       THEN [mod_send EXCEPT ![m] = @ + 1] ELSE mod_send
        /\ mod_recv' = IF entry /\ h \in RecvHooks
                       THEN [mod_recv EXCEPT ![m] = @ + 1] ELSE mod_recv

(* The history of one processed event. *)
Witness(h) ==
    /\ events < MaxEvents
    /\ events' = events + 1
    /\ seen' = [seen EXCEPT ![ModuleOf(h)] =
                    @ + (IF h \in RetHooks THEN 0 ELSE 1)]
    /\ reported' = reported

EventLine(h) == [kind |-> "EVENT", hook |-> h]

-----------------------------------------------------------------------------
(* process_event, second layer: on_latency of the routing handler *)

(* A second request under a key in use does not replace the first. *)
RecordPending(m, t) ==
    LET k == PackKey(m)
    IN  /\ pending' = Inserted(pending, k, t)
        /\ sent' = sent \cup {[msg |-> m, ts |-> t]}
        /\ tally' = [tally EXCEPT !.recorded =
                         @ + (IF k \in DOMAIN pending THEN 0 ELSE 1)]
        /\ latency' = latency

(* Faulty variant: no sanity check. *)
BelieveAll(lat) == TRUE

Believable(lat) == lat <= SANITY_NS

LatencyEvent(m, send, recv) ==
    [kind |-> "LATENCY", msg |-> m, send_ts |-> send, recv_ts |-> recv,
     lat |-> Sub64(recv, send)]

(* Whatever is found is erased; only a believable latency is a sample. *)
TryMatch(m, t) ==
    LET k == PackKey(m)
        lat == Sub64(t, pending[k])
    IN  /\ IF k \notin DOMAIN pending
           THEN UNCHANGED <<pending, latency, tally>>
           ELSE /\ pending' = Erase(pending, {k})
                /\ latency' = IF Believable(lat)
                              THEN Append(latency, lat) ELSE latency
                /\ tally' = IF Believable(lat)
                            THEN [tally EXCEPT !.matched = @ + 1]
                            ELSE [tally EXCEPT !.discarded = @ + 1]
        /\ sent' = sent

(* The [LATENCY] line of a match. *)
MatchLines(m, t) ==
    LET k == PackKey(m)
    IN  IF /\ log_writer /\ k \in DOMAIN pending
           /\ Believable(Sub64(t, pending[k]))
        THEN {LatencyEvent(m, pending[k], t)}
        ELSE {}

(* Faulty variants: return probes, which read no header, are not excluded;  *)
(* the direction of an answer is not looked at.                             *)
RequestSentRet(h, m) == h \notin RecvHooks /\ m.type \in Requests
AnswerSeenSent(h, m) == h \notin RetHooks /\ m.type \in Responses

RequestSent(h, m) == h \notin RetHooks \cup RecvHooks /\ m.type \in Requests
AnswerSeen(h, m)  == h \in RecvHooks \ RetHooks /\ m.type \in Responses

-----------------------------------------------------------------------------
(* The handlers, called by Collector::ringbuf_callback *)

(* A uretprobe event has a return value and no header; an entry probe passes *)
(* retval 0.                                                                 *)
RoutingRequest(h, m, t) ==
    /\ h \in Probes \cap RoutingHooks
    /\ RequestSent(h, m)
    /\ CountEvent(h, 0)
    /\ RecordPending(m, t)
    /\ Witness(h)
    /\ out' = {EventLine(h)}
    /\ UNCHANGED <<clock, log_writer, last_report_ns>>

RoutingAnswer(h, m, t) ==
    /\ h \in Probes \cap RoutingHooks
    /\ AnswerSeen(h, m)
    /\ CountEvent(h, 0)
    /\ TryMatch(m, t)
    /\ Witness(h)
    /\ out' = MatchLines(m, t) \cup {EventLine(h)}
    /\ UNCHANGED <<clock, log_writer, last_report_ns>>

(* Every other routing event is only counted. *)
RoutingOther(h, m, rv, t) ==
    /\ h \in Probes \cap RoutingHooks
    /\ h \in RetHooks \/ (rv = 0 /\ ~RequestSent(h, m) /\ ~AnswerSeen(h, m))
    /\ CountEvent(h, rv)
    /\ Witness(h)
    /\ out' = {EventLine(h)}
    /\ UNCHANGED <<clock, log_writer, last_report_ns, matching, sent, tally>>

AppEvent(h, rv, t) ==
    /\ h \in Probes \cap AppHooks
    /\ h \in RetHooks \/ rv = 0
    /\ CountEvent(h, rv)
    /\ Witness(h)
    /\ out' = {EventLine(h)}
    /\ UNCHANGED <<clock, log_writer, last_report_ns, matching, sent, tally>>

SdEvent(h, t) ==
    /\ h \in Probes \cap SdHooks
    /\ CountEvent(h, 0)
    /\ Witness(h)
    /\ out' = {EventLine(h)}
    /\ UNCHANGED <<clock, log_writer, last_report_ns, matching, sent, tally>>

-----------------------------------------------------------------------------
(* The report *)

Elapse == IF last_report_ns # 0 THEN clock - last_report_ns ELSE 0

ModuleLine(m) == [kind |-> "module", module |-> m, elapsed |-> Elapse,
                  send |-> mod_send[m], recv |-> mod_recv[m]]

Active == {m \in Modules : mod_send[m] # 0 \/ mod_recv[m] # 0}

ReportLines ==
    {ModuleLine(m) : m \in Active}
    \cup (IF latency = <<>> THEN {} ELSE {LatencyLine(latency)})

(* Events that the module lines among the lines L account for in module m. *)
CountedIn(L, m) ==
    LET S == {l \in L : l.kind = "module" /\ l.module = m}
    IN  IF S = {} THEN 0 ELSE LET l == CHOOSE l \in S : TRUE IN l.send + l.recv

SamplesIn(L) ==
    LET S == {l \in L : l.kind = "latency"}
    IN  IF S = {} THEN 0 ELSE (CHOOSE l \in S : TRUE).samples

(* A module's counter after the report: a module that was skipped keeps it. *)
AfterReport(counter) ==
    [m \in Modules |-> IF m \in Active THEN 0 ELSE counter[m]]

(* Faulty variant: mod_recv_ is not reset. *)
ResetPeriodSent ==
    /\ mod_send' = AfterReport(mod_send)
    /\ mod_recv' = mod_recv
    /\ latency' = <<>>
    /\ hook_stats' = [h \in Probes |-> ZeroStats]

(* The period restarts: the counters of the modules that were reported, the *)
(* samples and every hook counter are reset.                                *)
ResetPeriod ==
    /\ mod_send' = AfterReport(mod_send)
    /\ mod_recv' = AfterReport(mod_recv)
    /\ latency' = <<>>
    /\ hook_stats' = [h \in Probes |-> ZeroStats]

(* Without a writer only the time of the report is remembered. *)
FlushReport ==
    /\ last_report_ns' = clock
    /\ IF log_writer
       THEN ResetPeriod /\ out' = ReportLines
       ELSE out' = {} /\ UNCHANGED <<counters, latency>>
    /\ reported' = [m \in Modules |-> reported[m] + CountedIn(out', m)]
    /\ tally' = [tally EXCEPT !.summarised = @ + SamplesIn(out')]
    /\ UNCHANGED <<clock, log_writer, pending, events, sent, seen>>

-----------------------------------------------------------------------------
(* Eviction *)

(* Faulty variant: an entry expires when it reaches the limit. *)
ExpiredAtLimit ==
    {k \in DOMAIN pending : Sub64(clock, pending[k]) >= TIMEOUT_NS}

Expired == {k \in DOMAIN pending : Sub64(clock, pending[k]) > TIMEOUT_NS}

TimeoutLine(k) == [kind |-> "timeout", key |-> k,
                   elapsed_ms |-> Sub64(clock, pending[k]) \div NS_PER_MS]

EvictExpired ==
    /\ out' = IF log_writer THEN {TimeoutLine(k) : k \in Expired} ELSE {}
    /\ pending' = Erase(pending, Expired)
    /\ tally' = [tally EXCEPT !.expired = @ + Cardinality(Expired)]
    /\ UNCHANGED <<clock, log_writer, counters, latency, last_report_ns,
                   events, sent, seen, reported>>

-----------------------------------------------------------------------------
Next ==
    \/ SetLogWriter
    \/ Tick
    \/ \E h \in Probes, m \in Messages, t \in 0 .. clock : RoutingRequest(h, m, t)
    \/ \E h \in Probes, m \in Messages, t \in 0 .. clock : RoutingAnswer(h, m, t)
    \/ \E h \in Probes, m \in Messages, rv \in {-1, 0}, t \in 0 .. clock :
          RoutingOther(h, m, rv, t)
    \/ \E h \in Probes, rv \in {-1, 0}, t \in 0 .. clock : AppEvent(h, rv, t)
    \/ \E h \in Probes, t \in 0 .. clock : SdEvent(h, t)
    \/ FlushReport
    \/ EvictExpired

Spec == Init /\ [][Next]_vars
-----------------------------------------------------------------------------
(* Properties *)

LineKinds == {"EVENT", "LATENCY", "module", "latency", "timeout"}

(* Type invariant: every member of StatsCollector holds a value of its C++  *)
(* type within the bounds, and a pending entry is never from the future.    *)
TypeOK ==
    /\ clock \in 0 .. MaxClock
    /\ log_writer \in BOOLEAN
    /\ hook_stats \in [Probes -> [total : Nat, succ : Nat, fail : Nat]]
    /\ mod_send \in [Modules -> Nat] /\ mod_recv \in [Modules -> Nat]
    /\ DOMAIN pending \subseteq Keys
    /\ pending \in [DOMAIN pending -> 0 .. clock]
    /\ latency \in Seq(0 .. SANITY_NS)
    /\ last_report_ns \in 0 .. clock
    /\ \A l \in out : l.kind \in LineKinds
    /\ events \in 0 .. MaxEvents
    /\ sent \subseteq [msg : Messages, ts : 0 .. clock]
    /\ tally \in [recorded : Nat, matched : Nat, discarded : Nat,
                  expired : Nat, summarised : Nat]
    /\ seen \in [Modules -> Nat] /\ reported \in [Modules -> Nat]

(* record_pending: an entry of the pending table stems from a request that  *)
(* a sending probe saw, and holds the timestamp of that very event, not the *)
(* time at which it was processed.                                          *)
PendingGenuine ==
    \A k \in DOMAIN pending :
        \E s \in sent : PackKey(s.msg) = k /\ s.ts = pending[k]

SameCall(m, n) ==
    /\ m.svc = n.svc /\ m.method = n.method
    /\ m.client = n.client /\ m.session = n.session

(* try_match: a [LATENCY] line pairs the answer with a request of the very  *)
(* same service, method, client and session that a sending probe did see,   *)
(* at the send_ts it prints, and its latency is the true distance of the    *)
(* two timestamps, within 60 s: neither the packing of the key nor the      *)
(* unsigned subtraction of timestamps out of order can fabricate a pair.    *)
LatencyLinesGenuine ==
    \A l \in out : l.kind = "LATENCY" =>
        /\ \E s \in sent : SameCall(s.msg, l.msg) /\ s.ts = l.send_ts
        /\ l.send_ts <= l.recv_ts
        /\ l.lat = l.recv_ts - l.send_ts
        /\ l.lat <= SANITY_NS

(* evict_expired: a timeout line names the key of a request that was seen   *)
(* and has truly been waiting for more than 30 s.                           *)
TimeoutsReal ==
    \A l \in out : l.kind = "timeout" =>
        \E s \in sent : /\ PackKey(s.msg) = l.key
                        /\ clock - s.ts > TIMEOUT_NS
                        /\ l.elapsed_ms = (clock - s.ts) \div NS_PER_MS

(* The pending table neither loses nor duplicates an entry: whatever        *)
(* record_pending put in was matched once, discarded once by the 60 s check *)
(* or evicted once, or is still there; and every match is a sample that is  *)
(* waiting for, or was counted by, exactly one latency summary.             *)
PendingConservation ==
    /\ tally.recorded = tally.matched + tally.discarded + tally.expired
                            + Cardinality(DOMAIN pending)
    /\ tally.matched = tally.summarised + Len(latency)

(* flush_report: the send and receive counts of the module lines written so *)
(* far and the counters of the running period add up to the entry events    *)
(* processed, so no report drops or repeats an event, whichever modules     *)
(* were idle and whenever the writer was installed.                         *)
CountsConserved ==
    \A m \in Modules : seen[m] = reported[m] + mod_send[m] + mod_recv[m]

HooksOf(m, dirs) == {h \in Probes : ModuleOf(h) = m /\ h \in dirs \ RetHooks}
Totals(stats, S) == MapThenSumSet(LAMBDA h : stats[h].total, S)

(* process_event keeps two ledgers of the same events: within a period the  *)
(* totals of a module's entry hooks add up to its send and receive counters *)
(* and a return probe splits its total into successes and failures.         *)
LedgersAgree ==
    /\ \A m \in Modules :
          /\ mod_send[m] = Totals(hook_stats, HooksOf(m, Hooks \ RecvHooks))
          /\ mod_recv[m] = Totals(hook_stats, HooksOf(m, RecvHooks))
    /\ \A h \in Probes : LET s == hook_stats[h] IN
          s.succ + s.fail = IF h \in RetHooks THEN s.total ELSE 0

(* record_pending keeps the first timestamp of a key ("do not overwrite"):  *)
(* while a key stays in the table its send_ts does not change, and it       *)
(* leaves only by an answer with that key or after 30 s.                    *)
Answers(k) == \E h \in Probes, m \in Messages, t \in 0 .. clock :
                 PackKey(m) = k /\ RoutingAnswer(h, m, t)
FirstKept ==
    [][\A k \in DOMAIN pending :
         \/ k \in DOMAIN pending' /\ pending'[k] = pending[k]
         \/ k \notin DOMAIN pending' /\ clock - pending[k] > TIMEOUT_NS
         \/ k \notin DOMAIN pending' /\ Answers(k)]_vars

(* flush_report: in every [STATS] latency line it writes, the elements it   *)
(* indexes in the sorted vector are the median and the 99th percentile of   *)
(* the period's samples, in microseconds, by count; no index is out of      *)
(* range, whatever the number of samples.                                   *)
PercentilesByCount ==
    [][\A l \in out' : l.kind = "latency" => PercentilesOf(l, latency)]_vars

(* flush_report: the latency line is consistent with itself and with the    *)
(* samples: median <= 99th percentile <= maximum, no sample of the period   *)
(* is above the maximum, and the average lies between the extremes.         *)
SummaryConsistent ==
    [][\A l \in out' : l.kind = "latency" => ConsistentWith(l, latency)]_vars

-----------------------------------------------------------------------------
(* What the comments say and the code does not do *)

(* process_event's comment: only a sent REQUEST is recorded.  A timeout is  *)
(* then only reported for a call that expects an answer.                    *)
TimeoutOnlyForRequests ==
    \A l \in out : l.kind = "timeout" =>
        \E s \in sent : PackKey(s.msg) = l.key /\ s.msg.type = "REQUEST"
=============================================================================
