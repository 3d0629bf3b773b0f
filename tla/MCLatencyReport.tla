-------------------------- MODULE MCLatencyReport --------------------------
(***************************************************************************)
(* The latency summary on long periods.  A bench for the actions of        *)
(* StatsCollector that starts in the middle of a life: Earlier calls were  *)
(* answered after 2 ns, and all but start of them were summarised by a     *)
(* report, so start equal samples (more than 100 of them, or p99 and max   *)
(* are the same element) are waiting when calls with any latency follow,   *)
(* in any order.                                                           *)
(***************************************************************************)
EXTENDS MCStatsCollector

CONSTANTS Values,       \* the latencies of the calls that follow
          Fillers,      \* numbers of samples waiting at the start
          MaxCalls      \* bound: calls that follow

Request == Msg(0, 1, "REQUEST")
Answer  == Msg(0, 1, "RESPONSE")
BenchMessages == {Request, Answer}

Earlier == MaxEvents \div 2 - MaxCalls

Counted(n) == [total |-> n, succ |-> 0, fail |-> 0]
Routing(n) == [m \in Modules |-> IF m = "routing" THEN n ELSE 0]

BenchInit == \E start \in Fillers :
    /\ clock = MaxClock
    /\ log_writer = TRUE
    /\ hook_stats = [h \in Probes |-> Counted(start)]
    /\ mod_send = Routing(start)
    /\ mod_recv = Routing(start)
    /\ pending = [k \in {} |-> 0]
    /\ latency = [i \in 1 .. start |-> 2]
    /\ last_report_ns = IF start = Earlier THEN 0 ELSE 2
    /\ out = {}
    /\ events = 2 * Earlier
    /\ sent = {[msg |-> Request, ts |-> 0]}
    /\ tally = [recorded |-> Earlier, matched |-> Earlier, discarded |-> 0,
                expired |-> 0, summarised |-> Earlier - start]
    /\ seen = Routing(2 * Earlier)
    /\ reported = Routing(2 * (Earlier - start))

BenchNext ==
    \/ RoutingRequest("rm_send_entry", Request, 0)
    \/ \E v \in Values : RoutingAnswer("rm_on_message", Answer, v)
    \/ FlushReport

BenchSpec == BenchInit /\ [][BenchNext]_vars
=============================================================================
