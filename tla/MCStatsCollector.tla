-------------------------- MODULE MCStatsCollector --------------------------
(* Instances of StatsCollector for TLC. *)
EXTENDS StatsCollector

Msg(svc, session, type) ==
    [svc |-> svc, method |-> 0, client |-> 0, session |-> session, type |-> type]

(* Two calls that differ in service and session, each with a request and  *)
(* an answer.                                                              *)
MatchingMessages ==
    {Msg(0, 1, "REQUEST"), Msg(1, 0, "REQUEST"), Msg(0, 1, "RESPONSE"),
     Msg(1, 0, "ERROR")}

(* A call that nobody answers. *)
OneWayMessages == {Msg(0, 1, "REQUEST_NO_RETURN")}

StatsProbes == {"rm_send_entry", "rm_send_ret", "rm_on_message", "app_send_ret",
                "sd_process_offer"}
MatchingProbes == {"rm_send_entry", "rm_on_message"}
=============================================================================
