------------------------- MODULE MCRoutingPipeline -------------------------
(* Instances of RoutingPipeline for TLC. *)
EXTENDS RoutingPipeline

Msg(session, type) == [svc |-> 0, method |-> 0, client |-> 0,
                       session |-> session, type |-> type]

(* One call of session 1; session 0 is only in headers nobody wrote. *)
OneCall     == {Msg(1, "REQUEST"), Msg(1, "RESPONSE")}
WithUnknown == OneCall \cup {ZeroHeader}

SendAndReceive == {"rm_send_entry", "rm_send_ret", "rm_on_message"}
=============================================================================
