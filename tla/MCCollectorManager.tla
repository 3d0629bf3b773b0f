------------------------- MODULE MCCollectorManager -------------------------
(* Instances of CollectorManager for TLC. *)
EXTENDS CollectorManager

TwoGroups == <<"routing", "sd">>
TwoTables == [g \in {"routing", "sd"} |->
                 IF g = "routing" THEN {"rm_send_entry", "rm_on_message"}
                 ELSE {"sd_send"}]
SameNames == Hooks
=============================================================================
