-------------------------- MODULE MCCollectorLife --------------------------
(* Instances of CollectorLife for TLC. *)
EXTENDS CollectorLife

AppJson == <<"app_send_entry", "app_send_ret", "app_on_message">>

(* The names of config/hooks.json, as if the programs were called so. *)
SameNames == Hooks
=============================================================================
