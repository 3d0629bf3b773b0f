------------------------------- MODULE Hooks -------------------------------
(***************************************************************************)
(* The probe table: the twelve hooks of config/hooks.json with what the    *)
(* BPF programs hard-wire for each of them (the module, the direction and  *)
(* the is_ret argument of submit_routing, submit_app and submit_sd).       *)
(***************************************************************************)

RoutingHooks == {"rm_send_entry", "rm_send_ret", "rm_send_to_entry",
                 "rm_send_to_ret", "rm_on_message"}

AppHooks == {"app_send_entry", "app_send_ret", "app_on_message"}

SdHooks == {"sd_send", "sd_process_offer", "sd_send_subscription",
            "sd_handle_subscription"}

Hooks == RoutingHooks \cup AppHooks \cup SdHooks

(* Hooks whose program passes DIR_RECV; all the others pass DIR_SEND. *)
RecvHooks == {"rm_on_message", "app_on_message", "sd_process_offer",
              "sd_handle_subscription"}

(* uretprobes: they see a return value and no message. *)
RetHooks == {"rm_send_ret", "rm_send_to_ret", "app_send_ret"}

(* The programs the BPF objects define, by the name of the C function,      *)
(* which is the name libbpf gives a program.                                *)
BpfPrograms == {"hook_rm_send_entry", "hook_rm_send_ret",
                "hook_rm_send_to_entry", "hook_rm_send_to_ret",
                "hook_rm_on_message", "hook_app_send_entry",
                "hook_app_send_ret", "hook_app_on_message", "hook_sd_send",
                "hook_sd_process_offer", "hook_sd_send_subscription",
                "hook_sd_handle_subscription"}

Modules == {"routing", "app", "sd"}

ModuleOf(h) == IF h \in RoutingHooks THEN "routing"
               ELSE IF h \in AppHooks THEN "app" ELSE "sd"

=============================================================================
