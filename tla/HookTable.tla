----------------------------- MODULE HookTable -----------------------------
(***************************************************************************)
(* The table of one module's hooks as the build generates it: the symbols  *)
(* of the library are exported with their file offsets (export_symbol.sh), *)
(* and the offsets are joined with the entry of hooks.json into the arrays *)
(* and numbers of hook_config.h and hook_ids.h (gen_hook_config.sh).       *)
(***************************************************************************)
EXTENDS Naturals, Sequences, Hooks

CONSTANT JsonHooks      \* hooks[] of the module in hooks.json, in order

VARIABLE offsets        \* functions the table of offsets has a row for

GroupHooks == {JsonHooks[i] : i \in DOMAIN JsonHooks}

ASSUME JsonAssumption ==
    /\ JsonHooks \in Seq(Hooks)
    /\ \A i, j \in DOMAIN JsonHooks : JsonHooks[i] = JsonHooks[j] => i = j

(* The function a hook is on, named after its entry hook: the return probes *)
(* are on the functions of the send hooks.                                  *)
FunctionOf(h) ==
    CASE h = "rm_send_ret"    -> "rm_send_entry"
      [] h = "rm_send_to_ret" -> "rm_send_to_entry"
      [] h = "app_send_ret"   -> "app_send_entry"
      [] OTHER                -> h

Functions == {FunctionOf(h) : h \in GroupHooks}

(* export_symbol.sh: the functions found under the names hooks.json uses,   *)
(* when the library has the symbols syms.  Without c++filt the names stay   *)
(* mangled and none is found.                                               *)
Exported(syms, demangled) == IF demangled THEN syms ELSE {}

(* Faulty variant: an offset is taken out of the lookup table when it is    *)
(* used, and the second hook on the function finds none.                    *)
HookCfgsOnce ==
    LET upTo[i \in 0 .. Len(JsonHooks)] ==
          IF i = 0 THEN <<>>
          ELSE IF /\ FunctionOf(JsonHooks[i]) \in offsets
                  /\ \A j \in 1 .. i - 1 :
                        FunctionOf(JsonHooks[j]) # FunctionOf(JsonHooks[i])
               THEN Append(upTo[i - 1], JsonHooks[i])
               ELSE upTo[i - 1]
    IN  upTo[Len(JsonHooks)]

(* gen_hook_config.sh: hook_cfgs[] leaves out the hooks without an offset;  *)
(* hook_names[] and hook_count do not.                                      *)
HookCfgs ==
    LET upTo[i \in 0 .. Len(JsonHooks)] ==
          IF i = 0 THEN <<>>
          ELSE IF FunctionOf(JsonHooks[i]) \in offsets
               THEN Append(upTo[i - 1], JsonHooks[i])
               ELSE upTo[i - 1]
    IN  upTo[Len(JsonHooks)]

HookNames == JsonHooks
HookCount == Len(JsonHooks)

(* hook_ids.h: the number a program puts in its records; counted from 1     *)
(* here.                                                                    *)
HookId(h) == CHOOSE i \in DOMAIN JsonHooks : JsonHooks[i] = h

(* Faulty variant: the name is taken from the table that has gaps. *)
NameOfCfg(id) == IF id \in 1 .. Len(HookCfgs) THEN HookCfgs[id] ELSE "unknown"

(* The name ringbuf_callback gives an event. *)
NameOf(id) == IF id \in 1 .. HookCount THEN HookNames[id] ELSE "unknown"
=============================================================================
