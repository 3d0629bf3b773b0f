--------------------------- MODULE CollectorLife ---------------------------
(***************************************************************************)
(* A single Collector under any caller: init(), attach(), detach(),        *)
(* destroy() and set_event_context() any number of times and in any order, *)
(* init() on a collector that has its object included; with the hook table *)
(* the build produced for it, whichever symbols it found.                  *)
(***************************************************************************)
EXTENDS Collector, HookTable, FiniteSetsExt

CONSTANT MaxCalls       \* bound: calls of init() and attach()

ASSUME LifeAssumption == MaxCalls \in Nat

VARIABLES col,          \* the collector
          alive,        \* the process has not crashed
          granted,      \* history: hooks the kernel granted in the last attach
          abandoned,    \* history: objects whose handle init() overwrote
          destroyed,    \* history: destroy() was called, and no init() since
          calls,        \* history: calls of init() and attach()
          event         \* history: the last event: its hook, and its name

past == <<granted, abandoned, destroyed, calls, event>>
vars == <<offsets, col, alive, past>>

Init ==
    /\ \E syms \in SUBSET Functions, demangled \in BOOLEAN :
          offsets = Exported(syms, demangled)
    /\ col = New(GroupHooks)
    /\ alive = TRUE
    /\ granted = {} /\ abandoned = 0 /\ destroyed = FALSE /\ calls = 0
    /\ event = [hook |-> "none", name |-> "none"]

Called == calls < MaxCalls /\ calls' = calls + 1

InitCall ==
    /\ alive /\ Called
    /\ col' \in {OpenFails(col), LoadFails(col), InitOk(col)}
    /\ abandoned' = abandoned + (IF col.obj THEN 1 ELSE 0)
    /\ destroyed' = FALSE
    /\ UNCHANGED <<offsets, alive, granted, event>>

SetContext ==
    /\ alive
    /\ col' = [col EXCEPT !.ctx = TRUE]
    /\ UNCHANGED <<offsets, alive, past>>

(* The loop of attach() runs over hook_count entries of hook_cfgs[]: those  *)
(* in the table, and those past its end.                                    *)
InTable == {HookCfgs[i] : i \in 1 .. Len(HookCfgs)}
PastEnd == HookCount - Len(HookCfgs)

(* Past the end the loop takes for a hook_cfg what the compiler placed      *)
(* there.  Its name may be that of a program of the object, and its path    *)
(* that of a file: then the program is attached where nobody asked for it.  *)
(* Otherwise the entry is skipped, if the lookup of the name survives it.   *)
Links(f) == MapThenSumSet(LAMBDA h : f[h], GroupHooks)
Strays == {f \in [GroupHooks -> 0 .. PastEnd] :
              /\ \A h \in GroupHooks \ Programs : f[h] = 0
              /\ Links(f) <= PastEnd}

Strayed(c, stray) ==
    LET more(f) == [h \in HooksOf(c) |-> f[h] + stray[h]]
    IN  [c EXCEPT !.links = more(@), !.probes = more(@)]

AttachCall ==
    /\ alive /\ Called
    /\ \E G \in SUBSET GroupHooks, ringOk \in BOOLEAN, stray \in Strays :
          /\ col' = IF col.obj
                    THEN Strayed(Attach(col, G \cap InTable, ringOk), stray)
                    ELSE col
          /\ granted' = IF col.obj THEN G ELSE granted
    /\ UNCHANGED <<offsets, alive, abandoned, destroyed, event>>

(* The lookup does not survive it, and the kernel takes back all that the   *)
(* process had.                                                             *)
AttachCrashes ==
    /\ alive /\ Called
    /\ col.obj /\ PastEnd > 0
    /\ alive' = FALSE
    /\ col' = New(GroupHooks) /\ abandoned' = 0
    /\ UNCHANGED <<offsets, granted, destroyed, event>>

DetachCall ==
    /\ alive
    /\ col' = Detach(col)
    /\ UNCHANGED <<offsets, alive, past>>

DestroyCall ==
    /\ alive
    /\ col' = Destroy(col)
    /\ destroyed' = TRUE
    /\ UNCHANGED <<offsets, alive, granted, abandoned, calls, event>>

(* A probe of the collector fires; poll() hands its record to               *)
(* ringbuf_callback, which does nothing without a context.  A probe left    *)
(* from an object that init() overwrote may have a ring that is not polled; *)
(* its events are allowed too.                                              *)
PollEvent(h) ==
    /\ alive
    /\ col.probes[h] > 0 /\ col.ringbuf
    /\ event' = IF col.ctx THEN [hook |-> h, name |-> NameOf(HookId(h))]
                ELSE event
    /\ UNCHANGED <<offsets, col, alive, granted, abandoned, destroyed, calls>>

Next ==
    \/ InitCall \/ SetContext \/ AttachCall \/ AttachCrashes
    \/ DetachCall \/ DestroyCall
    \/ \E h \in GroupHooks : PollEvent(h)

Spec == Init /\ [][Next]_vars

-----------------------------------------------------------------------------
(* Properties *)

(* Whatever fails in init() and attach(), however often and in whichever    *)
(* order the methods are called: probes and ring consumers are those the    *)
(* collector has handles for, and the only BPF objects without a handle are *)
(* those of an init() that was called on top of them.                       *)
HandlesOwnKernel == OwnedBut(col, abandoned)

(* is_attached(), ringbuf_fd() and poll() agree on whether there is a ring. *)
AttachedIsPollable == Pollable(col)

(* After destroy(), whatever was called before and failed half-way, and in  *)
(* a collector that never got an object, there is no probe in the monitored *)
(* processes, no ring consumer and no object but those init() overwrote.    *)
NoObjectNoProbes ==
    destroyed \/ (~col.obj /\ abandoned = 0) =>
        Quiet(col) /\ col.loaded = abandoned

(* ringbuf_callback: an event is reported under the name of the hook whose  *)
(* program sent it, although hook_id counts all hooks of hooks.json,        *)
(* hook_cfgs[] may lack some and what lies past its end may name any.       *)
EventsNamed == event.name = event.hook

(* A build that found every function makes a table that attach() walks      *)
(* safely and to the end: no call crashes, and an attached collector lacks  *)
(* only the hooks whose program is missing or whose uprobe was refused.     *)
CompleteTableAttached ==
    Functions \subseteq offsets =>
        /\ alive
        /\ col.attached => \A h \in granted \cap Programs : col.probes[h] >= 1

-----------------------------------------------------------------------------
(* What the comments say and the code does not do *)

(* attach(): "walks the array hooks[] of the file_group": it stays within   *)
(* the array it walks.                                                      *)
AttachStaysInTable == col.attached => HookCount <= Len(HookCfgs)

(* attach(): "SEC name = hook name, the two agree", so that an attached     *)
(* collector lacks only the hooks without an offset and those the kernel    *)
(* refused.                                                                 *)
AttachSkipsOnlyRefused ==
    col.attached => \A h \in granted \cap InTable : col.probes[h] >= 1
=============================================================================
