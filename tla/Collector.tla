----------------------------- MODULE Collector -----------------------------
(***************************************************************************)
(* One Collector: the handles the object keeps (obj_, links_, ringbuf_)    *)
(* and the kernel resources they stand for.  The methods are operators     *)
(* from a collector's state to its next state, with the outcomes of the    *)
(* libbpf calls as parameters; CollectorManager applies them to each of    *)
(* its collectors.  The fields loaded, probes and consumers are the        *)
(* kernel's side: what really exists, whoever holds a handle to it.        *)
(***************************************************************************)
EXTENDS Integers, FiniteSets, Hooks

CONSTANT Programs       \* names of the programs found in the BPF objects

New(hooks) ==
    [obj       |-> FALSE,                    \* obj_ # nullptr
     links     |-> [h \in hooks |-> 0],      \* links_: handles per hook
     ringbuf   |-> FALSE,                    \* ringbuf_ # nullptr
     fd        |-> FALSE,                    \* ringbuf_fd_ >= 0
     attached  |-> FALSE,                    \* attached_
     ctx       |-> FALSE,                    \* event_ctx_ # nullptr
     loaded    |-> 0,                        \* kernel: loaded BPF objects
     probes    |-> [h \in hooks |-> 0],      \* kernel: active uprobes
     consumers |-> 0]                        \* kernel: mapped ring consumers

HooksOf(c) == DOMAIN c.links

(* init(): open_mem allocates, load fills the kernel; a failed load closes  *)
(* the object again.  obj_ is overwritten whether or not it was null, and   *)
(* what it named before stays in the kernel.                                *)
OpenFails(c) == [c EXCEPT !.obj = FALSE]
(* Faulty variant: the object is forgotten, not closed. *)
LoadFailsLeaky(c) == [c EXCEPT !.obj = FALSE, !.loaded = @ + 1]

LoadFails(c) ==
    LET opened == [c EXCEPT !.obj = TRUE, !.loaded = @ + 1]
    IN  [opened EXCEPT !.obj = FALSE, !.loaded = @ - 1]
InitOk(c) == [c EXCEPT !.obj = TRUE, !.loaded = @ + 1]

(* Faulty variant: attached_ is left set. *)
DetachKeepFlag(c) ==
    [c EXCEPT !.probes    = [h \in HooksOf(c) |-> @[h] - c.links[h]],
              !.links     = [h \in HooksOf(c) |-> 0],
              !.consumers = @ - (IF c.ringbuf THEN 1 ELSE 0),
              !.ringbuf   = FALSE,
              !.fd        = @ /\ ~c.ringbuf]

(* detach(): every link handle is destroyed, then the ring consumer.        *)
Detach(c) ==
    [c EXCEPT !.probes    = [h \in HooksOf(c) |-> @[h] - c.links[h]],
              !.links     = [h \in HooksOf(c) |-> 0],
              !.consumers = @ - (IF c.ringbuf THEN 1 ELSE 0),
              !.ringbuf   = FALSE,
              !.fd        = @ /\ ~c.ringbuf,
              !.attached  = FALSE]

(* Faulty variants: nothing is detached; nothing is done unless attached.   *)
DestroyObjectOnly(c) ==
    [c EXCEPT !.loaded = @ - (IF c.obj THEN 1 ELSE 0), !.obj = FALSE]

DestroyIfAttached(c) ==
    LET d == Detach(c)
    IN  IF c.attached
        THEN [d EXCEPT !.loaded = @ - (IF d.obj THEN 1 ELSE 0), !.obj = FALSE]
        ELSE c

Destroy(c) ==
    LET d == Detach(c)
    IN  [d EXCEPT !.loaded = @ - (IF d.obj THEN 1 ELSE 0), !.obj = FALSE]

(* attach(), the loop over the hooks: a hook whose program is found and     *)
(* whose uprobe the kernel grants gets one more link.                       *)
Linked(c, granted) ==
    LET ok == {h \in HooksOf(c) : h \in Programs /\ h \in granted}
        more(f) == [h \in HooksOf(c) |-> f[h] + (IF h \in ok THEN 1 ELSE 0)]
    IN  [c EXCEPT !.links = more(@), !.probes = more(@)]

(* The ring consumer; without one the links that were made stay. *)
WithRing(c, ringOk) ==
    IF ringOk
    THEN [c EXCEPT !.ringbuf = TRUE, !.fd = TRUE, !.attached = TRUE,
                   !.consumers = @ + 1]
    ELSE c

(* attach() of a collector that has its object; without one it returns -1.  *)
Attach(c, granted, ringOk) ==
    IF ~c.obj THEN c
    ELSE WithRing(Linked(IF c.attached THEN Detach(c) ELSE c, granted), ringOk)

-----------------------------------------------------------------------------
(* What must hold of one collector *)

(* Besides n objects without a handle the kernel holds exactly what the     *)
(* collector has handles for.                                               *)
OwnedBut(c, n) ==
    /\ c.loaded = n + (IF c.obj THEN 1 ELSE 0)
    /\ c.consumers = IF c.ringbuf THEN 1 ELSE 0
    /\ c.probes = c.links

(* Nothing is leaked and nothing is released twice.                         *)
Owned(c) == OwnedBut(c, 0)

(* run_loop() tests is_attached() and ringbuf_fd(), poll() tests ringbuf_:  *)
(* the three agree.                                                         *)
Pollable(c) == (c.attached <=> c.ringbuf) /\ (c.fd <=> c.ringbuf)

(* No probe is left in the monitored processes, and no ring consumer. *)
Quiet(c) == c.consumers = 0 /\ \A h \in DOMAIN c.probes : c.probes[h] = 0

Released(c) == c.loaded = 0 /\ Quiet(c)
=============================================================================
