-------------------------- MODULE CollectorProofs --------------------------
(***************************************************************************)
(* What each method of Collector preserves, for every set H of hooks and   *)
(* whichever of the libbpf calls fail: the lemmas the proofs about a       *)
(* single collector and about the whole program rest on.                   *)
(***************************************************************************)
EXTENDS Collector, TLAPS

(* The states of one collector. *)
State(H) ==
    [obj : BOOLEAN, links : [H -> Int], ringbuf : BOOLEAN, fd : BOOLEAN,
     attached : BOOLEAN, ctx : BOOLEAN, loaded : Int, probes : [H -> Int],
     consumers : Int]

(* The inductive invariant of a collector that has lost n objects: its      *)
(* properties hold together or not at all, since attach() relies on         *)
(* attached_ to know whether there is a ring to release, and destroy() on   *)
(* the handles to know what the kernel holds.                               *)
Kept(H, c, n) == c \in State(H) /\ OwnedBut(c, n) /\ Pollable(c)

(* The constructor. *)
LEMMA NewKept == ASSUME NEW H PROVE Kept(H, New(H), 0) /\ Quiet(New(H))
BY DEF Kept, State, New, OwnedBut, Pollable, Quiet

(* init(): the object the collector had, if any, is lost. *)
LEMMA InitKept ==
    ASSUME NEW H, NEW c, NEW n \in Int, Kept(H, c, n),
           NEW d \in {OpenFails(c), LoadFails(c), InitOk(c)}
    PROVE  /\ Kept(H, d, n + (IF c.obj THEN 1 ELSE 0))
           /\ d.probes = c.probes /\ d.consumers = c.consumers
<1> DEFINE m == n + (IF c.obj THEN 1 ELSE 0)
           e == InitOk(c)
<1>0. c \in State(H)
  BY DEF Kept
<1>1. ASSUME d \in State(H), d.loaded = m + (IF d.obj THEN 1 ELSE 0),
             d.ringbuf = c.ringbuf, d.fd = c.fd, d.attached = c.attached,
             d.links = c.links, d.probes = c.probes, d.consumers = c.consumers
      PROVE  Kept(H, d, m)
  BY <1>1 DEF Kept, OwnedBut, Pollable
<1>2. c.loaded = m /\ m \in Int
  BY DEF Kept, OwnedBut
<1>3. /\ e \in State(H) /\ e.loaded = c.loaded + 1 /\ e.obj = TRUE
      /\ e.ringbuf = c.ringbuf /\ e.fd = c.fd /\ e.attached = c.attached
      /\ e.links = c.links /\ e.probes = c.probes
      /\ e.consumers = c.consumers
  <2>1. c.loaded + 1 \in Int
    BY <1>0 DEF State
  <2>2. e \in State(H)
    BY <1>0, <2>1, Zenon DEF State, InitOk
  <2> QED BY <1>0, <2>2 DEF State, InitOk
<1>4. CASE d = OpenFails(c)
  <2>1. d \in State(H)
    BY <1>0, <1>4, Zenon DEF State, OpenFails
  <2>2. /\ d.obj = FALSE /\ d.loaded = c.loaded
        /\ d.ringbuf = c.ringbuf /\ d.fd = c.fd /\ d.attached = c.attached
        /\ d.links = c.links /\ d.probes = c.probes
        /\ d.consumers = c.consumers
    BY <1>0, <1>4 DEF State, OpenFails
  <2> HIDE DEF m
  <2>3. d.loaded = m + (IF d.obj THEN 1 ELSE 0)
    BY <1>2, <2>2
  <2> QED BY <1>1, <2>1, <2>2, <2>3 DEF m
<1>5. CASE d = InitOk(c)
  <2> HIDE DEF m
  <2>1. d.loaded = m + (IF d.obj THEN 1 ELSE 0)
    BY <1>2, <1>3, <1>5
  <2> QED BY <1>1, <1>3, <1>5, <2>1 DEF m
<1>6. CASE d = LoadFails(c)
  <2>0. d = [e EXCEPT !.obj = FALSE, !.loaded = @ - 1]
    BY <1>6 DEF LoadFails, InitOk
  <2> HIDE DEF e, m
  <2>1. d \in State(H)
    <3>1. e.loaded - 1 \in Int
      BY <1>3 DEF State
    <3> QED BY <1>3, <2>0, <3>1, Zenon DEF State
  <2>2. /\ d.obj = FALSE /\ d.loaded = c.loaded
        /\ d.ringbuf = c.ringbuf /\ d.fd = c.fd /\ d.attached = c.attached
        /\ d.links = c.links /\ d.probes = c.probes
        /\ d.consumers = c.consumers
    BY <1>0, <1>3, <2>0 DEF State
  <2>3. d.loaded = m + (IF d.obj THEN 1 ELSE 0)
    BY <1>2, <2>2
  <2> QED BY <1>1, <2>1, <2>2, <2>3 DEF m
<1> QED BY <1>4, <1>5, <1>6

(* detach(): nothing but the object is left. *)
LEMMA DetachKept ==
    ASSUME NEW H, NEW c, NEW n \in Int, Kept(H, c, n)
    PROVE  /\ Kept(H, Detach(c), n)
           /\ Detach(c).obj = c.obj
           /\ ~Detach(c).ringbuf /\ ~Detach(c).attached
           /\ Detach(c).consumers = 0
           /\ Detach(c).links = [h \in H |-> 0]
           /\ Detach(c).probes = [h \in H |-> 0]
           /\ Quiet(Detach(c))
<1> DEFINE d == Detach(c)
<1>0. c \in State(H)
  BY DEF Kept
<1>1. HooksOf(c) = H
  BY <1>0 DEF State, HooksOf
<1>2. d.links = [h \in H |-> 0] /\ d.probes = [h \in H |-> 0]
  BY <1>1 DEF Kept, State, Detach, OwnedBut
<1>3. d.consumers = 0
  BY DEF Kept, State, Detach, OwnedBut
<1>4. d \in State(H)
  <2> DEFINE p == [h \in H |-> c.probes[h] - c.links[h]]
             k == c.consumers - (IF c.ringbuf THEN 1 ELSE 0)
             z == [h \in H |-> 0]
             f == c.fd /\ ~c.ringbuf
  <2>1. /\ p \in [H -> Int] /\ k \in Int /\ z \in [H -> Int]
    BY <1>0 DEF State
  <2>2. f \in BOOLEAN
    OBVIOUS
  <2>3. d = [c EXCEPT !.probes = p, !.links = z, !.consumers = k,
                      !.ringbuf = FALSE, !.fd = f, !.attached = FALSE]
    BY <1>0, <1>1 DEF Detach, State
  <2> HIDE DEF p, k, z, f, d
  <2> QED BY <1>0, <2>1, <2>2, <2>3, Zenon DEF State
<1>5. /\ d.obj = c.obj /\ d.loaded = c.loaded
      /\ ~d.ringbuf /\ ~d.attached /\ ~d.fd
  BY DEF Kept, State, Detach, Pollable
<1>6. Kept(H, d, n) /\ Quiet(d)
  <2> HIDE DEF d
  <2> QED BY <1>2, <1>3, <1>4, <1>5 DEF Kept, OwnedBut, Pollable, Quiet
<1> QED BY <1>2, <1>3, <1>5, <1>6

(* destroy(): nothing is left but the objects that were lost before. *)
LEMMA DestroyKept ==
    ASSUME NEW H, NEW c, NEW n \in Int, Kept(H, c, n)
    PROVE  /\ Kept(H, Destroy(c), n)
           /\ ~Destroy(c).obj /\ ~Destroy(c).ringbuf /\ ~Destroy(c).attached
           /\ Destroy(c).probes = [h \in H |-> 0]
           /\ Quiet(Destroy(c))
<1> DEFINE d == Detach(c)
           e == Destroy(c)
           m == d.loaded - (IF d.obj THEN 1 ELSE 0)
<1>1. /\ Kept(H, d, n) /\ ~d.ringbuf /\ ~d.attached /\ d.consumers = 0
      /\ d.links = [h \in H |-> 0]
      /\ d.probes = [h \in H |-> 0]
  BY DetachKept
<1>2. e = [d EXCEPT !.loaded = m, !.obj = FALSE]
  BY <1>1 DEF Destroy, Kept, State
<1> HIDE DEF d, e
<1>3. m = n
  BY <1>1 DEF Kept, OwnedBut
<1> HIDE DEF m
<1>4. e \in State(H)
  <2>1. d \in State(H) /\ m \in Int
    BY <1>1, <1>3 DEF Kept
  <2> QED BY <1>2, <2>1, Zenon DEF State
<1>5. /\ e.loaded = n /\ e.obj = FALSE /\ e.ringbuf = d.ringbuf
      /\ e.fd = d.fd /\ e.attached = d.attached /\ e.links = d.links
      /\ e.probes = d.probes /\ e.consumers = d.consumers
  BY <1>1, <1>2, <1>3 DEF Kept, State
<1>6. Kept(H, e, n) /\ Quiet(e)
  BY <1>1, <1>4, <1>5 DEF Kept, OwnedBut, Pollable, Quiet
<1> QED BY <1>1, <1>5, <1>6 DEF e

(* attach(): the links that were made are owned whether or not the ring     *)
(* consumer comes up after them.                                            *)
LEMMA AttachKept ==
    ASSUME NEW H, NEW c, NEW n \in Int, Kept(H, c, n),
           NEW G, NEW ringOk \in BOOLEAN
    PROVE  Kept(H, Attach(c, G, ringOk), n) /\ Attach(c, G, ringOk).obj = c.obj
<1> DEFINE b == IF c.attached THEN Detach(c) ELSE c
           l == Linked(b, G)
<1>1. CASE ~c.obj
  BY <1>1 DEF Attach
<1>2. CASE c.obj
  <2>1. Kept(H, b, n) /\ b.obj /\ ~b.ringbuf /\ ~b.attached
    BY <1>2, DetachKept DEF Kept, Pollable
  <2> HIDE DEF b
  <2>2. b \in State(H) /\ HooksOf(b) = H
    BY <2>1 DEF Kept, State, HooksOf
  <2>3. l \in State(H) /\ l.links = l.probes
    <3> DEFINE ok == {h \in H : h \in Programs /\ h \in G}
               m(k) == [h \in H |-> k[h] + (IF h \in ok THEN 1 ELSE 0)]
    <3>1. l = [b EXCEPT !.links = m(b.links), !.probes = m(b.probes)]
      BY <2>2 DEF Linked, State
    <3>2. m(b.links) \in [H -> Int] /\ m(b.probes) = m(b.links)
      BY <2>1, <2>2 DEF State, Kept, OwnedBut
    <3> HIDE DEF m, l
    <3>3. l \in State(H)
      BY <2>2, <3>1, <3>2, Zenon DEF State
    <3>4. l.links = m(b.links) /\ l.probes = m(b.probes)
      BY <2>2, <3>1 DEF State
    <3> QED BY <3>2, <3>3, <3>4
  <2>4. /\ l.obj = b.obj /\ l.ringbuf = b.ringbuf /\ l.attached = b.attached
        /\ l.fd = b.fd /\ l.loaded = b.loaded /\ l.consumers = b.consumers
    BY <2>2 DEF State, Linked
  <2> HIDE DEF l
  <2>5. Kept(H, l, n) /\ l.obj /\ ~l.ringbuf /\ l.consumers = 0
    BY <2>1, <2>3, <2>4 DEF Kept, OwnedBut, Pollable
  <2>6. Kept(H, WithRing(l, ringOk), n) /\ WithRing(l, ringOk).obj = c.obj
    <3> DEFINE r == [l EXCEPT !.ringbuf = TRUE, !.fd = TRUE, !.attached = TRUE,
                              !.consumers = 1]
    <3>1. r \in State(H)
      <4>1. 1 \in Int
        OBVIOUS
      <4> QED BY <2>3, <4>1, Zenon DEF State
    <3>2. /\ r.ringbuf = TRUE /\ r.fd = TRUE /\ r.attached = TRUE
          /\ r.consumers = 1 /\ r.obj = l.obj /\ r.loaded = l.loaded
          /\ r.links = l.links /\ r.probes = l.probes
      BY <2>3 DEF State
    <3>3. WithRing(l, ringOk) = IF ringOk THEN r ELSE l
      BY <2>3, <2>5 DEF WithRing, State
    <3> HIDE DEF r
    <3>4. Kept(H, r, n)
      BY <2>5, <3>1, <3>2 DEF Kept, OwnedBut, Pollable
    <3> QED BY <1>2, <2>5, <3>2, <3>3, <3>4
  <2> QED BY <1>2, <2>6 DEF Attach, l, b
<1> QED BY <1>1, <1>2

(* A method that touches no resource, such as set_event_context(). *)
LEMMA SameKept ==
    ASSUME NEW H, NEW c, NEW n \in Int, Kept(H, c, n), NEW d \in State(H),
           d.obj = c.obj, d.ringbuf = c.ringbuf, d.attached = c.attached,
           d.fd = c.fd, d.loaded = c.loaded, d.consumers = c.consumers,
           d.links = c.links, d.probes = c.probes
    PROVE  Kept(H, d, n)
BY DEF Kept, OwnedBut, Pollable

-----------------------------------------------------------------------------
(* A collector that has lost nothing *)

(* In a program that calls init() once, a collector without its object      *)
(* holds nothing of the kernel's.                                           *)
Sound(H, c) == Kept(H, c, 0) /\ (~c.obj => Quiet(c))

(* What it says of the kernel. *)
LEMMA SoundOwned ==
    ASSUME NEW H, NEW c, Sound(H, c)
    PROVE  /\ c \in State(H) /\ Owned(c) /\ Pollable(c)
           /\ ~c.obj => Released(c)
BY DEF Sound, Kept, Owned, OwnedBut, Released

(* The constructor. *)
LEMMA NewSound == ASSUME NEW H PROVE Sound(H, New(H))
BY NewKept DEF Sound

(* init(), on a collector that has no object. *)
LEMMA InitSound ==
    ASSUME NEW H, NEW c, Sound(H, c), ~c.obj
    PROVE  Sound(H, OpenFails(c)) /\ Sound(H, LoadFails(c)) /\ Sound(H, InitOk(c))
<1>1. ASSUME NEW d \in {OpenFails(c), LoadFails(c), InitOk(c)} PROVE Sound(H, d)
  <2>1. Kept(H, d, 0 + (IF c.obj THEN 1 ELSE 0))
        /\ d.probes = c.probes /\ d.consumers = c.consumers
    BY InitKept DEF Sound
  <2>2. 0 + (IF c.obj THEN 1 ELSE 0) = 0
    OBVIOUS
  <2>3. Kept(H, d, 0)
    BY <2>1, <2>2
  <2> QED BY <2>1, <2>3 DEF Sound, Quiet
<1> QED BY <1>1

(* detach() and destroy(). *)
LEMMA ReleaseSound ==
    ASSUME NEW H, NEW c, Sound(H, c) PROVE Sound(H, Detach(c)) /\ Sound(H, Destroy(c))
<1>1. 0 \in Int /\ Kept(H, c, 0)
  BY DEF Sound
<1>2. Kept(H, Detach(c), 0) /\ Quiet(Detach(c))
  BY <1>1, DetachKept
<1>3. Kept(H, Destroy(c), 0) /\ Quiet(Destroy(c))
  BY <1>1, DestroyKept
<1> QED BY <1>2, <1>3 DEF Sound

(* attach(). *)
LEMMA AttachSound ==
    ASSUME NEW H, NEW c, Sound(H, c), NEW G, NEW ringOk \in BOOLEAN
    PROVE  Sound(H, Attach(c, G, ringOk))
<1>1. Kept(H, Attach(c, G, ringOk), 0) /\ Attach(c, G, ringOk).obj = c.obj
  BY AttachKept DEF Sound
<1>2. CASE ~c.obj
  BY <1>2 DEF Attach
<1>3. CASE c.obj
  BY <1>1, <1>3 DEF Sound
<1> QED BY <1>2, <1>3

(* set_event_context(). *)
LEMMA ContextSound ==
    ASSUME NEW H, NEW c, Sound(H, c) PROVE Sound(H, [c EXCEPT !.ctx = TRUE])
<1> DEFINE d == [c EXCEPT !.ctx = TRUE]
<1>1. c \in State(H)
  BY SoundOwned
<1>2. d \in State(H)
  BY <1>1, Zenon DEF State
<1>3. /\ d.obj = c.obj /\ d.ringbuf = c.ringbuf /\ d.attached = c.attached
      /\ d.fd = c.fd /\ d.loaded = c.loaded /\ d.consumers = c.consumers
      /\ d.links = c.links /\ d.probes = c.probes
  BY <1>1 DEF State
<1> HIDE DEF d
<1>4. Sound(H, d)
  BY <1>2, <1>3 DEF Sound, Kept, OwnedBut, Pollable, Quiet
<1> QED BY <1>4 DEF d

-----------------------------------------------------------------------------
(* What the methods change and what they leave alone *)

(* init() touches only the object. *)
LEMMA InitKeeps ==
    ASSUME NEW H, NEW c, Sound(H, c),
           NEW d \in {OpenFails(c), LoadFails(c), InitOk(c)}
    PROVE  /\ d.ringbuf = c.ringbuf /\ d.attached = c.attached /\ d.ctx = c.ctx
           /\ d.probes = c.probes
<1>1. c \in State(H)
  BY SoundOwned
<1> QED BY <1>1 DEF State, OpenFails, LoadFails, InitOk

(* set_event_context() only the context. *)
LEMMA ContextKeeps ==
    ASSUME NEW H, NEW c, Sound(H, c), NEW d, d = [c EXCEPT !.ctx = TRUE]
    PROVE  /\ d.ctx = TRUE /\ d.obj = c.obj /\ d.ringbuf = c.ringbuf
           /\ d.attached = c.attached /\ d.probes = c.probes
<1>1. c \in State(H)
  BY SoundOwned
<1> QED BY <1>1 DEF State

(* destroy() leaves no object, no ring and no probe. *)
LEMMA DestroyLeaves ==
    ASSUME NEW H, NEW c, Sound(H, c)
    PROVE  /\ ~Destroy(c).obj /\ ~Destroy(c).ringbuf /\ ~Destroy(c).attached
           /\ Destroy(c).probes = [h \in H |-> 0]
BY DestroyKept DEF Sound

(* The first attach() makes at most one link per hook and keeps the object  *)
(* and the context.                                                         *)
LEMMA AttachOnce ==
    ASSUME NEW H, NEW c, Sound(H, c), ~c.attached, \A h \in H : c.probes[h] = 0,
           NEW G, NEW ringOk \in BOOLEAN
    PROVE  /\ Attach(c, G, ringOk).ctx = c.ctx /\ Attach(c, G, ringOk).obj = c.obj
           /\ \A h \in H : Attach(c, G, ringOk).probes[h] \in {0, 1}
<1> DEFINE l == Linked(c, G)
           m == [h \in H |-> c.probes[h]
                    + (IF h \in {k \in H : k \in Programs /\ k \in G} THEN 1 ELSE 0)]
<1>0. c \in State(H) /\ HooksOf(c) = H
  BY SoundOwned DEF State, HooksOf
<1>1. CASE ~c.obj
  BY <1>1 DEF Attach
<1>2. CASE c.obj
  <2>1. l.probes = m /\ l.ctx = c.ctx /\ l.obj = c.obj
    BY <1>0 DEF Linked, State
  <2>2. \A h \in H : m[h] \in {0, 1}
    OBVIOUS
  <2>3. DOMAIN l = DOMAIN c
    BY DEF Linked
  <2> HIDE DEF l, m
  <2>4. /\ WithRing(l, ringOk).probes = l.probes
        /\ WithRing(l, ringOk).ctx = l.ctx /\ WithRing(l, ringOk).obj = l.obj
    BY <1>0, <2>3 DEF WithRing, State
  <2>5. Attach(c, G, ringOk) = WithRing(l, ringOk)
    BY <1>2 DEF Attach, l
  <2> QED BY <2>1, <2>2, <2>4, <2>5
<1> QED BY <1>1, <1>2

(* attach() leaves a probe on every hook that has a program and a uprobe,   *)
(* also on top of the links a failed attach() left.                         *)
LEMMA AttachLinks ==
    ASSUME NEW H, NEW c, NEW n \in Int, Kept(H, c, n),
           \A h \in H : c.probes[h] >= 0,
           NEW G, NEW ringOk \in BOOLEAN
    PROVE  \A h \in H :
              /\ Attach(c, G, ringOk).probes[h] >= 0
              /\ c.obj /\ h \in Programs \cap G
                     => Attach(c, G, ringOk).probes[h] >= 1
<1> DEFINE b == IF c.attached THEN Detach(c) ELSE c
           l == Linked(b, G)
           m == [h \in H |-> b.probes[h]
                    + (IF h \in {k \in H : k \in Programs /\ k \in G} THEN 1 ELSE 0)]
<1>1. CASE ~c.obj
  BY <1>1 DEF Attach
<1>2. CASE c.obj
  <2>1. Kept(H, b, n) /\ \A h \in H : b.probes[h] >= 0
    <3>1. CASE c.attached
      <4>1. b = Detach(c)
        BY <3>1
      <4>2. Kept(H, Detach(c), n) /\ Detach(c).probes = [h \in H |-> 0]
        BY DetachKept
      <4> HIDE DEF b
      <4> QED BY <4>1, <4>2
    <3>2. CASE ~c.attached
      BY <3>2
    <3> QED BY <3>1, <3>2
  <2>2. Attach(c, G, ringOk) = WithRing(l, ringOk)
    BY <1>2 DEF Attach
  <2> HIDE DEF b
  <2>3. b \in State(H) /\ HooksOf(b) = H
    BY <2>1 DEF Kept, State, HooksOf
  <2>4. l.probes = m
    BY <2>3 DEF Linked, State
  <2>5. WithRing(l, ringOk).probes = l.probes
    <3>1. DOMAIN l = DOMAIN b
      BY DEF Linked
    <3>2. "probes" \in DOMAIN l
      BY <2>3, <3>1 DEF State
    <3> HIDE DEF l
    <3> QED BY <3>2 DEF WithRing
  <2>6. \A h \in H : b.probes[h] \in Int
    BY <2>3 DEF State
  <2> HIDE DEF l
  <2>7. \A h \in H : m[h] >= 0 /\ (h \in Programs \cap G => m[h] >= 1)
    BY <2>1, <2>6
  <2> QED BY <2>2, <2>4, <2>5, <2>7
<1> QED BY <1>1, <1>2
=============================================================================
