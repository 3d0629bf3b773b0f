------------------------ MODULE CollectorLifeProofs ------------------------
(***************************************************************************)
(* What holds of a collector for every file group, every set of programs   *)
(* and every sequence of calls, whichever of the libbpf calls fail.        *)
(***************************************************************************)
EXTENDS CollectorLife, CollectorProofs, Induction, SequenceTheorems

-----------------------------------------------------------------------------
(* The generated table *)

(* One turn of the generator's loop, on what was printed so far. *)
Printed(i, t) ==
    IF FunctionOf(JsonHooks[i]) \in offsets THEN Append(t, JsonHooks[i]) ELSE t

(* The loop of gen_hook_config.sh: hook_cfgs[] after every entry of         *)
(* hooks.json.                                                              *)
LEMMA TableLoop ==
    \E c : /\ HookCfgs = c[Len(JsonHooks)]
           /\ c[0] = <<>>
           /\ \A i \in 1 .. Len(JsonHooks) : c[i] = Printed(i, c[i - 1])
<1> DEFINE n == Len(JsonHooks)
           V == Seq(Hooks)
           G == [i \in 1 .. n |-> [t \in V |-> Printed(i, t)]]
           Eq(c) == c = [i \in 0 .. n |->
                           IF i = 0 THEN <<>> ELSE Printed(i, c[i - 1])]
           c == CHOOSE c : Eq(c)
<1>1. n \in Nat /\ \A i \in 1 .. n : JsonHooks[i] \in Hooks
  BY JsonAssumption
<1>2. HookCfgs = c[n]
  BY DEF HookCfgs, Printed
<1>3. \A i \in 1 .. n : \A t \in V : Printed(i, t) \in V
  BY <1>1, AppendProperties DEF Printed
<1>4. <<>> \in V
  OBVIOUS
<1> HIDE DEF n, V
<1>5. G \in [1 .. n -> [V -> V]]
  BY <1>3
<1>6. PICK f : IsLoop(f, n, V, <<>>, G)
  <2> HIDE DEF G
  <2> QED BY <1>1, <1>4, <1>5, LoopExists
<1>7. Eq(f)
  <2>1. f \in [0 .. n -> V] /\ f[0] = <<>>
    BY <1>6 DEF IsLoop
  <2>2. ASSUME NEW i \in 1 .. n PROVE f[i] = Printed(i, f[i - 1])
    <3>1. i - 1 \in 0 .. n
      BY <1>1
    <3> QED BY <1>6, <2>1, <3>1 DEF IsLoop
  <2>3. \A i \in 0 .. n : i # 0 => i \in 1 .. n
    BY <1>1
  <2> QED BY <2>1, <2>2, <2>3
<1>8. Eq(c)
  <2> HIDE DEF Eq
  <2> QED BY <1>7
<1> HIDE DEF c
<1>9. c[0] = <<>> /\ \A i \in 1 .. n : c[i] = Printed(i, c[i - 1])
  BY <1>1, <1>8
<1> QED BY <1>2, <1>9 DEF n

(* hook_cfgs[] has the hooks of hooks.json whose function has an offset,    *)
(* all of them and no other; it has hook_count rows if none is missing, and *)
(* never more.                                                              *)
LEMMA TableHasKnown ==
    /\ InTable = {h \in GroupHooks : FunctionOf(h) \in offsets}
    /\ Len(HookCfgs) \in 0 .. HookCount
    /\ Functions \subseteq offsets => Len(HookCfgs) = HookCount
<1> DEFINE n == Len(JsonHooks)
           Known(i) == {h \in {JsonHooks[j] : j \in 1 .. i} : FunctionOf(h) \in offsets}
           Elems(t) == {t[j] : j \in 1 .. Len(t)}
<1>1. n \in Nat /\ DOMAIN JsonHooks = 1 .. n
      /\ \A i \in 1 .. n : JsonHooks[i] \in Hooks
  BY JsonAssumption
<1>2. PICK c : /\ HookCfgs = c[n]
               /\ c[0] = <<>>
               /\ \A i \in 1 .. n : c[i] = Printed(i, c[i - 1])
  BY TableLoop
<1> DEFINE Good(i) == /\ c[i] \in Seq(Hooks) /\ Elems(c[i]) = Known(i)
                      /\ Len(c[i]) \in 0 .. i
                      /\ Functions \subseteq offsets => Len(c[i]) = i
           T == {i \in 0 .. n : Good(i)}
<1>3. 0 \in T
  <2>1. /\ Elems(<<>>) = {} /\ Known(0) = {} /\ <<>> \in Seq(Hooks)
        /\ Len(<<>>) \in 0 .. 0 /\ Len(<<>>) = 0
    OBVIOUS
  <2>2. 0 \in 0 .. n
    BY <1>1
  <2> HIDE DEF n, Elems, Known
  <2>3. /\ c[0] \in Seq(Hooks) /\ Elems(c[0]) = Known(0)
        /\ Len(c[0]) \in 0 .. 0 /\ Len(c[0]) = 0
    BY <1>2, <2>1, Zenon
  <2> QED BY <2>2, <2>3
<1>4. ASSUME NEW i \in 0 .. n - 1, i \in T PROVE i + 1 \in T
  <2> DEFINE t == c[i]
             h == JsonHooks[i + 1]
  <2>1. /\ i + 1 \in 1 .. n /\ i + 1 \in 0 .. n /\ i \in 0 .. n
        /\ h \in Hooks
    BY <1>1
  <2>2. /\ t \in Seq(Hooks) /\ Elems(t) = Known(i) /\ Len(t) \in 0 .. i
        /\ Functions \subseteq offsets => Len(t) = i
    <3>1. Good(i)
      <4> HIDE DEF Good, n
      <4> QED BY <1>4
    <3> HIDE DEF Elems, Known
    <3> QED BY <3>1
  <2>3. c[i + 1] = Printed(i + 1, t)
    BY <1>1, <1>2, <2>1
  <2>4. {JsonHooks[j] : j \in 1 .. i + 1} = {JsonHooks[j] : j \in 1 .. i} \cup {h}
    BY <2>1
  <2>5. CASE FunctionOf(h) \in offsets
    <3>1. c[i + 1] = Append(t, h)
      BY <2>3, <2>5 DEF Printed
    <3>2. /\ Append(t, h) \in Seq(Hooks) /\ Len(Append(t, h)) = Len(t) + 1
          /\ \A j \in 1 .. Len(t) : Append(t, h)[j] = t[j]
          /\ Append(t, h)[Len(t) + 1] = h
      BY <2>1, <2>2, AppendProperties
    <3>3. Elems(Append(t, h)) = Elems(t) \cup {h}
      <4>1. Len(t) \in Nat
        BY <2>2
      <4> HIDE DEF t, h
      <4> QED BY <3>2, <4>1
    <3>4. Known(i + 1) = Known(i) \cup {h}
      BY <2>4, <2>5
    <3>5. /\ Len(c[i + 1]) \in 0 .. i + 1
          /\ Functions \subseteq offsets => Len(c[i + 1]) = i + 1
      BY <2>1, <2>2, <3>1, <3>2
    <3> HIDE DEF Elems, Known
    <3> QED BY <2>1, <2>2, <3>1, <3>2, <3>3, <3>4, <3>5
  <2>6. CASE FunctionOf(h) \notin offsets
    <3>1. c[i + 1] = t
      BY <2>3, <2>6 DEF Printed
    <3>2. Known(i + 1) = Known(i)
      BY <2>4, <2>6
    <3>3. ~(Functions \subseteq offsets)
      <4>1. h \in GroupHooks
        BY <1>1, <2>1 DEF GroupHooks
      <4> QED BY <2>6, <4>1 DEF Functions
    <3>4. Len(t) \in 0 .. i + 1
      BY <2>1, <2>2
    <3> HIDE DEF Elems, Known
    <3> QED BY <2>1, <2>2, <3>1, <3>2, <3>3, <3>4
  <2> QED BY <2>5, <2>6
<1> HIDE DEF T
<1>5. n \in T
  <2>1. \A i \in 0 .. n : i \in T
    BY <1>1, <1>3, <1>4, CountUp
  <2> QED BY <1>1, <2>1
<1>6. Good(n)
  <2> HIDE DEF Good, n
  <2> QED BY <1>5 DEF T
<1>7. Elems(HookCfgs) = Known(n) /\ Len(HookCfgs) \in 0 .. n
      /\ (Functions \subseteq offsets => Len(HookCfgs) = n)
  <2> HIDE DEF n, Elems, Known
  <2> QED BY <1>2, <1>6
<1> QED BY <1>1, <1>7 DEF InTable, GroupHooks, HookCount

(* No hook gets a negative number of stray links. *)
LEMMA StraysCount == Strays \subseteq [GroupHooks -> Nat]
<1>1. Strays \subseteq [GroupHooks -> 0 .. PastEnd]
  BY Zenon DEF Strays
<1>2. PastEnd \in Nat
  <2>1. HookCount \in Nat
    BY JsonAssumption DEF HookCount
  <2> QED BY <2>1, TableHasKnown DEF PastEnd
<1> QED BY <1>1, <1>2

-----------------------------------------------------------------------------
(* Handles and the kernel *)

(* The inductive invariant: what init() lost is lost, all else is owned.    *)
(* NoObjectNoProbes needs besides that a destroyed collector has no object, *)
(* so that attach() cannot give it probes.                                  *)
LifeInv ==
    /\ abandoned \in Nat
    /\ Kept(GroupHooks, col, abandoned)
    /\ destroyed => ~col.obj
    /\ NoObjectNoProbes

(* What attach() links by entries past the end of the table it owns like    *)
(* the rest.                                                                *)
LEMMA StrayedKept ==
    ASSUME NEW H, NEW c, NEW n \in Int, Kept(H, c, n), NEW s \in [H -> Nat]
    PROVE  /\ Kept(H, Strayed(c, s), n)
           /\ Strayed(c, s).obj = c.obj /\ Strayed(c, s).attached = c.attached
           /\ \A h \in H : Strayed(c, s).probes[h] = c.probes[h] + s[h]
<1> DEFINE m(k) == [h \in H |-> k[h] + s[h]]
           d == Strayed(c, s)
<1>1. c \in State(H) /\ HooksOf(c) = H
  BY DEF Kept, State, HooksOf
<1>2. d = [c EXCEPT !.links = m(c.links), !.probes = m(c.probes)]
  BY <1>1 DEF Strayed, State
<1>3. m(c.links) \in [H -> Int] /\ m(c.probes) = m(c.links)
  BY <1>1 DEF State, Kept, OwnedBut
<1>4. \A h \in H : m(c.probes)[h] = c.probes[h] + s[h]
  OBVIOUS
<1> HIDE DEF m, d
<1>5. d \in State(H)
  BY <1>1, <1>2, <1>3, Zenon DEF State
<1>6. /\ d.links = m(c.links) /\ d.probes = m(c.probes) /\ d.obj = c.obj
      /\ d.ringbuf = c.ringbuf /\ d.fd = c.fd /\ d.attached = c.attached
      /\ d.loaded = c.loaded /\ d.consumers = c.consumers
  BY <1>1, <1>2 DEF State
<1>7. Kept(H, d, n)
  BY <1>3, <1>5, <1>6 DEF Kept, OwnedBut, Pollable
<1> QED BY <1>4, <1>6, <1>7 DEF d

(* A collector as attach() leaves it. *)
LEMMA AttachCallKept ==
    ASSUME AttachCall, LifeInv
    PROVE  /\ Kept(GroupHooks, col', abandoned) /\ col'.obj = col.obj
           /\ ~col.obj => col' = col
<1>1. PICK G \in SUBSET GroupHooks, ringOk \in BOOLEAN, stray \in Strays :
         col' = IF col.obj
                THEN Strayed(Attach(col, G \cap InTable, ringOk), stray)
                ELSE col
  BY DEF AttachCall
<1> DEFINE W == G \cap InTable
           d == Attach(col, W, ringOk)
<1>2. abandoned \in Int /\ Kept(GroupHooks, col, abandoned)
  BY DEF LifeInv
<1>3. stray \in [GroupHooks -> Nat]
  BY StraysCount
<1>4. CASE col.obj
  <2> HIDE DEF W
  <2>1. Kept(GroupHooks, d, abandoned) /\ d.obj = col.obj
    BY <1>2, AttachKept
  <2>2. col' = Strayed(d, stray)
    BY <1>1, <1>4 DEF W
  <2> HIDE DEF d
  <2> QED BY <1>2, <1>3, <1>4, <2>1, <2>2, StrayedKept
<1>5. CASE ~col.obj
  BY <1>1, <1>2, <1>5
<1> QED BY <1>4, <1>5

(* set_event_context() changes the context only. *)
LEMMA ContextFields ==
    ASSUME SetContext, NEW n, Kept(GroupHooks, col, n)
    PROVE  /\ col' \in State(GroupHooks)
           /\ col'.obj = col.obj /\ col'.ringbuf = col.ringbuf
           /\ col'.attached = col.attached /\ col'.fd = col.fd
           /\ col'.loaded = col.loaded /\ col'.consumers = col.consumers
           /\ col'.links = col.links /\ col'.probes = col.probes
<1>1. col \in State(GroupHooks) /\ col' = [col EXCEPT !.ctx = TRUE]
  BY DEF SetContext, Kept
<1>2. col' \in State(GroupHooks)
  BY <1>1, Zenon DEF State
<1> QED BY <1>1, <1>2 DEF State

(* Every call keeps the invariant. *)
LEMMA LifeStep == LifeInv /\ [Next]_vars => LifeInv'
<1> SUFFICES ASSUME LifeInv, [Next]_vars PROVE LifeInv'
  OBVIOUS
<1>0. /\ abandoned \in Nat /\ abandoned \in Int
      /\ Kept(GroupHooks, col, abandoned)
  BY DEF LifeInv
<1>1. CASE InitCall
  <2> DEFINE n == abandoned + (IF col.obj THEN 1 ELSE 0)
  <2>1. /\ Kept(GroupHooks, col', n)
        /\ col'.probes = col.probes /\ col'.consumers = col.consumers
    BY <1>0, <1>1, InitKept DEF InitCall
  <2>2. abandoned' = n /\ ~destroyed' /\ n \in Nat
    BY <1>0, <1>1 DEF InitCall
  <2>3. n = 0 => abandoned = 0 /\ ~col.obj
    BY <1>0
  <2> HIDE DEF n
  <2>4. Kept(GroupHooks, col', abandoned')
    BY <2>1, <2>2
  <2>5. NoObjectNoProbes'
    <3> SUFFICES ASSUME ~col'.obj, n = 0 PROVE Quiet(col') /\ col'.loaded = n
      BY <2>2 DEF NoObjectNoProbes
    <3>1. Quiet(col)
      BY <2>3 DEF LifeInv, NoObjectNoProbes
    <3> QED BY <2>1, <3>1 DEF Quiet, Kept, OwnedBut
  <2> QED BY <2>2, <2>4, <2>5 DEF LifeInv
<1>2. CASE AttachCall
  <2>1. /\ Kept(GroupHooks, col', abandoned) /\ col'.obj = col.obj
        /\ ~col.obj => col' = col
    BY <1>2, AttachCallKept
  <2>2. abandoned' = abandoned /\ destroyed' = destroyed
    BY <1>2 DEF AttachCall
  <2> QED BY <1>0, <2>1, <2>2 DEF LifeInv, NoObjectNoProbes
<1>3. CASE AttachCrashes
  <2>1. col' = New(GroupHooks) /\ abandoned' = 0
    BY <1>3 DEF AttachCrashes
  <2>2. Kept(GroupHooks, col', 0) /\ Quiet(col') /\ ~col'.obj /\ col'.loaded = 0
    BY <2>1, NewKept DEF New
  <2> QED BY <2>1, <2>2 DEF LifeInv, NoObjectNoProbes
<1>4. CASE DetachCall
  <2>1. /\ Kept(GroupHooks, col', abandoned) /\ Quiet(col') /\ col'.obj = col.obj
    BY <1>0, <1>4, DetachKept DEF DetachCall
  <2>2. abandoned' = abandoned /\ destroyed' = destroyed
    BY <1>4 DEF DetachCall, past
  <2>3. col'.loaded = abandoned + (IF col'.obj THEN 1 ELSE 0)
    BY <2>1 DEF Kept, OwnedBut
  <2> QED BY <1>0, <2>1, <2>2, <2>3 DEF LifeInv, NoObjectNoProbes
<1>5. CASE DestroyCall
  <2>1. /\ Kept(GroupHooks, col', abandoned) /\ Quiet(col') /\ ~col'.obj
    BY <1>0, <1>5, DestroyKept DEF DestroyCall
  <2>2. abandoned' = abandoned
    BY <1>5 DEF DestroyCall
  <2>3. col'.loaded = abandoned
    BY <1>0, <2>1 DEF Kept, OwnedBut
  <2> QED BY <1>0, <2>1, <2>2, <2>3 DEF LifeInv, NoObjectNoProbes
<1>6. CASE SetContext
  <2>1. /\ Kept(GroupHooks, col', abandoned)
        /\ col'.obj = col.obj /\ col'.loaded = col.loaded
        /\ col'.probes = col.probes /\ col'.consumers = col.consumers
    BY <1>0, <1>6, ContextFields, SameKept
  <2>2. abandoned' = abandoned /\ destroyed' = destroyed
    BY <1>6 DEF SetContext, past
  <2> QED BY <1>0, <2>1, <2>2 DEF LifeInv, NoObjectNoProbes, Quiet
<1>7. CASE \E h \in GroupHooks : PollEvent(h)
  BY <1>7 DEF PollEvent, LifeInv, NoObjectNoProbes
<1>8. CASE UNCHANGED vars
  BY <1>8 DEF vars, past, LifeInv, NoObjectNoProbes
<1> QED BY <1>1, <1>2, <1>3, <1>4, <1>5, <1>6, <1>7, <1>8 DEF Next

(* The inductive invariant holds in every reachable state. *)
LEMMA LifeInvariant == Spec => []LifeInv
<1>1. Init => LifeInv
  <2> SUFFICES ASSUME Init PROVE LifeInv
    OBVIOUS
  <2>1. /\ Kept(GroupHooks, col, 0) /\ Quiet(col) /\ ~col.obj /\ col.loaded = 0
    BY NewKept DEF Init, New
  <2> QED BY <2>1 DEF Init, LifeInv, NoObjectNoProbes
<1> QED BY <1>1, LifeStep, PTL DEF Spec

(* Any sequence of init(), attach(), detach() and destroy(), with any       *)
(* failures and entries of any kind past the end of the table: nothing is   *)
(* leaked but the objects that init() was called on top of, and nothing is  *)
(* released twice.                                                          *)
THEOREM NothingElseLeaked == Spec => []HandlesOwnKernel
<1>1. LifeInv => HandlesOwnKernel
  BY DEF LifeInv, Kept, HandlesOwnKernel
<1> QED BY <1>1, LifeInvariant, PTL

(* What run_loop() and poll() test agrees with what there is to poll.       *)
THEOREM FlagsAgree == Spec => []AttachedIsPollable
<1>1. LifeInv => AttachedIsPollable
  BY DEF LifeInv, Kept, AttachedIsPollable
<1> QED BY <1>1, LifeInvariant, PTL

(* After destroy(), and in a collector that never had an object, no probe   *)
(* and no ring consumer is left, and no object but those init() overwrote.  *)
THEOREM DestroyReleases == Spec => []NoObjectNoProbes
<1>1. LifeInv => NoObjectNoProbes
  BY DEF LifeInv
<1> QED BY <1>1, LifeInvariant, PTL

(* hook_id counts the hooks of hooks.json and hook_names[] lists them all,  *)
(* so the number leads back to the hook whatever offsets are missing.       *)
LEMMA NameOfHook == ASSUME NEW h \in GroupHooks PROVE NameOf(HookId(h)) = h
<1>1. PICK i \in DOMAIN JsonHooks : JsonHooks[i] = h
  BY DEF GroupHooks
<1>2. HookId(h) \in DOMAIN JsonHooks /\ JsonHooks[HookId(h)] = h
  BY <1>1 DEF HookId
<1>3. DOMAIN JsonHooks = 1 .. HookCount
  BY JsonAssumption DEF HookCount
<1> QED BY <1>2, <1>3 DEF NameOf, HookNames

(* An event is always reported under the name of the hook that fired, for   *)
(* every file group and every set of missing offsets.                       *)
THEOREM NamesRight == Spec => []EventsNamed
<1>1. Init => EventsNamed
  BY DEF Init, EventsNamed
<1>2. EventsNamed /\ [Next]_vars => EventsNamed'
  <2> SUFFICES ASSUME EventsNamed, [Next]_vars PROVE EventsNamed'
    OBVIOUS
  <2>1. CASE \/ InitCall \/ SetContext \/ AttachCall \/ AttachCrashes
            \/ DetachCall \/ DestroyCall
    BY <2>1 DEF EventsNamed, InitCall, SetContext, AttachCall, AttachCrashes,
                DetachCall, DestroyCall, past
  <2>2. ASSUME NEW h \in GroupHooks, PollEvent(h) PROVE EventsNamed'
    BY <2>2, NameOfHook DEF EventsNamed, PollEvent
  <2>3. CASE UNCHANGED vars
    BY <2>3 DEF EventsNamed, vars, past
  <2> QED BY <2>1, <2>2, <2>3 DEF Next
<1> QED BY <1>1, <1>2, PTL DEF Spec

-----------------------------------------------------------------------------
(* Complete tables *)

(* The inductive invariant: attach() adds a probe to what there is, so it   *)
(* must be known that no hook's count is negative.                          *)
Filled ==
    /\ \A h \in GroupHooks : col.probes[h] >= 0
    /\ granted \subseteq GroupHooks
    /\ CompleteTableAttached

(* Every call keeps it. *)
LEMMA FilledStep == LifeInv /\ Filled /\ [Next]_vars => Filled'
<1> SUFFICES ASSUME LifeInv, Filled, [Next]_vars PROVE Filled'
  OBVIOUS
<1>0. abandoned \in Int /\ Kept(GroupHooks, col, abandoned)
  BY DEF LifeInv
<1>1. ASSUME col'.probes = col.probes, col'.attached = col.attached,
             UNCHANGED <<offsets, alive, granted>>
      PROVE  Filled'
  BY <1>1 DEF Filled, CompleteTableAttached
<1>2. ASSUME col'.probes = [h \in GroupHooks |-> 0], ~col'.attached,
             UNCHANGED <<offsets, alive, granted>>
      PROVE  Filled'
  BY <1>2 DEF Filled, CompleteTableAttached
<1>3. CASE InitCall
  <2>1. col'.probes = col.probes /\ col'.attached = col.attached
    <3>1. col \in State(GroupHooks)
      BY <1>0 DEF Kept
    <3> QED BY <1>3, <3>1 DEF InitCall, State, OpenFails, LoadFails, InitOk
  <2> QED BY <1>1, <1>3, <2>1 DEF InitCall
<1>4. CASE AttachCall
  <2>1. PICK G \in SUBSET GroupHooks, ringOk \in BOOLEAN, stray \in Strays :
           /\ col' = IF col.obj
                     THEN Strayed(Attach(col, G \cap InTable, ringOk), stray)
                     ELSE col
           /\ granted' = IF col.obj THEN G ELSE granted
    BY <1>4 DEF AttachCall
  <2>2. offsets' = offsets /\ alive' = alive
    BY <1>4 DEF AttachCall
  <2>3. CASE ~col.obj
    BY <1>1, <2>1, <2>2, <2>3
  <2>4. CASE col.obj
    <3> DEFINE W == G \cap InTable
               d == Attach(col, W, ringOk)
    <3>1. stray \in [GroupHooks -> Nat]
      BY StraysCount
    <3>2. col' = Strayed(d, stray) /\ granted' = G
      BY <2>1, <2>4
    <3>3. \A h \in GroupHooks : col.probes[h] >= 0
      BY DEF Filled
    <3> HIDE DEF W
    <3>4. /\ Kept(GroupHooks, d, abandoned)
          /\ \A h \in GroupHooks :
                /\ d.probes[h] >= 0
                /\ h \in Programs \cap W => d.probes[h] >= 1
      <4>1. Kept(GroupHooks, d, abandoned)
        BY <1>0, AttachKept
      <4> QED BY <1>0, <2>4, <3>3, <4>1, AttachLinks
    <3> HIDE DEF d
    <3>5. \A h \in GroupHooks : col'.probes[h] = d.probes[h] + stray[h]
      BY <1>0, <3>1, <3>2, <3>4, StrayedKept
    <3>6. \A h \in GroupHooks : d.probes[h] \in Int /\ stray[h] \in Nat
      BY <3>1, <3>4 DEF Kept, State
    <3>7. \A h \in GroupHooks :
             /\ col'.probes[h] >= 0
             /\ h \in Programs \cap W => col'.probes[h] >= 1
      BY <3>4, <3>5, <3>6
    <3>8. Functions \subseteq offsets => W = G
      BY TableHasKnown DEF W, Functions
    <3> QED BY <2>2, <3>2, <3>7, <3>8 DEF Filled, CompleteTableAttached
  <2> QED BY <2>3, <2>4
<1>5. CASE AttachCrashes
  <2>1. /\ PastEnd > 0 /\ col' = New(GroupHooks)
        /\ offsets' = offsets /\ granted' = granted
    BY <1>5 DEF AttachCrashes
  <2>2. ~(Functions \subseteq offsets)
    <3>1. HookCount \in Nat
      BY JsonAssumption DEF HookCount
    <3> QED BY <2>1, <3>1, TableHasKnown DEF PastEnd
  <2>3. col'.probes = [h \in GroupHooks |-> 0]
    BY <2>1 DEF New
  <2>4. Functions' = Functions
    BY DEF Functions
  <2> QED BY <2>1, <2>2, <2>3, <2>4 DEF Filled, CompleteTableAttached
<1>6. CASE DetachCall
  BY <1>0, <1>2, <1>6, DetachKept DEF DetachCall, past
<1>7. CASE DestroyCall
  BY <1>0, <1>2, <1>7, DestroyKept DEF DestroyCall
<1>8. CASE SetContext
  <2>1. col'.probes = col.probes /\ col'.attached = col.attached
    BY <1>0, <1>8, ContextFields
  <2> QED BY <1>1, <1>8, <2>1 DEF SetContext, past
<1>9. CASE \E h \in GroupHooks : PollEvent(h)
  BY <1>1, <1>9 DEF PollEvent
<1>10. CASE UNCHANGED vars
  BY <1>1, <1>10 DEF vars, past
<1> QED BY <1>3, <1>4, <1>5, <1>6, <1>7, <1>8, <1>9, <1>10 DEF Next

(* For every file group and every sequence of calls, failed ones included:  *)
(* if the build found every function, attach() never leaves the table and   *)
(* reaches every hook in it.                                                *)
THEOREM CompleteTableWorks == Spec => []CompleteTableAttached
<1>1. Init => Filled
  BY DEF Init, Filled, CompleteTableAttached, New
<1>2. Filled => CompleteTableAttached
  BY DEF Filled
<1> QED BY <1>1, <1>2, FilledStep, LifeInvariant, PTL DEF Spec
=============================================================================
