----------------------- MODULE CollectorManagerProofs -----------------------
(***************************************************************************)
(* What holds of the whole program for any file groups, any programs and   *)
(* any failures, whenever the signals arrive.                              *)
(***************************************************************************)
EXTENDS CollectorManager, CollectorProofs, FiniteSetTheorems

-----------------------------------------------------------------------------
(* The inductive invariant *)

(* Every collector is sound, has at most one probe per hook, and has a      *)
(* context if it has a ring.                                                *)
ColsOK ==
    \A g \in Groups : /\ Sound(GroupHooks[g], col[g])
                      /\ \A h \in GroupHooks[g] : col[g].probes[h] \in {0, 1}
                      /\ col[g].ringbuf => col[g].ctx

(* A collector that attach_all() has not come to. *)
Fresh(g) == ~col[g].attached /\ \A h \in GroupHooks[g] : col[g].probes[h] = 0

(* init() and attach() are called once for each collector. *)
OnceOK ==
    /\ pc = "init" => \A g \in todo : ~col[g].obj
    /\ pc \in {"start", "init"} => \A g \in Groups : Fresh(g)
    /\ pc = "attach" => \A g \in todo : Fresh(g)
    /\ pc = "start" => collectors = {}

(* What is not among the collectors has no object. *)
OutsideOK ==
    /\ \A g \in Groups \ collectors : ~col[g].obj
    /\ pc = "exit" => collectors = {}

(* The epoll instance is there, and watches collectors with rings, only     *)
(* while no collector is set up or destroyed.                               *)
EpollOK ==
    /\ pc \in {"start", "init", "attach", "destroy", "return", "destruct", "exit"}
          => ~epoll /\ registered = {}
    /\ pc = "register" => epoll
    /\ registered # {} => epoll
    /\ \A g \in registered : col[g].ringbuf
    /\ pc \in {"dispatch", "poll"} => batch \in Seq(registered)
    /\ pc = "poll" => batch # <<>>

(* run_loop() registers every attached collector or is refused. *)
WatchOK ==
    /\ pc = "register" => \A g \in Groups : col[g].attached =>
                             g \in todo \cup registered \cup refused
    /\ WatchedUnlessRefused

ManagerInv == TypeOK /\ ColsOK /\ OnceOK /\ OutsideOK /\ EpollOK /\ WatchOK

-----------------------------------------------------------------------------
(* Lemmas *)

(* There are finitely many groups, each with its set of hooks. *)
LEMMA GroupsFinite == IsFiniteSet(Groups) /\ Groups \subseteq Modules
<1>1. Groups \subseteq Modules
  BY ManagerAssumption DEF Groups
<1>2. Modules = ({} \cup {"routing"}) \cup {"app"} \cup {"sd"}
  BY DEF Modules
<1>3. IsFiniteSet(Modules)
  BY <1>2, FS_EmptySet, FS_AddElement
<1> QED BY <1>1, <1>3, FS_Subset

(* What epoll_wait() lists are rings it watches. *)
LEMMA ListingSeq ==
    ASSUME NEW S, S \subseteq Groups, NEW s \in Listings(S) PROVE s \in Seq(S)
<1>1. Cardinality(S) \in Nat
  BY GroupsFinite, FS_Subset, FS_CardinalityType
<1>2. s \in [1 .. Cardinality(S) -> S]
  BY DEF Listings
<1> QED BY <1>1, <1>2

(* One collector is updated, the others are not. *)
LEMMA ColUpdate ==
    ASSUME TypeOK, NEW g \in Groups, NEW c, col' = [col EXCEPT ![g] = c]
    PROVE  /\ DOMAIN col' = Groups /\ col'[g] = c
           /\ \A k \in Groups : k # g => col'[k] = col[k]
BY DEF TypeOK

(* Without an object nothing is attached, so only collectors are. *)
LEMMA AttachedInside ==
    ASSUME ColsOK, OutsideOK, NEW g \in Groups, col[g].attached
    PROVE  g \in collectors /\ col[g].ringbuf
<1>1. Sound(GroupHooks[g], col[g])
  BY DEF ColsOK
<1>2. col[g].ringbuf
  BY <1>1, SoundOwned DEF Pollable
<1>3. col[g].obj
  BY <1>1, <1>2, SoundOwned DEF Owned, OwnedBut, Released, Quiet
<1> QED BY <1>2, <1>3 DEF OutsideOK

(* The constructor. *)
LEMMA ManagerInit == Init => ManagerInv
<1> SUFFICES ASSUME Init PROVE ManagerInv
  OBVIOUS
<1>1. \A g \in Groups : col[g] = New(GroupHooks[g])
  BY DEF Init
<1>2. TypeOK
  <2>1. batch \in Seq(Groups)
    BY DEF Init
  <2>2. cnt \in 0 .. ConsumeMax /\ signals \in 0 .. MaxSignals
    BY ManagerAssumption DEF Init
  <2> QED BY <2>1, <2>2 DEF Init, TypeOK
<1>3. ColsOK
  <2>1. ASSUME NEW H
        PROVE  /\ \A h \in H : New(H).probes[h] = 0
               /\ ~New(H).ringbuf /\ ~New(H).attached /\ ~New(H).obj
    BY DEF New
  <2> QED BY <1>1, <2>1, NewSound DEF ColsOK
<1>4. OnceOK /\ OutsideOK
  BY <1>1 DEF Init, OnceOK, OutsideOK, Fresh, New
<1>5. EpollOK /\ WatchOK
  BY DEF Init, EpollOK, WatchOK, WatchedUnlessRefused, InLoop
<1> QED BY <1>2, <1>3, <1>4, <1>5 DEF ManagerInv

-----------------------------------------------------------------------------
(* Set-up *)

(* main() builds the selected collectors. *)
LEMMA AddCollectorsInv == ASSUME ManagerInv, AddCollectors PROVE ManagerInv'
<1> USE DEF ManagerInv
<1>1. /\ pc = "start" /\ pc' = "init" /\ collectors' \subseteq Groups
      /\ todo' = collectors'
      /\ UNCHANGED <<col, inited, g_running, data, signals, epoll, registered,
                     batch, cnt, refused, reports>>
  BY DEF AddCollectors, Selected, env, kernel, loop, ghost
<1>2. TypeOK'
  BY <1>1 DEF TypeOK
<1>3. ColsOK'
  BY <1>1 DEF ColsOK
<1>4. \A g \in Groups : ~col[g].obj
  BY <1>1 DEF OnceOK, OutsideOK
<1>5. OnceOK' /\ OutsideOK'
  BY <1>1, <1>4 DEF OnceOK, OutsideOK, Fresh
<1>6. EpollOK' /\ WatchOK'
  BY <1>1 DEF EpollOK, WatchOK, WatchedUnlessRefused, InLoop
<1> QED BY <1>2, <1>3, <1>5, <1>6

(* init_all() brings one collector up, or fails to. *)
LEMMA InitNextInv == ASSUME ManagerInv, InitNext PROVE ManagerInv'
<1> USE DEF ManagerInv
<1>1. PICK g \in Groups :
         /\ g \in todo /\ todo' = todo \ {g}
         /\ \E c \in {OpenFails(col[g]), LoadFails(col[g]), InitOk(col[g])} :
               /\ col' = [col EXCEPT ![g] = c]
               /\ inited' = inited + (IF c.obj THEN 1 ELSE 0)
  BY DEF InitNext, IsNext
<1>2. PICK c \in {OpenFails(col[g]), LoadFails(col[g]), InitOk(col[g])} :
         /\ col' = [col EXCEPT ![g] = c]
         /\ inited' = inited + (IF c.obj THEN 1 ELSE 0)
  BY <1>1
<1>3. /\ pc = "init" /\ pc' = pc
      /\ UNCHANGED <<collectors, g_running, data, signals, epoll, registered,
                     batch, cnt, refused, reports>>
  BY DEF InitNext, env, kernel, loop, ghost
<1>4. /\ DOMAIN col' = Groups /\ col'[g] = c
      /\ \A k \in Groups : k # g => col'[k] = col[k]
  BY <1>2, ColUpdate
<1>5. Sound(GroupHooks[g], col[g]) /\ ~col[g].obj
  BY <1>1, <1>3 DEF ColsOK, OnceOK
<1>6. /\ Sound(GroupHooks[g], c) /\ c.ringbuf = col[g].ringbuf
      /\ c.attached = col[g].attached /\ c.ctx = col[g].ctx
      /\ c.probes = col[g].probes
  BY <1>5, InitSound, InitKeeps
<1>7. TypeOK'
  <2>1. inited' \in Nat
    BY <1>2 DEF TypeOK
  <2> QED BY <1>1, <1>3, <1>4, <2>1 DEF TypeOK
<1>8. ColsOK'
  BY <1>4, <1>6 DEF ColsOK
<1>9. OnceOK' /\ OutsideOK'
  <2>1. \A k \in Groups : Fresh(k)'
    BY <1>3, <1>4, <1>6 DEF OnceOK, Fresh
  <2>2. collectors \subseteq Groups /\ todo \subseteq collectors
    BY DEF TypeOK
  <2> QED BY <1>1, <1>3, <1>4, <2>1, <2>2 DEF OnceOK, OutsideOK
<1>10. EpollOK' /\ WatchOK'
  BY <1>3 DEF EpollOK, WatchOK, WatchedUnlessRefused, InLoop
<1> QED BY <1>7, <1>8, <1>9, <1>10

(* main() goes on to attach_all(), or returns. *)
LEMMA InitDoneInv == ASSUME ManagerInv, InitDone PROVE ManagerInv'
<1> USE DEF ManagerInv
<1>1. /\ pc = "init" /\ todo = {}
      /\ \/ pc' = "return" /\ todo' = todo
         \/ pc' = "attach" /\ todo' = collectors
      /\ UNCHANGED <<collectors, col, inited, g_running, data, signals, epoll,
                     registered, batch, cnt, refused, reports>>
  BY DEF InitDone, objects, env, kernel, loop, ghost
<1>2. TypeOK' /\ ColsOK'
  BY <1>1 DEF TypeOK, ColsOK
<1>3. OnceOK' /\ OutsideOK'
  BY <1>1 DEF OnceOK, OutsideOK, Fresh, TypeOK
<1>4. EpollOK' /\ WatchOK'
  BY <1>1 DEF EpollOK, WatchOK, WatchedUnlessRefused, InLoop
<1> QED BY <1>2, <1>3, <1>4

(* attach_all() attaches one collector, with any partial failure. *)
LEMMA AttachNextInv == ASSUME ManagerInv, AttachNext PROVE ManagerInv'
<1> USE DEF ManagerInv
<1>0. PICK g \in Groups :
         /\ g \in todo /\ todo' = todo \ {g}
         /\ \E G \in SUBSET GroupHooks[g], ringOk \in BOOLEAN :
               col' = [col EXCEPT ![g] = Attach(WithContext(col[g]), G, ringOk)]
  BY DEF AttachNext, IsNext
<1>1. PICK G \in SUBSET GroupHooks[g], ringOk \in BOOLEAN :
         /\ g \in todo /\ todo' = todo \ {g}
         /\ col' = [col EXCEPT ![g] = Attach(WithContext(col[g]), G, ringOk)]
  BY <1>0
<1> DEFINE b == WithContext(col[g])
           c == Attach(b, G, ringOk)
<1>2. /\ pc = "attach" /\ pc' = pc
      /\ UNCHANGED <<collectors, inited, g_running, data, signals, epoll,
                     registered, batch, cnt, refused, reports>>
  BY DEF AttachNext, env, kernel, loop, ghost
<1>3. /\ DOMAIN col' = Groups /\ col'[g] = c
      /\ \A k \in Groups : k # g => col'[k] = col[k]
  <2> HIDE DEF c
  <2> QED BY <1>1, ColUpdate DEF c
<1>4. /\ Sound(GroupHooks[g], col[g]) /\ ~col[g].attached
      /\ \A h \in GroupHooks[g] : col[g].probes[h] = 0
  BY <1>1, <1>2 DEF ColsOK, OnceOK, Fresh
<1>5. /\ Sound(GroupHooks[g], b) /\ b.ctx = TRUE /\ b.obj = col[g].obj
      /\ ~b.attached /\ b.probes = col[g].probes
  BY <1>4, ContextSound, ContextKeeps DEF WithContext
<1> HIDE DEF b
<1>6. /\ Sound(GroupHooks[g], c) /\ c.ctx = TRUE /\ c.obj = col[g].obj
      /\ \A h \in GroupHooks[g] : c.probes[h] \in {0, 1}
  BY <1>4, <1>5, AttachSound, AttachOnce
<1> HIDE DEF c
<1>7. TypeOK'
  BY <1>1, <1>2, <1>3 DEF TypeOK
<1>8. ColsOK'
  BY <1>3, <1>6 DEF ColsOK
<1>9. OnceOK' /\ OutsideOK'
  <2>1. collectors \subseteq Groups /\ todo \subseteq collectors
    BY DEF TypeOK
  <2>2. \A k \in todo' : Fresh(k)'
    BY <1>1, <1>2, <1>3, <2>1 DEF OnceOK, Fresh
  <2> QED BY <1>1, <1>2, <1>3, <1>6, <2>1, <2>2 DEF OnceOK, OutsideOK
<1>10. EpollOK' /\ WatchOK'
  BY <1>2 DEF EpollOK, WatchOK, WatchedUnlessRefused, InLoop
<1> QED BY <1>7, <1>8, <1>9, <1>10

(* run_loop() creates the epoll instance, or returns. *)
LEMMA EpollCreateInv == ASSUME ManagerInv, EpollCreate PROVE ManagerInv'
<1> USE DEF ManagerInv
<1>1. /\ pc = "attach"
      /\ \/ epoll' = TRUE /\ pc' = "register" /\ todo' = collectors
         \/ epoll' = FALSE /\ pc' = "report" /\ todo' = todo
      /\ UNCHANGED <<collectors, col, inited, g_running, data, signals,
                     registered, batch, cnt, refused, reports>>
  BY DEF EpollCreate, objects, env, loop, ghost
<1>2. TypeOK' /\ ColsOK' /\ OnceOK' /\ OutsideOK'
  BY <1>1 DEF TypeOK, ColsOK, OnceOK, OutsideOK
<1>3. EpollOK'
  BY <1>1 DEF EpollOK
<1>4. WatchOK'
  BY <1>1, AttachedInside DEF WatchOK, WatchedUnlessRefused, InLoop
<1> QED BY <1>2, <1>3, <1>4

(* run_loop() registers one collector, passes over it or is refused. *)
LEMMA RegisterNextInv == ASSUME ManagerInv, RegisterNext PROVE ManagerInv'
<1> USE DEF ManagerInv
<1>1. PICK g \in Groups :
         /\ g \in todo /\ todo' = todo \ {g}
         /\ \/ /\ col[g].attached
               /\ \/ registered' = registered \cup {g} /\ refused' = refused
                  \/ registered' = registered /\ refused' = refused \cup {g}
            \/ /\ ~(col[g].attached /\ col[g].fd)
               /\ UNCHANGED <<registered, refused>>
  BY DEF RegisterNext, IsNext, AfterRefusal
<1>2. /\ pc = "register" /\ pc' = pc
      /\ UNCHANGED <<collectors, col, inited, g_running, data, signals, epoll,
                     batch, cnt, reports>>
  BY DEF RegisterNext, objects, env, loop
<1>3. /\ col[g].attached => col[g].ringbuf
      /\ ~(col[g].attached /\ col[g].fd) => ~col[g].attached
  BY SoundOwned DEF ColsOK, Pollable
<1>4. TypeOK' /\ ColsOK' /\ OnceOK' /\ OutsideOK'
  BY <1>1, <1>2 DEF TypeOK, ColsOK, OnceOK, OutsideOK
<1>5. EpollOK'
  BY <1>1, <1>2, <1>3 DEF EpollOK
<1>6. WatchOK'
  BY <1>1, <1>2, <1>3 DEF WatchOK, WatchedUnlessRefused, InLoop
<1> QED BY <1>4, <1>5, <1>6

-----------------------------------------------------------------------------
(* The loop *)

(* A step of run_loop() that leaves the collectors, the epoll instance and  *)
(* what it lists alone.                                                     *)
LEMMA LoopInv ==
    ASSUME ManagerInv, EnterLoop \/ LoopTest \/ EpollWait \/ EpollInterrupted
                       \/ EpollError \/ Dispatch \/ PollRecord \/ PollReturn
    PROVE  ManagerInv'
<1> USE DEF ManagerInv
<1>1. UNCHANGED <<todo, collectors, col, inited, signals, epoll, registered,
                  refused, reports>>
  BY DEF EnterLoop, LoopTest, EpollWait, EpollInterrupted, EpollError, Dispatch,
         PollRecord, PollReturn, objects, env, kernel, loop, ghost
<1>2. /\ InLoop \/ (pc = "register" /\ todo = {})
      /\ pc' \in {"loop", "wait", "dispatch", "poll", "report"}
  BY DEF EnterLoop, LoopTest, EpollWait, EpollInterrupted, EpollError, Dispatch,
         PollRecord, PollReturn, InLoop
<1>3. cnt' \in 0 .. ConsumeMax /\ g_running' \in {0, 1} /\ data' \subseteq Groups
  <2>1. cnt \in 0 .. ConsumeMax /\ g_running \in {0, 1} /\ data \subseteq Groups
        /\ ConsumeMax \in Nat
    BY ManagerAssumption DEF TypeOK
  <2>2. cnt' = cnt \/ cnt' = 0 \/ (cnt < ConsumeMax /\ cnt' = cnt + 1)
    BY DEF EnterLoop, LoopTest, EpollWait, EpollInterrupted, EpollError, Dispatch,
           PollRecord, PollReturn, loop, MayConsumeMore
  <2>3. g_running' \in {g_running, 1} /\ data' \subseteq data
    BY DEF EnterLoop, LoopTest, EpollWait, EpollInterrupted, EpollError, Dispatch,
           PollRecord, PollReturn, env
  <2> QED BY <2>1, <2>2, <2>3
<1>4. /\ batch' \in Seq(Groups)
      /\ pc' \in {"dispatch", "poll"} => batch' \in Seq(registered)
      /\ pc' = "poll" => batch' # <<>>
  <2>0. batch \in Seq(Groups) /\ registered \subseteq Groups
    BY DEF TypeOK
  <2>1. CASE EpollWait
    <3>1. PICK S \in SUBSET registered : batch' \in Listings(S)
      BY <2>1 DEF EpollWait
    <3>2. batch' \in Seq(registered) /\ batch' \in Seq(Groups)
      <4>1. batch' \in Seq(S) /\ S \subseteq Groups
        BY <2>0, <3>1, ListingSeq
      <4> QED BY <2>0, <4>1
    <3> QED BY <2>1, <3>2 DEF EpollWait
  <2>2. CASE PollReturn
    <3>1. pc = "poll" /\ batch' = Tail(batch) /\ pc' = "dispatch"
      BY <2>2 DEF PollReturn, RestOfBatch
    <3>2. batch \in Seq(registered) /\ batch # <<>>
      BY <3>1 DEF EpollOK
    <3>3. Tail(batch) \in Seq(registered) /\ Tail(batch) \in Seq(Groups)
      BY <2>0, <3>2
    <3> QED BY <3>1, <3>3
  <2>3. CASE Dispatch \/ PollRecord
    BY <2>0, <2>3 DEF Dispatch, PollRecord, EpollOK
  <2>4. CASE EnterLoop \/ LoopTest \/ EpollInterrupted \/ EpollError
    BY <2>0, <2>4 DEF EnterLoop, LoopTest, EpollInterrupted, EpollError, loop
  <2> QED BY <2>1, <2>2, <2>3, <2>4
<1>5. TypeOK'
  BY <1>1, <1>2, <1>3, <1>4 DEF TypeOK
<1>6. ColsOK' /\ OnceOK' /\ OutsideOK'
  BY <1>1, <1>2 DEF ColsOK, OnceOK, OutsideOK
<1>7. EpollOK'
  BY <1>1, <1>2, <1>4 DEF EpollOK
<1>8. WatchOK'
  BY <1>1, <1>2 DEF WatchOK, WatchedUnlessRefused, InLoop
<1> QED BY <1>5, <1>6, <1>7, <1>8

(* The environment never touches what the program holds. *)
LEMMA EnvironmentInv ==
    ASSUME ManagerInv, Signal \/ (\E g \in Groups : Traffic(g)) \/ UNCHANGED vars
    PROVE  ManagerInv'
<1> USE DEF ManagerInv
<1>1. UNCHANGED <<pc, todo, collectors, col, inited, epoll, registered, batch, cnt,
                  refused, reports>>
  BY DEF Signal, Traffic, vars, objects, kernel, loop, ghost
<1>2. /\ g_running' \in {0, 1} /\ data' \subseteq Groups
      /\ signals' \in 0 .. MaxSignals
  <2>1. /\ g_running \in {0, 1} /\ data \subseteq Groups
        /\ signals \in 0 .. MaxSignals /\ MaxSignals \in Nat
    BY ManagerAssumption DEF TypeOK
  <2> QED BY <2>1 DEF Signal, Traffic, vars, env
<1>3. TypeOK'
  BY <1>1, <1>2 DEF TypeOK
<1>4. ColsOK' /\ OnceOK' /\ OutsideOK' /\ EpollOK' /\ WatchOK'
  BY <1>1 DEF ColsOK, OnceOK, Fresh, OutsideOK, EpollOK, WatchOK,
              WatchedUnlessRefused, InLoop
<1> QED BY <1>3, <1>4

-----------------------------------------------------------------------------
(* The end *)

(* The report, and the epoll instance closed before any collector is        *)
(* destroyed.                                                               *)
LEMMA CloseInv == ASSUME ManagerInv, FinalReport \/ CloseEpoll PROVE ManagerInv'
<1> USE DEF ManagerInv
<1>1. UNCHANGED <<collectors, col, inited, g_running, data, signals, batch, cnt,
                  refused>>
  BY DEF FinalReport, CloseEpoll, objects, env, loop, ghost
<1>2. \/ /\ pc' = "shutdown" /\ reports' = 1
         /\ UNCHANGED <<todo, epoll, registered>>
      \/ /\ pc' \in {"destroy", "destruct"} /\ epoll' = FALSE /\ registered' = {}
         /\ todo' = collectors /\ reports' = reports
  BY DEF FinalReport, CloseEpoll, kernel, ghost
<1>3. TypeOK'
  BY <1>1, <1>2 DEF TypeOK
<1>4. ColsOK' /\ OnceOK' /\ OutsideOK' /\ EpollOK' /\ WatchOK'
  BY <1>1, <1>2 DEF ColsOK, OnceOK, OutsideOK, EpollOK, WatchOK,
              WatchedUnlessRefused, InLoop
<1> QED BY <1>3, <1>4

(* What destroy() leaves of a collector. *)
LEMMA DestroyCol ==
    ASSUME ColsOK, NEW g \in Groups
    PROVE  /\ Sound(GroupHooks[g], Destroy(col[g]))
           /\ ~Destroy(col[g]).obj /\ ~Destroy(col[g]).ringbuf
           /\ \A h \in GroupHooks[g] : Destroy(col[g]).probes[h] \in {0, 1}
<1>1. Sound(GroupHooks[g], col[g])
  BY DEF ColsOK
<1>2. /\ ~Destroy(col[g]).obj /\ ~Destroy(col[g]).ringbuf
      /\ Destroy(col[g]).probes = [h \in GroupHooks[g] |-> 0]
  BY <1>1, DestroyLeaves
<1>3. Sound(GroupHooks[g], Destroy(col[g]))
  BY <1>1, ReleaseSound
<1> QED BY <1>2, <1>3

(* shutdown() destroys one collector. *)
LEMMA DestroyNextInv == ASSUME ManagerInv, DestroyNext PROVE ManagerInv'
<1> USE DEF ManagerInv
<1>1. PICK g \in Groups : /\ g \in todo /\ todo' = todo \ {g}
                          /\ col' = [col EXCEPT ![g] = Destroy(col[g])]
                          /\ data' = data \ {g}
  BY DEF DestroyNext, IsNext
<1>2. /\ pc \in {"destroy", "destruct"} /\ pc' = pc
      /\ UNCHANGED <<collectors, inited, g_running, epoll, registered, batch, cnt,
                     signals, refused, reports>>
  BY DEF DestroyNext, kernel, loop, ghost
<1>3. /\ DOMAIN col' = Groups /\ col'[g] = Destroy(col[g])
      /\ \A k \in Groups : k # g => col'[k] = col[k]
  BY <1>1, ColUpdate
<1>4. TypeOK'
  BY <1>1, <1>2, <1>3 DEF TypeOK
<1>5. ColsOK' /\ OutsideOK'
  BY <1>2, <1>3, DestroyCol DEF ColsOK, OutsideOK
<1>6. OnceOK' /\ EpollOK' /\ WatchOK'
  BY <1>2 DEF OnceOK, EpollOK, WatchOK, WatchedUnlessRefused, InLoop
<1> QED BY <1>4, <1>5, <1>6

(* shutdown() clears the vector, which destroys every collector again. *)
LEMMA DestroyDoneInv == ASSUME ManagerInv, DestroyDone PROVE ManagerInv'
<1> USE DEF ManagerInv
<1>1. /\ pc \in {"destroy", "destruct"} /\ todo = {} /\ todo' = todo
      /\ col' = [g \in Groups |-> IF g \in collectors THEN Destroy(col[g])
                                  ELSE col[g]]
      /\ collectors' = {} /\ pc' \in {"return", "exit"}
      /\ UNCHANGED <<inited, g_running, data, signals, epoll, registered, batch,
                     cnt, refused, reports>>
  BY DEF DestroyDone, env, kernel, loop, ghost
<1>2. \A g \in Groups : \/ col'[g] = Destroy(col[g])
                        \/ col'[g] = col[g] /\ ~col[g].obj
  BY <1>1 DEF OutsideOK
<1>3. TypeOK'
  BY <1>1 DEF TypeOK
<1>4. ColsOK' /\ OutsideOK'
  BY <1>1, <1>2, DestroyCol DEF ColsOK, OutsideOK
<1>5. OnceOK' /\ EpollOK' /\ WatchOK'
  BY <1>1 DEF OnceOK, EpollOK, WatchOK, WatchedUnlessRefused, InLoop
<1> QED BY <1>3, <1>4, <1>5

-----------------------------------------------------------------------------
(* The theorems *)

(* The invariant holds of every behaviour. *)
LEMMA ManagerInvariant == Spec => []ManagerInv
<1>1. ManagerInv /\ [Next]_vars => ManagerInv'
  BY AddCollectorsInv, InitNextInv, InitDoneInv, AttachNextInv, EpollCreateInv,
     RegisterNextInv, LoopInv, EnvironmentInv, CloseInv, DestroyNextInv,
     DestroyDoneInv DEF Next, MainStep, Exited
<1> QED BY <1>1, ManagerInit, PTL DEF Spec

(* The manager keeps its types: a poll() never exceeds its limit.           *)
THEOREM ManagerTypeCorrect == Spec => []TypeOK
<1>1. ManagerInv => TypeOK
  BY DEF ManagerInv
<1> QED BY <1>1, ManagerInvariant, PTL

(* Whatever fails in whichever collector, nothing is leaked or attached     *)
(* twice.                                                                   *)
THEOREM NothingLeakedByProgram == Spec => []AllOwned
<1>1. ManagerInv => AllOwned
  <2>1. \A x \in {0, 1} : x <= 1
    OBVIOUS
  <2> QED BY <2>1, SoundOwned DEF ManagerInv, ColsOK, AllOwned
<1> QED BY <1>1, ManagerInvariant, PTL

(* Every way out of main() releases everything.                             *)
THEOREM ExitsClean == Spec => []CleanExit
<1>1. ManagerInv => CleanExit
  BY SoundOwned DEF ManagerInv, ColsOK, OutsideOK, EpollOK, CleanExit
<1> QED BY <1>1, ManagerInvariant, PTL

(* A pointer that epoll hands back is that of a live collector.             *)
THEOREM EpollNeverStale == Spec => []NoStaleCollector
<1>1. ManagerInv => NoStaleCollector
  <2> SUFFICES ASSUME ManagerInv PROVE NoStaleCollector
    OBVIOUS
  <2>1. \A g \in registered : col[g].ringbuf /\ col[g].ctx /\ epoll
    BY DEF ManagerInv, EpollOK, ColsOK, TypeOK
  <2>2. pc = "poll" => Head(batch) \in registered
    BY DEF ManagerInv, EpollOK
  <2> QED BY <2>1, <2>2 DEF NoStaleCollector
<1> QED BY <1>1, ManagerInvariant, PTL

(* Every attached collector is watched unless epoll_ctl() refused it.       *)
THEOREM AttachedIsWatched == Spec => []WatchedUnlessRefused
<1>1. ManagerInv => WatchedUnlessRefused
  BY DEF ManagerInv, WatchOK
<1> QED BY <1>1, ManagerInvariant, PTL

-----------------------------------------------------------------------------
(* The way to the end *)

(* A larger number of rings takes more steps. *)
LEMMA TimesMonotone ==
    ASSUME NEW p \in Nat, NEW a \in Nat, NEW b \in Nat, a <= b
    PROVE  p * a \in Nat /\ p * b \in Nat /\ p * a <= p * b
<1>1. b - a \in Nat /\ b = a + (b - a)
  OBVIOUS
<1>2. p * (b - a) \in Nat
  BY <1>1
<1>3. p * b = p * a + p * (b - a)
  BY <1>1
<1> QED BY <1>2, <1>3

(* A loop over collectors that visits one of them has one less to visit. *)
LEMMA VisitedOne ==
    ASSUME TypeOK, NEW g \in todo, todo' = todo \ {g}
    PROVE  0 <= Cardinality(todo') /\ Cardinality(todo') < Cardinality(todo)
<1>1. IsFiniteSet(todo)
  BY GroupsFinite, FS_Subset DEF TypeOK
<1>2. Cardinality(todo \ {g}) = Cardinality(todo) - 1
  BY <1>1, FS_RemoveElement
<1>3. IsFiniteSet(todo') /\ Cardinality(todo) \in Nat
  BY <1>1, FS_RemoveElement, FS_CardinalityType
<1>4. Cardinality(todo') \in Nat
  BY <1>3, FS_CardinalityType
<1> QED BY <1>2, <1>3, <1>4

(* epoll_wait() lists a ring at most once. *)
LEMMA ListingShort ==
    ASSUME NEW S, S \subseteq Groups, NEW s \in Listings(S)
    PROVE  Len(s) \in Nat /\ Cardinality(Groups) \in Nat
           /\ Len(s) <= Cardinality(Groups)
<1>1. /\ IsFiniteSet(S) /\ Cardinality(S) \in Nat /\ Cardinality(Groups) \in Nat
      /\ Cardinality(S) <= Cardinality(Groups)
  BY GroupsFinite, FS_Subset, FS_CardinalityType
<1>2. s \in [1 .. Cardinality(S) -> S]
  BY DEF Listings
<1>3. Len(s) = Cardinality(S)
  BY <1>1, <1>2
<1> QED BY <1>1, <1>3

(* The loops over collectors, and the steps between the stages of main().   *)
LEMMA OutsideNearer ==
    ASSUME TypeOK, AddCollectors \/ InitNext \/ InitDone \/ AttachNext \/ EpollCreate
                   \/ RegisterNext \/ EnterLoop \/ FinalReport \/ CloseEpoll
                   \/ DestroyNext \/ DestroyDone \/ EpollError
    PROVE  Nearer
<1>1. ASSUME pc \in {"init", "attach", "register", "destroy", "destruct"}, pc' = pc,
             NEW g \in todo, todo' = todo \ {g}
      PROVE  Nearer
  <2>1. Stage' = Stage
    BY <1>1 DEF Stage, InLoop
  <2>2. Work = Cardinality(todo) /\ Work' = Cardinality(todo')
    BY <1>1 DEF Work
  <2> QED BY <1>1, <2>1, <2>2, VisitedOne DEF Nearer
<1>2. ASSUME InitNext \/ AttachNext \/ RegisterNext \/ DestroyNext PROVE Nearer
  <2>1. /\ pc \in {"init", "attach", "register", "destroy", "destruct"} /\ pc' = pc
        /\ \E g \in todo : todo' = todo \ {g}
    BY <1>2 DEF InitNext, AttachNext, RegisterNext, DestroyNext, IsNext, AfterRefusal
  <2> QED BY <1>1, <2>1
<1>3. ASSUME AddCollectors \/ InitDone \/ EpollCreate \/ EnterLoop \/ FinalReport
             \/ CloseEpoll \/ DestroyDone \/ EpollError
      PROVE  Nearer
  <2>1. <<pc, pc'>> \in {<<"start", "init">>, <<"init", "return">>,
            <<"init", "attach">>, <<"attach", "register">>, <<"attach", "report">>,
            <<"register", "loop">>, <<"wait", "report">>, <<"report", "shutdown">>,
            <<"shutdown", "destroy">>, <<"return", "destruct">>,
            <<"destroy", "return">>, <<"destruct", "exit">>}
    BY <1>3 DEF AddCollectors, InitDone, EpollCreate, EnterLoop, FinalReport,
                CloseEpoll, DestroyDone, EpollError
  <2>2. Stage' < Stage
    BY <2>1 DEF Stage, InLoop
  <2> QED BY <2>2 DEF Nearer
<1> QED BY <1>2, <1>3

(* The steps of run_loop(): only the test of g_running starts another pass. *)
LEMMA LoopNearer ==
    ASSUME ManagerInv, LoopTest \/ EpollWait \/ EpollInterrupted \/ Dispatch
                       \/ PollRecord \/ PollReturn
    PROVE  Nearer \/ (pc = "loop" /\ g_running = 1 /\ pc' = "wait")
<1> DEFINE P == PollSteps
           N == Cardinality(Groups)
           L == Len(batch)
<1>1. /\ P \in Nat /\ P = ConsumeMax + 3 /\ ConsumeMax \in Nat /\ N \in Nat
      /\ L \in Nat /\ cnt \in 0 .. ConsumeMax
  BY ManagerAssumption, GroupsFinite, FS_CardinalityType
  DEF PollSteps, ManagerInv, TypeOK
<1>2. ASSUME InLoop, InLoop', 0 <= Work', Work' < Work PROVE Nearer
  <2>1. Stage = 6 /\ Stage' = 6
    BY <1>2 DEF Stage, InLoop
  <2> QED BY <1>2, <2>1 DEF Nearer
<1>3. P * N \in Nat /\ P * L \in Nat
  BY <1>1, TimesMonotone
<1>4. CASE LoopTest
  <2>1. CASE g_running = 0
    <3>1. pc = "loop" /\ pc' = "report"
      BY <1>4, <2>1 DEF LoopTest, StopRequested
    <3> QED BY <3>1 DEF Nearer, Stage, InLoop
  <2>2. CASE g_running # 0
    <3>1. g_running = 1
      BY <2>2 DEF ManagerInv, TypeOK
    <3> QED BY <1>4, <2>2, <3>1 DEF LoopTest, StopRequested
  <2> QED BY <2>1, <2>2
<1>5. CASE EpollWait
  <2>1. pc = "wait" /\ Work = P * N + 2
    BY <1>5 DEF EpollWait, Work
  <2>2. PICK S \in SUBSET registered : batch' \in Listings(S)
    BY <1>5 DEF EpollWait
  <2>3. Len(batch') \in Nat /\ Len(batch') <= N
    <3>1. S \subseteq Groups
      BY <2>2 DEF ManagerInv, TypeOK
    <3> QED BY <2>2, <3>1, ListingShort
  <2>4. P * Len(batch') \in Nat /\ P * Len(batch') <= P * N
    BY <1>1, <2>3, TimesMonotone
  <2>5. CASE pc' = "loop"
    <3>1. Work' = 0
      BY <2>5 DEF Work
    <3> QED BY <1>2, <1>3, <2>1, <2>5, <3>1 DEF InLoop
  <2>6. CASE pc' = "dispatch"
    <3>1. Work' = P * Len(batch') + 1
      BY <2>6 DEF Work, PollSteps
    <3> QED BY <1>2, <1>3, <2>1, <2>4, <2>6, <3>1 DEF InLoop
  <2> QED BY <1>5, <2>5, <2>6 DEF EpollWait
<1>6. CASE EpollInterrupted
  <2>1. pc = "wait" /\ pc' = "loop" /\ Work = P * N + 2 /\ Work' = 0
    BY <1>6 DEF EpollInterrupted, Work
  <2> QED BY <1>2, <1>3, <2>1 DEF InLoop
<1>7. CASE Dispatch
  <2>1. pc = "dispatch" /\ batch' = batch /\ cnt' = 0
    BY <1>7 DEF Dispatch
  <2>2. Work = P * L + 1
    BY <2>1 DEF Work
  <2>3. CASE pc' = "loop"
    <3>1. Work' = 0
      BY <2>3 DEF Work
    <3> QED BY <1>2, <1>3, <2>1, <2>2, <2>3, <3>1 DEF InLoop
  <2>4. CASE pc' = "poll"
    <3>1. Work' = P * (L - 1) + (ConsumeMax - 0) + 3
      BY <2>1, <2>4 DEF Work, PollSteps
    <3>2. P * (L - 1) = P * L - P
      BY <1>1
    <3>3. Work' = P * L
      BY <1>1, <1>3, <3>1, <3>2
    <3> QED BY <1>2, <1>3, <2>1, <2>2, <2>4, <3>3 DEF InLoop
  <2> QED BY <1>7, <2>3, <2>4 DEF Dispatch
<1>8. ASSUME pc = "poll"
      PROVE  /\ P * (L - 1) \in Nat
             /\ Work = P * (L - 1) + (ConsumeMax - cnt) + 3
  <2>1. L # 0
    BY <1>8 DEF ManagerInv, EpollOK, TypeOK
  <2>2. L - 1 \in Nat
    BY <1>1, <2>1
  <2> QED BY <1>1, <1>8, <2>2, TimesMonotone DEF Work
<1>9. CASE PollRecord
  <2>1. /\ pc = "poll" /\ pc' = "poll" /\ batch' = batch /\ cnt' = cnt + 1
        /\ cnt < ConsumeMax
    BY <1>9 DEF PollRecord, MayConsumeMore
  <2>2. Work' = P * (L - 1) + (ConsumeMax - (cnt + 1)) + 3
    BY <2>1 DEF Work, PollSteps
  <2>3. 0 <= Work' /\ Work' < Work
    BY <1>1, <1>8, <2>1, <2>2
  <2> QED BY <1>2, <2>1, <2>3 DEF InLoop
<1>10. CASE PollReturn
  <2>1. pc = "poll" /\ pc' = "dispatch" /\ batch' = Tail(batch)
    BY <1>10 DEF PollReturn, RestOfBatch
  <2>2. Len(batch') = L - 1
    BY <2>1 DEF ManagerInv, EpollOK, TypeOK
  <2>3. Work' = P * (L - 1) + 1
    BY <2>1, <2>2 DEF Work, PollSteps
  <2>4. 0 <= Work' /\ Work' < Work
    BY <1>1, <1>8, <2>1, <2>3
  <2> QED BY <1>2, <2>1, <2>4 DEF InLoop
<1> QED BY <1>4, <1>5, <1>6, <1>7, <1>9, <1>10

(* For any number of groups and any limit of a poll(), whatever the traffic *)
(* and the failures: but for new passes of a loop that nobody has told to   *)
(* stop, each step of the main thread brings main() nearer to its return.   *)
THEOREM MainRunsDown == Spec => RunsDown
<1> DEFINE Down == /\ \/ Nearer
                      \/ pc = "loop" /\ g_running = 1 /\ pc' = "wait"
                      \/ UNCHANGED <<pc, todo, batch, cnt>>
                   /\ InLoop => g_running' <= g_running
<1>1. ManagerInv /\ [Next]_vars => [Down]_vars
  <2> SUFFICES ASSUME ManagerInv, Next PROVE Down
    BY DEF Down
  <2>1. InLoop => g_running' <= g_running
    <3>1. g_running \in {0, 1}
      BY DEF ManagerInv, TypeOK
    <3>2. g_running' = g_running \/ g_running' = 0 \/ ~InLoop
      BY DEF Next, MainStep, AddCollectors, InitNext, InitDone, AttachNext,
             EpollCreate, RegisterNext, EnterLoop, LoopTest, EpollWait,
             EpollInterrupted, Dispatch, PollRecord, PollReturn, FinalReport,
             CloseEpoll, DestroyNext, DestroyDone, EpollError, Signal, Exited,
             Traffic, env, vars, InLoop
    <3> QED BY <3>1, <3>2
  <2>2. CASE Signal \/ Exited \/ \E g \in Groups : Traffic(g)
    BY <2>1, <2>2 DEF Signal, Exited, Traffic, vars, loop
  <2>3. CASE MainStep \/ EpollError
    BY <2>1, <2>3, OutsideNearer, LoopNearer DEF MainStep, ManagerInv
  <2> QED BY <2>2, <2>3 DEF Next
<1> QED BY <1>1, ManagerInvariant, PTL DEF Spec, RunsDown

-----------------------------------------------------------------------------
(* The turns of a pass *)

(* Between two passes nothing is listed. *)
BatchOK == pc \notin {"dispatch", "poll"} => batch = <<>>

(* A listing leaves out none of its rings. *)
LEMMA ListingAll ==
    ASSUME NEW S, S \subseteq Groups, NEW s \in Listings(S), NEW g \in S
    PROVE  \E i \in DOMAIN s : s[i] = g
<1> DEFINE n == Cardinality(S)
<1>1. IsFiniteSet(S) /\ n \in Nat
  BY GroupsFinite, FS_Subset, FS_CardinalityType
<1>2. s \in [1 .. n -> S] /\ \A i, j \in 1 .. n : s[i] = s[j] => i = j
  BY DEF Listings
<1>3. s \in Injection(1 .. n, S)
  BY <1>2 DEF Injection, IsInjective
<1>4. Cardinality(1 .. n) = n
  <2> HIDE DEF n
  <2> QED BY <1>1, FS_Interval
<1>5. s \in Surjection(1 .. n, S)
  <2>1. Cardinality(1 .. n) = Cardinality(S)
    BY <1>4
  <2> HIDE DEF n
  <2> QED BY <1>1, <1>3, <2>1, FS_Injection
<1> QED BY <1>2, <1>5 DEF Surjection

(* A pass begins with epoll_wait() and ends when the batch is empty. *)
LEMMA BatchStep == BatchOK /\ [Next]_vars => BatchOK'
<1> SUFFICES ASSUME BatchOK, [Next]_vars PROVE BatchOK'
  OBVIOUS
<1>1. CASE EpollWait \/ Dispatch \/ PollRecord \/ PollReturn
  BY <1>1 DEF EpollWait, Dispatch, PollRecord, PollReturn, BatchOK
<1>2. CASE Signal \/ Exited \/ (\E g \in Groups : Traffic(g)) \/ UNCHANGED vars
  BY <1>2 DEF Signal, Exited, Traffic, loop, vars, BatchOK
<1>3. CASE \/ AddCollectors \/ InitNext \/ InitDone \/ AttachNext \/ EpollCreate
           \/ RegisterNext \/ EnterLoop \/ LoopTest \/ EpollInterrupted \/ EpollError
           \/ FinalReport \/ CloseEpoll \/ DestroyNext \/ DestroyDone
  BY <1>3 DEF AddCollectors, InitNext, InitDone, AttachNext, EpollCreate,
     RegisterNext, EnterLoop, LoopTest, EpollInterrupted, EpollError, FinalReport,
     CloseEpoll, DestroyNext, DestroyDone, loop, BatchOK
<1> QED BY <1>1, <1>2, <1>3 DEF Next, MainStep

(* At the end of a poll() the ring that was polled leaves the batch, and no *)
(* other.                                                                   *)
LEMMA OnlyHeadLeaves ==
    ASSUME ManagerInv, PollReturn, NEW g, Listed(g), ~Listed(g)'
    PROVE  g = Head(batch) /\ (cnt > 0 \/ g \notin data)
<1> DEFINE t == Tail(batch)
           n == Len(batch)
<1>1. batch \in Seq(Groups) /\ cnt \in Nat /\ ConsumeMax \in Nat \ {0}
  BY ManagerAssumption DEF ManagerInv, TypeOK
<1>2. /\ pc = "poll" /\ batch' = t
      /\ Head(batch) \notin data \/ ~(cnt < ConsumeMax)
  BY DEF PollReturn, RestOfBatch, MayConsumeMore
<1>3. batch # <<>>
  BY <1>2 DEF ManagerInv, EpollOK
<1>4. /\ n \in Nat \ {0} /\ Head(batch) = batch[1]
      /\ t \in Seq(Groups) /\ Len(t) = n - 1
      /\ \A k \in 1 .. n - 1 : t[k] = batch[k + 1]
  BY <1>1, <1>3
<1>5. PICK i \in 1 .. n : batch[i] = g
  BY <1>1 DEF Listed
<1> HIDE DEF t, n
<1>6. i = 1
  <2> SUFFICES ASSUME i # 1 PROVE FALSE
    OBVIOUS
  <2>1. i - 1 \in 1 .. n - 1 /\ (i - 1) + 1 = i
    BY <1>4
  <2>2. i - 1 \in DOMAIN t /\ t[i - 1] = batch[(i - 1) + 1]
    BY <1>4, <2>1
  <2> QED BY <1>2, <1>5, <2>1, <2>2 DEF Listed
<1>7. g = Head(batch)
  BY <1>4, <1>5, <1>6
<1> QED BY <1>1, <1>2, <1>7

(* For any number of rings, any limit of a poll() and any traffic, no ring  *)
(* with data is left out of a pass, passed over in it or given up unread.   *)
THEOREM EveryRingHasItsTurn == Spec => NoRingSkipped
<1> DEFINE Turn == \A g \in Groups : HasItsTurn(g)
<1>1. Init => BatchOK
  BY DEF Init, BatchOK
<1>2. ManagerInv /\ BatchOK /\ [Next]_vars => [Turn]_vars
  <2> SUFFICES ASSUME ManagerInv, BatchOK, Next, NEW g \in Groups PROVE HasItsTurn(g)
    BY DEF Turn
  <2>1. CASE EpollWait
    <3>1. ~Listed(g)
      BY <2>1 DEF EpollWait, BatchOK, Listed
    <3>2. g \in registered \cap data => Listed(g)'
      <4>1. PICK S \in SUBSET registered :
               registered \cap data \subseteq S /\ batch' \in Listings(S)
        BY <2>1 DEF EpollWait
      <4>2. S \subseteq Groups
        BY <4>1 DEF ManagerInv, TypeOK
      <4> QED BY <4>1, <4>2, ListingAll DEF Listed
    <3> QED BY <3>1, <3>2 DEF HasItsTurn
  <2>2. CASE PollReturn
    <3>1. pc = "poll" /\ data' = data
      BY <2>2 DEF PollReturn, env
    <3> QED BY <2>2, <3>1, OnlyHeadLeaves DEF HasItsTurn
  <2>3. CASE PollRecord
    <3>1. pc = "poll" /\ batch' = batch /\ data' = data \ {Head(batch)}
      BY <2>3 DEF PollRecord
    <3> QED BY <3>1 DEF HasItsTurn, Listed
  <2>4. CASE DestroyNext
    <3>1. pc # "wait" /\ batch' = batch /\ ~Listed(g)
      BY <2>4 DEF DestroyNext, BatchOK, Listed, loop
    <3> QED BY <3>1 DEF HasItsTurn
  <2>5. ASSUME batch' = batch, data \subseteq data', pc = "wait" => pc' # "dispatch"
        PROVE  HasItsTurn(g)
    BY <2>5 DEF HasItsTurn, Listed
  <2>6. CASE Signal \/ Exited \/ \E h \in Groups : Traffic(h)
    BY <2>5, <2>6 DEF Signal, Exited, Traffic, loop, env, vars
  <2>7. CASE \/ AddCollectors \/ InitNext \/ InitDone \/ AttachNext \/ EpollCreate
             \/ RegisterNext \/ EnterLoop \/ LoopTest \/ EpollInterrupted \/ EpollError
             \/ Dispatch \/ FinalReport \/ CloseEpoll \/ DestroyDone
    BY <2>5, <2>7 DEF AddCollectors, InitNext, InitDone, AttachNext, EpollCreate,
       RegisterNext, EnterLoop, LoopTest, EpollInterrupted, EpollError, Dispatch,
       FinalReport, CloseEpoll, DestroyDone, loop, env
  <2> QED BY <2>1, <2>2, <2>3, <2>4, <2>6, <2>7 DEF Next, MainStep
<1> QED BY <1>1, <1>2, BatchStep, ManagerInvariant, PTL DEF Spec, NoRingSkipped
=============================================================================
