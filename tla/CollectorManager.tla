-------------------------- MODULE CollectorManager --------------------------
(***************************************************************************)
(* The life of the program: main() and the CollectorManager it drives, from *)
(* the constructor that installs the signal handlers to the destructor     *)
(* that runs after main() returns, with signals that may arrive between    *)
(* any two steps and every libbpf and epoll call that may fail.  The loops *)
(* over collectors_ take one collector at a time, in the order of          *)
(* file_groups[]; todo is what is left.                                    *)
(* What a collector's ring holds is reduced to whether it has records; the *)
(* ring itself is the subject of EventRing, the handlers of StatsCollector.*)
(***************************************************************************)
EXTENDS Integers, Sequences, FiniteSets, Collector

CONSTANTS
    FileGroups,     \* file_groups[]: the names, in order
    GroupHooks,     \* the hooks of each file group
    ConsumeMax,     \* INT_MAX: records of one ring_buffer__consume call
    MaxSignals      \* bound: number of signals that arrive

Groups == {FileGroups[i] : i \in DOMAIN FileGroups}

ASSUME ManagerAssumption ==
    /\ FileGroups \in Seq(Modules)
    /\ \A i, j \in DOMAIN FileGroups : FileGroups[i] = FileGroups[j] => i = j
    /\ GroupHooks \in [Groups -> SUBSET Hooks]
    /\ ConsumeMax \in Nat \ {0} /\ MaxSignals \in Nat

VARIABLES
    pc,             \* where the main thread is
    todo,           \* collectors the current loop has still to visit
    collectors,     \* collectors_: the enabled groups
    col,            \* the state of every collector
    inited,         \* init_all()'s count of successes
    g_running,      \* the flag the signal handler clears
    epoll,          \* epoll_fd_ >= 0
    registered,     \* rings the epoll instance watches
    batch,          \* what is left of events[] in this iteration
    cnt,            \* records consumed by the current poll()
    data,           \* rings that hold a record
    signals,        \* history: signals delivered
    refused,        \* history: collectors epoll_ctl() failed for
    reports         \* history: calls of flush_report(), capped at 1

objects == <<collectors, col, inited>>
kernel  == <<epoll, registered>>
loop    == <<batch, cnt>>
env     == <<g_running, data, signals>>
ghost   == <<refused, reports>>
vars == <<pc, todo, objects, kernel, loop, env, ghost>>

(* Faulty variants, each of the definition it is named after:               *)
(* set_event_context() is not called; a failure of epoll_ctl() ends the     *)
(* registration; only running_ is tested; one poll() has no limit; only the *)
(* first of the events is handled.                                          *)
WithContextNot(c)      == c
AfterRefusalNone(g)    == {}
StopRequestedNever     == FALSE
MayConsumeMoreAlways   == TRUE
RestOfBatchNone        == <<>>

WithContext(c) == [c EXCEPT !.ctx = TRUE]
AfterRefusal(g) == todo \ {g}
StopRequested  == g_running = 0
MayConsumeMore == cnt < ConsumeMax
RestOfBatch    == Tail(batch)

Pos(g) == CHOOSE i \in DOMAIN FileGroups : FileGroups[i] = g

(* g is the next collector of the current loop. *)
IsNext(g) == g \in todo /\ \A h \in todo : Pos(g) <= Pos(h)

InLoop == pc \in {"loop", "wait", "dispatch", "poll"}

Init ==
    /\ pc = "start"
    /\ todo = {} /\ collectors = {}
    /\ col = [g \in Groups |-> New(GroupHooks[g])]
    /\ inited = 0
    /\ g_running = 1
    /\ epoll = FALSE /\ registered = {}
    /\ batch = <<>> /\ cnt = 0
    /\ data = {}
    /\ signals = 0
    /\ refused = {} /\ reports = 0

-----------------------------------------------------------------------------
(* The environment *)

(* SIGINT or SIGTERM: signal_handler() clears the flag.  Before the         *)
(* constructor has run there is no handler, after main there is no process. *)
Signal ==
    /\ signals < MaxSignals /\ pc # "exit"
    /\ signals' = signals + 1
    /\ g_running' = 0
    /\ UNCHANGED <<pc, todo, objects, kernel, loop, data, ghost>>

Probed(g) == \E h \in GroupHooks[g] : col[g].probes[h] > 0

(* A probed function is called and its program commits a record. *)
Traffic(g) ==
    /\ Probed(g)
    /\ g \notin data
    /\ data' = data \cup {g}
    /\ UNCHANGED <<pc, todo, objects, g_running, kernel, loop, signals, ghost>>

-----------------------------------------------------------------------------
(* main(): set-up *)

(* The collectors that --enable and --disable select: with no --enable      *)
(* every group is in, otherwise the groups whose names occur in the list;   *)
(* --disable has the last word.                                             *)
Selected(all, enable, disable) ==
    {g \in Groups : (all \/ g \in enable) /\ g \notin disable}

AddCollectors ==
    /\ pc = "start"
    /\ \E all \in BOOLEAN, enable, disable \in SUBSET Groups :
          collectors' = Selected(all, enable, disable)
    /\ todo' = collectors'
    /\ pc' = "init"
    /\ UNCHANGED <<col, inited, env, kernel, loop, ghost>>

InitNext ==
    /\ pc = "init"
    /\ \E g \in Groups : IsNext(g) /\ todo' = todo \ {g}
       /\ \E c \in {OpenFails(col[g]), LoadFails(col[g]), InitOk(col[g])} :
             /\ col' = [col EXCEPT ![g] = c]
             /\ inited' = inited + (IF c.obj THEN 1 ELSE 0)
    /\ UNCHANGED <<pc, collectors, env, kernel, loop, ghost>>

(* No collector came up: main() returns 1, leaving the rest to ~Manager.    *)
InitDone ==
    /\ pc = "init" /\ todo = {}
    /\ IF inited = 0 THEN pc' = "return" /\ todo' = todo
                     ELSE pc' = "attach" /\ todo' = collectors
    /\ UNCHANGED <<objects, env, kernel, loop, ghost>>

(* attach_all(): the event context is injected, then attach(). *)
AttachNext ==
    /\ pc = "attach"
    /\ \E g \in Groups : IsNext(g) /\ todo' = todo \ {g}
       /\ \E G \in SUBSET GroupHooks[g], ringOk \in BOOLEAN :
             col' = [col EXCEPT ![g] = Attach(WithContext(@), G, ringOk)]
    /\ UNCHANGED <<pc, collectors, inited, env, kernel, loop, ghost>>

(* run_loop(): without an epoll instance it returns at once. *)
EpollCreate ==
    /\ pc = "attach" /\ todo = {}
    /\ \/ /\ epoll' = TRUE /\ pc' = "register" /\ todo' = collectors
       \/ /\ epoll' = FALSE /\ pc' = "report" /\ todo' = todo
    /\ UNCHANGED <<objects, env, registered, loop, ghost>>

(* Collectors without a ring are passed over; epoll_ctl() may fail.         *)
RegisterNext ==
    /\ pc = "register"
    /\ \E g \in Groups : IsNext(g) /\
       IF col[g].attached /\ col[g].fd
       THEN \/ /\ registered' = registered \cup {g} /\ refused' = refused
               /\ todo' = todo \ {g}
            \/ /\ registered' = registered /\ refused' = refused \cup {g}
               /\ todo' = AfterRefusal(g)
       ELSE todo' = todo \ {g} /\ UNCHANGED <<registered, refused>>
    /\ UNCHANGED <<pc, objects, env, epoll, loop, reports>>

(* running_ = true; g_running = 1: whatever the handler wrote before. *)
EnterLoop ==
    /\ pc = "register" /\ todo = {}
    /\ g_running' = 1
    /\ pc' = "loop"
    /\ UNCHANGED <<todo, objects, kernel, loop, data, signals, ghost>>

-----------------------------------------------------------------------------
(* run_loop(): the loop *)

LoopTest ==
    /\ pc = "loop"
    /\ pc' = IF StopRequested THEN "report" ELSE "wait"
    /\ UNCHANGED <<todo, objects, env, kernel, loop, ghost>>

(* The orders in which epoll_wait() may list the rings in S. *)
Listings(S) == {s \in [1 .. Cardinality(S) -> S] :
                   \A i, j \in DOMAIN s : s[i] = s[j] => i = j}

(* epoll_wait() lists the rings with data, and with them any whose first     *)
(* record is reserved and not complete yet; or after 1 s none.               *)
EpollWait ==
    /\ pc = "wait"
    /\ \E S \in SUBSET {g \in registered : g \in data \/ Probed(g)} :
          registered \cap data \subseteq S /\ batch' \in Listings(S)
    /\ pc' = IF batch' = <<>> THEN "loop" ELSE "dispatch"
    /\ UNCHANGED <<todo, objects, env, kernel, cnt, ghost>>

(* EINTR: the handler ran while epoll_wait() slept, whatever the rings hold. *)
EpollInterrupted ==
    /\ pc = "wait" /\ g_running = 0
    /\ pc' = "loop"
    /\ UNCHANGED <<todo, objects, env, kernel, loop, ghost>>

(* An error other than EINTR breaks out of the loop. *)
EpollError ==
    /\ pc = "wait"
    /\ pc' = "report"
    /\ UNCHANGED <<todo, objects, env, kernel, loop, ghost>>

(* handle_collector_event(): one ready collector after the other. *)
Dispatch ==
    /\ pc = "dispatch"
    /\ pc' = IF batch = <<>> THEN "loop" ELSE "poll"
    /\ cnt' = 0
    /\ UNCHANGED <<todo, objects, env, kernel, batch, ghost>>

(* poll(): records are consumed, the ones that arrive meanwhile too, until  *)
(* the ring is found empty or ConsumeMax of them have been handled.         *)
PollRecord ==
    /\ pc = "poll"
    /\ Head(batch) \in data /\ MayConsumeMore
    /\ data' = data \ {Head(batch)}
    /\ cnt' = cnt + 1
    /\ UNCHANGED <<pc, todo, objects, g_running, kernel, batch, signals, ghost>>

PollReturn ==
    /\ pc = "poll"
    /\ Head(batch) \notin data \/ ~MayConsumeMore
    /\ batch' = RestOfBatch
    /\ pc' = "dispatch"
    /\ UNCHANGED <<todo, objects, env, kernel, cnt, ghost>>

-----------------------------------------------------------------------------
(* main(): the end *)

(* flush_report(), evict_expired(), then manager.shutdown(). *)
FinalReport ==
    /\ pc = "report"
    /\ reports' = 1
    /\ pc' = "shutdown"
    /\ UNCHANGED <<todo, objects, env, kernel, loop, refused>>

(* shutdown(), first half: the epoll instance is closed if there is one. *)
CloseEpoll ==
    /\ pc \in {"shutdown", "return"}
    /\ epoll' = FALSE /\ registered' = {}
    /\ todo' = collectors
    /\ pc' = IF pc = "shutdown" THEN "destroy" ELSE "destruct"
    /\ UNCHANGED <<objects, env, loop, ghost>>

(* Second half: every collector is destroyed, then the vector is cleared.   *)
DestroyNext ==
    /\ pc \in {"destroy", "destruct"}
    /\ \E g \in Groups : /\ IsNext(g) /\ todo' = todo \ {g}
                         /\ col' = [col EXCEPT ![g] = Destroy(@)]
                         /\ data' = data \ {g}
    /\ UNCHANGED <<pc, collectors, inited, g_running, kernel, loop, signals, ghost>>

(* The destructor calls shutdown() a second time; the unique_ptrs run       *)
(* ~Collector, which destroys once more.                                    *)
DestroyDone ==
    /\ pc \in {"destroy", "destruct"} /\ todo = {}
    /\ col' = [g \in Groups |-> IF g \in collectors THEN Destroy(col[g]) ELSE col[g]]
    /\ collectors' = {}
    /\ pc' = IF pc = "destroy" THEN "return" ELSE "exit"
    /\ UNCHANGED <<todo, inited, env, kernel, loop, ghost>>

Exited == pc = "exit" /\ UNCHANGED vars

-----------------------------------------------------------------------------
MainStep ==
    \/ AddCollectors \/ InitNext \/ InitDone \/ AttachNext \/ EpollCreate
    \/ RegisterNext \/ EnterLoop \/ LoopTest \/ EpollWait \/ EpollInterrupted
    \/ Dispatch \/ PollRecord \/ PollReturn \/ FinalReport \/ CloseEpoll
    \/ DestroyNext \/ DestroyDone

Next == MainStep \/ EpollError \/ Signal \/ Exited \/ \E g \in Groups : Traffic(g)

Spec == Init /\ [][Next]_vars

(* The main thread is scheduled; epoll_wait has a timeout, so it always     *)
(* returns.  Nothing is assumed of signals, traffic or errors.              *)
FairSpec == Spec /\ WF_vars(MainStep)

-----------------------------------------------------------------------------
(* Properties *)

(* Type invariant of the main thread and the manager. *)
TypeOK ==
    /\ pc \in {"start", "init", "attach", "register", "loop", "wait", "dispatch",
               "poll", "report", "shutdown", "destroy", "return", "destruct",
               "exit"}
    /\ todo \subseteq collectors /\ collectors \subseteq Groups
    /\ DOMAIN col = Groups
    /\ inited \in Nat
    /\ g_running \in {0, 1}
    /\ epoll \in BOOLEAN /\ registered \subseteq Groups
    /\ batch \in Seq(Groups) /\ cnt \in 0 .. ConsumeMax
    /\ data \subseteq Groups
    /\ signals \in 0 .. MaxSignals
    /\ refused \subseteq Groups /\ reports \in {0, 1}

(* Whatever failed on the way, handles and kernel resources stay in step in *)
(* every collector, and no probe is attached twice.                         *)
AllOwned ==
    \A g \in Groups : /\ Owned(col[g])
                      /\ \A h \in GroupHooks[g] : col[g].probes[h] <= 1

(* When the program has exited, by whichever path, no probe is left in the  *)
(* monitored processes and no BPF object, ring or epoll instance is left,   *)
(* although shutdown(), ~CollectorManager and ~Collector each release.      *)
CleanExit ==
    pc = "exit" => ~epoll /\ \A g \in Groups : Released(col[g])

(* The collector pointers stored in epoll are never stale: while the epoll  *)
(* instance exists, every ring it watches has its consumer and its event    *)
(* context, and so has the collector that is being polled.                  *)
NoStaleCollector ==
    /\ \A g \in registered : col[g].ringbuf /\ col[g].ctx /\ epoll
    /\ pc = "poll" => col[Head(batch)].ringbuf /\ col[Head(batch)].ctx

(* In the loop, a collector with active probes and a ring goes unwatched    *)
(* only if epoll_ctl() refused it: attached collectors are all registered.  *)
WatchedUnlessRefused ==
    InLoop => \A g \in Groups : col[g].attached => g \in registered \cup refused

(* A signal that arrives once run_loop() has armed g_running ends the       *)
(* program, however much traffic the rings carry: a poll() returns after    *)
(* ConsumeMax records at the latest.                                        *)
SignalInLoopStops == (InLoop /\ g_running = 0) ~> (pc = "exit")

(* A ring that is watched and has data is read, or the loop is left: no     *)
(* ring starves behind a busier one.                                        *)
ReadyIsPolled ==
    \A g \in Groups :
        (InLoop /\ g \in registered \cap data) ~> (g \notin data \/ ~InLoop)

(* In a pass of the loop every ring has its turn: one with data is listed,  *)
(* keeps its records until its own poll(), whatever the polls before it do  *)
(* and whatever comes in meanwhile, and leaves the batch at the end of that *)
(* poll() only, with something read or nothing there.                       *)
Listed(g) == \E i \in DOMAIN batch : batch[i] = g
HasItsTurn(g) ==
    /\ pc = "wait" /\ pc' = "dispatch" /\ g \in registered \cap data => Listed(g)'
    /\ Listed(g) /\ (~Listed(g)' \/ (g \in data /\ g \notin data'))
          => pc = "poll" /\ g = Head(batch)
    /\ Listed(g) /\ ~Listed(g)' => cnt > 0 \/ g \notin data
NoRingSkipped == [][\A g \in Groups : HasItsTurn(g)]_vars

(* How far main() is from its end... *)
Stage ==
    CASE pc = "start" -> 10 [] pc = "init" -> 9 [] pc = "attach" -> 8
      [] pc = "register" -> 7 [] InLoop -> 6 [] pc = "report" -> 5
      [] pc = "shutdown" -> 4 [] pc = "destroy" -> 3 [] pc = "return" -> 2
      [] pc = "destruct" -> 1 [] OTHER -> 0

PollSteps == ConsumeMax + 3

(* ... and the current loop of its from the end of its pass: collectors to  *)
(* visit, or steps of the main thread to the next test of g_running.        *)
Work ==
    CASE pc = "loop" -> 0
      [] pc = "wait" -> PollSteps * Cardinality(Groups) + 2
      [] pc = "dispatch" -> PollSteps * Len(batch) + 1
      [] pc = "poll" -> PollSteps * (Len(batch) - 1) + (ConsumeMax - cnt) + 3
      [] OTHER -> Cardinality(todo)

Nearer == Stage' < Stage \/ (Stage' = Stage /\ 0 <= Work' /\ Work' < Work)

(* Whatever traffic, signals and failures there are, every step of the main *)
(* thread brings main() nearer to its return, by a measure that no other    *)
(* step can raise, except where run_loop() starts another pass because      *)
(* g_running is set; and in the loop nothing sets it again.  So a pass is   *)
(* at most PollSteps * |Groups| + 3 steps long and a signal during it makes *)
(* it the last.                                                             *)
RunsDown ==
    [][/\ \/ Nearer
          \/ pc = "loop" /\ g_running = 1 /\ pc' = "wait"
          \/ UNCHANGED <<pc, todo, batch, cnt>>
       /\ InLoop => g_running' <= g_running]_vars

-----------------------------------------------------------------------------
(* What the comments say and the code does not do *)

(* signal_handler()'s comment: on Ctrl+C or kill "g_running is set to 0 and *)
(* the main loop in run_loop() sees it and exits", whenever it arrives.     *)
SignalStops == (signals > 0) ~> (pc = "exit")

(* flush_report()'s comment: "called periodically by CollectorManager in    *)
(* the event loop": a loop that keeps running reports.                      *)
LoopReports == InLoop ~> (reports > 0 \/ ~InLoop)
=============================================================================
