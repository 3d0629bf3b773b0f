# A TLA+ model of the vsomeip eBPF collector

The repository builds `vsomeip_collector`, a program that attaches uprobes to the
functions of vsomeip that send and receive SOME/IP messages, receives one record per hit
through BPF ring buffers, prints each as an event and derives counters, request/answer
latencies and timeouts from them. This directory models the parts of it that keep state or
run concurrently, checks them with TLC and proves the safety properties of the statistics
engine, the event ring, the routing pipeline, a collector and the whole program with TLAPS.

## 1. Inventory

| Part | State | Operations | Interacts with |
|---|---|---|---|
| BPF programs (`src/bpf`) | ring records under construction | `submit_routing`, `submit_app`, `submit_sd`, one program per hook | run in the threads of the monitored processes; write one ring per module |
| Ring buffer path (kernel, `lib/libbpf/src/ringbuf.c`) | producer and consumer position, busy bits, epoll ready list | reserve, commit, wake-up, `ringbuf_process_ring` | BPF programs on one side, the event loop on the other |
| `Collector` | `obj_`, `links_`, `ringbuf_`, `ringbuf_fd_`, `attached_`, `event_ctx_` | `init`, `attach`, `detach`, `destroy`, `poll`, `ringbuf_callback` | libbpf; the handler of its module |
| `CollectorManager` and `main` | `collectors_`, `epoll_fd_`, `g_running` | construct, `init_all`, `attach_all`, `run_loop`, `shutdown`, destruct, the signal handler | owns the collectors; epoll; signals |
| Handlers | none | one function per module, `on_latency` for routing | called by `ringbuf_callback`; call `StatsCollector` and the writer |
| `StatsCollector` | hook counters, module counters, `pending_`, `latency_`, `last_report_ns_` | `process_event`, `record_pending`, `try_match`, `flush_report`, `evict_expired` | called on the event loop's thread only; writes lines |
| Build scripts (`scripts/`, `config/hooks.json`) | the tables `hook_cfgs[]`, `hook_names[]`, `hook_count` and the `HOOK_*` numbers | `export_symbol.sh`, `gen_hook_config.sh` | compiled into the BPF programs (numbers) and into `Collector` (tables) |
| Option parsing | the lists of `--enable` and `--disable` | `main` | chooses the collectors |
| Log writers, vendored libbpf/bpftool/vmlinux | | | not modelled, section 8 |

What is hard in it: the ring is shared without locks between any number of threads and one
consumer, and the wake-up is sent only to a consumer that has caught up; records are
ordered by reservation and not by timestamp; every libbpf and epoll call of the set-up may
fail and each failure leaves another mixture of handles to be released; signals arrive
between any two steps; the statistics are kept in several places that are reset at
different times; a record is not cleared when it is reserved, so fields that a probe does
not write hold what was there before; the tables a collector walks come from a build that
leaves out the symbols it did not find. `PROJECT.json` lists these hazards at their lines.

What makes each part correct:

* ring path: whole records, each once, in order; nothing lost but what found the ring full;
  no sleeping consumer in front of a complete record;
* collector: handles and kernel resources in step, whatever failed;
* manager: no pointer in epoll to a collector that cannot be polled, everything released at
  exit, a signal ends the loop under any load, no ring starves;
* statistics: every latency is the true distance of a request and an answer of the same
  call, every timeout is real, nothing is lost or counted twice;
* pipeline: what the ring feeds to the statistics is what they are specified for, and only
  headers that were read make requests and answers;
* hook tables: a complete table is walked safely and to its end; names are right whatever is
  missing.

## 2. Modules

| Module | Models |
|---|---|
| `Hooks` | the twelve hooks, their modules, directions and return probes, the program names |
| `HookTable` | the tables the build derives from `hooks.json` and the exported symbols |
| `LatencyReport` | the arithmetic of the latency summary, as operators |
| `StatsCollector` | `StatsCollector` and the three handlers |
| `RoutingPipeline` | the routing probes, their ring and `StatsCollector`, composed |
| `LossyFifo` | abstract specification: what an event ring promises |
| `EventRing` | the ring, its producers, epoll and the libbpf consumer; implements `LossyFifo` |
| `Collector` | one collector: its methods as operators on a record |
| `CollectorLife` | one collector, with its hook table, under an arbitrary caller, which may call `init` on an open object too |
| `CollectorManager` | `main` and the manager driving several collectors; uses `Collector` |
| `Induction` | lemmas: induction and recursion over naturals and finite sets, for the proofs |
| `*Proofs` | the theorems of the module they are named after; `CollectorProofs` holds the lemmas about the methods that `CollectorLifeProofs` and `CollectorManagerProofs` share |
| `MC*` | instances for TLC, with their `.cfg` files |

Each module also holds a few operators marked "Faulty variant". They are not used by the
specification: each stands for a plausible mistake in the code, and replacing the definition
next to it by the variant makes the property named in `PROJECT.json` fail. The decisions
such mistakes touch are operators of their own for that reason (`Inserted`, `Busy`,
`LimitReached`, `StillListed`, `AfterRefusal`...).

### Correspondence

*StatsCollector.* The variables are the members of the class; `clock` is CLOCK_MONOTONIC,
which `bpf_ktime_get_ns` reads too. A handler call is one action, for the loop is single
threaded: `RoutingRequest`, `RoutingAnswer` and `RoutingOther` are the three ways through
`on_latency`, `AppEvent` and `SdEvent` the handlers without it. An event carries any
timestamp up to the current time, because the program reads the clock after it has
reserved its place in the ring. The key is packed as in the code, with the field width as
a constant, and differences are taken modulo the word size. `flush_report` and
`evict_expired` may run at any time: the comments say they are called periodically; in
`main` they are called once, which is one of the behaviours. `flush_report` writes a line for
the modules with traffic and resets the counters of those (`Active`, `AfterReport`). The sum
of the samples is a natural number: each is below 60 s, so the code's `uint64_t` would wrap
after some 3 * 10^8 samples of that length in one period. The lines a step writes are in `out`; `sent`, `tally`, `seen`, `reported` and `events` are history.
`sent` is what the records said; what the network carried is the subject of
`RoutingPipeline`.

*RoutingPipeline.* The ring is the sequence of the records reserved and not yet consumed,
which is what `EventRing` shows it to be; instead a record has its contents. `Reserve`
appends one, `FillRead`, `FillUnread` and `FillRet` complete it (any reserved record, in any
order, with the time of completion), `Deliver` takes the oldest complete one and is
the handler's action of `StatsCollector` with the record's fields as arguments. A header
that is not written holds zeros on the first lap of the ring, whose pages the kernel clears,
and any header later: a routing record takes 72 bytes with its ring header, of which 256 KiB
is no multiple, so the old bytes under the header fields are any bytes of older records.
`calls` is what the probed functions were called with, `unread` the headers that entry
probes submitted without having read them.

*EventRing.* Positions count records, all records of a ring being of one size. The steps of
a program are reserve (or fail), fill, clear the busy bit, test whether to wake; those of
the consumer are the loads and stores of `ringbuf_process_ring`, one action each. The kernel
half is external: reservation under its spin lock is one step, the wake-up is queued as
irq_work, epoll is level-triggered and polls a ring when it is registered and whenever it is
on the ready list. Memory is sequentially consistent; libbpf and the kernel use acquire and
release at the points where the actions are cut.

*Collector.* The record holds the C++ handles and, as `loaded`, `probes` and `consumers`,
what exists in the kernel, so that a leak or a double release shows as a difference. The
outcomes of the libbpf calls are parameters; a caller quantifies over them.

*HookTable, CollectorLife.* A build is the set of functions for which the table of offsets
has a row: any subset of those `hooks.json` names, or none if `c++filt` is missing. Return
hooks share the function of their entry hook, so the two are in the table together or not at
all. `hook_cfgs[]` is a subsequence of the hooks; `hook_names[]`, `hook_count` and the
`HOOK_*` numbers are of the whole list.
`attach` walks `hook_count` entries; where the table is shorter it reads past `hook_cfgs[]`,
which is undefined, and every outcome of it is a behaviour: what lies there may be taken for an
entry that names a program, which gives the program one more link (`Strays`, any programs of
the object, one per entry), it may name nothing and be skipped, or the lookup may crash
(`AttachCrashes`: the process is gone, `alive` is false and the kernel takes back what it had).
The calls of `init` are not restricted: on a collector that has its object it overwrites
`obj_`, and `abandoned` counts the objects lost that way; if the new `init` fails, the links
of the lost object stay until `detach` or `destroy`. `destroyed` says that `destroy` was called
and `init` not since. `event` is
the last event handed to a handler, with the hook that fired and the name it was given.

*CollectorManager.* `pc` and `todo` are the main thread's place in `main`, `init_all`,
`attach_all`, `run_loop` and `shutdown`; loops over collectors take one collector per step, in
the order of `file_groups[]` (`IsNext`), so that signals and traffic fall between.
`collectors_` is the set of the groups selected by `--enable` and `--disable`. A ring is
reduced to whether its first record is complete; `epoll_wait` may also list one whose first
record is only reserved, and its `poll` then reads nothing. The limit of 16 events of one
`epoll_wait` is left out, for there are at most three groups. `main` calls `init` once per
collector. The manager's collectors have complete tables; an incomplete one is `CollectorLife`'s
subject. `stop()` has the effect of the signal handler.
`Programs` is the set of names the lookup can find; all runs but one take the hook names
themselves, as the comment in `attach()` intends, because with the names in the BPF sources
nothing can be attached (section 5).

## 3. Runs that pass

| Run | States | Shows |
|---|---|---|
| `statistics` | 286 k | pending entries, latency lines and timeout lines are genuine; no entry lost; first timestamp kept; reports neither drop nor repeat events; hook and module counters agree |
| `latency_report` | 19 k | in every latency line the indexed elements are the percentiles by counting, and the summary is ordered |
| `event_ring` | 204 k | no lost wake-up, disjoint slots, nothing left at rest, a bounded call of consume, refinement of `LossyFifo`, delivery of every accepted record |
| `collector_life` | 67 k | under any call sequence, any failure and any table: handles own the kernel resources but for objects that `init` overwrote; nothing is left after `destroy`; names are right; a complete table is attached whole and without a crash |
| `manager` | 14 k | resources, epoll pointers, clean exit, a measure that runs down to the exit, a turn for every ring in each pass, termination after a signal, no starvation |
| `pipeline` | 236 k | refinement of `StatsCollector`; pending entries and latencies stem from messages unless a header was unreadable |

Bounds. `statistics` has two calls that differ in two fields with an answer each, five hooks
of all three modules, entry and return, three events and a clock of four ticks with the
expiry at 2 and the sanity limit at 3, so that an answer can be early (wrapped difference,
16 values of a word), in time, late, and after eviction, and a request can be repeated
before and after all of these. `latency_report` is a bench over the
actions of `StatsCollector` that starts in the middle of a life, with 0, 1, 98 or 100 equal
samples waiting, because up to 100 samples p99 is the last element; four calls with four
latencies follow in any order, with reports between. `event_ring` has two threads with three
hits each on two slots: every slot is reused, the ring is full, commits happen out of order,
and a call of consume ends at its limit. `collector_life` has the three hooks of `app`, two
of which share a function, every set of missing symbols and
four calls of `init` and `attach` together, the other methods being unlimited; deadlock is not
checked there, because the process may crash. `manager`
has two modules, of two hooks and one, and two signals. `pipeline` has one call, an entry, a
return and a receiving probe, three records in a ring of two, so that the third is of the
second lap, and a clock of one tick, which puts timestamps in and out of order; `FeedsStats`
checks the step relation of `StatsCollector` on every transition.

## 4. Fairness

`EventRing`: a program that has reserved a record runs to its end (BPF programs cannot
block), queued irq_work is run, the event loop is scheduled. No thread has to hit a probe.
`CollectorManager`: the main thread is scheduled; `epoll_wait` has a timeout of 1 s, so it
always returns. Nothing is assumed of signals, traffic or errors. That a signal in the loop
ends the program rests on the record limit of one `ring_buffer__consume` call (INT_MAX):
without the limit a ring that is never empty would keep `poll` from returning.

## 5. Where comments and code disagree

Six runs check what a comment says and end in a violation; `PROJECT.json` quotes the lines.

* `stale_header`: an entry probe without readable data submits its record with the header
  fields unwritten. Zeros read as a REQUEST, older bytes as anything: `pending_` gets an
  entry for a request that nobody sent, and a later answer or eviction reports it. The run
  `pipeline` shows that this is the only way: return probes, which never have a header, do
  no harm.
* `missing_offset`: a function without an offset is left out of `hook_cfgs[]` but counted in
  `hook_count`, so `attach` reads past the array. `collector_life` allows all that may follow; in
  it, only complete tables are claimed to work.
* `one_way`: REQUEST_NO_RETURN is recorded as pending, so each becomes a timeout.
* `early_signal`: a signal before `run_loop` sets `g_running = 1` is forgotten.
* `periodic_report`: the event loop calls neither `flush_report` nor `evict_expired`, so
  reports come only at exit and `pending_` and `latency_` grow until then.
* `shipped_names`: `attach` looks programs up by hook name; libbpf knows them by the name of
  the C function (`hook_...`), so none is found and the collector is attached without probes.

Seen and not checked: `flush_report` resets the counters of each hook without ever writing
them, although its comment lists them; an `attach` that failed at its ring buffer, called
again, makes a second link per hook, and `init` called on an open object loses that object
(`main` does neither; `HandlesOwnKernel` says that nothing else is lost); the signal handler calls `fprintf`,
which is not async-signal-safe; `-o both` writes to the terminal only; the comment in `main`
calls the match of `--enable` a prefix match and it is a substring search; the first
timestamp kept for a key is the first in ring order, which need not be the earliest.

## 6. Proofs

Every theorem holds for all values of the constants that satisfy the `ASSUME`s, which TLC
evaluates in each run.

| Module | Theorem | Property |
|---|---|---|
| `StatsCollectorProofs` | `TypeCorrect` | `TypeOK` |
| | `PendingIsGenuine` | `PendingGenuine` |
| | `LatencyGenuine` | `LatencyLinesGenuine` |
| | `TimeoutGenuine` | `TimeoutsReal` |
| | `PendingBalance` | `PendingConservation` |
| | `CountsBalance` | `CountsConserved` |
| | `FirstTimestampStands` | `FirstKept` |
| | `LedgersBalance` | `LedgersAgree` |
| | `PercentilesAreCounted` | `PercentilesByCount` |
| | `SummaryAddsUp` | `SummaryConsistent` |
| `RoutingPipelineProofs` | `PipelineFeedsStats` | `FeedsStats` (refinement) |
| | `PendingIsReal` | `PendingRealUnlessUnread` |
| | `LatencyIsReal` | `LatencyRealUnlessUnread` |
| | `PipelineLatencyGenuine` | `LatencyLinesGenuine` |
| `EventRingProofs` | `RingTypeCorrect` | `TypeOK` |
| | `WakeupNotLost` | `NoLostWakeup` |
| | `SlotsNeverShared` | `SlotsDisjoint` |
| | `RingIsLossyFifo` | `IsLossyFifo` (refinement) |
| | `RestLeavesNothing` | `NothingLeftBehind` |
| | `ConsumeRunsDown` | `CallRunsDown` |
| `CollectorLifeProofs` | `NothingElseLeaked` | `HandlesOwnKernel` |
| | `FlagsAgree` | `AttachedIsPollable` |
| | `DestroyReleases` | `NoObjectNoProbes` |
| | `NamesRight` | `EventsNamed` |
| | `CompleteTableWorks` | `CompleteTableAttached` |
| `CollectorManagerProofs` | `ManagerTypeCorrect` | `TypeOK` |
| | `NothingLeakedByProgram` | `AllOwned` |
| | `ExitsClean` | `CleanExit` |
| | `EpollNeverStale` | `NoStaleCollector` |
| | `AttachedIsWatched` | `WatchedUnlessRefused` |
| | `MainRunsDown` | `RunsDown` |
| | `EveryRingHasItsTurn` | `NoRingSkipped` |

*Statistics.* Assumptions: the probes are hooks, the messages have fields within their width
(`MessagesAssumption`), the conversion units are positive, and the clock stays one timeout
and one sanity limit below the word size (`TimeAssumption`): with the real constants, the
machine has been up for less than 584 years. Neither line property is inductive: a latency
line is right because the entry it was made from is, so the invariant is `Genuine` =
`PendingGenuine` and the two line properties, over `TypeOK`. Three arithmetic lemmas carry
it: `PackInjective` (headers with the same key agree in all four fields, from
`RadixInjective`), `PackInKeys`, and `SubInOrder` (a wrapped difference is below the sanity
limit only if the timestamps are in order, which is where `TimeAssumption` is used).
`PendingBalance` needs the pending table to be finite (`PendingFinite`), so that erasing a
set of keys subtracts its cardinality. `CountsBalance` needs that the lines of a report, read
back, give exactly the counters (`ReportExact`) and that the counters of the modules without a
line are zero, so that the reset of the others leaves none (`ReportResets`).
`FirstTimestampStands` uses type correctness and that an entry is matched by its own key. `LedgersAgree` is inductive over `TypeOK` once the sums are understood: `TotalsFold`
says that `Totals` is a sum taken out of the set one hook at a time, whence `TotalsZero` (the
reset) and `TotalsBump` (one more event adds one to the sum if its hook is in the set, and
nothing otherwise); the hooks of a module in one direction are disjoint from those of the
other and of the other modules, so exactly one counter of each ledger moves.

*Latency summary.* `LatencyLineWritten`: a latency line is written by `flush_report` only and
is `LatencyLine` of the samples. What such a line says is in `LatencyReportProofs`, for every
non-empty sequence of naturals. `SortSorts`: the sorted samples are a permutation of the
samples in ascending order. `Sorted` puts every sample at its rank, the number of samples
below it and of equal ones up to it; of two samples the one that comes first has the lower
rank (`RankOrders`, by comparing the sets counted), so the ranks are an injection of 1..n
into itself and every place is taken. `RankIsPercentile`: of an ordered sequence of n elements
the one with index n * p / 100 has at most p % of them below it and more than p % not above
it, by counting the indices on either side. `SumBounds`: the sum lies between n times the
least and n times the greatest sample. Monotonicity of the division does the rest.

*Induction.* The provers cannot instantiate an induction theorem that has an operator as its
parameter, so `Induction` states the principle with a set in place of the predicate
(`CountUp`, and `TakeOut` for finite sets), from the well-foundedness of the naturals. A
recursive function is a `CHOOSE` of a function that satisfies its equation; `LoopExists` and
`SumExists` show that there is one, for a loop over the indices of a sequence and for a fold
over the subsets of a finite set. The operators proved about in this way, `Sum` and
`HookCfgs`, are written as such loops, and `Totals` with the fold of the community modules.

*Pipeline.* The refinement needs that the records in the ring have headers of `Messages` and
timestamps not after the clock (`RingOK`); then `Deliver` is a step of `StatsCollector` and
every other step of the programs a stutter. The two properties about reality need, besides,
that what a completed record of an entry probe says is in `calls` or `unread` (`Traced`), so
that it is true of the entry or the line made from it. `PipelineLatencyGenuine` follows from
the refinement and `LatencyGenuine` alone.

*Ring.* `RingInv` consists of: `WindowOK`, the two positions are at most `Capacity` apart;
`WritersOK`, a thread that writes holds a position of that window for its own hit, marked
busy, and no other thread holds it; `ContentsOK`, what is not busy in the window is the
record accepted there; `ConsumerOK`, where the consumer's local copies stand relative to the
shared positions; `ListedOK`; and `NoLostWakeup` itself. `SlotsApart` (positions less than a
lap apart are in different slots) carries this from positions to slots. The refinement of
`LossyFifo` is on the histories: a reservation is its acceptance, a failed one its drop, and
`Callback` its delivery, which by `ContentsOK` is of the next record accepted.

A slot stands for the bytes of a record. That a ring holds a whole number of records is a
simplification (72 bytes do not divide 256 KiB), and `BytesApart` shows that the disjointness
of slots does not depend on it: in a ring of any length two records less than `Capacity`
apart share no byte. What it does change, the mixture of older bytes under an unwritten
field, is in `RoutingPipeline`.

`RestLeavesNothing` and `ConsumeRunsDown` are the safety part of `EveryRecordDelivered`. When
the programs have returned, no wake-up is queued and the loop sleeps, nothing can lie in the
ring: a complete first record contradicts `NoLostWakeup`, and a busy one would have a thread
that writes it (`BusyOK`, inductive over `RingInv`); what was delivered is a prefix of what
was accepted (`PrefixOK`). And a call of consume cannot be kept going by traffic: every step
of it lowers `StepsLeft`, five steps for each record it may still handle. For that the limit
has to be tested after every record (`LimitOK`). The limit is INT_MAX, so this is a proof that
a call ends, not that it ends soon. That the steps are taken at all is fairness, and TLC's.

*Collector.* `Kept(H, c, n)` is the type of a collector, `Pollable`, and that it owns all its
kernel resources but n objects: none of these is inductive alone, because `attach` relies on
`attached_` to know whether there is a ring to release and `destroy` on the handles to know what
the kernel holds. `CollectorProofs` has one lemma per method, for any set of hooks and any n;
`Sound` is the case n = 0 in which a collector without an object is also quiet, which is what
the manager needs. The invariant of `CollectorLife`, `LifeInv`, is `Kept` for n = `abandoned`,
with the facts that a destroyed collector has no object and that one which never lost an object
and has none is quiet. What `attach` links by entries past the end of the table goes into `links_`
like the rest (`StrayedKept`), so it is released with it. `NamesRight` needs that `HookId` is an
index of `hook_names[]`, whatever was left out of `hook_cfgs[]`. `CompleteTableWorks` needs that
the table has a row for every hook whose function has an offset, and `hook_count` rows if none
is missing (`TableHasKnown`, by induction on the generator's loop), and that `attach` links what
the table lists (`AttachLinks`); the inductive invariant `Filled` adds that no count of probes is
negative, for `attach` adds to it.

*Manager.* `ManagerInv` says that every collector is `Sound`, with at most one probe per hook
and with a context if it has a ring (`ColsOK`), that `init` and `attach` meet collectors
nobody has touched (`OnceOK`, without which a probe could be attached twice), that what is
not in `collectors_` holds nothing (`OutsideOK`), that the epoll instance exists, and names
collectors with rings, only while none is set up or destroyed (`EpollOK`), and that what is
attached is registered, refused or still to come (`WatchOK`). Each step of the main thread
has a lemma; those that call a method cite the lemma of `CollectorProofs`.

`MainRunsDown` is the part of the termination argument that is safety: the pair of `Stage`
(where in `main`) and `Work` (what is left of the current loop) is lowered by every step of
the main thread and by nothing raised, except where `LoopTest` finds `g_running` set. In the
loop, `Work` bounds a pass: a ring is listed at most once (`ListingShort`) and polled for at
most `ConsumeMax` records, so traffic cannot prolong it. With the fairness of section 4 and
the absence of deadlock this is why `SignalInLoopStops` holds for any number of groups; that
last inference, and the other liveness properties, are TLC's.

`EveryRingHasItsTurn` is the safety part of `ReadyIsPolled`. A listing is an injection of
1..n into a set of n rings, hence leaves out none of them (`ListingAll`); the batch is empty
between two passes (`BatchOK`); a `poll` takes records from its own ring only and takes
itself off the batch and no other (`OnlyHeadLeaves`).

Only model-checked: the liveness properties `EveryRecordDelivered`, `SignalInLoopStops` and
`ReadyIsPolled`, which rest on fairness and are out of the prover's reach. Every invariant,
action property and refinement that a passing run checks is also a theorem.

## 7. Plan

1. `StatsCollector`, `LatencyReport` with runs and proofs: done.
2. `LossyFifo`, `EventRing`, `Collector`, `CollectorLife`, `CollectorManager` with runs: done.
3. `RoutingPipeline`, the composition in which unread headers are leftovers: done.
4. `HookTable`, the generated tables, under `CollectorLife`: done.
5. Proofs for the ring, the pipeline and the manager: done.
6. Induction over data; with it the ledgers, the latency summary and the hook table as
   theorems: done.
7. The safety part of the liveness properties: the measures `RunsDown` and `CallRunsDown`,
   `NothingLeftBehind` and `NoRingSkipped`: done.

Left: the memory of `EventRing` in bytes, for rings that hold no whole number of records.

## 8. Not modelled

* The log writers: formatting and stdio. Their only state is the `FILE` pointer of
  `FileWriter`, which is opened again for every line while `fopen` fails; no decision of the
  rest depends on it.
* Option parsing but for the choice of collectors, and the banner: input and output only. The
  interval set by `-s` is stored and never read.
* The parsing of `readelf` output in `export_symbol.sh` and the embedding of the object files
  (`embed_bpf.sh`): text processing at build time.
* The kernel below the calls named above.
* Vendored code: libbpf but for the ring consumer and the lookup by name, bpftool, and the
  `vmlinux.h` headers. These are more than 99 % of the lines in the repository; the program's
  own code is a few thousand lines including comments, and what of it keeps state is modelled.
