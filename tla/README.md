# Iliria in TLA+

Iliria runs a mixture-of-experts language model whose experts do not fit in memory: a C
engine (`c/glm.c`) streams them from NVMe and keeps a cache of them, and a Python gateway
(`c/openai_server.py`) serves it over an OpenAI-compatible HTTP API. Around them stand the
scripts that measure it (`c/scripts`, `c/tools`). Paths below are relative to `src/`.

This directory holds TLA+ models of the parts of that program whose correctness rests on
the order in which things happen, the TLC runs that check them on small instances, and
TLAPS proofs about ten of them.

    FifoLease            what the scheduler promises              (abstract)
    Scheduler            GenerationScheduler                      implements FifoLease
    SchedulerProofs
    Gateway              handlers, engine pipes, keep-alive       uses FifoLease
    GatewayProofs
    PipePool             the expert-load pipeline of the engine
    PipePoolProofs
    ExpertCache          LRU, pins, pilot thread, repin           its misses are PipePool's loads
    ExpertCacheProofs
    PlainDecode          what a conversation promises             (abstract)
    SpecDecode           self-speculative decoding in its turns   implements PlainDecode
    SpecDecodeProofs
    KvStore              one KV slot, its serve loop and its file
    KvStoreProofs
    TimingLock           the lock of the timing runs
    Watchdog             a campaign, its trials and its watchdog  holds TimingLock's lock
    CampaignProofs       of TimingLock and of Watchdog
    CachePolicies        the replays of the cache simulator
    WaterFill            its layer-capacity study                 extends CachePolicies
    CachePoliciesProofs  of both
    MC*                  model values for the runs

Run `tlc -config X.cfg MCY` for a run, `tlapm M.tla` for the proofs.
`PROJECT.json` lists the runs, maps each definition to the lines it models, gives for each
property a mutation of the model that breaks it, and lists the hazards the properties are for.
Definitions commented "Mutant of ..." are those mutations; no specification uses them.

## 1. Inventory

| Part | State | Operations | What is hard about it | Here |
|---|---|---|---|---|
| Generation scheduler, `c/openai_server.py` 67–145 | deque of tickets, `active`, `closed`, counters | `admit`, release, `close`, `snapshot` | handler threads, deadlines, disconnects and shutdown race for one engine | **Scheduler**, proved |
| HTTP gateway and engine protocol, `c/openai_server.py` 148–207, 525–602, 755–948 | one pair of pipes, slot router, per response: `connected`, `ka_lock`, `ka_stop` | handle a request, refuse it or write its frame, read a turn, stream, keep alive, answer errors | all requests share the pipes; two threads share each socket; engine and client may go away | **Gateway**, proved |
| Expert-load pipeline (PIPE), `c/glm.c` 1900–2019, 2560–2790 | `cur`, `njobs`, `layer`, `eids[]`, `ready[]`, slabs `ws[]` | `pipe_init`, `pipe_dispatch`, `pipe_worker`, `pipe_wait`, promotion | lock-free; batch state is rewritten under stragglers; threads may fail to start | **PipePool**, proved |
| Expert cache, pins, pilot prefetch, repin, `c/glm.c` 754–771, 2560–3014, 3766–3818 | LRU and pinned slots per layer, `g_cur_moe_layer`, request ring | look up, promote, prefetch, layer barrier, repin | the pilot thread loads, outside its mutex, into a cache that the main thread uses | **ExpertCache**, proved |
| Speculative decoding, `c/glm.c` 3276–3355 and the turns around it | `len`, `hist`, KV rows, draft, `carry_ban`, `tail` | draft, verify, accept a prefix, roll back, `:more` | one counter keeps rows, history and display together through every partial acceptance | **SpecDecode**, proved |
| KV cache, serve loop, `.ili_kv`, `c/glm.c` 3057–3069, 3820–4168 | history, KV rows, `disk_nrec`, the file | start, prompt, line, `:more`, reset, append, truncate, load | crash between two writes; counters that claim more than is on disk; restarts with other settings | **KvStore** (one slot), proved |
| Timing lock, `c/scripts/timing_lock.sh` | lock directory, owner record, reap mutex | acquire, judge, reclaim, release, release by the watchdog | stale owners, racing reclaimers, death between any two system calls | **TimingLock**, proved |
| Campaign driver and watchdog, `c/scripts/roofline_run.sh`, `c/scripts/exp_launch.sh`, `c/tools/timing_watchdog.py` | allowlist file, sentinel file, process groups, streaks | launch, list, poll, sample, judge, clean up | signals anywhere; a sample overtaken by a cleanup; files read while being rewritten | **Watchdog**, proved |
| Cache simulator, `c/tools/variable_size_cache_oracle.py` | one cache per policy and layer, LRU stacks, miss curves | replay, Mattson distances, Belady greedies, split of capacity | off-by-ones, tie breaks and "provably identical" claims that decide which engine is built | **CachePolicies**, **WaterFill**, proved |
| History trimming, `c/openai_server.py` 310–410 | `_TrimCache` | trim, freeze, evict | "never re-computed" against a bounded cache | no, planned |
| Container formats, codecs, converters, `c/st.h`, `c/mode15_reader.*`, `c/codec_row*.h`, `c/tools/*container.py` | none | parse headers, decode rows | index arithmetic | no |
| Kernels, attention, quantised matmul, Metal and CUDA back ends | buffers | arithmetic | floating point; nothing to enumerate | no |
| Tokenizer, JSON, grammar masks | none | character-level parsing | | no |
| Rust artifact validator, `doctor.py`, `resource_plan.py`, `ili` | none | one-shot, sequential | | no |
| Other experiment drivers and reports | files | benchmark orchestration | | no |

How they interact. A handler thread of the gateway takes the scheduler's lease, chooses one
of the engine's KV slots by prompt prefix, writes a prompt frame into the engine's standard
input and reads its standard output until the END sentinel and the STAT line. The engine is
one process: its main thread runs the serve loop (KvStore), whose answers come from
`spec_decode()` (SpecDecode); each layer of each forward pass calls `moe()`, which looks its
experts up (ExpertCache) and sends the misses through the pipeline (PipePool), while the pilot thread
loads what it predicts for the next layer. The gateway's `PrefixSlotRouter` and the engine's own
prefix match both decide how many KV rows are reused: the router chooses the slot, the engine has the
last word. A timing campaign takes the timing lock, starts a watchdog and launches engines one
after the other; allowlist and sentinel are the only words that driver and watchdog exchange.

What makes each part correct:

- scheduler: one user of the engine, first come first served, bounded queue, nobody sleeps
  through their turn, nobody waits for ever behind a hung engine, nobody is admitted after close;
- gateway: every request gets its own answer whole, whatever other clients do; the pipes are
  empty between turns; no two threads write to one socket; nothing outlives its response;
- pipeline: no load under the wrong layer or of the wrong expert, no slab read before it is
  loaded or recycled while it is being loaded, no job lost, no job done twice;
- expert cache: a matmul reads complete weights of its own expert, wherever they lie; no expert is
  cached twice; promotion does not throw out what it is about to need; nobody waits for ever;
- speculative decoding: the same tokens as plain decoding, and the rows are those of what was shown;
- KV store: the rows attended to are those of the tokens claimed, through every crash and resume;
- timing lock: one owner, on record; what the dead leave does not lock out the living;
- watchdog: "clean" means clean, the campaign does not accuse itself, the lock outlasts the trials;
- simulator: policies called equal are equal, curves agree with replays, bounds are bounds.

## 2. The models and the code

### Scheduler (and FifoLease)

A thread inside `admit()` holds the condition's lock from one return of `condition.wait()` to
the next, so each pass through its loop is one action. `Admit(r)` is the arrival: refused
because closed or full, admitted at once, cancelled at once, or `Enqueue`d. A waiter sleeps
(`asleep`) until `notify_all` or the 0.25 s timer (`Wake`) and then `Evaluate`s the loop body
in the code's order: closed, head of a free engine, cancelled, timed out, wait again. `Release` is
the `finally` of the context manager, `Close` is `close()`. `Expire` (the deadline passes) and
`Disconnect` (the client leaves) are the environment. `tickets` and `joined` are history variables
that number the arrivals. `snapshot()` only reads.

`FifoLease` is what callers rely on: a set of holders (at most one), a line, an open/closed
flag. `LeaseSpec` is the refinement `holders <- Running, line <- queue, open <- ~closed`.

### Gateway

One handler thread and one connection per request. The scheduler is present as the lease it was
shown to implement, not as its code. `ChooseSlot` with `Select` is `PrefixSlotRouter.select`,
`Record` is `record`; `Refuse`, `WriteFrame`, `ReadChunk`, `ReadEnd`, `ReadEof` are `Engine.generate` and
`read_engine_turn`. `Refuse` is what `generate()` raises before it looks at the engine (lines 567-574: a NUL byte, more than 16 MiB,
a text that `encode()` cannot take); any prompt may be such a one, and for a stream its headers and its pump are on their way by then.
`EnterEvent`, `BeginEvent`, `EndEvent` are `event()`; `PumpWakes`,
`PumpBegins`, `PumpEnds`, `PumpStops` are `_keepalive`; `StopPump` to `EndDone` is the end of a
streamed answer; `Release`, `BeginJson`, `EndJson`, `HangUp` are the way out, with or without an
exception. A write has a beginning and an end, so that two threads can be caught in it.

Data are abstracted: a chunk of an answer and its END/STAT are records tagged with their request; a
prompt is a short sequence, since the router looks at prefixes only. `gone` stands for a client that
closed its connection or stopped reading. Time is abstracted: the pump may find the line quiet
whenever it looks. One assumption is made of it: `join(timeout=2)` expires only while the pump is
blocked in a write, that is, a thread that can run gets the processor within two seconds.
The engine is `run_serve` (`glm.c:4041-4164`) as seen from the pipes: `TakeFrame`, `Speak` (never for an empty prompt, which gets
END and STAT only), `EndTurn`. Only its death, at any moment, is external to the code.

### PipePool

One action per atomic access of `pipe_dispatch` (njobs, layer, each eid, each ready flag, cur,
broadcast) and of `pipe_worker` (test under the mutex, load of the cursor, test of the bound, CAS,
layer, eid, load, flag). Main's side of `moe()` is `WaitReady`, `Matmul` for each expert and `Promote`
for the LRU swap. `PipeInit` starts any subset of the threads, since `pthread_create` may fail; with
none of them, `LoadBlocking` is the original path.

The accesses are sequentially consistent in the model. The code uses weaker orders, so the model has
some of its executions and perhaps not all: what holds here shows that the protocol is right, not that
the memory orders suffice; a violation found here is an execution of the code. `plan` is the number of
misses of each block: it is chosen at the start, since the blocks of a forward pass are whatever
the router of the model picked. Contents of a slab are symbolic: `Weights(layer, job)`, in progress, or
torn by two loads.

### ExpertCache

The main thread's way through a pass: `Forward`, then for each layer `Predict` (the hints of
`pilot_prefetch`), and for a sparse one `EnterMoe` (the barrier at the top of `moe()`, which sets
`g_cur_moe_layer` and waits while the pilot is loading into that layer, and the routing), `Resolve` (look-up and
LRU stamps of a block), `LoadMisses` (one step here: its inside is PipePool), `Matmul`, `Promote`. The pilot
drops what is useless, and otherwise takes a slot under the mutex and hides it (`PilotTakes`), loads outside the mutex
(`PilotLoads` or `PilotFails`) and publishes under the mutex (`PilotPublishes`). `RepinStarts` and `RepinEnds` replace a pin between
turns: `expert_load()` writes into the pinned slot without the pilot's mutex, so between the two the slot has its old name and nobody's weights,
and the pilot looks pins up in that state; a load that fails ends the program. `Mtp` is the visit of the extra layer, which only moves the barrier.

The LRU clock is the order that it induces on the slots; weights are the name of an expert, or `Torn`. Which expert
is routed, predicted, hot or cold is left open, so every outcome of the router, of the usage history and of the heat ranking
is included. A re-pin and the pilot may leave an expert both pinned and cached: look-up prefers the pin, so this wastes
a slot and nothing else. Not modelled: the usage history and its file, hints to the
operating system without a load, pins in GPU memory.

### SpecDecode and PlainDecode

`PlainDecode` is the promise: a conversation is shown token by token, each chosen once by the
model after exactly what was shown before it. `choice` stands for the model: a map
from contexts to what the model may still choose there, narrowed when somebody looks. It is fixed for greedy decoding and
drawn anew for each answer when sampling.

`SpecDecode` is `spec_decode()`: `Pick` (from the logits at hand), `Guess` (the draft, its truncation to
what may be shown and what fits, and the pass over the batch), `Accept`/`Reject` for each guess, `Advance` (`len` moves,
rows of rejected guesses stay behind it, stale), `Finish` (the tail). `Line`, `More` and `Reset` are
the turns. A KV row is the sequence of tokens it was computed from: a stale row that is attended to shows up in the rows after it.
Guesses are arbitrary tokens, so the grammar, the MTP head and the n-gram matcher are all included, whatever they propose and
however long (the reserves bound the length). Rejection sampling keeps its control: the guess is excluded (`carry_ban`) from the
next pick. Its probabilities are not modelled. The MTP head's own rows only influence the quality of
guesses. The cap on `max_t` never binds, given the cap on `n_new` in `Room`.

The refinement maps `shown` and `choice` to themselves and `left` to the remaining budget. Note `Line`: an
interactive line after an answer that NGEN cut short is written over the last token shown (`glm.c:4093`), so
`shown` drops that token. The promise therefore lets a line say what the conversation is from then on.

### KvStore

One slot of `run_serve`. `Prompt`, `Line`, `More`, `Reset` are the four kinds of turn; `Answer` forwards
what is missing and appends what `spec_decode` generates, cut by NGEN, EOS or the context: the behaviour that
SpecDecode examines in detail. An empty prompt drops the history and truncates the file, and is no turn otherwise; an empty line does nothing. Saving is broken up where a process can be killed: header, each record, flush, counter.
A KV row is the sequence of tokens it was computed from, so that a row of another history is visible.
`Start` loads the file under any of the settings given as CONSTANTS (CTX, record layout). A crash is a
killed process: what was written to the kernel stays. The order in which a disk persists blocks
after a power loss is not modelled. Not modelled: several slots at once, the MTP window, the migration of
files with the old name.

### TimingLock

One action per system call that another process can see or be seen by: `mkdir`, the look at `-d`, the two reads of
`meta.json` (pid, then start time), the two halves of `rm -rf`, write and rename of the metadata, `rmdir` of the
reap mutex. A driver calls acquire once, holds, releases, or dies anywhere (`Crash`); `MetaFails` is a failing write.
`DogLook`, `DogFiles`, `DogDir` are `timing_lock_release_attempt`, called by a watchdog for a driver that was killed while
holding. `rm -rf` empties the directory and then removes it if it is still empty. A lock released between
`mkdir` (line 209) and `! -d` (line 217) reads as a hard error and not as a free lock: `LookAgain` has it.

Time: `AgeLock` and `AgeReap` let a grace pass unless a live process is at the work the grace is for, since the
script's constants assume that a live acquirer writes its metadata within 5 s and a live reclaimer finishes
within 30 s. A recycled pid is told apart by its start time, as in the script. `crossed` records that a removal fell into
another process's judgement; `alone` is the driver that started on a quiet, reclaimable lock.

### Watchdog

Two processes and their trials. The driver: `NextTrial`, `Launch` (the fork), `Own` (`CURRENT_EXP_PGID`),
`Allow` (the allowlist file), `TrialOver`, `Disallow`, `Disown`, `PhaseEnds`, `AbortPhase`, and the cleanup
`StopDog`, `DogGone`, `Cancel`, `ReleaseLock`, `Report`. `Signal` may come anywhere, a second one cuts the EXIT trap
short, `Kill` is SIGKILL. The watchdog's loop is `Top`, `ReadAllowlist`, `ReadProcesses`, `ReadGauges`, `JudgeSample`,
`WriteSentinel`, `WakeUp`, each a step of its own, and it may die. Its signal handler only sets a flag,
so a sample in progress is finished. A trial's process group may outlive its leader (`left`).

What `ps` shows of the rest of the machine is open; what it shows of trials is what there is. Lengths of sleeps, phases and
trials are open. The lock is one flag: its protocol is TimingLock. `inRow`, `dirty`, `settled`, `excuse` and `astray` are history
variables, updated when the machine is looked at and not when the watchdog draws its conclusions: that is what the
properties compare. Not modelled: `--calibrate`, the terminate mode, the telemetry loop, the quiesce gate, `--mock`.

### CachePolicies and WaterFill

`variable_size_cache_oracle.py` replays each layer's stream of expert requests once per policy; here `Request` hands one
request to all policies, which share nothing. The order of a dict or OrderedDict is a stamp per expert. A loop that evicts one victim after
another until the newcomer fits is written in closed form (`Staying`: the victims are a prefix of the policy's order, as
short as possible). `Gds` has the code's heap instead: a hit pushes a new entry and leaves the old one in the heap, stale; an eviction pops entries in the order of H and sequence number,
drops those that are not `Live` and evicts for those that are, until the newcomer fits (`Popped`, `Victims`), and the last victim's H becomes the level. `Mattson` is the stack of the one-pass algorithm, `SlotLru` the replay
of `simulate_lru` at each capacity that its curve is compared to.

`WaterFill` goes on where the replay ends: `Curve` from the distances, `PlanLayer` the DP, `SpendLayer` the walk back
through `choice`, `FinishPlan` the assertion that the whole total was spent. It is for equal sizes, as is the study, so bytes are misses times
one size.

## 3. Runs

| Run | Instance | Shows | States |
|---|---|---|---|
| `scheduler` | 4 requests, queue of 2 | FIFO, wake-ups, counters, nobody waits for ever, refinement of FifoLease | 466 448 |
| `gateway` | a streamed and a plain request, 2 slots, 2 chunks | own answer, empty pipes between turns, right slot, no interleaved writes but an error in mid-stream, [DONE] last, turns end | 283 828 |
| `pipe_pool` | 2 threads (0–2 started), blocks of 3,2,2 and of 2,1,2 | generations, contents of slabs, promotion, progress | 204 948 |
| `pipe_straggler` | 2 threads, growing blocks | *violation*, see 5 | until found |
| `expert_cache` | 2 sparse layers and a dense one, 3 experts, 2 slots and a pin, blocks of 2, ring of 1 | contents of what is multiplied, no duplicates, promotion, the barrier opens | 441 609 |
| `spec_decode` | 2 tokens and a stop token, context of 8, drafts up to 2, NGEN 3, lines of 1, 3 turns, symmetric | rows match the display, refinement of PlainDecode | 1 499 690 |
| `kv_resume` | 3 turns, 2 tokens, context of 5, 2 crashes, 1 failed append, symmetric | rows match the history, skipped records are there | 842 638 |
| `kv_refused` | 2 turns, contexts of 5 and 7, two record layouts, 2 crashes | *violation*, see 5 | until found |
| `timing_lock` | 4 drivers, symmetric; lock initially free, stale or half made | one owner, on record; a lone driver gets the lock | 335 868 |
| `timing_lock_race` | 3 drivers, symmetric | *violation*, see 5 | until found |
| `watchdog` | 2 trials, 2 strangers, confirmation in 2 samples | clean means clean, no false alarm, the lock outlasts trials, both processes stop | 831 540 |
| `cache_policies` | all streams of 6 requests over 4 experts of sizes 1 and 2, budgets 1, 3, 4; three layers of 5, 3 and 3 requests, totals 0, 2, 5, 8, 13 | equal policies, exact curves, bounds, the best split | 151 572 |

Type invariants, `OneGeneration`, `TicketsAreWaiters`, `QueueBound`, `NoAdmissionAfterClose` and `JobTakenOnce` of Scheduler, PipePool, SpecDecode, CachePolicies
and Watchdog are in no run: they are proved for all values of the constants (section 4).

Why the bounds are enough for the cases that matter:

- Four requests on a queue of two: one runs, two wait, one is refused; a waiter can leave from the
  head or from behind while another is admitted.
- Two requests in the gateway: one can leave or fail while the other waits for the lease, and the second
  continues the first's prompt, so that the router has something to decide. Two chunks make order and
  gaps visible. Eviction among used slots needs a third request, which no run has: the proofs cover any number of requests and slots.
- Three blocks: the generation after next is the first in which a straggler of the first could
  meet reused flags. Three jobs for two threads: one thread takes a second job. The block of one job
  leaves a thread without any. The proofs cover all sizes.
- Three experts for two cache slots: the pilot and promotion evict; a visit that routes to three experts needs two blocks; a
  ring of one makes the pilot drop predictions; the pilot can be ahead, level with and behind the main thread. The proofs cover all sizes.
- Drafts of two in answers of three: all, some or none of a draft is accepted, a stop token is guessed in the middle, the budget
  cuts a draft, the context cuts an answer, a tail is left and taken up by `:more` or written over by a line. The proofs cover all sizes.
- Contexts of 5 and reserves of 2 and 1 leave room for two turns before the limit is hit, so
  that resume, truncation, refusal and overflow all occur. Two crashes: one to interrupt an append, one
  to interrupt the append after the recovery.
- Four drivers: an owner or its remains, a reclaimer, a second reclaimer kept out by the mutex, and one on the
  fast path.
- Two trials: a sample can begin in one and end in the next. Two strangers can take turns to stay below a confirmation in two samples.
- Streams of six over four experts fill a cache, evict, and ask again for what was evicted; experts are numbered by first request, and sizes vary instead.
  One of the budgets is below the larger size, one of the totals exceeds what the layers can take.

Symmetry (`kv_resume`, `spec_decode`, `timing_lock`, `timing_lock_race`) is used only where no liveness is checked; `PlainSpec` is a
safety property.

`CHECK_DEADLOCK FALSE` is set in all of them but `expert_cache` because each model stops by design: requests end, blocks are done,
turns are bounded, a driver calls acquire once, a campaign and a replay end. Main thread and pilot of `expert_cache` go on for ever, and
deadlock is checked there.

Conditional properties:

- `NoWrongGenerationUnlessGrowing`, `MatmulReadsItsExpert`, `QuietAtPromotion` are about
  plans in which no block is larger than the one before (`NeverGrowing`), because of finding 1.
- `RowsMatchHistory` and `SkippedRecordsAreThere` of KvStore are about disks that do not fail (`fails = 0`): after a failed append,
  `kv_disk_truncate` can raise the counter above the records that were written.
- `OneDriverUnlessCrossed` and `HolderIsRecorded` are about histories in which no removal crosses a judgement, because of finding 3.
- `OnlyErrorsInterleave` excepts the error that `do_POST` answers into a running stream; `CleanMeansClean` excepts a watchdog that died; `NoFalseAlarm` excepts a
  sample that straddles the launch or the end of a trial; `LockCoversTrials` excepts a trial whose group the driver could not
  name (a signal between fork and assignment) or not kill, and descendants of a leader that has exited. All four exceptions are in section 5.

`AllBlocksDone`, `RowsMatchShown`, `PlainSpec`, the properties of ExpertCache and CachePolicies are unconditional.

Fairness.

- Scheduler: weak fairness of `Wake` and `Evaluate` only. `condition.wait(min(remaining, 0.25))` returns
  after a quarter of a second at the latest, and the lock is held for a few instructions. Engine and deadlines
  are not assumed fair: `HungEngineIsSurvived` adds fair deadlines and nothing of the engine, `LineMoves`
  adds turns that end and nothing of the deadlines.
- Gateway: handler and pump threads are scheduled; a write blocked on the socket fails after the 60 s timeout
  of the handler class; the engine ends each turn unless it dies. Strong fairness of `BeginEvent`: the pump
  takes `ka_lock` once in ten quiet seconds, so it cannot keep the handler out for ever.
- PipePool: threads are scheduled and reads return; strong fairness of `CasWins`, since a
  `compare_exchange_weak` that is retried on an unchanged word does succeed.
- ExpertCache: weak fairness of `Compute` and of `Pilot`: both threads run, a read returns with data or with an error. Nobody
  has to start another pass.
- Watchdog: weak fairness of `CleanupStep` and of `WatchStep`: each command of the watchdog has a timeout of 5 s, and
  `exp_launch_cancel` is a bounded loop. Nothing is assumed of trials, signals or phases.

## 4. Proofs

Everything listed is proved by TLAPS for all values of the constants.

**SchedulerProofs**, from `SchedulerAssumption` (a finite set of requests, `MaxQueue \in Nat`). `Inductive`
is the conjunction of the safety invariants with two auxiliary ones. `TicketsOrdered` says that
tickets in the queue and in the engine carry numbers already issued: without it a new ticket could not be
known to be younger than all others, and `NoOvertaking` would not survive `Enqueue`. `AsleepWait` says
that only waiters sleep: without it, a thread that leaves and a `notify_all` could not be related in
`NoLostWakeup`. `RemoveAtFacts` describes what removing the i-th element does to a sequence, `QueueShrinks` carries the
invariants across any such removal; one lemma per kind of step follows, then `SpecTypeOK`, `SpecOneGeneration`,
`SpecTicketsAreWaiters`, `SpecQueueBound`, `SpecNoOvertaking`, `SpecNoLostWakeup`, the action property
`SpecNoAdmissionAfterClose`, and the refinement `SpecImplementsLease`. `SpecConservation` (no ticket is lost between the counters of `snapshot()`, the queue and those turned away by `close()`) has a
layer of its own: `Numbered` says who has a ticket, so that the set of those turned away changes by one request at
a time and its cardinality can be followed, and `Accounted` is the sum, of which each step moves one unit or adds one.

**GatewayProofs**, from `GatewayAssumption` (finite sets of requests and slots, any prompts). `IInv` is `Types /\ Leases /\ Returns /\ Pipes /\ OwnAnswer /\
Fresh /\ Rows /\ Chosen /\ Locked /\ Pumps /\ Failed`. `Leases` says that who is inside a turn holds the lease and is the only one; `Pipes` what lies in the pipe at each place of the
holder's code, which is nothing between turns and otherwise a rest of the holder's own turn, so that reading can only go on with its own answer. `Fresh`
says that a request that has not been answered has written nothing. `Rows` and `Chosen` relate the router's memory to the rows of the engine: a slot holds what it is recorded to hold, but for the prompt
at work, and the choice made under the lease is still the best when the frame is written. `Locked` says who may be writing on which socket; `Pumps` that
a pump is alive only while its response is, `Failed` that an exception which leaves the pump running came before any of the answer, or of an engine that died. That the router's longest prefix and oldest slot exist at all is shown by well-foundedness.
From these follow `SpecTypeOK`, `SpecOwnAnswer`, `SpecBetweenTurns`, `SpecGoesBackToItsRows`, `SpecOnlyErrorsInterleave` and `SpecDoneIsLast`.

**PipePoolProofs**, from `PipeAssumption` (a finite, non-empty set of workers, 1 to 64 slots, plans of blocks that
fit). Two layers:

- `CursorInv`, for every plan: the cursor, ordered by generation and then index, is beyond every job that is
  held (`HeldIsBehind`), hence each win of the CAS takes a job nobody has: `SpecJobTakenOnce`.
- `PipeInv` adds what each step of main implies for the published words (`Phases`), that workers deal
  with published generations (`WorkerGens`), that writers are readers of their slot (`WritersRead`), that
  the orders are complete before publication (`Orders`), and, for plans that never grow, `Handover`. Its two
  central parts are `OwnBound` (who passes the bound passes that of its own generation, even if it reads the
  bound of the next) and `Drained` (from the last wait of a block to the next publication nobody holds a job
  and the cursor stands at its bound). Together they exclude a win of the CAS outside the middle of a block
  (`WinsInBlock`), which is exactly the step that succeeds when a block grows. From this follow `SpecTypeOK`
  (for every plan), `SpecNoWrongGenerationUnlessGrowing`, `SpecMatmulReadsItsExpert` and `SpecQuietAtPromotion`.

**SpecDecodeProofs**, from `SpecDecodeAssumption` (a stop token that is no other token, reserves with `2 <= GenReserve < PromptReserve < MaxT`,
any draft length, any NGEN). `IInv` is `Types /\ Idle /\ Answering /\ Phases /\ History /\ Rows /\ Batch /\ Dice`. `History` and `Rows` are
`RowsMatchShown` in the parts that survive each step, `Answering` bounds what is left of an answer by what is left of the
context. `Batch` says that between `Guess` and `Advance` the rows beyond `len` are those of the whole draft: without it nothing would be known of
the row a guess is judged by. `Dice` says that within an answer the dice have been thrown for shorter
contexts than the one that is next, save that a rejected guess has been excluded there: without it a sampled token could have been
thrown before its turn, and `Pick` would not be a step of plain decoding.
`SpecPlainSpec` maps each action to `Ask`, `More`, `Think`, `Show`, `EndOfAnswer` or a stutter. `SpecTypeOK` includes that
nothing is written beyond the arrays.

**CachePoliciesProofs**, from `CachePoliciesAssumption` (a finite set of experts, any streams, sizes, budgets) and `WaterFillAssumption` (any totals).

- `SpecGdsIsLru`: every live H lies in `level .. level + 1`, and H never contradicts the sequence number (`Agree`), so the heap's
  order is the order of last use. Every cached expert's entry is in the heap and no two entries share a sequence number (`HeapAgrees`), so none that is stale passes for a live one (`LiveIsEntry`)
  and no victim is missed: both caches evict the same prefix of the order. A stale entry frees nothing, so it does not matter
  which of them are popped along. Of `Weight` it is needed that a part of a set does not weigh more than the set (`WeightFacts`), nothing else, so the theorem holds for any sizes and any budget.
- `SpecCurveIsExact`: the LRU of `c` slots holds the top `c` of the stack (`Ranked`), hence a request at distance d misses exactly when `d > c`.
- `SpecSnrdIsLru`: with equal sizes the product orders experts as age does.
- `SpecUniformIsSlotLru`: the byte budget of n experts of one size holds what n slots hold. Here `Weight` has to be computed: the sum over a set is its
  cardinality times the size (`UniformSum`).
- `SpecWaterFillIsBest`: the DP is optimal. `PlanInv` says of the row after k layers that it is finite up to what those layers can take and `NoWay` beyond
  (`Planned`), that no split among them beats it (`Unbeaten`), and that the rows can be followed back through `choice` to row 0 (`Rows`); on the way back, what is handed
  out and the row entry that is left add up to the plan (`Spent`). Sums are the sizes of sets of cells (`SumIsSize`), so that they can be split at any layer
  (`UpTo`, `After`); a miss curve is the number of requests missed and falls with the capacity (`CurveFacts`). That the equal split is no better follows from a split
  of the whole total that gives no layer less (`MoreThanEqual`).
- `SpecBeladyBounds`: no way to serve a stream is beaten by a policy, and the greedies reach the best one when sizes are equal. Its layers:
  - `Ways`, the fold over a stream of the sets of (entries, misses) that a way to serve it can have reached, is shown to be what one step after another gives (`WaysAt`).
  - Lower bound (`Followed`): at each position some way holds what the policy holds and has missed no more. Hence byte-LRU, SNRD and
    `belady_demand` miss no less than the best way that must insert, `belady_bytes` no less than the best that may pass an expert by.
  - Optimality with equal sizes is a potential argument (`AheadOfAll`): against every way and up to every position u, the misses that the greedy has
    had more are made up for by how many more experts it holds of those that are asked for by u. One request keeps it (`AheadStep`), because the
    greedy drops what is asked for last of all (`FarthestGoes`, `KeepsSooner`). At the end of the stream nobody is asked for again, so it
    has missed no more than any way.
  - `BeladyInv` joins these for each layer with what they need: entries within the budget, and stamps that no two experts share.
- `SpecPlanIsReplay`: `WaterFillSpec` implements `Spec`, so the theorems about `Spec` hold in the run, whose specification is the former.

**ExpertCacheProofs**, from `ExpertCacheAssumption` (any experts, layers, capacities, pins, blocks and ring). `IInv` is `Types /\ Ahead /\ InFlight /\
Spare /\ NoExpertTwice /\ InHand`. `Ahead` says that the layer at work is the one the main thread has announced and that the pilot is not in it
(`SpecPilotStaysAhead`). `InFlight` says that the slot the pilot loads is hidden until it is complete and that nobody else has cached the expert meanwhile:
without it publication could make a second copy. `Spare` says that slots not yet counted are empty, `InHand` that each expert of the block
is where the look-up found it. Beside it stands `Rewriting`: a pinned slot is without weights only during the re-pin in hand, when the main thread is in no layer,
so that a look-up finds complete pins only (`PinsComplete`). Nothing is assumed of `lru`, so `SpecNoExpertTwice` and `SpecMatmulReadsLoaded` hold whichever slot is evicted.
A second layer, `OInv == Ordered /\ JustUsed /\ Small`, is about the order: `lru` lists each slot of its layer once, and from the look-up of a block to its last promotion the slots of its
hits stand at the end, in front of which promotion finds its victims. `Stamped` is a recursive function over the block; what it returns is described by `StampedFacts`, and a
promotion turns the order by one place (`Turned`). `SpecTypeOK` and the action property `SpecKeepsWhatItUsed` rest on it.

**CampaignProofs** has the two protocols of a timing campaign. The timing lock, from `DriversAssumption` (any set of drivers). `IInv` is `TypeOK /\ Dogs /\ Shape /\ Undisturbed /\ (~crossed => Orderly)`.
`Orderly` says that one driver at a time is inside the directory, from its mkdir to the rmdir that ends its use, and what it has put there (`OneInside`); that
metadata of a live driver are those of that one (`Recorded`); that what a reclaimer saw is still so, and what it is about to remove is nobody's (`Judged`); and that
there is one reclaimer, with a young mutex (`OneReaper`, without which a second reclaimer could undo what `Judged` says of the first). `Vacant` is the heart: metadata of a dead driver, or none
in an old directory, mean that nobody is inside. `Dogs` (watchdogs act for dead drivers only) and `Shape` (no files without a directory) carry the rest.
`Undisturbed` follows a lone driver from place to place and needs none of `Orderly`. From these follow `SpecTypeOK`, `SpecOneDriverUnlessCrossed`,
`SpecHolderIsRecorded` and `SpecLoneDriverWins`.

The campaign and its watchdog, from `WatchdogAssumption` (a finite set of strangers, at least one sample required). `CampaignInv` is `CampaignTypeOK` with: `Places`
(what the driver's position says of launch counter, file and flags), `Owned` (a trial that runs is named by `CURRENT_EXP_PGID`,
or is about to be, or is astray), `Counted` (the tracker's streaks are the history's, one sample later), `Kept` (what was seen is in the sample at hand, on its
way to the sentinel, or in it) and `Grounded` (conversely, what is there was seen). `Kept` gives `SpecCleanMeansClean`, `Grounded` gives
`SpecNoFalseAlarm`, `Owned` gives `SpecLockCoversTrials`. (Actions and specification of Watchdog have
names of their own, `CampaignNext`, `CampaignSpec`, so that one module can speak of both protocols.)

**KvStoreProofs**, from `KvAssumption` (any tokens, layouts and contexts, reserves with `0 < GenReserve < PromptReserve`, every context larger than the latter). Two layers:

- `TInv == Types /\ Fits`, whatever the settings of each start and however often the disk fails: one row for each position, what is to be forwarded fits
  between the reserves, and rows are never empty, so that the token of a record can be read off. It gives `SpecKvTypeOK`.
- `KInv`, under `OneSetting` (one build, one CTX) and on a disk that does not fail: `Matching` (the rows spell the history out), and `Known` while the process runs, `Stored` while
  it is down. `Known` says that the first `diskNrec` records are those of the rows, that the counter of a readable file is `diskNrec`, or is so large that the file will be refused
  (the case of a conversation too long to be resumed, which is then written over from 0), and what each step of an append has already put into the file. `Stored` is what a crash
  leaves of it: the counted records are those of *some* text. `CrashKnown` shows that a torn record is none of those counted, `StartKnown` that a start makes that text its history. From these
  follow `SpecRowsMatchHistory` and `SpecSkippedRecordsAreThere`. `OneSetting` cannot be dropped: without it the first of them is refuted (finding 2).

`Forward` is a recursive function. `GrowsExists` and `GrowsIs` show that there is one function that satisfies its equation and give it in closed form, the last row followed by the tokens since;
from then on only `SpelledForward` is used: forwarding t after the rows of h gives the rows of h followed by t. `SpelledAgain` is the same for the position that is forwarded a second time.

Induction over data is out of the prover's reach as a rule, but some of what it gives is had otherwise: if a set of bad positions, subsets or prefixes were not empty, it
would have a least element, by a library theorem on well-founded relations, and that element is refuted. `Least`, `Greatest`, `UniformSum` and the lemmas
on `Stamped` and `Grows` are proved in this way. `SelectSeq` and the like are opaque to the provers, which is why `Touched` and `Stamped` are written as functions.

Only model-checked: liveness everywhere and the conditional liveness of the scheduler (out of the prover's reach). Every invariant and
every action property that a passing run checks is also the statement of a theorem.

## 5. Where the code and its comments disagree

With a run that shows it:

1. **A straggler can take a job of the wrong generation** (`pipe_straggler`). The comment above the pool says
   that a straggler "can therefore NEVER grab a wrong-generation job" because its first act is a CAS. Its first act
   is the test of `njobs`, which main stores before it publishes the new generation. After a block of n misses, a
   worker holding `(g, n)` passes that test if the next block is larger, and its CAS succeeds as long as the new
   generation is not published. It then loads with whatever `layer` and `eids[n]` it finds, and may set `ready[n]`
   after the reset. Storing `njobs` is harmless when blocks do not grow, which is what is proved.
2. **A refused conversation is written over under its old header and counter** (`kv_refused`). A file too long for the present
   context, or of another record layout, is refused at load, but stays as it is. The next append writes records from 0
   under the old header; a crash before the new counter leaves new records followed by old ones, and a start that accepts the old
   header resumes them as one conversation. The comment claims that such a crash leaves a consistent file.
3. **Two drivers can hold the timing lock** (`timing_lock_race`). The comment at `timing_lock.sh:226-229` says that a
   reclaimer and a fast-path acquirer "still yield exactly one winner". If the owner releases between the two looks that a reclaimer takes at
   its metadata, the reclaimer finds none, judges the owner dead, and its `rm -rf` (line 167) removes the directory that a
   third driver has made in the meantime.

Seen while modelling, in the model, and excepted from a property (section 3), without a run of its own:

- An error into a running event stream: "All wfile writes share ka_lock" (`openai_server.py:845-847`), but when `generate()` raises after the headers are out and the
  pump is running, `do_POST` (761-762) answers on the socket without the lock while the pump, which nobody has told to stop, may be writing: 400 for a prompt with a NUL byte or
  over 16 MiB, 500 for one that `encode()` refuses, both with a living engine, and 500 when the engine dies in mid-stream. `OnlyErrorsInterleave` says that there is no other way:
  never after the end of an answer, and with a living engine never after any of it.
- A dead watchdog leaves the run reported as clean, although its docstring (`timing_watchdog.py:17`) says "fail-closed: an unmeasured interval is not evidence
  of cleanliness".
- `roofline_run.sh:322-323` says that the cleanup "runs exactly once on every path". A second signal in the EXIT trap cuts it short; a signal
  during the cleanup of a run that ended by itself (line 449) runs it again.
- "can never leave an orphaned engine process" (`roofline_run.sh:307-311`): a signal between the fork (384) and the assignment of `CURRENT_EXP_PGID` (392), or a
  leader that exits before its descendants, leaves one.
- A sample that straddles the launch of a trial, before it is on the allowlist, or its end, may take the campaign's own engine for a stranger.

## 6. Not modelled

Floating-point kernels and GPU back ends, byte-level formats, text parsing, one-shot tools, the other experiment
drivers and reports: sequential or numeric code in which a model checker has nothing to interleave. They are most of the repository's
lines (the engine's kernels, the Metal and CUDA sources, some hundred scripts under `c/tools`, copies of scripts under `validation/`), which is why
the mapped share of the source is small.

In the modelled parts: wall-clock time (only the order of deadlines and events), weak memory (PipePool), power loss (KvStore),
request validation, chat templates and tool-call parsing (Gateway), probabilities (SpecDecode), the usage history (ExpertCache).

## 7. Plan

What is left, in this order:

1. **TrimCache** (`openai_server.py` 310–410): first-in-first-out eviction against "never re-computed".
2. **KvStore**: a run for disks that fail (`SavedIsResumable` is stated, no run checks it); several slots.
3. **Gateway**: composition with Scheduler in place of the lease.
4. **ExpertCache**: the tiers of `tier.h` and the usage history.
5. The watchdog's terminate mode and `supervisor.sh`; the ABBA drivers; the two-phase replay of `simulate_bytes_cache.py`.
6. Header validation of the containers as pure operators.
