------------------------------- MODULE PipePool -------------------------------
(***************************************************************************)
(* The expert-load pipeline of c/glm.c (PIPE=1): moe() dispatches the      *)
(* expert loads of a block to a pool of I/O threads and multiplies each    *)
(* expert as soon as its ready flag is set.  Jobs are handed out through   *)
(* one atomic word, cur = (generation << 8) | index, advanced by CAS.      *)
(*                                                                         *)
(* Each atomic load, store and CAS of the two sides is an action of its    *)
(* own, executed in program order (a sequentially consistent execution is  *)
(* one of those the relaxed accesses of the code allow).  A block is the   *)
(* misses of one moe() call; block b asks layer b for Job(b, q) in slot q, *)
(* so that a load made for another block is told apart by its contents.    *)
(***************************************************************************)
EXTENDS Integers, Sequences, FiniteSets

CONSTANTS Workers,  \* the I/O threads pipe_init() tries to start
          MaxJobs,  \* the slots of ws[], and the most misses a block may have: 64
          Plans     \* executions to consider: the number of misses of each block, in order

ASSUME PipeAssumption ==
    /\ Workers # {} /\ IsFiniteSet(Workers)
    /\ MaxJobs \in 1 .. 64
    /\ Plans # {} /\ \A p \in Plans : p \in Seq(1 .. MaxJobs) /\ p # <<>>

Slots == 0 .. MaxJobs - 1

Job(b, q) == [block |-> b, q |-> q]
NoJob == [block |-> 0, q |-> 0]

\* What the slab of a slot holds: nothing of interest, a load in progress, the
\* bytes of two loads, or the expert of some job as found under some layer.
Weights(layer, job) == [kind |-> "expert", layer |-> layer, job |-> job]
Other   == [kind |-> "other", layer |-> 0, job |-> NoJob]
Partial == [kind |-> "partial", layer |-> 0, job |-> NoJob]
Torn    == [kind |-> "torn", layer |-> 0, job |-> NoJob]

VARIABLES
    \* PipePool
    cur,       \* [gen, idx]: the generation-tagged cursor
    njobs, layer, eids, ready,
    \* main thread: moe()
    plan,          \* what is going to miss: the sizes of the blocks of this execution
    mpc,       \* its next step
    block,     \* the block it works on
    mq,        \* the slot it dispatches, waits for, or multiplies
    mode,      \* "new": pool not started; "pipe"; "sync": no thread could be started
    \* workers: pipe_worker()
    wpc,       \* the next step of each: "off" until the thread is created
    seen, got, \* locals: seen and the loaded cursor c
    wlayer, weid,
    \* memory
    slab,      \* the contents of ws[q]
    writers    \* the threads whose pread into ws[q] is in flight

pool   == <<cur, njobs, layer, eids, ready>>
main   == <<plan, mpc, block, mq, mode>>
local  == <<seen, got, wlayer, weid>>
memory == <<slab, writers>>
vars   == <<pool, main, wpc, local, memory>>

Init ==
    /\ cur = [gen |-> 0, idx |-> 0]
    /\ njobs = 0 /\ layer = 0
    /\ eids = [q \in Slots |-> NoJob]
    /\ ready = [q \in Slots |-> FALSE]
    /\ plan \in Plans
    /\ mpc = "start" /\ block = 1 /\ mq = 0 /\ mode = "new"
    /\ wpc = [w \in Workers |-> "off"]
    /\ seen = [w \in Workers |-> 0]
    /\ got = [w \in Workers |-> [gen |-> 0, idx |-> 0]]
    /\ wlayer = [w \in Workers |-> 0]
    /\ weid = [w \in Workers |-> NoJob]
    /\ slab = [q \in Slots |-> Other]
    /\ writers = [q \in Slots |-> {}]

Misses == plan[block]

-----------------------------------------------------------------------------
(* Main thread: pipe_init() on the first block that misses *)

\* Mutant of PipeInit: the number of live threads is not looked at.
PipeInitUnchecked ==
    /\ mpc = "start" /\ mode = "new"
    /\ \E live \in SUBSET Workers :
          wpc' = [w \in Workers |-> IF w \in live THEN "check" ELSE "off"]
    /\ mode' = "pipe"
    /\ UNCHANGED <<pool, mpc, plan, block, mq, local, memory>>

\* pthread_create() may fail; live is the set of threads that it did start.
PipeInit ==
    /\ mpc = "start" /\ mode = "new"
    /\ \E live \in SUBSET Workers :
          /\ wpc' = [w \in Workers |-> IF w \in live THEN "check" ELSE "off"]
          /\ mode' = IF live = {} THEN "sync" ELSE "pipe"
    /\ UNCHANGED <<pool, mpc, plan, block, mq, local, memory>>

\* PIPE off: the blocking loads of the original path, all done before any matmul.
LoadBlocking ==
    /\ mpc = "start" /\ mode = "sync"
    /\ slab' = [q \in Slots |-> IF q < Misses THEN Weights(block, Job(block, q)) ELSE slab[q]]
    /\ mpc' = "wait" /\ mq' = 0
    /\ UNCHANGED <<pool, plan, block, mode, wpc, local, writers>>

-----------------------------------------------------------------------------
(* Main thread: pipe_dispatch() *)

StoreNjobs ==
    /\ mpc = "start" /\ mode = "pipe"
    /\ njobs' = Misses
    /\ mpc' = "layer"
    /\ UNCHANGED <<cur, layer, eids, ready, plan, block, mq, mode, wpc, local, memory>>

StoreLayer ==
    /\ mpc = "layer"
    /\ layer' = block
    /\ mpc' = "eids" /\ mq' = 0
    /\ UNCHANGED <<cur, njobs, eids, ready, plan, block, mode, wpc, local, memory>>

StoreEid ==
    /\ mpc = "eids"
    /\ eids' = [eids EXCEPT ![mq] = Job(block, mq)]
    /\ IF mq + 1 < Misses THEN mpc' = mpc /\ mq' = mq + 1 ELSE mpc' = "reset" /\ mq' = 0
    /\ UNCHANGED <<cur, njobs, layer, ready, plan, block, mode, wpc, local, memory>>

\* Mutant of ResetReady: the flags of the block before stay set.
ResetNothing ==
    /\ mpc = "reset"
    /\ IF mq + 1 < Misses THEN mpc' = mpc /\ mq' = mq + 1 ELSE mpc' = "publish" /\ mq' = 0
    /\ UNCHANGED <<pool, plan, block, mode, wpc, local, memory>>

ResetReady ==
    /\ mpc = "reset"
    /\ ready' = [ready EXCEPT ![mq] = FALSE]
    /\ IF mq + 1 < Misses THEN mpc' = mpc /\ mq' = mq + 1 ELSE mpc' = "publish" /\ mq' = 0
    /\ UNCHANGED <<cur, njobs, layer, eids, plan, block, mode, wpc, local, memory>>

\* A plain store: main is the only writer of the generation.
Publish ==
    /\ mpc = "publish"
    /\ cur' = [gen |-> cur.gen + 1, idx |-> 0]
    /\ mpc' = "broadcast"
    /\ UNCHANGED <<njobs, layer, eids, ready, plan, block, mq, mode, wpc, local, memory>>

Broadcast ==
    /\ mpc = "broadcast"
    /\ wpc' = [w \in Workers |-> IF wpc[w] = "parked" THEN "check" ELSE wpc[w]]
    /\ mpc' = "wait"
    /\ UNCHANGED <<pool, plan, block, mq, mode, local, memory>>

-----------------------------------------------------------------------------
(* Main thread: the matmul loop and the LRU promotion at the end of the block *)

\* Mutant of WaitReady: an expert that no row uses is skipped before its load is
\* waited for.
WaitOrSkip ==
    /\ mpc = "wait"
    /\ \/ (mode = "pipe" => ready[mq]) /\ mpc' = "matmul" /\ mq' = mq
       \/ mq + 1 < Misses /\ mpc' = "wait" /\ mq' = mq + 1
       \/ mq + 1 = Misses /\ mpc' = "promote" /\ mq' = 0
    /\ UNCHANGED <<pool, plan, block, mode, wpc, local, memory>>

\* pipe_wait_timed(): spin until ready[q]; nothing to wait for without the pool.
WaitReady ==
    /\ mpc = "wait"
    /\ mode = "pipe" => ready[mq]
    /\ mpc' = "matmul"
    /\ UNCHANGED <<pool, plan, block, mq, mode, wpc, local, memory>>

Matmul ==
    /\ mpc = "matmul"
    /\ IF mq + 1 < Misses THEN mpc' = "wait" /\ mq' = mq + 1 ELSE mpc' = "promote" /\ mq' = 0
    /\ UNCHANGED <<pool, plan, block, mode, wpc, local, memory>>

\* The slabs of the block move into the LRU cache; ws[] gets buffers from there.
Promote ==
    /\ mpc = "promote"
    /\ slab' = [q \in Slots |-> IF q < Misses THEN Other ELSE slab[q]]
    /\ IF block < Len(plan) THEN block' = block + 1 /\ mpc' = "start"
                                  ELSE block' = block /\ mpc' = "done"
    /\ UNCHANGED <<pool, plan, mq, mode, wpc, local, writers>>

-----------------------------------------------------------------------------
(* Worker threads: pipe_worker() *)

\* Under mx: park unless a generation this worker has not seen is published.
Check(w) ==
    /\ wpc[w] = "check"
    /\ wpc' = [wpc EXCEPT ![w] = IF cur.gen = seen[w] THEN "parked" ELSE "load"]
    /\ UNCHANGED <<pool, main, local, memory>>

LoadCursor(w) ==
    /\ wpc[w] = "load"
    /\ got' = [got EXCEPT ![w] = cur]
    /\ seen' = [seen EXCEPT ![w] = cur.gen]
    /\ wpc' = [wpc EXCEPT ![w] = "bound"]
    /\ UNCHANGED <<pool, main, wlayer, weid, memory>>

\* if (i >= njobs) break;
TestBound(w) ==
    /\ wpc[w] = "bound"
    /\ wpc' = [wpc EXCEPT ![w] = IF got[w].idx >= njobs THEN "check" ELSE "cas"]
    /\ UNCHANGED <<pool, main, local, memory>>

\* Mutant of CasWins: the comparand has no generation.
CasUntagged(w) ==
    /\ wpc[w] = "cas" /\ cur.idx = got[w].idx
    /\ cur' = [cur EXCEPT !.idx = @ + 1]
    /\ wpc' = [wpc EXCEPT ![w] = "layer"]
    /\ UNCHANGED <<njobs, layer, eids, ready, main, local, memory>>

CasWins(w) ==
    /\ wpc[w] = "cas" /\ cur = got[w]
    /\ cur' = [cur EXCEPT !.idx = @ + 1]
    /\ wpc' = [wpc EXCEPT ![w] = "layer"]
    /\ UNCHANGED <<njobs, layer, eids, ready, main, local, memory>>

\* The cursor moved on, or compare_exchange_weak failed spuriously.
CasFails(w) ==
    /\ wpc[w] = "cas"
    /\ wpc' = [wpc EXCEPT ![w] = "load"]
    /\ UNCHANGED <<pool, main, local, memory>>

ReadLayer(w) ==
    /\ wpc[w] = "layer"
    /\ wlayer' = [wlayer EXCEPT ![w] = layer]
    /\ wpc' = [wpc EXCEPT ![w] = "eid"]
    /\ UNCHANGED <<pool, main, seen, got, weid, memory>>

\* Reads eids[i] and enters expert_load(), which starts to fill the slab.
ReadEid(w) ==
    LET i == got[w].idx IN
    /\ wpc[w] = "eid"
    /\ weid' = [weid EXCEPT ![w] = eids[i]]
    /\ slab' = [slab EXCEPT ![i] = IF writers[i] = {} THEN Partial ELSE Torn]
    /\ writers' = [writers EXCEPT ![i] = @ \cup {w}]
    /\ wpc' = [wpc EXCEPT ![w] = "read"]
    /\ UNCHANGED <<pool, main, seen, got, wlayer>>

FinishLoad(w) ==
    LET i == got[w].idx IN
    /\ wpc[w] = "read"
    /\ slab' = [slab EXCEPT ![i] = IF @ = Torn THEN Torn ELSE Weights(wlayer[w], weid[w])]
    /\ writers' = [writers EXCEPT ![i] = @ \ {w}]
    /\ wpc' = [wpc EXCEPT ![w] = "ready"]
    /\ UNCHANGED <<pool, main, local>>

SetReady(w) ==
    /\ wpc[w] = "ready"
    /\ ready' = [ready EXCEPT ![got[w].idx] = TRUE]
    /\ wpc' = [wpc EXCEPT ![w] = "load"]
    /\ UNCHANGED <<cur, njobs, layer, eids, main, local, memory>>

-----------------------------------------------------------------------------
Main == \/ PipeInit \/ LoadBlocking
        \/ StoreNjobs \/ StoreLayer \/ StoreEid \/ ResetReady \/ Publish \/ Broadcast
        \/ WaitReady \/ Matmul \/ Promote

Worker(w) == \/ Check(w) \/ LoadCursor(w) \/ TestBound(w) \/ CasWins(w) \/ CasFails(w)
             \/ ReadLayer(w) \/ ReadEid(w) \/ FinishLoad(w) \/ SetReady(w)

Next == Main \/ \E w \in Workers : Worker(w)

Spec == Init /\ [][Next]_vars

\* The OS runs every thread, reads from disk end, and a weak CAS that is retried
\* for ever on an unchanged cursor succeeds some time.
FairSpec == /\ Spec
            /\ WF_vars(Main)
            /\ \A w \in Workers : WF_vars(Worker(w)) /\ SF_vars(CasWins(w))

-----------------------------------------------------------------------------
(* Properties *)

Holding == {w \in Workers : wpc[w] \in {"layer", "eid", "read", "ready"}}

Gens == 0 .. Len(plan)
Jobs == [block : Gens, q : Slots]
Cursors == [gen : Gens, idx : 0 .. MaxJobs]

\* Every variable has its type; a worker that holds a job has a slot of the pool.
TypeOK ==
    /\ cur \in Cursors /\ njobs \in 0 .. MaxJobs /\ layer \in Gens
    /\ eids \in [Slots -> Jobs] /\ ready \in [Slots -> BOOLEAN]
    /\ plan \in Plans /\ block \in 1 .. Len(plan)
    /\ mq \in Slots /\ mode \in {"new", "pipe", "sync"}
    /\ mpc \in {"start", "layer", "eids", "reset", "publish", "broadcast", "wait", "matmul",
                "promote", "done"}
    /\ wpc \in [Workers -> {"off", "check", "parked", "load", "bound", "cas", "layer", "eid",
                            "read", "ready"}]
    /\ seen \in [Workers -> Gens] /\ got \in [Workers -> Cursors]
    /\ \A w \in Holding : got[w].idx \in Slots
    /\ wlayer \in [Workers -> Gens] /\ weid \in [Workers -> Jobs]
    /\ slab \in [Slots -> [kind : {"expert", "other", "partial", "torn"}, layer : Gens, job : Jobs]]
    /\ writers \in [Slots -> SUBSET Workers]

\* A worker that holds a job holds one of the published generation, and reads the
\* layer and the expert of that job: what the comment above the pool calls THE
\* INVARIANT.  It fails when a block is larger than the one before it: a straggler
\* at the end of generation g, between its load of cur and its load of njobs, sees
\* the njobs of block g + 1 before that block is published.
NoWrongGeneration ==
    \A w \in Holding :
        /\ got[w].gen = cur.gen
        /\ got[w].idx < njobs
        /\ wpc[w] \in {"read", "ready"} => /\ weid[w] = Job(got[w].gen, got[w].idx)
                                          /\ wlayer[w] = got[w].gen

\* No block is larger than the one before it.
NeverGrowing == \A b \in 1 .. Len(plan) - 1 : plan[b] >= plan[b + 1]

\* THE INVARIANT holds as long as no block is larger than the one before it.
NoWrongGenerationUnlessGrowing == NeverGrowing => NoWrongGeneration

\* While main multiplies slot q, the slab of q holds the expert it asked for and no
\* thread writes to it: no wrong expert, no half-loaded slab.
MatmulReadsItsExpert ==
    NeverGrowing /\ mpc = "matmul" =>
        slab[mq] = Weights(block, Job(block, mq)) /\ writers[mq] = {}

\* The LRU promotion, which has no drain barrier of its own, swaps no slab that a
\* worker is still reading into or is about to.
QuietAtPromotion == NeverGrowing /\ mpc = "promote" => Holding = {}

\* A job is handed to one worker only, whatever the sizes of the blocks.
JobTakenOnce == \A v, w \in Holding : got[v] = got[w] => v = w

\* Every block is multiplied and promoted: no job is left to nobody, no worker
\* sleeps through a dispatch, and with no thread at all the loads are blocking.
AllBlocksDone == <>(mpc = "done")
=============================================================================
