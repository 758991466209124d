--------------------------- MODULE PipePoolProofs ---------------------------
(***************************************************************************)
(* What the expert-load pipeline guarantees for every number of I/O        *)
(* threads, every number of slots and every plan of blocks: no job of any  *)
(* generation is handed out twice, whatever the plan; and if no block is   *)
(* larger than the one before it, stragglers stay off other generations,   *)
(* each matmul reads its own expert, and the promotion finds no reader.    *)
(*                                                                         *)
(* The argument: the cursor only moves forward, past every job that is     *)
(* held (CursorInv).  A worker that passes the bound passes that of its    *)
(* own generation (OwnBound), and from the last wait of a block to the     *)
(* next publication the cursor is at that bound (Drained), so that a CAS   *)
(* can only be won in the middle of a block.  What the winner then reads   *)
(* is the present batch, and a flag that is up stands for a loaded slab.   *)
(***************************************************************************)
EXTENDS PipePool, TLAPS

\* The order in which the cursor passes the jobs: by generation, then by index.
Before(c, d) == c.gen < d.gen \/ (c.gen = d.gen /\ c.idx < d.idx)

Cursor == [gen : Nat, idx : Nat]

\* The part of the types that the argument needs; it is preserved by every step
\* on its own, while the bounds in TypeOK depend on the sizes of the blocks.
CursorTypes ==
    /\ cur \in Cursor
    /\ got \in [Workers -> Cursor]
    /\ wpc \in [Workers -> {"off", "check", "parked", "load", "bound", "cas", "layer", "eid",
                            "read", "ready"}]

\* The cursor is beyond every job that a worker holds.
HeldIsBehind == \A w \in Holding : Before(got[w], cur)

CursorInv == CursorTypes /\ HeldIsBehind /\ JobTakenOnce

-----------------------------------------------------------------------------
(* The inductive invariant *)

\* The misses of a block; none for the time before the first.
Count(b) == IF b = 0 THEN 0 ELSE plan[b]

\* Main between the end of a block and the publication of the next one, and with a
\* block in the hands of the workers.
Between == mpc \in {"start", "layer", "eids", "reset", "publish"}
InBlock == mpc \in {"broadcast", "wait", "matmul", "promote"}

\* What the step main is at says about the words it has published.
Phases ==
    /\ mpc \in {"eids", "reset", "publish", "broadcast", "wait", "matmul"} => mq < plan[block]
    /\ mpc \in {"publish", "broadcast"} => mq = 0
    /\ mode = "new" => mpc = "start" /\ block = 1
    /\ mode = "sync" => mpc \in {"start", "wait", "matmul", "promote", "done"}
    /\ mode # "pipe" => cur.gen = 0 /\ njobs = 0 /\ layer = 0 /\ \A w \in Workers : wpc[w] = "off"
    /\ mode = "pipe" =>
         /\ cur.gen = IF Between THEN block - 1 ELSE block
         /\ njobs = IF mpc = "start" THEN Count(block - 1) ELSE plan[block]
         /\ layer = IF mpc \in {"start", "layer"} THEN block - 1 ELSE block

\* A worker has business with published generations only.
WorkerGens ==
    \A w \in Workers :
        /\ seen[w] <= cur.gen
        /\ wpc[w] = "load" => 1 <= cur.gen
        /\ wpc[w] \in {"bound", "cas", "layer", "eid", "read", "ready"} =>
              1 <= got[w].gen /\ got[w].gen <= cur.gen
        /\ wpc[w] \in {"cas", "layer", "eid", "read", "ready"} => got[w].idx < MaxJobs

\* The threads that write to a slot are those inside expert_load() for it.
WritersRead ==
    \A q \in Slots, w \in Workers :
        w \in writers[q] <=> wpc[w] = "read" /\ got[w].idx = q

\* The orders of the block are written out before they are published.
Orders ==
    mode = "pipe" => \A q \in Slots :
        /\ mpc = "eids" /\ q < mq => eids[q] = Job(block, q)
        /\ mpc \in {"reset", "publish", "broadcast", "wait", "matmul"} /\ q < plan[block] =>
              eids[q] = Job(block, q)

\* In blocks that never grow, a worker that passes the bound passes that of its own
\* generation.
OwnBound ==
    \A w \in Workers :
        /\ wpc[w] = "bound" => njobs <= plan[got[w].gen]
        /\ wpc[w] = "cas" => got[w].idx < plan[got[w].gen]

\* Outside the middle of a block every job is taken, and done.
Drained ==
    Between \/ mpc \in {"promote", "done"} => Holding = {} /\ cur.idx >= Count(cur.gen)

\* A holder reads the layer before the expert.
LayerRead == \A w \in Holding : wpc[w] # "layer" => wlayer[w] = got[w].gen

\* The flags are down when the block is published; each one that is up stands for
\* an expert in its slab, and main passes those that are up only.
Flags ==
    \A q \in Slots :
        /\ mpc = "reset" /\ q < mq => ~ready[q]
        /\ mpc = "publish" /\ q < plan[block] => ~ready[q]
        /\ mpc = "wait" /\ q < mq => ready[q]
        /\ mpc = "matmul" /\ q <= mq => ready[q]
        /\ mpc = "promote" /\ q < plan[block] => ready[q]
        /\ InBlock /\ q < plan[block] /\ ready[q] =>
              /\ q < cur.idx /\ writers[q] = {}
              /\ slab[q] = Weights(block, Job(block, q))
              /\ \A w \in Holding : got[w].idx # q

\* A slab that is being filled has one writer; a filled one has the expert ordered.
Slabs ==
    \A w \in Workers :
        /\ wpc[w] = "read" => slab[got[w].idx] # Torn
        /\ wpc[w] = "ready" =>
              slab[got[w].idx] = Weights(got[w].gen, Job(got[w].gen, got[w].idx))

Handover == OwnBound /\ Drained /\ NoWrongGeneration /\ LayerRead /\ Flags /\ Slabs

\* Without a pool, all experts are there before the first matmul.
AllLoaded ==
    mode = "sync" /\ mpc \in {"wait", "matmul"} =>
        \A q \in Slots : q < plan[block] => slab[q] = Weights(block, Job(block, q))

BaseInv == TypeOK /\ Phases /\ WorkerGens /\ WritersRead /\ Orders /\ AllLoaded /\ CursorInv

PipeInv == BaseInv /\ (NeverGrowing /\ mode = "pipe" => Handover)

-----------------------------------------------------------------------------
LEMMA InitCursor == Init => CursorInv
  BY DEF Init, CursorInv, CursorTypes, HeldIsBehind, JobTakenOnce, Holding, Cursor, Before

\* Steps that leave the cursor, the loaded cursors and the holders alone.
LEMMA SameHolders ==
    ASSUME CursorInv, UNCHANGED <<cur, got>>,
           wpc' \in [Workers -> {"off", "check", "parked", "load", "bound", "cas", "layer", "eid",
                                 "read", "ready"}],
           Holding' \subseteq Holding
    PROVE  CursorInv'
  BY DEF CursorInv, CursorTypes, HeldIsBehind, JobTakenOnce

LEMMA MainStep == ASSUME CursorInv, Main PROVE CursorInv'
<1>1. CASE PipeInit
  <2>1. PICK live \in SUBSET Workers :
           wpc' = [w \in Workers |-> IF w \in live THEN "check" ELSE "off"]
    BY <1>1 DEF PipeInit
  <2>2. Holding' = {}
    BY <2>1 DEF Holding
  <2> QED
    BY <1>1, <2>1, <2>2, SameHolders DEF PipeInit, pool, local
<1>2. CASE Publish
  <2>1. CursorTypes'
    BY <1>2 DEF Publish, CursorInv, CursorTypes, Cursor, local
  <2>2. \A w \in Holding : w \in Workers /\ got[w].gen <= cur.gen
    BY DEF CursorInv, CursorTypes, Cursor, HeldIsBehind, Before, Holding
  <2>3. Holding' = Holding
    BY <1>2 DEF Publish, Holding
  <2>4. HeldIsBehind'
    BY <1>2, <2>2, <2>3 DEF Publish, CursorInv, CursorTypes, Cursor, HeldIsBehind, Before,
                            Holding, local
  <2>5. JobTakenOnce'
    BY <1>2, <2>3 DEF Publish, CursorInv, JobTakenOnce, local
  <2> QED
    BY <2>1, <2>4, <2>5 DEF CursorInv
<1>3. CASE Broadcast
  <2>1. wpc' = [w \in Workers |-> IF wpc[w] = "parked" THEN "check" ELSE wpc[w]]
    BY <1>3 DEF Broadcast
  <2>2. Holding' = Holding
    BY <2>1 DEF Holding, CursorInv, CursorTypes
  <2>3. wpc' \in [Workers -> {"off", "check", "parked", "load", "bound", "cas", "layer", "eid",
                              "read", "ready"}]
    BY <2>1 DEF CursorInv, CursorTypes
  <2> QED
    BY <1>3, <2>2, <2>3, SameHolders DEF Broadcast, pool, local
<1>4. CASE \/ LoadBlocking \/ StoreNjobs \/ StoreLayer \/ StoreEid \/ ResetReady
           \/ WaitReady \/ Matmul \/ Promote
  <2>1. UNCHANGED <<cur, got, wpc>>
    BY <1>4 DEF LoadBlocking, StoreNjobs, StoreLayer, StoreEid, ResetReady, WaitReady, Matmul,
                Promote, pool, local
  <2>2. Holding' = Holding
    BY <2>1 DEF Holding
  <2> QED
    BY <2>1, <2>2, SameHolders DEF CursorInv, CursorTypes
<1> QED
  BY <1>1, <1>2, <1>3, <1>4 DEF Main

LEMMA WorkerStep == ASSUME CursorInv, NEW w \in Workers, Worker(w) PROVE CursorInv'
\* The winner takes the job the cursor stood at, which no other worker holds.
<1>1. CASE CasWins(w)
  <2>1. /\ cur = got[w] /\ cur' = [cur EXCEPT !.idx = @ + 1] /\ got' = got
        /\ wpc' = [wpc EXCEPT ![w] = "layer"] /\ wpc[w] = "cas"
    BY <1>1 DEF CasWins, local
  <2>2. Holding' = Holding \cup {w} /\ w \notin Holding
    BY <2>1 DEF Holding, CursorInv, CursorTypes
  <2>3. CursorTypes'
    BY <2>1 DEF CursorInv, CursorTypes, Cursor
  <2>4. \A c \in Cursor : Before(c, cur) \/ c = cur => Before(c, cur')
    BY <2>1 DEF CursorInv, CursorTypes, Cursor, Before
  <2>5. \A v \in Workers : got[v] \in Cursor
    BY DEF CursorInv, CursorTypes
  <2>6. HeldIsBehind'
    BY <2>1, <2>2, <2>4, <2>5 DEF CursorInv, HeldIsBehind, Holding
  <2>7. \A v \in Holding : got[v] # got[w]
    BY <2>1, <2>5 DEF CursorInv, CursorTypes, HeldIsBehind, Before, Cursor, Holding
  <2>8. JobTakenOnce'
    BY <2>1, <2>2, <2>7 DEF CursorInv, JobTakenOnce
  <2> QED
    BY <2>3, <2>6, <2>8 DEF CursorInv
<1>2. CASE LoadCursor(w)
  <2>1. /\ wpc[w] = "load" /\ wpc' = [wpc EXCEPT ![w] = "bound"]
        /\ cur' = cur /\ got' = [got EXCEPT ![w] = cur]
    BY <1>2 DEF LoadCursor, pool
  <2>2. Holding' = Holding /\ w \notin Holding
    BY <2>1 DEF Holding, CursorInv, CursorTypes
  <2>3. \A v \in Holding : got'[v] = got[v]
    BY <2>1, <2>2 DEF CursorInv, CursorTypes, Holding
  <2>4. CursorTypes'
    BY <2>1 DEF CursorInv, CursorTypes
  <2> QED
    BY <2>1, <2>2, <2>3, <2>4 DEF CursorInv, HeldIsBehind, JobTakenOnce
<1>3. CASE \/ Check(w) \/ TestBound(w) \/ CasFails(w) \/ ReadLayer(w) \/ ReadEid(w)
           \/ FinishLoad(w) \/ SetReady(w)
  <2>1. UNCHANGED <<cur, got>>
    BY <1>3 DEF Check, TestBound, CasFails, ReadLayer, ReadEid, FinishLoad, SetReady, pool, local
  <2>2. \E p \in {"check", "parked", "load", "cas", "eid", "read", "ready"} :
           /\ wpc' = [wpc EXCEPT ![w] = p]
           /\ p \in {"eid", "read", "ready"} => w \in Holding
    BY <1>3 DEF Check, TestBound, CasFails, ReadLayer, ReadEid, FinishLoad, SetReady, Holding
  <2>3. Holding' \subseteq Holding
    BY <2>2 DEF Holding, CursorInv, CursorTypes
  <2>4. wpc' \in [Workers -> {"off", "check", "parked", "load", "bound", "cas", "layer", "eid",
                              "read", "ready"}]
    BY <2>2 DEF CursorInv, CursorTypes
  <2> QED
    BY <2>1, <2>3, <2>4, SameHolders
<1> QED
  BY <1>1, <1>2, <1>3 DEF Worker

LEMMA NextCursor == CursorInv /\ [Next]_vars => CursorInv'
<1> SUFFICES ASSUME CursorInv, [Next]_vars PROVE CursorInv'
  OBVIOUS
<1>1. CASE UNCHANGED vars
  <2>1. UNCHANGED <<cur, got, wpc>>
    BY <1>1 DEF vars, pool, local
  <2>2. Holding' = Holding
    BY <2>1 DEF Holding
  <2> QED
    BY <2>1, <2>2, SameHolders DEF CursorInv, CursorTypes
<1> QED
  BY <1>1, MainStep, WorkerStep DEF Next

\* A job is handed to one worker only: the CAS on the whole word, generation and
\* index, is enough for that even where the claim of the comment above the pool
\* fails, because the cursor never comes back to a value it has had.
THEOREM SpecJobTakenOnce == Spec => []JobTakenOnce
<1>1. CursorInv => JobTakenOnce
  BY DEF CursorInv
<1> QED
  BY <1>1, InitCursor, NextCursor, PTL DEF Spec
-----------------------------------------------------------------------------
(* The parts of the invariant that hold for every plan *)

LEMMA PlanFacts ==
    ASSUME TypeOK
    PROVE  /\ Len(plan) \in Nat \ {0}
           /\ \A b \in 1 .. Len(plan) : plan[b] \in 1 .. MaxJobs
           /\ MaxJobs \in Nat \ {0}
           /\ block \in 1 .. Len(plan) /\ plan[block] \in 1 .. MaxJobs
  BY PipeAssumption DEF TypeOK

LEMMA InitBase == Init => PipeInv
<1> SUFFICES ASSUME Init PROVE PipeInv
  OBVIOUS
<1> USE DEF Init
<1>1. TypeOK
  BY PipeAssumption DEF TypeOK, Gens, Jobs, Cursors, Slots, NoJob, Other, Holding
<1>2. Phases /\ WorkerGens /\ WritersRead /\ Orders /\ AllLoaded
  BY DEF Phases, WorkerGens, WritersRead, Orders, AllLoaded, Between
<1> QED
  BY <1>1, <1>2, InitCursor DEF PipeInv, BaseInv

\* plan is never written.
LEMMA SamePlan ==
    ASSUME [Next]_vars
    PROVE  plan' = plan /\ Gens' = Gens /\ Jobs' = Jobs /\ Cursors' = Cursors
<1>1. plan' = plan
  BY DEF Next, Main, Worker, PipeInit, LoadBlocking, StoreNjobs, StoreLayer, StoreEid, ResetReady,
         Publish, Broadcast, WaitReady, Matmul, Promote, Check, LoadCursor, TestBound, CasWins,
         CasFails, ReadLayer, ReadEid, FinishLoad, SetReady, main, vars
<1> QED
  BY <1>1 DEF Gens, Jobs, Cursors

LEMMA TypeMain == ASSUME BaseInv, Main PROVE TypeOK'
<1>1. /\ Len(plan) \in Nat \ {0} /\ MaxJobs \in Nat \ {0}
      /\ block \in 1 .. Len(plan) /\ plan[block] \in 1 .. MaxJobs
  BY PlanFacts DEF BaseInv
<1>2. plan' = plan /\ Gens' = Gens /\ Jobs' = Jobs /\ Cursors' = Cursors
  BY SamePlan DEF Next
<1>3. block \in Gens /\ 0 \in Slots /\ \A q \in Slots : Job(block, q) \in Jobs
  BY <1>1 DEF Gens, Slots, Jobs, Job
<1>4. mq \in Slots /\ (mq + 1 < plan[block] => mq + 1 \in Slots)
  BY <1>1 DEF BaseInv, TypeOK, Slots
<1> USE <1>1, <1>2, <1>3, <1>4 DEF BaseInv, TypeOK, Holding
<1>a. CASE PipeInit
  BY <1>a DEF PipeInit, pool, local, memory
<1>b. CASE LoadBlocking
  <2>1. \A q \in Slots : Weights(block, Job(block, q)) \in
           [kind : {"expert", "other", "partial", "torn"}, layer : Gens, job : Jobs]
    BY DEF Weights
  <2> QED
    BY <1>b, <2>1 DEF LoadBlocking, pool, local, Misses
<1>c. CASE StoreNjobs
  BY <1>c DEF StoreNjobs, local, memory, Misses
<1>d. CASE StoreLayer
  BY <1>d DEF StoreLayer, local, memory
<1>e. CASE StoreEid
  BY <1>e DEF StoreEid, local, memory, Misses
<1>f. CASE ResetReady
  BY <1>f DEF ResetReady, local, memory, Misses
<1>g. CASE Publish
  <2>1. cur.gen = block - 1
    BY <1>g DEF Publish, Phases, Between
  <2>2. cur' \in Cursors
    BY <1>g, <2>1 DEF Publish, Cursors, Gens
  <2> QED
    BY <1>g, <2>2 DEF Publish, local, memory
<1>h. CASE Broadcast
  BY <1>h DEF Broadcast, pool, local, memory
<1>i. CASE WaitReady
  BY <1>i DEF WaitReady, pool, local, memory
<1>j. CASE Matmul
  BY <1>j DEF Matmul, pool, local, memory, Misses
<1>k. CASE Promote
  <2>1. Other \in [kind : {"expert", "other", "partial", "torn"}, layer : Gens, job : Jobs]
    BY DEF Other, NoJob, Gens, Jobs
  <2>2. slab' \in [Slots -> [kind : {"expert", "other", "partial", "torn"}, layer : Gens, job : Jobs]]
    BY <1>k, <2>1 DEF Promote
  <2>3. block' \in 1 .. Len(plan')
    BY <1>k DEF Promote
  <2> QED
    BY <1>k, <2>2, <2>3 DEF Promote, pool, local
<1> QED
  BY <1>a, <1>b, <1>c, <1>d, <1>e, <1>f, <1>g, <1>h, <1>i, <1>j, <1>k DEF Main

LEMMA TypeWorker == ASSUME BaseInv, NEW w \in Workers, Worker(w) PROVE TypeOK'
<1>1. MaxJobs \in Nat \ {0}
  BY PlanFacts DEF BaseInv
<1>2. plan' = plan /\ Gens' = Gens /\ Jobs' = Jobs /\ Cursors' = Cursors
  BY SamePlan DEF Next
<1>3. cur.gen \in Gens /\ got[w] \in Cursors /\ got[w].idx \in Nat
  BY DEF BaseInv, TypeOK, Cursors
<1>4. wpc[w] \in {"cas", "layer", "eid", "read", "ready"} => got[w].idx \in Slots
  BY <1>1, <1>3 DEF BaseInv, WorkerGens, Slots
<1> USE <1>1, <1>2, <1>3, <1>4 DEF BaseInv, TypeOK, Holding
<1>a. CASE Check(w)
  BY <1>a DEF Check, pool, main, local, memory
<1>b. CASE LoadCursor(w)
  BY <1>b DEF LoadCursor, pool, main, memory
<1>c. CASE TestBound(w)
  BY <1>c DEF TestBound, pool, main, local, memory
<1>d. CASE CasWins(w)
  <2>1. cur = got[w] /\ cur.idx \in 0 .. MaxJobs - 1
    BY <1>d DEF CasWins, Slots
  <2>2. cur' = [gen |-> cur.gen, idx |-> cur.idx + 1]
    BY <1>d, <2>1 DEF CasWins, Cursors
  <2>3. cur' \in Cursors
    BY <2>1, <2>2, <1>1, <1>3 DEF Cursors
  <2> QED
    BY <1>d, <2>3 DEF CasWins, main, local, memory
<1>e. CASE CasFails(w)
  BY <1>e DEF CasFails, pool, main, local, memory
<1>f. CASE ReadLayer(w)
  BY <1>f DEF ReadLayer, pool, main, memory
<1>g. CASE ReadEid(w)
  <2>1. {Partial, Torn} \subseteq
           [kind : {"expert", "other", "partial", "torn"}, layer : Gens, job : Jobs]
    BY <1>1 DEF Partial, Torn, NoJob, Gens, Jobs, Slots
  <2> QED
    BY <1>g, <2>1 DEF ReadEid, pool, main
<1>h. CASE FinishLoad(w)
  <2>1. Weights(wlayer[w], weid[w]) \in
           [kind : {"expert", "other", "partial", "torn"}, layer : Gens, job : Jobs]
    BY DEF Weights
  <2> QED
    BY <1>h, <2>1 DEF FinishLoad, pool, main, local
<1>i. CASE SetReady(w)
  BY <1>i DEF SetReady, main, local, memory
<1> QED
  BY <1>a, <1>b, <1>c, <1>d, <1>e, <1>f, <1>g, <1>h, <1>i DEF Worker

\* Workers leave main's variables alone, and run only with a pool.
LEMMA WorkerFrame ==
    ASSUME BaseInv, NEW w \in Workers, Worker(w)
    PROVE  /\ mode = "pipe" /\ wpc[w] # "off"
           /\ UNCHANGED <<main, njobs, layer, eids>>
           /\ cur'.gen = cur.gen
           /\ \E p \in {"check", "parked", "load", "bound", "cas", "layer", "eid", "read",
                        "ready"} : wpc' = [wpc EXCEPT ![w] = p]
<1>1. wpc[w] # "off"
  BY DEF Worker, Check, LoadCursor, TestBound, CasWins, CasFails, ReadLayer, ReadEid, FinishLoad,
         SetReady
<1>2. mode = "pipe"
  BY <1>1 DEF BaseInv, Phases
<1>3. UNCHANGED <<main, njobs, layer, eids>>
  BY DEF Worker, Check, LoadCursor, TestBound, CasWins, CasFails, ReadLayer, ReadEid, FinishLoad,
         SetReady, pool
<1>4. cur'.gen = cur.gen
  BY DEF Worker, Check, LoadCursor, TestBound, CasWins, CasFails, ReadLayer, ReadEid, FinishLoad,
         SetReady, pool, BaseInv, TypeOK, Cursors
<1>5. \E p \in {"check", "parked", "load", "bound", "cas", "layer", "eid", "read", "ready"} :
         wpc' = [wpc EXCEPT ![w] = p]
  BY DEF Worker, Check, LoadCursor, TestBound, CasWins, CasFails, ReadLayer, ReadEid, FinishLoad,
         SetReady
<1> QED
  BY <1>1, <1>2, <1>3, <1>4, <1>5

LEMMA PhasesMain == ASSUME BaseInv, Main PROVE Phases'
<1>1. /\ Len(plan) \in Nat \ {0} /\ MaxJobs \in Nat \ {0}
      /\ block \in 1 .. Len(plan) /\ \A b \in 1 .. Len(plan) : plan[b] \in 1 .. MaxJobs
  BY PlanFacts DEF BaseInv
<1>2. cur \in [gen : Gens, idx : 0 .. MaxJobs] /\ mq \in Nat /\ mode \in {"new", "pipe", "sync"}
  BY DEF BaseInv, TypeOK, Cursors, Slots
<1> USE <1>1, <1>2 DEF BaseInv, Phases, Between, Count
<1>a. CASE PipeInit
  BY <1>a DEF PipeInit, pool, local, memory
<1>b. CASE LoadBlocking
  BY <1>b DEF LoadBlocking, pool, local
<1>c. CASE StoreNjobs
  BY <1>c DEF StoreNjobs, local, memory, Misses
<1>d. CASE StoreLayer
  BY <1>d DEF StoreLayer, local, memory
<1>e. CASE StoreEid
  BY <1>e DEF StoreEid, local, memory, Misses
<1>f. CASE ResetReady
  BY <1>f DEF ResetReady, local, memory, Misses
<1>g. CASE Publish
  BY <1>g DEF Publish, local, memory
<1>h. CASE Broadcast
  BY <1>h DEF Broadcast, pool, local, memory
<1>i. CASE WaitReady
  BY <1>i DEF WaitReady, pool, local, memory
<1>j. CASE Matmul
  BY <1>j DEF Matmul, pool, local, memory, Misses
<1>k. CASE Promote
  BY <1>k DEF Promote, pool, local
<1> QED
  BY <1>a, <1>b, <1>c, <1>d, <1>e, <1>f, <1>g, <1>h, <1>i, <1>j, <1>k DEF Main

LEMMA PhasesWorker == ASSUME BaseInv, NEW w \in Workers, Worker(w) PROVE Phases'
  BY WorkerFrame DEF main, BaseInv, Phases, Between, Count

LEMMA Numbers ==
    ASSUME BaseInv
    PROVE  /\ cur.gen \in Nat /\ cur.idx \in Nat /\ njobs \in Nat /\ MaxJobs \in Nat
           /\ \A v \in Workers : got[v].gen \in Nat /\ got[v].idx \in Nat /\ seen[v] \in Nat
<1>1. MaxJobs \in Nat /\ Gens \subseteq Nat
  BY PlanFacts DEF BaseInv, Gens
<1>2. \A c \in Cursors : c.gen \in Gens /\ c.idx \in 0 .. MaxJobs
  BY DEF Cursors
<1>3. cur \in Cursors /\ njobs \in 0 .. MaxJobs
  BY DEF BaseInv, TypeOK
<1>4. \A v \in Workers : got[v] \in Cursors /\ seen[v] \in Gens
  BY DEF BaseInv, TypeOK
<1>5. \A n \in 0 .. MaxJobs : n \in Nat
  BY <1>1
<1> QED
  BY <1>1, <1>2, <1>3, <1>4, <1>5

LEMMA WorkerGensMain == ASSUME BaseInv, Main PROVE WorkerGens'
<1>1. UNCHANGED <<seen, got>>
  BY DEF Main, PipeInit, LoadBlocking, StoreNjobs, StoreLayer, StoreEid, ResetReady,
         Publish, Broadcast, WaitReady, Matmul, Promote, local
<1>2. CASE Publish
  <2>1. cur'.gen = cur.gen + 1 /\ wpc' = wpc
    BY <1>2 DEF Publish
  <2> QED
    BY Numbers, <1>1, <2>1 DEF BaseInv, WorkerGens
<1>3. CASE ~Publish
  <2>1. cur' = cur
    BY <1>3 DEF Main, PipeInit, LoadBlocking, StoreNjobs, StoreLayer, StoreEid, ResetReady,
                Broadcast, WaitReady, Matmul, Promote, pool
  <2>2. \A w \in Workers : wpc'[w] = wpc[w] \/ wpc'[w] \in {"check", "off"}
    BY <1>3 DEF Main, PipeInit, LoadBlocking, StoreNjobs, StoreLayer, StoreEid, ResetReady,
                Broadcast, WaitReady, Matmul, Promote
  <2> QED
    BY <1>1, <2>1, <2>2 DEF BaseInv, WorkerGens
<1> QED
  BY <1>2, <1>3

LEMMA WorkerGensWorker == ASSUME BaseInv, NEW w \in Workers, Worker(w) PROVE WorkerGens'
<1>1. /\ cur.gen \in Nat /\ cur.idx \in Nat /\ njobs \in 0 .. MaxJobs /\ MaxJobs \in Nat
      /\ \A v \in Workers : got[v].gen \in Nat /\ seen[v] \in Nat /\ got[v].idx \in Nat
  BY Numbers DEF BaseInv, TypeOK
<1>2. /\ seen \in [Workers -> Gens] /\ got \in [Workers -> Cursors] /\ DOMAIN wpc = Workers
  BY DEF BaseInv, TypeOK
<1>3. cur'.gen = cur.gen
  BY WorkerFrame
<1> USE <1>1, <1>2, <1>3 DEF BaseInv, WorkerGens
<1>a. CASE Check(w)
  BY <1>a DEF Check, pool, main, local, memory
<1>b. CASE LoadCursor(w)
  BY <1>b DEF LoadCursor, pool, main, memory
<1>c. CASE TestBound(w)
  BY <1>c DEF TestBound, pool, main, local, memory
<1>d. CASE CasWins(w)
  BY <1>d DEF CasWins, main, local, memory
<1>e. CASE CasFails(w)
  BY <1>e DEF CasFails, pool, main, local, memory
<1>f. CASE ReadLayer(w)
  BY <1>f DEF ReadLayer, pool, main, memory
<1>g. CASE ReadEid(w)
  BY <1>g DEF ReadEid, pool, main
<1>h. CASE FinishLoad(w)
  BY <1>h DEF FinishLoad, pool, main, local
<1>i. CASE SetReady(w)
  BY <1>i DEF SetReady, main, local, memory
<1> QED
  BY <1>a, <1>b, <1>c, <1>d, <1>e, <1>f, <1>g, <1>h, <1>i DEF Worker

LEMMA WritersMain == ASSUME BaseInv, Main PROVE WritersRead'
<1>1. UNCHANGED <<got, writers>>
  BY DEF Main, PipeInit, LoadBlocking, StoreNjobs, StoreLayer, StoreEid, ResetReady,
         Publish, Broadcast, WaitReady, Matmul, Promote, local, memory
<1>2. \A w \in Workers : wpc'[w] = "read" <=> wpc[w] = "read"
  BY DEF Main, PipeInit, LoadBlocking, StoreNjobs, StoreLayer, StoreEid, ResetReady,
         Publish, Broadcast, WaitReady, Matmul, Promote, BaseInv, Phases
<1> QED
  BY <1>1, <1>2 DEF BaseInv, WritersRead

LEMMA WritersWorker == ASSUME BaseInv, NEW w \in Workers, Worker(w) PROVE WritersRead'
<1>1. /\ got \in [Workers -> Cursors] /\ DOMAIN wpc = Workers
      /\ writers \in [Slots -> SUBSET Workers]
  BY DEF BaseInv, TypeOK
<1>2. wpc[w] \in {"eid", "read"} => got[w].idx \in Slots
  BY DEF BaseInv, TypeOK, Holding
<1> USE <1>1, <1>2 DEF BaseInv, WritersRead
<1>a. CASE LoadCursor(w)
  BY <1>a DEF LoadCursor, pool, main, memory
<1>b. CASE ReadEid(w)
  BY <1>b DEF ReadEid, pool, main
<1>c. CASE FinishLoad(w)
  BY <1>c DEF FinishLoad, pool, main, local
<1>d. CASE \/ Check(w) \/ TestBound(w) \/ CasWins(w) \/ CasFails(w) \/ ReadLayer(w) \/ SetReady(w)
  <2>1. got' = got /\ writers' = writers
    BY <1>d DEF Check, TestBound, CasWins, CasFails, ReadLayer, SetReady, local, memory
  <2>2. \A v \in Workers : wpc'[v] = "read" <=> wpc[v] = "read"
    BY <1>d DEF Check, TestBound, CasWins, CasFails, ReadLayer, SetReady
  <2> QED
    BY <2>1, <2>2
<1> QED
  BY <1>a, <1>b, <1>c, <1>d DEF Worker

LEMMA OrdersMain == ASSUME BaseInv, Main PROVE Orders' /\ AllLoaded'
<1>1. /\ plan' = plan /\ mq \in Nat /\ eids \in [Slots -> Jobs] /\ Slots \subseteq Nat
      /\ plan[block] \in Nat /\ mode \in {"new", "pipe", "sync"}
      /\ DOMAIN slab = Slots
  BY SamePlan, PlanFacts DEF BaseInv, TypeOK, Slots, Next
<1> USE <1>1 DEF BaseInv, Orders, AllLoaded, Phases
<1>a. CASE PipeInit
  BY <1>a DEF PipeInit, pool, local, memory
<1>b. CASE LoadBlocking
  BY <1>b DEF LoadBlocking, pool, local, Misses
<1>c. CASE StoreNjobs
  BY <1>c DEF StoreNjobs, local, memory, Misses
<1>d. CASE StoreLayer
  BY <1>d DEF StoreLayer, local, memory
<1>e. CASE StoreEid
  BY <1>e DEF StoreEid, local, memory, Misses
<1>f. CASE ResetReady
  BY <1>f DEF ResetReady, local, memory, Misses
<1>g. CASE Publish
  BY <1>g DEF Publish, local, memory
<1>h. CASE Broadcast
  BY <1>h DEF Broadcast, pool, local, memory
<1>i. CASE WaitReady
  BY <1>i DEF WaitReady, pool, local, memory
<1>j. CASE Matmul
  BY <1>j DEF Matmul, pool, local, memory, Misses
<1>k. CASE Promote
  BY <1>k DEF Promote, pool, local
<1> QED
  BY <1>a, <1>b, <1>c, <1>d, <1>e, <1>f, <1>g, <1>h, <1>i, <1>j, <1>k DEF Main

LEMMA OrdersWorker ==
    ASSUME BaseInv, NEW w \in Workers, Worker(w) PROVE Orders' /\ AllLoaded'
  BY WorkerFrame DEF main, BaseInv, Orders, AllLoaded

LEMMA BaseMain == ASSUME BaseInv, Main PROVE BaseInv'
  BY TypeMain, PhasesMain, WorkerGensMain, WritersMain, OrdersMain, MainStep DEF BaseInv

LEMMA BaseWorker == ASSUME BaseInv, NEW w \in Workers, Worker(w) PROVE BaseInv'
  BY TypeWorker, PhasesWorker, WorkerGensWorker, WritersWorker, OrdersWorker, WorkerStep
     DEF BaseInv

-----------------------------------------------------------------------------
(* The part that needs blocks that never grow *)

\* The pool is started with every worker at the top of its loop.
LEMMA HandoverBegins == ASSUME BaseInv, PipeInit, mode' = "pipe" PROVE Handover'
<1>1. mpc = "start" /\ mpc' = "start" /\ block = 1 /\ cur' = cur /\ cur.gen = 0 /\ cur.idx \in Nat
  BY Numbers DEF PipeInit, pool, BaseInv, Phases
<1>2. \A w \in Workers : wpc'[w] \in {"check", "off"}
  BY DEF PipeInit
<1>3. Holding' = {}
  BY <1>2 DEF Holding
<1> QED
  BY <1>1, <1>2, <1>3 DEF Handover, OwnBound, Drained, NoWrongGeneration, LayerRead, Flags, Slabs,
                          Between, InBlock, Count

\* Every flag is up, so nobody holds a job and the cursor is past the last one.
LEMMA AllReady ==
    ASSUME BaseInv, Handover, mode = "pipe", mpc = "matmul", plan[block] <= mq + 1
    PROVE  Holding = {} /\ cur.idx >= Count(cur.gen)
<1>1. /\ plan[block] \in 1 .. MaxJobs /\ MaxJobs \in Nat /\ block # 0 /\ mq \in Nat
      /\ cur.idx \in Nat
  BY PlanFacts, Numbers DEF BaseInv, TypeOK, Slots
<1>2. cur.gen = block /\ njobs = plan[block]
  BY DEF BaseInv, Phases, Between
<1>3. \A q \in Slots : q < plan[block] => q < cur.idx /\ \A w \in Holding : got[w].idx # q
  BY <1>1 DEF Handover, Flags, InBlock, Slots
<1>4. \A w \in Holding : got[w].idx \in Slots /\ got[w].idx < plan[block]
  BY <1>2 DEF BaseInv, TypeOK, Handover, NoWrongGeneration
<1>5. plan[block] - 1 < cur.idx
  BY <1>1, <1>3 DEF Slots
<1> QED
  BY <1>1, <1>2, <1>3, <1>4, <1>5 DEF Count

LEMMA HandoverMain ==
    ASSUME BaseInv, Handover, NeverGrowing, mode = "pipe", Main
    PROVE  Handover'
<1>1. /\ plan' = plan /\ \A b \in 1 .. Len(plan) : plan[b] \in 1 .. MaxJobs
      /\ block \in 1 .. Len(plan) /\ Len(plan) \in Nat /\ MaxJobs \in Nat
      /\ mq \in Nat /\ Slots \subseteq Nat
  BY SamePlan, PlanFacts DEF BaseInv, TypeOK, Slots, Next
<1>2. StoreNjobs \/ StoreLayer \/ StoreEid \/ ResetReady \/ Publish \/ Broadcast \/ WaitReady
        \/ Matmul \/ Promote
  BY DEF Main, PipeInit, LoadBlocking
<1>3. /\ UNCHANGED local
      /\ \A w \in Workers : wpc'[w] = wpc[w] \/ (wpc[w] = "parked" /\ wpc'[w] = "check")
  BY <1>2 DEF StoreNjobs, StoreLayer, StoreEid, ResetReady, Publish, Broadcast, WaitReady, Matmul,
              Promote, BaseInv, TypeOK
<1>4. Holding' = Holding
  BY <1>3 DEF Holding
<1>5. LayerRead'
  BY <1>3, <1>4 DEF Handover, LayerRead, local, Holding
<1>6. Slabs'
  <2>1. CASE Promote
    <3>1. Holding = {}
      BY <2>1 DEF Promote, Handover, Drained
    <3> QED
      BY <1>4, <3>1 DEF Slabs, Holding
  <2>2. CASE ~Promote
    <3>1. slab' = slab
      BY <1>2, <2>2 DEF StoreNjobs, StoreLayer, StoreEid, ResetReady, Publish, Broadcast,
                        WaitReady, Matmul, memory
    <3> QED
      BY <1>3, <3>1 DEF Handover, Slabs, local
  <2> QED
    BY <2>1, <2>2
\* The new bound is no larger than the one that those about to test it expect.
<1>7. OwnBound'
  <2>1. CASE StoreNjobs
    <3>1. njobs' = plan[block] /\ njobs = Count(block - 1) /\ cur.gen = block - 1
      BY <2>1 DEF StoreNjobs, Misses, BaseInv, Phases, Between
    <3>2. ASSUME NEW w \in Workers, wpc[w] = "bound" PROVE njobs' <= plan[got[w].gen]
      <4>1. 1 <= got[w].gen /\ got[w].gen <= cur.gen /\ got[w].gen \in Nat
        BY <3>2, Numbers DEF BaseInv, WorkerGens
      <4>2. plan[block] <= plan[block - 1]
        BY <1>1, <3>1, <4>1 DEF NeverGrowing
      <4>3. Count(block - 1) <= plan[got[w].gen]
        BY <3>1, <3>2 DEF Handover, OwnBound
      <4>4. plan[block - 1] \in Int /\ plan[block] \in Int /\ plan[got[w].gen] \in Int
        BY <1>1, <3>1, <4>1
      <4> QED
        BY <1>1, <3>1, <4>1, <4>2, <4>3, <4>4 DEF Count
    <3> QED
      BY <1>1, <1>3, <3>2 DEF Handover, OwnBound, local
  <2>2. CASE ~StoreNjobs
    <3>1. njobs' = njobs
      BY <1>2, <2>2 DEF StoreLayer, StoreEid, ResetReady, Publish, Broadcast, WaitReady, Matmul,
                        Promote, pool
    <3> QED
      BY <1>1, <1>3, <3>1 DEF Handover, OwnBound, local
  <2> QED
    BY <2>1, <2>2
<1>8. NoWrongGeneration'
  <2>1. CASE StoreNjobs \/ Publish
    <3>1. Holding = {}
      BY <2>1 DEF StoreNjobs, Publish, Handover, Drained, Between
    <3> QED
      BY <1>4, <3>1 DEF NoWrongGeneration
  <2>2. CASE ~StoreNjobs /\ ~Publish
    <3>1. njobs' = njobs /\ cur' = cur
      BY <1>2, <2>2 DEF StoreLayer, StoreEid, ResetReady, Broadcast, WaitReady, Matmul,
                        Promote, pool
    <3> QED
      BY <1>3, <1>4, <3>1 DEF Handover, NoWrongGeneration, local, Holding
  <2> QED
    BY <2>1, <2>2
<1>9. Drained'
  <2>1. CASE Matmul
    <3>1. mpc' \in {"wait", "promote"} /\ (mpc' = "promote" => plan[block] <= mq + 1) /\ cur' = cur
      BY <1>1, <2>1 DEF Matmul, Misses, pool
    <3>2. mpc' = "promote" => Holding = {} /\ cur.idx >= Count(cur.gen)
      BY <2>1, <3>1, AllReady DEF Matmul
    <3> QED
      BY <1>1, <1>4, <3>1, <3>2 DEF Drained, Between, Count
  <2>2. CASE Publish \/ Broadcast \/ WaitReady
    <3>1. mpc' \in {"broadcast", "wait", "matmul"}
      BY <2>2 DEF Publish, Broadcast, WaitReady
    <3> QED
      BY <3>1 DEF Drained, Between
  <2>3. CASE StoreNjobs \/ StoreLayer \/ StoreEid \/ ResetReady \/ Promote
    <3>1. cur' = cur /\ (Between \/ mpc \in {"promote", "done"})
      BY <2>3 DEF StoreNjobs, StoreLayer, StoreEid, ResetReady, Promote, pool, Between
    <3> QED
      BY <1>1, <1>4, <3>1 DEF Handover, Drained, Count
  <2> QED
    BY <1>2, <2>1, <2>2, <2>3
<1>10. Flags'
  <2> USE <1>1 DEF Flags, InBlock
  <2>1. CASE StoreNjobs
    BY <2>1 DEF StoreNjobs
  <2>2. CASE StoreLayer
    BY <2>2 DEF StoreLayer
  <2>3. CASE StoreEid
    BY <2>3 DEF StoreEid
  <2>4. CASE ResetReady
    <3>1. ready \in [Slots -> BOOLEAN] /\ mq \in Slots
      BY DEF BaseInv, TypeOK
    <3> QED
      BY <2>4, <3>1 DEF ResetReady, Misses, Handover
  <2>5. CASE Publish
    BY <2>5 DEF Publish, Handover
  <2>6. CASE Broadcast
    <3>1. mq = 0
      BY <2>6 DEF Broadcast, BaseInv, Phases
    <3> QED
      BY <1>3, <1>4, <2>6, <3>1 DEF Broadcast, Handover, pool, memory, local
  <2>7. CASE WaitReady
    <3>1. /\ mpc = "wait" /\ mpc' = "matmul" /\ ready[mq]
          /\ UNCHANGED <<cur, ready, block, mq, got, slab, writers>>
      BY <1>3, <2>7 DEF WaitReady, pool, memory, local
    <3>2. \A q \in Slots : q <= mq => q < mq \/ q = mq
      BY <1>1
    <3>3. \A q \in Slots : q <= mq => ready[q]
      BY <3>1, <3>2 DEF Handover
    <3> QED
      BY <1>4, <3>1, <3>3 DEF Handover
  <2>8. CASE Matmul
    BY <1>3, <1>4, <2>8 DEF Matmul, Misses, Handover, pool, memory, local
  <2>9. CASE Promote
    BY <2>9 DEF Promote
  <2> QED
    BY <1>2, <2>1, <2>2, <2>3, <2>4, <2>5, <2>6, <2>7, <2>8, <2>9
<1> QED
  BY <1>5, <1>6, <1>7, <1>8, <1>9, <1>10 DEF Handover

\* A CAS can be won in the middle of a block only: elsewhere the cursor stands at or
\* beyond the bound that the winner has passed.
LEMMA WinsInBlock ==
    ASSUME BaseInv, Handover, mode = "pipe", NEW w \in Workers, CasWins(w)
    PROVE  /\ mpc \in {"broadcast", "wait", "matmul"}
           /\ cur.gen = block /\ njobs = plan[block] /\ cur.idx < njobs
<1>1. cur = got[w] /\ wpc[w] = "cas" /\ cur.idx < plan[cur.gen] /\ 1 <= cur.gen
  BY DEF CasWins, Handover, OwnBound, BaseInv, WorkerGens
<1>2. cur.gen \in 1 .. Len(plan) /\ cur.idx \in Nat /\ plan[cur.gen] \in Nat
  <2>1. cur.gen \in Gens /\ Len(plan) \in Nat
    BY PlanFacts DEF BaseInv, TypeOK, Cursors
  <2>2. cur.gen \in 1 .. Len(plan)
    BY <1>1, <2>1 DEF Gens
  <2> QED
    BY <2>2, PlanFacts, Numbers DEF BaseInv
<1>3. ~(Between \/ mpc \in {"promote", "done"})
  BY <1>1, <1>2 DEF Handover, Drained, Count
<1>4. mpc \in {"broadcast", "wait", "matmul"}
  BY <1>3 DEF BaseInv, TypeOK, Between
<1> QED
  BY <1>1, <1>4 DEF BaseInv, Phases, Between

LEMMA HandoverWorker ==
    ASSUME BaseInv, Handover, NeverGrowing, mode = "pipe", NEW w \in Workers, Worker(w)
    PROVE  Handover'
<1>1. /\ UNCHANGED <<plan, mpc, block, mq, njobs, layer, eids>> /\ cur'.gen = cur.gen
  BY WorkerFrame DEF main
<1>2. /\ \A b \in 1 .. Len(plan) : plan[b] \in 1 .. MaxJobs
      /\ block \in 1 .. Len(plan) /\ Len(plan) \in Nat
  BY PlanFacts DEF BaseInv
<1>3. /\ cur.gen \in Nat /\ cur.idx \in Nat /\ njobs \in Nat
      /\ \A v \in Workers : got[v].gen \in Nat /\ got[v].idx \in Nat
  BY Numbers
<1>4. /\ got \in [Workers -> Cursors] /\ DOMAIN wpc = Workers /\ DOMAIN wlayer = Workers
      /\ DOMAIN weid = Workers /\ DOMAIN slab = Slots /\ DOMAIN ready = Slots
      /\ DOMAIN writers = Slots /\ \A v \in Holding : got[v].idx \in Slots
  BY DEF BaseInv, TypeOK
\* Steps of a worker without a job, and of one that does not get it.
<1>a. CASE Check(w) \/ LoadCursor(w) \/ TestBound(w) \/ CasFails(w)
  <2>1. UNCHANGED <<cur, ready, wlayer, weid, slab, writers>>
    BY <1>a DEF Check, LoadCursor, TestBound, CasFails, pool, local, memory
  <2>2. w \notin Holding /\ Holding' = Holding /\ \A v \in Holding : wpc'[v] = wpc[v] /\ got'[v] = got[v]
    BY <1>4, <1>a DEF Check, LoadCursor, TestBound, CasFails, local, Holding
  <2>3. OwnBound'
    <3>1. CASE LoadCursor(w)
      <4>1. 1 <= cur.gen /\ wpc[w] = "load"
        BY <3>1 DEF LoadCursor, BaseInv, WorkerGens
      <4>2. njobs <= plan[cur.gen]
        <5>1. CASE Between
          <6>1. cur.gen = block - 1 /\ block - 1 \in 1 .. Len(plan) - 1
            BY <1>2, <4>1, <5>1 DEF BaseInv, Phases
          <6>2. plan[block] <= plan[block - 1]
            BY <1>2, <6>1 DEF NeverGrowing
          <6> QED
            BY <1>2, <6>1, <6>2 DEF BaseInv, Phases, Count
        <5>2. CASE ~Between
          BY <1>2, <5>2 DEF BaseInv, Phases, Between
        <5> QED
          BY <5>1, <5>2
      <4> QED
        BY <1>1, <1>4, <3>1, <4>2 DEF LoadCursor, Handover, OwnBound
    <3>2. CASE TestBound(w)
      <4>1. wpc[w] = "bound" => njobs <= plan[got[w].gen]
        BY DEF Handover, OwnBound
      <4>2. wpc[w] = "bound" => got[w].gen \in 1 .. Len(plan)
        <5>1. got[w].gen \in Gens
          BY <1>4 DEF Cursors
        <5> QED
          BY <1>2, <1>3, <5>1 DEF BaseInv, WorkerGens, Gens
      <4>3. wpc[w] = "bound" => plan[got[w].gen] \in Nat
        BY <1>2, <4>2
      <4> QED
        BY <1>1, <1>3, <1>4, <3>2, <4>1, <4>3 DEF TestBound, Handover, OwnBound, local
    <3>3. CASE Check(w) \/ CasFails(w)
      BY <1>1, <1>4, <3>3 DEF Check, CasFails, Handover, OwnBound, local
    <3> QED
      BY <1>a, <3>1, <3>2, <3>3
  <2>4. Drained' /\ NoWrongGeneration' /\ LayerRead'
    BY <1>1, <2>1, <2>2 DEF Handover, Drained, NoWrongGeneration, LayerRead, Between, Count
  <2>5. Flags'
    BY <1>1, <2>1, <2>2 DEF Handover, Flags, InBlock
  <2>6. Slabs'
    BY <2>1, <2>2 DEF Handover, Slabs, Holding
  <2> QED
    BY <2>3, <2>4, <2>5, <2>6 DEF Handover
<1>b. CASE CasWins(w)
  <2>1. /\ cur = got[w] /\ got' = got /\ wpc' = [wpc EXCEPT ![w] = "layer"]
        /\ UNCHANGED <<ready, wlayer, weid, slab, writers>>
    BY <1>b DEF CasWins, local, memory
  <2>2. cur'.idx = cur.idx + 1
    BY <1>b DEF CasWins, BaseInv, TypeOK, Cursors
  <2>3. /\ mpc \in {"broadcast", "wait", "matmul"}
        /\ cur.gen = block /\ njobs = plan[block] /\ cur.idx < njobs
    BY <1>b, WinsInBlock
  <2>4. Holding' = Holding \cup {w}
    BY <1>4, <2>1 DEF Holding
  <2>5. OwnBound'
    BY <1>1, <1>4, <2>1 DEF Handover, OwnBound
  <2>6. Drained'
    BY <1>1, <2>3 DEF Drained, Between
  <2>7. NoWrongGeneration' /\ LayerRead'
    BY <1>1, <1>4, <2>1, <2>3, <2>4 DEF Handover, NoWrongGeneration, LayerRead, Holding
  <2>8. Flags'
    <3>1. \A q \in Slots : q < plan[block] /\ ready[q] => q < cur.idx /\ q \in Nat
      BY <2>3 DEF Handover, Flags, InBlock, Slots
    <3> QED
      BY <1>1, <1>3, <2>1, <2>2, <2>3, <2>4, <3>1 DEF Handover, Flags, InBlock
  <2>9. Slabs'
    BY <1>4, <2>1 DEF Handover, Slabs
  <2> QED
    BY <2>5, <2>6, <2>7, <2>8, <2>9 DEF Handover
\* Steps of a worker that holds a job of the block.
<1>c. CASE ReadLayer(w) \/ ReadEid(w) \/ FinishLoad(w) \/ SetReady(w)
  <2>1. /\ w \in Holding /\ UNCHANGED <<cur, got>> /\ Holding' \subseteq Holding
        /\ \A v \in Workers \ {w} : wpc'[v] = wpc[v] /\ wlayer'[v] = wlayer[v] /\ weid'[v] = weid[v]
    BY <1>4, <1>c DEF ReadLayer, ReadEid, FinishLoad, SetReady, pool, local, Holding
  <2>2. mpc \in {"broadcast", "wait", "matmul"}
    BY <2>1 DEF Handover, Drained, Between, BaseInv, TypeOK
  <2>3. /\ cur.gen = block /\ njobs = plan[block] /\ layer = block
        /\ \A v \in Holding : got[v].gen = block /\ got[v].idx < plan[block]
    BY <2>2 DEF BaseInv, Phases, Between, Handover, NoWrongGeneration
  <2>4. \A v \in Holding \ {w} : got[v].idx # got[w].idx
    <3>1. \A c, d \in Cursors : c.gen = d.gen /\ c.idx = d.idx => c = d
      BY DEF Cursors
    <3> QED
      BY <1>4, <2>1, <2>3, <3>1 DEF BaseInv, CursorInv, JobTakenOnce, Holding
  <2>5. /\ got[w].idx \in Slots
        /\ eids[got[w].idx] = Job(block, got[w].idx) /\ ~ready[got[w].idx]
    BY <1>4, <2>1, <2>2, <2>3 DEF BaseInv, Orders, Handover, Flags, InBlock
  <2>6. OwnBound'
    <3>1. wpc'[w] \notin {"bound", "cas"}
      BY <1>4, <1>c DEF ReadLayer, ReadEid, FinishLoad, SetReady
    <3> QED
      BY <1>1, <2>1, <3>1 DEF Handover, OwnBound
  <2>7. Drained'
    BY <1>1, <2>2 DEF Drained, Between
  <2>8. NoWrongGeneration' /\ LayerRead'
    BY <1>1, <1>4, <1>c, <2>1, <2>3, <2>5
       DEF Handover, NoWrongGeneration, LayerRead, Holding, ReadLayer, ReadEid, FinishLoad,
           SetReady, pool, local
  <2>9. Flags' /\ Slabs'
    <3>1. CASE ReadLayer(w)
      BY <1>1, <1>4, <2>1, <2>2, <3>1 DEF ReadLayer, Handover, Flags, Slabs, InBlock, pool, memory
    <3>2. CASE ReadEid(w)
      <4>1. writers[got[w].idx] = {}
        BY <2>4, <2>5, <3>2 DEF ReadEid, BaseInv, TypeOK, WritersRead, Holding
      <4>2. /\ slab' = [slab EXCEPT ![got[w].idx] = Partial] /\ ready' = ready
            /\ writers' = [writers EXCEPT ![got[w].idx] = writers[got[w].idx] \cup {w}]
            /\ wpc' = [wpc EXCEPT ![w] = "read"]
        BY <3>2, <4>1 DEF ReadEid, pool
      <4>3. Flags'
        BY <1>1, <1>4, <2>1, <2>2, <2>5, <4>2 DEF Handover, Flags, InBlock
      <4>4. Slabs'
        BY <1>4, <2>1, <2>4, <2>5, <4>2 DEF Handover, Slabs, Holding, Partial, Torn
      <4> QED
        BY <4>3, <4>4
    <3>3. CASE FinishLoad(w)
      <4>1. /\ wpc[w] = "read" /\ wpc' = [wpc EXCEPT ![w] = "ready"] /\ ready' = ready
            /\ writers' = [writers EXCEPT ![got[w].idx] = writers[got[w].idx] \ {w}]
            /\ slab[got[w].idx] # Torn
            /\ slab' = [slab EXCEPT ![got[w].idx] = Weights(wlayer[w], weid[w])]
        BY <3>3 DEF FinishLoad, pool, Handover, Slabs
      <4>2. wlayer[w] = got[w].gen /\ weid[w] = Job(got[w].gen, got[w].idx)
        BY <2>1, <4>1 DEF Handover, NoWrongGeneration
      <4>3. Flags'
        BY <1>1, <1>4, <2>1, <2>2, <2>5, <4>1 DEF Handover, Flags, InBlock
      <4>4. Slabs'
        BY <1>4, <2>1, <2>4, <2>5, <4>1, <4>2 DEF Handover, Slabs, Holding
      <4> QED
        BY <4>3, <4>4
    <3>4. CASE SetReady(w)
      <4>1. /\ wpc[w] = "ready" /\ wpc' = [wpc EXCEPT ![w] = "load"]
            /\ ready' = [ready EXCEPT ![got[w].idx] = TRUE] /\ UNCHANGED <<slab, writers>>
        BY <3>4 DEF SetReady, memory
      <4>2. slab[got[w].idx] = Weights(block, Job(block, got[w].idx))
        BY <2>1, <2>3, <4>1 DEF Handover, Slabs
      <4>3. writers[got[w].idx] = {}
        <5>1. \A v \in Workers : v \notin writers[got[w].idx]
          BY <2>4, <2>5, <4>1 DEF BaseInv, WritersRead, Holding
        <5> QED
          BY <2>5, <5>1 DEF BaseInv, TypeOK
      <4>4. got[w].idx < cur.idx
        BY <1>3, <2>1, <2>3 DEF BaseInv, CursorInv, HeldIsBehind, Before, Holding
      <4>5. \A v \in Holding' : v # w
        BY <1>4, <4>1 DEF Holding
      <4>6. Flags'
        BY <1>1, <1>4, <2>1, <2>2, <2>4, <2>5, <4>1, <4>2, <4>3, <4>4, <4>5
           DEF Handover, Flags, InBlock
      <4>7. Slabs'
        BY <1>4, <2>1, <4>1 DEF Handover, Slabs
      <4> QED
        BY <4>6, <4>7
    <3> QED
      BY <1>c, <3>1, <3>2, <3>3, <3>4
  <2> QED
    BY <2>6, <2>7, <2>8, <2>9 DEF Handover
<1> QED
  BY <1>a, <1>b, <1>c DEF Worker

LEMMA NextPipe == PipeInv /\ [Next]_vars => PipeInv'
<1> SUFFICES ASSUME PipeInv, [Next]_vars PROVE PipeInv'
  OBVIOUS
<1>1. CASE UNCHANGED vars
  BY <1>1 DEF vars, pool, main, local, memory, PipeInv, BaseInv, TypeOK, Phases, WorkerGens,
              WritersRead, Orders, AllLoaded, CursorInv, CursorTypes, HeldIsBehind, JobTakenOnce,
              Handover, OwnBound, Drained, NoWrongGeneration, LayerRead, Flags, Slabs,
              NeverGrowing, Holding, Between, InBlock, Count, Gens, Jobs, Cursors
<1>2. ASSUME NEW w \in Workers, Worker(w) PROVE PipeInv'
  <2>1. UNCHANGED <<plan, mode>>
    BY <1>2, WorkerFrame DEF PipeInv, main
  <2> QED
    BY <1>2, <2>1, BaseWorker, HandoverWorker DEF PipeInv, NeverGrowing
<1>3. CASE Main
  <2>1. BaseInv'
    BY <1>3, BaseMain DEF PipeInv
  <2>2. plan' = plan
    BY SamePlan
  <2>3. mode' = mode \/ PipeInit
    BY <1>3 DEF Main, LoadBlocking, StoreNjobs, StoreLayer, StoreEid, ResetReady, Publish,
                Broadcast, WaitReady, Matmul, Promote
  <2>4. NeverGrowing' /\ mode' = "pipe" => Handover'
    BY <1>3, <2>2, <2>3, HandoverBegins, HandoverMain DEF PipeInv, NeverGrowing
  <2> QED
    BY <2>1, <2>4 DEF PipeInv
<1> QED
  BY <1>1, <1>2, <1>3 DEF Next

THEOREM SpecPipeInv == Spec => []PipeInv
  BY InitBase, NextPipe, PTL DEF Spec

\* The types, for any number of threads, slots and blocks: no index leaves ws[],
\* ready[] or eids[], not even that of a straggler.
THEOREM SpecTypeOK == Spec => []TypeOK
  BY SpecPipeInv, PTL DEF PipeInv, BaseInv

\* THE INVARIANT of the comment above the pool, where no block is larger than the
\* one before it.
THEOREM SpecNoWrongGenerationUnlessGrowing == Spec => []NoWrongGenerationUnlessGrowing
<1>1. PipeInv => NoWrongGenerationUnlessGrowing
  BY DEF PipeInv, BaseInv, TypeOK, Phases, Handover, NoWrongGenerationUnlessGrowing,
         NoWrongGeneration, Holding
<1> QED
  BY <1>1, SpecPipeInv, PTL

\* Every matmul reads the expert it asked for, from a slab that nobody writes to.
THEOREM SpecMatmulReadsItsExpert == Spec => []MatmulReadsItsExpert
<1>1. PipeInv => MatmulReadsItsExpert
  <2> SUFFICES ASSUME PipeInv, NeverGrowing, mpc = "matmul"
               PROVE  slab[mq] = Weights(block, Job(block, mq)) /\ writers[mq] = {}
    BY DEF MatmulReadsItsExpert
  <2>1. mq \in Slots /\ mq < plan[block] /\ mq <= mq /\ writers[mq] \subseteq Workers
    BY DEF PipeInv, BaseInv, TypeOK, Phases, Slots
  <2>2. CASE mode = "pipe"
    BY <2>1, <2>2 DEF PipeInv, Handover, Flags, InBlock
  <2>3. CASE mode = "sync"
    BY <2>1, <2>3 DEF PipeInv, BaseInv, AllLoaded, WritersRead, Phases
  <2> QED
    BY <2>2, <2>3 DEF PipeInv, BaseInv, TypeOK, Phases
<1> QED
  BY <1>1, SpecPipeInv, PTL

\* Nobody holds a job when main recycles the slabs: the waits for the flags are the
\* drain barrier.
THEOREM SpecQuietAtPromotion == Spec => []QuietAtPromotion
<1>1. PipeInv => QuietAtPromotion
  BY DEF PipeInv, BaseInv, TypeOK, Phases, Handover, Drained, QuietAtPromotion, Holding
<1> QED
  BY <1>1, SpecPipeInv, PTL
=============================================================================
