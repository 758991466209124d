----------------------------- MODULE ExpertCache -----------------------------
(***************************************************************************)
(* The routed experts of c/glm.c in memory: per sparse layer a hot store   *)
(* of pinned slots and an LRU cache of `ecap` slots.  The main thread      *)
(* resolves the experts a layer routes to (pin, cache or a load into the   *)
(* working set ws[]), multiplies with them and promotes the misses.  With  *)
(* PILOT_REAL=1 a second thread loads experts predicted for the next layer *)
(* straight into that layer's cache, and pread() runs outside the mutex    *)
(* that the two threads share.  Weights are abstracted to the name of the  *)
(* expert they belong to, or Torn while they are written; the LRU clock to *)
(* the order it induces on the slots.  The loads of the misses themselves  *)
(* are PipePool's subject.                                                 *)
(***************************************************************************)
EXTENDS Integers, Sequences, FiniteSets, SequencesExt

CONSTANTS
    Experts,    \* the routed experts of a layer
    NLayers,    \* the transformer's layers, 0 .. NLayers-1
    Sparse,     \* those with experts
    Cap,        \* ecap, the slots of a layer's cache
    NPin,       \* npin[layer], its pinned slots
    Block,      \* experts resolved at a time, 64 in the code
    MaxNeed,    \* bound: experts that one visit of a layer routes to
    Ring,       \* capacity of the pilot's queue, 4096 in the code
    None, Torn

ASSUME ExpertCacheAssumption ==
    /\ NLayers \in Nat /\ Sparse \subseteq 0 .. NLayers - 1
    /\ Cap \in Nat \ {0} /\ NPin \in [Sparse -> Nat]
    /\ Block \in Nat \ {0} /\ MaxNeed \in Nat \ {0} /\ Ring \in Nat \ {0}
    /\ None \notin Experts /\ Torn \notin Experts

VARIABLES
    slot,      \* ecache[layer][z]: the expert it is said to hold, and its weights
    ecn,       \* ecn[layer]: slots in use
    lru,       \* the slots in use, least recently used first
    pin,       \* pin[layer][z]
    ws,        \* the working set; ws[j] is for the j-th expert of the block
    main,      \* where the main thread is, in which layer, on which experts
    cur,       \* g_cur_moe_layer
    pilotQ,    \* the pilot's queue of predictions
    pilot      \* what the pilot loads, and how far it is

cache == <<slot, ecn, lru>>
vars == <<slot, ecn, lru, pin, ws, main, cur, pilotQ, pilot>>

Full(e) == [eid |-> e, wt |-> e]
Hidden == [eid |-> None, wt |-> Torn]
Slots == {Full(e) : e \in Experts} \cup {Hidden}

\* A pinned slot keeps the old expert's name until the new one's weights are in.
Overwritten(e) == [eid |-> e, wt |-> Torn]
Pins == {Full(e) : e \in Experts} \cup {Overwritten(e) : e \in Experts}

Places == [in : {"pin"}, z : Nat] \cup [in : {"cache"}, z : 1 .. Cap] \cup [in : {"ws"}, z : {0}]
InMoe == {"resolve", "load", "matmul", "promote"}
\* Lists of distinct experts.
Routes == UNION {{s \in [1 .. n -> Experts] : \A i, j \in 1 .. n : s[i] = s[j] => i = j}
                   : n \in 0 .. MaxNeed}

Resting == [at |-> "none"]
Loading == [at : {"load", "publish"}, l : Sparse, e : Experts, z : 1 .. Cap, new : BOOLEAN]
Away == [at |-> "idle", layer |-> 0, need |-> <<>>, use |-> <<>>]

\* What the variables may hold.
TypeOK ==
    /\ slot \in [Sparse -> [1 .. Cap -> Slots]]
    /\ ecn \in [Sparse -> 0 .. Cap]
    /\ \A l \in Sparse : Len(lru[l]) = ecn[l] /\ {lru[l][i] : i \in 1 .. ecn[l]} = 1 .. ecn[l]
    /\ \A l \in Sparse : pin[l] \in [1 .. NPin[l] -> Pins]
    /\ ws \in [1 .. Block -> Slots]
    /\ main \in [at : {"idle", "repin", "attn", "wait"} \cup InMoe, layer : 0 .. NLayers, need : Routes, use : Seq(Places)]
    /\ Len(main.use) <= Block
    /\ cur \in -1 .. NLayers
    /\ pilotQ \in Seq([l : Sparse, e : Experts])
    /\ Len(pilotQ) <= Ring
    /\ pilot \in {Resting} \cup Loading

Init ==
    /\ slot = [l \in Sparse |-> [z \in 1 .. Cap |-> Hidden]]
    /\ ecn = [l \in Sparse |-> 0]
    /\ lru = [l \in Sparse |-> <<>>]
    /\ pin \in {p \in [Sparse -> UNION {[1 .. NPin[l] -> {Full(e) : e \in Experts}] : l \in Sparse}] :
                  \A l \in Sparse : /\ DOMAIN p[l] = 1 .. NPin[l]
                                    /\ \A y, z \in 1 .. NPin[l] : p[l][y] = p[l][z] => y = z}
    /\ ws = [j \in 1 .. Block |-> Hidden]
    /\ main = Away
    /\ cur = -1
    /\ pilotQ = <<>>
    /\ pilot = Resting

Pinned(l, e) == \E z \in 1 .. NPin[l] : pin[l][z].eid = e
Cached(l, e) == \E z \in 1 .. ecn[l] : slot[l][z].eid = e

\* g_pilot_inflight.
Inflight == IF pilot.at = "none" THEN -1 ELSE pilot.l

-----------------------------------------------------------------------------
(* The main thread *)

\* layers_forward(): a new pass takes the layers back.
Forward ==
    /\ main.at = "idle"
    /\ cur' = -1
    /\ main' = [Away EXCEPT !.at = "attn"]
    /\ UNCHANGED <<cache, pin, ws, pilotQ, pilot>>

\* The MTP layer is layer n_layers, outside layers_forward().  No prediction is
\* made for it, so of its visit only the barrier reaches the other layers.
Mtp ==
    /\ main.at = "idle"
    /\ cur' = NLayers
    /\ UNCHANGED <<cache, pin, ws, main, pilotQ, pilot>>

\* pilot_prefetch(): one expert predicted for the next layer; a full queue drops
\* it.  The scan takes the mutex, the queue does not need it.
Predict(e) ==
    /\ main.at = "attn" /\ main.layer + 1 \in Sparse
    /\ ~Pinned(main.layer + 1, e) /\ ~Cached(main.layer + 1, e)
    /\ Len(pilotQ) < Ring
    /\ pilotQ' = Append(pilotQ, [l |-> main.layer + 1, e |-> e])
    /\ UNCHANGED <<cache, pin, ws, main, cur, pilot>>

Onward == IF main.layer + 1 < NLayers
          THEN [Away EXCEPT !.at = "attn", !.layer = main.layer + 1] ELSE Away

DenseLayer ==
    /\ main.at = "attn" /\ main.layer \notin Sparse
    /\ main' = Onward
    /\ UNCHANGED <<cache, pin, ws, cur, pilotQ, pilot>>

\* Mutant of EnterMoe: the layer is taken, a load in flight is not waited for.
BargeIntoMoe ==
    /\ main.at \in {"attn", "wait"} /\ main.layer \in Sparse
    /\ cur' = main.layer
    /\ \E s \in Routes \ {<<>>} : main' = [main EXCEPT !.at = "resolve", !.need = s]
    /\ UNCHANGED <<cache, pin, ws, pilotQ, pilot>>

\* The barrier at the top of moe(), then the routing.
EnterMoe ==
    /\ main.at \in {"attn", "wait"} /\ main.layer \in Sparse
    /\ cur' = main.layer
    /\ IF Inflight = main.layer
       THEN main' = [main EXCEPT !.at = "wait"]
       ELSE \E s \in Routes \ {<<>>} : main' = [main EXCEPT !.at = "resolve", !.need = s]
    /\ UNCHANGED <<cache, pin, ws, pilotQ, pilot>>

Place(l, e) ==
    CASE Pinned(l, e) -> [in |-> "pin", z |-> CHOOSE z \in 1 .. NPin[l] : pin[l][z].eid = e]
      [] ~Pinned(l, e) /\ Cached(l, e) ->
           [in |-> "cache", z |-> CHOOSE z \in 1 .. ecn[l] : slot[l][z].eid = e]
      [] ~Pinned(l, e) /\ ~Cached(l, e) -> [in |-> "ws", z |-> 0]

\* The order once slot z has been used: it is the newest.
Touched(order, z) ==
    IF \E i \in DOMAIN order : order[i] = z
    THEN Append(RemoveAt(order, CHOOSE i \in DOMAIN order : order[i] = z), z)
    ELSE Append(order, z)

\* Mutant of Stamped: a hit does not count as a use.
Unstamped(order, use) == order

\* The order after the look-ups `use`, each hit in turn.
Stamped(order, use) ==
    LET after[j \in 0 .. Len(use)] ==
          IF j = 0 THEN order
          ELSE IF use[j].in = "cache" THEN Touched(after[j - 1], use[j].z) ELSE after[j - 1]
    IN after[Len(use)]

Resolve ==
    /\ main.at = "resolve"
    /\ LET nb == IF Len(main.need) < Block THEN Len(main.need) ELSE Block
           use == [j \in 1 .. nb |-> Place(main.layer, main.need[j])]
       IN /\ main' = [main EXCEPT !.at = "load", !.use = use]
          /\ lru' = [lru EXCEPT ![main.layer] = Stamped(@, use)]
    /\ UNCHANGED <<slot, ecn, pin, ws, cur, pilotQ, pilot>>

Miss(j) == j \in DOMAIN main.use /\ main.use[j].in = "ws"
NMiss == Cardinality({j \in DOMAIN main.use : Miss(j)})

\* The misses of the block, by pipe_worker() or the OpenMP loop.
LoadMisses ==
    /\ main.at = "load"
    /\ ws' = [j \in 1 .. Block |-> IF Miss(j) THEN Full(main.need[j]) ELSE ws[j]]
    /\ main' = [main EXCEPT !.at = "matmul"]
    /\ UNCHANGED <<cache, pin, cur, pilotQ, pilot>>

Matmul ==
    /\ main.at = "matmul"
    /\ main' = [main EXCEPT !.at = "promote"]
    /\ UNCHANGED <<cache, pin, ws, cur, pilotQ, pilot>>

Promoted == IF NMiss < Cap THEN NMiss ELSE Cap

\* The last miss goes first, into a free slot or the least recently used one.
\* None is given away twice: what has just been filled is the newest.
Target(l, a) == IF ecn[l] + a <= Cap THEN ecn[l] + a ELSE lru[l][ecn[l] + a - Cap]
Turn(j) == Cardinality({i \in DOMAIN main.use : i >= j /\ Miss(i)})

Promote ==
    /\ main.at = "promote"
    /\ LET l == main.layer
           full == ecn[l] + Promoted > Cap
           Mover(z) == {j \in DOMAIN main.use :
                          Miss(j) /\ Turn(j) <= Promoted /\ Target(l, Turn(j)) = z}
       IN /\ slot' = [slot EXCEPT ![l] = [z \in 1 .. Cap |->
                        IF Mover(z) = {} THEN slot[l][z] ELSE ws[CHOOSE j \in Mover(z) : TRUE]]]
          /\ ecn' = [ecn EXCEPT ![l] = IF full THEN Cap ELSE @ + Promoted]
          /\ lru' = [lru EXCEPT ![l] =
                       (IF full THEN SubSeq(@, ecn[l] + Promoted - Cap + 1, ecn[l]) ELSE @)
                         \o [a \in 1 .. Promoted |-> Target(l, a)]]
    /\ main' = IF Len(main.need) > Len(main.use)
               THEN [main EXCEPT !.at = "resolve", !.use = <<>>,
                                 !.need = SubSeq(@, Len(main.use) + 1, Len(@))]
               ELSE Onward
    /\ ws' = [j \in 1 .. Block |-> Hidden]    \* nobody reads it before the next load
    /\ UNCHANGED <<pin, cur, pilotQ, pilot>>

\* repin_pass() between two turns; which expert is hot and which slot is cold is
\* left open.  It loads on this thread, without the pilot's mutex: the pilot reads
\* the names of the pinned slots meanwhile.  A failed load is the end of the program.
RepinStarts ==
    /\ main.at = "idle"
    /\ \E l \in Sparse, e \in Experts : \E z \in 1 .. NPin[l] :
         /\ ~Pinned(l, e)
         /\ pin' = [pin EXCEPT ![l][z].wt = Torn]
         /\ main' = [Away EXCEPT !.at = "repin", !.layer = l, !.need = <<e>>]
    /\ UNCHANGED <<cache, ws, cur, pilotQ, pilot>>

RepinEnds ==
    /\ main.at = "repin"
    /\ \E z \in 1 .. NPin[main.layer] :
         /\ pin[main.layer][z].wt = Torn
         /\ pin' = [pin EXCEPT ![main.layer][z] = Full(Head(main.need))]
    /\ main' = Away
    /\ UNCHANGED <<cache, ws, cur, pilotQ, pilot>>

-----------------------------------------------------------------------------
(* The pilot thread *)

\* Mutant of Useless: whether the expert came in meanwhile is not looked at again.
TooLate(o) == o.l <= cur

\* The main thread has got there first, or the expert is there already.
Useless(o) == o.l <= cur \/ Pinned(o.l, o.e) \/ Cached(o.l, o.e)

PilotDrops ==
    /\ pilot.at = "none" /\ pilotQ # <<>>
    /\ Useless(Head(pilotQ))
    /\ pilotQ' = Tail(pilotQ)
    /\ UNCHANGED <<cache, pin, ws, main, cur, pilot>>

\* Mutant of Room: an off-by-one at the size of the cache.
RoomBeyond(l) == ecn[l] <= Cap

Room(l) == ecn[l] < Cap

\* Under the mutex: choose a slot, hide it.
PilotTakes ==
    /\ pilot.at = "none" /\ pilotQ # <<>>
    /\ ~Useless(Head(pilotQ))
    /\ LET o == Head(pilotQ)
           z == IF Room(o.l) THEN ecn[o.l] + 1 ELSE lru[o.l][1]
       IN /\ slot' = [slot EXCEPT ![o.l][z] = Hidden]
          /\ pilot' = [at |-> "load", l |-> o.l, e |-> o.e, z |-> z, new |-> Room(o.l)]
    /\ UNCHANGED <<ecn, lru, pin, ws, main, cur, pilotQ>>

\* expert_load() ends with the slot's new name, outside the mutex.
PilotLoads ==
    /\ pilot.at = "load"
    /\ slot' = [slot EXCEPT ![pilot.l][pilot.z] = Full(pilot.e)]
    /\ pilot' = [pilot EXCEPT !.at = "publish"]
    /\ UNCHANGED <<ecn, lru, pin, ws, main, cur, pilotQ>>

\* Mutant of PilotPublishes: the load counts as in flight for good.
PublishStillInflight ==
    /\ pilot.at = "publish"
    /\ ecn' = [ecn EXCEPT ![pilot.l] = IF pilot.new THEN pilot.z ELSE @]
    /\ lru' = [lru EXCEPT ![pilot.l] = Touched(@, pilot.z)]
    /\ UNCHANGED <<slot, pin, ws, main, cur, pilotQ, pilot>>

\* Under the mutex again: a new slot is counted, the slot is the newest.
PilotPublishes ==
    /\ pilot.at = "publish"
    /\ ecn' = [ecn EXCEPT ![pilot.l] = IF pilot.new THEN pilot.z ELSE @]
    /\ lru' = [lru EXCEPT ![pilot.l] = Touched(@, pilot.z)]
    /\ pilot' = Resting
    /\ pilotQ' = Tail(pilotQ)
    /\ UNCHANGED <<slot, pin, ws, main, cur>>

\* A read error: the slot stays hidden, as the oldest one it was.
PilotFails ==
    /\ pilot.at = "load"
    /\ pilot' = Resting
    /\ pilotQ' = Tail(pilotQ)
    /\ UNCHANGED <<cache, pin, ws, main, cur>>

-----------------------------------------------------------------------------
Compute == DenseLayer \/ EnterMoe \/ Resolve \/ LoadMisses \/ Matmul \/ Promote
Main == Forward \/ Mtp \/ (\E e \in Experts : Predict(e)) \/ Compute \/ RepinStarts \/ RepinEnds
Pilot == PilotDrops \/ PilotTakes \/ PilotLoads \/ PilotPublishes \/ PilotFails
Next == Main \/ Pilot

Spec == Init /\ [][Next]_vars

\* Both threads run; a pread() returns, with data or with an error; the loop
\* over the layers goes on.  Nobody has to start another pass.
FairSpec == Spec /\ WF_vars(Compute) /\ WF_vars(Pilot)

-----------------------------------------------------------------------------
Holding(u, j) == CASE u.in = "pin" -> pin[main.layer][u.z]
                   [] u.in = "cache" -> slot[main.layer][u.z]
                   [] u.in = "ws" -> ws[j]

\* Every expert of the block is multiplied with its own, complete weights, from
\* wherever they were taken: what the comment at glm.c:756-766 promises of the
\* pilot, and what makes its output the one without it.
MatmulReadsLoaded ==
    main.at = "matmul" =>
        \A j \in DOMAIN main.use : Holding(main.use[j], j) = Full(main.need[j])

\* While the main thread works with a layer's slots, no load into that layer is
\* in flight (part 1 of the same comment).
PilotStaysAhead == main.at \in InMoe => Inflight # main.layer

\* A layer's cache holds no expert twice, though two threads fill it and the
\* prediction was looked up long before it is loaded.
NoExpertTwice ==
    \A l \in Sparse : \A y, z \in 1 .. ecn[l] :
        y # z /\ slot[l][y].eid # None => slot[l][y].eid # slot[l][z].eid

\* The block just computed stays in memory if it fits: promotion takes the slot
\* of no expert that the same block used, hit or promoted.
KeepsWhatItUsed ==
    [][LET l == main.layer
           wanted == {main.need[j] : j \in {i \in DOMAIN main.use : main.use[i].in # "pin"}}
       IN Promote /\ Cardinality(wanted) <= Cap =>
            wanted \subseteq {slot'[l][z].eid : z \in 1 .. ecn'[l]}]_vars

\* A pass that waits for the pilot gets its layer, whether the load succeeds.
BarrierOpens == main.at = "wait" ~> main.at = "resolve"
=============================================================================
