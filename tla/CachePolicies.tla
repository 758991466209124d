---------------------------- MODULE CachePolicies ----------------------------
(***************************************************************************)
(* The cache replays of c/tools/variable_size_cache_oracle.py: the streams *)
(* of expert requests of a trace, one for each layer, go through byte-LRU, *)
(* size-normalised reuse distance, GreedyDual-Size and two Belady          *)
(* greedies, and through the LRU stack that yields the slot-LRU's miss     *)
(* curve without a replay for each capacity.                               *)
(*                                                                         *)
(* The tool replays a stream once for each policy; here a step is one      *)
(* request, handed to all of them.  A cache is a function from experts to  *)
(* the position of the request that an OrderedDict or dict orders its      *)
(* entries by, 0 for an expert that is not cached.  A loop that evicts one *)
(* victim after the other until the bytes fit is the set of those that     *)
(* stay (Staying); GreedyDual-Size has its heap, stale entries and all.    *)
(***************************************************************************)
EXTENDS Integers, Sequences, FiniteSets, SequencesExt

CONSTANTS
    Experts,
    NLayers,
    MaxCap,   \* the largest slot count on the miss curves
    Cases     \* what is replayed: streams and sizes for each layer, a byte budget

Layers == 1..NLayers

Studies == [stream: [Layers -> Seq(Experts)],
            size: [Layers -> [Experts -> Nat \ {0}]],
            budget: Nat]
CachePoliciesAssumption ==
    /\ IsFiniteSet(Experts) /\ NLayers \in Nat \ {0} /\ MaxCap \in Nat
    /\ Cases \subseteq Studies
ASSUME CachePoliciesAssumption

VARIABLES
    case,     \* the case at hand
    at,       \* at[l]: requests of layer l replayed so far
    lru,      \* byte-LRU: when each expert was last asked for
    snrd,     \* .last: the same; .born: when it was cached
    gds,      \* .h, .seq: the entry of each expert (seq 0: none); .n, .level: the counters;
              \* .heap: what has been pushed, the entries that a hit has made stale included
    demand,   \* farthest next use, insertion mandatory: when it was cached
    bypass,   \* farthest next use, the newcomer may be the victim
    stack,    \* most recently requested first
    dist,     \* stack distance of each request so far
    slots,    \* slots[l][c]: LRU of c slots
    missed,   \* requests that each policy has missed
    slotMissed

vars == <<case, at, lru, snrd, gds, demand, bypass, stack, dist, slots, missed, slotMissed>>

Policies == {"byte_lru", "snrd", "gds_cost_size", "belady_demand", "belady_bytes"}

\* Beyond every position and every capacity.
Inf(l) == Len(case.stream[l]) + MaxCap + 1

Nothing == [e \in Experts |-> 0]
Cached(stamp) == {e \in Experts : stamp[e] > 0}

Weight(l, S) == SumFunctionOnSet(case.size[l], S)
TooBig(l, x) == case.size[l][x] > case.budget
\* Mutant of RoomBeside: an off-by-one at a full cache.
RoomShort(l, x) == case.budget - case.size[l][x] - 1

\* What may stay beside a newcomer.
RoomBeside(l, x) == case.budget - case.size[l][x]

\* Of the cached set R the victims go in the order Sooner until the rest fits into
\* room: those from some k on stay.
Staying(l, R, room, Sooner(_, _)) ==
    {e \in R : \E k \in R : /\ ~ Sooner(e, k)
                            /\ Weight(l, {f \in R : ~ Sooner(f, k)}) <= room}

Only(stamp, stay) == [e \in Experts |-> IF e \in stay THEN stamp[e] ELSE 0]
\* The newcomer x joins, at time t, those that stay.
Joined(stamp, stay, x, t) == [Only(stamp, stay) EXCEPT ![x] = t]

\* Mutant of NextUse: the last position after t.
LastUse(l, e, t) ==
    LET later == {i \in t+1..Len(case.stream[l]) : case.stream[l][i] = e}
    IN  IF later = {} THEN Inf(l) ELSE CHOOSE i \in later : \A j \in later : i >= j

\* The position after t at which e is asked for next.
NextUse(l, e, t) ==
    LET later == {i \in t+1..Len(case.stream[l]) : case.stream[l][i] = e}
    IN  IF later = {} THEN Inf(l) ELSE CHOOSE i \in later : \A j \in later : i <= j
-----------------------------------------------------------------------------
Init ==
    /\ case \in Cases
    /\ at = [l \in Layers |-> 0]
    /\ lru = [l \in Layers |-> Nothing]
    /\ snrd = [l \in Layers |-> [last |-> Nothing, born |-> Nothing]]
    /\ gds = [l \in Layers |-> [h |-> Nothing, seq |-> Nothing, n |-> 0, level |-> 0, heap |-> {}]]
    /\ demand = [l \in Layers |-> Nothing]
    /\ bypass = [l \in Layers |-> Nothing]
    /\ stack = [l \in Layers |-> <<>>]
    /\ dist = [l \in Layers |-> <<>>]
    /\ slots = [l \in Layers |-> [c \in 0..MaxCap |-> Nothing]]
    /\ missed = [l \in Layers |-> [p \in Policies |-> {}]]
    /\ slotMissed = [l \in Layers |-> [c \in 0..MaxCap |-> {}]]

\* replay_byte_lru: an OrderedDict, the first entry of which goes first.
ByteLru(l, x, t) ==
    \/ /\ x \in Cached(lru[l])
       /\ lru' = [lru EXCEPT ![l][x] = t]
    \/ /\ x \notin Cached(lru[l]) /\ TooBig(l, x)
       /\ UNCHANGED lru
    \/ /\ x \notin Cached(lru[l]) /\ ~ TooBig(l, x)
       /\ LET older(f, e) == lru[l][f] < lru[l][e]
              stay == Staying(l, Cached(lru[l]), RoomBeside(l, x), older)
          IN  lru' = [lru EXCEPT ![l] = Joined(lru[l], stay, x, t)]

\* replay_snrd: the largest product of age and size goes first; of equal ones
\* the one that max() meets first.
Snrd(l, x, t) ==
    LET s == snrd[l]
        R == Cached(s.last)
        score(e) == (t - s.last[e]) * case.size[l][e]
        staler(f, e) == \/ score(f) > score(e)
                        \/ score(f) = score(e) /\ s.born[f] < s.born[e]
        stay == Staying(l, R, RoomBeside(l, x), staler)
    IN  \/ /\ x \in R
           /\ snrd' = [snrd EXCEPT ![l].last[x] = t]
        \/ /\ x \notin R /\ TooBig(l, x)
           /\ UNCHANGED snrd
        \/ /\ x \notin R /\ ~ TooBig(l, x)
           /\ snrd' = [snrd EXCEPT ![l] = [last |-> Joined(s.last, stay, x, t),
                                           born |-> Joined(s.born, stay, x, t)]]

\* replay_gds with cost = size: the credit is 1, the heap gives up the least (H, seq),
\* and the level from which later credits count is the H of the last victim.
PopsBefore(j, k) == j.h < k.h \/ (j.h = k.h /\ j.seq < k.seq)

\* Mutant of Live: whatever names a cached expert counts, stale or not.
LiveIfCached(g, k) == g.seq[k.e] > 0

\* A hit pushes a new entry and leaves the old one in the heap.
Live(g, k) == g.seq[k.e] = k.seq
Victims(g, K) == {k \in K : Live(g, k)}
Beside(g, K) == Cached(g.seq) \ {k.e : k \in Victims(g, K)}

\* The heap gives up one entry after the other until the bytes fit: those that find
\* too many left by the ones before.
Popped(l, g, room) ==
    {k \in g.heap : Weight(l, Beside(g, {j \in g.heap : PopsBefore(j, k)})) > room}

Push(g, popped, x, level) ==
    LET stay == Beside(g, popped)
    IN  [h     |-> Joined(g.h, stay, x, level + 1),
         seq   |-> Joined(g.seq, stay, x, g.n + 1),
         n     |-> g.n + 1,
         level |-> level,
         heap  |-> (g.heap \ popped) \cup {[h |-> level + 1, seq |-> g.n + 1, e |-> x]}]

Gds(l, x) ==
    LET g == gds[l]
        R == Cached(g.seq)
        popped == Popped(l, g, RoomBeside(l, x))
        gone == Victims(g, popped)
    IN  \/ /\ x \in R
           /\ gds' = [gds EXCEPT ![l] = Push(g, {}, x, g.level)]
        \/ /\ x \notin R /\ TooBig(l, x)
           /\ UNCHANGED gds
        \/ /\ x \notin R /\ ~ TooBig(l, x) /\ gone = {}
           /\ gds' = [gds EXCEPT ![l] = Push(g, popped, x, g.level)]
        \/ /\ x \notin R /\ ~ TooBig(l, x)
           /\ \E last \in gone :
                  /\ \A v \in gone : v = last \/ PopsBefore(v, last)
                  /\ gds' = [gds EXCEPT ![l] = Push(g, popped, x, last.h)]

\* The order of both greedies: farthest next use, then size, then dict order.
Farther(l, stamp, t, f, e) ==
    LET u(y) == NextUse(l, y, t)
        z == case.size[l]
    IN  \/ u(f) > u(e)
        \/ u(f) = u(e) /\ z[f] > z[e]
        \/ u(f) = u(e) /\ z[f] = z[e] /\ stamp[f] < stamp[e]

\* replay_belady_demand
BeladyDemand(l, x, t) ==
    LET R == Cached(demand[l])
        farther(f, e) == Farther(l, demand[l], t, f, e)
        stay == Staying(l, R, RoomBeside(l, x), farther)
    IN  \/ (x \in R \/ TooBig(l, x)) /\ UNCHANGED demand
        \/ /\ x \notin R /\ ~ TooBig(l, x)
           /\ demand' = [demand EXCEPT ![l] = Joined(demand[l], stay, x, t)]

\* replay_belady_bytes: the newcomer is a candidate like the others.
BeladyBytes(l, x, t) ==
    LET R == Cached(bypass[l])
        all == Joined(bypass[l], R, x, t)
        farther(f, e) == Farther(l, all, t, f, e)
        stay == Staying(l, R \cup {x}, case.budget, farther)
    IN  \/ (x \in R \/ TooBig(l, x)) /\ UNCHANGED bypass
        \/ /\ x \notin R /\ ~ TooBig(l, x)
           /\ bypass' = [bypass EXCEPT ![l] = Only(all, stay)]

\* Mutant of Mattson: the index of a Python list, from 0, is taken for the distance.
MattsonFromZero(l, x) ==
    LET s == stack[l]
        found == {i \in DOMAIN s : s[i] = x}
    IN  \/ /\ found = {}
           /\ dist' = [dist EXCEPT ![l] = Append(@, Inf(l))]
           /\ stack' = [stack EXCEPT ![l] = <<x>> \o @]
        \/ \E i \in found :
              /\ \A j \in found : i <= j
              /\ dist' = [dist EXCEPT ![l] = Append(@, i - 1)]
              /\ stack' = [stack EXCEPT ![l] = <<x>> \o RemoveAt(@, i)]

\* mattson_stack_distances
Mattson(l, x) ==
    LET s == stack[l]
        found == {i \in DOMAIN s : s[i] = x}
    IN  \/ /\ found = {}
           /\ dist' = [dist EXCEPT ![l] = Append(@, Inf(l))]
           /\ stack' = [stack EXCEPT ![l] = <<x>> \o @]
        \/ \E i \in found :
              /\ \A j \in found : i <= j
              /\ dist' = [dist EXCEPT ![l] = Append(@, i)]
              /\ stack' = [stack EXCEPT ![l] = <<x>> \o RemoveAt(@, i)]

\* simulate_lru of simulate_m5max_cache.py, for every capacity: one goes when all slots are taken.
SlotLru(l, x, t) ==
    slots' = [slots EXCEPT ![l] = [c \in 0..MaxCap |->
        LET s == slots[l][c]
            R == Cached(s)
            stay == {e \in R : Cardinality(R) < c \/ \E f \in R : s[f] < s[e]}
        IN  IF x \in R THEN [s EXCEPT ![x] = t]
            ELSE IF c = 0 THEN s ELSE Joined(s, stay, x, t)]]

Count(l, x, t) ==
    LET held == [byte_lru      |-> Cached(lru[l]),
                 snrd          |-> Cached(snrd[l].last),
                 gds_cost_size |-> Cached(gds[l].seq),
                 belady_demand |-> Cached(demand[l]),
                 belady_bytes  |-> Cached(bypass[l])]
        add(S, R) == IF x \in R THEN S ELSE S \cup {t}
    IN  /\ missed' = [missed EXCEPT ![l] = [p \in Policies |-> add(@[p], held[p])]]
        /\ slotMissed' = [slotMissed EXCEPT
                ![l] = [c \in 0..MaxCap |-> add(@[c], Cached(slots[l][c]))]]

\* The next request of layer l; the layers are replayed one after the other.
Request(l) ==
    /\ at[l] < Len(case.stream[l])
    /\ \A k \in Layers : k < l => at[k] = Len(case.stream[k])
    /\ LET t == at[l] + 1
           x == case.stream[l][t]
       IN  /\ at' = [at EXCEPT ![l] = t]
           /\ ByteLru(l, x, t) /\ Snrd(l, x, t) /\ Gds(l, x)
           /\ BeladyDemand(l, x, t) /\ BeladyBytes(l, x, t)
           /\ Mattson(l, x) /\ SlotLru(l, x, t) /\ Count(l, x, t)
    /\ UNCHANGED case

Replayed == \A l \in Layers : at[l] = Len(case.stream[l])

Next == \E l \in Layers : Request(l)
Spec == Init /\ [][Next]_vars
-----------------------------------------------------------------------------
Stamps == [Experts -> Nat]
Entries == [h: Nat, seq: Nat, e: Experts]

\* Stamps, counters and distances are naturals, the stacks hold experts.
TypeOK ==
    /\ case \in Studies
    /\ at \in [Layers -> Nat]
    /\ lru \in [Layers -> Stamps]
    /\ snrd \in [Layers -> [last: Stamps, born: Stamps]]
    /\ gds \in [Layers -> [h: Stamps, seq: Stamps, n: Nat, level: Nat, heap: SUBSET Entries]]
    /\ demand \in [Layers -> Stamps] /\ bypass \in [Layers -> Stamps]
    /\ stack \in [Layers -> Seq(Experts)]
    /\ dist \in [Layers -> Seq(Nat)]
    /\ slots \in [Layers -> [0..MaxCap -> Stamps]]
    /\ missed \in [Layers -> [Policies -> SUBSET Nat]]
    /\ slotMissed \in [Layers -> [0..MaxCap -> SUBSET Nat]]

\* "provably identical to byte-LRU when miss cost is proportional to size"
\* (lines 28-30): the two miss the same requests and hold the same experts.
GdsIsLru ==
    \A l \in Layers :
        /\ missed[l]["gds_cost_size"] = missed[l]["byte_lru"]
        /\ Cached(gds[l].seq) = Cached(lru[l])

\* mattson_miss_curve: "a request at stack distance d hits iff capacity >= d",
\* said of the replayed LRU of every capacity.
CurveIsExact ==
    \A l \in Layers, c \in 0..MaxCap :
        slotMissed[l][c] = {i \in 1..at[l] : dist[l][i] > c}

\* "byte-LRU at c*item_bytes == item-LRU at c" (line 157), and SNRD is then LRU too
\* (test_snrd_equals_lru_under_uniform_sizes).
Uniform(l) == \A e, f \in Experts : case.size[l][e] = case.size[l][f]
UniformIsSlotLru ==
    \A l \in Layers : Uniform(l) =>
        \A e \in Experts :
            LET c == case.budget \div case.size[l][e]
            IN  c <= MaxCap => /\ missed[l]["byte_lru"] = slotMissed[l][c]
                               /\ missed[l]["snrd"] = slotMissed[l][c]

\* The fewest misses on the stream of layer l: all ways to serve it, as pairs of a
\* cached set and its misses so far (brute_force_optimal_misses() of the tests).
Ways(l, may_bypass, fit, ways, x) ==
    UNION {LET S == w[1]
               kept == {K \cup {x} : K \in SUBSET S} \cap fit
           IN  IF x \in S THEN {w}
               ELSE {<<T, w[2] + 1>> : T \in kept \cup (IF may_bypass \/ TooBig(l, x) THEN {S} ELSE {})}
           : w \in ways}
Fewest(l, may_bypass) ==
    LET fit == {S \in SUBSET Experts : Weight(l, S) <= case.budget}
    IN  Min({w[2] : w \in FoldLeft(LAMBDA ways, x : Ways(l, may_bypass, fit, ways, x),
                                   {<<{}, 0>>}, case.stream[l])})
Misses(l, p) == Cardinality(missed[l][p])

\* The Belady greedies are bounds that a cache can meet: never below the optimum of
\* their class (test_belady_bytes_bounded_by_true_optimum), and with uniform sizes
\* the optimum itself, so that LRU's distance to them is headroom and not an artefact.
BeladyBounds ==
    \A l \in Layers : (at[l] > 0 /\ at[l] = Len(case.stream[l])) =>
        LET best == Fewest(l, TRUE)
            bestDemand == Fewest(l, FALSE)
        IN  /\ best <= Misses(l, "belady_bytes") /\ bestDemand <= Misses(l, "belady_demand")
            /\ bestDemand <= Misses(l, "byte_lru") /\ bestDemand <= Misses(l, "snrd")
            /\ Uniform(l) => /\ Misses(l, "belady_bytes") = best
                             /\ Misses(l, "belady_demand") = bestDemand
=============================================================================
