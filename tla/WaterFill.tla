------------------------------ MODULE WaterFill ------------------------------
(***************************************************************************)
(* The layer-capacity study of c/tools/variable_size_cache_oracle.py: the  *)
(* streams are replayed as in CachePolicies, the stack distances give each *)
(* layer its miss curve, and dp_allocate() splits a total of cache units   *)
(* among the layers so that the misses add up to the least.                *)
(*                                                                         *)
(* The study assumes equal sizes; bytes are misses times that size, so     *)
(* curves count misses here.                                               *)
(***************************************************************************)
EXTENDS CachePolicies

CONSTANT Totals     \* totals of units to be split
WaterFillAssumption == Totals \subseteq Nat
ASSUME WaterFillAssumption

VARIABLES
    phase,    \* "replay", "plan" (the DP over the layers), "spend" (back through choice), "done", "failed"
    total,
    layer,    \* that the loop at hand is about
    dp,       \* dp[u]: the least misses of the layers so far with u units
    choice,   \* choice[l][u]: the units of layer l in that
    allocation,
    left      \* units not yet handed out

planVars == <<phase, total, layer, dp, choice, allocation, left>>
allVars == <<vars, planVars>>

\* mattson_miss_curve: misses at each capacity, from the histogram of the distances.
Curve(l) == [c \in 0..MaxCap |-> Len(dist[l]) - Cardinality({i \in DOMAIN dist[l] : dist[l][i] <= c})]

\* More misses than there are requests: units that cannot all be spent.
NoWay == 1 + SumFunction([l \in Layers |-> Len(case.stream[l])])
-----------------------------------------------------------------------------
WaterFillInit ==
    /\ Init
    /\ phase = "replay" /\ total = 0 /\ layer = 0 /\ left = 0
    /\ dp = <<>> /\ choice = [l \in Layers |-> <<>>] /\ allocation = [l \in Layers |-> 0]

Replay == phase = "replay" /\ Next /\ UNCHANGED planVars

SameSizes == \A l, k \in Layers, e, f \in Experts : case.size[l][e] = case.size[k][f]

StartPlan ==
    /\ phase = "replay" /\ Replayed /\ SameSizes
    /\ phase' = "plan" /\ layer' = 1
    /\ total' \in Totals
    /\ dp' = [u \in 0..total' |-> IF u = 0 THEN 0 ELSE NoWay]
    /\ UNCHANGED <<vars, choice, allocation, left>>

\* Mutant of Splits: range() without its + 1.
SplitsShort(u) == {k \in 0..Min({MaxCap, u}) - 1 : dp[u - k] # NoWay}

\* Units for one layer: the fewest misses, of equal ones the fewest units.
Splits(u) == {k \in 0..Min({MaxCap, u}) : dp[u - k] # NoWay}
BestSplit(curve, u) ==
    LET misses(k) == dp[u - k] + curve[k]
    IN  CHOOSE k \in Splits(u) :
            \A j \in Splits(u) : \/ misses(k) < misses(j)
                                 \/ misses(k) = misses(j) /\ k <= j

PlanLayer ==
    /\ phase = "plan"
    /\ LET curve == Curve(layer)
           possible(u) == Splits(u) # {}
           k(u) == BestSplit(curve, u)
       IN  /\ dp' = [u \in 0..total |-> IF possible(u) THEN dp[u - k(u)] + curve[k(u)] ELSE NoWay]
           /\ choice' = [choice EXCEPT ![layer] = [u \in 0..total |-> IF possible(u) THEN k(u) ELSE 0]]
    /\ IF layer < NLayers
       THEN layer' = layer + 1 /\ UNCHANGED <<phase, left>>
       ELSE phase' = "spend" /\ left' = total /\ UNCHANGED layer
    /\ UNCHANGED <<vars, total, allocation>>

SpendLayer ==
    /\ phase = "spend" /\ layer > 0
    /\ allocation' = [allocation EXCEPT ![layer] = choice[layer][left]]
    /\ left' = left - choice[layer][left]
    /\ layer' = layer - 1
    /\ UNCHANGED <<vars, phase, total, dp, choice>>

\* "DP failed to spend the full budget"
FinishPlan ==
    /\ phase = "spend" /\ layer = 0
    /\ phase' = IF left = 0 THEN "done" ELSE "failed"
    /\ UNCHANGED <<vars, total, layer, dp, choice, allocation, left>>

WaterFillNext == Replay \/ StartPlan \/ PlanLayer \/ SpendLayer \/ FinishPlan
WaterFillSpec == WaterFillInit /\ [][WaterFillNext]_allVars
-----------------------------------------------------------------------------
\* eval_allocation, told by the replays: the misses of slot-LRUs of these capacities.
Cost(units) == SumFunction([l \in Layers |-> Cardinality(slotMissed[l][Min({units[l], MaxCap})])])

\* The allocation spends the total and no split of it, the equal one of today's
\* engine included, would have missed less in the replay (the tests'
\* test_matches_brute_force_on_tiny_instances, test_never_worse_than_uniform); the
\* assertion fires exactly when the layers cannot take that many units.
WaterFillIsBest ==
    /\ phase \in {"done", "failed"} => (phase = "failed" <=> total > NLayers * MaxCap)
    /\ phase = "done" =>
        /\ SumFunction(allocation) = total
        /\ Cost(allocation) = dp[total]
        /\ Cost(allocation) <= Cost([l \in Layers |-> total \div NLayers])
        /\ \A units \in [Layers -> 0..MaxCap] :
               SumFunction(units) = total => Cost(allocation) <= Cost(units)
=============================================================================
